---------------------------- MODULE ExtentLemmas ----------------------------
(***************************************************************************)
(* Lemmas about the trees of ExtentTree, of any size and shape: the        *)
(* descent of lwext4_find_extent in a tree that is in order, and what each *)
(* change of one or two nodes leaves of that order and of the lookups.     *)
(***************************************************************************)
EXTENDS ExtentInvariant, FiniteSetTheorems, SequenceTheorems, WellFoundedInduction, TLAPS

-----------------------------------------------------------------------------
(* Numbers and sequences. *)

(* A set of numbers that is not empty has a least one. *)
LEMMA Least ==
  ASSUME NEW S \in SUBSET Nat, S # {} PROVE \E n \in S : \A m \in S : n <= m
<1>1. PICK n \in S : \A m \in S : ~(<<m, n>> \in OpToRel(<, Nat))
  BY Zenon, NatLessThanWellFounded, WFMin
<1>2. ASSUME NEW m \in S PROVE n <= m
  <2>1. m < n => <<m, n>> \in OpToRel(<, Nat)
    BY DEF OpToRel
  <2>2. m \in Nat /\ n \in Nat /\ ~(m < n)
    BY Zenon, <1>1, <2>1
  <2> QED BY <2>2
<1> QED BY <1>2

(* A set of numbers that has 0 and with a number the next has all. *)
LEMMA Upwards ==
  ASSUME NEW S, 0 \in S, \A n \in Nat : n \in S => n + 1 \in S
  PROVE  Nat \subseteq S
<1> SUFFICES ASSUME Nat \ S # {} PROVE FALSE
  OBVIOUS
<1>1. PICK n \in Nat \ S : \A m \in Nat \ S : n <= m
  BY Zenon, Least
<1>2. n # 0 /\ n - 1 \in Nat /\ ~(n <= n - 1)
  BY <1>1
<1>3. n - 1 \in S
  BY <1>1, <1>2
<1>4. (n - 1) + 1 \in S
  BY <1>2, <1>3
<1> QED BY <1>1, <1>4

(* A set of numbers up to n that is not empty has a greatest one. *)
LEMMA Greatest ==
  ASSUME NEW n \in Nat, NEW S \in SUBSET (0 .. n), S # {}
  PROVE  \E m \in S : \A k \in S : k <= m
<1> DEFINE T == {k \in Nat : n - k \in S}
<1>1. PICK s \in S : TRUE
  BY Zenon
<1>2. n - s \in Nat /\ n - (n - s) = s
  OBVIOUS
<1>3. T \in SUBSET Nat /\ n - s \in T
  BY <1>2
<1>4. PICK t \in T : \A k \in T : t <= k
  <2> HIDE DEF T
  <2> QED BY <1>3, Least
<1>5. ASSUME NEW k \in S PROVE k <= n - t
  <2>1. n - k \in Nat /\ n - (n - k) = k
    OBVIOUS
  <2>2. n - k \in T
    BY <2>1
  <2>3. t <= n - k /\ t \in Nat
    BY Zenon, <1>4, <2>2
  <2> QED BY <2>3, <2>1
<1> QED BY <1>4, <1>5

(* The width of a block number does not matter: there is a last one, and
   arithmetic below it does not wrap. *)
LEMMA Width ==
  /\ LastLBlock \in Nat /\ LBlocks = 0 .. LastLBlock /\ 0 \in LBlocks
  /\ \A x \in 0 .. LastLBlock : Wrap(x) = x
<1> DEFINE w == 2^LBits
<1>1. w - 1 \in Nat /\ LastLBlock = w - 1 /\ LBlocks = 0 .. w - 1
  BY WidthAssumption DEF LastLBlock, LBlocks
<1>2. w \in Int
  BY SizeAssumption
<1>3. \A x : Wrap(x) = x % w
  BY DEF Wrap
<1> HIDE DEF w
<1>4. ASSUME NEW x \in 0 .. w - 1 PROVE x % w = x
  BY <1>1, <1>2
<1> QED BY <1>1, <1>3, <1>4

(* t is s with e before entry p. *)
Opened(S, s, p, e, t) ==
    /\ t \in Seq(S) /\ Len(t) = Len(s) + 1
    /\ \A q \in 1 .. Len(s) + 1 : t[q] = IF q < p THEN s[q] ELSE IF q = p THEN e ELSE s[q - 1]

(* What InsertAt does *)
LEMMA InsertAtIs ==
  ASSUME NEW S, NEW s \in Seq(S), NEW e \in S, NEW p \in 1 .. Len(s) + 1
  PROVE  Opened(S, s, p, e, InsertAt(s, p, e))
<1> DEFINE n == Len(s)
           a == SubSeq(s, 1, p - 1)
           c == SubSeq(s, p, n)
           t == a \o <<e>>
<1>1. n \in Nat /\ \A i \in 1 .. n : s[i] \in S
  OBVIOUS
<1>2. p \in Int /\ p >= 1 /\ p <= n + 1
  BY <1>1
<1>3. a \in Seq(S) /\ Len(a) = p - 1 /\ \A i \in 1 .. p - 1 : a[i] = s[i]
  <2>1. \A i \in 1 .. p - 1 : s[i] \in S
    BY <1>1, <1>2
  <2>2. 1 \in Int /\ p - 1 \in Int
    BY <1>2
  <2> QED BY <2>1, <2>2, <1>2, SubSeqProperties
<1>4. c \in Seq(S) /\ Len(c) = n + 1 - p /\ \A i \in 1 .. n + 1 - p : c[i] = s[p + i - 1]
  <2>1. \A i \in p .. n : s[i] \in S
    BY <1>1, <1>2
  <2>2. n \in Int
    BY <1>1
  <2>3. c \in Seq(S) /\ Len(c) = (IF p <= n THEN n - p + 1 ELSE 0) /\ \A i \in 1 .. n - p + 1 : c[i] = s[p + i - 1]
    BY <2>1, <2>2, <1>2, SubSeqProperties
  <2> QED BY <2>3, <1>1, <1>2
<1>5. <<e>> \in Seq(S) /\ Len(<<e>>) = 1 /\ <<e>>[1] = e
  OBVIOUS
<1> DEFINE u == <<e>>
<1>6. InsertAt(s, p, e) = t \o c
  BY DEF InsertAt
<1>7. u \in Seq(S) /\ Len(u) = 1 /\ u[1] = e
  BY <1>5
<1> HIDE DEF a, c, u
<1>8. t = a \o u
  BY DEF u
<1> HIDE DEF t
<1>9. t \in Seq(S) /\ Len(t) = p /\ \A i \in 1 .. p : t[i] = IF i <= p - 1 THEN a[i] ELSE u[i - (p - 1)]
  <2>1. /\ a \o u \in Seq(S) /\ Len(a \o u) = Len(a) + Len(u)
        /\ \A i \in 1 .. Len(a) + Len(u) : (a \o u)[i] = IF i <= Len(a) THEN a[i] ELSE u[i - Len(a)]
    BY Zenon, <1>3, <1>7, ConcatProperties
  <2>2. Len(a) + Len(u) = p
    BY <1>2, <1>3, <1>7
  <2> QED BY <2>1, <2>2, <1>3, <1>8
<1>10. /\ t \o c \in Seq(S) /\ Len(t \o c) = Len(t) + Len(c)
       /\ \A i \in 1 .. Len(t) + Len(c) : (t \o c)[i] = IF i <= Len(t) THEN t[i] ELSE c[i - Len(t)]
  BY Zenon, <1>4, <1>9, ConcatProperties
<1>11. Len(t) + Len(c) = n + 1
  BY <1>1, <1>2, <1>4, <1>9
<1>12. ASSUME NEW q \in 1 .. n + 1
       PROVE (t \o c)[q] = IF q < p THEN s[q] ELSE IF q = p THEN e ELSE s[q - 1]
  <2>1. (t \o c)[q] = IF q <= p THEN t[q] ELSE c[q - p]
    BY <1>9, <1>10, <1>11
  <2>2. CASE q < p
    BY <2>1, <2>2, <1>2, <1>3, <1>9
  <2>3. CASE q = p
    <3>1. t[q] = u[q - (p - 1)] /\ q - (p - 1) = 1
      BY <2>3, <1>2, <1>9
    <3> QED BY <3>1, <2>1, <2>3, <1>7, <1>2
  <2>4. CASE q > p
    <3>1. q - p \in 1 .. n + 1 - p /\ p + (q - p) - 1 = q - 1
      BY <2>4, <1>1, <1>2
    <3>2. c[q - p] = s[p + (q - p) - 1]
      BY Zenon, <3>1, <1>4
    <3> QED BY <3>1, <3>2, <2>1, <2>4, <1>2
  <2>5. q < p \/ q = p \/ q > p
    BY <1>1, <1>2
  <2> QED BY Zenon, <2>2, <2>3, <2>4, <2>5
<1> QED BY <1>6, <1>10, <1>11, <1>12 DEF Opened

(* What SubSeq does to a sequence of S *)
LEMMA SubSeqIs ==
  ASSUME NEW S, NEW s \in Seq(S), NEW m \in 1 .. Len(s) + 1, NEW n \in 0 .. Len(s), m <= n + 1
  PROVE  /\ SubSeq(s, m, n) \in Seq(S) /\ Len(SubSeq(s, m, n)) = n + 1 - m
         /\ \A i \in 1 .. n + 1 - m : SubSeq(s, m, n)[i] = s[m + i - 1]
<1>1. Len(s) \in Nat /\ \A i \in 1 .. Len(s) : s[i] \in S
  OBVIOUS
<1>2. m \in Int /\ n \in Int /\ \A i \in m .. n : s[i] \in S
  BY <1>1
<1>3. /\ SubSeq(s, m, n) \in Seq(S) /\ Len(SubSeq(s, m, n)) = (IF m <= n THEN n - m + 1 ELSE 0)
      /\ \A i \in 1 .. n - m + 1 : SubSeq(s, m, n)[i] = s[m + i - 1]
  BY <1>2, SubSeqProperties
<1>4. n - m + 1 = n + 1 - m
  BY <1>2
<1> QED BY <1>2, <1>3, <1>4

(* What RemoveAt does *)
LEMMA RemoveAtIs ==
  ASSUME NEW S, NEW s \in Seq(S), NEW p \in 1 .. Len(s)
  PROVE  /\ RemoveAt(s, p) \in Seq(S) /\ Len(RemoveAt(s, p)) = Len(s) - 1
         /\ \A q \in 1 .. Len(s) - 1 : RemoveAt(s, p)[q] = IF q < p THEN s[q] ELSE s[q + 1]
<1> DEFINE n == Len(s)
           a == SubSeq(s, 1, p - 1)
           c == SubSeq(s, p + 1, n)
<1>1. n \in Nat /\ p \in Int /\ 1 <= p /\ p <= n
  OBVIOUS
<1>2. a \in Seq(S) /\ Len(a) = p - 1 /\ \A i \in 1 .. p - 1 : a[i] = s[i]
  <2>1. 1 \in 1 .. n + 1 /\ p - 1 \in 0 .. n /\ 1 <= (p - 1) + 1 /\ (p - 1) + 1 - 1 = p - 1 /\ \A i \in 1 .. p - 1 : 1 + i - 1 = i
    BY <1>1
  <2> QED BY <2>1, SubSeqIs
<1>3. c \in Seq(S) /\ Len(c) = n - p /\ \A i \in 1 .. n - p : c[i] = s[p + i]
  <2>1. p + 1 \in 1 .. n + 1 /\ n \in 0 .. n /\ p + 1 <= n + 1 /\ n + 1 - (p + 1) = n - p /\ \A i \in 1 .. n - p : (p + 1) + i - 1 = p + i
    BY <1>1
  <2> QED BY <2>1, SubSeqIs
<1>4. RemoveAt(s, p) = a \o c
  BY DEF RemoveAt
<1> HIDE DEF a, c
<1>5. /\ a \o c \in Seq(S) /\ Len(a \o c) = Len(a) + Len(c)
      /\ \A i \in 1 .. Len(a) + Len(c) : (a \o c)[i] = IF i <= Len(a) THEN a[i] ELSE c[i - Len(a)]
  BY Zenon, <1>2, <1>3, ConcatProperties
<1>6. Len(a) + Len(c) = n - 1
  BY <1>1, <1>2, <1>3
<1>7. ASSUME NEW q \in 1 .. n - 1 PROVE (a \o c)[q] = IF q < p THEN s[q] ELSE s[q + 1]
  <2>1. (a \o c)[q] = IF q <= p - 1 THEN a[q] ELSE c[q - (p - 1)]
    BY <1>2, <1>5, <1>6
  <2>2. CASE q < p
    BY <2>1, <2>2, <1>1, <1>2
  <2>3. CASE q >= p
    <3>1. q - (p - 1) \in 1 .. n - p /\ p + (q - (p - 1)) = q + 1
      BY <2>3, <1>1
    <3>2. c[q - (p - 1)] = s[p + (q - (p - 1))]
      BY <3>1, <1>3
    <3> QED BY <3>1, <3>2, <2>1, <2>3, <1>1
  <2>4. q < p \/ q >= p
    BY <1>1
  <2> QED BY Zenon, <2>2, <2>3, <2>4
<1> QED BY <1>4, <1>5, <1>6, <1>7

-----------------------------------------------------------------------------
(* Nodes and the search in a node. *)

(* What a node that fits has *)
LEMMA NodeIs ==
  ASSUME NEW b, NEW n, Fit(b, n)
  PROVE  /\ n \in Nodes /\ n.depth \in 0 .. MaxDepth /\ Len(n.ents) \in Nat
         /\ n = [depth |-> n.depth, ents |-> n.ents]
         /\ n.ents = <<>> <=> Len(n.ents) = 0
         /\ n.depth = 0 => n \in Leaves /\ n.ents \in Seq(Extents) /\ \A p \in 1 .. Len(n.ents) : n.ents[p] \in Extents
         /\ n.depth # 0 => n \in Inner /\ n.depth \in 1 .. MaxDepth /\ n.ents \in Seq(Indexes) /\ \A p \in 1 .. Len(n.ents) : n.ents[p] \in Indexes
<1>1. /\ n \in Leaves => n.depth = 0 /\ n.ents \in Seq(Extents) /\ n = [depth |-> n.depth, ents |-> n.ents]
      /\ n \in Inner => n.depth \in 1 .. MaxDepth /\ n.ents \in Seq(Indexes) /\ n = [depth |-> n.depth, ents |-> n.ents]
  BY DEF Leaves, Inner
<1>2. n \in Nodes /\ (n \in Leaves \/ n \in Inner)
  BY DEF Fit, Nodes
<1>3. MaxDepth \in Nat
  BY SizeAssumption
<1>4. CASE n \in Leaves
  <2>1. n.ents \in Seq(Extents) /\ n.depth = 0
    BY <1>1, <1>4
  <2>2. Len(n.ents) \in Nat /\ (n.ents = <<>> <=> Len(n.ents) = 0) /\ \A p \in 1 .. Len(n.ents) : n.ents[p] \in Extents
    BY <2>1, EmptySeq
  <2> QED BY <1>1, <1>2, <1>3, <1>4, <2>1, <2>2
<1>5. CASE n \in Inner
  <2>1. n.ents \in Seq(Indexes) /\ n.depth \in 1 .. MaxDepth
    BY <1>1, <1>5
  <2>2. Len(n.ents) \in Nat /\ (n.ents = <<>> <=> Len(n.ents) = 0) /\ \A p \in 1 .. Len(n.ents) : n.ents[p] \in Indexes
    BY <2>1, EmptySeq
  <2> QED BY <1>1, <1>2, <1>3, <1>5, <2>1, <2>2
<1> QED BY <1>2, <1>4, <1>5

(* What its entries have *)
LEMMA EntryIs ==
  ASSUME NEW b, NEW n, Fit(b, n), NEW p \in 1 .. Len(n.ents)
  PROVE  /\ n.ents # <<>> /\ n.ents[p].first \in LBlocks /\ n.ents[p].first \in 0 .. LastLBlock
         /\ n.depth # 0 => n.ents[p].child \in Blocks /\ n.ents[p] = [first |-> n.ents[p].first, child |-> n.ents[p].child]
         /\ n.depth = 0 => /\ n.ents[p].len \in 1 .. MaxLen /\ n.ents[p].start \in Blocks
                           /\ n.ents[p].unwritten \in BOOLEAN
                           /\ End64(n.ents[p]) = n.ents[p].first + n.ents[p].len
                           /\ End(n.ents[p]) = End64(n.ents[p])
                           /\ End64(n.ents[p]) \in 1 .. LastLBlock
                           /\ n.ents[p].start + n.ents[p].len - 1 <= NBlocks
<1>1. Len(n.ents) \in Nat /\ n.ents # <<>>
  BY NodeIs
<1>2. LastLBlock \in Nat /\ LBlocks = 0 .. LastLBlock /\ MaxLen \in Nat /\ NBlocks \in Nat /\ Blocks = 1 .. NBlocks
  BY Width, SizeAssumption DEF Blocks
<1>3. CASE n.depth = 0
  <2>1. n.ents[p] \in Extents /\ ValidExtent(n.ents[p]) /\ End64(n.ents[p]) <= LastLBlock
    BY <1>3, NodeIs DEF Fit
  <2> DEFINE e == n.ents[p]
  <2>2. e.first \in LBlocks /\ e.len \in 1 .. MaxLen /\ e.start \in Blocks /\ e.unwritten \in BOOLEAN
    BY <2>1 DEF Extents
  <2>3. End64(e) = e.first + e.len /\ e.start + e.len - 1 <= NBlocks
    BY <2>1 DEF End64, ValidExtent
  <2>4. End64(e) <= LastLBlock
    BY <2>1
  <2> HIDE DEF e
  <2>5. End64(e) \in 1 .. LastLBlock /\ End64(e) \in 0 .. LastLBlock
    BY <1>2, <2>2, <2>3, <2>4
  <2>6. End(e) = End64(e)
    BY <2>3, <2>5, Width DEF End
  <2> QED BY <1>1, <1>2, <1>3, <2>2, <2>3, <2>5, <2>6 DEF e
<1>4. CASE n.depth # 0
  BY Zenon, <1>1, <1>2, <1>4, NodeIs DEF Indexes
<1> QED BY <1>3, <1>4

(* It passes the code's own validation. *)
LEMMA FitValid ==
  ASSUME NEW b, NEW n, Fit(b, n)
  PROVE  /\ ValidHeader(b, n) /\ ValidEntries(n)
         /\ \A p \in 1 .. Len(n.ents) : ValidSelected(n, p)
<1>1. Len(n.ents) \in Nat /\ n.depth \in 0 .. MaxDepth
  BY NodeIs
<1>2. ValidHeader(b, n)
  BY <1>1 DEF ValidHeader, Fit
<1>3. ASSUME NEW p \in 1 .. Len(n.ents) PROVE ValidEntry(n, p)
  BY Zenon, EntryIs, <1>1 DEF ValidEntry, Fit
<1>4. ASSUME NEW p \in 1 .. Len(n.ents) - 1 PROVE OrderedAt(n, p)
  <2>1. p \in 1 .. Len(n.ents) /\ p + 1 \in 1 .. Len(n.ents) /\ p < p + 1
    BY <1>1
  <2> QED BY <2>1 DEF OrderedAt, Fit, Apart, Keyed
<1>5. ValidEntries(n)
  BY <1>3, <1>4 DEF ValidEntries
<1>6. ASSUME NEW p \in 1 .. Len(n.ents) PROVE ValidSelected(n, p)
  <2>1. p > 1 => p - 1 \in 1 .. Len(n.ents) - 1
    BY <1>1
  <2>2. p < Len(n.ents) => p \in 1 .. Len(n.ents) - 1
    BY <1>1
  <2> QED BY <1>3, <1>4, <2>1, <2>2 DEF ValidSelected
<1> QED BY <1>2, <1>5, <1>6

(* position p is where the search for l in ents ends *)
At(ents, l, p) ==
    /\ p \in 1 .. Len(ents)
    /\ p = 1 \/ ents[p].first <= l
    /\ \A q \in p + 1 .. Len(ents) : l < ents[q].first

(* The binary search ends at one place. *)
LEMMA SearchIs ==
  ASSUME NEW b, NEW n, Fit(b, n), n.ents # <<>>, NEW l \in Int
  PROVE  /\ At(n.ents, l, SearchPos(n.ents, l))
         /\ \A p : At(n.ents, l, p) => p = SearchPos(n.ents, l)
<1> DEFINE E == n.ents
           m == Len(E)
           S == {p \in 1 .. m : p = 1 \/ E[p].first <= l}
<1>1. m \in Nat /\ m # 0
  BY NodeIs
<1>2. \A p \in 1 .. m : E[p].first \in Int
  <2>1. ASSUME NEW p \in 1 .. m PROVE E[p].first \in 0 .. LastLBlock
    BY Zenon, EntryIs
  <2> QED BY <2>1, Width
<1>3. Keyed(E)
  BY DEF Fit
<1> HIDE DEF E
<1>4. PICK p \in S : \A q \in S : q <= p
  <2>1. 1 \in S /\ S \subseteq 0 .. m
    BY <1>1
  <2> HIDE DEF S, m
  <2> QED BY <1>1, <2>1, Greatest
<1>5. At(E, l, p)
  <2>1. ASSUME NEW q \in p + 1 .. m PROVE l < E[q].first
    <3>1. q \in 1 .. m /\ ~(q <= p) /\ q # 1
      BY <1>1, <1>4
    <3> QED BY <1>2, <1>4, <3>1
  <2> QED BY <1>4, <2>1 DEF At
<1>6. ASSUME NEW q, NEW r, At(E, l, q), At(E, l, r) PROVE q = r
  <2>1. q \in 1 .. m /\ r \in 1 .. m
    BY <1>6 DEF At
  <2>2. ASSUME NEW u \in 1 .. m, NEW v \in 1 .. m, At(E, l, u), At(E, l, v), u < v PROVE FALSE
    <3>1. v \in u + 1 .. m /\ v # 1
      BY <2>2, <1>1
    <3>2. l < E[v].first /\ E[v].first <= l
      BY <2>2, <3>1 DEF At
    <3> QED BY <3>2, <1>2
  <2>3. ~(q < r) /\ ~(r < q)
    BY <1>6, <2>1, <2>2
  <2> QED BY <2>1, <2>3, <1>1
<1>7. SearchPos(E, l) = CHOOSE q \in 1 .. m : (q = 1 \/ E[q].first <= l) /\ \A r \in q + 1 .. m : l < E[r].first
  BY DEF SearchPos
<1>8. At(E, l, SearchPos(E, l))
  BY Zenon, <1>5, <1>7 DEF At
<1> QED BY <1>6, <1>8 DEF E

-----------------------------------------------------------------------------
(* The path of find_extent. *)

(* The functions that start with v and go on by steps *)
Runs(V, v, n, step) ==
    {f \in [0 .. n -> V] : f[0] = v /\ \A k \in 1 .. n : f[k] = step[f[k - 1]]}

(* There are some. *)
LEMMA Recursion ==
  ASSUME NEW V, NEW v \in V, NEW n \in Nat, NEW step \in [V -> V]
  PROVE  Runs(V, v, n, step) # {}
<1> DEFINE Upto(m, f) == f[0] = v /\ \A k \in 1 .. m : f[k] = step[f[k - 1]]
           S == {m \in Nat : m <= n => \E f \in [0 .. m -> V] : Upto(m, f)}
<1>1. 0 \in S
  <2>1. [k \in 0 .. 0 |-> v] \in [0 .. 0 -> V] /\ Upto(0, [k \in 0 .. 0 |-> v])
    OBVIOUS
  <2> QED BY Zenon, <2>1
<1>2. ASSUME NEW m \in Nat, m \in S PROVE m + 1 \in S
  <2> SUFFICES ASSUME m + 1 <= n PROVE \E f \in [0 .. m + 1 -> V] : Upto(m + 1, f)
    OBVIOUS
  <2>1. PICK f \in [0 .. m -> V] : Upto(m, f)
    BY <1>2
  <2> DEFINE g == [k \in 0 .. m + 1 |-> IF k = m + 1 THEN step[f[m]] ELSE f[k]]
  <2>2. f[m] \in V
    OBVIOUS
  <2>3. step[f[m]] \in V
    BY <2>2
  <2>4. g \in [0 .. m + 1 -> V]
    BY <2>3
  <2>5. g[0] = v
    BY <2>1
  <2>6. ASSUME NEW k \in 1 .. m + 1 PROVE g[k] = step[g[k - 1]]
    <3>1. CASE k = m + 1
      <4>1. k - 1 = m /\ m \in 0 .. m + 1 /\ m # m + 1 /\ k \in 0 .. m + 1
        BY <3>1
      <4>2. g[k - 1] = f[m] /\ g[k] = step[f[m]]
        BY <3>1, <4>1
      <4> QED BY <3>1, <4>2
    <3>2. CASE k # m + 1
      <4>1. k \in 1 .. m /\ k - 1 \in 0 .. m /\ k - 1 # m + 1
        BY <3>2
      <4> QED BY <4>1, <2>1
    <3> QED BY <3>1, <3>2
  <2> QED BY Zenon, <2>4, <2>5, <2>6
<1>3. n \in S
  <2> HIDE DEF S
  <2> QED BY <1>1, <1>2, Upwards
<1>4. \E f \in [0 .. n -> V] : Upto(n, f)
  BY <1>3
<1> QED BY <1>4 DEF Runs

(* What a path element says *)
LEMMA StepIs ==
  ASSUME NEW nd, NEW b \in Places, Fit(b, nd[b]), NEW l \in LBlocks
  PROVE  LET s == PathStep(nd, b, l)
         IN  /\ s \in PathSteps
             /\ s.blk = b /\ s.depth = nd[b].depth /\ s.cnt = Len(nd[b].ents)
             /\ nd[b].ents = <<>> => s.pos = 1 /\ s.ent = NoEntry
             /\ nd[b].ents # <<>> => /\ s.pos = SearchPos(nd[b].ents, l) /\ s.pos \in 1 .. Len(nd[b].ents)
                                     /\ s.ent = nd[b].ents[s.pos]
<1> DEFINE n == nd[b]
           s == PathStep(nd, b, l)
<1>1. l \in Int
  BY Width
<1>2. n.ents # <<>> => SearchPos(n.ents, l) \in 1 .. Len(n.ents)
  <2> SUFFICES ASSUME n.ents # <<>> PROVE SearchPos(n.ents, l) \in 1 .. Len(n.ents)
    OBVIOUS
  <2>1. At(n.ents, l, SearchPos(n.ents, l))
    BY <1>1, SearchIs
  <2> QED BY <2>1 DEF At
<1>3. Len(n.ents) \in Nat /\ n.depth \in 0 .. MaxDepth
  BY NodeIs
<1>4. \A p \in 1 .. Len(n.ents) : n.ents[p] \in Extents \cup Indexes
  BY NodeIs
<1>5. s = [blk |-> b, depth |-> n.depth, cnt |-> Len(n.ents),
           pos |-> IF n.ents = <<>> THEN 1 ELSE SearchPos(n.ents, l),
           ent |-> IF n.ents = <<>> THEN NoEntry ELSE n.ents[IF n.ents = <<>> THEN 1 ELSE SearchPos(n.ents, l)]]
  BY DEF PathStep
<1> HIDE DEF n, s
<1>6. /\ s.blk = b /\ s.depth = n.depth /\ s.cnt = Len(n.ents)
      /\ n.ents = <<>> => s.pos = 1 /\ s.ent = NoEntry
      /\ n.ents # <<>> => s.pos = SearchPos(n.ents, l) /\ s.ent = n.ents[s.pos]
      /\ s = [blk |-> s.blk, depth |-> s.depth, cnt |-> s.cnt, pos |-> s.pos, ent |-> s.ent]
  BY <1>5
<1>7. s.pos \in Nat /\ s.ent \in Extents \cup Indexes \cup {NoEntry}
  <2>1. CASE n.ents = <<>>
    BY <2>1, <1>6
  <2>2. CASE n.ents # <<>>
    BY <2>2, <1>2, <1>3, <1>4, <1>6
  <2> QED BY <2>1, <2>2
<1>8. s \in PathSteps
  BY <1>3, <1>6, <1>7 DEF PathSteps, Places
<1> QED BY <1>2, <1>6, <1>8 DEF s, n

(* The beginnings of the path for l *)
Walks(nd, R, l) ==
    {P \in Seq(PathSteps) :
        /\ P # <<>> /\ P[1].blk = Root
        /\ \A k \in 1 .. Len(P) : P[k].blk \in R /\ P[k] = PathStep(nd, P[k].blk, l)
        /\ \A k \in 1 .. Len(P) - 1 :
              /\ P[k].depth > 0 /\ P[k].cnt > 0 /\ P[k + 1].blk = P[k].ent.child
              /\ P[k + 1].depth = P[k].depth - 1}

(* The descent ends here *)
Stops(s) == s.depth = 0 \/ s.cnt = 0

(* One more level is on the path too. *)
LEMMA DescendIs ==
  ASSUME NEW nd, NEW R, Shape(nd, R), NEW l \in LBlocks, NEW P \in Walks(nd, R, l)
  PROVE  /\ Descend(nd, P, l) \in Walks(nd, R, l)
         /\ ~ Stops(Leaf(P)) => Len(Descend(nd, P, l)) = Len(P) + 1
         /\ Stops(Leaf(P)) => Descend(nd, P, l) = P
<1> DEFINE s == P[Len(P)]
           b == s.blk
           c == s.ent.child
           t == PathStep(nd, c, l)
           Q == Append(P, t)
<1>1. /\ P \in Seq(PathSteps) /\ Len(P) \in Nat /\ Len(P) # 0 /\ Len(P) \in 1 .. Len(P)
      /\ s \in PathSteps /\ b \in R /\ s = PathStep(nd, b, l) /\ P[1].blk = Root
  BY DEF Walks
<1>2. b \in Places /\ Fit(b, nd[b])
  BY <1>1 DEF Shape
<1> HIDE DEF s
<1>3. /\ s.depth = nd[b].depth /\ s.cnt = Len(nd[b].ents)
      /\ nd[b].ents # <<>> => /\ s.pos = SearchPos(nd[b].ents, l) /\ s.pos \in 1 .. Len(nd[b].ents)
                              /\ s.ent = nd[b].ents[s.pos]
  BY <1>1, <1>2, StepIs
<1>4. s.cnt \in Nat /\ s.depth \in 0 .. MaxDepth /\ (nd[b].ents = <<>> <=> s.cnt = 0) /\ MaxDepth \in Nat
  BY <1>2, <1>3, NodeIs, SizeAssumption
<1>5. Leaf(P) = s
  BY DEF Leaf, s
<1>6. CASE Stops(s)
  <2>1. Descend(nd, P, l) = P
    BY <1>4, <1>6 DEF Descend, Stops, s
  <2> QED BY <2>1, <1>5, <1>6
<1>7. CASE ~ Stops(s)
  <2>1. s.depth > 0 /\ s.cnt > 0 /\ nd[b].ents # <<>>
    BY <1>4, <1>7 DEF Stops
  <2>2. ValidSelected(nd[b], s.pos)
    BY <1>2, <1>3, <2>1, FitValid
  <2>3. Descend(nd, P, l) = Q
    BY <2>1, <2>2 DEF Descend, s
  <2>4. c \in R \ {Root} /\ nd[c].depth = nd[b].depth - 1
    BY <1>1, <1>3, <2>1 DEF Shape
  <2>5. c \in Places /\ Fit(c, nd[c])
    BY <2>4 DEF Shape
  <2>6. t \in PathSteps /\ t.blk = c /\ t.depth = s.depth - 1
    BY <1>3, <2>4, <2>5, StepIs
  <2> HIDE DEF t
  <2>7. /\ Q \in Seq(PathSteps) /\ Len(Q) = Len(P) + 1 /\ Q # <<>>
        /\ \A k \in 1 .. Len(P) : Q[k] = P[k]
        /\ Q[Len(P) + 1] = t
    BY <1>1, <2>6
  <2> HIDE DEF Q
  <2>8. t = PathStep(nd, t.blk, l)
    BY <2>6 DEF t
  <2>9. ASSUME NEW k \in 1 .. Len(Q) PROVE Q[k].blk \in R /\ Q[k] = PathStep(nd, Q[k].blk, l)
    <3>1. CASE k = Len(P) + 1
      BY <3>1, <2>4, <2>6, <2>7, <2>8
    <3>2. CASE k # Len(P) + 1
      <4>1. k \in 1 .. Len(P)
        BY <3>2, <1>1, <2>7
      <4>2. P[k].blk \in R /\ P[k] = PathStep(nd, P[k].blk, l)
        BY <4>1 DEF Walks
      <4> QED BY <4>1, <4>2, <2>7
    <3> QED BY <3>1, <3>2
  <2>10. ASSUME NEW k \in 1 .. Len(Q) - 1
         PROVE  /\ Q[k].depth > 0 /\ Q[k].cnt > 0 /\ Q[k + 1].blk = Q[k].ent.child
                /\ Q[k + 1].depth = Q[k].depth - 1
    <3>1. CASE k = Len(P)
      <4>1. Q[k] = s /\ Q[k + 1] = t
        BY <3>1, <1>1, <2>7 DEF s
      <4> QED BY <4>1, <2>1, <2>6
    <3>2. CASE k # Len(P)
      <4>1. k \in 1 .. Len(P) - 1 /\ k \in 1 .. Len(P) /\ k + 1 \in 1 .. Len(P)
        BY <3>2, <1>1, <2>7
      <4>2. /\ P[k].depth > 0 /\ P[k].cnt > 0 /\ P[k + 1].blk = P[k].ent.child
            /\ P[k + 1].depth = P[k].depth - 1
        BY <4>1 DEF Walks
      <4> QED BY <4>1, <4>2, <2>7
    <3> QED BY <3>1, <3>2
  <2>11. Q[1].blk = Root
    BY <1>1, <2>7
  <2>12. Q \in Walks(nd, R, l)
    BY <2>7, <2>9, <2>10, <2>11 DEF Walks
  <2> QED BY <1>5, <1>7, <2>3, <2>7, <2>12
<1> QED BY <1>6, <1>7

(* Depths go down by one along a path, so it is short. *)
LEMMA WalkDepths ==
  ASSUME NEW nd, NEW R, Shape(nd, R), NEW l \in LBlocks, NEW P \in Walks(nd, R, l)
  PROVE  /\ Len(P) \in 1 .. MaxDepth + 1
         /\ \A k \in 1 .. Len(P) : P[k].depth \in 0 .. MaxDepth /\ P[k].depth = nd[Root].depth - (k - 1)
<1>1. P \in Seq(PathSteps) /\ Len(P) \in Nat /\ Len(P) # 0 /\ MaxDepth \in Nat /\ Len(P) \in 1 .. Len(P)
  BY SizeAssumption DEF Walks
<1>2. \A k \in 1 .. Len(P) : P[k] \in PathSteps
  BY <1>1
<1>3. \A k \in 1 .. Len(P) : P[k].depth \in 0 .. MaxDepth
  BY <1>2 DEF PathSteps
<1>4. P[1].depth = nd[Root].depth /\ nd[Root].depth \in 0 .. MaxDepth
  <2>1. P[1] = PathStep(nd, Root, l)
    BY <1>1 DEF Walks
  <2>2. Root \in Places /\ Fit(Root, nd[Root])
    BY DEF Shape
  <2> QED BY <2>1, <2>2, StepIs, NodeIs
<1> DEFINE S == {n \in Nat : n + 1 <= Len(P) => P[n + 1].depth = nd[Root].depth - n}
<1>5. 0 \in S
  BY <1>4
<1>6. ASSUME NEW n \in Nat, n \in S PROVE n + 1 \in S
  <2> SUFFICES ASSUME (n + 1) + 1 <= Len(P) PROVE P[(n + 1) + 1].depth = nd[Root].depth - (n + 1)
    OBVIOUS
  <2>1. n + 1 \in 1 .. Len(P) - 1
    BY <1>1
  <2>2. P[(n + 1) + 1].depth = P[n + 1].depth - 1
    BY <2>1 DEF Walks
  <2>3. P[n + 1].depth = nd[Root].depth - n
    BY <1>1, <1>6
  <2>4. nd[Root].depth \in Int
    BY <1>1, <1>4
  <2> QED BY <2>2, <2>3, <2>4
<1>7. Nat \subseteq S
  <2> HIDE DEF S
  <2> QED BY <1>5, <1>6, Upwards
<1>8. ASSUME NEW k \in 1 .. Len(P) PROVE P[k].depth = nd[Root].depth - (k - 1)
  <2>1. k - 1 \in Nat /\ (k - 1) + 1 = k /\ k <= Len(P)
    BY <1>1
  <2>2. k - 1 \in S
    BY <1>7, <2>1
  <2> QED BY <2>1, <2>2
<1>9. Len(P) <= MaxDepth + 1
  <2>1. P[Len(P)].depth = nd[Root].depth - (Len(P) - 1) /\ P[Len(P)].depth >= 0
    BY <1>1, <1>3, <1>8
  <2> QED BY <2>1, <1>1, <1>4
<1> QED BY <1>1, <1>3, <1>8, <1>9

(* find_extent goes all the way down. *)
LEMMA PathIs ==
  ASSUME NEW nd, NEW R, Shape(nd, R), NEW l \in LBlocks
  PROVE  FindPath(nd, l) \in Walks(nd, R, l) /\ Stops(Leaf(FindPath(nd, l)))
<1> DEFINE W == Walks(nd, R, l)
           V == {{P} : P \in W}
           v == <<PathStep(nd, Root, l)>>
           step == [X \in V |-> {Descend(nd, P, l) : P \in X}]
           Is(f) == f = [k \in 0 .. MaxDepth |->
                            IF k = 0 THEN {<<PathStep(nd, Root, l)>>}
                            ELSE {Descend(nd, path, l) : path \in f[k - 1]}]
           Has(n, f) == \E P \in W : f[n] = {P} /\ (Stops(Leaf(P)) \/ Len(P) = n + 1)
<1>1. v \in W
  <2> DEFINE t == PathStep(nd, Root, l)
  <2>1. Root \in Places /\ Fit(Root, nd[Root]) /\ Root \in R
    BY DEF Shape
  <2>2. t \in PathSteps /\ t.blk = Root
    BY <2>1, StepIs
  <2>3. v = <<t>>
    OBVIOUS
  <2>4. t = PathStep(nd, t.blk, l)
    BY <2>2
  <2> HIDE DEF t, v
  <2>5. v \in Seq(PathSteps) /\ Len(v) = 1 /\ v[1] = t /\ v # <<>>
    BY <2>2, <2>3
  <2>6. (\A k \in 1 .. Len(v) : k = 1) /\ ~ \E k \in 1 .. Len(v) - 1 : TRUE
    BY <2>5
  <2>7. \A k \in 1 .. Len(v) : v[k].blk \in R /\ v[k] = PathStep(nd, v[k].blk, l)
    BY <2>1, <2>2, <2>4, <2>5, <2>6
  <2> QED BY Zenon, <2>2, <2>5, <2>6, <2>7 DEF Walks
<1> HIDE DEF v
<1>2. \A P \in W : Descend(nd, P, l) \in W
  BY DescendIs
<1>3. ASSUME NEW X \in V PROVE {Descend(nd, P, l) : P \in X} \in V
  <2>1. PICK P \in W : X = {P}
    OBVIOUS
  <2>2. {Descend(nd, p, l) : p \in X} = {Descend(nd, P, l)}
    BY <2>1
  <2> QED BY <2>2, <1>2
<1>4. step \in [V -> V] /\ {v} \in V /\ MaxDepth \in Nat
  BY <1>1, <1>3, SizeAssumption
<1>5. Runs(V, {v}, MaxDepth, step) # {}
  <2> HIDE DEF V, step
  <2> QED BY <1>4, Recursion
<1>6. PICK f \in [0 .. MaxDepth -> V] :
         f[0] = {v} /\ \A k \in 1 .. MaxDepth : f[k] = {Descend(nd, P, l) : P \in f[k - 1]}
  <2>1. PICK f \in Runs(V, {v}, MaxDepth, step) : TRUE
    BY Zenon, <1>5
  <2>2. f \in [0 .. MaxDepth -> V] /\ f[0] = {v} /\ \A k \in 1 .. MaxDepth : f[k] = step[f[k - 1]]
    BY Zenon, <2>1 DEF Runs
  <2>3. ASSUME NEW k \in 1 .. MaxDepth PROVE f[k] = {Descend(nd, P, l) : P \in f[k - 1]}
    <3>1. k - 1 \in 0 .. MaxDepth
      BY <1>4
    <3>2. f[k - 1] \in V
      BY <2>2, <3>1
    <3> QED BY Zenon, <2>2, <3>2
  <2> QED BY Zenon, <2>2, <2>3
<1>7. Is(f)
  <2>1. \A k \in 0 .. MaxDepth : f[k] = IF k = 0 THEN {v} ELSE {Descend(nd, path, l) : path \in f[k - 1]}
    BY <1>4, <1>6
  <2> QED BY <2>1 DEF v
<1>8. FindPath(nd, l) = LET g == CHOOSE g : Is(g) IN CHOOSE path \in g[MaxDepth] : TRUE
  BY DEF FindPath
<1> DEFINE g == CHOOSE h : Is(h)
<1>9. Is(g)
  <2> HIDE DEF Is
  <2> QED BY <1>7
<1>10. FindPath(nd, l) = CHOOSE path \in g[MaxDepth] : TRUE
  BY <1>8
<1>11. g[0] = {v} /\ \A k \in 1 .. MaxDepth : g[k] = {Descend(nd, P, l) : P \in g[k - 1]}
  <2>1. g = [k \in 0 .. MaxDepth |-> IF k = 0 THEN {v} ELSE {Descend(nd, path, l) : path \in g[k - 1]}]
    BY Zenon, <1>9 DEF v
  <2> HIDE DEF g
  <2>2. 0 \in 0 .. MaxDepth /\ \A k \in 1 .. MaxDepth : k \in 0 .. MaxDepth /\ k # 0
    BY <1>4
  <2> QED BY Zenon, <2>1, <2>2
<1> HIDE DEF g
<1> DEFINE S == {n \in Nat : n <= MaxDepth => Has(n, g)}
<1>12. 0 \in S
  <2>1. Len(v) = 0 + 1
    BY DEF v
  <2> QED BY <1>1, <1>11, <2>1
<1>13. ASSUME NEW n \in Nat, n \in S PROVE n + 1 \in S
  <2> SUFFICES ASSUME n + 1 <= MaxDepth PROVE Has(n + 1, g)
    OBVIOUS
  <2>1. PICK P \in W : g[n] = {P} /\ (Stops(Leaf(P)) \/ Len(P) = n + 1)
    BY <1>4, <1>13
  <2>2. n + 1 \in 1 .. MaxDepth /\ (n + 1) - 1 = n
    BY <1>4
  <2>3. g[n + 1] = {Descend(nd, P, l)}
    BY <1>11, <2>1, <2>2
  <2> DEFINE Q == Descend(nd, P, l)
  <2>4. Q \in W
    BY <1>2
  <2>5. Stops(Leaf(P)) => Q = P
    BY DescendIs
  <2>6. ~ Stops(Leaf(P)) => Len(Q) = Len(P) + 1
    BY DescendIs
  <2> HIDE DEF Q, W
  <2>7. Stops(Leaf(Q)) \/ Len(Q) = (n + 1) + 1
    BY <2>1, <2>5, <2>6
  <2> QED BY <2>3, <2>4, <2>7 DEF Q
<1>14. Has(MaxDepth, g)
  <2>1. Nat \subseteq S
    <3> HIDE DEF S
    <3> QED BY <1>12, <1>13, Upwards
  <2> QED BY <2>1, <1>4
<1>15. PICK P \in W : g[MaxDepth] = {P} /\ (Stops(Leaf(P)) \/ Len(P) = MaxDepth + 1)
  BY <1>14
<1>16. FindPath(nd, l) = P
  BY <1>10, <1>15
<1>17. Stops(Leaf(P))
  <2> SUFFICES ASSUME Len(P) = MaxDepth + 1 PROVE Stops(Leaf(P))
    BY <1>15
  <2>1. Len(P) \in 1 .. Len(P)
    BY <1>4
  <2>2. P[Len(P)].depth \in 0 .. MaxDepth /\ P[Len(P)].depth = nd[Root].depth - (Len(P) - 1)
    BY <2>1, WalkDepths
  <2>3. nd[Root].depth \in 0 .. MaxDepth
    BY NodeIs DEF Shape
  <2>4. P[Len(P)].depth = 0
    BY <1>4, <2>2, <2>3
  <2> QED BY <2>4 DEF Stops, Leaf
<1> QED BY <1>15, <1>16, <1>17

-----------------------------------------------------------------------------
(* The blocks on the path for l. *)

Ends(n) == n.depth = 0 \/ n.ents = <<>>
Toward(nd, b, l) == nd[b].ents[SearchPos(nd[b].ents, l)].child
Landing(nd, l) == Leaf(FindPath(nd, l)).blk

(* What the path's elements are *)
LEMMA WalkIs ==
  ASSUME NEW nd, NEW R, Shape(nd, R), NEW l \in LBlocks, NEW P \in Walks(nd, R, l)
  PROVE  /\ Len(P) \in Nat \ {0} /\ 1 \in 1 .. Len(P) /\ Len(P) \in 1 .. Len(P) /\ P[1].blk = Root
         /\ \A k \in 1 .. Len(P) :
               /\ P[k].blk \in R /\ P[k] = PathStep(nd, P[k].blk, l)
               /\ P[k].depth = nd[P[k].blk].depth /\ P[k].depth = nd[Root].depth - (k - 1)
               /\ P[k].cnt = Len(nd[P[k].blk].ents) /\ P[k].cnt \in Nat
               /\ Stops(P[k]) <=> Ends(nd[P[k].blk])
               /\ P[k].cnt > 0 => /\ P[k].pos = SearchPos(nd[P[k].blk].ents, l) /\ P[k].pos \in 1 .. P[k].cnt
                                  /\ P[k].ent = nd[P[k].blk].ents[P[k].pos]
         /\ \A k \in 1 .. Len(P) - 1 :
               /\ k \in 1 .. Len(P) /\ k + 1 \in 1 .. Len(P)
               /\ ~ Ends(nd[P[k].blk]) /\ P[k + 1].blk = Toward(nd, P[k].blk, l) /\ P[k + 1].blk = P[k].ent.child
               /\ P[k].depth > 0 /\ P[k].cnt > 0
<1>1. P \in Seq(PathSteps) /\ Len(P) \in Nat \ {0} /\ P[1].blk = Root
  BY EmptySeq DEF Walks
<1>2. 1 \in 1 .. Len(P) /\ Len(P) \in 1 .. Len(P) /\ \A k \in 1 .. Len(P) - 1 : k \in 1 .. Len(P) /\ k + 1 \in 1 .. Len(P)
  BY <1>1
<1>3. ASSUME NEW k \in 1 .. Len(P)
      PROVE  /\ P[k].blk \in R /\ P[k] = PathStep(nd, P[k].blk, l)
             /\ P[k].depth = nd[P[k].blk].depth /\ P[k].depth = nd[Root].depth - (k - 1)
             /\ P[k].cnt = Len(nd[P[k].blk].ents) /\ P[k].cnt \in Nat
             /\ Stops(P[k]) <=> Ends(nd[P[k].blk])
             /\ P[k].cnt > 0 => /\ P[k].pos = SearchPos(nd[P[k].blk].ents, l) /\ P[k].pos \in 1 .. P[k].cnt
                                /\ P[k].ent = nd[P[k].blk].ents[P[k].pos]
  <2> DEFINE b == P[k].blk
             s == P[k]
  <2>1. b \in R /\ s = PathStep(nd, b, l)
    BY DEF Walks
  <2>2. b \in Places /\ Fit(b, nd[b])
    BY <2>1 DEF Shape
  <2>3. s.depth = nd[Root].depth - (k - 1)
    BY WalkDepths
  <2> HIDE DEF b, s
  <2>4. /\ s.depth = nd[b].depth /\ s.cnt = Len(nd[b].ents)
        /\ nd[b].ents # <<>> => /\ s.pos = SearchPos(nd[b].ents, l) /\ s.pos \in 1 .. Len(nd[b].ents)
                                /\ s.ent = nd[b].ents[s.pos]
    BY <2>1, <2>2, StepIs
  <2>5. Len(nd[b].ents) \in Nat /\ (nd[b].ents = <<>> <=> Len(nd[b].ents) = 0)
    BY <2>2, NodeIs
  <2>6. Stops(s) <=> Ends(nd[b])
    BY <2>4, <2>5 DEF Stops, Ends
  <2>7. s.cnt > 0 => nd[b].ents # <<>>
    BY <2>4, <2>5
  <2> QED BY <2>1, <2>3, <2>4, <2>5, <2>6, <2>7 DEF b, s
<1>4. ASSUME NEW k \in 1 .. Len(P) - 1
      PROVE  /\ ~ Ends(nd[P[k].blk]) /\ P[k + 1].blk = Toward(nd, P[k].blk, l) /\ P[k + 1].blk = P[k].ent.child
             /\ P[k].depth > 0 /\ P[k].cnt > 0
  <2>1. P[k].depth > 0 /\ P[k].cnt > 0 /\ P[k + 1].blk = P[k].ent.child
    BY DEF Walks
  <2>2. ~ Stops(P[k])
    BY <2>1 DEF Stops
  <2>3. P[k].pos = SearchPos(nd[P[k].blk].ents, l) /\ P[k].ent = nd[P[k].blk].ents[P[k].pos]
    BY Zenon, <1>2, <1>3, <2>1
  <2>4. P[k].ent.child = Toward(nd, P[k].blk, l)
    BY <2>3 DEF Toward
  <2> QED BY <1>2, <1>3, <2>1, <2>2, <2>4
<1> QED BY Zenon, <1>1, <1>2, <1>3, <1>4

(* The blocks on the path: the root, with a block its child towards l, no
   other, one of each depth, down to where the path ends *)
LEMMA OnIs ==
  ASSUME NEW nd, NEW R, Shape(nd, R), NEW l \in LBlocks
  PROVE  /\ On(nd, l, Root)
         /\ \A b : On(nd, l, b) => b \in R /\ nd[b].depth \in 0 .. nd[Root].depth
         /\ \A b : On(nd, l, b) /\ ~ Ends(nd[b]) => On(nd, l, Toward(nd, b, l))
         /\ \A c : On(nd, l, c) /\ c # Root => \E b \in R : On(nd, l, b) /\ ~ Ends(nd[b]) /\ Toward(nd, b, l) = c
         /\ \A b, c : On(nd, l, b) /\ On(nd, l, c) /\ nd[b].depth = nd[c].depth => b = c
         /\ On(nd, l, Landing(nd, l)) /\ Ends(nd[Landing(nd, l)])
         /\ \A b : On(nd, l, b) /\ Ends(nd[b]) => b = Landing(nd, l)
         /\ \A b : On(nd, l, b) => nd[Landing(nd, l)].depth <= nd[b].depth
<1> DEFINE P == FindPath(nd, l)
<1>1. P \in Walks(nd, R, l) /\ Stops(P[Len(P)]) /\ Landing(nd, l) = P[Len(P)].blk
  BY PathIs DEF Leaf, Landing
<1>2. \A b : On(nd, l, b) <=> \E k \in 1 .. Len(P) : P[k].blk = b
  BY DEF On
<1> HIDE DEF P
<1>3. Len(P) \in Nat \ {0} /\ 1 \in 1 .. Len(P) /\ Len(P) \in 1 .. Len(P) /\ P[1].blk = Root
  BY <1>1, WalkIs
<1>4. \A k \in 1 .. Len(P) : /\ P[k].blk \in R /\ P[k].depth = nd[P[k].blk].depth
                             /\ P[k].depth = nd[Root].depth - (k - 1)
                             /\ Stops(P[k]) <=> Ends(nd[P[k].blk])
  BY <1>1, WalkIs
<1>5. \A k \in 1 .. Len(P) - 1 : /\ k \in 1 .. Len(P) /\ k + 1 \in 1 .. Len(P)
                                 /\ ~ Ends(nd[P[k].blk]) /\ P[k + 1].blk = Toward(nd, P[k].blk, l)
  BY <1>1, WalkIs
<1>6. \A b \in R : nd[b].depth \in Nat
  <2>1. ASSUME NEW b \in R PROVE nd[b].depth \in 0 .. MaxDepth
    BY NodeIs DEF Shape
  <2> QED BY <2>1, SizeAssumption
<1>7. Root \in R
  BY DEF Shape
<1>8. On(nd, l, Root)
  BY <1>2, <1>3
<1>9. ASSUME NEW b, On(nd, l, b) PROVE b \in R /\ nd[b].depth \in 0 .. nd[Root].depth
  <2>1. PICK k \in 1 .. Len(P) : P[k].blk = b
    BY <1>2, <1>9
  <2>2. b \in R /\ nd[b].depth = nd[Root].depth - (k - 1)
    BY <1>4, <2>1
  <2>3. nd[b].depth \in Nat /\ nd[Root].depth \in Nat
    BY <1>6, <1>7, <2>2
  <2> QED BY <2>2, <2>3
<1>10. ASSUME NEW b, On(nd, l, b), ~ Ends(nd[b]) PROVE On(nd, l, Toward(nd, b, l))
  <2>1. PICK k \in 1 .. Len(P) : P[k].blk = b
    BY <1>2, <1>10
  <2>2. k # Len(P)
    BY <1>1, <1>4, <1>10, <2>1
  <2>3. k \in 1 .. Len(P) - 1
    BY <1>3, <2>2
  <2> QED BY <1>2, <1>5, <2>1, <2>3
<1>11. ASSUME NEW c, On(nd, l, c), c # Root
       PROVE  \E b \in R : On(nd, l, b) /\ ~ Ends(nd[b]) /\ Toward(nd, b, l) = c
  <2>1. PICK k \in 1 .. Len(P) : P[k].blk = c
    BY <1>2, <1>11
  <2>2. k # 1
    BY <1>3, <1>11, <2>1
  <2>3. k - 1 \in 1 .. Len(P) - 1 /\ (k - 1) + 1 = k
    BY <1>3, <2>2
  <2>4. k - 1 \in 1 .. Len(P) /\ ~ Ends(nd[P[k - 1].blk]) /\ c = Toward(nd, P[k - 1].blk, l)
    BY <1>5, <2>1, <2>3
  <2> QED BY <1>2, <1>4, <2>4
<1>12. ASSUME NEW b, NEW c, On(nd, l, b), On(nd, l, c), nd[b].depth = nd[c].depth PROVE b = c
  <2>1. PICK j \in 1 .. Len(P) : P[j].blk = b
    BY <1>2, <1>12
  <2>2. PICK k \in 1 .. Len(P) : P[k].blk = c
    BY <1>2, <1>12
  <2>3. nd[b].depth = nd[Root].depth - (j - 1) /\ nd[c].depth = nd[Root].depth - (k - 1)
    BY <1>4, <2>1, <2>2
  <2>4. j = k
    BY <2>3, <1>3, <1>6, <1>7, <1>12
  <2> QED BY <2>1, <2>2, <2>4
<1>13. On(nd, l, Landing(nd, l)) /\ Ends(nd[Landing(nd, l)])
  BY <1>1, <1>2, <1>3, <1>4
<1>14. ASSUME NEW b, On(nd, l, b), Ends(nd[b]) PROVE b = Landing(nd, l)
  <2>1. PICK k \in 1 .. Len(P) : P[k].blk = b
    BY <1>2, <1>14
  <2>2. k \notin 1 .. Len(P) - 1
    BY <1>5, <1>14, <2>1
  <2>3. k = Len(P)
    BY <1>3, <2>2
  <2> QED BY <1>1, <2>1, <2>3
<1>15. ASSUME NEW b, On(nd, l, b) PROVE nd[Landing(nd, l)].depth <= nd[b].depth
  <2>1. PICK k \in 1 .. Len(P) : P[k].blk = b
    BY <1>2, <1>15
  <2>2. nd[b].depth = nd[Root].depth - (k - 1) /\ nd[Landing(nd, l)].depth = nd[Root].depth - (Len(P) - 1)
    BY <1>1, <1>3, <1>4, <2>1
  <2>3. k <= Len(P) /\ nd[Root].depth \in Nat
    BY <1>3, <1>6, <1>7
  <2> QED BY <2>2, <2>3, <1>3
<1> QED BY <1>8, <1>9, <1>10, <1>11, <1>12, <1>13, <1>14, <1>15

(* What holds of the root, and with a block on the path of the next one, holds
   of all of them. *)
LEMMA OnInduct ==
  ASSUME NEW nd, NEW R, Shape(nd, R), NEW l \in LBlocks, NEW S, Root \in S,
         \A b \in S : On(nd, l, b) /\ ~ Ends(nd[b]) => Toward(nd, b, l) \in S
  PROVE  \A b : On(nd, l, b) => b \in S
<1> DEFINE P == FindPath(nd, l)
           T == {n \in Nat : n + 1 <= Len(P) => P[n + 1].blk \in S}
<1>1. P \in Walks(nd, R, l)
  BY PathIs
<1>2. \A b : On(nd, l, b) <=> \E k \in 1 .. Len(P) : P[k].blk = b
  BY DEF On
<1> HIDE DEF P
<1>3. Len(P) \in Nat \ {0} /\ P[1].blk = Root
  BY <1>1, WalkIs
<1>4. \A k \in 1 .. Len(P) - 1 : ~ Ends(nd[P[k].blk]) /\ P[k + 1].blk = Toward(nd, P[k].blk, l)
  BY <1>1, WalkIs
<1>5. 0 \in T
  BY <1>3
<1>6. ASSUME NEW n \in Nat, n \in T PROVE n + 1 \in T
  <2> SUFFICES ASSUME (n + 1) + 1 <= Len(P) PROVE P[(n + 1) + 1].blk \in S
    OBVIOUS
  <2>1. n + 1 \in 1 .. Len(P) - 1 /\ n + 1 \in 1 .. Len(P)
    BY <1>3
  <2>2. P[n + 1].blk \in S /\ On(nd, l, P[n + 1].blk)
    BY <1>2, <1>6, <2>1
  <2> QED BY <1>4, <2>1, <2>2
<1>7. Nat \subseteq T
  <2> HIDE DEF T
  <2> QED BY <1>5, <1>6, Upwards
<1>8. ASSUME NEW b, On(nd, l, b) PROVE b \in S
  <2>1. PICK k \in 1 .. Len(P) : P[k].blk = b
    BY <1>2, <1>8
  <2>2. k - 1 \in Nat /\ (k - 1) + 1 = k /\ k <= Len(P)
    BY <1>3
  <2>3. k - 1 \in T
    BY <1>7, <2>2
  <2> QED BY <2>1, <2>2, <2>3
<1> QED BY <1>8

(* The same from a block of the path downwards *)
LEMMA OnInductFrom ==
  ASSUME NEW nd, NEW R, Shape(nd, R), NEW l \in LBlocks, NEW c, On(nd, l, c), NEW S, c \in S,
         \A b \in S : On(nd, l, b) /\ ~ Ends(nd[b]) /\ nd[b].depth <= nd[c].depth => Toward(nd, b, l) \in S
  PROVE  \A b : On(nd, l, b) /\ nd[b].depth <= nd[c].depth => b \in S
<1> DEFINE T == {b \in R : nd[b].depth <= nd[c].depth => b \in S}
<1>1. \A b : On(nd, l, b) => b \in R /\ nd[b].depth \in 0 .. nd[Root].depth
  BY OnIs
<1>2. \A a, b : On(nd, l, a) /\ On(nd, l, b) /\ nd[a].depth = nd[b].depth => a = b
  BY OnIs
<1>3. On(nd, l, Root) /\ \A b : On(nd, l, b) /\ ~ Ends(nd[b]) => On(nd, l, Toward(nd, b, l))
  BY OnIs
<1>4. Root \in R /\ nd[Root].depth \in Nat
  <2>1. nd[Root].depth \in 0 .. MaxDepth
    BY NodeIs DEF Shape
  <2> QED BY <2>1, SizeAssumption DEF Shape
<1>5. Root \in T
  <2> SUFFICES ASSUME nd[Root].depth <= nd[c].depth PROVE Root \in S
    BY <1>4
  <2>1. nd[Root].depth = nd[c].depth
    BY <1>1, <1>4
  <2> QED BY <2>1, <1>2, <1>3
<1>6. ASSUME NEW b \in T, On(nd, l, b), ~ Ends(nd[b]) PROVE Toward(nd, b, l) \in T
  <2> DEFINE t == Toward(nd, b, l)
  <2>1. On(nd, l, t) /\ t \in R
    BY <1>1, <1>3, <1>6
  <2>2. nd[t].depth = nd[b].depth - 1
    <3>1. Fit(b, nd[b]) /\ nd[b].ents # <<>> /\ l \in Int /\ nd[b].depth # 0
      BY <1>6, Width DEF Shape, Ends
    <3>2. SearchPos(nd[b].ents, l) \in 1 .. Len(nd[b].ents)
      BY <3>1, SearchIs DEF At
    <3>3. nd[b].depth > 0
      BY <1>1, <1>4, <1>6, <3>1
    <3> QED BY <3>2, <3>3, <1>6 DEF Shape, Toward
  <2> HIDE DEF t
  <2> SUFFICES ASSUME nd[t].depth <= nd[c].depth PROVE t \in S
    BY <2>1 DEF t
  <2>3. nd[b].depth \in Int /\ nd[c].depth \in Int /\ nd[t].depth \in Int
    BY <1>1, <1>6, <2>1, <1>4
  <2>4. CASE nd[b].depth <= nd[c].depth
    BY <2>4, <1>6 DEF t
  <2>5. CASE ~(nd[b].depth <= nd[c].depth)
    <3>1. nd[t].depth = nd[c].depth
      BY <2>2, <2>3, <2>5
    <3> QED BY <3>1, <1>2, <2>1
  <2> QED BY <2>4, <2>5
<1>7. \A b : On(nd, l, b) => b \in T
  <2> HIDE DEF T
  <2> QED BY <1>5, <1>6, OnInduct
<1> QED BY <1>7

-----------------------------------------------------------------------------
(* Lookups. *)

(* Depths are numbers. *)
LEMMA DepthIs ==
  ASSUME NEW nd, NEW R, Shape(nd, R), NEW b \in R
  PROVE  /\ Fit(b, nd[b]) /\ b \in Places /\ nd[b].depth \in Nat /\ nd[b].depth \in 0 .. MaxDepth
         /\ Len(nd[b].ents) \in Nat /\ (nd[b].ents = <<>> <=> Len(nd[b].ents) = 0)
<1>1. Fit(b, nd[b]) /\ b \in Places
  BY DEF Shape
<1> QED BY <1>1, NodeIs, SizeAssumption

(* The key an entry has is searched for at its place. *)
LEMMA KeysAt ==
  ASSUME NEW b, NEW n, Fit(b, n), NEW p \in 1 .. Len(n.ents), NEW l \in Keys(n, p)
  PROVE  l \in LBlocks /\ SearchPos(n.ents, l) = p /\ n.ents # <<>> /\ n.ents[p].first <= l
<1>1. n.ents # <<>> /\ n.ents[p].first \in 0 .. LastLBlock
  BY Zenon, EntryIs
<1>2. Len(n.ents) \in Nat /\ LastLBlock \in Nat
  BY NodeIs, Width
<1>3. l \in LBlocks /\ n.ents[p].first <= l
  <2>1. CASE n.depth = 0
    <3>1. l \in n.ents[p].first .. End64(n.ents[p]) - 1 /\ End64(n.ents[p]) \in 1 .. LastLBlock
      BY Zenon, <2>1, EntryIs DEF Keys
    <3> QED BY <3>1, <1>1, <1>2, Width
  <2>2. CASE n.depth # 0
    BY <2>2, <1>1, <1>2, Width DEF Keys
  <2> QED BY <2>1, <2>2
<1>4. ASSUME NEW q \in p + 1 .. Len(n.ents) PROVE l < n.ents[q].first
  <2>1. q \in 1 .. Len(n.ents) /\ p < q
    BY <1>2
  <2>2. n.ents[q].first \in 0 .. LastLBlock
    BY Zenon, <2>1, EntryIs
  <2>3. CASE n.depth = 0
    <3>1. l \in n.ents[p].first .. End64(n.ents[p]) - 1 /\ End64(n.ents[p]) \in 1 .. LastLBlock
      BY Zenon, <2>3, EntryIs DEF Keys
    <3>2. End64(n.ents[p]) <= n.ents[q].first
      BY <2>1, <2>3 DEF Fit, Apart
    <3> QED BY <3>1, <3>2, <2>2, <1>1, <1>2
  <2>4. CASE n.depth # 0
    <3>1. n.ents[p].first < n.ents[q].first
      BY <2>1 DEF Fit, Keyed
    <3>2. l = n.ents[p].first
      BY <2>4 DEF Keys
    <3> QED BY <3>1, <3>2
  <2> QED BY <2>3, <2>4
<1>5. At(n.ents, l, p)
  BY <1>3, <1>4 DEF At
<1>6. l \in Int
  BY <1>3, Width
<1> QED BY Zenon, <1>1, <1>3, <1>5, <1>6, SearchIs

(* what a landing node says of l *)
Answer(n, l) ==
    IF /\ n.depth = 0 /\ n.ents # <<>>
       /\ n.ents[SearchPos(n.ents, l)].first <= l /\ l < End64(n.ents[SearchPos(n.ents, l)])
    THEN n.ents[SearchPos(n.ents, l)].start + (l - n.ents[SearchPos(n.ents, l)].first) ELSE Hole

(* find_extent's result code on a tree *)
LEMMA ResultIs ==
  ASSUME NEW nd, NEW R, Shape(nd, R), NEW l \in LBlocks
  PROVE  FindResult(nd, FindPath(nd, l)) = IF nd[Landing(nd, l)].depth = 0 THEN "EOK" ELSE "ENOENT"
<1> DEFINE P == FindPath(nd, l)
           s == P[Len(P)]
           b == s.blk
<1>1. P \in Walks(nd, R, l) /\ Stops(s) /\ Leaf(P) = s /\ Landing(nd, l) = b
  BY PathIs DEF Leaf, Landing
<1> HIDE DEF P
<1>2. /\ Len(P) \in Nat \ {0} /\ Len(P) \in 1 .. Len(P) /\ b \in R
      /\ s.depth = nd[b].depth /\ s.cnt = Len(nd[b].ents) /\ s.cnt \in Nat
      /\ s.cnt > 0 => s.pos \in 1 .. s.cnt
  BY <1>1, WalkIs
<1>3. ValidHeader(Root, nd[Root]) /\ ValidEntries(nd[Root])
  BY FitValid DEF Shape
<1>4. ASSUME NEW k \in 2 .. Len(P)
      PROVE  ValidHeader(P[k].blk, nd[P[k].blk]) /\ P[k].depth = P[k - 1].depth - 1
  <2>1. k \in 1 .. Len(P) /\ k - 1 \in 1 .. Len(P) - 1 /\ (k - 1) + 1 = k
    BY <1>2
  <2>2. P[k].blk \in R
    BY <2>1, <1>1, WalkIs
  <2>3. P[(k - 1) + 1].depth = P[k - 1].depth - 1
    BY <2>1, <1>1 DEF Walks
  <2> QED BY <2>1, <2>2, <2>3, FitValid DEF Shape
<1>5. HaveExtent(P) => ValidSelected(nd[b], s.pos)
  BY <1>1, <1>2, FitValid DEF Shape, HaveExtent
<1>6. nd[b].depth \in Nat
  BY <1>2, DepthIs
<1>7. ~ (\/ ~ ValidHeader(Root, nd[Root]) \/ ~ ValidEntries(nd[Root])
         \/ \E k \in 2 .. Len(P) :
                \/ ~ ValidHeader(P[k].blk, nd[P[k].blk])
                \/ P[k].depth # P[k - 1].depth - 1)
  BY <1>3, <1>4
<1> HIDE DEF s, b
<1>8. CASE nd[b].depth = 0
  <2>1. ~ (Leaf(P).depth > 0)
    BY <1>1, <1>2, <1>8
  <2>2. ~ (HaveExtent(P) /\ ~ ValidSelected(nd[Leaf(P).blk], Leaf(P).pos))
    BY <1>1, <1>5 DEF b
  <2>3. FindResult(nd, P) = "EOK"
    BY <1>7, <2>1, <2>2 DEF FindResult
  <2> QED BY <2>3, <1>1, <1>8 DEF P
<1>9. CASE nd[b].depth # 0
  <2>1. Leaf(P).depth > 0 /\ Leaf(P).cnt = 0
    BY <1>1, <1>2, <1>6, <1>9 DEF Stops
  <2>2. FindResult(nd, P) = "ENOENT"
    BY <1>7, <2>1 DEF FindResult
  <2> QED BY <2>2, <1>1, <1>9 DEF P
<1> QED BY <1>8, <1>9

(* The last element of the path *)
LEMMA LeafIs ==
  ASSUME NEW nd, NEW R, Shape(nd, R), NEW l \in LBlocks
  PROVE  LET s == Leaf(FindPath(nd, l))
             b == Landing(nd, l)
         IN  /\ b \in R /\ s.blk = b /\ s.depth = nd[b].depth /\ s.cnt = Len(nd[b].ents) /\ s.cnt \in Nat
             /\ HaveExtent(FindPath(nd, l)) <=> nd[b].ents # <<>>
             /\ nd[b].ents # <<>> => /\ s.pos = SearchPos(nd[b].ents, l) /\ s.pos \in 1 .. Len(nd[b].ents)
                                     /\ s.ent = nd[b].ents[s.pos]
             /\ s = PathStep(nd, b, l)
<1> DEFINE P == FindPath(nd, l)
           s == P[Len(P)]
           b == s.blk
<1>1. P \in Walks(nd, R, l) /\ Leaf(P) = s /\ Landing(nd, l) = b
  BY PathIs DEF Leaf, Landing
<1> HIDE DEF P
<1>2. /\ Len(P) \in 1 .. Len(P) /\ b \in R /\ s = PathStep(nd, b, l)
      /\ s.depth = nd[b].depth /\ s.cnt = Len(nd[b].ents) /\ s.cnt \in Nat
      /\ s.cnt > 0 => /\ s.pos = SearchPos(nd[b].ents, l) /\ s.pos \in 1 .. s.cnt
                      /\ s.ent = nd[b].ents[s.pos]
  BY <1>1, WalkIs
<1>3. HaveExtent(P) <=> s.cnt > 0
  BY <1>1 DEF HaveExtent
<1>4. nd[b].ents = <<>> <=> Len(nd[b].ents) = 0
  BY <1>2, DepthIs
<1> HIDE DEF s, b
<1>5. nd[b].ents # <<>> <=> s.cnt > 0
  BY <1>2, <1>4
<1>6. s.blk = b
  BY DEF b
<1> QED BY <1>1, <1>2, <1>3, <1>5, <1>6 DEF P

(* A lookup answers what the landing node says. *)
LEMMA LookupIs ==
  ASSUME NEW nd, NEW R, Shape(nd, R), NEW l \in LBlocks
  PROVE  Lookup(nd, l) = Answer(nd[Landing(nd, l)], l)
<1> DEFINE P == FindPath(nd, l)
           s == Leaf(P)
           b == Landing(nd, l)
           A == IF FindResult(nd, P) = "EOK" /\ HaveExtent(P) /\ Covers(s.ent, l)
                THEN s.ent.start + (l - s.ent.first) ELSE Hole
<1>1. Lookup(nd, l) = A
  BY DEF Lookup
<1>2. FindResult(nd, P) = IF nd[b].depth = 0 THEN "EOK" ELSE "ENOENT"
  BY ResultIs
<1>3. /\ b \in R
      /\ HaveExtent(P) <=> nd[b].ents # <<>>
      /\ nd[b].ents # <<>> => /\ s.pos = SearchPos(nd[b].ents, l) /\ s.pos \in 1 .. Len(nd[b].ents)
                              /\ s.ent = nd[b].ents[s.pos]
  BY LeafIs
<1>4. Fit(b, nd[b])
  BY <1>3, DepthIs
<1> DEFINE e == nd[b].ents[SearchPos(nd[b].ents, l)]
<1>5. nd[b].depth = 0 /\ nd[b].ents # <<>> => End(e) = End64(e) /\ s.ent = e
  <2> SUFFICES ASSUME nd[b].depth = 0, nd[b].ents # <<>> PROVE End(e) = End64(e) /\ s.ent = e
    OBVIOUS
  <2> DEFINE q == SearchPos(nd[b].ents, l)
  <2>1. q \in 1 .. Len(nd[b].ents) /\ s.ent = e
    BY <1>3
  <2> HIDE DEF q, b
  <2>2. End(nd[b].ents[q]) = End64(nd[b].ents[q])
    <3> DEFINE n == nd[b]
    <3>1. Fit(b, n) /\ q \in 1 .. Len(n.ents) /\ n.depth = 0
      BY <1>4, <2>1
    <3> HIDE DEF n
    <3>2. End(n.ents[q]) = End64(n.ents[q])
      BY Zenon, <3>1, EntryIs
    <3> QED BY <3>2 DEF n
  <2> QED BY <2>1, <2>2 DEF q
<1> HIDE DEF P, s, b
<1>6. CASE nd[b].depth = 0 /\ nd[b].ents # <<>>
  <2>1. FindResult(nd, P) = "EOK" /\ HaveExtent(P)
    BY <1>2, <1>3, <1>6
  <2>2. Covers(s.ent, l) <=> e.first <= l /\ l < End64(e)
    BY <1>5, <1>6 DEF Covers
  <2>3. s.ent = e
    BY <1>5, <1>6
  <2> HIDE DEF e
  <2>4. A = IF e.first <= l /\ l < End64(e) THEN e.start + (l - e.first) ELSE Hole
    BY <2>1, <2>2, <2>3
  <2>5. Answer(nd[b], l) = IF e.first <= l /\ l < End64(e) THEN e.start + (l - e.first) ELSE Hole
    BY <1>6 DEF Answer, e
  <2> QED BY <1>1, <2>4, <2>5 DEF b
<1>7. CASE ~ (nd[b].depth = 0 /\ nd[b].ents # <<>>)
  <2>1. ~ (FindResult(nd, P) = "EOK" /\ HaveExtent(P))
    BY <1>2, <1>3, <1>7
  <2>2. A = Hole
    BY <2>1
  <2>3. Answer(nd[b], l) = Hole
    BY <1>7 DEF Answer
  <2> QED BY <1>1, <2>2, <2>3 DEF b
<1> QED BY <1>6, <1>7

(* A node's answer is that of its one entry that has l. *)
LEMMA AnswerIs ==
  ASSUME NEW b, NEW n, Fit(b, n), NEW l \in LBlocks, NEW v
  PROVE  (Answer(n, l) = v /\ v # Hole) <=>
            \E p \in 1 .. Len(n.ents) :
               n.depth = 0 /\ l \in Keys(n, p) /\ v = n.ents[p].start + (l - n.ents[p].first)
<1>1. l \in Int /\ l >= 0
  BY Width
<1>2. ASSUME NEW p \in 1 .. Len(n.ents), n.depth = 0, l \in Keys(n, p),
             v = n.ents[p].start + (l - n.ents[p].first)
      PROVE  Answer(n, l) = v /\ v # Hole
  <2> DEFINE e == n.ents[p]
  <2>1. n.ents # <<>> /\ SearchPos(n.ents, l) = p
    BY <1>2, KeysAt
  <2>2. l \in e.first .. End64(e) - 1 /\ End64(e) \in 1 .. LastLBlock /\ e.first \in 0 .. LastLBlock /\ e.start \in Blocks
    BY Zenon, <1>2, EntryIs DEF Keys
  <2>3. e.first <= l /\ l < End64(e) /\ v = e.start + (l - e.first)
    BY <1>1, <1>2, <2>2, Width
  <2>4. v # 0
    <3>1. e.start \in Nat /\ e.start >= 1 /\ e.first \in Int
      BY <2>2, SizeAssumption, Width DEF Blocks
    <3> HIDE DEF e
    <3> QED BY <1>1, <2>3, <3>1
  <2>5. Answer(n, l) = v
    BY <1>2, <2>1, <2>3 DEF Answer
  <2> QED BY <2>4, <2>5 DEF Hole
<1>3. ASSUME Answer(n, l) = v, v # Hole
      PROVE  \E p \in 1 .. Len(n.ents) :
               n.depth = 0 /\ l \in Keys(n, p) /\ v = n.ents[p].start + (l - n.ents[p].first)
  <2> DEFINE p == SearchPos(n.ents, l)
             e == n.ents[p]
  <2>1. n.depth = 0 /\ n.ents # <<>> /\ e.first <= l /\ l < End64(e) /\ v = e.start + (l - e.first)
    BY <1>3 DEF Answer
  <2>2. p \in 1 .. Len(n.ents)
    BY <1>1, <2>1, SearchIs DEF At
  <2>3. End64(e) \in 1 .. LastLBlock /\ e.first \in 0 .. LastLBlock
    BY Zenon, <2>1, <2>2, EntryIs
  <2> HIDE DEF p
  <2>4. l \in e.first .. End64(e) - 1
    BY <1>1, <2>1, <2>3, Width
  <2>5. l \in Keys(n, p)
    BY <2>1, <2>4 DEF Keys
  <2> QED BY <2>1, <2>2, <2>5
<1> QED BY <1>2, <1>3

-----------------------------------------------------------------------------
(* Trees. *)

(* The child towards l *)
LEMMA TowardIs ==
  ASSUME NEW nd, NEW R, Shape(nd, R), NEW b \in R, ~ Ends(nd[b]), NEW l \in LBlocks
  PROVE  /\ SearchPos(nd[b].ents, l) \in 1 .. Len(nd[b].ents) /\ At(nd[b].ents, l, SearchPos(nd[b].ents, l))
         /\ Slot(nd, b, SearchPos(nd[b].ents, l), Toward(nd, b, l))
         /\ Toward(nd, b, l) \in R \ {Root} /\ nd[Toward(nd, b, l)].depth = nd[b].depth - 1
<1>1. Fit(b, nd[b]) /\ nd[b].depth \in Nat /\ nd[b].depth # 0 /\ nd[b].ents # <<>> /\ l \in Int
  BY DepthIs, Width DEF Ends
<1>2. At(nd[b].ents, l, SearchPos(nd[b].ents, l))
  BY Zenon, <1>1, SearchIs
<1>3. SearchPos(nd[b].ents, l) \in 1 .. Len(nd[b].ents)
  BY <1>2 DEF At
<1>4. nd[b].depth > 0
  BY <1>1
<1>5. Slot(nd, b, SearchPos(nd[b].ents, l), Toward(nd, b, l))
  BY <1>3, <1>4 DEF Slot, Toward
<1>6. Toward(nd, b, l) \in R \ {Root} /\ nd[Toward(nd, b, l)].depth = nd[b].depth - 1
  BY <1>3, <1>4 DEF Shape, Toward
<1> QED BY <1>2, <1>3, <1>5, <1>6

(* A slot's child is a node one level down. *)
LEMMA SlotIs ==
  ASSUME NEW nd, NEW R, Shape(nd, R), NEW b \in R, NEW p, NEW c, Slot(nd, b, p, c)
  PROVE  /\ c \in R /\ c # Root /\ nd[c].depth = nd[b].depth - 1 /\ nd[c].depth < nd[b].depth
         /\ ~ Ends(nd[b]) /\ nd[b].depth \in 1 .. MaxDepth /\ p \in 1 .. Len(nd[b].ents)
         /\ nd[b].ents[p].first \in LBlocks /\ nd[b].ents[p].first \in Int /\ c \in Blocks
<1>1. nd[b].depth > 0 /\ p \in 1 .. Len(nd[b].ents) /\ nd[b].ents[p].child = c
  BY DEF Slot
<1>2. c \in R /\ c # Root /\ nd[c].depth = nd[b].depth - 1
  BY <1>1 DEF Shape
<1>3. Fit(b, nd[b]) /\ nd[b].depth \in Nat /\ nd[b].depth \in 0 .. MaxDepth /\ MaxDepth \in Nat
  BY DepthIs, SizeAssumption
<1>4. nd[b].ents # <<>> /\ nd[b].ents[p].first \in 0 .. LastLBlock /\ nd[b].ents[p].first \in LBlocks
  BY Zenon, <1>1, <1>3, EntryIs
<1>5. nd[b].depth # 0
  BY <1>1, <1>3
<1>6. ~ Ends(nd[b])
  BY <1>4, <1>5 DEF Ends
<1>7. c \in Blocks
  BY <1>2 DEF Shape, Places
<1> QED BY <1>1, <1>2, <1>3, <1>4, <1>6, <1>7, Width

(* What holds of the root and goes from a node to its children holds of all. *)
LEMMA TopDown ==
  ASSUME NEW nd, NEW R, Shape(nd, R), Hung(nd, R), NEW S, Root \in S,
         \A b \in R : \A p \in 1 .. Len(nd[b].ents), c \in R : Slot(nd, b, p, c) /\ b \in S => c \in S
  PROVE  R \subseteq S
<1> DEFINE T == {n \in Nat : \A c \in R : MaxDepth - nd[c].depth <= n => c \in S}
<1>1. MaxDepth \in Nat /\ \A c \in R : nd[c].depth \in 0 .. MaxDepth
  BY DepthIs, SizeAssumption
<1>2. ASSUME NEW c \in R, c # Root PROVE \E b \in R : \E p \in 1 .. Len(nd[b].ents) : Slot(nd, b, p, c)
  BY <1>2 DEF Hung
<1>3. ASSUME NEW n \in Nat, \A c \in R : MaxDepth - nd[c].depth < n => c \in S, NEW c \in R, MaxDepth - nd[c].depth <= n
      PROVE  c \in S
  <2>1. CASE c = Root
    BY <2>1
  <2>2. CASE c # Root
    <3>1. PICK b \in R : \E p \in 1 .. Len(nd[b].ents) : Slot(nd, b, p, c)
      BY <1>2, <2>2
    <3>2. PICK p \in 1 .. Len(nd[b].ents) : Slot(nd, b, p, c)
      BY <3>1
    <3>3. nd[c].depth < nd[b].depth
      BY <3>2, SlotIs
    <3>4. MaxDepth - nd[b].depth < n
      BY <1>1, <1>3, <3>3
    <3> QED BY <1>3, <3>2, <3>4
  <2> QED BY <2>1, <2>2
<1>4. 0 \in T
  <2>1. \A c \in R : ~ (MaxDepth - nd[c].depth < 0)
    BY <1>1
  <2> QED BY <2>1, <1>3
<1>5. ASSUME NEW n \in Nat, n \in T PROVE n + 1 \in T
  <2>1. ASSUME NEW c \in R, MaxDepth - nd[c].depth < n + 1 PROVE c \in S
    <3>1. MaxDepth - nd[c].depth <= n
      BY <1>1, <2>1
    <3> QED BY <3>1, <1>5
  <2>2. n + 1 \in Nat
    OBVIOUS
  <2>3. ASSUME NEW c \in R, MaxDepth - nd[c].depth <= n + 1 PROVE c \in S
    <3> DEFINE m == n + 1
    <3>1. m \in Nat /\ MaxDepth - nd[c].depth <= m /\ \A x \in R : MaxDepth - nd[x].depth < m => x \in S
      BY <2>1, <2>2, <2>3
    <3> HIDE DEF m
    <3> QED BY <3>1, <1>3
  <2> QED BY <2>2, <2>3
<1>6. Nat \subseteq T
  <2> HIDE DEF T
  <2> QED BY <1>4, <1>5, Upwards
<1>7. ASSUME NEW c \in R PROVE c \in S
  <2>1. MaxDepth \in T /\ MaxDepth - nd[c].depth <= MaxDepth
    BY <1>1, <1>6
  <2> QED BY <2>1
<1> QED BY <1>7

(* The path for l goes on to a child when l's search ends at its slot. *)
LEMMA SlotOn ==
  ASSUME NEW nd, NEW R, Shape(nd, R), Once(nd, R), NEW b \in R, NEW p, NEW c, Slot(nd, b, p, c), NEW l \in LBlocks
  PROVE  On(nd, l, c) <=> On(nd, l, b) /\ SearchPos(nd[b].ents, l) = p
<1>1. c \in R /\ c # Root /\ ~ Ends(nd[b]) /\ p \in 1 .. Len(nd[b].ents) /\ nd[b].ents[p].child = c
  BY SlotIs DEF Slot
<1>2. ASSUME On(nd, l, b), SearchPos(nd[b].ents, l) = p PROVE On(nd, l, c)
  BY <1>1, <1>2, OnIs DEF Toward
<1>3. ASSUME On(nd, l, c) PROVE On(nd, l, b) /\ SearchPos(nd[b].ents, l) = p
  <2>1. PICK a \in R : On(nd, l, a) /\ ~ Ends(nd[a]) /\ Toward(nd, a, l) = c
    BY <1>1, <1>3, OnIs
  <2>2. SearchPos(nd[a].ents, l) \in 1 .. Len(nd[a].ents) /\ Slot(nd, a, SearchPos(nd[a].ents, l), c)
    BY <2>1, TowardIs
  <2>3. a = b /\ SearchPos(nd[a].ents, l) = p
    BY <1>1, <2>2 DEF Once
  <2> QED BY <2>1, <2>3
<1> QED BY <1>2, <1>3

(* g[b] are blocks whose path comes by b. *)
Nested(nd, R, g) ==
    \A b \in R : \A p \in 1 .. Len(nd[b].ents), c \in R : Slot(nd, b, p, c) =>
        \A l \in g[c] : l \in g[b] /\ SearchPos(nd[b].ents, l) = p

(* In a tree the regions are nested. *)
LEMMA RegionNested ==
  ASSUME NEW nd, NEW R, Shape(nd, R), Once(nd, R)
  PROVE  Region(nd, R) \in [R -> SUBSET LBlocks] /\ Nested(nd, R, Region(nd, R))
<1>1. Region(nd, R) \in [R -> SUBSET LBlocks]
  BY DEF Region
<1>2. \A b \in R : \A l : l \in Region(nd, R)[b] <=> l \in LBlocks /\ On(nd, l, b)
  BY DEF Region
<1>3. ASSUME NEW b \in R, NEW p \in 1 .. Len(nd[b].ents), NEW c \in R, Slot(nd, b, p, c), NEW l \in Region(nd, R)[c]
      PROVE  l \in Region(nd, R)[b] /\ SearchPos(nd[b].ents, l) = p
  <2>1. l \in LBlocks /\ On(nd, l, c)
    BY <1>2
  <2>2. On(nd, l, b) /\ SearchPos(nd[b].ents, l) = p
    BY <1>3, <2>1, SlotOn
  <2> QED BY <1>2, <2>1, <2>2
<1> QED BY <1>1, <1>3 DEF Nested

(* Nodes that are hung once each, with nested regions that have their keys,
   are a tree. *)
LEMMA TreeByRegions ==
  ASSUME NEW nd, NEW R, Shape(nd, R), Hung(nd, R), Once(nd, R),
         NEW g \in [R -> SUBSET LBlocks], Nested(nd, R, g), Routed(nd, R, g)
  PROVE  Tree(nd, R) /\ \A b \in R : g[b] \subseteq Region(nd, R)[b]
<1> DEFINE S == {b \in R : \A l \in g[b] : On(nd, l, b)}
<1>1. Root \in S
  <2>1. Root \in R
    BY DEF Shape
  <2>2. ASSUME NEW l \in g[Root] PROVE On(nd, l, Root)
    <3>1. l \in LBlocks
      BY <2>1
    <3> QED BY <3>1, OnIs
  <2> QED BY <2>1, <2>2
<1>2. ASSUME NEW b \in R, NEW p \in 1 .. Len(nd[b].ents), NEW c \in R, Slot(nd, b, p, c), b \in S
      PROVE  c \in S
  <2>1. ASSUME NEW l \in g[c] PROVE On(nd, l, c)
    <3>1. l \in LBlocks /\ l \in g[b] /\ SearchPos(nd[b].ents, l) = p
      BY <1>2 DEF Nested
    <3>2. On(nd, l, b)
      BY <1>2, <3>1
    <3> QED BY <1>2, <3>1, <3>2, SlotOn
  <2> QED BY <2>1
<1>3. R \subseteq S
  <2> HIDE DEF S
  <2> QED BY <1>1, <1>2, TopDown
<1>4. \A b \in R : g[b] \subseteq Region(nd, R)[b]
  BY <1>3 DEF Region
<1>5. Routed(nd, R, Region(nd, R))
  <2>1. ASSUME NEW b \in R, NEW p \in 1 .. Len(nd[b].ents) PROVE Keys(nd[b], p) \subseteq Region(nd, R)[b]
    <3>1. Keys(nd[b], p) \subseteq g[b]
      BY DEF Routed
    <3> QED BY <3>1, <1>4
  <2> QED BY <2>1 DEF Routed
<1> QED BY <1>4, <1>5 DEF Tree

(* In a tree the path for a key comes by its node. *)
LEMMA KeyOn ==
  ASSUME NEW nd, NEW R, Tree(nd, R), NEW b \in R, NEW p \in 1 .. Len(nd[b].ents), NEW l \in Keys(nd[b], p)
  PROVE  l \in LBlocks /\ On(nd, l, b) /\ SearchPos(nd[b].ents, l) = p
<1>1. Fit(b, nd[b])
  BY DepthIs DEF Tree
<1>2. l \in LBlocks /\ SearchPos(nd[b].ents, l) = p
  BY <1>1, KeysAt
<1>3. l \in Region(nd, R)[b]
  BY DEF Tree, Routed
<1> QED BY <1>2, <1>3 DEF Region

(* ... and that for a separator by the child too. *)
LEMMA SeparatorOn ==
  ASSUME NEW nd, NEW R, Tree(nd, R), NEW b \in R, NEW p, NEW c, Slot(nd, b, p, c)
  PROVE  LET k == nd[b].ents[p].first
         IN  k \in LBlocks /\ On(nd, k, b) /\ On(nd, k, c) /\ SearchPos(nd[b].ents, k) = p
<1> DEFINE k == nd[b].ents[p].first
<1>1. Shape(nd, R) /\ Once(nd, R)
  BY DEF Tree
<1>2. p \in 1 .. Len(nd[b].ents) /\ nd[b].depth \in 1 .. MaxDepth
  BY <1>1, SlotIs
<1>3. k \in Keys(nd[b], p)
  BY <1>2, SizeAssumption DEF Keys
<1> HIDE DEF k
<1>4. k \in LBlocks /\ On(nd, k, b) /\ SearchPos(nd[b].ents, k) = p
  BY <1>2, <1>3, KeyOn
<1>5. On(nd, k, c)
  BY <1>1, <1>4, SlotOn
<1> QED BY <1>4, <1>5 DEF k

(* In a tree a lookup finds what is there. *)
LEMMA LookupMaps ==
  ASSUME NEW nd, NEW R, Tree(nd, R), NEW l \in LBlocks
  PROVE  \A v : Maps(nd, R, l, v) <=> Lookup(nd, l) = v /\ v # Hole
<1> DEFINE b == Landing(nd, l)
<1>1. Shape(nd, R)
  BY DEF Tree
<1>2. b \in R /\ Fit(b, nd[b]) /\ Lookup(nd, l) = Answer(nd[b], l)
  BY <1>1, LeafIs, DepthIs, LookupIs
<1> HIDE DEF b
<1>3. ASSUME NEW v PROVE Maps(nd, R, l, v) <=> Lookup(nd, l) = v /\ v # Hole
  <2>1. (Answer(nd[b], l) = v /\ v # Hole) <=>
            \E p \in 1 .. Len(nd[b].ents) :
               nd[b].depth = 0 /\ l \in Keys(nd[b], p) /\ v = nd[b].ents[p].start + (l - nd[b].ents[p].first)
    <3> DEFINE n == nd[b]
    <3>1. Fit(b, n)
      BY <1>2
    <3> HIDE DEF n
    <3>2. (Answer(n, l) = v /\ v # Hole) <=>
            \E p \in 1 .. Len(n.ents) :
               n.depth = 0 /\ l \in Keys(n, p) /\ v = n.ents[p].start + (l - n.ents[p].first)
      BY Zenon, <3>1, AnswerIs
    <3> QED BY <3>2 DEF n
  <2>2. ASSUME Maps(nd, R, l, v)
        PROVE \E p \in 1 .. Len(nd[b].ents) :
               nd[b].depth = 0 /\ l \in Keys(nd[b], p) /\ v = nd[b].ents[p].start + (l - nd[b].ents[p].first)
    <3>1. PICK a \in R : \E p \in 1 .. Len(nd[a].ents) :
             nd[a].depth = 0 /\ l \in Keys(nd[a], p) /\ v = nd[a].ents[p].start + (l - nd[a].ents[p].first)
      BY <2>2 DEF Maps
    <3>2. PICK p \in 1 .. Len(nd[a].ents) :
             nd[a].depth = 0 /\ l \in Keys(nd[a], p) /\ v = nd[a].ents[p].start + (l - nd[a].ents[p].first)
      BY <3>1
    <3>3. On(nd, l, a) /\ Ends(nd[a])
      BY <3>2, KeyOn DEF Ends
    <3>4. a = b
      BY <1>1, <3>3, OnIs DEF b
    <3> QED BY <3>2, <3>4
  <2>3. ASSUME NEW p \in 1 .. Len(nd[b].ents), nd[b].depth = 0, l \in Keys(nd[b], p), v = nd[b].ents[p].start + (l - nd[b].ents[p].first)
        PROVE Maps(nd, R, l, v)
    BY <1>2, <2>3 DEF Maps
  <2> QED BY <1>2, <2>1, <2>2, <2>3
<1> QED BY <1>3

(* What is between two keys goes where both go. *)
LEMMA SearchBetween ==
  ASSUME NEW b, NEW n, Fit(b, n), n.ents # <<>>, NEW a \in Int, NEW x \in Int, NEW z \in Int, a <= x, x <= z,
         SearchPos(n.ents, a) = SearchPos(n.ents, z)
  PROVE  SearchPos(n.ents, x) = SearchPos(n.ents, a)
<1> DEFINE p == SearchPos(n.ents, a)
<1>1. At(n.ents, a, p) /\ At(n.ents, z, p)
  BY SearchIs
<1> HIDE DEF p
<1>2. p \in 1 .. Len(n.ents) /\ Len(n.ents) \in Nat
  BY <1>1, NodeIs DEF At
<1>3. ASSUME NEW q \in 1 .. Len(n.ents) PROVE n.ents[q].first \in Int
  <2>1. n.ents[q].first \in 0 .. LastLBlock
    BY Zenon, EntryIs
  <2> QED BY <2>1, Width
<1>4. p = 1 \/ n.ents[p].first <= x
  BY <1>1, <1>2, <1>3 DEF At
<1>5. ASSUME NEW q \in p + 1 .. Len(n.ents) PROVE x < n.ents[q].first
  <2>1. q \in 1 .. Len(n.ents) /\ z < n.ents[q].first
    BY <1>1, <1>2 DEF At
  <2> QED BY <2>1, <1>3
<1>6. At(n.ents, x, p)
  BY <1>2, <1>4, <1>5 DEF At
<1> QED BY Zenon, <1>6, SearchIs DEF p

(* A block on two paths is on those between them. *)
LEMMA RouteBetween ==
  ASSUME NEW nd, NEW R, Tree(nd, R), NEW a \in LBlocks, NEW x \in LBlocks, NEW z \in LBlocks, a <= x, x <= z,
         NEW c \in R, On(nd, a, c), On(nd, z, c)
  PROVE  On(nd, x, c)
<1>1. Shape(nd, R) /\ Hung(nd, R) /\ Once(nd, R)
  BY DEF Tree
<1>2. a \in Int /\ x \in Int /\ z \in Int
  BY Width
<1> DEFINE S == {y \in R : On(nd, a, y) /\ On(nd, z, y) => On(nd, x, y)}
<1>3. Root \in S
  BY <1>1, OnIs DEF Shape
<1>4. ASSUME NEW b \in R, NEW p \in 1 .. Len(nd[b].ents), NEW y \in R, Slot(nd, b, p, y), b \in S
      PROVE  y \in S
  <2> SUFFICES ASSUME On(nd, a, y), On(nd, z, y) PROVE On(nd, x, y)
    OBVIOUS
  <2>1. /\ On(nd, a, b) /\ SearchPos(nd[b].ents, a) = p
        /\ On(nd, z, b) /\ SearchPos(nd[b].ents, z) = p
    BY <1>1, <1>4, SlotOn
  <2>2. On(nd, x, b)
    BY <1>4, <2>1
  <2>3. Fit(b, nd[b]) /\ nd[b].ents # <<>>
    BY <1>1, <1>4, SlotIs, DepthIs DEF Ends
  <2> DEFINE n == nd[b]
  <2>4. SearchPos(n.ents, x) = p
    <3>1. Fit(b, n) /\ n.ents # <<>> /\ SearchPos(n.ents, a) = p /\ SearchPos(n.ents, z) = p
      BY <2>1, <2>3
    <3> HIDE DEF n
    <3> QED BY <3>1, <1>2, SearchBetween
  <2> QED BY <1>1, <1>4, <2>2, <2>4, SlotOn
<1>5. R \subseteq S
  <2> HIDE DEF S
  <2> QED BY <1>1, <1>3, <1>4, TopDown
<1> QED BY <1>5

(* Below c the separators are the first keys, so on the path for a block not
   above c's first key all nodes from c on have the same first key. *)
LEMMA Spine ==
  ASSUME NEW nd, NEW R, Shape(nd, R), NEW c \in R, NEW X, X \subseteq {c}, Neat(nd, R, X),
         NEW l \in LBlocks, On(nd, l, c), nd[c].ents # <<>>, l <= nd[c].ents[1].first
  PROVE  /\ \A x : On(nd, l, x) /\ nd[x].depth <= nd[c].depth =>
                   nd[x].ents # <<>> /\ nd[x].ents[1].first = nd[c].ents[1].first
         /\ nd[Landing(nd, l)].depth = 0 /\ nd[Landing(nd, l)].ents # <<>>
         /\ nd[Landing(nd, l)].ents[1].first = nd[c].ents[1].first
<1> DEFINE k == nd[c].ents[1].first
           S == {x \in R : nd[x].depth <= nd[c].depth /\ nd[x].ents # <<>> /\ nd[x].ents[1].first = k}
<1>1. c \in S
  <2>1. nd[c].depth \in Nat
    BY DepthIs
  <2> QED BY <2>1
<1> HIDE DEF k
<1>2. l <= k /\ l \in Int
  BY Width DEF k
<1>3. ASSUME NEW b \in S, On(nd, l, b), ~ Ends(nd[b]) PROVE Toward(nd, b, l) \in S
  <2> DEFINE n == nd[b]
             t == Toward(nd, b, l)
  <2>1. b \in R /\ Fit(b, n) /\ n.ents # <<>> /\ n.ents[1].first = k /\ n.depth \in Nat /\ n.depth <= nd[c].depth
    BY DepthIs
  <2>2. t \in R /\ Slot(nd, b, SearchPos(n.ents, l), t) /\ nd[t].depth = n.depth - 1
    BY <1>3, <2>1, TowardIs
  <2>3. SearchPos(n.ents, l) = 1
    <3> HIDE DEF n
    <3>1. Len(n.ents) \in Nat /\ Len(n.ents) # 0 /\ Keyed(n.ents)
      BY <2>1, NodeIs DEF Fit
    <3>2. ASSUME NEW q \in 1 + 1 .. Len(n.ents) PROVE l < n.ents[q].first
      <4>1. 1 \in 1 .. Len(n.ents) /\ q \in 1 .. Len(n.ents) /\ 1 < q
        BY <3>1
      <4>2. n.ents[1].first < n.ents[q].first
        BY <3>1, <4>1 DEF Keyed
      <4>3. n.ents[1].first \in 0 .. LastLBlock /\ n.ents[q].first \in 0 .. LastLBlock
        BY Zenon, <2>1, <4>1, EntryIs
      <4> QED BY <4>2, <4>3, <2>1, <1>2, Width
    <3>3. At(n.ents, l, 1)
      BY <3>1, <3>2 DEF At
    <3> QED BY Zenon, <3>3, <2>1, <1>2, SearchIs
  <2>4. nd[c].depth \in Nat /\ nd[t].depth < nd[c].depth
    BY <2>1, <2>2, DepthIs
  <2>5. t \in R \ X
    BY <2>2, <2>4
  <2>6. SearchPos(n.ents, l) \in 1 .. Len(n.ents)
    BY <2>2 DEF Slot
  <2>7. nd[t].ents # <<>> /\ nd[t].ents[1].first = n.ents[1].first
    BY <2>1, <2>2, <2>3, <2>5, <2>6 DEF Neat
  <2> QED BY <2>1, <2>2, <2>4, <2>7
<1>4. \A x : On(nd, l, x) /\ nd[x].depth <= nd[c].depth => x \in S
  <2> HIDE DEF S
  <2> QED BY <1>1, <1>3, OnInductFrom
<1> DEFINE d == Landing(nd, l)
<1>5. On(nd, l, d) /\ Ends(nd[d]) /\ nd[d].depth <= nd[c].depth
  BY OnIs
<1>6. d \in S
  BY <1>4, <1>5
<1> QED BY <1>4, <1>5, <1>6 DEF Ends, k

(* Every separator is the first block of an extent. *)
LEMMA SeparatorMapped ==
  ASSUME NEW nd, NEW R, Tree(nd, R), Neat(nd, R, {}), NEW b \in R, NEW p, NEW c, Slot(nd, b, p, c)
  PROVE  Lookup(nd, nd[b].ents[p].first) # Hole
<1> DEFINE k == nd[b].ents[p].first
<1>1. Shape(nd, R)
  BY DEF Tree
<1>2. k \in LBlocks /\ On(nd, k, c)
  BY SeparatorOn
<1>3. c \in R /\ p \in 1 .. Len(nd[b].ents)
  BY <1>1, SlotIs
<1>4. nd[c].ents # <<>> /\ nd[c].ents[1].first = k
  BY <1>3 DEF Neat
<1> HIDE DEF k
<1>5. k <= nd[c].ents[1].first
  BY <1>2, <1>4, Width
<1> DEFINE d == Landing(nd, k)
           n == nd[d]
<1>6. n.depth = 0 /\ n.ents # <<>> /\ n.ents[1].first = k
  <2> DEFINE X == {}
  <2>1. X \subseteq {c} /\ Neat(nd, R, X)
    OBVIOUS
  <2> HIDE DEF X
  <2> QED BY <2>1, <1>1, <1>2, <1>3, <1>4, <1>5, Spine
<1>7. d \in R /\ Fit(d, n) /\ Len(n.ents) \in Nat
  BY <1>1, <1>2, LeafIs, DepthIs
<1>8. Lookup(nd, k) = Answer(n, k)
  BY <1>1, <1>2, LookupIs
<1> HIDE DEF n, d
<1>9. 1 \in 1 .. Len(n.ents)
  BY <1>6, <1>7, NodeIs
<1>10. k \in Keys(n, 1)
  <2>1. n.ents[1].len \in 1 .. MaxLen /\ End64(n.ents[1]) = n.ents[1].first + n.ents[1].len
    <3>1. n.depth = 0
      BY <1>6
    <3>2. ASSUME NEW q \in 1 .. Len(n.ents)
          PROVE  n.ents[q].len \in 1 .. MaxLen /\ End64(n.ents[q]) = n.ents[q].first + n.ents[q].len
      BY Zenon, <3>1, <1>7, EntryIs
    <3> QED BY <3>2, <1>9
  <2> QED BY <2>1, <1>2, <1>6, Width DEF Keys
<1>11. Answer(n, k) # Hole
  <2> DEFINE v == n.ents[1].start + (k - n.ents[1].first)
  <2>1. n.depth = 0 /\ k \in Keys(n, 1) /\ v = n.ents[1].start + (k - n.ents[1].first)
    BY <1>6, <1>10
  <2> HIDE DEF v
  <2>2. Answer(n, k) = v /\ v # Hole
    BY <1>2, <1>7, <1>9, <2>1, AnswerIs
  <2> QED BY <2>2
<1> QED BY <1>8, <1>11 DEF k

(* There is one path for l. *)
LEMMA WalkUnique ==
  ASSUME NEW nd, NEW R, Shape(nd, R), NEW l \in LBlocks, NEW P \in Walks(nd, R, l), NEW Q \in Walks(nd, R, l),
         Stops(P[Len(P)]), Stops(Q[Len(Q)])
  PROVE  P = Q
<1> DEFINE S == {n \in Nat : n + 1 <= Len(P) => n + 1 <= Len(Q) /\ P[n + 1] = Q[n + 1]}
<1>1. /\ Len(P) \in Nat \ {0} /\ Len(Q) \in Nat \ {0} /\ P[1].blk = Root /\ Q[1].blk = Root
      /\ 1 \in 1 .. Len(P) /\ 1 \in 1 .. Len(Q)
  BY WalkIs
<1>2. \A k \in 1 .. Len(P) : P[k] = PathStep(nd, P[k].blk, l)
  BY WalkIs
<1>3. \A k \in 1 .. Len(Q) : Q[k] = PathStep(nd, Q[k].blk, l)
  BY WalkIs
<1>4. 0 \in S
  BY <1>1, <1>2, <1>3
<1>5. ASSUME NEW n \in Nat, n \in S PROVE n + 1 \in S
  <2> SUFFICES ASSUME (n + 1) + 1 <= Len(P)
               PROVE  (n + 1) + 1 <= Len(Q) /\ P[(n + 1) + 1] = Q[(n + 1) + 1]
    OBVIOUS
  <2>1. n + 1 \in 1 .. Len(P) - 1 /\ (n + 1) + 1 \in 1 .. Len(P)
    BY <1>1
  <2>2. n + 1 <= Len(Q) /\ P[n + 1] = Q[n + 1]
    BY <1>1, <1>5
  <2>3. P[n + 1].depth > 0 /\ P[n + 1].cnt > 0 /\ P[(n + 1) + 1].blk = P[n + 1].ent.child
    BY <2>1 DEF Walks
  <2>4. n + 1 # Len(Q)
    <3>1. P[n + 1] \in PathSteps
      BY <2>1 DEF Walks
    <3>2. P[n + 1].cnt \in Nat /\ P[n + 1].depth \in 0 .. MaxDepth
      BY <3>1 DEF PathSteps
    <3>3. ~ Stops(P[n + 1])
      BY <2>3, <3>2 DEF Stops
    <3> QED BY <3>3, <2>2
  <2>5. n + 1 \in 1 .. Len(Q) - 1 /\ (n + 1) + 1 \in 1 .. Len(Q) /\ (n + 1) + 1 <= Len(Q)
    BY <1>1, <2>2, <2>4
  <2>6. Q[(n + 1) + 1].blk = Q[n + 1].ent.child
    BY <2>5 DEF Walks
  <2>7. P[(n + 1) + 1].blk = Q[(n + 1) + 1].blk
    BY <2>2, <2>3, <2>6
  <2> QED BY <1>2, <1>3, <2>1, <2>5, <2>7
<1>6. Nat \subseteq S
  <2> HIDE DEF S
  <2> QED BY Zenon, <1>4, <1>5, Upwards
<1>7. ASSUME NEW k \in 1 .. Len(P) PROVE k <= Len(Q) /\ P[k] = Q[k]
  <2>1. k - 1 \in Nat /\ (k - 1) + 1 = k /\ k <= Len(P)
    BY <1>1
  <2>2. k - 1 \in S
    BY <1>6, <2>1
  <2> QED BY <2>1, <2>2
<1>8. Len(P) = Len(Q)
  <2> SUFFICES ASSUME Len(P) # Len(Q) PROVE FALSE
    OBVIOUS
  <2>1. Len(P) \in 1 .. Len(P) /\ Len(P) <= Len(Q) /\ P[Len(P)] = Q[Len(P)]
    BY <1>1, <1>7
  <2>2. Len(P) \in 1 .. Len(Q) - 1
    BY <1>1, <2>1
  <2>3. Q[Len(P)].depth > 0 /\ Q[Len(P)].cnt > 0
    BY <2>2 DEF Walks
  <2>4. Q[Len(P)] \in PathSteps
    <3>1. Len(P) \in 1 .. Len(Q)
      BY <1>1, <2>2
    <3> QED BY <3>1 DEF Walks
  <2>5. ~ Stops(P[Len(P)])
    BY <2>1, <2>3, <2>4 DEF Stops, PathSteps
  <2> QED BY <2>5
<1>9. P \in Seq(PathSteps) /\ Q \in Seq(PathSteps)
  BY DEF Walks
<1> QED BY <1>7, <1>8, <1>9, SeqEqual

(* A complete path is what find_extent finds. *)
LEMMA PathUnique ==
  ASSUME NEW nd, NEW R, Shape(nd, R), NEW l \in LBlocks, NEW P \in Walks(nd, R, l), Stops(P[Len(P)])
  PROVE  FindPath(nd, l) = P
<1> DEFINE Q == FindPath(nd, l)
<1>1. Q \in Walks(nd, R, l) /\ Stops(Q[Len(Q)])
  BY PathIs DEF Leaf
<1> HIDE DEF Q
<1> QED BY <1>1, WalkUnique DEF Q

(* What is not in the tree does not matter. *)
LEMMA SameTree ==
  ASSUME NEW nd, NEW R, Tree(nd, R), NEW md \in [Places -> Nodes], \A b \in R : md[b] = nd[b]
  PROVE  /\ Tree(md, R)
         /\ \A l \in LBlocks : FindPath(md, l) = FindPath(nd, l) /\ Lookup(md, l) = Lookup(nd, l)
         /\ \A X : Neat(nd, R, X) => Neat(md, R, X)
<1>1. Shape(nd, R) /\ R \in SUBSET Places
  BY DEF Tree, Shape
<1>2. Shape(md, R)
  BY <1>1 DEF Shape
<1>3. \A b \in R : \A l : PathStep(md, b, l) = PathStep(nd, b, l)
  BY DEF PathStep
<1>4. ASSUME NEW l \in LBlocks PROVE FindPath(md, l) = FindPath(nd, l)
  <2> DEFINE P == FindPath(nd, l)
  <2>1. P \in Walks(nd, R, l) /\ Stops(P[Len(P)])
    BY <1>1, PathIs DEF Leaf
  <2> HIDE DEF P
  <2>2. P \in Walks(md, R, l)
    BY <2>1, <1>3 DEF Walks
  <2> QED BY <1>2, <2>1, <2>2, PathUnique DEF P
<1>5. ASSUME NEW l \in LBlocks PROVE Lookup(md, l) = Lookup(nd, l)
  <2>1. Landing(md, l) = Landing(nd, l)
    BY <1>4 DEF Landing
  <2>2. Landing(nd, l) \in R
    BY <1>1, LeafIs
  <2> QED BY <1>1, <1>2, <2>1, <2>2, LookupIs
<1>6. \A b \in R : \A p, c : Slot(md, b, p, c) <=> Slot(nd, b, p, c)
  BY DEF Slot
<1>7. Hung(md, R)
  BY <1>6 DEF Hung, Tree
<1>8. Once(md, R)
  <2> SUFFICES ASSUME NEW a \in R, NEW b \in R, NEW p \in 1 .. Len(md[a].ents), NEW q \in 1 .. Len(md[b].ents), NEW c \in R,
                      Slot(md, a, p, c), Slot(md, b, q, c)
               PROVE  a = b /\ p = q
    BY DEF Once
  <2>1. Slot(nd, a, p, c) /\ Slot(nd, b, q, c) /\ p \in 1 .. Len(nd[a].ents) /\ q \in 1 .. Len(nd[b].ents)
    BY <1>6
  <2> QED BY <2>1 DEF Once, Tree
<1>9. Region(md, R) = Region(nd, R)
  <2>1. \A l \in LBlocks : \A b : On(md, l, b) <=> On(nd, l, b)
    BY <1>4 DEF On
  <2>2. \A b \in R : {l \in LBlocks : On(md, l, b)} = {l \in LBlocks : On(nd, l, b)}
    BY <2>1
  <2> QED BY <2>2 DEF Region
<1>10. Routed(md, R, Region(md, R))
  BY <1>9 DEF Routed, Tree
<1>11. ASSUME NEW X, Neat(nd, R, X) PROVE Neat(md, R, X)
  BY <1>6, <1>11 DEF Neat
<1> QED BY <1>2, <1>4, <1>5, <1>7, <1>8, <1>10, <1>11 DEF Tree

(* The nodes of a tree are what can be reached from the root. *)
LEMMA ReachableIs ==
  ASSUME NEW nd, NEW R, Tree(nd, R)
  PROVE  Reachable(nd) = R
<1>1. Shape(nd, R) /\ Hung(nd, R) /\ MaxDepth \in Nat /\ Root \in R
  BY SizeAssumption DEF Tree, Shape
<1> DEFINE V == SUBSET R
           v == {Root}
           below(X) == UNION {{nd[b].ents[p].child : p \in 1 .. Len(nd[b].ents)} : b \in {c \in X : nd[c].depth > 0}}
           step == [X \in V |-> below(X)]
           Is(f) == f = [k \in 0 .. MaxDepth |->
                            IF k = 0 THEN {Root}
                            ELSE UNION {{nd[b].ents[p].child : p \in 1 .. Len(nd[b].ents)} :
                                           b \in {c \in f[k - 1] : nd[c].depth > 0}}]
<1>2. ASSUME NEW X \in V PROVE below(X) \in V
  BY <1>1 DEF Shape
<1>3. step \in [V -> V] /\ v \in V
  BY Zenon, <1>1, <1>2
<1>4. Runs(V, v, MaxDepth, step) # {}
  <2> HIDE DEF V, step, v
  <2> QED BY <1>1, <1>3, Recursion
<1>5. PICK f \in [0 .. MaxDepth -> V] : f[0] = {Root} /\ \A k \in 1 .. MaxDepth : f[k] = below(f[k - 1])
  <2>1. PICK f \in Runs(V, v, MaxDepth, step) : TRUE
    BY Zenon, <1>4
  <2>2. f \in [0 .. MaxDepth -> V] /\ f[0] = v /\ \A k \in 1 .. MaxDepth : f[k] = step[f[k - 1]]
    BY Zenon, <2>1 DEF Runs
  <2>3. ASSUME NEW k \in 1 .. MaxDepth PROVE f[k] = below(f[k - 1])
    <3>1. k - 1 \in 0 .. MaxDepth
      BY <1>1
    <3>2. f[k - 1] \in V
      BY <2>2, <3>1
    <3> QED BY Zenon, <2>2, <3>2
  <2> QED BY Zenon, <2>2, <2>3
<1>6. Is(f)
  <2>1. \A k \in 0 .. MaxDepth : f[k] = IF k = 0 THEN {Root} ELSE below(f[k - 1])
    BY <1>1, <1>5
  <2> QED BY <2>1
<1> DEFINE g == CHOOSE h : Is(h)
<1>7. Is(g)
  <2> HIDE DEF Is
  <2> QED BY <1>6
<1>8. Reachable(nd) = UNION {g[k] : k \in 0 .. MaxDepth}
  BY DEF Reachable
<1>9. g[0] = {Root} /\ \A k \in 1 .. MaxDepth : g[k] = below(g[k - 1])
  <2>1. g = [k \in 0 .. MaxDepth |-> IF k = 0 THEN {Root} ELSE below(g[k - 1])]
    BY Zenon, <1>7
  <2> HIDE DEF g, below
  <2>2. 0 \in 0 .. MaxDepth /\ \A k \in 1 .. MaxDepth : k \in 0 .. MaxDepth /\ k # 0
    BY <1>1
  <2> QED BY Zenon, <2>1, <2>2
<1> HIDE DEF g
<1> DEFINE S == {n \in Nat : n <= MaxDepth => g[n] \subseteq R}
<1>10. 0 \in S
  BY <1>1, <1>9
<1>11. ASSUME NEW n \in Nat, n \in S PROVE n + 1 \in S
  <2> SUFFICES ASSUME n + 1 <= MaxDepth PROVE g[n + 1] \subseteq R
    OBVIOUS
  <2>1. n + 1 \in 1 .. MaxDepth /\ (n + 1) - 1 = n /\ g[n] \in V
    BY <1>1, <1>11
  <2>2. g[n + 1] = below(g[n])
    BY <1>9, <2>1
  <2> HIDE DEF below
  <2> QED BY <1>2, <2>1, <2>2
<1>12. \A k \in 0 .. MaxDepth : g[k] \subseteq R
  <2>1. Nat \subseteq S
    <3> HIDE DEF S
    <3> QED BY <1>10, <1>11, Upwards
  <2> QED BY <2>1, <1>1
<1> DEFINE T == {c \in R : \E k \in 0 .. MaxDepth : c \in g[k] /\ nd[c].depth = nd[Root].depth - k}
<1>13. Root \in T
  <2>1. nd[Root].depth \in Nat /\ 0 \in 0 .. MaxDepth
    BY <1>1, DepthIs
  <2>2. nd[Root].depth = nd[Root].depth - 0
    BY <2>1
  <2> QED BY <1>1, <1>9, <2>1, <2>2
<1>14. ASSUME NEW b \in R, NEW p \in 1 .. Len(nd[b].ents), NEW c \in R, Slot(nd, b, p, c), b \in T PROVE c \in T
  <2>1. PICK k \in 0 .. MaxDepth : b \in g[k] /\ nd[b].depth = nd[Root].depth - k
    BY <1>14
  <2>2. nd[c].depth = nd[b].depth - 1 /\ nd[b].depth > 0 /\ nd[b].ents[p].child = c
    BY <1>1, <1>14, SlotIs DEF Slot
  <2>3. nd[c].depth \in Nat /\ nd[Root].depth \in 0 .. MaxDepth /\ nd[b].depth \in Nat
    BY <1>1, DepthIs
  <2>4. k + 1 \in 1 .. MaxDepth /\ k + 1 \in 0 .. MaxDepth /\ (k + 1) - 1 = k /\ nd[c].depth = nd[Root].depth - (k + 1)
    <3> DEFINE D == nd[Root].depth
               z == nd[b].depth
               y == nd[c].depth
    <3>1. D \in 0 .. MaxDepth /\ z \in Nat /\ y \in Nat /\ z = D - k /\ y = z - 1 /\ k \in 0 .. MaxDepth
      BY <2>1, <2>2, <2>3
    <3> HIDE DEF D, z, y
    <3>2. k + 1 \in 1 .. MaxDepth /\ k + 1 \in 0 .. MaxDepth /\ (k + 1) - 1 = k /\ y = D - (k + 1)
      BY <3>1, SizeAssumption
    <3> QED BY <3>2 DEF D, y
  <2>5. c \in below(g[k])
    BY <2>1, <2>2
  <2>6. c \in g[k + 1]
    BY <1>9, <2>4, <2>5
  <2> QED BY <2>4, <2>6
<1>15. R \subseteq T
  <2> HIDE DEF T
  <2> QED BY <1>1, <1>13, <1>14, TopDown
<1> QED BY <1>8, <1>12, <1>15

-----------------------------------------------------------------------------
(* Changes of a tree. *)

(* md is nd with n in block b. *)
Put(nd, b, n, md) == md \in [Places -> Nodes] /\ md[b] = n /\ \A x \in Places \ {b} : md[x] = nd[x]

(* Trees that go the same way for l *)
LEMMA Follow ==
  ASSUME NEW nd, NEW R, Shape(nd, R), NEW md, NEW Q, Shape(md, Q), NEW l \in LBlocks,
         \A b : On(nd, l, b) /\ On(md, l, b) /\ ~ Ends(nd[b]) => ~ Ends(md[b]) /\ Toward(md, b, l) = Toward(nd, b, l)
  PROVE  \A b : On(nd, l, b) => On(md, l, b)
<1> DEFINE S == {b \in R : On(md, l, b)}
<1>1. Root \in S
  BY OnIs DEF Shape
<1>2. ASSUME NEW b \in S, On(nd, l, b), ~ Ends(nd[b]) PROVE Toward(nd, b, l) \in S
  <2>1. ~ Ends(md[b]) /\ Toward(md, b, l) = Toward(nd, b, l) /\ On(md, l, b)
    BY <1>2
  <2>2. On(md, l, Toward(md, b, l))
    BY <2>1, OnIs
  <2>3. On(nd, l, Toward(nd, b, l))
    BY <1>2, OnIs
  <2>4. Toward(nd, b, l) \in R
    BY <2>3, OnIs
  <2> QED BY <2>1, <2>2, <2>4
<1>3. \A b : On(nd, l, b) => b \in S
  <2> HIDE DEF S
  <2> QED BY <1>1, <1>2, OnInduct
<1> QED BY <1>3

(* Trees with the same content answer the same. *)
LEMMA SameMaps ==
  ASSUME NEW nd, NEW R, Tree(nd, R), NEW md, NEW Q, Tree(md, Q), NEW l \in LBlocks,
         \A v : Maps(md, Q, l, v) <=> Maps(nd, R, l, v)
  PROVE  Lookup(md, l) = Lookup(nd, l)
<1>1. \A v : Maps(nd, R, l, v) <=> Lookup(nd, l) = v /\ v # Hole
  BY LookupMaps
<1>2. \A v : Maps(md, Q, l, v) <=> Lookup(md, l) = v /\ v # Hole
  BY LookupMaps
<1>3. \A v : (Lookup(md, l) = v /\ v # Hole) <=> (Lookup(nd, l) = v /\ v # Hole)
  BY <1>1, <1>2
<1> QED BY <1>3

(* A leaf gets other entries, for blocks whose paths end there. *)
LEMMA LeafWrite ==
  ASSUME NEW nd, NEW R, Tree(nd, R), NEW b \in R, nd[b].depth = 0, NEW n, Fit(b, n), n.depth = 0,
         \A p \in 1 .. Len(n.ents) : \A l \in Keys(n, p) : On(nd, l, b),
         NEW md, Put(nd, b, n, md)
  PROVE  /\ Tree(md, R)
         /\ \A l \in LBlocks : \A x : On(md, l, x) <=> On(nd, l, x)
         /\ \A l \in LBlocks : Lookup(md, l) = IF On(nd, l, b) THEN Answer(n, l) ELSE Lookup(nd, l)
         /\ \A l \in LBlocks : On(nd, l, b) => Lookup(nd, l) = Answer(nd[b], l)
         /\ \A X : Neat(nd, R, X) => Neat(md, R, X \cup {b})
         /\ \A X : Neat(nd, R, X) /\ (b = Root \/ (n.ents # <<>> /\ nd[b].ents # <<>> /\ n.ents[1].first = nd[b].ents[1].first))
                     => Neat(md, R, X)
<1>1. Shape(nd, R) /\ Hung(nd, R) /\ Once(nd, R) /\ R \in SUBSET Places
  BY DEF Tree, Shape
<1>2. md \in [Places -> Nodes] /\ md[b] = n /\ \A x \in R : x # b => md[x] = nd[x]
  BY <1>1 DEF Put
<1>3. \A x \in R : \A p, c : Slot(md, x, p, c) <=> Slot(nd, x, p, c)
  <2> SUFFICES ASSUME NEW x \in R, NEW p, NEW c PROVE Slot(md, x, p, c) <=> Slot(nd, x, p, c)
    OBVIOUS
  <2>1. CASE x = b
    BY <2>1, <1>2 DEF Slot
  <2>2. CASE x # b
    BY <2>2, <1>2 DEF Slot
  <2> QED BY <2>1, <2>2
<1>4. \A x \in R : md[x].depth = nd[x].depth
  BY <1>2
<1>5. Shape(md, R)
  <2>1. \A x \in R : Fit(x, md[x])
    BY <1>1, <1>2 DEF Shape
  <2>2. ASSUME NEW x \in R, md[x].depth > 0, NEW p \in 1 .. Len(md[x].ents)
        PROVE  LET c == md[x].ents[p].child IN c \in R \ {Root} /\ md[c].depth = md[x].depth - 1
    <3>1. x # b
      BY <1>2, <2>2
    <3>2. md[x] = nd[x]
      BY <1>2, <3>1
    <3>3. LET c == nd[x].ents[p].child IN c \in R \ {Root} /\ nd[c].depth = nd[x].depth - 1
      BY <1>1, <2>2, <3>2 DEF Shape
    <3> QED BY <1>4, <3>2, <3>3
  <2> QED BY <1>1, <1>2, <2>1, <2>2 DEF Shape
<1>6. \A x \in R : Ends(md[x]) <=> Ends(nd[x])
  BY <1>2 DEF Ends
<1>7. \A x \in R : \A l : ~ Ends(nd[x]) => Toward(md, x, l) = Toward(nd, x, l)
  BY <1>2 DEF Ends, Toward
<1>8. ASSUME NEW l \in LBlocks, NEW x PROVE On(md, l, x) <=> On(nd, l, x)
  <2>1. \A y : On(nd, l, y) => y \in R
    BY <1>1, OnIs
  <2>2. \A y : On(md, l, y) => y \in R
    BY <1>5, OnIs
  <2>3. On(nd, l, x) => On(md, l, x)
    BY <1>1, <1>5, <1>6, <1>7, <2>1, Follow
  <2>4. On(md, l, x) => On(nd, l, x)
    BY <1>1, <1>5, <1>6, <1>7, <2>2, Follow
  <2> QED BY <2>3, <2>4
<1>9. Hung(md, R)
  <2> SUFFICES ASSUME NEW c \in R \ {Root} PROVE \E x \in R : \E p \in 1 .. Len(md[x].ents) : Slot(md, x, p, c)
    BY DEF Hung
  <2>1. PICK x \in R : \E p \in 1 .. Len(nd[x].ents) : Slot(nd, x, p, c)
    BY <1>1 DEF Hung
  <2>2. PICK p : Slot(nd, x, p, c)
    BY <2>1
  <2>3. Slot(md, x, p, c)
    BY <1>3, <2>2
  <2> QED BY <2>3 DEF Slot
<1>10. Once(md, R)
  <2> SUFFICES ASSUME NEW x \in R, NEW y \in R, NEW p \in 1 .. Len(md[x].ents), NEW q \in 1 .. Len(md[y].ents), NEW c \in R,
                      Slot(md, x, p, c), Slot(md, y, q, c)
               PROVE  x = y /\ p = q
    BY DEF Once
  <2>1. Slot(nd, x, p, c) /\ Slot(nd, y, q, c)
    BY <1>3
  <2>2. p \in 1 .. Len(nd[x].ents) /\ q \in 1 .. Len(nd[y].ents)
    BY <2>1 DEF Slot
  <2> QED BY <1>1, <2>1, <2>2 DEF Once
<1>11. Routed(md, R, Region(md, R))
  <2> SUFFICES ASSUME NEW x \in R, NEW p \in 1 .. Len(md[x].ents), NEW l \in Keys(md[x], p) PROVE l \in Region(md, R)[x]
    BY DEF Routed
  <2>1. l \in LBlocks /\ On(nd, l, x)
    <3>1. CASE x = b
      <4>1. p \in 1 .. Len(n.ents) /\ l \in Keys(n, p)
        BY <3>1, <1>2
      <4> QED BY <3>1, <4>1, KeysAt
    <3>2. CASE x # b
      <4>1. p \in 1 .. Len(nd[x].ents) /\ l \in Keys(nd[x], p)
        BY <3>2, <1>2
      <4> QED BY <4>1, KeyOn
    <3> QED BY <3>1, <3>2
  <2> QED BY <2>1, <1>8 DEF Region
<1>12. Tree(md, R)
  BY <1>5, <1>9, <1>10, <1>11 DEF Tree
<1>13. ASSUME NEW l \in LBlocks, On(nd, l, b) PROVE Lookup(md, l) = Answer(n, l) /\ Lookup(nd, l) = Answer(nd[b], l)
  <2>1. Ends(nd[b]) /\ Ends(md[b]) /\ On(md, l, b)
    BY <1>2, <1>8, <1>13 DEF Ends
  <2>2. Landing(nd, l) = b /\ Landing(md, l) = b
    BY <1>1, <1>5, <1>13, <2>1, OnIs
  <2> QED BY <2>2, <1>1, <1>2, <1>5, LookupIs
<1>14. ASSUME NEW l \in LBlocks, ~ On(nd, l, b) PROVE Lookup(md, l) = Lookup(nd, l)
  <2> DEFINE d == Landing(nd, l)
  <2>1. On(nd, l, d) /\ Ends(nd[d]) /\ d \in R
    BY <1>1, OnIs
  <2>2. d # b /\ md[d] = nd[d]
    BY <1>2, <1>14, <2>1
  <2>3. On(md, l, d) /\ Ends(md[d])
    BY <1>8, <2>1, <2>2
  <2>4. Landing(md, l) = d
    BY <1>5, <2>3, OnIs
  <2> QED BY <2>2, <2>4, <1>1, <1>5, LookupIs
<1>15. ASSUME NEW X, Neat(nd, R, X) PROVE Neat(md, R, X \cup {b})
  <2> SUFFICES ASSUME NEW x \in R, NEW p \in 1 .. Len(md[x].ents), NEW c \in R \ (X \cup {b}), Slot(md, x, p, c)
               PROVE  md[c].ents # <<>> /\ md[c].ents[1].first = md[x].ents[p].first
    BY DEF Neat
  <2>1. Slot(nd, x, p, c) /\ x # b
    BY <1>2, <1>3 DEF Slot
  <2>2. md[x] = nd[x] /\ md[c] = nd[c]
    BY <1>2, <2>1
  <2> QED BY <1>15, <2>1, <2>2 DEF Neat
<1>16. ASSUME NEW X, Neat(nd, R, X), b = Root \/ (n.ents # <<>> /\ nd[b].ents # <<>> /\ n.ents[1].first = nd[b].ents[1].first)
       PROVE  Neat(md, R, X)
  <2> SUFFICES ASSUME NEW x \in R, NEW p \in 1 .. Len(md[x].ents), NEW c \in R \ X, Slot(md, x, p, c)
               PROVE  md[c].ents # <<>> /\ md[c].ents[1].first = md[x].ents[p].first
    BY DEF Neat
  <2>1. Slot(nd, x, p, c) /\ x # b /\ p \in 1 .. Len(nd[x].ents)
    BY <1>2, <1>3 DEF Slot
  <2>2. md[x] = nd[x]
    BY <1>2, <2>1
  <2>3. nd[c].ents # <<>> /\ nd[c].ents[1].first = nd[x].ents[p].first
    BY <1>16, <2>1 DEF Neat
  <2>4. CASE c # b
    BY <1>2, <2>2, <2>3, <2>4
  <2>5. CASE c = b
    <3>1. c # Root
      BY <1>1, <2>1, SlotIs
    <3> QED BY <1>2, <1>16, <2>2, <2>3, <2>5, <3>1
  <2> QED BY <2>4, <2>5
<1> QED BY <1>8, <1>12, <1>13, <1>14, <1>15, <1>16

-----------------------------------------------------------------------------
(* The tree grows: the root moves to f and points to it. *)
LEMMA GrowTree ==
  ASSUME NEW nd, NEW R, Tree(nd, R), NEW f \in Blocks, f \notin R, nd[f] = nd[Root],
         nd[Root].ents # <<>>, nd[Root].depth < MaxDepth, NEW md,
         Put(nd, Root, [depth |-> nd[Root].depth + 1,
                        ents |-> <<[first |-> nd[Root].ents[1].first, child |-> f]>>], md)
  PROVE  /\ Tree(md, R \cup {f})
         /\ \A l \in LBlocks : Lookup(md, l) = Lookup(nd, l)
         /\ Neat(nd, R, {}) => Neat(md, R \cup {f}, {})
<1> DEFINE Q == R \cup {f}
           i == [first |-> nd[Root].ents[1].first, child |-> f]
           n == [depth |-> nd[Root].depth + 1, ents |-> <<i>>]
           g == [b \in Q |-> IF b \in {Root, f} THEN LBlocks ELSE Region(nd, R)[b]]
<1>1. Shape(nd, R) /\ Hung(nd, R) /\ Once(nd, R)
  BY DEF Tree
<1>2. Root \in R /\ R \subseteq Places /\ f # Root /\ f \in Places /\ Root \in Places
  BY <1>1 DEF Shape, Places, Root, Blocks
<1>3. md \in [Places -> Nodes] /\ md[Root] = n /\ md[f] = nd[Root] /\ \A b \in R \ {Root} : md[b] = nd[b]
  BY <1>2 DEF Put
<1>4. Fit(Root, nd[Root]) /\ nd[Root].depth \in Nat /\ nd[Root].depth \in 0 .. MaxDepth
  BY <1>1, <1>2, DepthIs
<1>5. i \in Indexes /\ i.first = nd[Root].ents[1].first /\ i.child = f /\ i.first \in LBlocks
  <2>1. 1 \in 1 .. Len(nd[Root].ents)
    BY <1>1, <1>2, DepthIs
  <2>2. nd[Root].ents[1].first \in LBlocks
    BY Zenon, <1>4, <2>1, EntryIs
  <2> QED BY <2>2 DEF Indexes
<1> HIDE DEF i
<1>6. n.depth = nd[Root].depth + 1 /\ n.ents = <<i>> /\ Len(n.ents) = 1 /\ n.ents[1] = i /\ n.ents # <<>>
  OBVIOUS
<1>7. n \in Inner /\ n.depth \in 1 .. MaxDepth
  BY <1>4, <1>5, SizeAssumption DEF Inner
<1> HIDE DEF n
<1>8. Fit(Root, n)
  BY <1>6, <1>7, CapacityAssumption DEF Fit, MaxEntries, Keyed
<1>9. Fit(f, nd[Root])
  <2>1. Len(nd[Root].ents) \in Nat
    BY <1>1, <1>2, DepthIs
  <2> QED BY <1>2, <1>4, <2>1, CapacityAssumption DEF Fit, MaxEntries
<1>10. \A b \in R : \A p, c : Slot(nd, b, p, c) => c \in R \ {Root} /\ c # f /\ nd[c].depth = nd[b].depth - 1 /\ p \in 1 .. Len(nd[b].ents)
  BY <1>1, SlotIs
<1>11. /\ \A p, c : Slot(md, Root, p, c) <=> p = 1 /\ c = f
       /\ \A p, c : Slot(md, f, p, c) <=> Slot(nd, Root, p, c)
       /\ \A b \in R \ {Root} : \A p, c : Slot(md, b, p, c) <=> Slot(nd, b, p, c)
  BY <1>3, <1>5, <1>6, <1>7 DEF Slot
<1>12. Shape(md, Q)
  <2>1. ASSUME NEW b \in Q PROVE Fit(b, md[b])
    <3>1. \A x \in R : Fit(x, nd[x])
      BY <1>1 DEF Shape
    <3> QED BY <1>3, <1>8, <1>9, <3>1
  <2>2. ASSUME NEW b \in Q, md[b].depth > 0, NEW p \in 1 .. Len(md[b].ents)
        PROVE  md[b].ents[p].child \in Q \ {Root} /\ md[md[b].ents[p].child].depth = md[b].depth - 1
    <3> DEFINE c == md[b].ents[p].child
    <3>1. Slot(md, b, p, c)
      BY <2>2 DEF Slot
    <3> HIDE DEF c
    <3>2. CASE b = Root
      BY <3>1, <3>2, <1>2, <1>3, <1>4, <1>6, <1>11 DEF c
    <3>3. CASE b = f
      <4>1. Slot(nd, Root, p, c)
        BY <3>1, <3>3, <1>11
      <4>2. c \in R \ {Root} /\ nd[c].depth = nd[Root].depth - 1
        BY <4>1, <1>2, <1>10
      <4> QED BY <4>2, <3>3, <1>3 DEF c
    <3>4. CASE b \in R \ {Root}
      <4>1. Slot(nd, b, p, c)
        BY <3>1, <3>4, <1>11
      <4>2. c \in R \ {Root} /\ nd[c].depth = nd[b].depth - 1
        BY <4>1, <3>4, <1>10
      <4> QED BY <4>2, <3>4, <1>3 DEF c
    <3> QED BY <3>2, <3>3, <3>4
  <2> QED BY <1>2, <1>3, <2>1, <2>2 DEF Shape
<1>13. Hung(md, Q)
  <2> SUFFICES ASSUME NEW c \in Q \ {Root} PROVE \E b \in Q : \E p \in 1 .. Len(md[b].ents) : Slot(md, b, p, c)
    BY DEF Hung
  <2>1. CASE c = f
    <3>1. Slot(md, Root, 1, f)
      BY <1>11
    <3> QED BY <3>1, <2>1, <1>2 DEF Slot
  <2>2. CASE c # f
    <3>1. PICK b \in R : \E p \in 1 .. Len(nd[b].ents) : Slot(nd, b, p, c)
      BY <2>2, <1>1 DEF Hung
    <3>2. PICK p : Slot(nd, b, p, c)
      BY <3>1
    <3>3. \E x \in Q : Slot(md, x, p, c)
      BY <3>2, <1>2, <1>11
    <3> QED BY <3>3 DEF Slot
  <2> QED BY <2>1, <2>2
<1>14. Once(md, Q)
  <2> SUFFICES ASSUME NEW x \in Q, NEW y \in Q, NEW p \in 1 .. Len(md[x].ents), NEW q \in 1 .. Len(md[y].ents), NEW c \in Q,
                      Slot(md, x, p, c), Slot(md, y, q, c)
               PROVE  x = y /\ p = q
    BY DEF Once
  <2> DEFINE old(z) == IF z = f THEN Root ELSE z
  <2>1. CASE c = f
    BY <2>1, <1>2, <1>10, <1>11
  <2>2. CASE c # f
    <3>1. x # Root /\ y # Root
      BY <2>2, <1>11
    <3>2. Slot(nd, old(x), p, c) /\ Slot(nd, old(y), q, c) /\ old(x) \in R /\ old(y) \in R /\ c \in R
      BY <3>1, <2>2, <1>2, <1>11
    <3>3. p \in 1 .. Len(nd[old(x)].ents) /\ q \in 1 .. Len(nd[old(y)].ents)
      BY <3>2, <1>10
    <3>4. old(x) = old(y) /\ p = q
      BY <1>1, <3>2, <3>3 DEF Once
    <3> QED BY <3>1, <3>4
  <2> QED BY <2>1, <2>2
<1>15. Region(nd, R) \in [R -> SUBSET LBlocks] /\ Nested(nd, R, Region(nd, R))
  BY <1>1, RegionNested
<1>16. g \in [Q -> SUBSET LBlocks] /\ g[Root] = LBlocks /\ g[f] = LBlocks /\ \A b \in R \ {Root} : g[b] = Region(nd, R)[b]
  BY <1>2, <1>15
<1> HIDE DEF g
<1>17. Nested(md, Q, g)
  <2> SUFFICES ASSUME NEW b \in Q, NEW p \in 1 .. Len(md[b].ents), NEW c \in Q, Slot(md, b, p, c), NEW l \in g[c]
               PROVE  l \in g[b] /\ SearchPos(md[b].ents, l) = p
    BY DEF Nested
  <2>0. l \in LBlocks
    BY <1>16
  <2>1. CASE b = Root
    <3>1. At(n.ents, l, 1) /\ l \in Int
      BY <1>6, <2>0, Width DEF At
    <3>2. SearchPos(n.ents, l) = 1
      BY Zenon, <3>1, <1>6, <1>8, SearchIs
    <3>3. p = 1
      BY <1>11, <2>1
    <3> QED BY <2>0, <2>1, <3>2, <3>3, <1>3, <1>16
  <2>2. CASE b = f
    <3>1. Slot(nd, Root, p, c)
      BY <2>2, <1>11
    <3>2. c \in R \ {Root} /\ p \in 1 .. Len(nd[Root].ents)
      BY <3>1, <1>2, <1>10
    <3>3. l \in Region(nd, R)[c]
      BY <3>2, <1>16
    <3>4. SearchPos(nd[Root].ents, l) = p
      BY <3>1, <3>2, <3>3, <1>2, <1>15 DEF Nested
    <3> QED BY <3>4, <2>0, <2>2, <1>3, <1>16
  <2>3. CASE b \in R \ {Root}
    <3>1. Slot(nd, b, p, c)
      BY <2>3, <1>11
    <3>2. c \in R \ {Root} /\ p \in 1 .. Len(nd[b].ents)
      BY <3>1, <2>3, <1>10
    <3>3. l \in Region(nd, R)[c]
      BY <3>2, <1>16
    <3>4. l \in Region(nd, R)[b] /\ SearchPos(nd[b].ents, l) = p
      BY <3>1, <3>2, <3>3, <2>3, <1>15 DEF Nested
    <3> QED BY <3>4, <2>3, <1>3, <1>16
  <2> QED BY <2>1, <2>2, <2>3
<1>18. Routed(md, Q, g)
  <2> SUFFICES ASSUME NEW b \in Q, NEW p \in 1 .. Len(md[b].ents), NEW l \in Keys(md[b], p) PROVE l \in g[b]
    BY DEF Routed
  <2>1. CASE b = Root
    <3>1. p = 1
      BY <2>1, <1>3, <1>6
    <3>2. l = i.first
      BY <3>1, <2>1, <1>3, <1>4, <1>6 DEF Keys
    <3> QED BY <3>2, <2>1, <1>5, <1>16
  <2>2. CASE b = f
    <3>1. p \in 1 .. Len(nd[Root].ents) /\ l \in Keys(nd[Root], p)
      BY <2>2, <1>3
    <3> QED BY <3>1, <2>2, <1>2, <1>16, KeyOn
  <2>3. CASE b \in R \ {Root}
    <3>1. p \in 1 .. Len(nd[b].ents) /\ l \in Keys(nd[b], p)
      BY <2>3, <1>3
    <3>2. l \in LBlocks /\ On(nd, l, b)
      BY <3>1, <2>3, KeyOn
    <3> QED BY <3>2, <2>3, <1>16 DEF Region
  <2> QED BY <2>1, <2>2, <2>3
<1>19. Tree(md, Q)
  BY <1>12, <1>13, <1>14, <1>16, <1>17, <1>18, TreeByRegions
<1>20. ASSUME NEW l \in LBlocks PROVE Lookup(md, l) = Lookup(nd, l)
  <2>1. ASSUME NEW v PROVE Maps(md, Q, l, v) => Maps(nd, R, l, v)
    <3> SUFFICES ASSUME Maps(md, Q, l, v) PROVE Maps(nd, R, l, v)
      OBVIOUS
    <3>0. PICK b \in Q : \E p \in 1 .. Len(md[b].ents) :
             md[b].depth = 0 /\ l \in Keys(md[b], p) /\ v = md[b].ents[p].start + (l - md[b].ents[p].first)
      BY DEF Maps
    <3>1. PICK p \in 1 .. Len(md[b].ents) :
             md[b].depth = 0 /\ l \in Keys(md[b], p) /\ v = md[b].ents[p].start + (l - md[b].ents[p].first)
      BY <3>0
    <3>2. b # Root
      BY <3>1, <1>3, <1>7
    <3>3. \E x \in R : md[b] = nd[x]
      BY <3>2, <1>2, <1>3
    <3> QED BY <3>1, <3>3 DEF Maps
  <2>2. ASSUME NEW v PROVE Maps(nd, R, l, v) => Maps(md, Q, l, v)
    <3> SUFFICES ASSUME Maps(nd, R, l, v) PROVE Maps(md, Q, l, v)
      OBVIOUS
    <3>0. PICK b \in R : \E p \in 1 .. Len(nd[b].ents) :
             nd[b].depth = 0 /\ l \in Keys(nd[b], p) /\ v = nd[b].ents[p].start + (l - nd[b].ents[p].first)
      BY DEF Maps
    <3>1. PICK p \in 1 .. Len(nd[b].ents) :
             nd[b].depth = 0 /\ l \in Keys(nd[b], p) /\ v = nd[b].ents[p].start + (l - nd[b].ents[p].first)
      BY <3>0
    <3>3. \E x \in Q : md[x] = nd[b]
      BY <1>2, <1>3
    <3> QED BY Zenon, <3>1, <3>3 DEF Maps
  <2> HIDE DEF Q
  <2> QED BY <2>1, <2>2, <1>19, SameMaps
<1>21. ASSUME Neat(nd, R, {}) PROVE Neat(md, Q, {})
  <2> SUFFICES ASSUME NEW b \in Q, NEW p \in 1 .. Len(md[b].ents), NEW c \in Q \ {}, Slot(md, b, p, c)
               PROVE  md[c].ents # <<>> /\ md[c].ents[1].first = md[b].ents[p].first
    BY DEF Neat
  <2>1. CASE b = Root
    BY <2>1, <1>3, <1>5, <1>6, <1>11
  <2>2. CASE b = f
    <3>1. Slot(nd, Root, p, c)
      BY <2>2, <1>11
    <3>2. c \in R \ {Root} /\ p \in 1 .. Len(nd[Root].ents)
      BY <3>1, <1>2, <1>10
    <3> QED BY <3>1, <3>2, <2>2, <1>2, <1>3, <1>21 DEF Neat
  <2>3. CASE b \in R \ {Root}
    <3>1. Slot(nd, b, p, c)
      BY <2>3, <1>11
    <3>2. c \in R \ {Root} /\ p \in 1 .. Len(nd[b].ents)
      BY <3>1, <2>3, <1>10
    <3> QED BY <3>1, <3>2, <2>3, <1>3, <1>21 DEF Neat
  <2> QED BY <2>1, <2>2, <2>3
<1> QED BY <1>19, <1>20, <1>21

(* lo and hi are n's entries up to m and behind, and k is the first key behind. *)
Halved(b, n, m, k, lo, hi) ==
    /\ Len(n.ents) \in Nat /\ k \in LBlocks /\ n.ents # <<>>
    /\ lo.depth = n.depth /\ Len(lo.ents) = m /\ lo.ents # <<>> /\ Fit(b, lo)
    /\ \A q \in 1 .. m : q \in 1 .. Len(n.ents) /\ lo.ents[q] = n.ents[q]
    /\ hi.depth = n.depth /\ Len(hi.ents) = Len(n.ents) - m /\ hi.ents # <<>>
    /\ \A c : MaxEntries(c) = MaxEntries(b) => Fit(c, hi)
    /\ \A q \in 1 .. Len(n.ents) - m : m + q \in 1 .. Len(n.ents) /\ hi.ents[q] = n.ents[m + q]
    /\ \A l \in Int : l < k => SearchPos(n.ents, l) \in 1 .. m /\ SearchPos(lo.ents, l) = SearchPos(n.ents, l)
    /\ \A l \in Int : k <= l => SearchPos(n.ents, l) \in m + 1 .. Len(n.ents)
                                /\ SearchPos(hi.ents, l) = SearchPos(n.ents, l) - m
    /\ \A q \in 1 .. m : \A l \in Keys(n, q) : l < k
    /\ \A q \in m + 1 .. Len(n.ents) : \A l \in Keys(n, q) : k <= l
    /\ \A q \in 1 .. m : Keys(lo, q) = Keys(n, q)
    /\ \A q \in 1 .. Len(n.ents) - m : Keys(hi, q) = Keys(n, m + q)

(* A node's two halves *)
LEMMA Halves ==
  ASSUME NEW b, NEW n, Fit(b, n), NEW m \in 1 .. Len(n.ents) - 1, NEW k, k = n.ents[m + 1].first,
         NEW lo, lo = [depth |-> n.depth, ents |-> SubSeq(n.ents, 1, m)],
         NEW hi, hi = [depth |-> n.depth, ents |-> SubSeq(n.ents, m + 1, Len(n.ents))]
  PROVE  Halved(b, n, m, k, lo, hi)
<1> DEFINE E == n.ents
           N == Len(E)
           S == IF n.depth = 0 THEN Extents ELSE Indexes
           A == lo.ents
           B == hi.ents
<1>1. N \in Nat /\ m \in Nat /\ m >= 1 /\ m < N /\ m \in 1 .. N /\ m + 1 \in 1 .. N
  BY NodeIs
<1>2. E \in Seq(S) /\ \A q \in 1 .. N : E[q] \in S
  BY NodeIs
<1>3. \A q \in 1 .. N : E[q].first \in LBlocks /\ E[q].first \in Int
  <2> SUFFICES ASSUME NEW q \in 1 .. N PROVE E[q].first \in LBlocks /\ E[q].first \in Int
    OBVIOUS
  <2>1. E[q].first \in LBlocks
    BY Zenon, EntryIs
  <2> QED BY <2>1, Width
<1>4. E # <<>> /\ k \in LBlocks /\ k \in Int /\ k = E[m + 1].first
  <2>1. E # <<>>
    BY <1>1, NodeIs
  <2> QED BY Zenon, <2>1, <1>1, <1>3
<1>5. Keyed(E) /\ (n.depth = 0 => Apart(E))
  BY DEF Fit
<1>26. \A q \in m + 1 .. N : k <= E[q].first
  <2> SUFFICES ASSUME NEW q \in m + 1 .. N PROVE k <= E[q].first
    OBVIOUS
  <2> HIDE DEF E, N
  <2>1. CASE q = m + 1
    BY <2>1, <1>4
  <2>2. CASE q # m + 1
    <3> DEFINE a == m + 1
    <3>1. a \in 1 .. N /\ q \in 1 .. N /\ a < q /\ N = Len(E)
      BY <1>1, <2>2 DEF N
    <3>3. k = E[a].first
      BY <1>4
    <3> HIDE DEF a
    <3>2. E[a].first < E[q].first
      BY <1>5, <3>1 DEF Keyed
    <3> QED BY <1>3, <3>1, <3>2, <3>3
  <2> QED BY <2>1, <2>2
<1>6. lo.depth = n.depth /\ hi.depth = n.depth
  OBVIOUS
<1>7. A \in Seq(S) /\ Len(A) = m /\ \A q \in 1 .. m : A[q] = E[q]
  <2> DEFINE one == 1
  <2>1. one = 1
    OBVIOUS
  <2> HIDE DEF one, E, S
  <2>2. SubSeq(E, one, m) \in Seq(S) /\ Len(SubSeq(E, one, m)) = m + 1 - one
        /\ \A i \in 1 .. m + 1 - one : SubSeq(E, one, m)[i] = E[one + i - 1]
    BY <1>1, <1>2, <2>1, SubSeqIs
  <2>3. A = SubSeq(E, one, m)
    BY <2>1 DEF E
  <2> HIDE DEF A
  <2>4. \A q \in 1 .. m : one + q - 1 = q
    BY <2>1
  <2> QED BY <1>1, <2>1, <2>2, <2>3, <2>4
<1>8. B \in Seq(S) /\ Len(B) = N - m /\ \A q \in 1 .. N - m : B[q] = E[m + q]
  <2> DEFINE a == m + 1
             z == N
  <2>1. a = m + 1 /\ a \in 1 .. N + 1 /\ z = N /\ z \in 0 .. N /\ a <= z + 1
    BY <1>1
  <2>3. B = SubSeq(E, a, z)
    BY Zenon
  <2> HIDE DEF a, z
  <2> HIDE DEF E, S
  <2>2. SubSeq(E, a, z) \in Seq(S) /\ Len(SubSeq(E, a, z)) = z + 1 - a
        /\ \A i \in 1 .. z + 1 - a : SubSeq(E, a, z)[i] = E[a + i - 1]
    BY <1>2, <2>1, SubSeqIs
  <2> HIDE DEF B
  <2>4. \A q \in 1 .. N - m : a + q - 1 = m + q
    BY <1>1, <2>1
  <2>5. z + 1 - a = N - m
    BY <1>1, <2>1
  <2> QED BY Zenon, <2>2, <2>3, <2>4, <2>5
<1>9. A # <<>> /\ B # <<>>
  <2> HIDE DEF A, B, N
  <2> QED BY <1>1, <1>7, <1>8, EmptySeq
<1>10. lo = [depth |-> n.depth, ents |-> A] /\ hi = [depth |-> n.depth, ents |-> B]
  OBVIOUS
<1>11. /\ \A q \in 1 .. m : q \in 1 .. N
       /\ \A q \in 1 .. N - m : m + q \in 1 .. N
       /\ \A q \in m + 1 .. N : q \in 1 .. N
  BY <1>1
<1>12. Keyed(A) /\ Keyed(B)
  <2> HIDE DEF A, B, N, E
  <2>1. Keyed(A)
    BY Zenon, <1>1, <1>5, <1>7, <1>11 DEF Keyed, N
  <2>2. Keyed(B)
    <3> SUFFICES ASSUME NEW p \in 1 .. N - m, NEW q \in 1 .. N - m, p < q PROVE B[p].first < B[q].first
      BY Zenon, <1>8 DEF Keyed
    <3>1. m + p < m + q /\ m + p \in 1 .. N /\ m + q \in 1 .. N
      BY <1>1
    <3> QED BY Zenon, <3>1, <1>5, <1>8 DEF Keyed, N
  <2> QED BY <2>1, <2>2
<1>13. n.depth = 0 => Apart(A) /\ Apart(B)
  <2> HIDE DEF A, B, N, E
  <2> SUFFICES ASSUME n.depth = 0 PROVE Apart(A) /\ Apart(B)
    OBVIOUS
  <2>1. Apart(A)
    BY Zenon, <1>1, <1>5, <1>7, <1>11 DEF Apart, N
  <2>2. Apart(B)
    <3> SUFFICES ASSUME NEW p \in 1 .. N - m, NEW q \in 1 .. N - m, p < q PROVE End64(B[p]) <= B[q].first
      BY <1>8 DEF Apart
    <3>1. m + p < m + q /\ m + p \in 1 .. N /\ m + q \in 1 .. N
      BY <1>1
    <3> QED BY Zenon, <3>1, <1>5, <1>8 DEF Apart, N
  <2> QED BY <2>1, <2>2
<1>14. n.depth = 0 => \A q \in 1 .. N : ValidExtent(E[q]) /\ End64(E[q]) <= LastLBlock
  BY DEF Fit
<1>15. /\ lo \in Leaves \cup Inner /\ hi \in Leaves \cup Inner
       /\ Len(E) <= MaxEntries(b)
  <2>1. n.depth = 0 \/ n.depth \in 1 .. MaxDepth
    BY NodeIs
  <2> HIDE DEF A, B
  <2> QED BY <2>1, <1>7, <1>8, <1>10 DEF Fit, Leaves, Inner
<1>16. RootMax \in Nat /\ NodeMax \in Nat
  BY CapacityAssumption
<1>17. Fit(b, lo)
  <2> HIDE DEF A, B, N, E
  <2>1. Len(A) <= MaxEntries(b)
    BY <1>1, <1>7, <1>15, <1>16 DEF N, MaxEntries
  <2>2. \A q \in 1 .. Len(A) : n.depth = 0 => ValidExtent(A[q]) /\ End64(A[q]) <= LastLBlock
    BY Zenon, <1>7, <1>11, <1>14
  <2> QED BY <2>1, <2>2, <1>6, <1>12, <1>13, <1>15 DEF Fit, A
<1>18. ASSUME NEW c, MaxEntries(c) = MaxEntries(b) PROVE Fit(c, hi)
  <2> HIDE DEF A, B, N, E
  <2>1. Len(B) <= MaxEntries(c)
    BY <1>1, <1>8, <1>15, <1>16, <1>18 DEF N, MaxEntries
  <2>2. \A q \in 1 .. Len(B) : n.depth = 0 => ValidExtent(B[q]) /\ End64(B[q]) <= LastLBlock
    BY Zenon, <1>8, <1>11, <1>14
  <2> QED BY Zenon, <2>1, <2>2, <1>6, <1>12, <1>13, <1>15 DEF Fit, B
<1>19. ASSUME NEW l \in Int PROVE At(E, l, SearchPos(E, l))
  BY <1>4, SearchIs
<1>20. ASSUME NEW l \in Int, l < k PROVE SearchPos(E, l) \in 1 .. m /\ SearchPos(A, l) = SearchPos(E, l)
  <2> DEFINE q == SearchPos(E, l)
  <2>1. q \in 1 .. N /\ (q = 1 \/ E[q].first <= l) /\ \A r \in q + 1 .. N : l < E[r].first
    BY Zenon, <1>19 DEF At
  <2> HIDE DEF q, A, N
  <2>2. q \in 1 .. m
    <3> SUFFICES ASSUME q > m PROVE FALSE
      BY <1>1, <2>1
    <3>1. q # 1 /\ E[q].first <= l /\ q \in m + 1 .. N
      BY <1>1, <2>1
    <3>2. k <= E[q].first /\ E[q].first \in Int
      BY <1>3, <1>26, <2>1, <3>1
    <3> HIDE DEF E
    <3> QED BY <3>1, <3>2, <1>4, <1>20
  <2>3. \A r \in q + 1 .. m : r \in q + 1 .. N /\ r \in 1 .. m
    BY <1>1, <2>2
  <2>4. At(A, l, q)
    BY Zenon, <2>1, <2>2, <2>3, <1>7 DEF At
  <2>5. A = lo.ents
    BY DEF A
  <2>6. SearchPos(A, l) = q
    BY Zenon, <2>4, <2>5, <1>9, <1>17, SearchIs
  <2> QED BY <2>2, <2>6 DEF q
<1>21. ASSUME NEW l \in Int, k <= l PROVE SearchPos(E, l) \in m + 1 .. N /\ SearchPos(B, l) = SearchPos(E, l) - m
  <2> DEFINE q == SearchPos(E, l)
             r == q - m
  <2>1. q \in 1 .. N /\ (q = 1 \/ E[q].first <= l) /\ \A t \in q + 1 .. N : l < E[t].first
    BY Zenon, <1>19 DEF At
  <2> HIDE DEF q, B, N
  <2>2. q \in m + 1 .. N
    <3> SUFFICES ASSUME q <= m PROVE FALSE
      BY <1>1, <2>1
    <3>1. m + 1 \in q + 1 .. N
      BY <1>1, <2>1
    <3> QED BY <3>1, <2>1, <1>4, <1>21
  <2>3. r \in 1 .. N - m /\ m + r = q /\ q # 1
    BY <1>1, <2>2
  <2>4. \A t \in r + 1 .. N - m : t \in 1 .. N - m /\ m + t \in q + 1 .. N
    BY <1>1, <2>2
  <2> HIDE DEF r
  <2>5. At(B, l, r)
    BY Zenon, <2>1, <2>3, <2>4, <1>8 DEF At
  <2>6. MaxEntries(b) = MaxEntries(b) /\ B = hi.ents
    BY DEF B
  <2>7. SearchPos(B, l) = r
    BY Zenon, <2>5, <2>6, <1>9, <1>18, SearchIs
  <2> QED BY <2>2, <2>7 DEF q, r
<1>22. ASSUME NEW q \in 1 .. m, NEW l \in Keys(n, q) PROVE l < k
  <2>1. q \in 1 .. N /\ q < m + 1
    BY <1>1
  <2>2. CASE n.depth = 0
    <3>1. End64(E[q]) <= k
      BY Zenon, <1>1, <1>4, <1>5, <2>1, <2>2 DEF Apart
    <3>2. End64(E[q]) \in 1 .. LastLBlock /\ l \in E[q].first .. End64(E[q]) - 1
      BY Zenon, <2>1, <2>2, EntryIs DEF Keys
    <3> QED BY <3>1, <3>2, <1>3, <1>4, <2>1, Width
  <2>3. CASE n.depth # 0
    BY Zenon, <1>1, <1>4, <1>5, <2>1, <2>3 DEF Keyed, Keys
  <2> QED BY <2>2, <2>3
<1>23. ASSUME NEW q \in m + 1 .. N, NEW l \in Keys(n, q) PROVE k <= l
  <2>1. q \in 1 .. N /\ (q = m + 1 \/ m + 1 < q)
    BY <1>1
  <2>2. n.ents[q].first <= l /\ l \in LBlocks
    BY <2>1, KeysAt
  <2>3. k <= E[q].first /\ E[q].first \in Int /\ l \in Int /\ E[q].first <= l
    BY <1>3, <1>26, <2>1, <2>2, Width
  <2> HIDE DEF E
  <2> QED BY <2>3, <1>4
<1>24. \A q \in 1 .. m : Keys(lo, q) = Keys(n, q)
  BY <1>6, <1>7 DEF Keys
<1>25. \A q \in 1 .. N - m : Keys(hi, q) = Keys(n, m + q)
  BY Zenon, <1>6, <1>8 DEF Keys
<1> QED BY Zenon, <1>1, <1>4, <1>6, <1>7, <1>8, <1>9, <1>11, <1>17, <1>18, <1>20, <1>21, <1>22, <1>23, <1>24, <1>25 DEF Halved

(* t is n with entry i, which has key k and child f, behind entry p. *)
Inserted(b, n, p, k, f, i, t) ==
    /\ Fit(b, t) /\ t.depth = n.depth /\ Len(t.ents) = Len(n.ents) + 1 /\ t.ents # <<>> /\ Len(n.ents) \in Nat
    /\ \A q \in 1 .. Len(n.ents) + 1 :
          t.ents[q] = IF q <= p THEN n.ents[q] ELSE IF q = p + 1 THEN i ELSE n.ents[q - 1]
    /\ i.first = k /\ i.child = f
    /\ \A l \in Int : SearchPos(t.ents, l) = LET s == SearchPos(n.ents, l)
                                             IN  IF s < p THEN s ELSE IF s > p THEN s + 1
                                                 ELSE IF l < k THEN p ELSE p + 1

(* An index node gets a separator k behind entry p. *)
LEMMA IndexInsert ==
  ASSUME NEW b, NEW n, Fit(b, n), n.depth # 0, Len(n.ents) < MaxEntries(b), NEW p \in 1 .. Len(n.ents),
         NEW k \in LBlocks, NEW f \in Blocks, n.ents[p].first < k,
         \A q \in p + 1 .. Len(n.ents) : k < n.ents[q].first,
         NEW i, i = [first |-> k, child |-> f],
         NEW t, t = [depth |-> n.depth, ents |-> InsertAt(n.ents, p + 1, i)]
  PROVE  Inserted(b, n, p, k, f, i, t)
<1> DEFINE E == n.ents
           N == Len(E)
           T == t.ents
<1>1. N \in Nat /\ E # <<>> /\ p \in 1 .. N /\ p + 1 \in 1 .. N + 1 /\ E \in Seq(Indexes) /\ n.depth \in 1 .. MaxDepth
  BY NodeIs, EntryIs
<1>2. i \in Indexes /\ i.first = k /\ i.child = f
  BY DEF Indexes
<1>3. t.depth = n.depth /\ T = InsertAt(E, p + 1, i)
  OBVIOUS
<1>4. T \in Seq(Indexes) /\ Len(T) = N + 1
      /\ \A q \in 1 .. N + 1 : T[q] = IF q <= p THEN E[q] ELSE IF q = p + 1 THEN i ELSE E[q - 1]
  <2> DEFINE r == p + 1
  <2>1. r \in 1 .. N + 1 /\ r = p + 1
    BY <1>1
  <2> HIDE DEF r, T, E
  <2>2. InsertAt(E, r, i) \in Seq(Indexes) /\ Len(InsertAt(E, r, i)) = N + 1
        /\ \A q \in 1 .. N + 1 : InsertAt(E, r, i)[q] = IF q < r THEN E[q] ELSE IF q = r THEN i ELSE E[q - 1]
    <3>1. E \in Seq(Indexes) /\ i \in Indexes /\ r \in 1 .. Len(E) + 1
      BY <1>1, <1>2, <2>1
    <3> HIDE DEF N
    <3>2. /\ InsertAt(E, r, i) \in Seq(Indexes) /\ Len(InsertAt(E, r, i)) = Len(E) + 1
          /\ \A q \in 1 .. Len(E) + 1 :
                InsertAt(E, r, i)[q] = IF q < r THEN E[q] ELSE IF q = r THEN i ELSE E[q - 1]
      BY <3>1, InsertAtIs DEF Opened
    <3> QED BY <3>2 DEF N
  <2>3. \A q \in 1 .. N + 1 : q < r <=> q <= p
    BY <1>1, <2>1
  <2>4. T = InsertAt(E, r, i)
    BY <1>3 DEF r, T, E
  <2> QED BY <2>1, <2>2, <2>3, <2>4
<1>5. \A q \in 1 .. N : E[q].first \in Int
  <2> SUFFICES ASSUME NEW q \in 1 .. N PROVE E[q].first \in Int
    OBVIOUS
  <2>1. E[q].first \in LBlocks
    BY Zenon, EntryIs
  <2> QED BY <2>1, Width
<1>6. k \in Int
  BY Width
<1>7. Keyed(E)
  BY DEF Fit
<1>8. T # <<>>
  <2> HIDE DEF T, N
  <2> QED BY <1>1, <1>4, EmptySeq
<1>9. \A q \in 1 .. N : (q <= p => E[q].first < k) /\ (p < q => k < E[q].first)
  <2> SUFFICES ASSUME NEW q \in 1 .. N PROVE (q <= p => E[q].first < k) /\ (p < q => k < E[q].first)
    OBVIOUS
  <2>1. CASE q < p
    <3>1. E[q].first < E[p].first
      BY <1>7, <2>1 DEF Keyed
    <3>2. E[q].first \in Int /\ E[p].first \in Int /\ E[p].first < k
      BY <1>1, <1>5
    <3> HIDE DEF E
    <3>3. E[q].first < k
      BY <3>1, <3>2, <1>6
    <3>4. ~ (p < q)
      BY <2>1, <1>1
    <3> QED BY <3>3, <3>4
  <2>2. CASE q = p
    BY <2>2, <1>1
  <2>3. CASE p < q
    <3>1. q \in p + 1 .. Len(E)
      BY <2>3, <1>1
    <3> QED BY <3>1, <2>3, <1>1
  <2> HIDE DEF N, E
  <2> QED BY <2>1, <2>2, <2>3, <1>1
<1>10. Keyed(T)
  <2> SUFFICES ASSUME NEW q \in 1 .. N + 1, NEW r \in 1 .. N + 1, q < r PROVE T[q].first < T[r].first
    BY Zenon, <1>4 DEF Keyed
  <2> HIDE DEF T
  <2> DEFINE a == IF q <= p THEN q ELSE q - 1
             z == IF r <= p THEN r ELSE r - 1
  <2>1. CASE q # p + 1 /\ r # p + 1
    <3>1. a \in 1 .. N /\ z \in 1 .. N /\ a < z
      BY <2>1, <1>1
    <3>2. T[q] = E[a] /\ T[r] = E[z]
      BY Zenon, <2>1, <1>4
    <3> HIDE DEF a, z
    <3> QED BY <3>1, <3>2, <1>7 DEF Keyed
  <2>2. CASE q = p + 1
    <3>1. T[q] = i /\ T[r] = E[r - 1] /\ r - 1 \in 1 .. N /\ p < r - 1
      BY <2>2, <1>1, <1>4
    <3> QED BY <3>1, <1>2, <1>9
  <2>3. CASE r = p + 1
    <3>1. T[r] = i /\ T[q] = E[q] /\ q \in 1 .. N /\ q <= p
      BY <2>3, <1>1, <1>4
    <3> QED BY <3>1, <1>2, <1>9
  <2> QED BY <2>1, <2>2, <2>3
<1>11. Fit(b, t)
  <2>1. Len(T) <= MaxEntries(b)
    <3> HIDE DEF T
    <3> QED BY <1>1, <1>4, CapacityAssumption DEF MaxEntries
  <2>2. t \in Inner /\ t.depth # 0
    BY <1>1, <1>3, <1>4 DEF Inner
  <2> QED BY <2>1, <2>2, <1>10 DEF Fit
<1>12. ASSUME NEW l \in Int
       PROVE  SearchPos(T, l) = LET s == SearchPos(E, l)
                                IN  IF s < p THEN s ELSE IF s > p THEN s + 1 ELSE IF l < k THEN p ELSE p + 1
  <2> DEFINE s == SearchPos(E, l)
             r == IF s < p THEN s ELSE IF s > p THEN s + 1 ELSE IF l < k THEN p ELSE p + 1
  <2>1. At(E, l, s)
    BY <1>1, SearchIs
  <2>2. s \in 1 .. N /\ (s = 1 \/ E[s].first <= l) /\ \A q \in s + 1 .. N : l < E[q].first
    BY <2>1 DEF At
  <2> HIDE DEF s, T, N
  <2>3. s < p => l < k
    <3> SUFFICES ASSUME s < p PROVE l < k
      OBVIOUS
    <3>1. p \in s + 1 .. N
      BY <1>1, <2>2
    <3>2. l < E[p].first /\ E[p].first < k /\ E[p].first \in Int
      BY Zenon, <3>1, <2>2, <1>1, <1>5, <1>9
    <3> HIDE DEF E
    <3> QED BY <3>2, <1>6
  <2>4. s > p => k < l
    <3> SUFFICES ASSUME s > p PROVE k < l
      OBVIOUS
    <3>1. s # 1 /\ k < E[s].first
      BY <1>1, <2>2, <1>9
    <3> HIDE DEF E
    <3> QED BY <3>1, <2>2, <1>5, <1>6
  <2>5. r \in 1 .. N + 1 /\ (r = 1 \/ T[r].first <= l)
    <3>1. CASE s < p
      <4>1. r = s /\ s \in 1 .. N + 1 /\ s <= p
        BY <3>1, <1>1, <2>2
      <4> HIDE DEF r
      <4>2. T[s] = E[s]
        BY <4>1, <1>4
      <4> QED BY <4>1, <4>2, <2>2
    <3>2. CASE s > p
      <4>0. r = s + 1
        BY <3>2, <1>1, <2>2
      <4>1. r = s + 1 /\ r \in 1 .. N + 1 /\ ~(r <= p) /\ r # p + 1 /\ r - 1 = s /\ s # 1
        BY <4>0, <3>2, <1>1, <2>2
      <4> HIDE DEF r
      <4>2. T[r] = E[s]
        BY <4>1, <1>4
      <4> QED BY <4>1, <4>2, <2>2
    <3>3. CASE s = p /\ l < k
      BY <3>3, <1>1, <1>4, <2>2
    <3>4. CASE s = p /\ ~(l < k)
      <4>1. r = p + 1 /\ r \in 1 .. N + 1 /\ ~(r <= p)
        BY <3>4, <1>1
      <4> HIDE DEF r
      <4>2. T[r] = i
        BY <4>1, <1>4
      <4> QED BY <4>1, <4>2, <3>4, <1>2, <1>6
    <3> QED BY <3>1, <3>2, <3>3, <3>4, <1>1, <2>2
  <2>6. ASSUME NEW q \in r + 1 .. N + 1 PROVE l < T[q].first
    <3>1. CASE q <= p
      <4>1. s < p /\ q \in s + 1 .. N /\ q \in 1 .. N + 1
        BY <3>1, <1>1, <2>2
      <4> QED BY Zenon, <4>1, <3>1, <1>4, <2>2
    <3>2. CASE q = p + 1
      <4>1. s <= p /\ q \in 1 .. N + 1 /\ ~(q <= p) /\ (s = p => l < k)
        BY <3>2, <1>1, <2>2
      <4>2. T[q] = i
        BY <4>1, <3>2, <1>4
      <4>3. l < k
        BY <4>1, <2>2, <2>3, <1>1
      <4> QED BY <4>2, <4>3, <1>2
    <3>3. CASE q > p + 1
      <4>1. q - 1 \in s + 1 .. N /\ q \in 1 .. N + 1 /\ ~(q <= p) /\ q # p + 1
        BY <3>3, <1>1, <2>2
      <4>2. T[q] = E[q - 1]
        BY <4>1, <1>4
      <4> QED BY <4>1, <4>2, <2>2
    <3>4. q <= p \/ q = p + 1 \/ q > p + 1
      BY <1>1, <2>5
    <3> QED BY <3>1, <3>2, <3>3, <3>4
  <2> HIDE DEF r
  <2>7. At(T, l, r)
    BY Zenon, <2>5, <2>6, <1>4 DEF At
  <2>8. SearchPos(T, l) = r
    BY Zenon, <2>7, <1>8, <1>11, SearchIs DEF T
  <2> QED BY <2>8 DEF r, s
<1> QED BY Zenon, <1>1, <1>2, <1>3, <1>4, <1>8, <1>11, <1>12 DEF Inserted

(* A key in the middle of a child lies between the child's separators. *)
LEMMA SplitKey ==
  ASSUME NEW nd, NEW R, Tree(nd, R), Neat(nd, R, {}), NEW u \in R, NEW p, NEW s, Slot(nd, u, p, s),
         NEW m \in 1 .. Len(nd[s].ents) - 1, NEW k, k = nd[s].ents[m + 1].first
  PROVE  /\ k \in LBlocks /\ On(nd, k, s) /\ On(nd, k, u) /\ nd[u].ents[p].first < k
         /\ \A q \in p + 1 .. Len(nd[u].ents) : k < nd[u].ents[q].first
<1>1. Shape(nd, R) /\ Once(nd, R)
  BY DEF Tree
<1>2. s \in R /\ s # Root /\ ~ Ends(nd[u]) /\ p \in 1 .. Len(nd[u].ents)
  BY <1>1, SlotIs
<1>3. Fit(s, nd[s]) /\ Fit(u, nd[u]) /\ Len(nd[s].ents) \in Nat /\ nd[u].ents # <<>>
  BY <1>1, <1>2, DepthIs DEF Ends
<1> DEFINE r == m + 1
           one == 1
<1>4. r \in 1 .. Len(nd[s].ents) /\ one \in 1 .. Len(nd[s].ents) /\ one < r /\ k = nd[s].ents[r].first
  BY <1>3
<1> HIDE DEF r
<1>5. k \in Keys(nd[s], r)
  <2>1. CASE nd[s].depth = 0
    <3> DEFINE n == nd[s]
               e == n.ents[r]
    <3>0. Fit(s, n) /\ r \in 1 .. Len(n.ents) /\ n.depth = 0
      BY <1>3, <1>4, <2>1
    <3> HIDE DEF n
    <3>1. e.len \in 1 .. MaxLen /\ End64(e) = e.first + e.len /\ e.first \in LBlocks
      BY Zenon, <3>0, EntryIs
    <3>2. e.first \in Int /\ MaxLen \in Nat
      BY <3>1, Width, SizeAssumption
    <3>3. k = e.first
      BY <1>4 DEF n
    <3> HIDE DEF e
    <3>4. k \in e.first .. End64(e) - 1
      BY <3>1, <3>2, <3>3
    <3>5. Keys(n, r) = e.first .. End64(e) - 1
      BY <3>0 DEF Keys, e
    <3> QED BY <3>4, <3>5 DEF n
  <2>2. CASE nd[s].depth # 0
    BY <2>2, <1>4 DEF Keys
  <2> QED BY <2>1, <2>2
<1>6. k \in LBlocks /\ On(nd, k, s)
  BY <1>2, <1>4, <1>5, KeyOn
<1>7. On(nd, k, u) /\ SearchPos(nd[u].ents, k) = p
  BY <1>1, <1>6, SlotOn
<1>8. k \in Int
  BY <1>6, Width
<1>9. At(nd[u].ents, k, p)
  <2> DEFINE n == nd[u]
  <2>1. Fit(u, n) /\ n.ents # <<>> /\ SearchPos(n.ents, k) = p
    BY <1>3, <1>7
  <2> HIDE DEF n
  <2>2. At(n.ents, k, p)
    BY <2>1, <1>8, SearchIs
  <2> QED BY <2>2 DEF n
<1>10. nd[u].ents[p].first < k
  <2>1. nd[s].ents[one].first < nd[s].ents[r].first
    BY <1>3, <1>4 DEF Fit, Keyed
  <2>2. nd[s].ents[1].first = nd[u].ents[p].first
    BY <1>2 DEF Neat
  <2> QED BY <2>1, <2>2, <1>4
<1> QED BY <1>6, <1>7, <1>9, <1>10 DEF At

(* Lookups answer the same. *)
SameLookups(nd, md) == \A l \in LBlocks : Lookup(md, l) = Lookup(nd, l)

(* md is nd with the entries of s from m + 1 on, whose first key is k, in f. *)
SplitInto(nd, R, u, p, s, m, k, f, md) ==
    /\ k = nd[s].ents[m + 1].first
    /\ md[s] = [depth |-> nd[s].depth, ents |-> SubSeq(nd[s].ents, 1, m)]
    /\ md[f] = [depth |-> nd[s].depth, ents |-> SubSeq(nd[s].ents, m + 1, Len(nd[s].ents))]
    /\ md[u] = [depth |-> nd[u].depth, ents |-> InsertAt(nd[u].ents, p + 1, [first |-> k, child |-> f])]
    /\ \A x \in R \ {s, u} : md[x] = nd[x]

(* What s is in md, and where k is the key behind it. *)
SplitLeaves(md, u, p, s, k) ==
    Slot(md, u, p, s) /\ p + 1 \in 1 .. Len(md[u].ents) /\ md[u].ents[p + 1].first = k

(* A node is split: its upper half moves to f, linked behind it. *)
LEMMA SplitTree ==
  ASSUME NEW nd, NEW R, Tree(nd, R), Neat(nd, R, {}), NEW u \in R, NEW p, NEW s, Slot(nd, u, p, s),
         Len(nd[u].ents) < MaxEntries(u), NEW m \in 1 .. Len(nd[s].ents) - 1, NEW k,
         NEW f \in Blocks, f \notin R, NEW md \in [Places -> Nodes], SplitInto(nd, R, u, p, s, m, k, f, md)
  PROVE  Tree(md, R \cup {f}) /\ Neat(md, R \cup {f}, {}) /\ SameLookups(nd, md) /\ SplitLeaves(md, u, p, s, k)
<1>01. k = nd[s].ents[m + 1].first
  BY DEF SplitInto
<1>02. md[s] = [depth |-> nd[s].depth, ents |-> SubSeq(nd[s].ents, 1, m)]
  BY DEF SplitInto
<1>03. md[f] = [depth |-> nd[s].depth, ents |-> SubSeq(nd[s].ents, m + 1, Len(nd[s].ents))]
  BY DEF SplitInto
<1>04. md[u] = [depth |-> nd[u].depth, ents |-> InsertAt(nd[u].ents, p + 1, [first |-> k, child |-> f])]
  BY DEF SplitInto
<1>05. \A x \in R \ {s, u} : md[x] = nd[x]
  BY DEF SplitInto
<1> USE <1>01, <1>02, <1>03, <1>04, <1>05
<1> DEFINE Q == R \cup {f}
           n == nd[s]
           t == nd[u]
           U == nd[u].ents
           i == [first |-> k, child |-> f]
           Reg == Region(nd, R)
           g == [b \in Q |-> IF b = s THEN {l \in Reg[s] : l < k}
                             ELSE IF b = f THEN {l \in Reg[s] : k <= l} ELSE Reg[b]]
<1>1. Shape(nd, R) /\ Hung(nd, R) /\ Once(nd, R) /\ R \in SUBSET Places /\ Root \in R
  BY Zenon DEF Tree, Shape
<1>2. s \in R /\ s # Root /\ s # u /\ s # f /\ u # f /\ f # Root /\ f \in Places /\ ~ Ends(t) /\ p \in 1 .. Len(U) /\ s \in Blocks
      /\ t.depth \in 1 .. MaxDepth /\ t.depth # 0 /\ n.depth = t.depth - 1
  <2>1. s \in R /\ s # Root /\ nd[s].depth = nd[u].depth - 1 /\ nd[s].depth < nd[u].depth /\ s \in Blocks
        /\ ~ Ends(nd[u]) /\ nd[u].depth \in 1 .. MaxDepth /\ p \in 1 .. Len(nd[u].ents)
    BY <1>1, SlotIs
  <2>2. f # Root /\ f \in Places
    BY DEF Places, Blocks, Root
  <2>3. s # u
    BY <2>1, <1>1, DepthIs
  <2>4. nd[u].depth # 0
    BY <2>1
  <2> QED BY <2>1, <2>2, <2>3, <2>4
<1>3. Fit(s, n) /\ Fit(u, t)
  BY <1>1, <1>2, DepthIs
<1>30. /\ Len(n.ents) \in Nat /\ m \in Nat /\ m >= 1 /\ m < Len(n.ents)
       /\ Len(U) \in Nat /\ p \in Nat /\ p \in 1 .. Len(U)
  <2>1. Len(n.ents) \in Nat /\ Len(U) \in Nat
    BY <1>1, <1>2, DepthIs
  <2> QED BY <2>1, <1>2
<1>4. k \in LBlocks /\ On(nd, k, s) /\ On(nd, k, u) /\ t.ents[p].first < k /\ k \in Int
      /\ \A q \in p + 1 .. Len(t.ents) : k < t.ents[q].first
  <2> HIDE <1>02, <1>03, <1>04, <1>05
  <2>1. k \in LBlocks /\ On(nd, k, s) /\ On(nd, k, u) /\ t.ents[p].first < k
        /\ \A q \in p + 1 .. Len(t.ents) : k < t.ents[q].first
    BY SplitKey
  <2> QED BY <2>1, Width
<1>5. /\ Len(n.ents) \in Nat /\ n.ents # <<>>
      /\ md[s].depth = n.depth /\ Len(md[s].ents) = m /\ md[s].ents # <<>> /\ Fit(s, md[s])
      /\ \A q \in 1 .. m : q \in 1 .. Len(n.ents) /\ md[s].ents[q] = n.ents[q]
      /\ md[f].depth = n.depth /\ Len(md[f].ents) = Len(n.ents) - m /\ md[f].ents # <<>>
      /\ \A c : MaxEntries(c) = MaxEntries(s) => Fit(c, md[f])
      /\ \A q \in 1 .. Len(n.ents) - m : m + q \in 1 .. Len(n.ents) /\ md[f].ents[q] = n.ents[m + q]
      /\ \A l \in Int : l < k => SearchPos(n.ents, l) \in 1 .. m /\ SearchPos(md[s].ents, l) = SearchPos(n.ents, l)
      /\ \A l \in Int : k <= l => SearchPos(n.ents, l) \in m + 1 .. Len(n.ents)
                                  /\ SearchPos(md[f].ents, l) = SearchPos(n.ents, l) - m
      /\ \A q \in 1 .. m : \A l \in Keys(n, q) : l < k
      /\ \A q \in m + 1 .. Len(n.ents) : \A l \in Keys(n, q) : k <= l
      /\ \A q \in 1 .. m : Keys(md[s], q) = Keys(n, q)
      /\ \A q \in 1 .. Len(n.ents) - m : Keys(md[f], q) = Keys(n, m + q)
  <2> DEFINE lo == md[s]
             hi == md[f]
  <2>1. Fit(s, n) /\ lo = [depth |-> n.depth, ents |-> SubSeq(n.ents, 1, m)] /\ m \in 1 .. Len(n.ents) - 1
        /\ k = n.ents[m + 1].first /\ hi = [depth |-> n.depth, ents |-> SubSeq(n.ents, m + 1, Len(n.ents))]
    BY <1>3
  <2> HIDE DEF lo, hi, n
  <2>2. Halved(s, n, m, k, lo, hi)
    BY Zenon, <2>1, Halves
  <2> QED BY Zenon, <2>2 DEF lo, hi, Halved
<1>6. /\ Fit(u, md[u]) /\ md[u].depth = t.depth /\ Len(md[u].ents) = Len(t.ents) + 1 /\ md[u].ents # <<>> /\ Len(t.ents) \in Nat
      /\ \A q \in 1 .. Len(t.ents) + 1 :
            md[u].ents[q] = IF q <= p THEN t.ents[q] ELSE IF q = p + 1 THEN i ELSE t.ents[q - 1]
      /\ i.first = k /\ i.child = f
      /\ \A l \in Int : SearchPos(md[u].ents, l) = LET z == SearchPos(t.ents, l)
                                                   IN  IF z < p THEN z ELSE IF z > p THEN z + 1
                                                       ELSE IF l < k THEN p ELSE p + 1
  <2> DEFINE x == md[u]
  <2>1. x = [depth |-> t.depth, ents |-> InsertAt(t.ents, p + 1, i)] /\ p \in 1 .. Len(t.ents) /\ Len(t.ents) < MaxEntries(u)
        /\ Fit(u, t) /\ t.depth # 0 /\ k \in LBlocks /\ t.ents[p].first < k
        /\ \A q \in p + 1 .. Len(t.ents) : k < t.ents[q].first
    BY <1>2, <1>3, <1>4
  <2>2. i = [first |-> k, child |-> f]
    OBVIOUS
  <2> HIDE DEF x, i, t
  <2>3. Inserted(u, t, p, k, f, i, x)
    BY Zenon, <2>1, <2>2, IndexInsert
  <2> QED BY Zenon, <2>3 DEF x, Inserted
<1> HIDE <1>02, <1>03, <1>04 DEF i
<1>7. MaxEntries(f) = MaxEntries(s)
  BY <1>2 DEF MaxEntries
<1>8. \A b \in R : \A q, c : Slot(nd, b, q, c) => c \in R \ {Root} /\ c # f /\ nd[c].depth = nd[b].depth - 1 /\ q \in 1 .. Len(nd[b].ents)
  BY <1>1, SlotIs
<1>9. /\ \A q, c : Slot(md, u, q, c) <=> \/ q \in 1 .. p /\ Slot(nd, u, q, c)
                                         \/ q = p + 1 /\ c = f
                                         \/ q > p + 1 /\ q - 1 \in p + 1 .. Len(U) /\ q \in Int /\ Slot(nd, u, q - 1, c)
      /\ \A q, c : Slot(md, s, q, c) <=> q \in 1 .. m /\ Slot(nd, s, q, c)
      /\ \A q, c : Slot(md, f, q, c) <=> q \in 1 .. Len(n.ents) - m /\ Slot(nd, s, m + q, c)
      /\ \A b \in R \ {s, u} : \A q, c : Slot(md, b, q, c) <=> Slot(nd, b, q, c)
  <2>1. ASSUME NEW q, NEW c
        PROVE  Slot(md, u, q, c) <=> \/ q \in 1 .. p /\ Slot(nd, u, q, c)
                                     \/ q = p + 1 /\ c = f
                                     \/ q > p + 1 /\ q - 1 \in p + 1 .. Len(U) /\ q \in Int /\ Slot(nd, u, q - 1, c)
    <3>1. Slot(md, u, q, c) <=> q \in 1 .. Len(t.ents) + 1 /\ md[u].ents[q].child = c
      BY Zenon, <1>2, <1>6 DEF Slot
    <3>2. \A r : Slot(nd, u, r, c) <=> r \in 1 .. Len(t.ents) /\ t.ents[r].child = c
      BY Zenon, <1>2 DEF Slot
    <3>3. CASE q \in 1 .. p
      <4>1. q \in 1 .. Len(t.ents) /\ q \in 1 .. Len(t.ents) + 1 /\ q <= p /\ q # p + 1 /\ ~ (q > p + 1)
        <5> HIDE <1>01, <1>02, <1>03, <1>04, <1>05
        <5> QED BY <3>3, <1>2, <1>6
      <4>2. md[u].ents[q] = t.ents[q]
        BY Zenon, <4>1, <1>6
      <4> HIDE DEF t, U
      <4> QED BY <4>1, <4>2, <3>1, <3>2, <3>3
    <3>4. CASE q = p + 1
      <4>1. q \in 1 .. Len(t.ents) + 1 /\ ~(q <= p) /\ ~ (q > p + 1) /\ q \notin 1 .. p
        BY <3>4, <1>2, <1>6
      <4>2. md[u].ents[q] = i
        BY Zenon, <4>1, <3>4, <1>6
      <4> HIDE DEF t, U
      <4> QED BY <4>1, <4>2, <3>1, <3>4, <1>6
    <3>5. CASE q \in p + 2 .. Len(t.ents) + 1
      <4>1. q \in 1 .. Len(t.ents) + 1 /\ ~(q <= p) /\ q > p + 1 /\ q \notin 1 .. p /\ q # p + 1 /\ q - 1 \in p + 1 .. Len(t.ents)
            /\ q \in Int /\ q - 1 \in 1 .. Len(t.ents)
        <5> HIDE <1>01, <1>02, <1>03, <1>04, <1>05
        <5> QED BY <3>5, <1>2, <1>6
      <4>2. md[u].ents[q] = t.ents[q - 1]
        BY Zenon, <4>1, <1>6
      <4> HIDE DEF t
      <4> QED BY <4>1, <4>2, <3>1, <3>2, <3>5 DEF t
    <3>6. CASE q \notin 1 .. p /\ q # p + 1 /\ q \notin p + 2 .. Len(t.ents) + 1
      <4>1. q \notin 1 .. Len(t.ents) + 1
        BY <3>6, <1>2, <1>6
      <4>2. ~ (q > p + 1 /\ q - 1 \in p + 1 .. Len(U) /\ q \in Int)
        BY <3>6, <1>2, <1>6
      <4> HIDE DEF t, U
      <4> QED BY <4>1, <4>2, <3>1, <3>6
    <3> QED BY <3>3, <3>4, <3>5, <3>6
  <2>2. ASSUME NEW q, NEW c PROVE Slot(md, s, q, c) <=> q \in 1 .. m /\ Slot(nd, s, q, c)
    <3> HIDE DEF n
    <3> QED BY Zenon, <1>5 DEF Slot, n
  <2>3. ASSUME NEW q, NEW c PROVE Slot(md, f, q, c) <=> q \in 1 .. Len(n.ents) - m /\ Slot(nd, s, m + q, c)
    <3>1. q \in 1 .. Len(n.ents) - m => m + q \in 1 .. Len(n.ents) /\ md[f].ents[q] = n.ents[m + q]
      BY <1>5
    <3> QED BY Zenon, <3>1, <1>5 DEF Slot
  <2> QED BY Zenon, <2>1, <2>2, <2>3 DEF Slot
<1>31. \A q, c : Slot(md, u, q, c) =>
          /\ c = f => q = p + 1
          /\ c # f => \/ q \in 1 .. p /\ Slot(nd, u, q, c)
                      \/ q > p + 1 /\ q - 1 \in p + 1 .. Len(U) /\ q \in Int /\ Slot(nd, u, q - 1, c)
  <2> SUFFICES ASSUME NEW q, NEW c, Slot(md, u, q, c)
               PROVE  /\ c = f => q = p + 1
                      /\ c # f => \/ q \in 1 .. p /\ Slot(nd, u, q, c)
                                  \/ q > p + 1 /\ q - 1 \in p + 1 .. Len(U) /\ q \in Int /\ Slot(nd, u, q - 1, c)
    OBVIOUS
  <2> DEFINE low == q \in 1 .. p /\ Slot(nd, u, q, c)
             high == q > p + 1 /\ q - 1 \in p + 1 .. Len(U) /\ q \in Int /\ Slot(nd, u, q - 1, c)
  <2>1. low \/ (q = p + 1 /\ c = f) \/ high
    BY <1>9
  <2>2. low => c # f
    BY <1>8
  <2>3. high => c # f
    <3> SUFFICES ASSUME high PROVE c # f
      OBVIOUS
    <3> DEFINE r == q - 1
    <3>1. Slot(nd, u, r, c)
      OBVIOUS
    <3> HIDE DEF r, high
    <3> QED BY <3>1, <1>8
  <2> HIDE DEF low, high
  <2>4. (c = f => q = p + 1) /\ (c # f => low \/ high)
    BY <2>1, <2>2, <2>3
  <2> QED BY <2>4 DEF low, high
<1>10. \A x \in R : md[x].depth = nd[x].depth
  BY Zenon, <1>5, <1>6
<1>11. Shape(md, Q)
  <2>1. ASSUME NEW b \in Q PROVE Fit(b, md[b])
    <3>1. \A x \in R : Fit(x, nd[x])
      BY <1>1 DEF Shape
    <3>2. Fit(f, md[f])
      BY Zenon, <1>5, <1>7
    <3> QED BY Zenon, <3>1, <3>2, <1>5, <1>6
  <2>2. ASSUME NEW b \in Q, md[b].depth > 0, NEW q \in 1 .. Len(md[b].ents)
        PROVE  md[b].ents[q].child \in Q \ {Root} /\ md[md[b].ents[q].child].depth = md[b].depth - 1
    <3> DEFINE c == md[b].ents[q].child
    <3>1. Slot(md, b, q, c)
      BY <2>2 DEF Slot
    <3> HIDE DEF c
    <3>2. CASE b = u
      <4>1. CASE c = f
        BY Zenon, <4>1, <3>2, <1>2, <1>5, <1>6 DEF c
      <4>2. CASE c # f
        <5>1. \E r : Slot(nd, u, r, c)
          BY Zenon, <4>2, <3>1, <3>2, <1>9
        <5>2. c \in R \ {Root} /\ nd[c].depth = nd[u].depth - 1
          BY <5>1, <1>8
        <5> QED BY <5>2, <3>2, <1>10 DEF c
      <4> QED BY <4>1, <4>2
    <3>3. CASE b = s \/ b = f
      <4>1. \E r : Slot(nd, s, r, c)
        BY <3>1, <3>3, <1>9
      <4>2. c \in R \ {Root} /\ nd[c].depth = nd[s].depth - 1
        BY <4>1, <1>2, <1>8
      <4> QED BY Zenon, <4>2, <3>3, <1>2, <1>5, <1>10 DEF c
    <3>4. CASE b \in R \ {s, u}
      <4>1. Slot(nd, b, q, c)
        BY <3>1, <3>4, <1>9
      <4>2. c \in R \ {Root} /\ nd[c].depth = nd[b].depth - 1
        BY <4>1, <3>4, <1>8
      <4> QED BY Zenon, <4>2, <3>4, <1>10 DEF c
    <3> QED BY <3>2, <3>3, <3>4
  <2> QED BY Zenon, <1>1, <1>2, <2>1, <2>2 DEF Shape
<1>12. Hung(md, Q)
  <2> SUFFICES ASSUME NEW c \in Q \ {Root} PROVE \E b \in Q : \E q \in 1 .. Len(md[b].ents) : Slot(md, b, q, c)
    BY Zenon DEF Hung
  <2> SUFFICES \E b \in Q : \E q : Slot(md, b, q, c)
    BY DEF Slot
  <2>1. CASE c = f
    <3>1. Slot(md, u, p + 1, f)
      BY <1>9
    <3> QED BY <3>1, <2>1
  <2>2. CASE c # f
    <3>1. PICK b \in R : \E q \in 1 .. Len(nd[b].ents) : Slot(nd, b, q, c)
      BY Zenon, <2>2, <1>1 DEF Hung
    <3>2. PICK q \in 1 .. Len(nd[b].ents) : Slot(nd, b, q, c)
      BY <3>1
    <3>3. CASE b = u
      <4>1. CASE q \in 1 .. p
        <5>1. Slot(md, u, q, c)
          BY <4>1, <3>2, <3>3, <1>9
        <5> QED BY <5>1
      <4>2. CASE q > p
        <5> DEFINE r == q + 1
        <5>1. r > p + 1 /\ r - 1 \in p + 1 .. Len(U) /\ r \in Int /\ r - 1 = q
          BY <4>2, <3>2, <3>3, <1>2, <1>6
        <5> HIDE DEF r
        <5>2. Slot(md, u, r, c)
          BY <5>1, <3>2, <3>3, <1>9
        <5> QED BY <5>2
      <4> QED BY <4>1, <4>2, <1>2, <1>6, <3>2, <3>3
    <3>4. CASE b = s
      <4>1. CASE q \in 1 .. m
        <5>1. Slot(md, s, q, c)
          BY <4>1, <3>2, <3>4, <1>9
        <5> QED BY <5>1, <1>2
      <4>2. CASE q > m
        <5> DEFINE r == q - m
        <5>1. r \in 1 .. Len(n.ents) - m /\ m + r = q
          <6>1. q \in 1 .. Len(n.ents)
            BY <3>2, <3>4
          <6> QED BY <6>1, <4>2, <1>30
        <5> HIDE DEF r
        <5>2. Slot(md, f, r, c)
          BY <5>1, <3>2, <3>4, <1>9
        <5> QED BY <5>2
      <4> QED BY <4>1, <4>2, <1>5, <3>2, <3>4
    <3>5. CASE b \in R \ {s, u}
      <4>1. Slot(md, b, q, c)
        BY <3>2, <3>5, <1>9
      <4> QED BY <4>1
    <3> QED BY <3>3, <3>4, <3>5
  <2> QED BY <2>1, <2>2
<1>13. Once(md, Q)
  <2> SUFFICES ASSUME NEW x \in Q, NEW y \in Q, NEW a \in 1 .. Len(md[x].ents), NEW z \in 1 .. Len(md[y].ents), NEW c \in Q,
                      Slot(md, x, a, c), Slot(md, y, z, c)
               PROVE  x = y /\ a = z
    BY DEF Once
  <2> DEFINE old(b) == IF b = f THEN s ELSE b
             was(b, q) == IF b = f THEN m + q ELSE IF b = u /\ q > p THEN q - 1 ELSE q
  <2>1. ASSUME NEW b \in Q, NEW q \in 1 .. Len(md[b].ents), Slot(md, b, q, c), c # f
        PROVE  /\ old(b) \in R /\ was(b, q) \in 1 .. Len(nd[old(b)].ents) /\ Slot(nd, old(b), was(b, q), c)
               /\ b = s => was(b, q) <= m
               /\ b = f => was(b, q) > m
               /\ b = u => (q > p => q > p + 1)
    <3> SUFFICES /\ old(b) \in R /\ Slot(nd, old(b), was(b, q), c)
                 /\ b = s => was(b, q) <= m
                 /\ b = f => was(b, q) > m
                 /\ b = u => (q > p => q > p + 1)
      BY DEF Slot
    <3>1. CASE b = u
      <4>1. CASE q \in 1 .. p /\ Slot(nd, u, q, c)
        <5>1. was(b, q) = q /\ old(b) = u
          BY <4>1, <3>1, <1>2
        <5>2. Slot(nd, u, q, c)
          BY <4>1
        <5> QED BY <5>1, <5>2, <4>1, <3>1, <1>2
      <4>2. CASE q > p + 1 /\ q - 1 \in p + 1 .. Len(U) /\ q \in Int /\ Slot(nd, u, q - 1, c)
        <5>1. was(b, q) = q - 1 /\ old(b) = u
          BY <4>2, <3>1, <1>2
        <5>2. Slot(nd, u, q - 1, c)
          BY <4>2
        <5> QED BY <5>1, <5>2, <4>2, <3>1, <1>2
      <4> QED BY <4>1, <4>2, <3>1, <2>1, <1>31
    <3>2. CASE b = s
      BY <3>2, <2>1, <1>2, <1>9
    <3>3. CASE b = f
      <4>1. q \in 1 .. Len(n.ents) - m /\ Slot(nd, s, m + q, c)
        BY <3>3, <2>1, <1>9
      <4>2. was(b, q) = m + q /\ m + q > m /\ old(b) = s
        BY <4>1, <3>3
      <4> QED BY <4>1, <4>2, <3>3, <1>2
    <3>4. CASE b \in R \ {s, u}
      BY Zenon, <3>4, <2>1, <1>2, <1>9
    <3> QED BY <3>1, <3>2, <3>3, <3>4
  <2>2. CASE c = f
    <3>1. ASSUME NEW b \in Q, NEW q, Slot(md, b, q, c) PROVE b = u /\ q = p + 1
      <4>1. ~ \E x1 \in R : \E r : Slot(nd, x1, r, c)
        BY <2>2, <1>8
      <4>2. b # s /\ b # f /\ b \notin R \ {s, u}
        BY <4>1, <3>1, <1>2, <1>9
      <4> QED BY Zenon, <4>1, <4>2, <3>1, <1>9
    <3> QED BY <3>1
  <2>3. CASE c # f
    <3> DEFINE a0 == was(x, a)
               z0 == was(y, z)
    <3>0. c \in R
      BY <2>3
    <3>1. /\ old(x) \in R /\ a0 \in 1 .. Len(nd[old(x)].ents) /\ Slot(nd, old(x), a0, c)
          /\ x = s => a0 <= m
          /\ x = f => a0 > m
          /\ x = u => (a > p => a > p + 1)
      BY Zenon, <2>1, <2>3
    <3>2. /\ old(y) \in R /\ z0 \in 1 .. Len(nd[old(y)].ents) /\ Slot(nd, old(y), z0, c)
          /\ y = s => z0 <= m
          /\ y = f => z0 > m
          /\ y = u => (z > p => z > p + 1)
      BY Zenon, <2>1, <2>3
    <3>3. old(x) = old(y) /\ a0 = z0
      <4> HIDE DEF a0, z0, old
      <4> QED BY Zenon, <3>0, <3>1, <3>2, <1>1 DEF Once
    <3>4. x = y
      <4>1. a0 \in Int
        BY <3>1
      <4> HIDE DEF a0, z0
      <4> QED BY <4>1, <3>1, <3>2, <3>3, <1>2
    <3>5. a \in Int /\ z \in Int
      OBVIOUS
    <3>6. CASE x = f
      BY <3>3, <3>4, <3>5, <3>6
    <3>7. CASE x = u
      <4>1. a0 = (IF a > p THEN a - 1 ELSE a) /\ z0 = (IF z > p THEN z - 1 ELSE z)
        BY <3>4, <3>7, <1>2
      <4> HIDE DEF a0, z0
      <4> QED BY <4>1, <3>1, <3>2, <3>3, <3>4, <3>5, <3>7, <1>2
    <3>8. CASE x # u /\ x # f
      BY <3>3, <3>4, <3>8
    <3> QED BY <3>4, <3>6, <3>7, <3>8
  <2> QED BY <2>2, <2>3
<1>14. Reg \in [R -> SUBSET LBlocks] /\ Nested(nd, R, Reg)
  BY <1>1, RegionNested
<1>15. \A b \in R : \A q, c : Slot(nd, b, q, c) => \A l \in Reg[c] : l \in Reg[b] /\ SearchPos(nd[b].ents, l) = q /\ l \in LBlocks /\ l \in Int
  <2> HIDE DEF Reg
  <2> SUFFICES ASSUME NEW b \in R, NEW q, NEW c, Slot(nd, b, q, c), NEW l \in Reg[c]
               PROVE  l \in Reg[b] /\ SearchPos(nd[b].ents, l) = q /\ l \in LBlocks /\ l \in Int
    OBVIOUS
  <2>1. c \in R /\ q \in 1 .. Len(nd[b].ents)
    BY <1>8
  <2>2. l \in LBlocks
    BY <2>1, <1>14
  <2> QED BY <2>1, <2>2, <1>14, Width DEF Nested
<1>16. /\ g \in [Q -> SUBSET LBlocks]
       /\ g[s] = {l \in Reg[s] : l < k} /\ g[f] = {l \in Reg[s] : k <= l}
       /\ \A b \in R \ {s} : g[b] = Reg[b]
  <2>1. Reg[s] \in SUBSET LBlocks
    BY <1>2, <1>14
  <2> HIDE DEF Reg
  <2> QED BY <2>1, <1>2, <1>14
<1> HIDE DEF g, Reg
<1>17. ASSUME NEW b \in R \ {u}, NEW q, NEW c, Slot(nd, b, q, c) PROVE c # s /\ g[c] = Reg[c] /\ c \in R /\ q \in 1 .. Len(nd[b].ents)
  <2>1. c \in R /\ q \in 1 .. Len(nd[b].ents)
    BY <1>8, <1>17
  <2>2. c # s
    BY <2>1, <1>1, <1>2, <1>17 DEF Once
  <2> QED BY <2>1, <2>2, <1>16
<1>18. ASSUME NEW q, NEW c, Slot(nd, u, q, c), q # p PROVE c # s /\ g[c] = Reg[c]
  <2>1. c \in R /\ q \in 1 .. Len(nd[u].ents)
    BY <1>8, <1>18
  <2>2. c # s
    BY <2>1, <1>1, <1>2, <1>18 DEF Once
  <2> QED BY <2>1, <2>2, <1>16
<1>19. Nested(md, Q, g)
  <2> SUFFICES ASSUME NEW b \in Q, NEW q \in 1 .. Len(md[b].ents), NEW c \in Q, Slot(md, b, q, c), NEW l \in g[c]
               PROVE  l \in g[b] /\ SearchPos(md[b].ents, l) = q
    BY DEF Nested
  <2>1. CASE b = u
    <3>1. g[u] = Reg[u]
      BY <1>2, <1>16
    <3>2. CASE c = f
      <4>1. q = p + 1
        BY <3>2, <2>1, <1>31
      <4>2. l \in Reg[s] /\ k <= l
        BY <3>2, <1>16
      <4>3. l \in Reg[u] /\ SearchPos(t.ents, l) = p /\ l \in Int
        BY <4>2, <1>15
      <4>4. ~(l < k) /\ p \in Int
        BY <4>2, <4>3, <1>2, <1>4
      <4>5. SearchPos(md[u].ents, l) = p + 1
        <5> DEFINE e == md[u].ents
                   z == SearchPos(t.ents, l)
        <5>1. SearchPos(e, l) = IF z < p THEN z ELSE IF z > p THEN z + 1 ELSE IF l < k THEN p ELSE p + 1
          BY Zenon, <4>3, <1>6
        <5>2. z = p
          BY <4>3
        <5> HIDE DEF z, e
        <5> QED BY <5>1, <5>2, <4>4 DEF e
      <4> QED BY <3>1, <4>1, <4>3, <4>5, <2>1
    <3>3. CASE c = s
      <4>1. q = p
        <5>1. \A r : Slot(nd, u, r, c) => r = p
          BY <3>3, <1>18
        <5>2. CASE q \in 1 .. p /\ Slot(nd, u, q, c)
          BY <5>1, <5>2
        <5>3. CASE q > p + 1 /\ q - 1 \in p + 1 .. Len(U) /\ q \in Int /\ Slot(nd, u, q - 1, c)
          <6> DEFINE r == q - 1
          <6>1. Slot(nd, u, r, c) /\ r # p
            BY <5>3, <1>30
          <6> HIDE DEF r
          <6> QED BY <5>1, <6>1
        <5> QED BY Zenon, <5>2, <5>3, <3>3, <2>1, <1>2, <1>31
      <4>2. l \in Reg[s] /\ l < k
        BY <3>3, <1>16
      <4>3. l \in Reg[u] /\ SearchPos(t.ents, l) = p /\ l \in Int
        BY <4>2, <1>15
      <4>5. SearchPos(md[u].ents, l) = p
        <5> DEFINE e == md[u].ents
                   z == SearchPos(t.ents, l)
        <5>1. SearchPos(e, l) = IF z < p THEN z ELSE IF z > p THEN z + 1 ELSE IF l < k THEN p ELSE p + 1
          BY Zenon, <4>3, <1>6
        <5>2. z = p
          BY <4>3
        <5>3. p \in Int
          BY <1>2
        <5> HIDE DEF z, e
        <5> QED BY <5>1, <5>2, <5>3, <4>2 DEF e
      <4> QED BY <3>1, <4>1, <4>3, <4>5, <2>1
    <3>4. CASE c # f /\ c # s
      <4>1. CASE q \in 1 .. p /\ Slot(nd, u, q, c)
        <5>1. q # p
          <6>1. t.ents[p].child = s
            BY DEF Slot
          <6> QED BY Zenon, <6>1, <3>4, <4>1 DEF Slot
        <5>2. l \in Reg[c]
          BY <5>1, <4>1, <1>18
        <5>3. l \in Reg[u] /\ SearchPos(t.ents, l) = q /\ l \in Int
          BY <5>2, <4>1, <1>15
        <5>4. SearchPos(md[u].ents, l) = q
          <6> DEFINE e == md[u].ents
                     z == SearchPos(t.ents, l)
          <6>1. SearchPos(e, l) = IF z < p THEN z ELSE IF z > p THEN z + 1 ELSE IF l < k THEN p ELSE p + 1
            BY Zenon, <5>3, <1>6
          <6>2. z = q /\ q < p
            BY <5>1, <5>3, <4>1, <1>2
          <6> HIDE DEF z, e
          <6> QED BY <6>1, <6>2 DEF e
        <5> QED BY <3>1, <5>3, <5>4, <2>1
      <4>2. CASE q > p + 1 /\ q - 1 \in p + 1 .. Len(U) /\ q \in Int /\ Slot(nd, u, q - 1, c)
        <5> DEFINE r == q - 1
        <5>1. r # p /\ r > p /\ Slot(nd, u, r, c) /\ r + 1 = q
          BY <4>2, <1>2
        <5> HIDE DEF r
        <5>2. l \in Reg[c]
          BY <5>1, <1>18
        <5>3. l \in Reg[u] /\ SearchPos(t.ents, l) = r /\ l \in Int
          BY <5>1, <5>2, <1>15
        <5>4. SearchPos(md[u].ents, l) = q
          <6> DEFINE e == md[u].ents
                     z == SearchPos(t.ents, l)
          <6>1. SearchPos(e, l) = IF z < p THEN z ELSE IF z > p THEN z + 1 ELSE IF l < k THEN p ELSE p + 1
            BY Zenon, <5>3, <1>6
          <6>2. z = r /\ z > p /\ ~ (z < p) /\ z + 1 = q
            <7>1. r \in Int /\ p \in Int
              BY <4>2, <1>2 DEF r
            <7> QED BY <7>1, <5>1, <5>3
          <6> HIDE DEF z, e
          <6> QED BY <6>1, <6>2 DEF e
        <5> QED BY <3>1, <5>3, <5>4, <2>1
      <4> QED BY <4>1, <4>2, <3>4, <2>1, <1>31
    <3> QED BY <3>2, <3>3, <3>4
  <2>2. CASE b = s
    <3>1. q \in 1 .. m /\ Slot(nd, s, q, c)
      BY <2>2, <1>9
    <3>2. l \in Reg[c]
      BY <3>1, <1>2, <1>17
    <3>3. l \in Reg[s] /\ SearchPos(n.ents, l) = q /\ l \in Int
      BY <3>1, <3>2, <1>2, <1>15
    <3>4. l < k
      <4> SUFFICES ASSUME ~(l < k) PROVE FALSE
        BY Zenon
      <4>1. k <= l
        <5>1. l \in Int /\ k \in Int
          BY <3>3, <1>4
        <5> QED BY <5>1
      <4>2. SearchPos(n.ents, l) \in m + 1 .. Len(n.ents)
        BY <4>1, <3>3, <1>5
      <4> DEFINE z == SearchPos(n.ents, l)
      <4>3. z \in m + 1 .. Len(n.ents) /\ z = q
        BY <4>2, <3>3
      <4> HIDE DEF z
      <4> QED BY <4>3, <3>1, <1>30
    <3>5. SearchPos(md[s].ents, l) = q
      BY <3>3, <3>4, <1>5
    <3> QED BY Zenon, <3>3, <3>4, <3>5, <2>2, <1>16
  <2>3. CASE b = f
    <3>1. q \in 1 .. Len(n.ents) - m /\ Slot(nd, s, m + q, c)
      BY <2>3, <1>9
    <3>2. l \in Reg[c]
      BY Zenon, <3>1, <1>2, <1>17
    <3>3. l \in Reg[s] /\ SearchPos(n.ents, l) = m + q /\ l \in Int
      BY <3>1, <3>2, <1>2, <1>15
    <3>4. k <= l
      <4> SUFFICES ASSUME ~(k <= l) PROVE FALSE
        BY Zenon
      <4>1. l < k
        <5>1. l \in Int /\ k \in Int
          BY <3>3, <1>4
        <5> QED BY <5>1
      <4> DEFINE z == SearchPos(n.ents, l)
      <4>2. z \in 1 .. m /\ z = m + q
        BY <4>1, <3>3, <1>5
      <4>3. q \in Int /\ q >= 1
        BY <3>1, <1>30
      <4> HIDE DEF z
      <4> QED BY <4>2, <4>3, <1>30
    <3>5. SearchPos(md[f].ents, l) = m + q - m
      BY <3>3, <3>4, <1>5
    <3>6. m + q - m = q
      BY <3>1, <1>5
    <3> QED BY Zenon, <3>3, <3>4, <3>5, <3>6, <2>3, <1>16
  <2>4. CASE b \in R \ {s, u}
    <3>1. Slot(nd, b, q, c)
      BY <2>4, <1>9
    <3>2. l \in Reg[c]
      BY <3>1, <2>4, <1>17
    <3>3. l \in Reg[b] /\ SearchPos(nd[b].ents, l) = q
      BY <3>1, <3>2, <2>4, <1>15
    <3> QED BY <3>3, <2>4, <1>16
  <2> QED BY <2>1, <2>2, <2>3, <2>4
<1>20. \A b \in R : \A q \in 1 .. Len(nd[b].ents) : \A l \in Keys(nd[b], q) : l \in LBlocks /\ l \in Reg[b]
  <2> SUFFICES ASSUME NEW b \in R, NEW q \in 1 .. Len(nd[b].ents), NEW l \in Keys(nd[b], q) PROVE l \in LBlocks /\ l \in Reg[b]
    BY Zenon
  <2>1. l \in LBlocks /\ On(nd, l, b)
    BY KeyOn
  <2> QED BY <2>1 DEF Reg, Region
<1>21. Routed(md, Q, g)
  <2> SUFFICES ASSUME NEW b \in Q, NEW q \in 1 .. Len(md[b].ents), NEW l \in Keys(md[b], q) PROVE l \in g[b]
    BY DEF Routed
  <2>1. CASE b = u
    <3>1. q \in 1 .. Len(t.ents) + 1 /\ l = md[u].ents[q].first
      BY Zenon, <2>1, <1>2, <1>6 DEF Keys
    <3>2. CASE q = p + 1
      <4>1. l = k
        <5>1. ~(q <= p)
          BY <3>2, <1>2
        <5> QED BY Zenon, <5>1, <3>1, <3>2, <1>6
      <4> QED BY <4>1, <2>1, <1>2, <1>4, <1>16 DEF Reg, Region
    <3>3. CASE q # p + 1
      <4> DEFINE r == IF q <= p THEN q ELSE q - 1
      <4>1. r \in 1 .. Len(t.ents)
        BY <3>1, <3>3, <1>2, <1>6
      <4>2. l = t.ents[r].first
        BY Zenon, <3>1, <3>3, <1>6
      <4> HIDE DEF r
      <4>3. l \in Keys(nd[u], r)
        BY <4>2, <1>2 DEF Keys
      <4> QED BY <4>1, <4>3, <1>2, <1>16, <1>20, <2>1
    <3> QED BY <3>2, <3>3
  <2>2. CASE b = s
    <3>1. q \in 1 .. m /\ q \in 1 .. Len(n.ents) /\ l \in Keys(n, q)
      BY Zenon, <2>2, <1>5
    <3>2. l < k /\ l \in Reg[s]
      BY Zenon, <3>1, <1>2, <1>5, <1>20
    <3> QED BY <3>2, <2>2, <1>16
  <2>3. CASE b = f
    <3>1. q \in 1 .. Len(n.ents) - m
      BY Zenon, <2>3, <1>5
    <3> DEFINE r == m + q
    <3>2. r \in 1 .. Len(n.ents) /\ r \in m + 1 .. Len(n.ents) /\ l \in Keys(n, r)
      <4>1. r \in 1 .. Len(n.ents) /\ r \in m + 1 .. Len(n.ents)
        BY <3>1, <1>30
      <4>2. Keys(md[f], q) = Keys(n, r)
        BY Zenon, <3>1, <1>5
      <4> QED BY <4>1, <4>2, <2>3
    <3> HIDE DEF r
    <3>3. k <= l /\ l \in Reg[s]
      BY Zenon, <3>2, <1>2, <1>5, <1>20
    <3> QED BY <3>3, <2>3, <1>16
  <2>4. CASE b \in R \ {s, u}
    BY Zenon, <2>4, <1>16, <1>20
  <2> QED BY <2>1, <2>2, <2>3, <2>4
<1>22. Tree(md, Q)
  BY <1>11, <1>12, <1>13, <1>16, <1>19, <1>21, TreeByRegions
<1>23. ASSUME NEW l \in LBlocks PROVE Lookup(md, l) = Lookup(nd, l)
  <2> DEFINE has(d, b, q, v) == d[b].depth = 0 /\ l \in Keys(d[b], q) /\ v = d[b].ents[q].start + (l - d[b].ents[q].first)
  <2>1. ASSUME NEW v PROVE Maps(md, Q, l, v) => Maps(nd, R, l, v)
    <3> SUFFICES ASSUME Maps(md, Q, l, v) PROVE Maps(nd, R, l, v)
      OBVIOUS
    <3>1. PICK b \in Q : \E q \in 1 .. Len(md[b].ents) : has(md, b, q, v)
      BY Zenon DEF Maps
    <3>2. PICK q \in 1 .. Len(md[b].ents) : has(md, b, q, v)
      BY <3>1
    <3> SUFFICES \E x \in R : \E r \in 1 .. Len(nd[x].ents) : has(nd, x, r, v)
      BY Zenon DEF Maps
    <3>3. CASE b = s
      <4>1. q \in 1 .. m /\ q \in 1 .. Len(n.ents) /\ md[s].ents[q] = n.ents[q] /\ Keys(md[s], q) = Keys(n, q)
        BY <3>3, <1>5
      <4>2. has(nd, s, q, v)
        BY Zenon, <4>1, <3>2, <3>3, <1>5
      <4> QED BY Zenon, <4>1, <4>2, <1>2
    <3>4. CASE b = f
      <4>1. q \in 1 .. Len(n.ents) - m
        BY Zenon, <3>4, <1>5
      <4> DEFINE r == m + q
      <4>2. r \in 1 .. Len(n.ents) /\ md[f].ents[q] = n.ents[r] /\ Keys(md[f], q) = Keys(n, r)
        BY Zenon, <4>1, <1>5
      <4> HIDE DEF r
      <4>3. has(nd, s, r, v)
        <5>1. md[f].depth = 0 /\ l \in Keys(md[f], q) /\ v = md[f].ents[q].start + (l - md[f].ents[q].first)
          BY Zenon, <3>2, <3>4
        <5>2. nd[s].depth = 0
          BY <5>1, <1>5
        <5> QED BY Zenon, <5>1, <5>2, <4>2
      <4> QED BY <4>2, <4>3, <1>2
    <3>5. CASE b = u
      <4> HIDE <1>01, <1>02, <1>03, <1>04, <1>05
      <4> QED BY <3>5, <3>2, <1>2, <1>6
    <3>6. CASE b \in R \ {s, u}
      BY Zenon, <3>6, <3>2
    <3> QED BY <3>3, <3>4, <3>5, <3>6
  <2>2. ASSUME NEW v PROVE Maps(nd, R, l, v) => Maps(md, Q, l, v)
    <3> SUFFICES ASSUME Maps(nd, R, l, v) PROVE Maps(md, Q, l, v)
      OBVIOUS
    <3>1. PICK b \in R : \E q \in 1 .. Len(nd[b].ents) : has(nd, b, q, v)
      BY DEF Maps
    <3>2. PICK q \in 1 .. Len(nd[b].ents) : has(nd, b, q, v)
      BY <3>1
    <3> SUFFICES \E x \in Q : \E r \in 1 .. Len(md[x].ents) : has(md, x, r, v)
      BY Zenon DEF Maps
    <3>3. CASE b = s /\ q \in 1 .. m
      <4>1. md[s].ents[q] = n.ents[q] /\ Keys(md[s], q) = Keys(n, q) /\ q \in 1 .. Len(md[s].ents)
        BY Zenon, <3>3, <1>5
      <4>2. has(md, s, q, v)
        BY <4>1, <3>2, <3>3, <1>5
      <4> QED BY Zenon, <4>1, <4>2, <1>2
    <3>4. CASE b = s /\ q > m
      <4> DEFINE r == q - m
      <4>1. r \in 1 .. Len(n.ents) - m /\ m + r = q
        <5>1. q \in 1 .. Len(n.ents)
          BY <3>2, <3>4
        <5> HIDE <1>01, <1>02, <1>03, <1>04, <1>05
        <5> QED BY <5>1, <3>4, <1>30
      <4> HIDE DEF r
      <4>2. md[f].ents[r] = n.ents[q] /\ Keys(md[f], r) = Keys(n, q) /\ r \in 1 .. Len(md[f].ents)
        BY Zenon, <4>1, <1>5
      <4>3. has(md, f, r, v)
        BY Zenon, <4>2, <3>2, <3>4, <1>5
      <4> QED BY Zenon, <4>2, <4>3
    <3>5. CASE b = u
      BY <3>5, <3>2, <1>2
    <3>6. CASE b \in R \ {s, u}
      BY Zenon, <3>6, <3>2
    <3>7. b = s => q \in 1 .. m \/ q > m
      BY <1>5, <3>2
    <3> QED BY Zenon, <3>3, <3>4, <3>5, <3>6, <3>7
  <2> HIDE DEF Q, has
  <2> QED BY <2>1, <2>2, <1>22, SameMaps
<1>24. Neat(md, Q, {})
  <2> SUFFICES ASSUME NEW b \in Q, NEW q \in 1 .. Len(md[b].ents), NEW c \in Q \ {}, Slot(md, b, q, c)
               PROVE  md[c].ents # <<>> /\ md[c].ents[1].first = md[b].ents[q].first
    BY Zenon DEF Neat
  <2>1. ASSUME NEW x \in R, nd[x].ents # <<>> PROVE md[x].ents # <<>> /\ md[x].ents[1].first = nd[x].ents[1].first
    <3>1. CASE x = u
      <4>1. 1 \in 1 .. Len(t.ents) + 1 /\ 1 <= p
        BY <1>2, <1>6
      <4>2. md[u].ents[1] = t.ents[1]
        BY Zenon, <4>1, <1>6
      <4> QED BY Zenon, <4>2, <3>1, <1>6
    <3>2. CASE x = s
      <4>1. 1 \in 1 .. m
        BY <1>5
      <4> QED BY Zenon, <4>1, <3>2, <1>5
    <3> QED BY <3>1, <3>2, <2>1
  <2>2. ASSUME NEW x \in R, NEW r, Slot(nd, x, r, c)
        PROVE  md[c].ents # <<>> /\ md[c].ents[1].first = nd[x].ents[r].first
    <3>1. c \in R /\ r \in 1 .. Len(nd[x].ents)
      BY <2>2, <1>8
    <3>2. nd[c].ents # <<>> /\ nd[c].ents[1].first = nd[x].ents[r].first
      BY <3>1, <2>2 DEF Neat
    <3> QED BY <3>1, <3>2, <2>1
  <2>3. CASE c = f
    <3>1. b = u /\ q = p + 1
      <4>1. ~ \E x1 \in R : \E r : Slot(nd, x1, r, c)
        BY <2>3, <1>8
      <4>2. b # s /\ b # f /\ b \notin R \ {s, u}
        BY <4>1, <1>2, <1>9
      <4> QED BY Zenon, <4>1, <4>2, <1>9
    <3>2. md[u].ents[q] = i
      <4>1. q \in 1 .. Len(t.ents) + 1 /\ ~(q <= p)
        BY <3>1, <1>2, <1>6
      <4> QED BY Zenon, <4>1, <3>1, <1>6
    <3>3. md[f].ents[1] = n.ents[m + 1]
      <4>1. 1 \in 1 .. Len(n.ents) - m
        BY <1>5
      <4> QED BY Zenon, <4>1, <1>5
    <3> QED BY Zenon, <3>1, <3>2, <3>3, <2>3, <1>5, <1>6
  <2>4. CASE c # f
    <3>1. CASE b = u
      <4>1. CASE q \in 1 .. p /\ Slot(nd, u, q, c)
        <5>1. q \in 1 .. Len(t.ents) + 1 /\ q <= p
          BY <4>1, <1>2, <1>6
        <5>2. md[u].ents[q] = t.ents[q]
          BY Zenon, <5>1, <1>6
        <5> QED BY <5>2, <4>1, <3>1, <2>2
      <4>2. CASE q > p + 1 /\ q - 1 \in p + 1 .. Len(U) /\ q \in Int /\ Slot(nd, u, q - 1, c)
        <5>1. q \in 1 .. Len(t.ents) + 1 /\ ~(q <= p) /\ q # p + 1
          BY <4>2, <1>2, <1>6
        <5>2. md[u].ents[q] = t.ents[q - 1]
          BY Zenon, <5>1, <1>6
        <5> DEFINE r == q - 1
        <5>3. Slot(nd, u, r, c) /\ md[u].ents[q] = t.ents[r]
          BY <5>2, <4>2
        <5> HIDE DEF r
        <5> QED BY <5>3, <3>1, <2>2
      <4> QED BY <4>1, <4>2, <3>1, <2>4, <1>31
    <3>2. CASE b = s
      <4>1. q \in 1 .. m /\ Slot(nd, s, q, c)
        BY <3>2, <1>9
      <4>2. md[s].ents[q] = n.ents[q]
        BY <4>1, <1>5
      <4> QED BY <4>1, <4>2, <3>2, <2>2, <1>2
    <3>3. CASE b = f
      <4>1. q \in 1 .. Len(n.ents) - m /\ Slot(nd, s, m + q, c)
        BY <3>3, <1>9
      <4> DEFINE r == m + q
      <4>2. md[f].ents[q] = n.ents[r] /\ Slot(nd, s, r, c)
        BY Zenon, <4>1, <1>5
      <4> HIDE DEF r
      <4>3. md[c].ents # <<>> /\ md[c].ents[1].first = nd[s].ents[r].first
        BY <4>2, <2>2, <1>2
      <4> QED BY Zenon, <4>2, <4>3, <3>3
    <3>4. CASE b \in R \ {s, u}
      <4>1. Slot(nd, b, q, c)
        BY <3>4, <1>9
      <4>2. md[c].ents # <<>> /\ md[c].ents[1].first = nd[b].ents[q].first
        BY <4>1, <2>2, <3>4
      <4> QED BY <4>2, <3>4
    <3> QED BY <3>1, <3>2, <3>3, <3>4
  <2> QED BY <2>3, <2>4
<1>25. Slot(md, u, p, s)
  <2>1. p \in 1 .. p
    BY <1>2
  <2> QED BY <2>1, <1>9
<1>26. p + 1 \in 1 .. Len(md[u].ents) /\ md[u].ents[p + 1].first = k
  <2>1. p + 1 \in 1 .. Len(t.ents) + 1 /\ ~(p + 1 <= p)
    BY <1>2, <1>6
  <2> QED BY Zenon, <2>1, <1>6
<1>27. SameLookups(nd, md)
  BY <1>23 DEF SameLookups
<1> HIDE <1>01, <1>05
<1> QED BY <1>22, <1>24, <1>25, <1>26, <1>27 DEF SplitLeaves

(* Node s of md is the lower half of n, and n's children are nodes. *)
HalfKept(md, Q, s, n, m, k) ==
    /\ n.ents[m + 1].first = k
    /\ md[s] = [depth |-> n.depth, ents |-> SubSeq(n.ents, 1, m)]
    /\ n.depth > 0 => \A q \in 1 .. Len(n.ents) : n.ents[q].child \in Q \ {Root} /\ md[n.ents[q].child].depth = n.depth - 1

(* Until the upper half of a split node is cut off, the entries there are not
   searched. *)
LEMMA HalfDone ==
  ASSUME NEW md, NEW Q, Tree(md, Q), NEW u \in Q, NEW p, NEW s, NEW k, SplitLeaves(md, u, p, s, k),
         NEW n, Fit(s, n), NEW m \in 1 .. Len(n.ents) - 1, HalfKept(md, Q, s, n, m, k), NEW nd, Put(md, s, n, nd)
  PROVE  Shape(nd, Q) /\ SameLookups(md, nd)
<1>01. Slot(md, u, p, s) /\ p + 1 \in 1 .. Len(md[u].ents)
  BY DEF SplitLeaves
<1>02. md[u].ents[p + 1].first = k
  BY DEF SplitLeaves
<1>03. n.ents[m + 1].first = k
  BY DEF HalfKept
<1>04. md[s] = [depth |-> n.depth, ents |-> SubSeq(n.ents, 1, m)]
  BY DEF HalfKept
<1>05. n.depth > 0 => \A q \in 1 .. Len(n.ents) : n.ents[q].child \in Q \ {Root} /\ md[n.ents[q].child].depth = n.depth - 1
  BY DEF HalfKept
<1> USE <1>01, <1>02, <1>03, <1>04, <1>05
<1>1. Shape(md, Q) /\ Once(md, Q) /\ Q \in SUBSET Places /\ Root \in Q
  BY Zenon DEF Tree, Shape
<1>2. s \in Q /\ s # Root /\ ~ Ends(md[u]) /\ p \in 1 .. Len(md[u].ents) /\ Fit(u, md[u]) /\ Fit(s, md[s])
  BY <1>1, SlotIs, DepthIs
<1>3. nd \in [Places -> Nodes] /\ nd[s] = n /\ \A x \in Q : x # s => nd[x] = md[x]
  BY <1>1 DEF Put
<1> DEFINE lo == md[s]
           hi == [depth |-> n.depth, ents |-> SubSeq(n.ents, m + 1, Len(n.ents))]
<1>4. Halved(s, n, m, k, lo, hi)
  <2>1. Fit(s, n) /\ lo = [depth |-> n.depth, ents |-> SubSeq(n.ents, 1, m)] /\ m \in 1 .. Len(n.ents) - 1
        /\ k = n.ents[m + 1].first /\ hi = [depth |-> n.depth, ents |-> SubSeq(n.ents, m + 1, Len(n.ents))]
    OBVIOUS
  <2> HIDE DEF lo, hi
  <2> QED BY Zenon, <2>1, Halves
<1>5. /\ n.ents # <<>> /\ lo.ents # <<>> /\ lo.depth = n.depth /\ k \in LBlocks
      /\ \A q \in 1 .. m : q \in 1 .. Len(n.ents) /\ lo.ents[q] = n.ents[q]
      /\ \A l \in Int : l < k => SearchPos(n.ents, l) \in 1 .. m /\ SearchPos(lo.ents, l) = SearchPos(n.ents, l)
  <2> HIDE DEF lo, hi
  <2> QED BY <1>4 DEF Halved
<1>6. \A x \in Q : nd[x].depth = md[x].depth
  BY Zenon, <1>3, <1>5
<1>7. Shape(nd, Q)
  <2>1. \A x \in Q : Fit(x, nd[x])
    BY Zenon, <1>1, <1>3 DEF Shape
  <2>2. ASSUME NEW x \in Q, nd[x].depth > 0, NEW q \in 1 .. Len(nd[x].ents)
        PROVE  LET c == nd[x].ents[q].child IN c \in Q \ {Root} /\ nd[c].depth = nd[x].depth - 1
    <3>1. CASE x = s
      BY Zenon, <3>1, <2>2, <1>3, <1>6
    <3>2. CASE x # s
      <4>1. nd[x] = md[x]
        BY <3>2, <1>3
      <4>2. LET c == md[x].ents[q].child IN c \in Q \ {Root} /\ md[c].depth = md[x].depth - 1
        BY <4>1, <2>2, <1>1 DEF Shape
      <4> QED BY Zenon, <4>1, <4>2, <1>6
    <3> QED BY <3>1, <3>2
  <2> QED BY <1>1, <1>3, <2>1, <2>2 DEF Shape
<1>8. ASSUME NEW l \in LBlocks, On(md, l, s)
      PROVE  SearchPos(n.ents, l) = SearchPos(lo.ents, l) /\ SearchPos(lo.ents, l) \in 1 .. m
             /\ n.ents[SearchPos(n.ents, l)] = lo.ents[SearchPos(lo.ents, l)]
  <2>1. SearchPos(md[u].ents, l) = p
    BY <1>1, <1>8, SlotOn
  <2>2. l \in Int
    BY Width
  <2>3. l < k
    <3> DEFINE t == md[u]
               r == p + 1
    <3>1. Fit(u, t) /\ t.ents # <<>> /\ SearchPos(t.ents, l) = p
      BY <2>1, <1>2 DEF Ends
    <3>2. r \in p + 1 .. Len(t.ents) /\ t.ents[r].first = k
      BY <1>2
    <3> HIDE DEF t
    <3>3. At(t.ents, l, p)
      BY <2>2, <3>1, SearchIs
    <3> HIDE DEF r
    <3> QED BY <3>2, <3>3 DEF At
  <2> HIDE DEF lo
  <2>4. SearchPos(n.ents, l) \in 1 .. m /\ SearchPos(lo.ents, l) = SearchPos(n.ents, l)
    BY <2>2, <2>3, <1>5
  <2> QED BY <2>4, <1>5
<1>9. ASSUME NEW l \in LBlocks, NEW b, On(md, l, b)
      PROVE  (Ends(nd[b]) <=> Ends(md[b])) /\ (~ Ends(md[b]) => Toward(nd, b, l) = Toward(md, b, l))
             /\ Answer(nd[b], l) = Answer(md[b], l)
  <2>1. b \in Q
    BY <1>1, <1>9, OnIs
  <2>2. CASE b # s
    <3>1. nd[b] = md[b]
      BY <2>1, <2>2, <1>3
    <3> QED BY <3>1 DEF Ends, Toward
  <2>3. CASE b = s
    <3>1. nd[b] = n /\ md[b] = lo
      BY <2>3, <1>3
    <3> HIDE DEF lo
    <3>2. SearchPos(n.ents, l) = SearchPos(lo.ents, l) /\ n.ents[SearchPos(n.ents, l)] = lo.ents[SearchPos(lo.ents, l)]
      BY <2>3, <1>8, <1>9
    <3> QED BY <3>1, <3>2, <1>5 DEF Ends, Toward, Answer
  <2> QED BY <2>2, <2>3
<1>10. ASSUME NEW l \in LBlocks PROVE Lookup(nd, l) = Lookup(md, l)
  <2>1. \A b : On(md, l, b) => On(nd, l, b)
    BY <1>1, <1>7, <1>9, Follow
  <2> DEFINE d == Landing(md, l)
  <2>2. On(md, l, d) /\ Ends(md[d])
    BY <1>1, OnIs
  <2>3. On(nd, l, d) /\ Ends(nd[d])
    BY <2>1, <2>2, <1>9
  <2>4. Landing(nd, l) = d
    BY <2>3, <1>7, OnIs
  <2>5. Answer(nd[d], l) = Answer(md[d], l)
    BY <2>2, <1>9
  <2> QED BY <2>4, <2>5, <1>1, <1>7, LookupIs
<1>11. SameLookups(md, nd)
  BY <1>10 DEF SameLookups
<1> QED BY <1>7, <1>11

-----------------------------------------------------------------------------
(* Separators are corrected. *)

(* t is n with entry i, which has key k and child c, in place p. *)
Replaced(b, n, p, k, c, i, t) ==
    /\ Fit(b, t) /\ t.depth = n.depth /\ Len(t.ents) = Len(n.ents) /\ t.ents # <<>> /\ n.ents # <<>>
    /\ \A q \in 1 .. Len(n.ents) : t.ents[q] = IF q = p THEN i ELSE n.ents[q]
    /\ i.first = k /\ i.child = c
    /\ \A l \in Int : SearchPos(n.ents, l) # p => SearchPos(t.ents, l) = SearchPos(n.ents, l)
    /\ \A l \in Int : SearchPos(n.ents, l) = p /\ (p = 1 \/ k <= l) => SearchPos(t.ents, l) = p

(* The separator of entry p becomes k, which is searched for there. *)
LEMMA IndexFix ==
  ASSUME NEW b, NEW n, Fit(b, n), n.depth # 0, NEW p \in 1 .. Len(n.ents), NEW c \in Blocks,
         NEW k \in LBlocks, SearchPos(n.ents, k) = p, NEW i, i = [first |-> k, child |-> c],
         NEW t, t = [depth |-> n.depth, ents |-> [n.ents EXCEPT ![p] = i]]
  PROVE  Replaced(b, n, p, k, c, i, t)
<1> DEFINE E == n.ents
           N == Len(E)
           T == t.ents
<1>1. N \in Nat /\ E # <<>> /\ p \in 1 .. N /\ E \in Seq(Indexes) /\ n.depth \in 1 .. MaxDepth
  BY NodeIs, EntryIs
<1>2. i \in Indexes /\ i.first = k /\ i.child = c
  BY DEF Indexes
<1>3. t.depth = n.depth /\ T = [E EXCEPT ![p] = i]
  OBVIOUS
<1>4. T \in Seq(Indexes) /\ Len(T) = N /\ \A q \in 1 .. N : T[q] = IF q = p THEN i ELSE E[q]
  <2> HIDE DEF T, E
  <2> QED BY <1>1, <1>2, <1>3 DEF E
<1>5. \A q \in 1 .. N : E[q].first \in Int
  <2> SUFFICES ASSUME NEW q \in 1 .. N PROVE E[q].first \in Int
    OBVIOUS
  <2>1. E[q].first \in LBlocks
    BY Zenon, EntryIs
  <2> QED BY <2>1, Width
<1>6. k \in Int
  BY Width
<1>7. Keyed(E)
  BY DEF Fit
<1>8. T # <<>>
  <2> HIDE DEF T, N
  <2> QED BY <1>1, <1>4, EmptySeq
<1>9. At(E, k, p)
  BY <1>1, <1>6, SearchIs
<1>10. \A q \in 1 .. N : (q < p => E[q].first < k) /\ (p < q => k < E[q].first)
  <2> SUFFICES ASSUME NEW q \in 1 .. N PROVE (q < p => E[q].first < k) /\ (p < q => k < E[q].first)
    OBVIOUS
  <2>1. CASE q < p
    <3>1. E[q].first < E[p].first
      BY <1>1, <1>7, <2>1 DEF Keyed
    <3>2. E[p].first <= k
      BY <1>1, <1>9, <2>1 DEF At
    <3>3. E[q].first \in Int /\ E[p].first \in Int
      BY <1>1, <1>5
    <3> HIDE DEF E
    <3>4. E[q].first < k /\ ~ (p < q)
      BY <3>1, <3>2, <3>3, <1>1, <1>6, <2>1
    <3> QED BY <3>4
  <2>2. CASE p < q
    <3>1. q \in p + 1 .. Len(E)
      BY <2>2, <1>1
    <3>2. k < E[q].first
      BY <3>1, <1>9 DEF At
    <3>3. ~ (q < p)
      BY <2>2, <1>1
    <3> QED BY <3>2, <3>3
  <2> QED BY <2>1, <2>2
<1>11. Keyed(T)
  <2> SUFFICES ASSUME NEW q \in 1 .. N, NEW r \in 1 .. N, q < r PROVE T[q].first < T[r].first
    BY <1>4 DEF Keyed
  <2> HIDE DEF T
  <2>1. CASE q = p
    <3>1. p < r /\ r # p
      BY <2>1, <1>1
    <3>2. T[q] = i
      BY <2>1, <1>4
    <3>3. T[r] = E[r]
      BY <3>1, <1>4
    <3> QED BY <3>1, <3>2, <3>3, <1>2, <1>10
  <2>2. CASE r = p
    <3>1. q < p /\ q # p
      BY <2>2, <1>1
    <3>2. T[r] = i
      BY <2>2, <1>4
    <3>3. T[q] = E[q]
      BY <3>1, <1>4
    <3> QED BY <3>1, <3>2, <3>3, <1>2, <1>10
  <2>3. CASE q # p /\ r # p
    <3>1. T[q] = E[q] /\ T[r] = E[r]
      BY <2>3, <1>4
    <3> QED BY <3>1, <1>7 DEF Keyed
  <2> QED BY <2>1, <2>2, <2>3
<1>12. Fit(b, t)
  <2>1. Len(T) <= MaxEntries(b)
    BY <1>4 DEF Fit
  <2>2. t \in Inner /\ t.depth # 0
    BY <1>1, <1>3, <1>4 DEF Inner
  <2> QED BY <2>1, <2>2, <1>11 DEF Fit
<1>13. ASSUME NEW l \in Int, SearchPos(E, l) # p PROVE SearchPos(T, l) = SearchPos(E, l)
  <2> DEFINE s == SearchPos(E, l)
  <2>1. At(E, l, s)
    BY <1>1, SearchIs
  <2>2. s # p
    BY <1>13
  <2> HIDE DEF s, T, N
  <2>3. s \in 1 .. N /\ (s = 1 \/ E[s].first <= l) /\ \A q \in s + 1 .. N : l < E[q].first
    BY <2>1 DEF At, N
  <2>4. T[s] = E[s]
    BY <2>2, <2>3, <1>4
  <2>5. ASSUME NEW q \in s + 1 .. N PROVE l < T[q].first
    <3>0. q \in 1 .. N
      BY <2>3, <1>1
    <3>1. CASE q = p
      <4>1. l < E[p].first /\ s < p /\ p # 1
        BY <3>1, <2>3, <1>1
      <4>2. E[p].first <= k
        BY <4>1, <1>9 DEF At
      <4>3. E[p].first \in Int
        BY <1>1, <1>5
      <4> HIDE DEF E
      <4>4. l < k
        BY <4>1, <4>2, <4>3, <1>6
      <4> QED BY <3>0, <3>1, <4>4, <1>2, <1>4
    <3>2. CASE q # p
      BY Zenon, <3>0, <3>2, <2>3, <1>4
    <3> QED BY <3>1, <3>2
  <2>6. At(T, l, s)
    BY <2>3, <2>4, <2>5, <1>4 DEF At
  <2>7. SearchPos(T, l) = s
    BY Zenon, <2>6, <1>8, <1>12, SearchIs DEF T
  <2> QED BY <2>7 DEF s
<1>14. ASSUME NEW l \in Int, SearchPos(E, l) = p, p = 1 \/ k <= l PROVE SearchPos(T, l) = p
  <2>1. At(E, l, p)
    BY <1>1, <1>14, SearchIs
  <2> HIDE DEF T, N
  <2>2. \A q \in p + 1 .. N : l < E[q].first
    BY <2>1 DEF At, N
  <2>3. T[p] = i
    BY <1>1, <1>4
  <2>4. \A q \in p + 1 .. N : T[q] = E[q]
    BY <1>1, <1>4
  <2>5. At(T, l, p)
    BY <2>2, <2>3, <2>4, <1>1, <1>2, <1>4, <1>14 DEF At
  <2> QED BY Zenon, <2>5, <1>8, <1>12, SearchIs DEF T
<1> QED BY Zenon, <1>1, <1>2, <1>4, <1>8, <1>12, <1>13, <1>14 DEF Replaced

(* k is the first key in block c. *)
Heads(nd, c, k) == nd[c].ents # <<>> /\ nd[c].ents[1].first = k

(* The parent's node once its entry p is corrected. *)
FixedAt(n, p, k, c) == [depth |-> n.depth, ents |-> [n.ents EXCEPT ![p] = [first |-> k, child |-> c]]]
Fixed(nd, u, p, k, c, t) == t = FixedAt(nd[u], p, k, c)

(* The separator of c becomes c's first key: blocks below that key, if they
   went to c, now go to its left neighbour. *)
LEMMA FixTree ==
  ASSUME NEW nd, NEW R, Tree(nd, R), NEW u \in R, NEW p, NEW c, Slot(nd, u, p, c), Neat(nd, R, {c}), NEW k, Heads(nd, c, k),
         NEW t1, Fixed(nd, u, p, k, c, t1), NEW md, Put(nd, u, t1, md)
  PROVE  /\ Tree(md, R) /\ SameLookups(nd, md)
         /\ Neat(md, R, {u}) /\ (p # 1 => Neat(md, R, {}))
         /\ md[u].ents # <<>> /\ (p = 1 => Heads(md, u, k))
<1> DEFINE t == nd[u]
           i == [first |-> k, child |-> c]
           Reg == Region(nd, R)
           D == IF p > 1 THEN {l \in Reg[c] : l < k} ELSE {}
           g == [b \in R |-> IF nd[b].depth <= nd[c].depth THEN Reg[b] \ D ELSE Reg[b]]
<1>0. nd[c].ents # <<>> /\ k = nd[c].ents[1].first
  BY DEF Heads
<1>1. Shape(nd, R) /\ Hung(nd, R) /\ Once(nd, R) /\ R \in SUBSET Places /\ Root \in R
  BY DEF Tree, Shape
<1>2. /\ c \in R /\ c # Root /\ c # u /\ ~ Ends(t) /\ p \in 1 .. Len(t.ents) /\ c \in Blocks /\ t.depth # 0
      /\ t.depth \in 1 .. MaxDepth /\ nd[c].depth = t.depth - 1 /\ nd[c].depth < t.depth /\ t.ents # <<>>
  <2>1. c \in R /\ c # Root /\ nd[c].depth = nd[u].depth - 1 /\ nd[c].depth < nd[u].depth /\ c \in Blocks
        /\ ~ Ends(nd[u]) /\ nd[u].depth \in 1 .. MaxDepth /\ p \in 1 .. Len(nd[u].ents)
    BY <1>1, SlotIs
  <2>2. c # u
    BY <2>1, <1>1, DepthIs
  <2> QED BY <2>1, <2>2 DEF Ends
<1>3. Fit(u, t) /\ Fit(c, nd[c]) /\ Len(nd[c].ents) \in Nat /\ \A b \in R : nd[b].depth \in Nat
  BY <1>1, <1>2, DepthIs
<1> DEFINE one == 1
<1>4. one \in 1 .. Len(nd[c].ents) /\ k = nd[c].ents[one].first
  <2>1. Len(nd[c].ents) # 0
    BY <1>0, <1>1, <1>2, DepthIs
  <2> QED BY <1>0, <2>1, <1>3
<1>5. k \in Keys(nd[c], one)
  <2> DEFINE n == nd[c]
             e == n.ents[one]
  <2>1. CASE n.depth = 0
    <3>0. Fit(c, n) /\ one \in 1 .. Len(n.ents) /\ n.depth = 0
      BY <1>3, <1>4, <2>1
    <3> HIDE DEF n, one
    <3>1. e.len \in 1 .. MaxLen /\ End64(e) = e.first + e.len /\ e.first \in LBlocks
      BY Zenon, <3>0, EntryIs
    <3>2. e.first \in Int /\ MaxLen \in Nat
      BY <3>1, Width, SizeAssumption
    <3>3. k = e.first
      BY <1>4 DEF n
    <3> HIDE DEF e
    <3>4. k \in e.first .. End64(e) - 1
      BY <3>1, <3>2, <3>3
    <3>5. Keys(n, one) = e.first .. End64(e) - 1
      BY <3>0 DEF Keys, e
    <3> QED BY <3>4, <3>5 DEF n
  <2>2. CASE n.depth # 0
    BY <2>2, <1>4 DEF Keys
  <2> QED BY <2>1, <2>2
<1> HIDE DEF one
<1>6. k \in LBlocks /\ On(nd, k, c)
  BY <1>2, <1>4, <1>5, KeyOn
<1>7. On(nd, k, u) /\ SearchPos(t.ents, k) = p
  BY <1>1, <1>6, SlotOn
<1>8. k \in Int
  BY <1>6, Width
<1>9. md \in [Places -> Nodes] /\ md[u] = [depth |-> t.depth, ents |-> [t.ents EXCEPT ![p] = i]]
      /\ \A x \in R : x # u => md[x] = nd[x]
  BY <1>1 DEF Put, FixedAt, Fixed
<1>10. /\ Fit(u, md[u]) /\ md[u].depth = t.depth /\ Len(md[u].ents) = Len(t.ents) /\ md[u].ents # <<>>
       /\ \A q \in 1 .. Len(t.ents) : md[u].ents[q] = IF q = p THEN i ELSE t.ents[q]
       /\ i.first = k /\ i.child = c
       /\ \A l \in Int : SearchPos(t.ents, l) # p => SearchPos(md[u].ents, l) = SearchPos(t.ents, l)
       /\ \A l \in Int : SearchPos(t.ents, l) = p /\ (p = 1 \/ k <= l) => SearchPos(md[u].ents, l) = p
  <2> DEFINE x == md[u]
  <2>1. /\ Fit(u, t) /\ t.depth # 0 /\ p \in 1 .. Len(t.ents) /\ c \in Blocks /\ k \in LBlocks /\ SearchPos(t.ents, k) = p
        /\ x = [depth |-> t.depth, ents |-> [t.ents EXCEPT ![p] = i]]
    BY <1>2, <1>3, <1>6, <1>7, <1>9
  <2>2. i = [first |-> k, child |-> c]
    OBVIOUS
  <2> HIDE DEF x, t, i
  <2>3. Replaced(u, t, p, k, c, i, x)
    BY <2>1, <2>2, IndexFix
  <2> QED BY <2>3 DEF x, Replaced
<1> HIDE DEF i
<1>11. \A b \in R : \A q, z : Slot(md, b, q, z) <=> Slot(nd, b, q, z)
  <2> SUFFICES ASSUME NEW b \in R, NEW q, NEW z PROVE Slot(md, b, q, z) <=> Slot(nd, b, q, z)
    OBVIOUS
  <2>1. CASE b = u
    <3>1. t.ents[p].child = c
      BY DEF Slot
    <3>2. \A r \in 1 .. Len(t.ents) : md[u].ents[r].child = t.ents[r].child
      BY <3>1, <1>10
    <3> QED BY Zenon, <3>2, <2>1, <1>10 DEF Slot
  <2>2. CASE b # u
    BY <2>2, <1>9 DEF Slot
  <2> QED BY <2>1, <2>2
<1>12. \A x \in R : md[x].depth = nd[x].depth
  BY <1>9, <1>10
<1>13. \A b \in R : \A q, z : Slot(nd, b, q, z) => z \in R \ {Root} /\ nd[z].depth = nd[b].depth - 1 /\ q \in 1 .. Len(nd[b].ents)
  BY <1>1, SlotIs
<1>14. Shape(md, R)
  <2>1. \A x \in R : Fit(x, md[x])
    BY Zenon, <1>1, <1>9, <1>10 DEF Shape
  <2>2. ASSUME NEW x \in R, md[x].depth > 0, NEW q \in 1 .. Len(md[x].ents)
        PROVE  md[x].ents[q].child \in R \ {Root} /\ md[md[x].ents[q].child].depth = md[x].depth - 1
    <3> DEFINE z == md[x].ents[q].child
    <3>1. Slot(md, x, q, z)
      BY <2>2 DEF Slot
    <3> HIDE DEF z
    <3>2. z \in R \ {Root} /\ nd[z].depth = nd[x].depth - 1
      BY <3>1, <1>11, <1>13
    <3> QED BY <3>2, <1>12 DEF z
  <2> QED BY <1>1, <1>9, <2>1, <2>2 DEF Shape
<1>15. Hung(md, R)
  <2> SUFFICES ASSUME NEW z \in R \ {Root} PROVE \E x \in R : \E q \in 1 .. Len(md[x].ents) : Slot(md, x, q, z)
    BY DEF Hung
  <2>1. PICK x \in R : \E q \in 1 .. Len(nd[x].ents) : Slot(nd, x, q, z)
    BY <1>1 DEF Hung
  <2>2. PICK q : Slot(nd, x, q, z)
    BY <2>1
  <2>3. Slot(md, x, q, z)
    BY <1>11, <2>2
  <2> QED BY <2>3 DEF Slot
<1>16. Once(md, R)
  <2> SUFFICES ASSUME NEW x \in R, NEW y \in R, NEW a \in 1 .. Len(md[x].ents), NEW q \in 1 .. Len(md[y].ents), NEW z \in R,
                      Slot(md, x, a, z), Slot(md, y, q, z)
               PROVE  x = y /\ a = q
    BY DEF Once
  <2>1. Slot(nd, x, a, z) /\ Slot(nd, y, q, z)
    BY <1>11
  <2>2. a \in 1 .. Len(nd[x].ents) /\ q \in 1 .. Len(nd[y].ents)
    BY <2>1 DEF Slot
  <2> QED BY <1>1, <2>1, <2>2 DEF Once
<1>17. Reg \in [R -> SUBSET LBlocks] /\ Nested(nd, R, Reg)
  BY <1>1, RegionNested
<1>18. \A b \in R : \A q, z : Slot(nd, b, q, z) => \A l \in Reg[z] : l \in Reg[b] /\ SearchPos(nd[b].ents, l) = q /\ l \in LBlocks /\ l \in Int
  <2> HIDE DEF Reg
  <2> SUFFICES ASSUME NEW b \in R, NEW q, NEW z, Slot(nd, b, q, z), NEW l \in Reg[z]
               PROVE  l \in Reg[b] /\ SearchPos(nd[b].ents, l) = q /\ l \in LBlocks /\ l \in Int
    OBVIOUS
  <2>1. z \in R /\ q \in 1 .. Len(nd[b].ents)
    BY <1>13
  <2>2. l \in LBlocks
    BY <2>1, <1>17
  <2> QED BY <2>1, <2>2, <1>17, Width DEF Nested
<1>19. /\ g \in [R -> SUBSET LBlocks]
       /\ \A b \in R : g[b] \subseteq Reg[b] /\ (nd[b].depth <= nd[c].depth => g[b] = Reg[b] \ D)
                       /\ (~(nd[b].depth <= nd[c].depth) => g[b] = Reg[b])
  <2> HIDE DEF Reg, D
  <2> QED BY <1>17
<1>20. g[u] = Reg[u]
  <2>1. ~(nd[u].depth <= nd[c].depth)
    BY <1>2, <1>3
  <2> HIDE DEF g, Reg, D
  <2> QED BY <2>1, <1>19
<1>21. \A l : l \in D <=> p > 1 /\ l \in Reg[c] /\ l < k
  OBVIOUS
<1> HIDE DEF g, D
<1>22. ASSUME NEW b \in R, NEW q \in 1 .. Len(nd[b].ents), NEW l \in Keys(nd[b], q)
       PROVE  l \in LBlocks /\ l \in Reg[b] /\ (nd[b].depth <= nd[c].depth => l \notin D)
  <2>1. l \in LBlocks /\ On(nd, l, b)
    BY <1>22, KeyOn
  <2>2. l \in Reg[b]
    BY <2>1 DEF Region
  <2>3. ASSUME nd[b].depth <= nd[c].depth, l \in D PROVE FALSE
    <3>1. On(nd, l, c) /\ l < k
      BY <2>3, <1>2, <1>21 DEF Region
    <3>2. l <= nd[c].ents[1].first /\ l \in Int
      <4>1. l \in Int
        BY <2>1, Width
      <4> QED BY <1>0, <4>1, <3>1, <1>8
    <3> DEFINE X == {c}
    <3>3. X \subseteq {c} /\ Neat(nd, R, X)
      OBVIOUS
    <3> HIDE DEF X
    <3>4. nd[b].ents # <<>> /\ nd[b].ents[1].first = nd[c].ents[1].first
      BY <1>0, <2>1, <2>3, <3>1, <3>2, <3>3, <1>1, <1>2, Spine
    <3>5. Fit(b, nd[b]) /\ Len(nd[b].ents) \in Nat
      BY <1>1, DepthIs
    <3>6. nd[b].ents[q].first <= l
      BY <3>5, KeysAt, <1>22
    <3>7. nd[b].ents[q].first \in Int /\ nd[b].ents[one].first \in Int /\ nd[b].ents[one].first = k
      <4>1. one \in 1 .. Len(nd[b].ents)
        BY <3>5 DEF one
      <4>2. nd[b].ents[q].first \in LBlocks /\ nd[b].ents[one].first \in LBlocks
        BY Zenon, <4>1, <3>5, EntryIs
      <4>3. nd[b].ents[one].first = k
        BY <1>0, <3>4 DEF one
      <4> QED BY <4>2, <4>3, Width
    <3>8. q = one \/ nd[b].ents[one].first < nd[b].ents[q].first
      <4>1. q = one \/ one < q
        BY <3>5 DEF one
      <4>2. one \in 1 .. Len(nd[b].ents)
        BY <3>5 DEF one
      <4> QED BY <4>1, <4>2, <3>5 DEF Fit, Keyed
    <3> QED BY <3>1, <3>2, <3>6, <3>7, <3>8
  <2> QED BY <2>1, <2>2, <2>3
<1>23. Routed(md, R, g)
  <2> SUFFICES ASSUME NEW b \in R, NEW q \in 1 .. Len(md[b].ents), NEW l \in Keys(md[b], q) PROVE l \in g[b]
    BY DEF Routed
  <2>1. CASE b = u /\ q = p
    <3>1. l = k
      BY <2>1, <1>2, <1>10 DEF Keys
    <3>2. k \in Reg[u]
      BY <1>6, <1>7 DEF Region
    <3> QED BY <3>1, <3>2, <2>1, <1>20
  <2>2. CASE ~(b = u /\ q = p)
    <3>1. q \in 1 .. Len(nd[b].ents) /\ l \in Keys(nd[b], q)
      <4>1. CASE b = u
        <5>1. q \in 1 .. Len(t.ents) /\ md[u].ents[q] = t.ents[q] /\ md[u].depth # 0
          BY <4>1, <2>2, <1>2, <1>10
        <5> QED BY Zenon, <5>1, <4>1, <1>2 DEF Keys
      <4>2. CASE b # u
        BY <4>2, <1>9
      <4> QED BY <4>1, <4>2
    <3>2. l \in Reg[b] /\ (nd[b].depth <= nd[c].depth => l \notin D)
      BY <3>1, <1>22
    <3> HIDE DEF Reg
    <3> QED BY <3>2, <1>19
  <2> QED BY <2>1, <2>2
<1> HIDE DEF Reg
<1>24. ASSUME NEW q, Slot(nd, u, q, c) PROVE q = p
  <2>1. q \in 1 .. Len(nd[u].ents)
    BY <1>13, <1>24
  <2> QED BY <2>1, <1>1, <1>2, <1>24 DEF Once
<1>25. ASSUME NEW b \in R, NEW q, Slot(nd, b, q, c) PROVE b = u
  <2>1. q \in 1 .. Len(nd[b].ents)
    BY <1>13, <1>25
  <2> QED BY <2>1, <1>1, <1>2, <1>25 DEF Once
<1>26. Nested(md, R, g)
  <2> SUFFICES ASSUME NEW b \in R, NEW q \in 1 .. Len(md[b].ents), NEW z \in R, Slot(md, b, q, z), NEW l \in g[z]
               PROVE  l \in g[b] /\ SearchPos(md[b].ents, l) = q
    BY DEF Nested
  <2>1. Slot(nd, b, q, z)
    BY <1>11
  <2>2. z \in R \ {Root} /\ nd[z].depth = nd[b].depth - 1
    BY <2>1, <1>13
  <2>3. l \in Reg[z]
    BY <2>2, <1>19
  <2>4. l \in Reg[b] /\ SearchPos(nd[b].ents, l) = q /\ l \in Int
    BY <2>1, <2>3, <1>18
  <2>5. CASE b = u /\ q = p
    <3>1. z = c
      BY <2>1, <2>5 DEF Slot
    <3>2. nd[c].depth <= nd[c].depth
      BY <1>2, <1>3
    <3>3. l \notin D
      BY <3>1, <3>2, <1>2, <1>19
    <3>4. p = 1 \/ k <= l
      <4> SUFFICES ASSUME p # 1, ~(k <= l) PROVE FALSE
        OBVIOUS
      <4>1. p > 1 /\ l < k
        BY <2>4, <1>2, <1>8
      <4> QED BY <4>1, <3>1, <3>3, <2>3, <1>21
    <3>5. SearchPos(t.ents, l) = p
      BY <2>4, <2>5
    <3>6. SearchPos(md[u].ents, l) = p
      BY <3>4, <3>5, <2>4, <1>10
    <3> QED BY <3>6, <2>4, <2>5, <1>20
  <2>6. CASE b = u /\ q # p
    <3>1. SearchPos(t.ents, l) # p
      BY <2>4, <2>6
    <3>2. SearchPos(md[u].ents, l) = SearchPos(t.ents, l)
      BY <3>1, <2>4, <1>10
    <3> QED BY <3>2, <2>4, <2>6, <1>20
  <2>7. CASE b # u
    <3>1. md[b] = nd[b]
      BY <2>7, <1>9
    <3>2. nd[b].depth <= nd[c].depth => nd[z].depth <= nd[c].depth
      <4>1. nd[z].depth = nd[b].depth - 1 /\ nd[b].depth \in Nat /\ nd[c].depth \in Nat
        BY <2>2, <1>2, <1>3
      <4> QED BY <4>1
    <3>3. nd[b].depth <= nd[c].depth => l \notin D
      BY <3>2, <2>2, <1>19
    <3> QED BY <3>1, <3>3, <2>4, <1>19
  <2> QED BY <2>5, <2>6, <2>7
<1>27. Tree(md, R)
  BY <1>14, <1>15, <1>16, <1>19, <1>23, <1>26, TreeByRegions
<1>28. ASSUME NEW l \in LBlocks PROVE Lookup(md, l) = Lookup(nd, l)
  <2>1. ASSUME NEW v, NEW b \in R
        PROVE (\E q \in 1 .. Len(md[b].ents) : md[b].depth = 0 /\ l \in Keys(md[b], q) /\ v = md[b].ents[q].start + (l - md[b].ents[q].first))
              <=> (\E q \in 1 .. Len(nd[b].ents) : nd[b].depth = 0 /\ l \in Keys(nd[b], q) /\ v = nd[b].ents[q].start + (l - nd[b].ents[q].first))
    <3>1. CASE b = u
      <4>1. md[b].depth # 0 /\ nd[b].depth # 0
        BY <3>1, <1>2, <1>10
      <4> QED BY <4>1
    <3>2. CASE b # u
      <4>1. md[b] = nd[b]
        BY <3>2, <1>9
      <4> QED BY <4>1
    <3> QED BY <3>1, <3>2
  <2>2. \A v : Maps(md, R, l, v) <=> Maps(nd, R, l, v)
    BY Zenon, <2>1 DEF Maps
  <2> QED BY <2>2, <1>27, SameMaps
<1>29. ASSUME NEW X, X = {u} \/ (X = {} /\ p # 1) PROVE Neat(md, R, X)
  <2> SUFFICES ASSUME NEW b \in R, NEW q \in 1 .. Len(md[b].ents), NEW z \in R \ X, Slot(md, b, q, z)
               PROVE  md[z].ents # <<>> /\ md[z].ents[1].first = md[b].ents[q].first
    BY DEF Neat
  <2>1. Slot(nd, b, q, z) /\ q \in 1 .. Len(nd[b].ents)
    BY <1>11, <1>13
  <2>2. CASE z = c
    <3>1. b = u /\ q = p
      BY <2>1, <2>2, <1>24, <1>25
    <3>2. md[c] = nd[c]
      BY <1>2, <1>9
    <3> QED BY Zenon, <1>0, <3>1, <3>2, <2>2, <1>2, <1>10
  <2>3. CASE z # c
    <3>1. nd[z].ents # <<>> /\ nd[z].ents[1].first = nd[b].ents[q].first
      BY <2>1, <2>3 DEF Neat
    <3>2. md[b].ents[q] = nd[b].ents[q]
      <4>1. CASE b = u
        <5>1. q # p
          BY <2>1, <2>3, <4>1 DEF Slot
        <5> QED BY <5>1, <4>1, <2>1, <1>10
      <4>2. CASE b # u
        BY <4>2, <1>9
      <4> QED BY <4>1, <4>2
    <3>3. md[z].ents # <<>> /\ md[z].ents[1].first = nd[z].ents[1].first
      <4>1. CASE z = u
        <5>1. p # 1
          BY <4>1, <1>29
        <5>2. 1 \in 1 .. Len(t.ents)
          BY <1>2
        <5>3. md[u].ents[1] = t.ents[1]
          BY <5>1, <5>2, <1>10
        <5> QED BY <5>3, <4>1, <1>10
      <4>2. CASE z # u
        BY <4>2, <3>1, <1>9
      <4> QED BY <4>1, <4>2
    <3> QED BY <3>1, <3>2, <3>3
  <2> QED BY <2>2, <2>3
<1>30. p = 1 => md[u].ents[1].first = k
  <2> SUFFICES ASSUME p = 1 PROVE md[u].ents[1].first = k
    OBVIOUS
  <2>1. md[u].ents[p] = i
    BY <1>2, <1>10
  <2> QED BY <2>1, <1>10
<1>31. md[u].ents # <<>>
  BY <1>10
<1> QED BY <1>27, <1>28, <1>29, <1>30, <1>31 DEF Heads, SameLookups

-----------------------------------------------------------------------------
(* Entries are dropped. *)

(* t is n without entry p. *)
Dropped(b, n, p, t) ==
    /\ Fit(b, t) /\ t.depth = n.depth /\ Len(t.ents) = Len(n.ents) - 1 /\ n.ents # <<>>
    /\ t.ents = <<>> <=> Len(n.ents) = 1
    /\ \A q \in 1 .. Len(n.ents) - 1 : t.ents[q] = IF q < p THEN n.ents[q] ELSE n.ents[q + 1]
    /\ \A l \in Int : SearchPos(n.ents, l) < p => SearchPos(t.ents, l) = SearchPos(n.ents, l)
    /\ \A l \in Int : SearchPos(n.ents, l) > p => SearchPos(t.ents, l) = SearchPos(n.ents, l) - 1

(* An index node loses entry p. *)
LEMMA IndexDrop ==
  ASSUME NEW b, NEW n, Fit(b, n), n.depth # 0, NEW p \in 1 .. Len(n.ents),
         NEW t, t = [depth |-> n.depth, ents |-> RemoveAt(n.ents, p)]
  PROVE  Dropped(b, n, p, t)
<1> DEFINE E == n.ents
           N == Len(E)
           T == t.ents
<1>1. N \in Nat /\ E # <<>> /\ p \in 1 .. N /\ E \in Seq(Indexes) /\ n.depth \in 1 .. MaxDepth /\ N >= 1
  BY NodeIs, EntryIs
<1>3. t.depth = n.depth /\ T = RemoveAt(E, p)
  OBVIOUS
<1>4. T \in Seq(Indexes) /\ Len(T) = N - 1 /\ \A q \in 1 .. N - 1 : T[q] = IF q < p THEN E[q] ELSE E[q + 1]
  <2>1. E \in Seq(Indexes) /\ p \in 1 .. Len(E)
    BY <1>1
  <2> HIDE DEF T, E, N
  <2>2. RemoveAt(E, p) \in Seq(Indexes) /\ Len(RemoveAt(E, p)) = Len(E) - 1
        /\ \A q \in 1 .. Len(E) - 1 : RemoveAt(E, p)[q] = IF q < p THEN E[q] ELSE E[q + 1]
    BY <2>1, RemoveAtIs
  <2> QED BY <1>3, <2>2 DEF T, E, N
<1>5. \A q \in 1 .. N : E[q].first \in Int
  <2> SUFFICES ASSUME NEW q \in 1 .. N PROVE E[q].first \in Int
    OBVIOUS
  <2>1. E[q].first \in LBlocks
    BY Zenon, EntryIs
  <2> QED BY <2>1, Width
<1>7. Keyed(E)
  BY DEF Fit
<1>8. T = <<>> <=> N = 1
  <2> HIDE DEF T, N
  <2> QED BY <1>1, <1>4, EmptySeq
<1>9. \A q \in 1 .. N - 1 : q \in 1 .. N /\ q + 1 \in 1 .. N
  BY <1>1
<1>11. Keyed(T)
  <2> SUFFICES ASSUME NEW q \in 1 .. N - 1, NEW r \in 1 .. N - 1, q < r PROVE T[q].first < T[r].first
    BY <1>4 DEF Keyed
  <2> HIDE DEF T
  <2> DEFINE a == IF q < p THEN q ELSE q + 1
             z == IF r < p THEN r ELSE r + 1
  <2>1. T[q] = E[a] /\ T[r] = E[z]
    BY <1>4
  <2>2. a \in 1 .. N /\ z \in 1 .. N /\ a < z
    BY <1>1
  <2> HIDE DEF a, z
  <2> QED BY <2>1, <2>2, <1>7 DEF Keyed
<1>12. Fit(b, t)
  <2>1. Len(T) <= MaxEntries(b)
    <3>1. N <= MaxEntries(b) /\ MaxEntries(b) \in Nat
      BY CapacityAssumption DEF Fit, MaxEntries
    <3> HIDE DEF T
    <3> QED BY <3>1, <1>1, <1>4
  <2>2. t \in Inner /\ t.depth # 0
    BY <1>1, <1>3, <1>4 DEF Inner
  <2> QED BY <2>1, <2>2, <1>11 DEF Fit
<1>13. ASSUME NEW l \in Int, SearchPos(E, l) < p PROVE SearchPos(T, l) = SearchPos(E, l)
  <2> DEFINE s == SearchPos(E, l)
  <2>1. At(E, l, s)
    BY <1>1, SearchIs
  <2>2. s < p
    BY <1>13
  <2> HIDE DEF s, T
  <2>3. s \in 1 .. N /\ (s = 1 \/ E[s].first <= l) /\ \A q \in s + 1 .. N : l < E[q].first
    BY <2>1 DEF At
  <2>4. s \in 1 .. N - 1
    BY <2>2, <2>3, <1>1
  <2>5. T[s] = E[s]
    BY <2>2, <2>4, <1>4
  <2>6. ASSUME NEW q \in s + 1 .. N - 1 PROVE l < T[q].first
    <3>1. q \in 1 .. N - 1 /\ q \in s + 1 .. N /\ q + 1 \in s + 1 .. N
      BY <2>4, <1>1
    <3> QED BY Zenon, <3>1, <2>3, <1>4
  <2>7. At(T, l, s)
    BY <2>3, <2>4, <2>5, <2>6, <1>4 DEF At
  <2>8. T # <<>>
    <3>1. N # 1
      <4>1. s \in 1 .. N - 1 /\ N \in Int
        BY <2>4, <1>1
      <4> HIDE DEF N
      <4> QED BY <4>1
    <3> QED BY <3>1, <1>8
  <2>9. SearchPos(T, l) = s
    BY Zenon, <2>7, <2>8, <1>12, SearchIs DEF T
  <2> QED BY <2>9 DEF s
<1>14. ASSUME NEW l \in Int, SearchPos(E, l) > p PROVE SearchPos(T, l) = SearchPos(E, l) - 1
  <2> DEFINE s == SearchPos(E, l)
             r == s - 1
  <2>1. At(E, l, s)
    BY <1>1, SearchIs
  <2>2. s > p
    BY <1>14
  <2> HIDE DEF s, T
  <2>3. s \in 1 .. N /\ (s = 1 \/ E[s].first <= l) /\ \A q \in s + 1 .. N : l < E[q].first
    BY <2>1 DEF At
  <2>4. r \in 1 .. N - 1 /\ s # 1 /\ ~(r < p) /\ r + 1 = s
    BY <2>2, <2>3, <1>1
  <2> HIDE DEF r
  <2>5. T[r] = E[s]
    BY <2>4, <1>4
  <2>6. ASSUME NEW q \in r + 1 .. N - 1 PROVE l < T[q].first
    <3>1. q \in 1 .. N - 1 /\ q + 1 \in s + 1 .. N /\ ~(q < p)
      BY <2>2, <2>3, <2>4, <1>1
    <3> QED BY Zenon, <3>1, <2>3, <1>4
  <2>7. At(T, l, r)
    BY <2>3, <2>4, <2>5, <2>6, <1>4 DEF At
  <2>8. T # <<>>
    <3>1. N # 1
      <4>1. r \in 1 .. N - 1 /\ N \in Int
        BY <2>4, <1>1
      <4> HIDE DEF N
      <4> QED BY <4>1
    <3> QED BY <3>1, <1>8
  <2>9. SearchPos(T, l) = r
    BY Zenon, <2>7, <2>8, <1>12, SearchIs DEF T
  <2> QED BY <2>9 DEF s, r
<1> QED BY <1>1, <1>4, <1>8, <1>12, <1>13, <1>14 DEF Dropped

(* A node without its entry p. *)
DroppedAt(n, p) == [depth |-> n.depth, ents |-> RemoveAt(n.ents, p)]
Drops(nd, u, p, t) == t = DroppedAt(nd[u], p)

(* An empty child is dropped. *)
LEMMA DropTree ==
  ASSUME NEW nd, NEW R, Tree(nd, R), NEW u \in R, NEW p, NEW c, Slot(nd, u, p, c), Neat(nd, R, {c}),
         nd[c].ents = <<>>, NEW t1, Drops(nd, u, p, t1), NEW md, Put(nd, u, t1, md)
  PROVE  /\ Tree(md, R \ {c}) /\ SameLookups(nd, md)
         /\ Neat(md, R \ {c}, {u}) /\ (p # 1 => Neat(md, R \ {c}, {}))
         /\ md[u].depth = nd[u].depth /\ (md[u].ents = <<>> => p = 1)
<1> DEFINE t == nd[u]
           Q == R \ {c}
           Reg == Region(nd, R)
           g == [b \in Q |-> Reg[b]]
<1>1. Shape(nd, R) /\ Hung(nd, R) /\ Once(nd, R) /\ R \in SUBSET Places /\ Root \in R
  BY DEF Tree, Shape
<1>2. /\ c \in R /\ c # Root /\ c # u /\ ~ Ends(t) /\ p \in 1 .. Len(t.ents) /\ c \in Blocks /\ t.depth # 0
      /\ t.depth \in 1 .. MaxDepth /\ Fit(u, t) /\ Len(t.ents) \in Nat
  <2>1. c \in R /\ c # Root /\ nd[c].depth = nd[u].depth - 1 /\ nd[c].depth < nd[u].depth /\ c \in Blocks
        /\ ~ Ends(nd[u]) /\ nd[u].depth \in 1 .. MaxDepth /\ p \in 1 .. Len(nd[u].ents)
    BY <1>1, SlotIs
  <2>2. c # u /\ Fit(u, t) /\ Len(t.ents) \in Nat
    BY <2>1, <1>1, DepthIs
  <2> QED BY <2>1, <2>2 DEF Ends
<1>3. md \in [Places -> Nodes] /\ md[u] = [depth |-> t.depth, ents |-> RemoveAt(t.ents, p)]
      /\ \A x \in R : x # u => md[x] = nd[x]
  BY <1>1 DEF Put, Drops, DroppedAt
<1>4. Dropped(u, t, p, md[u])
  <2> DEFINE x == md[u]
  <2>1. Fit(u, t) /\ t.depth # 0 /\ p \in 1 .. Len(t.ents) /\ x = [depth |-> t.depth, ents |-> RemoveAt(t.ents, p)]
    BY <1>2, <1>3
  <2> HIDE DEF x, t
  <2>2. Dropped(u, t, p, x)
    BY <2>1, IndexDrop
  <2> QED BY <2>2 DEF x
<1>5. /\ Fit(u, md[u]) /\ md[u].depth = t.depth /\ Len(md[u].ents) = Len(t.ents) - 1
      /\ md[u].ents = <<>> <=> Len(t.ents) = 1
      /\ \A q \in 1 .. Len(t.ents) - 1 : md[u].ents[q] = IF q < p THEN t.ents[q] ELSE t.ents[q + 1]
      /\ \A l \in Int : SearchPos(t.ents, l) < p => SearchPos(md[u].ents, l) = SearchPos(t.ents, l)
      /\ \A l \in Int : SearchPos(t.ents, l) > p => SearchPos(md[u].ents, l) = SearchPos(t.ents, l) - 1
  BY <1>4 DEF Dropped
<1>6. \A b \in R : \A q, z : Slot(nd, b, q, z) => z \in R \ {Root} /\ nd[z].depth = nd[b].depth - 1 /\ q \in 1 .. Len(nd[b].ents)
  BY <1>1, SlotIs
<1>7. Len(nd[c].ents) = 0 /\ \A q, z : ~ Slot(nd, c, q, z)
  BY <1>1, <1>2, DepthIs DEF Slot
<1>8. ASSUME NEW b \in R, NEW q, Slot(nd, b, q, c) PROVE b = u /\ q = p
  <2>1. q \in 1 .. Len(nd[b].ents)
    BY <1>6, <1>8
  <2> QED BY <2>1, <1>1, <1>2, <1>8 DEF Once
<1> DEFINE was(b, q) == IF b = u /\ ~(q < p) THEN q + 1 ELSE q
<1>9. ASSUME NEW b \in Q, NEW q, NEW z, Slot(md, b, q, z)
      PROVE  /\ Slot(nd, b, was(b, q), z) /\ z \in Q \ {Root} /\ nd[z].depth = nd[b].depth - 1
             /\ q \in 1 .. Len(md[b].ents) /\ was(b, q) \in 1 .. Len(nd[b].ents)
             /\ b = u => was(b, q) # p /\ q \in 1 .. Len(t.ents) - 1 /\ was(b, q) \in Int
             /\ md[b].ents[q] = nd[b].ents[was(b, q)]
  <2>1. q \in 1 .. Len(md[b].ents)
    BY <1>9 DEF Slot
  <2>2. CASE b = u
    <3>1. q \in 1 .. Len(t.ents) - 1
      BY <2>1, <2>2, <1>5
    <3>2. was(b, q) = IF q < p THEN q ELSE q + 1
      BY <2>2
    <3> DEFINE r == was(b, q)
    <3>3. r \in 1 .. Len(t.ents) /\ r # p /\ r \in Int
      BY <3>1, <3>2, <1>2
    <3>4. md[u].ents[q] = t.ents[r]
      BY <3>1, <3>2, <1>5
    <3> HIDE DEF r
    <3>5. Slot(nd, u, r, z)
      BY <3>3, <3>4, <2>2, <1>2, <1>5, <1>9 DEF Slot
    <3>6. z # c
      BY <3>3, <3>5, <1>8
    <3>7. z \in Q \ {Root} /\ nd[z].depth = nd[u].depth - 1
      BY <3>5, <3>6, <1>6
    <3> QED BY <2>1, <2>2, <3>1, <3>3, <3>4, <3>5, <3>7 DEF r
  <2>3. CASE b # u
    <3>1. was(b, q) = q
      BY <2>3
    <3>2. md[b] = nd[b]
      BY <2>3, <1>3
    <3>3. Slot(nd, b, q, z)
      BY <3>2, <1>9 DEF Slot
    <3>4. z # c
      BY <3>3, <2>3, <1>8
    <3>5. z \in Q \ {Root} /\ nd[z].depth = nd[b].depth - 1
      BY <3>3, <3>4, <1>6
    <3> HIDE DEF was
    <3> QED BY <2>1, <2>3, <3>1, <3>2, <3>3, <3>5
  <2> QED BY <2>2, <2>3
<1>10. ASSUME NEW b \in R, NEW q, NEW z, Slot(nd, b, q, z), z # c PROVE b \in Q /\ \E r : Slot(md, b, r, z)
  <2>1. b \in Q
    BY <1>7, <1>10
  <2>2. CASE b = u
    <3>1. q # p
      BY <2>2, <1>10 DEF Slot
    <3>2. q \in 1 .. Len(t.ents)
      BY <2>2, <1>6, <1>10
    <3> DEFINE r == IF q < p THEN q ELSE q - 1
    <3>3. r \in 1 .. Len(t.ents) - 1 /\ q = (IF r < p THEN r ELSE r + 1)
      BY <3>1, <3>2, <1>2
    <3> HIDE DEF r
    <3>4. md[u].ents[r] = t.ents[q]
      BY <3>3, <1>5
    <3>5. Slot(md, u, r, z)
      BY <3>3, <3>4, <2>2, <1>5, <1>10 DEF Slot
    <3> QED BY <3>5, <2>1, <2>2
  <2>3. CASE b # u
    <3>1. Slot(md, b, q, z)
      BY <2>3, <1>3, <1>10 DEF Slot
    <3> QED BY <3>1, <2>1
  <2> QED BY <2>2, <2>3
<1>11. \A x \in R : md[x].depth = nd[x].depth
  BY <1>3, <1>5
<1> HIDE DEF was
<1>12. Shape(md, Q)
  <2>1. \A x \in Q : Fit(x, md[x])
    BY <1>1, <1>3, <1>5 DEF Shape
  <2>2. ASSUME NEW x \in Q, md[x].depth > 0, NEW q \in 1 .. Len(md[x].ents)
        PROVE  md[x].ents[q].child \in Q \ {Root} /\ md[md[x].ents[q].child].depth = md[x].depth - 1
    <3> DEFINE z == md[x].ents[q].child
    <3>1. Slot(md, x, q, z)
      BY <2>2 DEF Slot
    <3> HIDE DEF z
    <3>2. z \in Q \ {Root} /\ nd[z].depth = nd[x].depth - 1
      BY <3>1, <1>9
    <3> QED BY Zenon, <3>2, <1>11 DEF z
  <2> QED BY <1>1, <1>2, <1>3, <2>1, <2>2 DEF Shape
<1>13. Hung(md, Q)
  <2> SUFFICES ASSUME NEW z \in Q \ {Root} PROVE \E x \in Q : \E q \in 1 .. Len(md[x].ents) : Slot(md, x, q, z)
    BY DEF Hung
  <2>1. PICK x \in R : \E q \in 1 .. Len(nd[x].ents) : Slot(nd, x, q, z)
    BY <1>1 DEF Hung
  <2>2. PICK q : Slot(nd, x, q, z)
    BY <2>1
  <2>3. x \in Q /\ \E r : Slot(md, x, r, z)
    BY <1>10, <2>2
  <2> QED BY <2>3 DEF Slot
<1>14. Once(md, Q)
  <2> SUFFICES ASSUME NEW x \in Q, NEW y \in Q, NEW a \in 1 .. Len(md[x].ents), NEW q \in 1 .. Len(md[y].ents), NEW z \in Q,
                      Slot(md, x, a, z), Slot(md, y, q, z)
               PROVE  x = y /\ a = q
    BY DEF Once
  <2> DEFINE a0 == was(x, a)
             q0 == was(y, q)
  <2>1. Slot(nd, x, a0, z) /\ Slot(nd, y, q0, z) /\ a0 \in 1 .. Len(nd[x].ents) /\ q0 \in 1 .. Len(nd[y].ents)
    BY <1>9
  <2>2. x = y /\ a0 = q0
    <3> HIDE DEF a0, q0
    <3> QED BY <2>1, <1>1 DEF Once
  <2>3. CASE x = u
    <3>1. a \in 1 .. Len(t.ents) - 1 /\ q \in 1 .. Len(t.ents) - 1
      BY <2>2, <2>3, <1>9
    <3>2. /\ a < p => a0 = a
          /\ ~(a < p) => a0 = a + 1
          /\ q < p => q0 = q
          /\ ~(q < p) => q0 = q + 1
      BY <2>2, <2>3 DEF was
    <3>3. a \in Int /\ q \in Int /\ p \in Int
      BY <3>1, <1>2
    <3> HIDE DEF a0, q0
    <3>4. a = q
      <4>1. a0 = q0
        BY <2>2
      <4> QED BY <4>1, <3>2, <3>3
    <3> QED BY <2>2, <3>4
  <2>4. CASE x # u
    BY <2>2, <2>4 DEF was
  <2> QED BY <2>3, <2>4
<1>15. Reg \in [R -> SUBSET LBlocks] /\ Nested(nd, R, Reg)
  BY <1>1, RegionNested
<1>16. \A b \in R : \A q, z : Slot(nd, b, q, z) => \A l \in Reg[z] : l \in Reg[b] /\ SearchPos(nd[b].ents, l) = q /\ l \in LBlocks /\ l \in Int
  <2> HIDE DEF Reg
  <2> SUFFICES ASSUME NEW b \in R, NEW q, NEW z, Slot(nd, b, q, z), NEW l \in Reg[z]
               PROVE  l \in Reg[b] /\ SearchPos(nd[b].ents, l) = q /\ l \in LBlocks /\ l \in Int
    OBVIOUS
  <2>1. z \in R /\ q \in 1 .. Len(nd[b].ents)
    BY <1>6
  <2>2. l \in LBlocks
    BY <2>1, <1>15
  <2> QED BY <2>1, <2>2, <1>15, Width DEF Nested
<1>17. g \in [Q -> SUBSET LBlocks] /\ \A b \in Q : g[b] = Reg[b]
  <2> HIDE DEF Reg
  <2> QED BY <1>15
<1> HIDE DEF g
<1>18. Nested(md, Q, g)
  <2> SUFFICES ASSUME NEW b \in Q, NEW q \in 1 .. Len(md[b].ents), NEW z \in Q, Slot(md, b, q, z), NEW l \in g[z]
               PROVE  l \in g[b] /\ SearchPos(md[b].ents, l) = q
    BY DEF Nested
  <2> DEFINE r == was(b, q)
  <2>1. Slot(nd, b, r, z) /\ (b = u => r # p /\ q \in 1 .. Len(t.ents) - 1 /\ r \in Int)
    BY <1>9
  <2>2. l \in Reg[b] /\ SearchPos(nd[b].ents, l) = r /\ l \in Int
    <3> HIDE DEF r, Reg
    <3> QED BY <2>1, <1>16, <1>17
  <2>3. CASE b = u
    <3>1. r = (IF q < p THEN q ELSE q + 1) /\ q \in Int /\ p \in Int
      BY <2>1, <2>3, <1>2 DEF was
    <3>2. SearchPos(t.ents, l) = r
      BY <2>2, <2>3
    <3> DEFINE a == SearchPos(t.ents, l)
               z1 == SearchPos(md[u].ents, l)
    <3>3. (a < p => z1 = a) /\ (a > p => z1 = a - 1) /\ a = r
      BY <2>2, <3>2, <1>5
    <3>4. z1 = q
      <4> HIDE DEF a, z1, r
      <4> QED BY <2>1, <2>3, <3>1, <3>3
    <3> QED BY <3>4, <2>2, <2>3, <1>17
  <2>4. CASE b # u
    <3>1. r = q /\ md[b] = nd[b]
      BY <2>4, <1>3 DEF was
    <3> QED BY <3>1, <2>2, <1>17
  <2> QED BY <2>3, <2>4
<1>19. Routed(md, Q, g)
  <2> SUFFICES ASSUME NEW b \in Q, NEW q \in 1 .. Len(md[b].ents), NEW l \in Keys(md[b], q) PROVE l \in g[b]
    BY DEF Routed
  <2>1. \E r \in 1 .. Len(nd[b].ents) : l \in Keys(nd[b], r)
    <3>1. CASE b = u
      <4> DEFINE z == md[b].ents[q].child
                 r == was(b, q)
      <4>1. Slot(md, b, q, z)
        <5>1. md[b].depth > 0
          BY <3>1, <1>2, <1>5
        <5> QED BY <5>1 DEF Slot
      <4>2. r \in 1 .. Len(nd[b].ents) /\ md[b].ents[q] = nd[b].ents[r]
        BY <4>1, <1>9
      <4> HIDE DEF r
      <4>3. l \in Keys(nd[b], r)
        BY <4>2, <3>1, <1>2, <1>5 DEF Keys
      <4> QED BY <4>2, <4>3
    <3>2. CASE b # u
      <4>1. md[b] = nd[b]
        BY <3>2, <1>3
      <4> QED BY <4>1
    <3> QED BY <3>1, <3>2
  <2>2. PICK r \in 1 .. Len(nd[b].ents) : l \in Keys(nd[b], r)
    BY <2>1
  <2>3. l \in LBlocks /\ On(nd, l, b)
    BY <2>2, KeyOn
  <2> QED BY <2>3, <1>17 DEF Region
<1>20. Tree(md, Q)
  BY <1>12, <1>13, <1>14, <1>17, <1>18, <1>19, TreeByRegions
<1>21. ASSUME NEW l \in LBlocks PROVE Lookup(md, l) = Lookup(nd, l)
  <2> DEFINE has(d, b, v) == \E q \in 1 .. Len(d[b].ents) :
                                d[b].depth = 0 /\ l \in Keys(d[b], q) /\ v = d[b].ents[q].start + (l - d[b].ents[q].first)
  <2>1. ASSUME NEW v, NEW b \in Q PROVE has(md, b, v) <=> has(nd, b, v)
    <3>1. CASE b = u
      <4>1. md[b].depth # 0 /\ nd[b].depth # 0
        BY <3>1, <1>2, <1>5
      <4> QED BY <4>1
    <3>2. CASE b # u
      <4>1. md[b] = nd[b]
        BY <3>2, <1>3
      <4> QED BY <4>1
    <3> QED BY <3>1, <3>2
  <2>2. ASSUME NEW v PROVE ~ has(nd, c, v)
    BY <1>7
  <2>3. \A v : Maps(md, Q, l, v) <=> \E b \in Q : has(md, b, v)
    BY DEF Maps
  <2>4. \A v : Maps(nd, R, l, v) <=> \E b \in R : has(nd, b, v)
    BY DEF Maps
  <2> HIDE DEF has
  <2>5. \A v : Maps(md, Q, l, v) <=> Maps(nd, R, l, v)
    BY Zenon, <2>1, <2>2, <2>3, <2>4
  <2> HIDE DEF Q
  <2> QED BY <2>5, <1>20, SameMaps
<1>22. md[u].ents = <<>> => p = 1
  <2> SUFFICES ASSUME md[u].ents = <<>> PROVE p = 1
    OBVIOUS
  <2>1. Len(t.ents) = 1
    BY <1>5
  <2> QED BY <2>1, <1>2
<1>23. ASSUME NEW X, X = {u} \/ (X = {} /\ p # 1) PROVE Neat(md, Q, X)
  <2> SUFFICES ASSUME NEW b \in Q, NEW q \in 1 .. Len(md[b].ents), NEW z \in Q \ X, Slot(md, b, q, z)
               PROVE  md[z].ents # <<>> /\ md[z].ents[1].first = md[b].ents[q].first
    BY DEF Neat
  <2> DEFINE r == was(b, q)
  <2>1. Slot(nd, b, r, z) /\ r \in 1 .. Len(nd[b].ents) /\ md[b].ents[q] = nd[b].ents[r]
    BY <1>9
  <2> HIDE DEF r
  <2>2. nd[z].ents # <<>> /\ nd[z].ents[1].first = nd[b].ents[r].first
    BY <2>1 DEF Neat
  <2>3. md[z].ents # <<>> /\ md[z].ents[1].first = nd[z].ents[1].first
    <3>1. CASE z = u
      <4>1. p # 1
        BY <3>1, <1>23
      <4>2. 1 \in 1 .. Len(t.ents) - 1 /\ 1 < p
        BY <4>1, <1>2
      <4>3. md[u].ents[1] = t.ents[1]
        BY <4>2, <1>5
      <4> QED BY <4>1, <4>3, <3>1, <1>22
    <3>2. CASE z # u
      BY <3>2, <2>2, <1>3
    <3> QED BY <3>1, <3>2
  <2> QED BY <2>1, <2>2, <2>3
<1> QED BY Zenon, <1>5, <1>20, <1>21, <1>22, <1>23 DEF SameLookups

(* An index root that lost its last entry becomes an empty leaf. *)
LEMMA CollapseTree ==
  ASSUME NEW nd, NEW R, Tree(nd, R), nd[Root].ents = <<>>, NEW t1, t1 = [depth |-> 0, ents |-> <<>>],
         NEW md, Put(nd, Root, t1, md)
  PROVE  R = {Root} /\ Tree(md, R) /\ (\A X : Neat(md, R, X)) /\ SameLookups(nd, md)
<1> DEFINE n == [depth |-> 0, ents |-> <<>>]
<1>1. Shape(nd, R) /\ Hung(nd, R) /\ Once(nd, R) /\ R \in SUBSET Places /\ Root \in R
  BY DEF Tree, Shape
<1>2. Len(nd[Root].ents) = 0
  BY <1>1, DepthIs
<1>3. R = {Root}
  <2> DEFINE S == {Root}
  <2>1. \A b \in R : \A p \in 1 .. Len(nd[b].ents), c \in R : Slot(nd, b, p, c) /\ b \in S => c \in S
    BY <1>2 DEF Slot
  <2>2. Root \in S
    OBVIOUS
  <2> HIDE DEF S
  <2>3. R \subseteq S
    BY <1>1, <2>1, <2>2, TopDown
  <2> QED BY <2>3, <1>1 DEF S
<1>4. md \in [Places -> Nodes] /\ md[Root] = n
  BY DEF Put
<1>5. n.depth = 0 /\ n.ents = <<>> /\ Len(n.ents) = 0 /\ n \in Leaves
  BY EmptySeq DEF Leaves
<1> HIDE DEF n
<1>6. Fit(Root, n)
  BY <1>5, CapacityAssumption DEF Fit, MaxEntries, Keyed, Apart
<1>7. \A b \in R : \A p : p \notin 1 .. Len(md[b].ents)
  BY <1>3, <1>4, <1>5
<1>8. Tree(md, R)
  <2>1. Shape(md, R)
    BY <1>1, <1>3, <1>4, <1>6, <1>7 DEF Shape
  <2>2. Hung(md, R)
    BY <1>3 DEF Hung
  <2>3. Once(md, R)
    BY <1>7 DEF Once
  <2>4. Routed(md, R, Region(md, R))
    BY <1>7 DEF Routed
  <2> QED BY <2>1, <2>2, <2>3, <2>4 DEF Tree
<1>9. \A X : Neat(md, R, X)
  BY <1>7 DEF Neat
<1>10. ASSUME NEW l \in LBlocks PROVE Lookup(md, l) = Lookup(nd, l)
  <2>1. \A v : Maps(md, R, l, v) <=> Maps(nd, R, l, v)
    BY <1>2, <1>3, <1>7 DEF Maps
  <2> QED BY <2>1, <1>8, SameMaps
<1> QED BY Zenon, <1>3, <1>8, <1>9, <1>10 DEF SameLookups

-----------------------------------------------------------------------------
(* Leaves are rewritten. *)

(* e maps l to v; the leaf n does. *)
Sends(e, l, v) == l \in e.first .. End64(e) - 1 /\ v = e.start + (l - e.first)
Gives(n, l, v) == \E p \in 1 .. Len(n.ents) : Sends(n.ents[p], l, v)

Good(e) == e \in Extents /\ ValidExtent(e) /\ End64(e) <= LastLBlock

(* A leaf's answers are its entries'. *)
LEMMA AnswerGives ==
  ASSUME NEW b, NEW n, Fit(b, n), NEW l \in LBlocks, NEW v
  PROVE  n.depth = 0 => ((Answer(n, l) = v /\ v # Hole) <=> Gives(n, l, v))
<1>1. (Answer(n, l) = v /\ v # Hole) <=>
         \E p \in 1 .. Len(n.ents) : n.depth = 0 /\ l \in Keys(n, p) /\ v = n.ents[p].start + (l - n.ents[p].first)
  BY Zenon, AnswerIs
<1>2. n.depth = 0 => \A p : Keys(n, p) = n.ents[p].first .. End64(n.ents[p]) - 1
  BY DEF Keys
<1> QED BY Zenon, <1>1, <1>2 DEF Gives, Sends

(* What a good entry is made of. *)
LEMMA GoodIs ==
  ASSUME NEW e, Good(e)
  PROVE  /\ e.first \in LBlocks /\ e.first \in Nat /\ e.len \in Nat /\ e.len >= 1 /\ e.len <= MaxLen
         /\ e.start \in Nat /\ e.start >= 1 /\ e.start + e.len - 1 <= NBlocks /\ e.start \in Blocks
         /\ End64(e) \in Nat /\ End64(e) = e.first + e.len /\ End64(e) <= LastLBlock /\ e.unwritten \in BOOLEAN
         /\ End(e) = End64(e) /\ e.first < End64(e)
<1>1. e.first \in LBlocks /\ e.len \in 1 .. MaxLen /\ e.start \in Blocks /\ e.unwritten \in BOOLEAN
  BY DEF Good, Extents
<1>2. End64(e) = e.first + e.len /\ End64(e) <= LastLBlock /\ e.start + e.len - 1 <= NBlocks
  BY DEF Good, End64, ValidExtent
<1>3. e.first \in Nat /\ LastLBlock \in Nat
  BY <1>1, Width
<1>4. e.len \in Nat /\ e.len >= 1 /\ e.len <= MaxLen /\ e.start \in Nat /\ e.start >= 1
  BY <1>1, SizeAssumption DEF Blocks
<1>5. End64(e) \in 0 .. LastLBlock
  BY <1>2, <1>3, <1>4
<1>6. End(e) = Wrap(End64(e))
  BY DEF End, End64
<1>7. End(e) = End64(e)
  BY <1>5, <1>6, Width
<1>8. e.first < End64(e) /\ End64(e) \in Nat
  BY <1>2, <1>3, <1>4
<1> QED BY <1>1, <1>2, <1>3, <1>4, <1>7, <1>8

(* Good entries that do not overlap make a leaf. *)
LEMMA LeafFit ==
  ASSUME NEW b, NEW n, n = [depth |-> 0, ents |-> n.ents], n.ents \in Seq(Extents), Len(n.ents) <= MaxEntries(b),
         \A p \in 1 .. Len(n.ents) : Good(n.ents[p]),
         \A p, q \in 1 .. Len(n.ents) : p < q => End64(n.ents[p]) <= n.ents[q].first
  PROVE  Fit(b, n) /\ n.depth = 0
<1>1. n.depth = 0
  OBVIOUS
<1>2. n \in Leaves
  BY DEF Leaves
<1>3. Keyed(n.ents)
  <2> SUFFICES ASSUME NEW p \in 1 .. Len(n.ents), NEW q \in 1 .. Len(n.ents), p < q
               PROVE  n.ents[p].first < n.ents[q].first
    BY DEF Keyed
  <2> DEFINE e == n.ents[p]
             x == n.ents[q].first
  <2>1. Good(e) /\ End64(e) <= x
    OBVIOUS
  <2>2. x \in Nat
    BY GoodIs
  <2> HIDE DEF e, x
  <2>3. e.first \in Nat /\ End64(e) \in Nat /\ e.first < End64(e)
    BY <2>1, GoodIs
  <2>4. e.first < x
    BY <2>1, <2>2, <2>3
  <2> QED BY <2>4 DEF e, x
<1>4. Apart(n.ents)
  BY DEF Apart
<1> QED BY <1>1, <1>2, <1>3, <1>4 DEF Fit, Good

(* What a leaf is. *)
LEMMA LeafParts ==
  ASSUME NEW b, NEW n, Fit(b, n), n.depth = 0
  PROVE  /\ n = [depth |-> 0, ents |-> n.ents] /\ n.ents \in Seq(Extents) /\ Len(n.ents) \in Nat
         /\ Len(n.ents) <= MaxEntries(b) /\ MaxEntries(b) \in Nat
         /\ \A p \in 1 .. Len(n.ents) : Good(n.ents[p])
         /\ \A p, q \in 1 .. Len(n.ents) : p < q => End64(n.ents[p]) <= n.ents[q].first
<1>1. n = [depth |-> 0, ents |-> n.ents] /\ n.ents \in Seq(Extents) /\ Len(n.ents) \in Nat
      /\ \A p \in 1 .. Len(n.ents) : n.ents[p] \in Extents
  BY NodeIs
<1>2. MaxEntries(b) \in Nat
  BY CapacityAssumption DEF MaxEntries
<1> QED BY <1>1, <1>2 DEF Fit, Apart, Good

(* t is s with e in place p. *)
Swapped(S, s, p, e, t) ==
    t \in Seq(S) /\ Len(t) = Len(s) /\ t[p] = e /\ \A q \in 1 .. Len(s) : q # p => t[q] = s[q]

(* EXCEPT puts an element in the place of another. *)
LEMMA ReplaceIs ==
  ASSUME NEW S, NEW s \in Seq(S), NEW e \in S, NEW p \in 1 .. Len(s), NEW t, t = [s EXCEPT ![p] = e]
  PROVE  Swapped(S, s, p, e, t)
BY DEF Swapped

(* The entries of leaf n up to place p, from it, and after it are clear of e;
   e is added to the content of n, or replaces entry p. *)
Before(n, p, e) == \A q \in 1 .. Len(n.ents) : q < p => End64(n.ents[q]) <= e.first
After(n, p, e) == \A q \in 1 .. Len(n.ents) : q >= p => End64(e) <= n.ents[q].first
Beyond(n, p, e) == \A q \in 1 .. Len(n.ents) : q > p => End64(e) <= n.ents[q].first
Adds(n, e, t) == \A l, v : Gives(t, l, v) <=> Gives(n, l, v) \/ Sends(e, l, v)
Instead(n, p, e, t) ==
    \A l, v : Gives(t, l, v) <=>
                 (\E q \in 1 .. Len(n.ents) : q # p /\ Sends(n.ents[q], l, v)) \/ Sends(e, l, v)

(* A good entry is inserted into a leaf where there is room. *)
LEMMA LeafInsert ==
  ASSUME NEW b, NEW n, Fit(b, n), n.depth = 0, Len(n.ents) < MaxEntries(b), NEW e, Good(e),
         NEW p \in 1 .. Len(n.ents) + 1,
         Before(n, p, e), After(n, p, e), NEW t, t = [depth |-> 0, ents |-> InsertAt(n.ents, p, e)]
  PROVE  /\ Fit(b, t) /\ t.depth = 0 /\ t.ents # <<>> /\ Len(t.ents) = Len(n.ents) + 1
         /\ p # 1 => n.ents # <<>> /\ t.ents[1] = n.ents[1]
         /\ p = 1 => t.ents[1] = e
         /\ Adds(n, e, t)
<1> DEFINE E == n.ents
           N == Len(E)
           T == t.ents
           F(q) == IF q < p THEN E[q] ELSE IF q = p THEN e ELSE E[q - 1]
<1>1. /\ E \in Seq(Extents) /\ N \in Nat /\ N < MaxEntries(b) /\ MaxEntries(b) \in Nat
      /\ \A q \in 1 .. N : Good(E[q])
      /\ \A q, r \in 1 .. N : q < r => End64(E[q]) <= E[r].first
  BY LeafParts
<1>2. e \in Extents /\ t.depth = 0 /\ t = [depth |-> 0, ents |-> t.ents] /\ T = InsertAt(E, p, e)
  BY DEF Good
<1>3. T \in Seq(Extents) /\ Len(T) = N + 1 /\ \A q \in 1 .. N + 1 : T[q] = F(q)
  <2>1. E \in Seq(Extents) /\ e \in Extents /\ p \in 1 .. Len(E) + 1
    BY <1>1, <1>2
  <2> HIDE DEF T, E
  <2>2. Opened(Extents, E, p, e, T)
    BY <2>1, <1>2, InsertAtIs
  <2> QED BY <2>2 DEF Opened, E
<1>4. p \in 1 .. N + 1 /\ p \in Int
  BY <1>1
<1>5. \A q \in 1 .. N + 1 : /\ q < p => q \in 1 .. N /\ F(q) = E[q]
                            /\ q = p => F(q) = e
                            /\ q > p => q - 1 \in 1 .. N /\ q - 1 >= p /\ F(q) = E[q - 1]
                            /\ q \in Int
  BY <1>1, <1>4
<1>6. \A q \in 1 .. N : /\ q < p => End64(E[q]) <= e.first
                        /\ q >= p => End64(e) <= E[q].first
  <2>1. \A q \in 1 .. N : q < p => End64(E[q]) <= e.first
    BY Zenon DEF Before
  <2>2. \A q \in 1 .. N : q >= p => End64(e) <= E[q].first
    BY Zenon DEF After
  <2> QED BY Zenon, <2>1, <2>2
<1> HIDE DEF T, F, E, N
<1>7. \A q \in 1 .. N + 1 : Good(T[q])
  <2> SUFFICES ASSUME NEW q \in 1 .. N + 1 PROVE Good(F(q))
    BY <1>3
  <2>1. q < p \/ q = p \/ q > p
    BY <1>4, <1>5
  <2> QED BY Zenon, <2>1, <1>5, <1>1
<1>8. ASSUME NEW q \in 1 .. N + 1, NEW r \in 1 .. N + 1, q < r PROVE End64(T[q]) <= T[r].first
  <2>1. T[q] = F(q) /\ T[r] = F(r)
    BY Zenon, <1>3
  <2>2. q \in Int /\ r \in Int
    BY <1>5
  <2>3. CASE r < p
    <3>1. F(q) = E[q] /\ F(r) = E[r] /\ q \in 1 .. N /\ r \in 1 .. N
      BY <2>2, <2>3, <1>4, <1>5, <1>8
    <3> QED BY <3>1, <2>1, <1>1, <1>8
  <2>4. CASE r = p
    <3>1. F(q) = E[q] /\ F(r) = e /\ q \in 1 .. N /\ q < p
      BY <2>2, <2>4, <1>4, <1>5, <1>8
    <3> QED BY <3>1, <2>1, <1>6
  <2>5. CASE r > p /\ q < p
    <3>1. F(q) = E[q] /\ F(r) = E[r - 1] /\ q \in 1 .. N /\ r - 1 \in 1 .. N /\ q < r - 1
      BY <2>2, <2>5, <1>4, <1>5, <1>8
    <3> QED BY <3>1, <2>1, <1>1
  <2>6. CASE r > p /\ q = p
    <3>1. F(q) = e /\ F(r) = E[r - 1] /\ r - 1 \in 1 .. N /\ r - 1 >= p
      BY <2>2, <2>6, <1>4, <1>5, <1>8
    <3> QED BY <3>1, <2>1, <1>6
  <2>7. CASE r > p /\ q > p
    <3>1. F(q) = E[q - 1] /\ F(r) = E[r - 1] /\ q - 1 \in 1 .. N /\ r - 1 \in 1 .. N /\ q - 1 < r - 1
      BY <2>2, <2>7, <1>4, <1>5, <1>8
    <3> QED BY <3>1, <2>1, <1>1
  <2>8. r < p \/ r = p \/ (r > p /\ q < p) \/ (r > p /\ q = p) \/ (r > p /\ q > p)
    BY <2>2, <1>4
  <2> QED BY <2>3, <2>4, <2>5, <2>6, <2>7, <2>8
<1>9. Fit(b, t) /\ t.depth = 0
  <2>1. t = [depth |-> 0, ents |-> t.ents] /\ t.ents \in Seq(Extents) /\ Len(t.ents) <= MaxEntries(b)
    BY <1>1, <1>2, <1>3 DEF T
  <2>2. \A q \in 1 .. Len(t.ents) : Good(t.ents[q])
    BY <1>3, <1>7 DEF T
  <2>3. \A q, r \in 1 .. Len(t.ents) : q < r => End64(t.ents[q]) <= t.ents[r].first
    BY <1>3, <1>8 DEF T
  <2> QED BY <2>1, <2>2, <2>3, LeafFit
<1>10. T # <<>>
  BY <1>1, <1>3, EmptySeq
<1>11. p # 1 => E # <<>> /\ T[1] = E[1]
  <2> SUFFICES ASSUME p # 1 PROVE E # <<>> /\ T[1] = E[1]
    OBVIOUS
  <2>1. 1 \in 1 .. N + 1 /\ 1 < p /\ N # 0
    BY <1>1, <1>4
  <2>2. T[1] = E[1]
    BY <2>1, <1>3, <1>5
  <2> QED BY <2>1, <2>2, EmptySeq DEF N
<1>12. p = 1 => T[1] = e
  <2>1. 1 \in 1 .. N + 1
    BY <1>1
  <2> QED BY <2>1, <1>3, <1>5
<1>13. ASSUME NEW l, NEW v PROVE Gives(t, l, v) <=> Gives(n, l, v) \/ Sends(e, l, v)
  <2>1. Gives(t, l, v) <=> \E q \in 1 .. N + 1 : Sends(T[q], l, v)
    BY <1>3 DEF Gives, T
  <2>2. Gives(n, l, v) <=> \E q \in 1 .. N : Sends(E[q], l, v)
    BY DEF Gives, E, N
  <2>3. ASSUME NEW q \in 1 .. N + 1, Sends(T[q], l, v) PROVE Gives(n, l, v) \/ Sends(e, l, v)
    <3>1. q < p \/ q = p \/ q > p
      BY <1>4, <1>5
    <3> QED BY <3>1, <2>2, <2>3, <1>3, <1>5
  <2>4. ASSUME Sends(e, l, v) PROVE \E q \in 1 .. N + 1 : Sends(T[q], l, v)
    BY <2>4, <1>3, <1>4, <1>5
  <2>5. ASSUME NEW q \in 1 .. N, Sends(E[q], l, v) PROVE \E r \in 1 .. N + 1 : Sends(T[r], l, v)
    <3>1. CASE q < p
      <4>1. q \in 1 .. N + 1
        BY <1>1
      <4> QED BY <4>1, <3>1, <2>5, <1>3, <1>5
    <3>2. CASE ~(q < p)
      <4> DEFINE r == q + 1
      <4>1. r \in 1 .. N + 1 /\ r > p /\ r - 1 = q
        BY <3>2, <1>1, <1>4
      <4> HIDE DEF r
      <4> QED BY <4>1, <2>5, <1>3, <1>5
    <3> QED BY <3>1, <3>2
  <2> QED BY <2>1, <2>2, <2>3, <2>4, <2>5
<1> QED BY <1>3, <1>9, <1>10, <1>11, <1>12, <1>13 DEF T, E, N, Adds

(* Entry p of a leaf is replaced. *)
LEMMA LeafReplace ==
  ASSUME NEW b, NEW n, Fit(b, n), n.depth = 0, NEW e, Good(e), NEW p \in 1 .. Len(n.ents),
         Before(n, p, e), Beyond(n, p, e),
         NEW t, t = [depth |-> 0, ents |-> t.ents],
         Swapped(Extents, n.ents, p, e, t.ents)
  PROVE  /\ Fit(b, t) /\ t.depth = 0 /\ t.ents # <<>> /\ Len(t.ents) = Len(n.ents) /\ n.ents # <<>>
         /\ t.ents[1] = IF p = 1 THEN e ELSE n.ents[1]
         /\ t.ents[p] = e /\ \A q \in 1 .. Len(n.ents) : q # p => t.ents[q] = n.ents[q]
         /\ Instead(n, p, e, t)
<1> DEFINE E == n.ents
           N == Len(E)
           T == t.ents
<1>1. /\ E \in Seq(Extents) /\ N \in Nat /\ N <= MaxEntries(b) /\ MaxEntries(b) \in Nat
      /\ \A q \in 1 .. N : Good(E[q])
      /\ \A q, r \in 1 .. N : q < r => End64(E[q]) <= E[r].first
  BY LeafParts
<1>2. e \in Extents /\ t.depth = 0 /\ t = [depth |-> 0, ents |-> t.ents]
  BY DEF Good
<1>3. T \in Seq(Extents) /\ Len(T) = N /\ T[p] = e /\ \A q \in 1 .. N : q # p => T[q] = E[q]
  BY DEF Swapped
<1>4. p \in 1 .. N /\ p \in Int
  BY <1>1
<1>6. \A q \in 1 .. N : /\ q < p => End64(E[q]) <= e.first
                        /\ q > p => End64(e) <= E[q].first
                        /\ q \in Int
  <2>1. \A q \in 1 .. N : q < p => End64(E[q]) <= e.first
    BY Zenon DEF Before
  <2>2. \A q \in 1 .. N : q > p => End64(e) <= E[q].first
    BY Zenon DEF Beyond
  <2>3. \A q \in 1 .. N : q \in Int
    BY <1>1
  <2> QED BY Zenon, <2>1, <2>2, <2>3
<1> HIDE DEF T, E, N
<1>8. ASSUME NEW q \in 1 .. N, NEW r \in 1 .. N, q < r PROVE End64(T[q]) <= T[r].first
  <2>1. CASE q = p
    <3>1. r > p /\ r # p
      BY <2>1, <1>4, <1>6, <1>8
    <3> QED BY <2>1, <3>1, <1>3, <1>6
  <2>2. CASE r = p
    <3>1. q < p /\ q # p
      BY <2>2, <1>4, <1>6, <1>8
    <3> QED BY <2>2, <3>1, <1>3, <1>6
  <2>3. CASE q # p /\ r # p
    BY <2>3, <1>1, <1>3, <1>8
  <2> QED BY <2>1, <2>2, <2>3
<1>9. Fit(b, t) /\ t.depth = 0
  <2>1. t = [depth |-> 0, ents |-> t.ents] /\ t.ents \in Seq(Extents) /\ Len(t.ents) <= MaxEntries(b)
    BY <1>1, <1>2, <1>3 DEF T
  <2>2. \A q \in 1 .. Len(t.ents) : Good(t.ents[q])
    BY Zenon, <1>1, <1>3 DEF T
  <2>3. \A q, r \in 1 .. Len(t.ents) : q < r => End64(t.ents[q]) <= t.ents[r].first
    BY <1>3, <1>8 DEF T
  <2> QED BY <2>1, <2>2, <2>3, LeafFit
<1>10. T # <<>> /\ E # <<>>
  <2>1. N # 0
    BY <1>1, <1>4
  <2> QED BY <2>1, <1>1, <1>3, EmptySeq DEF N
<1>11. T[1] = IF p = 1 THEN e ELSE E[1]
  <2>1. 1 \in 1 .. N
    BY <1>1, <1>4
  <2> QED BY <2>1, <1>3
<1>13. ASSUME NEW l, NEW v
       PROVE  Gives(t, l, v) <=> (\E q \in 1 .. N : q # p /\ Sends(E[q], l, v)) \/ Sends(e, l, v)
  <2>1. Gives(t, l, v) <=> \E q \in 1 .. N : Sends(T[q], l, v)
    BY <1>3 DEF Gives, T
  <2> QED BY <2>1, <1>3, <1>4
<1> QED BY <1>3, <1>9, <1>10, <1>11, <1>13 DEF T, E, N, Instead

(* Two sequences are joined. *)
LEMMA ConcatIs ==
  ASSUME NEW S, NEW a \in Seq(S), NEW z \in Seq(S)
  PROVE  /\ a \o z \in Seq(S) /\ Len(a \o z) = Len(a) + Len(z)
         /\ \A i \in 1 .. Len(a) : (a \o z)[i] = a[i]
         /\ \A i \in 1 .. Len(z) : (a \o z)[Len(a) + i] = z[i]
OBVIOUS

(* Cutting a sequence around element p. *)
LEMMA SpliceIs ==
  ASSUME NEW S, NEW s \in Seq(S), NEW p \in 1 .. Len(s)
  PROVE  /\ \A e \in S : Swapped(S, s, p, e, SubSeq(s, 1, p - 1) \o <<e>> \o SubSeq(s, p + 1, Len(s)))
         /\ LET t == SubSeq(s, 1, p - 1) \o <<>> \o SubSeq(s, p + 1, Len(s))
            IN  /\ t \in Seq(S) /\ Len(t) = Len(s) - 1
                /\ \A q \in 1 .. Len(s) - 1 : t[q] = IF q < p THEN s[q] ELSE s[q + 1]
<1> DEFINE a == SubSeq(s, 1, p - 1)
           z == SubSeq(s, p + 1, Len(s))
           N == Len(s)
           m == p - 1
           r == p + 1
           one == 1
<1>1. N \in Nat /\ p \in 1 .. N /\ m \in 0 .. N /\ r \in 1 .. N + 1 /\ one \in 1 .. N + 1 /\ one <= m + 1 /\ r <= N + 1 /\ N \in 0 .. N
      /\ s \in Seq(S)
  OBVIOUS
<1>2. a = SubSeq(s, one, m) /\ z = SubSeq(s, r, N)
  OBVIOUS
<1>3. a \in Seq(S) /\ Len(a) = p - 1 /\ \A i \in 1 .. p - 1 : a[i] = s[i]
  <2> HIDE DEF one, m, r, a, z
  <2>1. SubSeq(s, one, m) \in Seq(S) /\ Len(SubSeq(s, one, m)) = m + 1 - one
        /\ \A i \in 1 .. m + 1 - one : SubSeq(s, one, m)[i] = s[one + i - 1]
    BY <1>1, SubSeqIs
  <2>2. m + 1 - one = p - 1 /\ \A i \in 1 .. p - 1 : one + i - 1 = i
    BY <1>1 DEF one, m
  <2> QED BY Zenon, <1>2, <2>1, <2>2
<1>4. z \in Seq(S) /\ Len(z) = N - p /\ \A i \in 1 .. N - p : z[i] = s[p + i]
  <2> HIDE DEF one, m, r, a, z
  <2>1. SubSeq(s, r, N) \in Seq(S) /\ Len(SubSeq(s, r, N)) = N + 1 - r
        /\ \A i \in 1 .. N + 1 - r : SubSeq(s, r, N)[i] = s[r + i - 1]
    BY <1>1, SubSeqIs
  <2>2. N + 1 - r = N - p /\ \A i \in 1 .. N - p : r + i - 1 = p + i
    BY <1>1 DEF r
  <2> QED BY Zenon, <1>2, <2>1, <2>2
<1> HIDE DEF a, z, m, r, one
<1>5. ASSUME NEW e \in S PROVE Swapped(S, s, p, e, a \o <<e>> \o z)
  <2> DEFINE y == <<e>>
  <2>1. y \in Seq(S) /\ Len(y) = 1 /\ y[1] = e
    OBVIOUS
  <2> HIDE DEF y
  <2>2. a \o y \in Seq(S) /\ Len(a \o y) = p
        /\ (\A i \in 1 .. p - 1 : (a \o y)[i] = a[i]) /\ (a \o y)[p] = e
    <3>1. a \o y \in Seq(S) /\ Len(a \o y) = Len(a) + Len(y)
          /\ (\A i \in 1 .. Len(a) : (a \o y)[i] = a[i]) /\ (\A i \in 1 .. Len(y) : (a \o y)[Len(a) + i] = y[i])
      <4>1. a \in Seq(S) /\ y \in Seq(S)
        BY <1>3, <2>1
      <4> QED BY <4>1, ConcatIs
    <3>2. Len(a) + Len(y) = p /\ Len(a) + 1 = p /\ 1 \in 1 .. Len(y)
      BY <1>1, <1>3, <2>1
    <3>3. (a \o y)[Len(a) + 1] = y[1]
      BY <3>1, <3>2
    <3> QED BY Zenon, <1>3, <2>1, <3>1, <3>2, <3>3
  <2> DEFINE x == a \o y
  <2> HIDE DEF x
  <2>3. x \in Seq(S) /\ Len(x) = p /\ \A i \in 1 .. p : x[i] = IF i = p THEN e ELSE s[i]
    <3>3. \A i \in 1 .. p : i # p => i \in 1 .. p - 1
      BY <1>1
    <3> QED BY <1>3, <2>1, <2>2, <3>3 DEF x
  <2>4. x \o z \in Seq(S) /\ Len(x \o z) = Len(x) + Len(z)
        /\ (\A i \in 1 .. Len(x) : (x \o z)[i] = x[i]) /\ (\A i \in 1 .. Len(z) : (x \o z)[Len(x) + i] = z[i])
    BY <1>4, <2>3, ConcatIs
  <2>5. Len(x) + Len(z) = N
    BY <1>1, <1>4, <2>3
  <2>7. ASSUME NEW i \in 1 .. N PROVE (x \o z)[i] = IF i = p THEN e ELSE s[i]
    <3>1. CASE i <= p
      <4>1. (x \o z)[i] = x[i] /\ i \in 1 .. p
        BY <3>1, <2>3, <2>4, <1>1
      <4> QED BY <4>1, <2>3
    <3>2. CASE ~(i <= p)
      <4> DEFINE j == i - p
      <4>1. j \in 1 .. N - p /\ p + j = i /\ i # p
        BY <3>2, <1>1
      <4> HIDE DEF j
      <4>2. (x \o z)[i] = z[j]
        BY Zenon, <4>1, <1>4, <2>3, <2>4
      <4> QED BY Zenon, <4>1, <4>2, <1>4
    <3> QED BY Zenon, <3>1, <3>2
  <2>8. Swapped(S, s, p, e, x \o z)
    BY Zenon, <2>4, <2>5, <2>7, <1>1 DEF Swapped
  <2> QED BY <2>8 DEF x, y
<1>6. LET t == a \o <<>> \o z
      IN  t \in Seq(S) /\ Len(t) = N - 1 /\ \A q \in 1 .. N - 1 : t[q] = IF q < p THEN s[q] ELSE s[q + 1]
  <2>1. a \o <<>> = a
    BY <1>3
  <2>2. a \o z \in Seq(S) /\ Len(a \o z) = Len(a) + Len(z)
        /\ (\A i \in 1 .. Len(a) : (a \o z)[i] = a[i]) /\ (\A i \in 1 .. Len(z) : (a \o z)[Len(a) + i] = z[i])
    <3>1. a \in Seq(S) /\ z \in Seq(S)
      BY <1>3, <1>4
    <3> QED BY <3>1, ConcatIs
  <2>3. Len(a) + Len(z) = N - 1
    BY <1>1, <1>3, <1>4
  <2>4. ASSUME NEW q \in 1 .. N - 1 PROVE (a \o z)[q] = IF q < p THEN s[q] ELSE s[q + 1]
    <3>1. CASE q < p
      <4>1. q \in 1 .. p - 1
        BY <3>1, <1>1
      <4> QED BY <3>1, <4>1, <2>2, <1>3
    <3>2. CASE ~(q < p)
      <4> DEFINE j == q - (p - 1)
      <4>1. j \in 1 .. N - p /\ p + j = q + 1 /\ p - 1 + j = q
        BY <3>2, <1>1
      <4> HIDE DEF j
      <4>2. (a \o z)[q] = z[j]
        BY Zenon, <4>1, <1>3, <1>4, <2>2
      <4> QED BY <3>2, <4>1, <4>2, <1>4
    <3> QED BY Zenon, <3>1, <3>2
  <2> QED BY <2>1, <2>2, <2>3, <2>4
<1> QED BY Zenon, <1>5, <1>6 DEF a, z

(* What Trim and remove_middle_of_extent keep of an entry: its first blocks ... *)
LEMMA Prefix ==
  ASSUME NEW e, Good(e), NEW from \in Int, e.first < from, from <= End64(e), NEW x, x = [e EXCEPT !.len = from - e.first]
  PROVE  /\ Good(x) /\ x.first = e.first /\ End64(x) = from
         /\ \A l, v : Sends(x, l, v) <=> Sends(e, l, v) /\ l < from
<1>1. /\ e.first \in LBlocks /\ e.first \in Nat /\ e.len \in Nat /\ e.len >= 1 /\ e.len <= MaxLen /\ e.start \in Nat
      /\ e.start >= 1 /\ e.start + e.len - 1 <= NBlocks /\ e.start \in Blocks
      /\ End64(e) \in Nat /\ End64(e) = e.first + e.len /\ End64(e) <= LastLBlock /\ e.unwritten \in BOOLEAN
  BY GoodIs
<1>2. e = [first |-> e.first, len |-> e.len, start |-> e.start, unwritten |-> e.unwritten]
  BY DEF Good, Extents
<1>3. x = [first |-> e.first, len |-> from - e.first, start |-> e.start, unwritten |-> e.unwritten]
  BY <1>2
<1>4. x.first = e.first /\ x.len = from - e.first /\ x.start = e.start
  BY <1>3
<1>5. from - e.first \in 1 .. MaxLen /\ from - e.first <= e.len /\ from <= LastLBlock
  <2> DEFINE F == e.first
             L == e.len
             T == End64(e)
  <2>1. F \in Int /\ L \in Int /\ T = F + L /\ L <= MaxLen /\ F < from /\ from <= T /\ T <= LastLBlock
    BY <1>1
  <2>2. MaxLen \in Int /\ LastLBlock \in Int
    BY SizeAssumption, Width
  <2> HIDE DEF F, L, T
  <2>3. from - F \in 1 .. MaxLen /\ from - F <= L /\ from <= LastLBlock
    BY <2>1, <2>2
  <2> QED BY <2>3 DEF F, L
<1>6. x \in Extents
  BY Zenon, <1>1, <1>3, <1>5 DEF Extents
<1>7. End64(x) = from
  BY <1>1, <1>4 DEF End64
<1>8. ValidExtent(x)
  <2>1. x.len # 0 /\ x.start + x.len - 1 <= NBlocks
    BY <1>1, <1>4, <1>5, SizeAssumption
  <2>2. End64(x) <= LastLBlock + 1
    BY <1>5, <1>7, Width
  <2> QED BY <2>1, <2>2, <1>1, <1>4 DEF ValidExtent
<1>9. ASSUME NEW l, NEW v PROVE Sends(x, l, v) <=> Sends(e, l, v) /\ l < from
  <2>1. l \in e.first .. from - 1 <=> l \in e.first .. End64(e) - 1 /\ l < from
    BY <1>1
  <2> QED BY <2>1, <1>4, <1>7 DEF Sends
<1> QED BY <1>4, <1>5, <1>6, <1>7, <1>8, <1>9 DEF Good

(* ... its last blocks ... *)
LEMMA Suffix ==
  ASSUME NEW e, Good(e), NEW to \in Int, e.first <= to, to < End64(e) - 1,
         NEW x, x = [first |-> to + 1, len |-> End64(e) - 1 - to, start |-> e.start + (to + 1 - e.first), unwritten |-> e.unwritten]
  PROVE  /\ Good(x) /\ x.first = to + 1 /\ End64(x) = End64(e)
         /\ \A l, v : Sends(x, l, v) <=> Sends(e, l, v) /\ to < l
<1>1. /\ e.first \in LBlocks /\ e.first \in Nat /\ e.len \in Nat /\ e.len >= 1 /\ e.len <= MaxLen /\ e.start \in Nat
      /\ e.start >= 1 /\ e.start + e.len - 1 <= NBlocks /\ e.start \in Blocks
      /\ End64(e) \in Nat /\ End64(e) = e.first + e.len /\ End64(e) <= LastLBlock /\ e.unwritten \in BOOLEAN
  BY GoodIs
<1>4. x.first = to + 1 /\ x.len = End64(e) - 1 - to /\ x.start = e.start + (to + 1 - e.first)
  OBVIOUS
<1>5. /\ End64(e) - 1 - to \in 1 .. MaxLen /\ to + 1 \in LBlocks /\ e.start + (to + 1 - e.first) \in Blocks
      /\ e.start + (to + 1 - e.first) + (End64(e) - 1 - to) - 1 <= NBlocks
  <2> DEFINE f == e.first
             n == e.len
             s == e.start
             z == End64(e)
  <2>1. /\ f \in Nat /\ n \in Nat /\ n >= 1 /\ n <= MaxLen /\ s \in Nat /\ s >= 1 /\ s + n - 1 <= NBlocks /\ z = f + n
        /\ z <= LastLBlock /\ f <= to /\ to < z - 1 /\ NBlocks \in Nat /\ MaxLen \in Nat /\ LastLBlock \in Nat
    BY <1>1, SizeAssumption, Width
  <2> HIDE DEF f, n, s, z
  <2>2. z - 1 - to \in 1 .. MaxLen /\ to + 1 \in 0 .. LastLBlock /\ s + (to + 1 - f) \in 1 .. NBlocks
        /\ s + (to + 1 - f) + (z - 1 - to) - 1 <= NBlocks
    BY <2>1
  <2> QED BY <2>2, Width DEF Blocks, f, n, s, z
<1>6. x \in Extents
  BY <1>1, <1>5 DEF Extents
<1>7. End64(x) = End64(e)
  BY <1>1, <1>4 DEF End64
<1>8. ValidExtent(x)
  <2>1. x.len # 0 /\ x.start + x.len - 1 <= NBlocks /\ x.start \in Blocks
    BY <1>4, <1>5
  <2>2. End64(x) <= LastLBlock + 1
    BY <1>1, <1>7, Width
  <2> QED BY <2>1, <2>2 DEF ValidExtent
<1>9. ASSUME NEW l, NEW v PROVE Sends(x, l, v) <=> Sends(e, l, v) /\ to < l
  <2>1. l \in to + 1 .. End64(e) - 1 <=> l \in e.first .. End64(e) - 1 /\ to < l
    BY <1>1
  <2>2. l \in to + 1 .. End64(e) - 1 => e.start + (to + 1 - e.first) + (l - (to + 1)) = e.start + (l - e.first)
    BY <1>1
  <2> QED BY <2>1, <2>2, <1>4, <1>7 DEF Sends
<1> QED BY <1>1, <1>4, <1>6, <1>7, <1>8, <1>9 DEF Good

(* ... and an entry grown by the next one. *)
LEMMA Joined ==
  ASSUME NEW e, Good(e), NEW r, Good(r), CanMerge(e, r), NEW x, x = [e EXCEPT !.len = @ + r.len]
  PROVE  /\ Good(x) /\ x.first = e.first /\ End64(x) = End64(r) /\ End64(e) = r.first
         /\ \A l, v : Sends(x, l, v) <=> Sends(e, l, v) \/ Sends(r, l, v)
<1>1. /\ e.first \in LBlocks /\ e.first \in Nat /\ e.len \in Nat /\ e.len >= 1 /\ e.len <= MaxLen /\ e.start \in Nat
      /\ e.start >= 1 /\ e.start + e.len - 1 <= NBlocks /\ e.start \in Blocks
      /\ End64(e) \in Nat /\ End64(e) = e.first + e.len /\ End64(e) <= LastLBlock /\ e.unwritten \in BOOLEAN
      /\ End(e) = End64(e)
  BY GoodIs
<1>2. /\ r.first \in Nat /\ r.len \in Nat /\ r.len >= 1 /\ r.start \in Nat /\ r.start + r.len - 1 <= NBlocks
      /\ End64(r) \in Nat /\ End64(r) = r.first + r.len /\ End64(r) <= LastLBlock
  BY GoodIs
<1>3. End64(e) = r.first /\ e.len + r.len <= MaxLen /\ e.start + e.len = r.start
  BY <1>1, <1>2, SizeAssumption DEF CanMerge, MaxLenFor
<1>4. e = [first |-> e.first, len |-> e.len, start |-> e.start, unwritten |-> e.unwritten]
  BY DEF Good, Extents
<1>5. x = [first |-> e.first, len |-> e.len + r.len, start |-> e.start, unwritten |-> e.unwritten]
  BY <1>4
<1>6. x.first = e.first /\ x.len = e.len + r.len /\ x.start = e.start
  BY <1>5
<1>7. e.len + r.len \in 1 .. MaxLen /\ e.start + (e.len + r.len) - 1 <= NBlocks
  BY <1>1, <1>2, <1>3, SizeAssumption
<1>8. x \in Extents
  BY Zenon, <1>1, <1>5, <1>7 DEF Extents
<1>9. End64(x) = End64(r)
  <2>1. e.first + (e.len + r.len) = End64(r)
    BY <1>1, <1>2, <1>3
  <2>2. End64(x) = e.first + (e.len + r.len)
    BY <1>6 DEF End64
  <2> QED BY <2>1, <2>2
<1>10. ValidExtent(x)
  <2>1. x.len # 0 /\ x.start + x.len - 1 <= NBlocks /\ x.start \in Blocks
    BY <1>1, <1>6, <1>7
  <2>2. End64(x) <= LastLBlock + 1
    BY <1>2, <1>9, Width
  <2> QED BY <2>1, <2>2 DEF ValidExtent
<1>11. ASSUME NEW l, NEW v PROVE Sends(x, l, v) <=> Sends(e, l, v) \/ Sends(r, l, v)
  <2>1. l \in e.first .. End64(r) - 1 <=> l \in e.first .. End64(e) - 1 \/ l \in r.first .. End64(r) - 1
    BY <1>1, <1>2, <1>3
  <2>2. l \in r.first .. End64(r) - 1 => r.start + (l - r.first) = e.start + (l - e.first)
    BY <1>1, <1>2, <1>3
  <2> QED BY <2>1, <2>2, <1>6, <1>9 DEF Sends
<1> QED BY <1>2, <1>3, <1>6, <1>8, <1>9, <1>10, <1>11 DEF Good

(* from..to cuts entry p of leaf n, at one of its ends at least, and meets no
   other entry. *)
Cuts(b, n, p, from, to) ==
    /\ Fit(b, n) /\ n.depth = 0 /\ p \in 1 .. Len(n.ents) /\ from \in Int /\ to \in Int
    /\ from <= to /\ n.ents[p].first <= to /\ to <= End64(n.ents[p]) - 1
    /\ from <= n.ents[p].first \/ to = End64(n.ents[p]) - 1
    /\ \A q \in 1 .. Len(n.ents) : q < p => End64(n.ents[q]) <= from

(* remove_leaf's rewrite *)
Trimmed(n, p, from, to) ==
    [depth |-> 0,
     ents |-> SubSeq(n.ents, 1, p - 1) \o Trim(n.ents[p], from, to) \o SubSeq(n.ents, p + 1, Len(n.ents))]

(* Nothing in from..to is mapped any more, and all else is. *)
LEMMA LeafTrim ==
  ASSUME NEW b, NEW n, NEW p, NEW from, NEW to, Cuts(b, n, p, from, to), NEW t, t = Trimmed(n, p, from, to)
  PROVE  /\ Fit(b, t) /\ t.depth = 0 /\ n.ents # <<>>
         /\ p # 1 => t.ents # <<>> /\ t.ents[1] = n.ents[1]
         /\ \A l, v : Gives(t, l, v) <=> Gives(n, l, v) /\ l \notin from .. to
<1> DEFINE E == n.ents
           N == Len(E)
           T == t.ents
           e == E[p]
           Others(l, v) == \E q \in 1 .. N : q # p /\ Sends(E[q], l, v)
<1>1. /\ E \in Seq(Extents) /\ N \in Nat /\ N <= MaxEntries(b) /\ MaxEntries(b) \in Nat
      /\ \A q \in 1 .. N : Good(E[q])
      /\ \A q, r \in 1 .. N : q < r => End64(E[q]) <= E[r].first
  BY LeafParts DEF Cuts
<1>2. /\ Good(e) /\ p \in 1 .. N /\ e = E[p] /\ p \in Int /\ from \in Int /\ to \in Int /\ from <= to
      /\ e.first <= to /\ to <= End64(e) - 1 /\ (from <= e.first \/ to = End64(e) - 1)
  BY <1>1 DEF Cuts
<1>3. /\ e.first \in Nat /\ End64(e) \in Nat /\ e.first < End64(e)
  BY <1>2, GoodIs
<1>4. Fit(b, n) /\ n.depth = 0 /\ t.depth = 0 /\ t = [depth |-> 0, ents |-> t.ents]
      /\ T = SubSeq(E, 1, p - 1) \o Trim(e, from, to) \o SubSeq(E, p + 1, N)
  BY Zenon DEF Trimmed, Cuts
<1>5. \A q \in 1 .. N : /\ q < p => End64(E[q]) <= from /\ End64(E[q]) <= e.first
                        /\ q > p => End64(e) <= E[q].first
                        /\ E[q].first \in Nat /\ End64(E[q]) \in Nat /\ q \in Int
  <2> SUFFICES ASSUME NEW q \in 1 .. N
               PROVE  /\ q < p => End64(E[q]) <= from /\ End64(E[q]) <= e.first
                      /\ q > p => End64(e) <= E[q].first
                      /\ E[q].first \in Nat /\ End64(E[q]) \in Nat /\ q \in Int
    OBVIOUS
  <2>0. \A r \in 1 .. N : r < p => End64(E[r]) <= from
    BY DEF Cuts
  <2> DEFINE x == E[q]
  <2>1. Good(x)
    BY <1>1
  <2> HIDE DEF x
  <2>2. x.first \in Nat /\ End64(x) \in Nat
    BY <2>1, GoodIs
  <2> QED BY <2>0, <2>2, <1>1, <1>2 DEF x
<1> HIDE DEF T, E, N, e
<1>6. ASSUME NEW l, NEW v PROVE Gives(n, l, v) <=> Others(l, v) \/ Sends(e, l, v)
  <2>1. Gives(n, l, v) <=> \E q \in 1 .. N : Sends(E[q], l, v)
    BY DEF Gives, E, N
  <2> QED BY <2>1, <1>2
<1>7. ASSUME NEW l, NEW v, Others(l, v) PROVE l \notin from .. to
  <2>1. PICK q \in 1 .. N : q # p /\ Sends(E[q], l, v)
    BY <1>7
  <2>2. l \in E[q].first .. End64(E[q]) - 1 /\ E[q].first \in Nat /\ End64(E[q]) \in Nat
    BY <2>1, <1>5 DEF Sends
  <2>3. q < p \/ q > p
    BY <2>1, <1>2, <1>5
  <2>4. CASE q < p
    <3>1. End64(E[q]) <= from
      BY <2>4, <1>5
    <3> QED BY <3>1, <2>2, <1>2
  <2>5. CASE q > p
    <3>1. End64(e) <= E[q].first
      BY <2>5, <1>5
    <3> QED BY <3>1, <2>2, <1>2, <1>3
  <2> QED BY <2>3, <2>4, <2>5
<1>8. E # <<>>
  <2>1. N # 0
    BY <1>1, <1>2
  <2> QED BY <2>1, EmptySeq DEF N
<1>9. ASSUME NEW x, Good(x), e.first <= x.first, End64(x) <= End64(e), Trim(e, from, to) = <<x>>,
             \A l, v : Sends(x, l, v) <=> Sends(e, l, v) /\ l \notin from .. to
      PROVE  /\ Fit(b, t) /\ (p # 1 => t.ents # <<>> /\ t.ents[1] = E[1])
             /\ \A l, v : Gives(t, l, v) <=> Gives(n, l, v) /\ l \notin from .. to
  <2>1. x \in Extents /\ x.first \in Nat /\ End64(x) \in Nat
    <3>1. x.first \in Nat /\ End64(x) \in Nat
      BY <1>9, GoodIs
    <3> QED BY <3>1, <1>9 DEF Good
  <2>2. Swapped(Extents, E, p, x, T)
    <3>1. E \in Seq(Extents) /\ p \in 1 .. Len(E)
      BY <1>1, <1>2 DEF N
    <3>2. Swapped(Extents, E, p, x, SubSeq(E, 1, p - 1) \o <<x>> \o SubSeq(E, p + 1, Len(E)))
      BY Zenon, <3>1, <2>1, SpliceIs
    <3> QED BY <3>2, <1>4, <1>9 DEF N
  <2>3. t = [depth |-> 0, ents |-> t.ents] /\ Swapped(Extents, n.ents, p, x, t.ents)
    BY Zenon, <2>2, <1>4 DEF T, E
  <2>4. \A q \in 1 .. Len(n.ents) : q < p => End64(n.ents[q]) <= x.first
    BY <2>1, <1>3, <1>5, <1>9 DEF E, N
  <2>5. \A q \in 1 .. Len(n.ents) : q > p => End64(x) <= n.ents[q].first
    BY <2>1, <1>3, <1>5, <1>9 DEF E, N
  <2>6. /\ Fit(b, t) /\ t.depth = 0 /\ t.ents # <<>> /\ Len(t.ents) = Len(n.ents) /\ n.ents # <<>>
        /\ t.ents[1] = IF p = 1 THEN x ELSE n.ents[1]
        /\ \A l, v : Gives(t, l, v) <=> (\E q \in 1 .. Len(n.ents) : q # p /\ Sends(n.ents[q], l, v)) \/ Sends(x, l, v)
    <3>1. p \in 1 .. Len(n.ents) /\ Fit(b, n) /\ n.depth = 0
      BY <1>2, <1>4 DEF N, E
    <3>2. Before(n, p, x) /\ Beyond(n, p, x)
      BY <2>4, <2>5 DEF Before, Beyond
    <3> QED BY <3>1, <3>2, <2>3, <1>9, LeafReplace DEF Instead
  <2>7. \A l, v : Gives(t, l, v) <=> Others(l, v) \/ Sends(x, l, v)
    BY <2>6 DEF E, N
  <2>8. \A l, v : Gives(t, l, v) <=> Gives(n, l, v) /\ l \notin from .. to
    <3> HIDE DEF Others
    <3> QED BY <2>7, <1>6, <1>7, <1>9
  <2> QED BY <2>6, <2>8 DEF E
<1>10. CASE e.first < from
  <2> DEFINE x == [e EXCEPT !.len = from - e.first]
  <2>1. to = End64(e) - 1 /\ from <= End64(e)
    BY <1>2, <1>3, <1>10
  <2>2. Trim(e, from, to) = <<x>>
    BY <1>10 DEF Trim
  <2> HIDE DEF x
  <2>3. Good(x) /\ x.first = e.first /\ End64(x) = from
         /\ \A l, v : Sends(x, l, v) <=> Sends(e, l, v) /\ l < from
    BY <2>1, <1>2, <1>10, Prefix DEF x
  <2>4. ASSUME NEW l, NEW v PROVE Sends(x, l, v) <=> Sends(e, l, v) /\ l \notin from .. to
    <3>1. l \in e.first .. End64(e) - 1 => (l < from <=> l \notin from .. to)
      BY <2>1, <1>2, <1>3
    <3> QED BY Zenon, <3>1, <2>3 DEF Sends
  <2>5. e.first <= x.first /\ End64(x) <= End64(e)
    BY <2>1, <2>3, <1>2, <1>3
  <2> QED BY <2>2, <2>3, <2>4, <2>5, <1>8, <1>9, <1>4 DEF E
<1>11. CASE ~(e.first < from) /\ End64(e) - 1 > to
  <2> DEFINE x == [e EXCEPT !.first = to + 1, !.len = End64(e) - 1 - to, !.start = e.start + (to + 1 - e.first)]
  <2>1. to < End64(e) - 1
    BY <1>2, <1>3, <1>11
  <2>2. Trim(e, from, to) = <<x>>
    BY <1>11 DEF Trim
  <2>8. x = [e EXCEPT !.first = to + 1, !.len = End64(e) - 1 - to, !.start = e.start + (to + 1 - e.first)]
    OBVIOUS
  <2> HIDE DEF x
  <2>9. x = [first |-> to + 1, len |-> End64(e) - 1 - to, start |-> e.start + (to + 1 - e.first), unwritten |-> e.unwritten]
    <3>1. e \in Extents
      BY <1>2 DEF Good
    <3> DEFINE a == to + 1
               m == End64(e) - 1 - to
               c == e.start + (to + 1 - e.first)
    <3>2. x = [e EXCEPT !.first = a, !.len = m, !.start = c]
      BY <2>8
    <3> HIDE DEF a, m, c
    <3>3. x = [first |-> a, len |-> m, start |-> c, unwritten |-> e.unwritten]
      <4>1. e = [first |-> e.first, len |-> e.len, start |-> e.start, unwritten |-> e.unwritten]
        BY <3>1 DEF Extents
      <4> QED BY Zenon, <3>2, <4>1
    <3> QED BY <3>3 DEF a, m, c
  <2>3. Good(x) /\ x.first = to + 1 /\ End64(x) = End64(e)
         /\ \A l, v : Sends(x, l, v) <=> Sends(e, l, v) /\ to < l
    <3>1. Good(e) /\ to \in Int /\ e.first <= to
      BY <1>2
    <3> QED BY <3>1, <2>1, <2>9, Suffix
  <2>4. ASSUME NEW l, NEW v PROVE Sends(x, l, v) <=> Sends(e, l, v) /\ l \notin from .. to
    <3>1. l \in e.first .. End64(e) - 1 => (to < l <=> l \notin from .. to)
      BY <1>2, <1>3, <1>11
    <3> QED BY Zenon, <3>1, <2>3 DEF Sends
  <2>5. e.first <= x.first /\ End64(x) <= End64(e)
    BY <2>3, <1>2, <1>3
  <2> QED BY <2>2, <2>3, <2>4, <2>5, <1>8, <1>9, <1>4 DEF E
<1>12. CASE ~(e.first < from) /\ ~(End64(e) - 1 > to)
  <2>1. Trim(e, from, to) = <<>>
    BY <1>12 DEF Trim
  <2>2. T \in Seq(Extents) /\ Len(T) = N - 1 /\ \A q \in 1 .. N - 1 : T[q] = IF q < p THEN E[q] ELSE E[q + 1]
    <3>1. E \in Seq(Extents) /\ p \in 1 .. Len(E)
      BY <1>1, <1>2 DEF N
    <3>2. LET w == SubSeq(E, 1, p - 1) \o <<>> \o SubSeq(E, p + 1, Len(E))
          IN  w \in Seq(Extents) /\ Len(w) = Len(E) - 1 /\ \A q \in 1 .. Len(E) - 1 : w[q] = IF q < p THEN E[q] ELSE E[q + 1]
      BY Zenon, <3>1, SpliceIs
    <3> QED BY Zenon, <3>2, <2>1, <1>4 DEF N
  <2>3. \A q \in 1 .. N - 1 : q \in 1 .. N /\ q + 1 \in 1 .. N /\ q \in Int
    BY <1>1
  <2>4. \A q \in 1 .. N - 1 : Good(T[q])
    BY <2>2, <2>3, <1>1
  <2>5. ASSUME NEW q \in 1 .. N - 1, NEW r \in 1 .. N - 1, q < r PROVE End64(T[q]) <= T[r].first
    <3> DEFINE a == IF q < p THEN q ELSE q + 1
               z == IF r < p THEN r ELSE r + 1
    <3>1. T[q] = E[a] /\ T[r] = E[z]
      BY <2>2
    <3>2. a \in 1 .. N /\ z \in 1 .. N /\ a < z
      BY <2>3, <2>5, <1>2
    <3> HIDE DEF a, z
    <3> QED BY <3>1, <3>2, <1>1
  <2>6. Fit(b, t)
    <3>1. t = [depth |-> 0, ents |-> t.ents] /\ t.ents \in Seq(Extents) /\ Len(t.ents) <= MaxEntries(b)
      <4>1. N - 1 <= MaxEntries(b)
        BY <1>1
      <4> QED BY Zenon, <4>1, <1>4, <2>2 DEF T
    <3>2. \A q \in 1 .. Len(t.ents) : Good(t.ents[q])
      BY <2>2, <2>4 DEF T
    <3>3. \A q, r \in 1 .. Len(t.ents) : q < r => End64(t.ents[q]) <= t.ents[r].first
      BY <2>2, <2>5 DEF T
    <3> QED BY <3>1, <3>2, <3>3, LeafFit
  <2>7. p # 1 => T # <<>> /\ T[1] = E[1]
    <3> SUFFICES ASSUME p # 1 PROVE T # <<>> /\ T[1] = E[1]
      OBVIOUS
    <3>1. 1 \in 1 .. N - 1 /\ 1 < p /\ N - 1 # 0
      BY <1>1, <1>2
    <3> QED BY <3>1, <2>2, EmptySeq
  <2>8. ASSUME NEW l, NEW v PROVE Gives(t, l, v) <=> Others(l, v)
    <3>1. Gives(t, l, v) <=> \E q \in 1 .. N - 1 : Sends(T[q], l, v)
      BY <2>2 DEF Gives, T
    <3>2. ASSUME NEW q \in 1 .. N - 1, Sends(T[q], l, v) PROVE Others(l, v)
      <4> DEFINE a == IF q < p THEN q ELSE q + 1
      <4>1. T[q] = E[a]
        BY <2>2
      <4>2. a \in 1 .. N /\ a # p
        BY <2>3, <1>2
      <4> HIDE DEF a
      <4> QED BY <4>1, <4>2, <3>2
    <3>3. ASSUME NEW q \in 1 .. N, q # p, Sends(E[q], l, v) PROVE \E r \in 1 .. N - 1 : Sends(T[r], l, v)
      <4> DEFINE a == IF q < p THEN q ELSE q - 1
      <4>1. a \in 1 .. N - 1 /\ q = (IF a < p THEN a ELSE a + 1)
        BY <3>3, <1>1, <1>2
      <4> HIDE DEF a
      <4>2. T[a] = E[q]
        BY <4>1, <2>2
      <4> QED BY <4>1, <4>2, <3>3
    <3> QED BY <3>1, <3>2, <3>3
  <2>9. ASSUME NEW l, NEW v, Sends(e, l, v) PROVE l \in from .. to
    <3>1. l \in e.first .. End64(e) - 1
      BY <2>9 DEF Sends
    <3> QED BY <3>1, <1>2, <1>3, <1>12
  <2>10. \A l, v : Gives(t, l, v) <=> Gives(n, l, v) /\ l \notin from .. to
    <3> HIDE DEF Others
    <3> QED BY <2>8, <2>9, <1>6, <1>7
  <2> QED BY Zenon, <2>6, <2>7, <2>10, <1>4, <1>8 DEF T, E
<1> QED BY <1>10, <1>11, <1>12

-----------------------------------------------------------------------------
(* A run of holes is filled, a range is emptied. *)

(* Holes up to x are looked for where lo is. *)
LEMMA GapOn ==
  ASSUME NEW nd, NEW R, Tree(nd, R), Neat(nd, R, {}), NEW lo \in LBlocks, NEW x \in LBlocks, lo <= x,
         \A y \in LBlocks : lo < y /\ y <= x => Lookup(nd, y) = Hole
  PROVE  \A c : On(nd, lo, c) => On(nd, x, c)
<1>1. Shape(nd, R) /\ lo \in Int /\ x \in Int
  BY Width DEF Tree
<1> DEFINE S == {c \in R : On(nd, x, c)}
<1>2. Root \in S
  BY <1>1, OnIs DEF Shape
<1>3. ASSUME NEW b \in S, On(nd, lo, b), ~ Ends(nd[b]) PROVE Toward(nd, b, lo) \in S
  <2> DEFINE E == nd[b].ents
             p == SearchPos(E, lo)
             q == SearchPos(E, x)
  <2>1. b \in R /\ On(nd, x, b)
    OBVIOUS
  <2>2. p \in 1 .. Len(E) /\ At(E, lo, p)
    BY <1>1, <1>3, <2>1, TowardIs
  <2>3. q \in 1 .. Len(E) /\ At(E, x, q) /\ Slot(nd, b, q, Toward(nd, b, x))
    BY <1>1, <1>3, <2>1, TowardIs
  <2>4. E[q].first \in LBlocks /\ E[q].first \in Int /\ E[p].first \in Int /\ p \in Int /\ q \in Int
    <3>1. Fit(b, nd[b])
      BY <1>1, <2>1 DEF Shape
    <3>2. E[q].first \in LBlocks /\ E[p].first \in LBlocks
      BY Zenon, <3>1, <2>2, <2>3, EntryIs
    <3> QED BY <3>2, <2>2, <2>3, Width
  <2>5. Lookup(nd, E[q].first) # Hole
    BY <2>1, <2>3, SeparatorMapped
  <2> HIDE DEF E, p, q
  <2>6. p = q
    <3>1. ~(p < q)
      <4> SUFFICES ASSUME p < q PROVE FALSE
        OBVIOUS
      <4>1. q \in p + 1 .. Len(E) /\ q # 1
        BY <2>2, <2>3, <2>4
      <4>2. lo < E[q].first /\ E[q].first <= x
        BY <4>1, <2>2, <2>3 DEF At
      <4> QED BY <4>2, <2>4, <2>5
    <3>2. ~(q < p)
      <4> SUFFICES ASSUME q < p PROVE FALSE
        OBVIOUS
      <4>1. p \in q + 1 .. Len(E) /\ p # 1
        BY <2>2, <2>3, <2>4
      <4>2. x < E[p].first /\ E[p].first <= lo
        BY <4>1, <2>2, <2>3 DEF At
      <4> QED BY <4>2, <2>4, <1>1
    <3> QED BY <3>1, <3>2, <2>4
  <2>7. Toward(nd, b, lo) = Toward(nd, b, x)
    BY <2>6 DEF Toward, p, q, E
  <2>8. On(nd, x, Toward(nd, b, x)) /\ Toward(nd, b, x) \in R
    BY <1>1, <1>3, <2>1, OnIs
  <2> QED BY <2>7, <2>8
<1>4. \A b \in S : On(nd, lo, b) /\ ~ Ends(nd[b]) => Toward(nd, b, lo) \in S
  BY <1>3
<1>5. \A b : On(nd, lo, b) => b \in S
  <2> HIDE DEF S
  <2> QED BY <1>1, <1>2, <1>4, OnInduct
<1> QED BY <1>5

(* Leaves that give the same answer the same. *)
LEMMA SameAnswer ==
  ASSUME NEW b, NEW n, Fit(b, n), NEW t, Fit(b, t), n.depth = 0, t.depth = 0, NEW l \in LBlocks,
         \A v : Gives(t, l, v) <=> Gives(n, l, v)
  PROVE  Answer(t, l) = Answer(n, l)
<1> DEFINE x == Answer(t, l)
           y == Answer(n, l)
<1>1. (x = y /\ y # Hole) <=> Gives(t, l, y)
  BY AnswerGives
<1>2. (x = x /\ x # Hole) <=> Gives(t, l, x)
  BY AnswerGives
<1>3. (y = y /\ y # Hole) <=> Gives(n, l, y)
  BY AnswerGives
<1>4. (y = x /\ x # Hole) <=> Gives(n, l, x)
  BY AnswerGives
<1> HIDE DEF x, y
<1>5. x = y
  BY <1>1, <1>2, <1>3, <1>4
<1> QED BY <1>5 DEF x, y

(* A leaf answers Hole where it gives nothing. *)
LEMMA NoAnswer ==
  ASSUME NEW b, NEW n, Fit(b, n), n.depth = 0, NEW l \in LBlocks, \A v : ~ Gives(n, l, v)
  PROVE  Answer(n, l) = Hole
<1> DEFINE x == Answer(n, l)
<1>1. (x = x /\ x # Hole) <=> Gives(n, l, x)
  BY AnswerGives
<1> QED BY <1>1

(* An entry's key is given. *)
LEMMA KeyGives ==
  ASSUME NEW n, n.depth = 0, NEW p \in 1 .. Len(n.ents), NEW l \in Keys(n, p)
  PROVE  Gives(n, l, n.ents[p].start + (l - n.ents[p].first))
<1>1. Keys(n, p) = n.ents[p].first .. End64(n.ents[p]) - 1
  BY DEF Keys
<1> QED BY <1>1 DEF Gives, Sends

(* What a leaf gives lookups reach. *)
LEMMA GivesOn ==
  ASSUME NEW nd, NEW R, Tree(nd, R), NEW b \in R, nd[b].depth = 0, NEW l, NEW v, Gives(nd[b], l, v)
  PROVE  l \in LBlocks /\ On(nd, l, b) /\ Lookup(nd, l) = v /\ v # Hole
<1>1. PICK p \in 1 .. Len(nd[b].ents) : Sends(nd[b].ents[p], l, v)
  BY DEF Gives
<1>2. nd[b].depth = 0 /\ l \in Keys(nd[b], p) /\ v = nd[b].ents[p].start + (l - nd[b].ents[p].first)
  BY <1>1 DEF Sends, Keys
<1>3. l \in LBlocks /\ On(nd, l, b)
  BY <1>2, KeyOn
<1>4. Maps(nd, R, l, v)
  BY <1>2 DEF Maps
<1> QED BY <1>3, <1>4, LookupMaps

(* The leaf t is nd[b] with the run at lo..hi. *)
Grown(nd, b, lo, hi, first, t) ==
    /\ Fit(b, t) /\ t.depth = 0
    /\ \A l, v : Gives(t, l, v) <=> Gives(nd[b], l, v) \/ (l \in lo .. hi /\ v = first + (l - lo))

AllHoles(nd, lo, hi) == \A l \in lo .. hi : Lookup(nd, l) = Hole

(* What the run is in for lookups. *)
RunAdded(nd, md, lo, hi, first) ==
    \A l \in LBlocks : Lookup(md, l) = IF l \in lo .. hi THEN first + (l - lo) ELSE Lookup(nd, l)

SameFirst(n, t) == t.ents # <<>> /\ n.ents # <<>> /\ t.ents[1].first = n.ents[1].first

(* insert_extent: a leaf takes a run of holes. *)
LEMMA AddRun ==
  ASSUME NEW nd, NEW R, Tree(nd, R), Neat(nd, R, {}), NEW lo \in LBlocks, NEW hi \in LBlocks, lo <= hi, NEW first,
         AllHoles(nd, lo, hi), NEW b, b = Landing(nd, lo), nd[b].depth = 0,
         NEW n, Grown(nd, b, lo, hi, first, n), NEW md, Put(nd, b, n, md)
  PROVE  /\ Tree(md, R) /\ b \in R /\ RunAdded(nd, md, lo, hi, first) /\ Neat(md, R, {b})
         /\ (b = Root \/ SameFirst(nd[b], n)) => Neat(md, R, {})
<1> USE DEF AllHoles, Grown, RunAdded, SameFirst
<1>1. Shape(nd, R) /\ lo \in Int /\ hi \in Int
  BY Width DEF Tree
<1>2. On(nd, lo, b) /\ b \in R
  BY <1>1, OnIs
<1>3. Fit(b, nd[b])
  BY <1>1, <1>2 DEF Shape
<1>4. ASSUME NEW l \in lo .. hi PROVE l \in LBlocks /\ On(nd, l, b)
  <2>1. l \in LBlocks /\ lo <= l
    BY <1>1, Width
  <2>2. \A y \in LBlocks : lo < y /\ y <= l => Lookup(nd, y) = Hole
    <3> SUFFICES ASSUME NEW y \in LBlocks, lo < y, y <= l PROVE y \in lo .. hi
      OBVIOUS
    <3>1. y \in Int
      BY Width
    <3> QED BY <3>1, <1>1
  <2>3. \A c : On(nd, lo, c) => On(nd, l, c)
    BY <2>1, <2>2, GapOn
  <2> QED BY <2>1, <2>3, <1>2
<1>5. \A p \in 1 .. Len(n.ents) : \A l \in Keys(n, p) : On(nd, l, b)
  <2> SUFFICES ASSUME NEW p \in 1 .. Len(n.ents), NEW l \in Keys(n, p) PROVE On(nd, l, b)
    OBVIOUS
  <2> DEFINE v == n.ents[p].start + (l - n.ents[p].first)
  <2>1. Gives(n, l, v)
    BY KeyGives
  <2> HIDE DEF v
  <2>2. Gives(nd[b], l, v) \/ l \in lo .. hi
    BY <2>1
  <2> QED BY Zenon, <2>2, <1>2, <1>4, GivesOn
<1> DEFINE X == {}
           Y == {b}
<1>6. /\ Tree(md, R)
      /\ \A l \in LBlocks : Lookup(md, l) = IF On(nd, l, b) THEN Answer(n, l) ELSE Lookup(nd, l)
      /\ \A l \in LBlocks : On(nd, l, b) => Lookup(nd, l) = Answer(nd[b], l)
      /\ Neat(md, R, X \cup {b})
      /\ (b = Root \/ (n.ents # <<>> /\ nd[b].ents # <<>> /\ n.ents[1].first = nd[b].ents[1].first)) => Neat(md, R, X)
  <2>1. Neat(nd, R, X)
    OBVIOUS
  <2> HIDE DEF X
  <2> QED BY <2>1, <1>2, <1>5, LeafWrite
<1>7. ASSUME NEW l \in LBlocks PROVE Lookup(md, l) = IF l \in lo .. hi THEN first + (l - lo) ELSE Lookup(nd, l)
  <2>1. CASE l \in lo .. hi
    <3> DEFINE v == first + (l - lo)
    <3>1. Gives(n, l, v) /\ On(nd, l, b)
      BY <2>1, <1>4
    <3> HIDE DEF v
    <3>2. Answer(n, l) = v
      BY <3>1, AnswerGives
    <3> QED BY <2>1, <3>1, <3>2, <1>6 DEF v
  <2>2. CASE l \notin lo .. hi /\ On(nd, l, b)
    <3> DEFINE x == nd[b]
    <3>1. Fit(b, x) /\ x.depth = 0 /\ \A v : Gives(n, l, v) <=> Gives(x, l, v)
      BY <2>2, <1>3
    <3> HIDE DEF x
    <3>2. Answer(n, l) = Answer(x, l)
      BY <3>1, SameAnswer
    <3> QED BY <2>2, <3>2, <1>6 DEF x
  <2>3. CASE l \notin lo .. hi /\ ~ On(nd, l, b)
    BY <2>3, <1>6
  <2> QED BY <2>1, <2>2, <2>3
<1>8. Neat(md, R, {b})
  <2>1. X \cup {b} = {b}
    OBVIOUS
  <2> QED BY <2>1, <1>6
<1> QED BY <1>2, <1>6, <1>7, <1>8

(* Nothing in from..to is left of what n maps. *)
CutOut(n, from, to, t) == \A l, v : Gives(t, l, v) <=> Gives(n, l, v) /\ l \notin from .. to
AllOn(nd, from, to, b) == \A l \in from .. to : On(nd, l, b)
CutAway(nd, md, from, to) == \A l \in LBlocks : Lookup(md, l) = IF l \in from .. to THEN Hole ELSE Lookup(nd, l)

(* remove_space: a leaf gives up a range that is looked for in it. *)
LEMMA CutRun ==
  ASSUME NEW nd, NEW R, Tree(nd, R), Neat(nd, R, {}), NEW from \in LBlocks, NEW to \in LBlocks,
         NEW b \in R, nd[b].depth = 0, AllOn(nd, from, to, b),
         NEW n, Fit(b, n), n.depth = 0, CutOut(nd[b], from, to, n), NEW md, Put(nd, b, n, md)
  PROVE  /\ Tree(md, R) /\ CutAway(nd, md, from, to) /\ Neat(md, R, {b})
         /\ (b = Root \/ SameFirst(nd[b], n)) => Neat(md, R, {})
<1>1. Shape(nd, R) /\ from \in Int /\ to \in Int
  BY Width DEF Tree
<1>3. Fit(b, nd[b])
  BY <1>1 DEF Shape
<1>5. \A p \in 1 .. Len(n.ents) : \A l \in Keys(n, p) : On(nd, l, b)
  <2> SUFFICES ASSUME NEW p \in 1 .. Len(n.ents), NEW l \in Keys(n, p) PROVE On(nd, l, b)
    OBVIOUS
  <2> DEFINE v == n.ents[p].start + (l - n.ents[p].first)
  <2>1. Gives(n, l, v)
    BY KeyGives
  <2> HIDE DEF v
  <2>2. Gives(nd[b], l, v)
    BY <2>1 DEF CutOut
  <2> QED BY Zenon, <2>2, GivesOn
<1> DEFINE X == {}
<1>6. /\ Tree(md, R)
      /\ \A l \in LBlocks : Lookup(md, l) = IF On(nd, l, b) THEN Answer(n, l) ELSE Lookup(nd, l)
      /\ \A l \in LBlocks : On(nd, l, b) => Lookup(nd, l) = Answer(nd[b], l)
      /\ Neat(nd, R, X) => Neat(md, R, X \cup {b})
      /\ Neat(nd, R, X) /\ (b = Root \/ (n.ents # <<>> /\ nd[b].ents # <<>> /\ n.ents[1].first = nd[b].ents[1].first))
            => Neat(md, R, X)
  <2> HIDE DEF X
  <2> QED BY <1>5, LeafWrite
<1>7. ASSUME NEW l \in LBlocks PROVE Lookup(md, l) = IF l \in from .. to THEN Hole ELSE Lookup(nd, l)
  <2>1. CASE l \in from .. to
    <3>1. \A v : ~ Gives(n, l, v)
      BY <2>1 DEF CutOut
    <3>2. Answer(n, l) = Hole
      BY <3>1, NoAnswer
    <3> QED BY <2>1, <3>2, <1>6 DEF AllOn
  <2>2. CASE l \notin from .. to /\ On(nd, l, b)
    <3> DEFINE x == nd[b]
    <3>1. Fit(b, x) /\ x.depth = 0 /\ \A v : Gives(n, l, v) <=> Gives(x, l, v)
      BY <2>2, <1>3 DEF CutOut
    <3> HIDE DEF x
    <3>2. Answer(n, l) = Answer(x, l)
      BY <3>1, SameAnswer
    <3> QED BY <2>2, <3>2, <1>6 DEF x
  <2>3. CASE l \notin from .. to /\ ~ On(nd, l, b)
    BY <2>3, <1>6
  <2> QED BY <2>1, <2>2, <2>3
<1>8. X \cup {b} = {b}
  OBVIOUS
<1> QED BY <1>6, <1>7, <1>8 DEF CutAway, SameFirst

-----------------------------------------------------------------------------
(* The next extent. *)

(* The first leaf entry below c has the separator of c, if the walk gets there. *)
LEMMA LeftmostIs ==
  ASSUME NEW nd, NEW R, Tree(nd, R), Neat(nd, R, {}), NEW c \in R \ {Root}, nd[c].ents # <<>>,
         NEW K, K = nd[c].ents[1].first, NEW d \in 0 .. MaxDepth
  PROVE  LeftmostBelow(nd, c, d) = NoEntry \/ LeftmostBelow(nd, c, d).first = K
<1>1. Shape(nd, R) /\ MaxDepth \in Nat
  BY SizeAssumption DEF Tree
<1> DEFINE good(x) == ValidHeader(x, nd[x]) /\ ValidEntries(nd[x]) /\ nd[x].ents # <<>>
           below(x) == IF good(x) /\ nd[x].depth > 0 THEN nd[x].ents[1].child ELSE x
           down == [x \in Blocks |-> below(x)]
           V == {x \in R \ {Root} : nd[x].ents # <<>> /\ nd[x].ents[1].first = K}
           step == [x \in V |-> below(x)]
           Is(f) == f = [k \in 0 .. MaxDepth |-> IF k = 0 THEN c ELSE down[f[k - 1]]]
<1>2. V \subseteq Blocks
  BY <1>1 DEF Shape, Places
<1>3. ASSUME NEW x \in V PROVE below(x) \in V
  <2>1. CASE good(x) /\ nd[x].depth > 0
    <3> DEFINE y == nd[x].ents[1].child
    <3>1. Len(nd[x].ents) \in Nat /\ Len(nd[x].ents) # 0
      BY <1>1, DepthIs
    <3>2. Slot(nd, x, 1, y)
      BY <2>1, <3>1 DEF Slot
    <3>3. y \in R \ {Root}
      <4> HIDE DEF y
      <4> QED BY <3>2, <1>1, SlotIs
    <3>4. nd[y].ents # <<>> /\ nd[y].ents[1].first = nd[x].ents[1].first
      <4> HIDE DEF y
      <4> QED BY <3>1, <3>2, <3>3 DEF Neat
    <3> QED BY <2>1, <3>3, <3>4
  <2>2. CASE ~(good(x) /\ nd[x].depth > 0)
    BY <2>2
  <2> QED BY <2>1, <2>2
<1>4. step \in [V -> V] /\ c \in V
  BY <1>3
<1> HIDE DEF below
<1>5. Runs(V, c, MaxDepth, step) # {}
  <2> HIDE DEF V, step
  <2> QED BY <1>1, <1>4, Recursion
<1>6. PICK f \in [0 .. MaxDepth -> V] : f[0] = c /\ \A k \in 1 .. MaxDepth : f[k] = below(f[k - 1])
  <2>1. PICK f \in Runs(V, c, MaxDepth, step) : TRUE
    BY Zenon, <1>5
  <2>2. f \in [0 .. MaxDepth -> V] /\ f[0] = c /\ \A k \in 1 .. MaxDepth : f[k] = step[f[k - 1]]
    BY <2>1 DEF Runs
  <2>3. ASSUME NEW k \in 1 .. MaxDepth PROVE f[k] = below(f[k - 1])
    <3>1. k - 1 \in 0 .. MaxDepth
      BY <1>1
    <3>2. f[k - 1] \in V
      BY <2>2, <3>1
    <3> HIDE DEF V
    <3> QED BY <2>2, <3>2
  <2> HIDE DEF V
  <2> QED BY Zenon, <2>2, <2>3
<1> HIDE DEF V
<1>7. Is(f)
  <2>1. \A k \in 0 .. MaxDepth : f[k] = IF k = 0 THEN c ELSE down[f[k - 1]]
    <3> SUFFICES ASSUME NEW k \in 0 .. MaxDepth PROVE f[k] = IF k = 0 THEN c ELSE down[f[k - 1]]
      OBVIOUS
    <3>1. CASE k = 0
      BY <1>6, <3>1
    <3>2. CASE k # 0
      <4>1. k \in 1 .. MaxDepth /\ k - 1 \in 0 .. MaxDepth
        BY <1>1, <3>2
      <4>2. f[k] = below(f[k - 1]) /\ f[k - 1] \in Blocks
        BY <4>1, <1>2, <1>6
      <4> QED BY <3>2, <4>2
    <3> QED BY <3>1, <3>2
  <2> HIDE DEF down
  <2> QED BY <2>1, <1>6
<1> DEFINE g == CHOOSE h : Is(h)
<1>8. Is(g)
  <2> HIDE DEF Is
  <2> QED BY <1>7
<1> DEFINE whole == \A k \in 0 .. d : good(g[k]) /\ nd[g[k]].depth = d - k
<1>9. LeftmostBelow(nd, c, d) = IF whole THEN nd[g[d]].ents[1] ELSE NoEntry
  BY DEF LeftmostBelow, below
<1> HIDE DEF whole
<1>10. g[0] = c /\ \A k \in 1 .. MaxDepth : g[k] = down[g[k - 1]]
  <2>1. g = [k \in 0 .. MaxDepth |-> IF k = 0 THEN c ELSE down[g[k - 1]]]
    BY <1>8
  <2> HIDE DEF g, down
  <2>2. 0 \in 0 .. MaxDepth /\ \A k \in 1 .. MaxDepth : k \in 0 .. MaxDepth /\ k # 0
    BY <1>1
  <2> QED BY Zenon, <2>1, <2>2
<1> HIDE DEF g
<1> DEFINE S == {n \in Nat : n <= MaxDepth => g[n] \in V}
<1>11. 0 \in S
  BY <1>4, <1>10
<1>12. ASSUME NEW n \in Nat, n \in S PROVE n + 1 \in S
  <2> SUFFICES ASSUME n + 1 <= MaxDepth PROVE g[n + 1] \in V
    OBVIOUS
  <2>1. n + 1 \in 1 .. MaxDepth /\ (n + 1) - 1 = n /\ g[n] \in V
    BY <1>1, <1>12
  <2>2. g[n + 1] = down[g[n]]
    BY <1>10, <2>1
  <2>3. down[g[n]] = below(g[n])
    BY <2>1, <1>2
  <2> HIDE DEF down
  <2> QED BY <2>1, <2>2, <2>3, <1>3
<1>13. g[d] \in V
  <2>1. Nat \subseteq S
    <3> HIDE DEF S
    <3> QED BY <1>11, <1>12, Upwards
  <2> QED BY <2>1, <1>1
<1>14. nd[g[d]].ents[1].first = K
  BY <1>13 DEF V
<1> QED BY <1>9, <1>14

(* What WalkIs says of a path, in one piece. *)
WalkOf(nd, R, l, P) ==
    /\ Len(P) \in Nat \ {0} /\ 1 \in 1 .. Len(P) /\ Len(P) \in 1 .. Len(P) /\ P[1].blk = Root
    /\ \A k \in 1 .. Len(P) :
          /\ P[k].blk \in R /\ P[k] = PathStep(nd, P[k].blk, l)
          /\ P[k].depth = nd[P[k].blk].depth /\ P[k].depth = nd[Root].depth - (k - 1)
          /\ P[k].cnt = Len(nd[P[k].blk].ents) /\ P[k].cnt \in Nat
          /\ Stops(P[k]) <=> Ends(nd[P[k].blk])
          /\ P[k].cnt > 0 => /\ P[k].pos = SearchPos(nd[P[k].blk].ents, l) /\ P[k].pos \in 1 .. P[k].cnt
                             /\ P[k].ent = nd[P[k].blk].ents[P[k].pos]
    /\ \A k \in 1 .. Len(P) - 1 :
          /\ k \in 1 .. Len(P) /\ k + 1 \in 1 .. Len(P)
          /\ ~ Ends(nd[P[k].blk]) /\ P[k + 1].blk = Toward(nd, P[k].blk, l) /\ P[k + 1].blk = P[k].ent.child
          /\ P[k].depth > 0 /\ P[k].cnt > 0

(* A walk is one. *)
LEMMA WalkParts ==
  ASSUME NEW nd, NEW R, Shape(nd, R), NEW l \in LBlocks, NEW P \in Walks(nd, R, l)
  PROVE  WalkOf(nd, R, l, P)
BY WalkIs DEF WalkOf

(* Below element k of the path for l, where the path keeps to the last entries,
   it is also the path for larger x. *)
LEMMA LastBelow ==
  ASSUME NEW nd, NEW R, Shape(nd, R), NEW l \in LBlocks, NEW x \in LBlocks, l <= x, NEW P, P = FindPath(nd, l),
         NEW k \in 1 .. Len(P), On(nd, x, P[k].blk), \A j \in k .. Len(P) - 1 : P[j].pos = P[j].cnt
  PROVE  On(nd, x, P[Len(P)].blk)
<1>1. P \in Walks(nd, R, l) /\ l \in Int /\ x \in Int
  BY PathIs, Width
<1>2. WalkOf(nd, R, l, P)
  BY <1>1, WalkParts
<1>2a. /\ Len(P) \in Nat \ {0}
       /\ \A j \in 1 .. Len(P) : P[j].blk \in R
       /\ \A j \in 1 .. Len(P) : P[j].cnt = Len(nd[P[j].blk].ents) /\ P[j].cnt \in Nat
       /\ \A j \in 1 .. Len(P) : P[j].cnt > 0 => P[j].pos = SearchPos(nd[P[j].blk].ents, l)
  BY Zenon, <1>2 DEF WalkOf
<1>2b. \A j \in 1 .. Len(P) - 1 :
         /\ ~ Ends(nd[P[j].blk]) /\ P[j + 1].blk = Toward(nd, P[j].blk, l) /\ P[j].cnt > 0
  BY <1>2 DEF WalkOf
<1> DEFINE S == {j \in Nat : k + j <= Len(P) => On(nd, x, P[k + j].blk)}
<1>3. 0 \in S
  BY <1>2a
<1>4. ASSUME NEW j \in Nat, j \in S PROVE j + 1 \in S
  <2> DEFINE m == k + j
  <2> SUFFICES ASSUME m + 1 <= Len(P) PROVE On(nd, x, P[m + 1].blk)
    BY <1>2a
  <2>1. m \in 1 .. Len(P) - 1 /\ m \in k .. Len(P) - 1 /\ m \in 1 .. Len(P) /\ On(nd, x, P[m].blk)
    BY <1>2a, <1>4
  <2> HIDE DEF m
  <2> DEFINE b == P[m].blk
             E == nd[b].ents
             p == SearchPos(E, l)
             q == SearchPos(E, x)
  <2>2. b \in R /\ ~ Ends(nd[b]) /\ P[m + 1].blk = Toward(nd, b, l) /\ p = Len(E) /\ On(nd, x, b)
    <3>1. b \in R /\ P[m].cnt = Len(E) /\ (P[m].cnt > 0 => P[m].pos = p)
      BY <1>2a, <2>1
    <3>2. ~ Ends(nd[b]) /\ P[m + 1].blk = Toward(nd, b, l) /\ P[m].cnt > 0
      BY <1>2b, <2>1
    <3>3. P[m].pos = P[m].cnt
      BY <2>1
    <3> QED BY <3>1, <3>2, <3>3, <2>1
  <2> HIDE DEF b
  <2>3. p \in 1 .. Len(E) /\ At(E, l, p)
    BY <2>2, TowardIs
  <2>4. E[p].first \in Int /\ Fit(b, nd[b]) /\ E # <<>>
    <3>1. Fit(b, nd[b])
      BY <2>2 DEF Shape
    <3>2. E[p].first \in LBlocks
      BY Zenon, <3>1, <2>3, EntryIs
    <3> QED BY <3>1, <3>2, <2>2, Width DEF Ends
  <2> HIDE DEF p, E
  <2>5. At(E, x, p)
    <3>1. p = 1 \/ E[p].first <= x
      BY <2>3, <2>4, <1>1 DEF At
    <3>2. \A r \in p + 1 .. Len(E) : FALSE
      BY <2>2, <2>3
    <3> QED BY <3>1, <3>2, <2>3 DEF At
  <2>6. q = p
    BY Zenon, <2>4, <2>5, <1>1, SearchIs DEF E
  <2>7. Toward(nd, b, x) = Toward(nd, b, l)
    BY <2>6 DEF Toward, p, E
  <2>8. On(nd, x, Toward(nd, b, x))
    BY <2>2, OnIs
  <2> QED BY <2>2, <2>7, <2>8
<1>5. Nat \subseteq S
  <2> HIDE DEF S
  <2> QED BY Zenon, <1>3, <1>4, Upwards
<1> DEFINE N == Len(P)
<1>6. N \in Nat /\ k \in 1 .. N
  BY <1>2a
<1> HIDE DEF N
<1> DEFINE n == N - k
<1>7. n \in Nat /\ k + n = N /\ k + n <= N
  BY <1>6
<1> HIDE DEF n
<1>8. On(nd, x, P[k + n].blk)
  BY <1>5, <1>7 DEF N
<1> QED BY <1>7, <1>8 DEF N

(* The entry the path for l ends at, and the next ones, decide what is found at x. *)
LEMMA TailAnswer ==
  ASSUME NEW nd, NEW R, Tree(nd, R), NEW l \in LBlocks, NEW x \in LBlocks, l <= x, NEW b, b = Landing(nd, l),
         On(nd, x, b), nd[b].depth = 0, nd[b].ents # <<>>, NEW p, p = SearchPos(nd[b].ents, l),
         NEW e, e = nd[b].ents[p], p = Len(nd[b].ents) \/ x < nd[b].ents[p + 1].first
  PROVE  Lookup(nd, x) = Hole \/ (e.first <= x /\ x < End64(e))
<1>1. Shape(nd, R) /\ l \in Int /\ x \in Int
  BY Width DEF Tree
<1>2. b \in R
  BY <1>1, LeafIs
<1> DEFINE n == nd[b]
           E == n.ents
<1>3. Fit(b, n) /\ n.depth = 0 /\ E # <<>>
  BY <1>1, <1>2 DEF Shape
<1> HIDE DEF n, E
<1>4. At(E, l, p)
  BY <1>1, <1>3, SearchIs DEF n, E
<1>5. /\ p \in 1 .. Len(E) /\ Len(E) \in Nat
      /\ \A q \in 1 .. Len(E) : E[q].first \in Int
      /\ \A q, r \in 1 .. Len(E) : q < r => End64(E[q]) <= E[r].first /\ End64(E[q]) > E[q].first /\ End64(E[q]) \in Int
  <2>1. /\ Len(E) \in Nat /\ \A q \in 1 .. Len(E) : Good(E[q])
        /\ \A q, r \in 1 .. Len(E) : q < r => End64(E[q]) <= E[r].first
    BY <1>3, LeafParts DEF E
  <2>2. \A q \in 1 .. Len(E) : E[q].first \in Int /\ End64(E[q]) \in Int /\ E[q].first < End64(E[q])
    <3> SUFFICES ASSUME NEW q \in 1 .. Len(E) PROVE E[q].first \in Int /\ End64(E[q]) \in Int /\ E[q].first < End64(E[q])
      OBVIOUS
    <3>1. Good(E[q])
      BY <2>1
    <3> QED BY <3>1, GoodIs
  <2> QED BY <2>1, <2>2, <1>4 DEF At
<1>6. At(E, x, p)
  <2>1. p = 1 \/ E[p].first <= x
    BY <1>4, <1>5, <1>1 DEF At
  <2>2. ASSUME NEW q \in p + 1 .. Len(E) PROVE x < E[q].first
    <3>1. p + 1 \in 1 .. Len(E) /\ q \in 1 .. Len(E) /\ p # Len(E) /\ q \in Int /\ p \in Int
      <4>1. p \in 1 .. Len(E) /\ Len(E) \in Nat
        BY <1>5
      <4> QED BY <4>1
    <3>2. x < E[p + 1].first
      BY <3>1 DEF n, E
    <3> DEFINE r == p + 1
    <3>3. r \in 1 .. Len(E) /\ x < E[r].first /\ (q = r \/ r < q)
      BY <3>1, <3>2
    <3> HIDE DEF r
    <3>4. CASE q = r
      BY <3>3, <3>4
    <3>5. CASE r < q
      <4>1. End64(E[r]) <= E[q].first /\ End64(E[r]) > E[r].first /\ End64(E[r]) \in Int
        BY <3>5, <3>1, <3>3, <1>5
      <4>2. E[r].first \in Int /\ E[q].first \in Int
        BY <3>1, <3>3, <1>5
      <4> QED BY <4>1, <4>2, <3>3, <1>1
    <3> QED BY <3>3, <3>4, <3>5
  <2> QED BY <2>1, <2>2, <1>5 DEF At
<1>7. SearchPos(E, x) = p
  BY Zenon, <1>3, <1>6, <1>1, SearchIs DEF E
<1>8. Landing(nd, x) = b
  <2>1. Ends(nd[b])
    BY DEF Ends
  <2> QED BY <2>1, <1>1, OnIs
<1>9. Lookup(nd, x) = Answer(n, x)
  BY <1>1, <1>8, LookupIs DEF n
<1>10. Good(e) /\ e = E[p]
  BY <1>3, <1>5, LeafParts DEF n, E
<1>11. End(e) = End64(e)
  BY <1>10, GoodIs
<1> QED BY <1>9, <1>7, <1>10, <1>11, <1>3 DEF Answer, Covers, E

(* Between l and x nothing is mapped behind the end of e. *)
Gap(nd, l, x, e) ==
    \A y \in LBlocks : l <= y /\ y < x => Lookup(nd, y) = Hole \/ (e.first <= y /\ y < End64(e))

(* find_next_extent answers the next mapped block, if the walk gets there. *)
LEMMA NextIs ==
  ASSUME NEW nd, NEW R, Tree(nd, R), Neat(nd, R, {}), NEW l \in LBlocks, NEW P, P = FindPath(nd, l),
         NEW b, b = Landing(nd, l), nd[b].depth = 0, nd[b].ents # <<>>,
         NEW e, e = Leaf(P).ent
  PROVE  \/ NextExtent(nd, P) = {} /\ Gap(nd, l, LastLBlock + 1, e)
         \/ \E f : /\ NextExtent(nd, P) = {f}
                   /\ f = NoEntry \/ (f.first \in LBlocks /\ l < f.first /\ Gap(nd, l, f.first, e))
<1>1. Shape(nd, R) /\ Once(nd, R) /\ l \in Int /\ LastLBlock \in Nat /\ LBlocks = 0 .. LastLBlock
  BY Width DEF Tree
<1>2. P \in Walks(nd, R, l)
  BY <1>1, PathIs
<1>3. WalkOf(nd, R, l, P)
  BY <1>1, <1>2, WalkParts
<1> DEFINE E == nd[b].ents
           p == SearchPos(E, l)
           N == Len(P)
<1>4. /\ b \in R /\ Leaf(P).blk = b /\ Leaf(P).cnt = Len(E) /\ Leaf(P).pos = p /\ p \in 1 .. Len(E) /\ e = E[p]
      /\ P[N].blk = b
  BY <1>1, LeafIs DEF Landing, Leaf
<1>5. N \in Nat \ {0}
  BY <1>3 DEF WalkOf
<1>6. On(nd, l, b) /\ Fit(b, nd[b])
  BY <1>1, <1>4, OnIs DEF Shape
<1> HIDE DEF N
<1>7. ASSUME NEW x \in LBlocks, l <= x, On(nd, x, b), p = Len(E) \/ x < E[p + 1].first
      PROVE  Lookup(nd, x) = Hole \/ (e.first <= x /\ x < End64(e))
  <2> HIDE DEF p
  <2> QED BY <1>7, <1>4, TailAnswer DEF p
<1> DEFINE turns == {k \in 1 .. Len(P) - 1 : P[k].pos < P[k].cnt}
           up == CHOOSE k \in turns : \A j \in turns : j <= k
<1>8. NextExtent(nd, P) = IF Leaf(P).pos < Leaf(P).cnt THEN {nd[Leaf(P).blk].ents[Leaf(P).pos + 1]}
                          ELSE IF turns = {} THEN {}
                          ELSE {LeftmostBelow(nd, nd[P[up].blk].ents[P[up].pos + 1].child, P[up].depth - 1)}
  BY DEF NextExtent
<1> HIDE DEF turns, up
<1>9. CASE p < Len(E)
  <2> DEFINE r == p + 1
             f == E[r]
  <2>1. NextExtent(nd, P) = {f}
    BY <1>8, <1>9, <1>4
  <2>2. r \in 1 .. Len(E) /\ Len(E) \in Nat /\ p \in Int
    BY <1>9, <1>4, <1>6, LeafParts
  <2>3. f.first \in LBlocks /\ Good(f)
    <3> HIDE DEF r
    <3>1. Good(E[r])
      BY <2>2, <1>6, LeafParts
    <3> QED BY <3>1, GoodIs
  <2>4. l < f.first
    <3>1. At(E, l, p)
      BY <1>6, <1>1, SearchIs
    <3>2. r \in p + 1 .. Len(E)
      BY <2>2
    <3> QED BY <3>1, <3>2 DEF At
  <2>5. On(nd, f.first, b)
    <3>1. f.first \in Keys(nd[b], r)
      BY <2>3, GoodIs DEF Keys
    <3> HIDE DEF f, r
    <3> QED BY <3>1, <2>2, <1>4, KeyOn
  <2> HIDE DEF f
  <2>6. Gap(nd, l, f.first, e)
    <3> SUFFICES ASSUME NEW y \in LBlocks, l <= y, y < f.first
                 PROVE  Lookup(nd, y) = Hole \/ (e.first <= y /\ y < End64(e))
      BY DEF Gap
    <3>1. y <= f.first
      BY <2>3, <1>1
    <3>2. On(nd, y, b)
      BY <3>1, <2>3, <2>5, <1>4, <1>6, RouteBetween
    <3> HIDE DEF p, E
    <3> QED BY <3>2, <1>7 DEF f
  <2> QED BY <2>1, <2>3, <2>4, <2>6
<1>10. CASE p = Len(E)
  <2>1. ~ (Leaf(P).pos < Leaf(P).cnt)
    BY <1>10, <1>4
  <2>2. CASE turns = {}
    <3>1. \A j \in 1 .. Len(P) - 1 : P[j].pos = P[j].cnt
      <4> SUFFICES ASSUME NEW j \in 1 .. Len(P) - 1 PROVE P[j].pos = P[j].cnt
        OBVIOUS
      <4>1. P[j].cnt > 0 /\ j \in 1 .. Len(P)
        BY <1>3 DEF WalkOf
      <4>2. P[j].pos \in 1 .. P[j].cnt /\ P[j].cnt \in Nat
        BY <4>1, <1>3 DEF WalkOf
      <4> QED BY <4>2, <2>2 DEF turns
    <3>2. On(nd, l, Root) /\ 1 \in 1 .. Len(P) /\ P[1].blk = Root
      BY <1>3, <1>1, OnIs DEF WalkOf
    <3>3. Gap(nd, l, LastLBlock + 1, e)
      <4> SUFFICES ASSUME NEW y \in LBlocks, l <= y PROVE  Lookup(nd, y) = Hole \/ (e.first <= y /\ y < End64(e))
        BY DEF Gap
      <4>1. On(nd, y, Root)
        BY <1>1, OnIs
      <4> DEFINE k == 1
      <4>2. k \in 1 .. Len(P) /\ On(nd, y, P[k].blk) /\ \A j \in k .. Len(P) - 1 : P[j].pos = P[j].cnt
        BY <3>1, <3>2, <4>1
      <4> HIDE DEF k
      <4>3. On(nd, y, P[Len(P)].blk)
        BY Zenon, <4>2, <1>1, LastBelow
      <4> QED BY <4>3, <1>7, <1>10, <1>4 DEF N
    <3> QED BY <3>3, <2>1, <2>2, <1>8
  <2>3. CASE turns # {}
    <3>1. up \in turns /\ \A j \in turns : j <= up
      <4> DEFINE q == Len(P)
      <4>1. q \in Nat /\ turns \in SUBSET (0 .. q)
        BY <1>5 DEF turns, N
      <4> HIDE DEF q
      <4>2. \E k \in turns : \A j \in turns : j <= k
        BY Zenon, <4>1, <2>3, Greatest
      <4> QED BY <4>2 DEF up
    <3> HIDE DEF up
    <3>2. up \in 1 .. Len(P) - 1 /\ P[up].pos < P[up].cnt /\ up + 1 \in 1 .. Len(P) /\ up \in 1 .. Len(P)
      BY <3>1, <1>5 DEF turns, N
    <3> DEFINE u == P[up].blk
               U == nd[u].ents
               w == P[up].pos
               x == w + 1
               c == U[x].child
               K == U[x].first
               d == P[up].depth - 1
    <3>3. u \in R /\ P[up].cnt = Len(U) /\ P[up].cnt \in Nat /\ ~ Ends(nd[u]) /\ P[up + 1].blk = Toward(nd, u, l)
      BY <3>2, <1>3 DEF WalkOf
    <3>4. w = SearchPos(U, l) /\ w \in 1 .. Len(U) /\ w < Len(U)
      BY <3>2, <3>3, <1>3 DEF WalkOf
    <3>5. x \in 1 .. Len(U) /\ x \in w + 1 .. Len(U) /\ w \in Int
      <4> HIDE DEF w, U
      <4> QED BY <3>3, <3>4
    <3>6. On(nd, l, u)
      BY <3>2, <1>1 DEF On
    <3>7. Slot(nd, u, x, c)
      <4>1. nd[u].depth > 0
        BY <3>3, <1>1, DepthIs DEF Ends
      <4> HIDE DEF x
      <4> QED BY <4>1, <3>5 DEF Slot
    <3>8. /\ c \in R /\ c # Root /\ c \in Blocks /\ K \in LBlocks
      <4> HIDE DEF c, u
      <4> QED BY <3>3, <3>7, <1>1, SlotIs
    <3>9. nd[c].ents # <<>> /\ nd[c].ents[1].first = K
      <4> HIDE DEF c, u
      <4>1. c \in R \ {}
        BY <3>8
      <4> QED BY <3>3, <3>5, <3>7, <4>1 DEF Neat
    <3>10. LeftmostBelow(nd, c, d) = NoEntry \/ LeftmostBelow(nd, c, d).first = K
      <4>1. P[up].depth = nd[u].depth
        BY <3>2, <1>3 DEF WalkOf
      <4>2. nd[u].depth \in 0 .. MaxDepth /\ nd[u].depth > 0
        BY <3>3, <1>1, DepthIs DEF Ends
      <4>3. d \in 0 .. MaxDepth
        <5> HIDE DEF u
        <5> QED BY <4>1, <4>2, <1>1, SizeAssumption
      <4> HIDE DEF c, K, d
      <4> QED BY <3>8, <3>9, <4>3, LeftmostIs
    <3>11. At(U, l, w) /\ l < K
      <4>1. Fit(u, nd[u]) /\ U # <<>>
        BY <3>3, <1>1 DEF Shape, Ends
      <4>2. At(U, l, w)
        <5> HIDE DEF u, w
        <5> QED BY <4>1, <3>4, <1>1, SearchIs
      <4> HIDE DEF w, x, U
      <4> QED BY <4>2, <3>5 DEF At
    <3>12. On(nd, K, u) /\ SearchPos(U, K) = x
      <4> HIDE DEF c, u
      <4> QED BY <3>3, <3>7, SeparatorOn
    <3>13. NextExtent(nd, P) = {LeftmostBelow(nd, c, d)}
      BY <1>8, <2>1, <2>3
    <3>14. Gap(nd, l, K, e)
      <4> SUFFICES ASSUME NEW y \in LBlocks, l <= y, y < K PROVE  Lookup(nd, y) = Hole \/ (e.first <= y /\ y < End64(e))
        BY DEF Gap
      <4> HIDE DEF K
      <4>1. y <= K /\ y \in Int
        BY <3>8, <1>1
      <4>2. On(nd, y, u)
        <5> HIDE DEF u
        <5> QED BY Zenon, <4>1, <3>3, <3>6, <3>8, <3>12, RouteBetween
      <4>3. SearchPos(U, y) = w
        <5> HIDE DEF u
        <5>1. Fit(u, nd[u]) /\ U # <<>>
          BY <3>3, <1>1 DEF Shape, Ends
        <5>2. At(U, y, w)
          <6>1. \A q \in 1 .. Len(U) : U[q].first \in Int
            <7> SUFFICES ASSUME NEW q \in 1 .. Len(U) PROVE U[q].first \in Int
              OBVIOUS
            <7>1. U[q].first \in LBlocks
              BY Zenon, <5>1, EntryIs
            <7> QED BY <7>1, <1>1
          <6>2. \A q \in w + 1 .. Len(U) : K <= U[q].first
            <7> SUFFICES ASSUME NEW q \in w + 1 .. Len(U) PROVE K <= U[q].first
              OBVIOUS
            <7>1. Keyed(U)
              BY <5>1 DEF Fit
            <7> HIDE DEF U, w
            <7>2. q \in 1 .. Len(U) /\ q \in Int /\ (q = x \/ x < q) /\ x \in 1 .. Len(U)
              BY <3>5, <3>4, <3>3
            <7> HIDE DEF x
            <7>3. U[x].first \in Int /\ U[q].first \in Int
              BY <7>2, <6>1
            <7>4. x < q => U[x].first < U[q].first
              BY <7>1, <7>2 DEF Keyed
            <7> QED BY <7>2, <7>3, <7>4 DEF K
          <6>3. w = 1 \/ U[w].first <= y
            <7> HIDE DEF U, w
            <7> QED BY <3>11, <3>4, <6>1, <1>1, <4>1 DEF At
          <6>4. \A q \in w + 1 .. Len(U) : y < U[q].first
            <7> SUFFICES ASSUME NEW q \in w + 1 .. Len(U) PROVE y < U[q].first
              OBVIOUS
            <7> HIDE DEF U, w
            <7>1. q \in 1 .. Len(U)
              BY <3>4, <3>3
            <7>2. K <= U[q].first /\ U[q].first \in Int /\ K \in Int
              BY <6>2, <6>1, <7>1, <3>8, <1>1
            <7> QED BY <7>2, <4>1
          <6> HIDE DEF U, w
          <6> QED BY <3>4, <6>3, <6>4 DEF At
        <5> HIDE DEF w
        <5> QED BY Zenon, <5>1, <5>2, <4>1, SearchIs
      <4>4. Toward(nd, u, y) = Toward(nd, u, l)
        BY <4>3, <3>4 DEF Toward
      <4>5. On(nd, y, P[up + 1].blk)
        BY <4>2, <4>4, <3>3, <1>1, OnIs
      <4> DEFINE k == up + 1
      <4>6. \A j \in k .. Len(P) - 1 : P[j].pos = P[j].cnt
        <5> SUFFICES ASSUME NEW j \in k .. Len(P) - 1 PROVE P[j].pos = P[j].cnt
          OBVIOUS
        <5>1. j \in 1 .. Len(P) - 1 /\ ~ (j <= up)
          BY <3>2, <1>5 DEF N
        <5>2. P[j].cnt > 0 /\ j \in 1 .. Len(P)
          BY <5>1, <1>3 DEF WalkOf
        <5>3. P[j].pos \in 1 .. P[j].cnt /\ P[j].cnt \in Nat
          BY <5>2, <1>3 DEF WalkOf
        <5> QED BY <5>1, <5>3, <3>1 DEF turns
      <4>7. k \in 1 .. Len(P) /\ On(nd, y, P[k].blk)
        BY <3>2, <4>5
      <4> HIDE DEF k
      <4>8. On(nd, y, P[Len(P)].blk)
        BY Zenon, <4>6, <4>7, <1>1, LastBelow
      <4> QED BY <4>8, <1>7, <1>10, <1>4 DEF N
    <3> DEFINE f == LeftmostBelow(nd, c, d)
    <3>15. f = NoEntry \/ (f.first \in LBlocks /\ l < f.first /\ Gap(nd, l, f.first, e))
      <4> HIDE DEF f, K
      <4> QED BY <3>8, <3>10, <3>11, <3>14 DEF f
    <3>16. NextExtent(nd, P) = {f}
      BY <3>13
    <3> HIDE DEF f
    <3> QED BY <3>15, <3>16
  <2> QED BY <2>2, <2>3
<1>11. p < Len(E) \/ p = Len(E)
  BY <1>4, <1>6, LeafParts
<1> QED BY <1>9, <1>10, <1>11

(* Nothing is mapped between l and the entry the path ends at, when l lies
   before it. *)
LEMMA HeadIs ==
  ASSUME NEW nd, NEW R, Tree(nd, R), NEW l \in LBlocks, NEW b, b = Landing(nd, l), nd[b].depth = 0,
         nd[b].ents # <<>>, NEW e, e = Leaf(FindPath(nd, l)).ent, l < e.first
  PROVE  /\ e.first \in LBlocks /\ Leaf(FindPath(nd, l)).pos = 1
         /\ \A y \in LBlocks : l <= y /\ y < e.first => Lookup(nd, y) = Hole
<1>1. Shape(nd, R) /\ l \in Int /\ LBlocks \subseteq Int
  BY Width DEF Tree
<1> DEFINE E == nd[b].ents
           p == SearchPos(E, l)
<1>2. b \in R /\ p \in 1 .. Len(E) /\ e = E[p] /\ Leaf(FindPath(nd, l)).pos = p
  BY <1>1, LeafIs
<1>3. Fit(b, nd[b]) /\ E # <<>> /\ At(E, l, p) /\ On(nd, l, b)
  BY <1>1, <1>2, OnIs, SearchIs DEF Shape
<1>4. Good(e) /\ \A q, r \in 1 .. Len(E) : q < r => End64(E[q]) <= E[r].first
  BY <1>2, <1>3, LeafParts
<1>5. e.first \in LBlocks /\ e.first \in Int /\ End64(e) \in Int /\ e.first < End64(e)
  BY <1>4, GoodIs
<1>6. p = 1
  BY <1>2, <1>3, <1>5, <1>1 DEF At
<1>7. On(nd, e.first, b)
  <2>1. e.first \in Keys(nd[b], p)
    BY <1>5, <1>2 DEF Keys
  <2> HIDE DEF p
  <2> QED BY <2>1, <1>2, KeyOn
<1>8. ASSUME NEW y \in LBlocks, l <= y, y < e.first PROVE Lookup(nd, y) = Hole
  <2>1. y <= e.first /\ y \in Int
    BY <1>8, <1>5, <1>1
  <2>2. On(nd, y, b)
    BY <2>1, <1>8, <1>2, <1>3, <1>5, <1>7, RouteBetween
  <2>3. p = Len(E) \/ y < E[p + 1].first
    <3>1. CASE Len(E) = 1
      BY <3>1, <1>6
    <3>2. CASE Len(E) # 1
      <4> DEFINE r == p + 1
      <4>1. p \in 1 .. Len(E) /\ r \in 1 .. Len(E) /\ p < r
        <5>1. Len(E) \in Nat
          BY <1>3, LeafParts
        <5> DEFINE k == Len(E)
        <5>2. k \in Nat /\ k # 1 /\ p = 1 /\ p \in 1 .. k
          BY <1>2, <1>6, <3>2, <5>1
        <5> HIDE DEF p, k
        <5>3. p \in 1 .. k /\ p + 1 \in 1 .. k /\ p < p + 1
          BY <5>2
        <5> QED BY <5>3 DEF k
      <4>2. End64(E[p]) <= E[r].first /\ Good(E[r])
        <5> HIDE DEF p, r
        <5> QED BY <4>1, <1>4, <1>3, LeafParts
      <4>3. E[r].first \in Int
        <5> HIDE DEF r
        <5> QED BY <4>2, GoodIs
      <4>4. y < E[r].first
        <5> HIDE DEF p, r, E
        <5> QED BY <4>2, <4>3, <1>2, <1>5, <1>8, <2>1
      <4> QED BY <4>4
    <3> QED BY <3>1, <3>2
  <2>4. Lookup(nd, y) = Hole \/ (e.first <= y /\ y < End64(e))
    <3> HIDE DEF p
    <3> QED BY <2>2, <2>3, <1>2, <1>8, TailAnswer DEF p
  <2> QED BY <2>4, <1>5, <1>8, <2>1
<1> QED BY <1>2, <1>5, <1>6, <1>8

(* Only the root can be an empty leaf. *)
LEMMA EmptyIs ==
  ASSUME NEW nd, NEW R, Tree(nd, R), Neat(nd, R, {}), NEW l \in LBlocks, nd[Landing(nd, l)].ents = <<>>
  PROVE  /\ Landing(nd, l) = Root /\ nd[Root].ents = <<>>
         /\ \A y \in LBlocks : Landing(nd, y) = Root /\ Lookup(nd, y) = Hole
<1>1. Shape(nd, R)
  BY DEF Tree
<1> DEFINE b == Landing(nd, l)
<1>2. b = Root
  <2> HIDE DEF b
  <2> SUFFICES ASSUME b # Root PROVE FALSE
    OBVIOUS
  <2>1. On(nd, l, b) /\ b \in R \ {}
    BY <1>1, OnIs, LeafIs DEF b
  <2>2. PICK a \in R : ~ Ends(nd[a]) /\ Toward(nd, a, l) = b
    BY <2>1, <1>1, OnIs
  <2>3. SearchPos(nd[a].ents, l) \in 1 .. Len(nd[a].ents) /\ Slot(nd, a, SearchPos(nd[a].ents, l), b)
    BY <2>2, <1>1, TowardIs
  <2>4. nd[b].ents # <<>>
    BY <2>1, <2>3 DEF Neat
  <2> QED BY <2>4 DEF b
<1>3. nd[Root].ents = <<>>
  BY <1>2
<1> HIDE DEF b
<1>4. ASSUME NEW y \in LBlocks PROVE Landing(nd, y) = Root /\ Lookup(nd, y) = Hole
  <2>1. Ends(nd[Root])
    BY <1>3 DEF Ends
  <2>2. Landing(nd, y) = Root
    BY <2>1, <1>1, OnIs
  <2>3. Lookup(nd, y) = Answer(nd[Root], y)
    BY <2>2, <1>1, LookupIs
  <2> QED BY <2>2, <2>3, <1>3 DEF Answer
<1> QED BY <1>2, <1>3, <1>4 DEF b

-----------------------------------------------------------------------------
(* A run of blocks enters a leaf. *)

(* No entry of the leaf n meets lo..hi. *)
Vacant(n, lo, hi) ==
    \A q \in 1 .. Len(n.ents) :
        /\ n.ents[q].first \in Int /\ End64(n.ents[q]) \in Int /\ n.ents[q].first < End64(n.ents[q])
        /\ End64(n.ents[q]) <= lo \/ hi < n.ents[q].first

(* The leaf t is n with lo..hi mapped by entry e. *)
RunIn(b, n, e, t) ==
    /\ Fit(b, t) /\ t.depth = 0 /\ t.ents # <<>>
    /\ \A l, v : Gives(t, l, v) <=> Gives(n, l, v) \/ Sends(e, l, v)

(* What is not mapped is free of entries. *)
LEMMA Around ==
  ASSUME NEW nd, NEW R, Tree(nd, R), NEW lo \in LBlocks, NEW hi \in LBlocks, lo <= hi,
         \A l \in lo .. hi : Lookup(nd, l) = Hole, NEW b \in R, nd[b].depth = 0
  PROVE  Vacant(nd[b], lo, hi)
<1> DEFINE n == nd[b]
           E == n.ents
<1>1. lo \in Int /\ hi \in Int
  BY Width
<1>2. Fit(b, n) /\ n.depth = 0
  BY DEF Tree, Shape
<1> SUFFICES ASSUME NEW q \in 1 .. Len(E)
             PROVE  /\ E[q].first \in Int /\ End64(E[q]) \in Int /\ E[q].first < End64(E[q])
                    /\ End64(E[q]) <= lo \/ hi < E[q].first
  BY DEF Vacant
<1>3. E[q].first \in Int /\ End64(E[q]) \in Int /\ E[q].first < End64(E[q])
  <2>1. Good(E[q])
    BY <1>2, LeafParts
  <2> QED BY <2>1, GoodIs
<1>4. SUFFICES ASSUME lo < End64(E[q]), E[q].first <= hi PROVE FALSE
  <2> HIDE DEF E
  <2> QED BY <1>1, <1>3
<1> DEFINE y == IF lo <= E[q].first THEN E[q].first ELSE lo
<1>5. y \in lo .. hi /\ y \in E[q].first .. End64(E[q]) - 1
  <2> HIDE DEF E
  <2> QED BY <1>1, <1>3, <1>4
<1> HIDE DEF y
<1>6. y \in Keys(n, q)
  BY <1>5, <1>2 DEF Keys
<1> DEFINE v == E[q].start + (y - E[q].first)
<1>7. Gives(n, y, v)
  <2> HIDE DEF n
  <2> QED BY <1>2, <1>6, KeyGives
<1>8. Lookup(nd, y) = v /\ v # Hole
  <2> HIDE DEF v
  <2> QED BY Zenon, <1>7, <1>2, GivesOn
<1> QED BY <1>5, <1>8

(* insert_new_extent *)
LEMMA RunInsert ==
  ASSUME NEW b, NEW n, Fit(b, n), n.depth = 0, Len(n.ents) < MaxEntries(b), NEW e, Good(e),
         NEW lo \in Int, lo = e.first, Vacant(n, lo, End64(e) - 1),
         NEW p, p = IF n.ents = <<>> \/ (SearchPos(n.ents, lo) = 1 /\ lo < n.ents[1].first) THEN 1
                    ELSE SearchPos(n.ents, lo) + 1,
         NEW t, t = [depth |-> 0, ents |-> InsertAt(n.ents, p, e)]
  PROVE  /\ RunIn(b, n, e, t)
         /\ p = 1 => t.ents[1].first = lo
         /\ p # 1 => n.ents # <<>> /\ t.ents[1].first = n.ents[1].first
<1> DEFINE E == n.ents
           N == Len(E)
           s == SearchPos(E, lo)
           h == End64(e)
<1>1. N \in Nat /\ (E = <<>> <=> N = 0)
  BY NodeIs
<1>2. \A q \in 1 .. N : /\ E[q].first \in Int /\ End64(E[q]) \in Int /\ E[q].first < End64(E[q])
                        /\ End64(E[q]) <= lo \/ h - 1 < E[q].first
  BY DEF Vacant
<1>3. h \in Int /\ lo < h /\ e.first = lo
  BY GoodIs
<1>4. E # <<>> => At(E, lo, s)
  BY SearchIs
<1>5. \A q, r \in 1 .. N : q < r => E[q].first < E[r].first
  BY DEF Fit, Keyed
<1>6. p \in 1 .. N + 1
  BY <1>1, <1>4 DEF At
<1> HIDE DEF s, h, N, E
<1>7. ASSUME NEW q \in 1 .. N, q < p PROVE End64(E[q]) <= e.first
  <2>1. q \in Int /\ N \in Nat /\ q >= 1
    BY <1>1
  <2>2. p # 1 /\ E # <<>>
    BY <1>7, <2>1, <1>1
  <2>3. p = s + 1 /\ ~ (s = 1 /\ lo < E[1].first)
    BY <2>2 DEF E, s
  <2>4. s \in 1 .. N /\ (s = 1 \/ E[s].first <= lo)
    BY <2>2, <1>4 DEF At, N
  <2>5. E[s].first <= lo
    BY <2>3, <2>4, <1>2
  <2>6. q <= s
    BY <2>1, <2>3, <2>4, <1>7
  <2>7. E[q].first <= lo
    <3>1. E[q].first \in Int /\ E[s].first \in Int /\ (q < s => E[q].first < E[s].first)
      BY <1>2, <1>5, <2>4
    <3> QED BY <3>1, <2>5, <2>6, <2>1, <2>4
  <2> QED BY <1>2, <1>3, <2>7
<1>8. ASSUME NEW q \in 1 .. N, q >= p PROVE h <= E[q].first
  <2>1. q \in Int /\ N \in Nat /\ q >= 1 /\ E # <<>>
    BY <1>1
  <2>2. lo < E[q].first
    <3>1. CASE s = 1 /\ lo < E[1].first
      <4>1. 1 \in 1 .. N /\ (q = 1 \/ 1 < q)
        BY <2>1
      <4>2. E[1].first \in Int /\ E[q].first \in Int /\ (1 < q => E[1].first < E[q].first)
        BY <4>1, <1>2, <1>5
      <4> QED BY <3>1, <4>1, <4>2
    <3>2. CASE ~ (s = 1 /\ lo < E[1].first)
      <4>1. p = s + 1
        BY <3>2, <2>1 DEF E, s
      <4>2. q \in s + 1 .. N
        BY <4>1, <2>1, <1>8, <1>6
      <4> QED BY <4>2, <2>1, <1>4 DEF At, N
    <3> QED BY <3>1, <3>2
  <2> QED BY <1>2, <1>3, <2>2
<1>9. /\ Fit(b, t) /\ t.depth = 0 /\ t.ents # <<>>
      /\ p # 1 => E # <<>> /\ t.ents[1] = E[1]
      /\ p = 1 => t.ents[1] = e
      /\ \A l, v : Gives(t, l, v) <=> Gives(n, l, v) \/ Sends(e, l, v)
  <2>1. \A q \in 1 .. Len(n.ents) : q < p => End64(n.ents[q]) <= e.first
    BY <1>7 DEF N, E
  <2>2. \A q \in 1 .. Len(n.ents) : q >= p => End64(e) <= n.ents[q].first
    BY <1>8 DEF N, E, h
  <2>3. p \in 1 .. Len(n.ents) + 1
    BY <1>6 DEF N, E
  <2>4. Before(n, p, e) /\ After(n, p, e)
    BY <2>1, <2>2 DEF Before, After
  <2> QED BY <2>3, <2>4, LeafInsert DEF E, Adds
<1> QED BY <1>9, <1>3 DEF RunIn, E

(* merge_extent's entry, and the leaf with it in place p. *)
Joint(d, e, x) == x = [d EXCEPT !.len = @ + e.len]
Merged(n, p, x, t) == t = [depth |-> 0, ents |-> [n.ents EXCEPT ![p] = x]]

(* p is where the search for l ends in n. *)
Found(n, l, p) == p = SearchPos(n.ents, l)

(* p is the place behind s. *)
Behind(s, p) == p = s + 1

(* Joined, of Joint. *)
LEMMA JointIs ==
  ASSUME NEW e, Good(e), NEW r, Good(r), CanMerge(e, r), NEW x, Joint(e, r, x)
  PROVE  /\ Good(x) /\ x.first = e.first /\ End64(x) = End64(r) /\ End64(e) = r.first
         /\ \A l, v : Sends(x, l, v) <=> Sends(e, l, v) \/ Sends(r, l, v)
BY Joined DEF Joint

(* merge_extent: entry e lengthens the one the search for it ends at. *)
LEMMA RunLeft ==
  ASSUME NEW b, NEW n, Fit(b, n), n.depth = 0, n.ents # <<>>, NEW e, Good(e),
         NEW lo \in Int, lo = e.first, Vacant(n, lo, End64(e) - 1), NEW p, Found(n, lo, p),
         CanMerge(n.ents[p], e), NEW x, Joint(n.ents[p], e, x),
         NEW t, Merged(n, p, x, t)
  PROVE  /\ RunIn(b, n, e, t)
         /\ t.ents[1].first = n.ents[1].first
<1> DEFINE E == n.ents
           N == Len(E)
           h == End64(e)
<1>1. At(E, lo, p) /\ E \in Seq(Extents) /\ N \in Nat
  BY SearchIs, LeafParts DEF Found
<1>2. \A q \in 1 .. N : /\ E[q].first \in Int /\ End64(E[q]) \in Int /\ E[q].first < End64(E[q])
                        /\ End64(E[q]) <= lo \/ h - 1 < E[q].first
  BY DEF Vacant
<1>3. h \in Int /\ lo < h /\ e.first = lo
  BY GoodIs
<1>4. p \in 1 .. N /\ Good(E[p]) /\ \A q, r \in 1 .. N : q < r => End64(E[q]) <= E[r].first
  BY <1>1, LeafParts DEF At
<1>5. /\ Good(x) /\ x.first = E[p].first /\ End64(x) = h
      /\ \A l, v : Sends(x, l, v) <=> Sends(E[p], l, v) \/ Sends(e, l, v)
  <2> DEFINE d == E[p]
  <2>1. Good(d) /\ Good(e) /\ CanMerge(d, e) /\ Joint(d, e, x)
    BY <1>4
  <2> HIDE DEF d, E, N, h
  <2>2. /\ Good(x) /\ x.first = d.first /\ End64(x) = End64(e)
    BY <2>1, JointIs
  <2>3. \A l, v : Sends(x, l, v) <=> Sends(d, l, v) \/ Sends(e, l, v)
    BY <2>1, JointIs
  <2> QED BY <2>2, <2>3 DEF d, h, E
<1>6. t = [depth |-> 0, ents |-> t.ents] /\ Swapped(Extents, E, p, x, t.ents)
  <2>1. t.ents = [E EXCEPT ![p] = x] /\ x \in Extents /\ t = [depth |-> 0, ents |-> t.ents]
    BY <1>5 DEF Good, Merged
  <2> HIDE DEF E
  <2> QED BY Zenon, <2>1, <1>1, <1>4, ReplaceIs
<1>7. ASSUME NEW q \in 1 .. N, q < p PROVE End64(E[q]) <= x.first
  BY <1>4, <1>5, <1>7
<1>8. ASSUME NEW q \in 1 .. N, q > p PROVE End64(x) <= E[q].first
  <2>1. q \in p + 1 .. N
    BY <1>1, <1>4, <1>8
  <2>2. lo < E[q].first
    <3> HIDE DEF E, N
    <3> QED BY <2>1, <1>1 DEF At, N
  <2> HIDE DEF E, N, h
  <2> QED BY <2>2, <1>2, <1>3, <1>5
<1>9. /\ Fit(b, t) /\ t.depth = 0 /\ t.ents # <<>>
      /\ t.ents[1] = IF p = 1 THEN x ELSE E[1]
      /\ \A l, v : Gives(t, l, v) <=> (\E q \in 1 .. N : q # p /\ Sends(E[q], l, v)) \/ Sends(x, l, v)
  <2>1. \A q \in 1 .. Len(n.ents) : q < p => End64(n.ents[q]) <= x.first
    BY <1>7
  <2>2. \A q \in 1 .. Len(n.ents) : q > p => End64(x) <= n.ents[q].first
    BY <1>8
  <2>3. Good(x) /\ p \in 1 .. Len(n.ents) /\ Swapped(Extents, n.ents, p, x, t.ents)
    BY <1>4, <1>5, <1>6
  <2>4. t = [depth |-> 0, ents |-> t.ents] /\ Fit(b, n) /\ n.depth = 0
    BY <1>6
  <2> HIDE DEF E, N
  <2>5. Before(n, p, x) /\ Beyond(n, p, x)
    BY <2>1, <2>2 DEF Before, Beyond
  <2>6. /\ Fit(b, t) /\ t.depth = 0 /\ t.ents # <<>> /\ t.ents[1] = (IF p = 1 THEN x ELSE n.ents[1])
        /\ Instead(n, p, x, t)
    BY <2>3, <2>4, <2>5, LeafReplace
  <2> QED BY <2>6 DEF E, N, Instead
<1>10. \A l, v : Gives(t, l, v) <=> Gives(n, l, v) \/ Sends(e, l, v)
  <2> SUFFICES ASSUME NEW l, NEW v PROVE Gives(t, l, v) <=> Gives(n, l, v) \/ Sends(e, l, v)
    OBVIOUS
  <2>1. Gives(n, l, v) <=> (\E q \in 1 .. N : q # p /\ Sends(E[q], l, v)) \/ Sends(E[p], l, v)
    BY <1>4 DEF Gives
  <2> HIDE DEF E, N
  <2> QED BY <2>1, <1>9, <1>5
<1>11. t.ents[1].first = E[1].first
  BY <1>9, <1>5
<1> QED BY <1>9, <1>10, <1>11 DEF RunIn

(* merge_extent: entry e is put before the one after it. *)
LEMMA RunRight ==
  ASSUME NEW b, NEW n, Fit(b, n), n.depth = 0, n.ents # <<>>, NEW e, Good(e),
         NEW lo \in Int, lo = e.first, Vacant(n, lo, End64(e) - 1), NEW s, s = SearchPos(n.ents, lo),
         s < Len(n.ents), End(n.ents[s]) < lo, NEW p, Behind(s, p),
         CanMerge(e, n.ents[p]), NEW x, Joint(e, n.ents[p], x),
         NEW t, Merged(n, p, x, t)
  PROVE  /\ RunIn(b, n, e, t)
         /\ t.ents[1].first = n.ents[1].first
<1> DEFINE E == n.ents
           N == Len(E)
           h == End64(e)
<1>1. At(E, lo, s) /\ E \in Seq(Extents) /\ N \in Nat
  BY SearchIs, LeafParts
<1>2. s \in 1 .. N /\ p \in 1 .. N /\ s \in Int /\ p \in Int /\ p # 1
  <2>1. s \in 1 .. N
    BY <1>1 DEF At
  <2>2. p = s + 1
    BY DEF Behind
  <2> QED BY <2>1, <2>2, <1>1
<1>3. h \in Int /\ lo < h /\ e.first = lo
  BY GoodIs
<1>4. Good(E[p]) /\ Good(E[s]) /\ \A q, r \in 1 .. N : q < r => End64(E[q]) <= E[r].first
  BY <1>2, LeafParts
<1>5. /\ Good(x) /\ x.first = lo /\ End64(x) = End64(E[p])
      /\ \A l, v : Sends(x, l, v) <=> Sends(e, l, v) \/ Sends(E[p], l, v)
  <2> DEFINE d == E[p]
  <2>1. Good(d) /\ CanMerge(e, d) /\ Joint(e, d, x)
    BY <1>4
  <2> HIDE DEF d
  <2>2. /\ Good(x) /\ x.first = e.first /\ End64(x) = End64(d)
        /\ \A l, v : Sends(x, l, v) <=> Sends(e, l, v) \/ Sends(d, l, v)
    BY <2>1, JointIs
  <2> QED BY <2>2, <1>3 DEF d
<1>6. t = [depth |-> 0, ents |-> t.ents] /\ Swapped(Extents, E, p, x, t.ents)
  <2>1. t.ents = [E EXCEPT ![p] = x] /\ x \in Extents /\ t = [depth |-> 0, ents |-> t.ents]
    BY <1>5 DEF Good, Merged
  <2> HIDE DEF E
  <2> QED BY Zenon, <2>1, <1>1, <1>2, ReplaceIs
<1>7. ASSUME NEW q \in 1 .. N, q < p PROVE End64(E[q]) <= x.first
  <2>1. End(E[s]) = End64(E[s]) /\ End64(E[s]) \in Int /\ E[s].first < End64(E[s]) /\ E[s].first \in Int
    <3> DEFINE d == E[s]
    <3>1. Good(d)
      BY <1>4
    <3> HIDE DEF d
    <3>2. End(d) = End64(d) /\ End64(d) \in Int /\ d.first < End64(d) /\ d.first \in Int
      BY <3>1, GoodIs
    <3> QED BY <3>2 DEF d
  <2>2. q = s \/ q < s
    BY <1>7, <1>2 DEF Behind
  <2>3. q < s => End64(E[q]) <= E[s].first
    BY <1>2, <1>4
  <2>4. End64(E[q]) \in Int
    <3>1. Good(E[q])
      BY LeafParts
    <3> QED BY <3>1, GoodIs
  <2>5. End64(E[s]) < lo
    BY <2>1
  <2> HIDE DEF E
  <2> QED BY <2>1, <2>2, <2>3, <2>4, <2>5, <1>5
<1>8. ASSUME NEW q \in 1 .. N, q > p PROVE End64(x) <= E[q].first
  BY <1>2, <1>4, <1>5, <1>8
<1>9. /\ Fit(b, t) /\ t.depth = 0 /\ t.ents # <<>>
      /\ t.ents[1] = IF p = 1 THEN x ELSE E[1]
      /\ \A l, v : Gives(t, l, v) <=> (\E q \in 1 .. N : q # p /\ Sends(E[q], l, v)) \/ Sends(x, l, v)
  <2>1. \A q \in 1 .. Len(n.ents) : q < p => End64(n.ents[q]) <= x.first
    BY <1>7
  <2>2. \A q \in 1 .. Len(n.ents) : q > p => End64(x) <= n.ents[q].first
    BY <1>8
  <2>3. Good(x) /\ p \in 1 .. Len(n.ents) /\ Swapped(Extents, n.ents, p, x, t.ents)
    BY <1>2, <1>5, <1>6
  <2>4. t = [depth |-> 0, ents |-> t.ents] /\ Fit(b, n) /\ n.depth = 0
    BY <1>6
  <2> HIDE DEF E, N
  <2>5. Before(n, p, x) /\ Beyond(n, p, x)
    BY <2>1, <2>2 DEF Before, Beyond
  <2>6. /\ Fit(b, t) /\ t.depth = 0 /\ t.ents # <<>> /\ t.ents[1] = (IF p = 1 THEN x ELSE n.ents[1])
        /\ Instead(n, p, x, t)
    BY <2>3, <2>4, <2>5, LeafReplace
  <2> QED BY <2>6 DEF E, N, Instead
<1>10. \A l, v : Gives(t, l, v) <=> Gives(n, l, v) \/ Sends(e, l, v)
  <2> SUFFICES ASSUME NEW l, NEW v PROVE Gives(t, l, v) <=> Gives(n, l, v) \/ Sends(e, l, v)
    OBVIOUS
  <2>1. Gives(n, l, v) <=> (\E q \in 1 .. N : q # p /\ Sends(E[q], l, v)) \/ Sends(E[p], l, v)
    BY <1>2 DEF Gives
  <2> HIDE DEF E, N
  <2> QED BY <2>1, <1>9, <1>5
<1>11. t.ents[1].first = E[1].first
  BY <1>9, <1>2
<1> QED BY <1>9, <1>10, <1>11 DEF RunIn

-----------------------------------------------------------------------------
(* Who owns the blocks. *)

(* Free blocks are taken. *)
LEMMA OwnTake ==
  ASSUME NEW R, NEW fr, NEW X, NEW m, Owned(R, fr, X, m), NEW S \in SUBSET fr
  PROVE  Owned(R, fr \ S, X \cup S, m)
BY DEF Owned

(* Blocks on their way are freed. *)
LEMMA OwnGive ==
  ASSUME NEW R, NEW fr, NEW X, NEW m, Owned(R, fr, X, m), NEW S \in SUBSET X
  PROVE  Owned(R, fr \cup S, X \ S, m)
<1>1. fr \cup S = Blocks \ (R \cup Img(m) \cup (X \ S))
  BY DEF Owned
<1> QED BY <1>1 DEF Owned

(* A block on its way becomes a node. *)
LEMMA OwnNode ==
  ASSUME NEW R, NEW fr, NEW X, NEW m, Owned(R, fr, X, m), NEW f \in X
  PROVE  Owned(R \cup {f}, fr, X \ {f}, m) /\ f \in Blocks /\ f \notin R
BY DEF Owned

(* A node leaves the tree. *)
LEMMA OwnDrop ==
  ASSUME NEW R, NEW fr, NEW X, NEW m, Owned(R, fr, X, m), NEW c \in R, c \in Blocks
  PROVE  Owned(R \ {c}, fr, X \cup {c}, m)
BY DEF Owned

(* A run that is on its way becomes data. *)
LEMMA OwnMap ==
  ASSUME NEW R, NEW fr, NEW X, NEW m, Owned(R, fr, X, m), NEW lo \in LBlocks, NEW hi \in LBlocks, lo <= hi,
         NEW first \in Nat, first .. first + (hi - lo) \subseteq X, \A l \in lo .. hi : m[l] = Hole,
         NEW w, w = [l \in LBlocks |-> IF l \in lo .. hi THEN first + (l - lo) ELSE m[l]]
  PROVE  Owned(R, fr, X \ (first .. first + (hi - lo)), w)
<1> DEFINE S == first .. first + (hi - lo)
<1>1. lo \in Int /\ hi \in Int /\ LBlocks \subseteq Int /\ \A l \in lo .. hi : l \in LBlocks
  BY Width
<1>2. /\ m \in AllMaps /\ X \subseteq Blocks /\ \A a, c \in LBlocks : a # c /\ m[a] # Hole => m[a] # m[c]
      /\ R \cap Img(m) = {} /\ R \cap X = {} /\ Img(m) \cap X = {}
      /\ fr = Blocks \ (R \cup Img(m) \cup X)
  BY DEF Owned
<1>3. S \subseteq X /\ S \subseteq Blocks /\ Hole \notin Blocks
  BY <1>2 DEF Hole, Blocks
<1>4. \A l \in lo .. hi : first + (l - lo) \in S
  BY <1>1
<1>5. \A l \in LBlocks : w[l] = IF l \in lo .. hi THEN first + (l - lo) ELSE m[l]
  OBVIOUS
<1>6. w \in AllMaps
  BY <1>2, <1>3, <1>4 DEF AllMaps
<1>7. Img(w) = Img(m) \cup S
  <2>1. ASSUME NEW y \in Img(w) PROVE y \in Img(m) \cup S
    BY <1>4, <1>5 DEF Img
  <2>2. ASSUME NEW y \in Img(m) PROVE y \in Img(w)
    <3>1. PICK l \in LBlocks : m[l] = y /\ y # Hole
      BY DEF Img
    <3>2. w[l] = y
      BY <3>1, <1>5
    <3> QED BY <3>1, <3>2 DEF Img
  <2>3. ASSUME NEW y \in S PROVE y \in Img(w)
    <3> DEFINE l == lo + (y - first)
    <3>1. l \in lo .. hi /\ first + (l - lo) = y
      BY <1>1
    <3> HIDE DEF l
    <3>2. l \in LBlocks /\ w[l] = y /\ y # Hole
      BY <3>1, <1>1, <1>3, <1>5
    <3> QED BY <3>2 DEF Img
  <2> HIDE DEF S
  <2> QED BY <2>1, <2>2, <2>3
<1>8. ASSUME NEW a \in LBlocks, NEW c \in LBlocks, a # c, w[a] # Hole PROVE w[a] # w[c]
  <2>1. a \in Int /\ c \in Int
    BY <1>1
  <2>2. CASE a \in lo .. hi /\ c \in lo .. hi
    BY <2>1, <2>2, <1>1, <1>5, <1>8
  <2>3. CASE a \in lo .. hi /\ c \notin lo .. hi
    <3>1. w[a] \in S /\ w[c] = m[c]
      BY <2>3, <1>4, <1>5
    <3>2. m[c] \in Img(m) \/ m[c] = Hole
      BY DEF Img
    <3> HIDE DEF S
    <3> QED BY <3>1, <3>2, <1>2, <1>3
  <2>4. CASE a \notin lo .. hi /\ c \in lo .. hi
    <3>1. w[c] \in S /\ w[a] = m[a]
      BY <2>4, <1>4, <1>5
    <3>2. m[a] \in Img(m) \/ m[a] = Hole
      BY DEF Img
    <3> HIDE DEF S
    <3> QED BY <3>1, <3>2, <1>2, <1>3
  <2>5. CASE a \notin lo .. hi /\ c \notin lo .. hi
    <3>1. w[a] = m[a] /\ w[c] = m[c]
      BY <2>5, <1>5
    <3> QED BY <3>1, <1>2, <1>8
  <2> QED BY <2>2, <2>3, <2>4, <2>5
<1> HIDE DEF S
<1>9. fr = Blocks \ (R \cup Img(w) \cup (X \ S))
  BY <1>2, <1>3, <1>7
<1>10. R \cap Img(w) = {} /\ R \cap (X \ S) = {} /\ Img(w) \cap (X \ S) = {} /\ X \ S \in SUBSET Blocks
  BY <1>2, <1>3, <1>7
<1> QED BY <1>6, <1>8, <1>9, <1>10 DEF Owned, S

(* Data becomes blocks on their way. *)
LEMMA OwnUnmap ==
  ASSUME NEW R, NEW fr, NEW X, NEW m, Owned(R, fr, X, m), NEW D, NEW w,
         w = [l \in LBlocks |-> IF l \in D THEN Hole ELSE m[l]],
         NEW S, S = {m[l] : l \in D \cap LBlocks} \ {Hole}
  PROVE  Owned(R, fr, X \cup S, w)
<1>2. /\ m \in AllMaps /\ X \subseteq Blocks /\ \A a, c \in LBlocks : a # c /\ m[a] # Hole => m[a] # m[c]
      /\ R \cap Img(m) = {} /\ R \cap X = {} /\ Img(m) \cap X = {}
      /\ fr = Blocks \ (R \cup Img(m) \cup X)
  BY DEF Owned
<1>3. \A l \in LBlocks : w[l] = IF l \in D THEN Hole ELSE m[l]
  OBVIOUS
<1>4. w \in AllMaps
  BY <1>2 DEF AllMaps
<1>5. S \subseteq Img(m) /\ Img(m) \subseteq Blocks /\ Img(w) \subseteq Img(m)
  BY <1>2, <1>3 DEF Img, AllMaps
<1>6. Img(w) \cap S = {}
  <2> SUFFICES ASSUME NEW y \in Img(w), y \in S PROVE FALSE
    OBVIOUS
  <2>1. PICK a \in LBlocks : w[a] = y /\ y # Hole
    BY DEF Img
  <2>2. PICK c \in LBlocks : c \in D /\ m[c] = y
    OBVIOUS
  <2>3. a \notin D /\ m[a] = y
    BY <2>1, <1>3
  <2> QED BY <2>1, <2>2, <2>3, <1>2
<1>7. Img(m) \subseteq Img(w) \cup S
  <2> SUFFICES ASSUME NEW y \in Img(m) PROVE y \in Img(w) \cup S
    OBVIOUS
  <2>1. PICK l \in LBlocks : m[l] = y /\ y # Hole
    BY DEF Img
  <2>2. CASE l \in D
    BY <2>1, <2>2
  <2>3. CASE l \notin D
    BY <2>1, <2>3, <1>3 DEF Img
  <2> QED BY <2>2, <2>3
<1>8. \A a, c \in LBlocks : a # c /\ w[a] # Hole => w[a] # w[c]
  BY <1>2, <1>3
<1>9. fr = Blocks \ (R \cup Img(w) \cup (X \cup S))
  BY <1>2, <1>5, <1>7
<1>10. R \cap Img(w) = {} /\ R \cap (X \cup S) = {} /\ Img(w) \cap (X \cup S) = {} /\ X \cup S \in SUBSET Blocks
  BY <1>2, <1>5, <1>6
<1> QED BY Zenon, <1>4, <1>8, <1>9, <1>10 DEF Owned

-----------------------------------------------------------------------------
(* Paths kept while the tree changes below them. *)

(* Each step of a linked path is one level down. *)
LEMMA LinkedDepth ==
  ASSUME NEW nd, NEW R, Shape(nd, R), NEW P, NEW m \in Nat, Linked(nd, R, P, m)
  PROVE  \A j \in 1 .. m + 1 : P[j].blk \in R /\ nd[P[j].blk].depth = nd[Root].depth - (j - 1)
<1>1. /\ P[1].blk = Root /\ Root \in R /\ nd[Root].depth \in Int
      /\ \A j \in 1 .. m : /\ P[j].blk \in R /\ nd[P[j].blk].depth > 0
                           /\ P[j].pos \in 1 .. Len(nd[P[j].blk].ents)
                           /\ P[j].ent = nd[P[j].blk].ents[P[j].pos]
                           /\ P[j].ent.child = P[j + 1].blk
  <2>1. Root \in R
    BY DEF Shape
  <2>2. nd[Root].depth \in Int
    BY <2>1, DepthIs
  <2> QED BY <2>1, <2>2 DEF Linked
<1> DEFINE S == {i \in Nat : i <= m => P[i + 1].blk \in R /\ nd[P[i + 1].blk].depth = nd[Root].depth - i}
<1>2. 0 \in S
  BY <1>1
<1>3. ASSUME NEW i \in Nat, i \in S PROVE i + 1 \in S
  <2> SUFFICES ASSUME i + 1 <= m
               PROVE  P[(i + 1) + 1].blk \in R /\ nd[P[(i + 1) + 1].blk].depth = nd[Root].depth - (i + 1)
    OBVIOUS
  <2> DEFINE j == i + 1
  <2>1. j \in 1 .. m /\ P[j].blk \in R /\ nd[P[j].blk].depth = nd[Root].depth - i /\ j \in Int
    BY <1>3
  <2> HIDE DEF j
  <2> DEFINE a == P[j].blk
             c == P[j + 1].blk
  <2>2. Slot(nd, a, P[j].pos, c) /\ a \in R
    BY Zenon, <2>1, <1>1 DEF Slot
  <2> HIDE DEF a, c
  <2>3. c \in R /\ nd[c].depth = nd[a].depth - 1
    BY <2>2, SlotIs
  <2>4. nd[c].depth = nd[Root].depth - (i + 1)
    BY <2>1, <2>3, <1>1 DEF a
  <2> QED BY <2>3, <2>4 DEF c, j
<1>4. Nat \subseteq S
  <2> HIDE DEF S
  <2> QED BY <1>2, <1>3, Upwards
<1> SUFFICES ASSUME NEW j \in 1 .. m + 1 PROVE P[j].blk \in R /\ nd[P[j].blk].depth = nd[Root].depth - (j - 1)
  OBVIOUS
<1> DEFINE i == j - 1
<1>5. i \in Nat /\ i <= m /\ i + 1 = j
  OBVIOUS
<1> HIDE DEF i
<1>6. i \in S
  BY <1>4, <1>5
<1> QED BY <1>5, <1>6

(* Writing the block a linked path leads to keeps the path; so does dropping a
   node at or below that level. *)
LEMMA LinkedWrite ==
  ASSUME NEW nd, NEW R, Shape(nd, R), NEW P, NEW m \in Nat, Linked(nd, R, P, m), NEW n, NEW b, b = P[m + 1].blk,
         NEW md, Put(nd, b, n, md), NEW Q, \A x \in R \ Q : nd[x].depth <= nd[b].depth
  PROVE  Linked(md, Q, P, m)
<1>1. \A j \in 1 .. m + 1 : P[j].blk \in R /\ nd[P[j].blk].depth = nd[Root].depth - (j - 1)
  BY LinkedDepth
<1>2. nd[Root].depth \in Int
  <2>1. Root \in R
    BY DEF Shape
  <2> QED BY <2>1, DepthIs
<1>3. ASSUME NEW j \in 1 .. m PROVE P[j].blk \in Q /\ md[P[j].blk] = nd[P[j].blk]
  <2>1. j \in 1 .. m + 1 /\ m + 1 \in 1 .. m + 1 /\ j \in Int /\ j < m + 1
    OBVIOUS
  <2>2. P[j].blk \in R /\ nd[P[j].blk].depth = nd[Root].depth - (j - 1) /\ nd[b].depth = nd[Root].depth - ((m + 1) - 1)
    BY <2>1, <1>1
  <2>3. nd[b].depth < nd[P[j].blk].depth /\ nd[b].depth \in Int /\ nd[P[j].blk].depth \in Int
    BY <2>1, <2>2, <1>2
  <2>4. P[j].blk # b /\ P[j].blk \in Places
    BY <2>2, <2>3 DEF Shape
  <2>5. P[j].blk \in Q
    BY <2>2, <2>3
  <2> QED BY <2>4, <2>5 DEF Put
<1> QED BY Zenon, <1>3 DEF Linked

(* A shorter part of a linked path is linked. *)
LEMMA LinkedLess ==
  ASSUME NEW nd, NEW R, NEW P, NEW m \in Nat, Linked(nd, R, P, m), Len(P) \in Nat, NEW k \in 0 .. m
  PROVE  Linked(nd, R, P, k)
<1>1. k \in 0 .. Len(P) - 1 /\ \A j \in 1 .. k : j \in 1 .. m
  BY DEF Linked
<1> QED BY <1>1 DEF Linked

(* find_extent's path is linked. *)
LEMMA PathLinked ==
  ASSUME NEW nd, NEW R, Shape(nd, R), NEW l \in LBlocks, NEW P, P = FindPath(nd, l)
  PROVE  /\ Len(P) \in Nat \ {0} /\ P \in Seq(PathSteps) /\ Linked(nd, R, P, Len(P) - 1)
         /\ P[Len(P)].blk = Landing(nd, l) /\ P[1].blk = Root
<1>1. P \in Walks(nd, R, l)
  BY PathIs
<1>2. WalkOf(nd, R, l, P)
  BY <1>1, WalkParts
<1>3. P \in Seq(PathSteps)
  BY <1>1 DEF Walks
<1>4. Len(P) \in Nat \ {0} /\ P[1].blk = Root
  BY <1>2 DEF WalkOf
<1>5. ASSUME NEW j \in 1 .. Len(P) - 1
      PROVE  /\ P[j].blk \in R /\ nd[P[j].blk].depth > 0
             /\ P[j].pos \in 1 .. Len(nd[P[j].blk].ents)
             /\ P[j].ent = nd[P[j].blk].ents[P[j].pos]
             /\ P[j].ent.child = P[j + 1].blk
  <2>1. j \in 1 .. Len(P) /\ P[j].depth > 0 /\ P[j].cnt > 0 /\ P[j + 1].blk = P[j].ent.child
    BY <1>2 DEF WalkOf
  <2>2. P[j].blk \in R /\ P[j].depth = nd[P[j].blk].depth /\ P[j].cnt = Len(nd[P[j].blk].ents)
    BY <2>1, <1>2 DEF WalkOf
  <2>3. P[j].pos \in 1 .. P[j].cnt /\ P[j].ent = nd[P[j].blk].ents[P[j].pos]
    BY Zenon, <2>1, <1>2 DEF WalkOf
  <2> QED BY <2>1, <2>2, <2>3
<1>6. Linked(nd, R, P, Len(P) - 1)
  BY <1>4, <1>5 DEF Linked
<1> QED BY <1>3, <1>4, <1>6 DEF Landing, Leaf
=============================================================================
