---------------------------- MODULE VfsDirProofs ----------------------------
(***************************************************************************)
(* Proofs about VfsDir, for directories of any size and any number of      *)
(* calls, changes and failing reads.                                       *)
(*                                                                         *)
(* The iterator's place and the count of the entries it gave are kept      *)
(* apart by the code; Counted says how they belong together.  It needs     *)
(* that a walk of k entries ends behind the k-th of them, which is where   *)
(* the least number of a set comes in (Kth).                               *)
(***************************************************************************)
EXTENDS VfsDir, FiniteSetTheorems, WellFoundedInduction, TLAPS

-----------------------------------------------------------------------------
(* The inductive invariant. *)

Below(p) == {s \in live : s < p}

(* The count is at most that of the slots behind the iterator, whatever the
   directory was when they were passed; the types say no more than TypeOK. *)
Typed == TypeOK /\ (stream # None => stream.offset < stream.pos)

(* What is behind the iterator since the scan began has been given, as far as
   it was there all the time. *)
Scanned ==
    /\ kept \subseteq live
    /\ stream # None => {s \in kept : s >= first /\ s < stream.pos} \subseteq seen

(* A location is a place in the directory: its entries before it were counted. *)
Located ==
    told # None /\ steady =>
        \E p \in 1 .. SlotCount + 1 : told.offset = Cardinality(Below(p)) /\ told.rest = Rest(p)

(* A seekdir without a failure ends at the location or at the last entry. *)
Arrived ==
    stream # None /\ sought # None =>
        stream.offset = sought \/ (stream.offset < sought /\ Rest(stream.pos) = {})

IInv == Typed /\ CountIsPosition /\ Scanned /\ ScanComplete /\ Located /\ Arrived

-----------------------------------------------------------------------------
(* Sets of slots. *)

(* A set of numbers that is not empty has a least one. *)
LEMMA Least ==
  ASSUME NEW S \in SUBSET Nat, S # {} PROVE \E n \in S : \A m \in S : n <= m
<1>1. PICK n \in S : \A m \in S : ~(<<m, n>> \in OpToRel(<, Nat))
  BY NatLessThanWellFounded, WFMin
<1>2. ASSUME NEW m \in S PROVE n <= m
  <2>1. m < n => <<m, n>> \in OpToRel(<, Nat)
    BY DEF OpToRel
  <2>2. m \in Nat /\ n \in Nat /\ ~(m < n)
    BY <1>1, <2>1
  <2> QED BY <2>2
<1> QED BY <1>2

(* Slots are numbers. *)
LEMMA SlotNumbers ==
  /\ SlotCount \in Nat /\ \A s \in Slots : s \in Nat /\ 1 <= s /\ s <= SlotCount
  /\ \A p \in 1 .. SlotCount + 1 : p \in Nat /\ 1 <= p /\ p <= SlotCount + 1
BY SlotAssumption DEF Slots

(* Lowest is the least slot. *)
LEMMA LowestIs ==
  ASSUME NEW S \in SUBSET Slots, S # {}
  PROVE  Lowest(S) \in S /\ \A t \in S : Lowest(S) <= t
<1>1. \E s \in S : \A t \in S : s <= t
  BY Least, SlotAssumption DEF Slots
<1> QED BY <1>1 DEF Lowest

(* Sets of slots are finite. *)
LEMMA Counts ==
  ASSUME NEW S \in SUBSET Slots
  PROVE  /\ IsFiniteSet(S) /\ Cardinality(S) \in Nat
         /\ (Cardinality(S) = 0 <=> S = {})
<1>1. IsFiniteSet(Slots)
  BY FS_Interval, SlotAssumption DEF Slots
<1> QED BY <1>1, FS_Subset, FS_CardinalityType, FS_EmptySet

(* Counting what is apart *)
LEMMA CountUnion ==
  ASSUME NEW S \in SUBSET Slots, NEW T \in SUBSET Slots, S \cap T = {}
  PROVE  Cardinality(S \cup T) = Cardinality(S) + Cardinality(T)
<1>1. Cardinality(S \cap T) = 0
  BY FS_EmptySet
<1>2. IsFiniteSet(S) /\ IsFiniteSet(T) /\ Cardinality(S) \in Nat /\ Cardinality(T) \in Nat
  BY Counts
<1>3. Cardinality(S \cup T) = Cardinality(S) + Cardinality(T) - Cardinality(S \cap T)
  BY <1>2, FS_Union
<1> QED BY <1>1, <1>2, <1>3

(* Of n slots, each of 1 .. n is the number of those up to some of them. *)
LEMMA Kth ==
  ASSUME NEW S \in SUBSET Slots, NEW k \in 1 .. Cardinality(S)
  PROVE  \E s \in S : Cardinality({t \in S : t <= s}) = k
<1> DEFINE UpTo(n) == {t \in S : t <= n}
           Enough == {n \in 0 .. SlotCount : Cardinality(UpTo(n)) >= k}
<1>1. \A n \in 0 .. SlotCount : UpTo(n) \in SUBSET Slots /\ Cardinality(UpTo(n)) \in Nat
  BY Counts
<1>2. UpTo(SlotCount) = S /\ UpTo(0) = {}
  <2>1. \A t \in S : t <= SlotCount /\ ~(t <= 0)
    BY SlotNumbers
  <2> QED BY <2>1
<1>3. Cardinality(S) \in Nat /\ Cardinality({}) = 0 /\ k \in Nat /\ k > 0 /\ k <= Cardinality(S)
  BY Counts, FS_EmptySet
<1>4. SlotCount \in Enough /\ Enough \in SUBSET Nat /\ 0 \notin Enough
  BY <1>2, <1>3, SlotAssumption
<1>5. PICK n \in Enough : \A m \in Enough : n <= m
  BY <1>4, Least
<1>6. n \in 1 .. SlotCount /\ n - 1 \in 0 .. SlotCount /\ n - 1 \notin Enough
  BY <1>4, <1>5, SlotAssumption
<1>7. Cardinality(UpTo(n)) >= k /\ Cardinality(UpTo(n - 1)) < k
  BY <1>1, <1>3, <1>5, <1>6
<1>8. n \in S
  <2>1. SUFFICES ASSUME n \notin S PROVE FALSE
    OBVIOUS
  <2>2. UpTo(n) = UpTo(n - 1)
    <3>1. \A t \in S : t <= n <=> t <= n - 1
      BY <1>6, <2>1, SlotNumbers
    <3> QED BY <3>1
  <2> HIDE DEF UpTo
  <2> QED BY <1>1, <1>3, <1>6, <1>7, <2>2
<1>9. Cardinality(UpTo(n)) = Cardinality(UpTo(n - 1)) + 1
  <2>1. UpTo(n) = UpTo(n - 1) \cup {n} /\ n \notin UpTo(n - 1)
    <3>1. /\ \A t \in S : t <= n <=> (t <= n - 1 \/ t = n)
          /\ ~(n <= n - 1) /\ n <= n
      BY <1>6, <1>8, SlotNumbers
    <3> QED BY <1>8, <3>1
  <2>2. IsFiniteSet(UpTo(n - 1))
    BY <1>1, <1>6, Counts
  <2> HIDE DEF UpTo
  <2> QED BY <2>1, <2>2, FS_AddElement
<1>10. Cardinality(UpTo(n)) = k
  <2> HIDE DEF UpTo
  <2> QED BY <1>1, <1>3, <1>6, <1>7, <1>9
<1> QED BY <1>8, <1>10

(* Where a walk of k entries from position p ends, and what it passes *)
LEMMA WalkEnds ==
  ASSUME live \subseteq Slots, NEW p \in 1 .. SlotCount + 1, NEW k \in 0 .. Cardinality(Rest(p))
  PROVE  /\ After(p, k) \in p .. SlotCount + 1
         /\ k <= After(p, k) - p
         /\ Cardinality({s \in live : s >= p /\ s < After(p, k)}) = k
<1> DEFINE q == After(p, k)
           Passed == {s \in live : s >= p /\ s < q}
<1>1. Rest(p) \in SUBSET Slots
  BY DEF Rest
<1>2. q \in p .. SlotCount + 1 /\ Cardinality(Passed) = k
  <2>1. CASE k = 0
    <3>1. q = p
      BY <2>1 DEF After
    <3>2. Passed = {}
      <4>1. \A s \in live : ~(s >= p /\ s < p)
        BY SlotNumbers
      <4> QED BY <3>1, <4>1
    <3> QED BY <2>1, <3>1, <3>2, FS_EmptySet, SlotAssumption
  <2>2. CASE k # 0
    <3>1. k \in 1 .. Cardinality(Rest(p))
      BY <2>2
    <3>2. PICK s \in Rest(p) : q = 1 + s /\ Cardinality({t \in Rest(p) : t <= s}) = k
      BY <1>1, <2>2, <3>1, Kth DEF After
    <3>3. Passed = {t \in Rest(p) : t <= s}
      <4>1. \A t \in live : (t < q <=> t <= s)
        BY <3>2, SlotNumbers DEF Rest
      <4> QED BY <4>1 DEF Rest
    <3>4. q \in p .. SlotCount + 1
      BY <3>2, SlotAssumption DEF Rest, Slots
    <3> QED BY <3>2, <3>3, <3>4
  <2> QED BY <2>1, <2>2
<1>3. k <= q - p
  <2>1. Passed \subseteq p .. q - 1
    <3>1. q \in Nat /\ p \in Nat
      BY <1>2, SlotNumbers
    <3>2. \A s \in live : s >= p /\ s < q => s \in p .. q - 1
      BY <3>1, SlotNumbers
    <3> QED BY <3>2
  <2>2. IsFiniteSet(p .. q - 1) /\ Cardinality(p .. q - 1) = (IF p > q - 1 THEN 0 ELSE q - 1 - p + 1)
    <3>1. p \in Int /\ q - 1 \in Int
      BY <1>2, SlotNumbers
    <3> HIDE DEF q
    <3> QED BY <3>1, FS_Interval
  <2> HIDE DEF Passed, q
  <2>3. k <= Cardinality(p .. q - 1)
    BY <1>2, <2>1, <2>2, FS_Subset
  <2> QED BY <1>2, <2>2, <2>3, SlotAssumption
<1> QED BY <1>2, <1>3

(* The entries before the place where the walk ends *)
LEMMA WalkCounts ==
  ASSUME live \subseteq Slots, NEW p \in 1 .. SlotCount + 1, NEW k \in 0 .. Cardinality(Rest(p))
  PROVE  Cardinality(Below(After(p, k))) = Cardinality(Below(p)) + k
<1> DEFINE q == After(p, k)
           Passed == {s \in live : s >= p /\ s < q}
<1>1. q \in p .. SlotCount + 1 /\ Cardinality(Passed) = k
  BY WalkEnds
<1>2. Below(q) = Below(p) \cup Passed /\ Below(p) \cap Passed = {}
  <2>1. \A s \in live : /\ s < q <=> (s < p \/ (s >= p /\ s < q))
                       /\ ~(s < p /\ s >= p)
    BY <1>1, SlotNumbers
  <2> HIDE DEF q
  <2> QED BY <2>1 DEF Below
<1>3. Below(p) \in SUBSET Slots /\ Passed \in SUBSET Slots
  BY DEF Below
<1> QED BY <1>1, <1>2, <1>3, CountUnion

(* A place is told by the number of entries before it. *)
LEMMA SamePlace ==
  ASSUME live \subseteq Slots, NEW p \in 1 .. SlotCount + 1, NEW q \in 1 .. SlotCount + 1,
         Cardinality(Below(p)) = Cardinality(Below(q))
  PROVE  Rest(p) = Rest(q)
<1>1. /\ Below(p) \in SUBSET Slots /\ IsFiniteSet(Below(p))
      /\ Below(q) \in SUBSET Slots /\ IsFiniteSet(Below(q))
  <2>1. Below(p) \in SUBSET Slots /\ Below(q) \in SUBSET Slots
    BY DEF Below
  <2> QED BY <2>1, Counts
<1>2. Below(p) \subseteq Below(q) \/ Below(q) \subseteq Below(p)
  <2>1. (\A s \in live : s < p => s < q) \/ (\A s \in live : s < q => s < p)
    BY SlotNumbers
  <2> QED BY <2>1 DEF Below
<1>3. Below(p) = Below(q)
  BY <1>1, <1>2, FS_Subset
<1>4. \A s \in live : s >= p <=> s >= q
  <2>1. \A s \in live : s < p <=> s < q
    BY <1>3 DEF Below
  <2> QED BY <2>1, SlotNumbers
<1> QED BY <1>4 DEF Rest

(* There is nothing behind the place before which all entries are. *)
LEMMA LastPlace ==
  ASSUME live \subseteq Slots, NEW p \in 1 .. SlotCount + 1, NEW q \in 1 .. SlotCount + 1,
         Rest(p) = {}, Cardinality(Below(p)) <= Cardinality(Below(q))
  PROVE  Rest(q) = {}
<1>1. Below(p) = live
  <2>1. \A s \in live : s < p
    BY SlotNumbers DEF Rest
  <2> QED BY <2>1 DEF Below
<1>2. Below(q) \in SUBSET live /\ IsFiniteSet(live) /\ Cardinality(live) \in Nat
  BY Counts DEF Below
<1>3. Cardinality(Below(q)) <= Cardinality(live) /\ Cardinality(Below(q)) \in Nat
  <2>1. Below(q) \in SUBSET Slots
    BY <1>2
  <2> QED BY <1>2, <2>1, FS_Subset, Counts
<1>4. Below(q) = live
  BY <1>1, <1>2, <1>3, FS_Subset
<1>5. \A s \in live : ~(s >= q)
  BY <1>4, SlotNumbers DEF Below
<1> QED BY <1>5 DEF Rest

(* A walk over all entries that are left leaves none. *)
LEMMA WalkLast ==
  ASSUME live \subseteq Slots, NEW p \in 1 .. SlotCount + 1
  PROVE  Rest(After(p, Cardinality(Rest(p)))) = {}
<1> DEFINE k == Cardinality(Rest(p))
           q == After(p, k)
           Passed == {s \in live : s >= p /\ s < q}
<1>1. Rest(p) \in SUBSET Slots /\ Passed \in SUBSET Rest(p) /\ IsFiniteSet(Rest(p)) /\ k \in 0 .. k
  <2>1. Rest(p) \in SUBSET Slots
    BY DEF Rest
  <2> QED BY <2>1, Counts DEF Rest
<1>2. q \in p .. SlotCount + 1 /\ Cardinality(Passed) = k
  BY <1>1, WalkEnds
<1>3. Passed = Rest(p)
  <2> HIDE DEF Passed, q
  <2> QED BY <1>1, <1>2, FS_Subset
<1>4. \A s \in live : ~(s >= q)
  <2>1. \A s \in live : s >= p => s < q
    BY <1>3 DEF Rest
  <2>2. q \in Nat /\ q >= p /\ p \in Nat
    BY <1>2, SlotNumbers
  <2> HIDE DEF q
  <2> QED BY <2>1, <2>2, SlotNumbers
<1> HIDE DEF q
<1> QED BY <1>4 DEF Rest, q

-----------------------------------------------------------------------------
(* The steps. *)

(* Nothing is before the first slot. *)
LEMMA FirstSlot == ASSUME live \subseteq Slots PROVE Below(1) = {} /\ Cardinality(Below(1)) = 0
<1>1. \A s \in live : ~(s < 1)
  BY SlotNumbers
<1>2. Below(1) = {}
  BY <1>1 DEF Below
<1> QED BY <1>2, FS_EmptySet

(* opendir begins a scan at the first slot. *)
LEMMA OpendirStep == ASSUME IInv, Opendir PROVE IInv'
<1>1. /\ live' = live /\ stream' = [pos |-> 1, offset |-> 0] /\ told' = None /\ seen' = {}
      /\ kept' = live /\ first' = 1 /\ steady' = TRUE /\ ended' = FALSE /\ sought' = None
  BY DEF Opendir, Ends
<1>2. live \subseteq Slots
  BY DEF IInv, Typed, TypeOK
<1>3. Typed'
  <2>1. stream' \in [pos : 1 .. SlotCount + 1, offset : 0 .. SlotCount] /\ stream'.offset < stream'.pos
        /\ first' \in 1 .. SlotCount + 1
    BY <1>1, SlotAssumption
  <2> QED BY <1>1, <1>2, <2>1 DEF Typed, TypeOK
<1>4. CountIsPosition'
  <2>1. {s \in live' : s < stream'.pos} = Below(1)
    BY <1>1 DEF Below
  <2> QED BY <1>1, <1>2, <2>1, FirstSlot DEF CountIsPosition
<1>5. Scanned'
  <2>1. \A s \in live : ~(s >= 1 /\ s < 1)
    BY <1>2, SlotNumbers
  <2> QED BY <1>1, <2>1 DEF Scanned
<1> QED BY <1>1, <1>3, <1>4, <1>5 DEF IInv, ScanComplete, Located, Arrived

(* readdir steps over one entry and counts it, or finds none. *)
LEMMA ReaddirStep == ASSUME IInv, Readdir PROVE IInv'
<1>1. /\ live' = live /\ told' = told /\ kept' = kept /\ first' = first /\ steady' = steady
      /\ stream # None /\ sought' = None /\ live \subseteq Slots
  BY DEF Readdir, Call, Ends, IInv, Typed, TypeOK
<1>2. /\ stream \in [pos : 1 .. SlotCount + 1, offset : 0 .. SlotCount]
      /\ stream.offset < stream.pos /\ stream.pos \in 1 .. SlotCount + 1 /\ stream.offset \in 0 .. SlotCount
  BY <1>1 DEF IInv, Typed, TypeOK
<1>3. Located' /\ Arrived'
  BY <1>1 DEF IInv, Located, Arrived, Below, Rest
<1>4. CASE Remaining = {}
  <2>1. stream' = stream /\ seen' = seen /\ ended' = TRUE
    BY <1>4 DEF Readdir, Ends
  <2>2. Typed' /\ CountIsPosition' /\ Scanned'
    BY <1>1, <2>1 DEF IInv, Typed, TypeOK, CountIsPosition, Scanned
  <2>3. ScanComplete'
    <3>1. \A s \in kept : s < stream.pos
      BY <1>2, <1>4, SlotNumbers DEF IInv, Scanned, Typed, TypeOK, Remaining, Rest
    <3> QED BY <1>1, <2>1, <3>1 DEF IInv, Scanned, ScanComplete
  <2> QED BY <1>3, <2>2, <2>3 DEF IInv
<1>5. CASE Remaining # {}
  <2> DEFINE s == Lowest(Remaining)
  <2>1. Remaining \in SUBSET Slots
    BY <1>1 DEF Remaining, Rest
  <2>2. s \in Remaining /\ \A t \in Remaining : s <= t
    BY <1>5, <2>1, LowestIs
  <2>3. /\ stream' = [pos |-> s + 1, offset |-> stream.offset + 1] /\ seen' = seen \cup {s}
        /\ ended' = FALSE
    BY <1>5 DEF Readdir, Ends
  <2> HIDE DEF s
  <2>4. s \in live /\ s >= stream.pos /\ s \in Slots /\ s \in Nat /\ s <= SlotCount
    BY <1>1, <2>2, SlotNumbers DEF Remaining, Rest
  <2>5. \A t \in live : t >= stream.pos => t >= s
    BY <2>2, <1>1, <2>4, SlotNumbers DEF Remaining, Rest
  <2>6. /\ stream'.pos = s + 1 /\ stream'.offset = stream.offset + 1
        /\ stream'.pos \in 1 .. SlotCount + 1 /\ stream'.offset \in 0 .. SlotCount
        /\ stream'.offset < stream'.pos
    BY <1>2, <2>3, <2>4, SlotNumbers
  <2>7. Typed'
    BY <1>1, <2>3, <2>4, <2>6 DEF IInv, Typed, TypeOK
  <2>8. \A t \in live : t < s + 1 <=> (t < stream.pos \/ t = s)
    BY <1>1, <1>2, <2>4, <2>5, SlotNumbers
  <2>9. CountIsPosition'
    <3>1. {t \in live' : t < stream'.pos} = Below(stream.pos) \cup {s} /\ s \notin Below(stream.pos)
      <4>1. ~(s < stream.pos)
        BY <1>2, <2>4, SlotNumbers
      <4> QED BY <1>1, <2>4, <2>6, <2>8, <4>1 DEF Below
    <3>2. IsFiniteSet(Below(stream.pos))
      BY <1>1, Counts DEF Below
    <3>3. Cardinality(Below(stream.pos) \cup {s}) = Cardinality(Below(stream.pos)) + 1
      BY <3>1, <3>2, FS_AddElement
    <3> QED BY <1>1, <2>6, <3>1, <3>3 DEF IInv, CountIsPosition, Below
  <2>10. Scanned'
    BY <1>1, <2>3, <2>6, <2>8 DEF IInv, Scanned
  <2> QED BY <1>3, <2>3, <2>7, <2>9, <2>10 DEF IInv, ScanComplete
<1> QED BY <1>4, <1>5

(* A readdir that fails changes nothing. *)
LEMMA ReaddirFailsStep == ASSUME IInv, ReaddirFails PROVE IInv'
BY DEF ReaddirFails, Call, Ends, history, IInv, Typed, TypeOK, CountIsPosition, Scanned, ScanComplete,
       Located, Arrived, Below, Rest

(* telldir gives the count, which stands for the iterator's place. *)
LEMMA TelldirStep == ASSUME IInv, Telldir PROVE IInv'
<1>1. /\ live' = live /\ stream' = stream /\ seen' = seen /\ kept' = kept /\ first' = first
      /\ steady' = steady /\ ended' = FALSE /\ sought' = None /\ stream # None
      /\ told' = [offset |-> stream.offset, rest |-> Rest(stream.pos)]
  BY DEF Telldir, Call, Ends
<1>2. stream.pos \in 1 .. SlotCount + 1 /\ stream.offset \in Nat /\ live \subseteq Slots
  BY <1>1 DEF IInv, Typed, TypeOK
<1>3. Typed'
  <2>1. told' \in [offset : Nat, rest : SUBSET Slots]
    BY <1>1, <1>2 DEF Rest
  <2> QED BY <1>1, <2>1 DEF IInv, Typed, TypeOK
<1>4. Located'
  BY <1>1, <1>2 DEF IInv, Located, CountIsPosition, Below, Rest
<1> QED BY <1>1, <1>3, <1>4 DEF IInv, CountIsPosition, Scanned, ScanComplete, Arrived

(* Where seekdir's walk begins *)
LEMMA Rewinding ==
  ASSUME IInv, stream # None, NEW offset \in 0 .. SlotCount
  PROVE  LET from == Rewound(offset)
         IN  /\ from.pos \in 1 .. SlotCount + 1 /\ from.offset \in Nat
             /\ from.offset < from.pos /\ from.offset <= offset
             /\ steady => from.offset = Cardinality(Below(from.pos))
<1>1. /\ stream.pos \in 1 .. SlotCount + 1 /\ stream.offset \in Nat /\ stream.offset < stream.pos
      /\ live \subseteq Slots
  BY DEF IInv, Typed, TypeOK
<1>2. CASE offset < stream.offset
  <2>1. Rewound(offset) = [pos |-> 1, offset |-> 0]
    BY <1>2 DEF Rewound
  <2> QED BY <1>1, <2>1, FirstSlot, SlotAssumption
<1>3. CASE ~(offset < stream.offset)
  <2>1. Rewound(offset) = stream
    BY <1>3 DEF Rewound
  <2> QED BY <1>1, <1>3, <2>1 DEF IInv, CountIsPosition, Below
<1> QED BY <1>2, <1>3

(* seekdir's walk counts what it passes. *)
LEMMA SeekdirStep == ASSUME IInv, Seekdir PROVE IInv'
<1>1. /\ live' = live /\ told' = told /\ steady' = steady /\ seen' = {} /\ kept' = live
      /\ first' = stream'.pos /\ stream # None /\ live \subseteq Slots
  BY DEF Seekdir, Call, IInv, Typed, TypeOK
<1>2. PICK offset \in 0 .. SlotCount, k \in 0 .. SlotCount :
         /\ Rewound(offset).offset + k <= offset \/ k = 0
         /\ k <= Cardinality(Rest(Rewound(offset).pos))
         /\ \/ /\ Rewound(offset).offset + k >= offset \/ k = Cardinality(Rest(Rewound(offset).pos))
               /\ Ends(FALSE, offset)
            \/ Ends(FALSE, None)
         /\ stream' = [pos |-> After(Rewound(offset).pos, k), offset |-> Rewound(offset).offset + k]
  BY DEF Seekdir
<1> DEFINE p == Rewound(offset).pos
           c == Rewound(offset).offset
           q == After(p, k)
<1>3. /\ p \in 1 .. SlotCount + 1 /\ c \in Nat /\ c < p /\ c <= offset
      /\ steady => c = Cardinality(Below(p))
  BY <1>1, Rewinding
<1>4. /\ c + k <= offset \/ k = 0
      /\ k <= Cardinality(Rest(p))
      /\ \/ (c + k >= offset \/ k = Cardinality(Rest(p))) /\ Ends(FALSE, offset)
         \/ Ends(FALSE, None)
      /\ stream' = [pos |-> q, offset |-> c + k]
  BY <1>2
<1>5. k \in 0 .. Cardinality(Rest(p))
  <2>1. Rest(p) \in SUBSET Slots
    BY <1>1 DEF Rest
  <2> QED BY <1>4, <2>1, Counts
<1>6. /\ q \in p .. SlotCount + 1 /\ k <= q - p
      /\ Cardinality(Below(q)) = Cardinality(Below(p)) + k
      /\ (k = Cardinality(Rest(p)) => Rest(q) = {})
  BY <1>1, <1>3, <1>5, WalkEnds, WalkCounts, WalkLast
<1> HIDE DEF p, c, q
<1>7. /\ stream'.pos = q /\ stream'.offset = c + k
      /\ q \in 1 .. SlotCount + 1 /\ c + k \in 0 .. SlotCount /\ c + k < q
  BY <1>3, <1>4, <1>6, SlotNumbers
<1>8. ended' = FALSE /\ (sought' = offset \/ sought' = None)
  BY <1>4 DEF Ends
<1>9. Typed'
  <2>1. stream' \in [pos : 1 .. SlotCount + 1, offset : 0 .. SlotCount]
    BY <1>4, <1>7
  <2>2. sought' = None \/ sought' \in Nat
    BY <1>8
  <2> QED BY <1>1, <1>7, <1>8, <2>1, <2>2 DEF IInv, Typed, TypeOK
<1>10. CountIsPosition'
  <2>1. {s \in live' : s < stream'.pos} = Below(q)
    BY <1>1, <1>7 DEF Below
  <2> QED BY <1>1, <1>3, <1>6, <1>7, <2>1 DEF CountIsPosition
<1>11. Scanned'
  <2>1. \A s \in live : ~(s >= q /\ s < q)
    BY <1>1, <1>7, SlotNumbers
  <2> QED BY <1>1, <1>7, <2>1 DEF Scanned
<1>12. Located'
  BY <1>1 DEF IInv, Located, Below, Rest
<1>13. Arrived'
  <2>1. sought' # None => sought' = offset /\ (c + k >= offset \/ k = Cardinality(Rest(p)))
    BY <1>4 DEF Ends
  <2>2. c + k >= offset => c + k = offset
    BY <1>3, <1>4
  <2>3. c + k = offset \/ (c + k < offset /\ k = Cardinality(Rest(p))) \/ sought' = None
    BY <1>3, <2>1, <2>2
  <2>4. {s \in live' : s >= q} = Rest(q)
    BY <1>1 DEF Rest
  <2> QED BY <1>1, <1>6, <1>7, <2>1, <2>3, <2>4 DEF Arrived, Rest
<1> QED BY <1>8, <1>9, <1>10, <1>11, <1>12, <1>13 DEF IInv, ScanComplete

(* closedir ends the stream. *)
LEMMA ClosedirStep == ASSUME IInv, Closedir PROVE IInv'
BY DEF Closedir, Call, Ends, history, IInv, Typed, TypeOK, CountIsPosition, Scanned, ScanComplete,
       Located, Arrived, Below, Rest

(* What other tasks make or remove was not there all the time. *)
LEMMA ChangeStep == ASSUME IInv, Change PROVE IInv'
<1>1. PICK s \in Slots : live' = (IF s \in live THEN live \ {s} ELSE live \cup {s}) /\ kept' = kept \ {s}
  BY DEF Change
<1>2. /\ stream' = stream /\ told' = told /\ seen' = seen /\ first' = first
      /\ steady' = FALSE /\ ended' = FALSE /\ sought' = None
  BY DEF Change, Ends
<1>3. Typed' /\ Scanned'
  BY <1>1, <1>2 DEF IInv, Typed, TypeOK, Scanned
<1> QED BY <1>2, <1>3 DEF IInv, CountIsPosition, ScanComplete, Located, Arrived

(* A directory whose stream is not open *)
LEMMA IInvInit == Init => IInv
<1> SUFFICES ASSUME Init PROVE IInv
  OBVIOUS
<1>1. /\ live \in SUBSET Slots /\ stream = None /\ told = None /\ seen = {} /\ kept = {} /\ first = 1
      /\ steady = TRUE /\ ended = FALSE /\ sought = None
  BY DEF Init
<1>2. 1 \in 1 .. SlotCount + 1
  BY SlotAssumption
<1>3. Typed
  BY <1>1, <1>2 DEF Typed, TypeOK
<1> QED BY <1>1, <1>3 DEF IInv, CountIsPosition, Scanned, ScanComplete, Located, Arrived

(* Every call and every change keeps the invariant. *)
LEMMA IInvStep == IInv /\ [Next]_vars => IInv'
<1> SUFFICES ASSUME IInv, [Next]_vars PROVE IInv'
  OBVIOUS
<1>1. CASE UNCHANGED vars
  BY <1>1 DEF vars, IInv, Typed, TypeOK, CountIsPosition, Scanned, ScanComplete, Located, Arrived, Below, Rest
<1> QED BY <1>1, OpendirStep, ReaddirStep, ReaddirFailsStep, TelldirStep, SeekdirStep, ClosedirStep,
           ChangeStep DEF Next

-----------------------------------------------------------------------------
(* The theorems. *)

(* The iterator's place, the count and the record of the scan keep their
   relation, whatever is called and changed. *)
THEOREM Inductive == Spec => []IInv
BY IInvInit, IInvStep, PTL DEF Spec

(* The types, the count of a stream of which entries come and go included:
   dir->offset never exceeds the slots of the directory. *)
THEOREM TypeCorrect == Spec => []TypeOK
<1>1. IInv => TypeOK
  BY DEF IInv, Typed
<1> QED BY <1>1, Inductive, PTL

(* What telldir answers is the number of entries before the iterator, after
   any sequence of seeks (seekdir, readdir_r). *)
THEOREM CountsPosition == Spec => []CountIsPosition
<1>1. IInv => CountIsPosition
  BY DEF IInv
<1> QED BY <1>1, Inductive, PTL

(* A scan that reaches its end has given every entry that was there all the
   time (readdir_r), whatever other tasks made and removed. *)
THEOREM ScansAll == Spec => []ScanComplete
<1>1. IInv => ScanComplete
  BY DEF IInv
<1> QED BY <1>1, Inductive, PTL

(* A seekdir to a location of this stream returns to the place at which
   telldir gave it. *)
THEOREM SeeksBack == Spec => []SeekReturns
<1>1. IInv => SeekReturns
  <2> SUFFICES ASSUME IInv, stream # None, told # None, steady, sought # None, sought = told.offset
               PROVE  Rest(stream.pos) = told.rest
    BY DEF SeekReturns, Rest
  <2>1. /\ stream.pos \in 1 .. SlotCount + 1 /\ stream.offset \in Nat /\ live \subseteq Slots
        /\ stream.offset = Cardinality(Below(stream.pos))
    BY DEF IInv, Typed, TypeOK, CountIsPosition, Below
  <2>2. PICK p \in 1 .. SlotCount + 1 : told.offset = Cardinality(Below(p)) /\ told.rest = Rest(p)
    BY DEF IInv, Located
  <2>3. CASE stream.offset = sought
    BY <2>1, <2>2, <2>3, SamePlace
  <2>4. CASE stream.offset < sought /\ Rest(stream.pos) = {}
    <3>1. Below(p) \in SUBSET Slots
      BY <2>1 DEF Below
    <3>2. Cardinality(Below(stream.pos)) <= Cardinality(Below(p))
      BY <2>1, <2>2, <2>4, <3>1, Counts
    <3> QED BY <2>1, <2>2, <2>4, <3>2, LastPlace
  <2> QED BY <2>3, <2>4 DEF IInv, Arrived
<1> QED BY <1>1, Inductive, PTL
=============================================================================
