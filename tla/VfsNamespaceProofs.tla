--------------------------- MODULE VfsNamespaceProofs ---------------------------
(***************************************************************************)
(* Proofs about VfsNamespace, for directory trees of any size and shape    *)
(* and paths of any length, in which a directory can be read (~ScanFaults) *)
(***************************************************************************)
EXTENDS VfsNamespace, FiniteSetTheorems, SequenceTheorems, WellFoundedInduction, TLAPS

-----------------------------------------------------------------------------
(* Paths. *)

(* A set of numbers that is not empty has a least one. *)
LEMMA Least ==
  ASSUME NEW S \in SUBSET Nat, S # {} PROVE \E n \in S : \A m \in S : n <= m
<1>1. PICK n \in S : \A m \in S : ~(<<m, n>> \in OpToRel(<, Nat))
  BY NatLessThanWellFounded, WFMin
<1>2. ASSUME NEW m \in S PROVE n <= m
  <2>1. m < n => <<m, n>> \in OpToRel(<, Nat)
    BY DEF OpToRel
  <2>2. m \in Nat /\ n \in Nat /\ ~(m < n)
    BY <1>1, <2>1
  <2> QED BY <2>2
<1> QED BY <1>2

(* A set of numbers that has 0 and with a number the next has all. *)
LEMMA Upwards ==
  ASSUME NEW S, 0 \in S, \A n \in Nat : n \in S => n + 1 \in S
  PROVE  Nat \subseteq S
<1> SUFFICES ASSUME Nat \ S # {} PROVE FALSE
  OBVIOUS
<1>1. PICK n \in Nat \ S : \A m \in Nat \ S : n <= m
  BY Least
<1>2. n # 0 /\ n - 1 \in Nat /\ ~(n <= n - 1)
  BY <1>1
<1>3. n - 1 \in S
  BY <1>1, <1>2
<1>4. (n - 1) + 1 \in S
  BY <1>2, <1>3
<1> QED BY <1>1, <1>4

(* The functions that start with v and go on by steps *)
Runs(V, v, n, step) ==
    {f \in [0 .. n -> V] : f[0] = v /\ \A k \in 1 .. n : f[k] = step[k][f[k - 1]]}

(* There are some. *)
LEMMA Recursion ==
  ASSUME NEW V, NEW v \in V, NEW n \in Nat, NEW step \in [1 .. n -> [V -> V]]
  PROVE  Runs(V, v, n, step) # {}
<1> DEFINE Upto(m, f) == f[0] = v /\ \A k \in 1 .. m : f[k] = step[k][f[k - 1]]
           S == {m \in Nat : m <= n => \E f \in [0 .. m -> V] : Upto(m, f)}
<1>1. 0 \in S
  <2>1. [k \in 0 .. 0 |-> v] \in [0 .. 0 -> V] /\ Upto(0, [k \in 0 .. 0 |-> v])
    OBVIOUS
  <2> QED BY <2>1
<1>2. ASSUME NEW m \in Nat, m \in S PROVE m + 1 \in S
  <2> SUFFICES ASSUME m + 1 <= n PROVE \E f \in [0 .. m + 1 -> V] : Upto(m + 1, f)
    OBVIOUS
  <2>1. PICK f \in [0 .. m -> V] : Upto(m, f)
    BY <1>2
  <2> DEFINE g == [k \in 0 .. m + 1 |-> IF k = m + 1 THEN step[m + 1][f[m]] ELSE f[k]]
  <2>2. f[m] \in V /\ m + 1 \in 1 .. n
    OBVIOUS
  <2>3. step[m + 1][f[m]] \in V
    BY <2>2
  <2>4. g \in [0 .. m + 1 -> V]
    BY <2>3
  <2>5. g[0] = v
    BY <2>1
  <2>6. ASSUME NEW k \in 1 .. m + 1 PROVE g[k] = step[k][g[k - 1]]
    <3>1. CASE k = m + 1
      <4>1. k - 1 = m /\ m \in 0 .. m + 1 /\ m # m + 1 /\ k \in 0 .. m + 1
        BY <3>1
      <4>2. g[k - 1] = f[m] /\ g[k] = step[m + 1][f[m]]
        BY <3>1, <4>1
      <4> QED BY <3>1, <4>2
    <3>2. CASE k # m + 1
      <4>1. k \in 1 .. m /\ k - 1 \in 0 .. m /\ k - 1 # m + 1
        BY <3>2
      <4> QED BY <4>1, <2>1
    <3> QED BY <3>1, <3>2
  <2> QED BY <2>4, <2>5, <2>6
<1>3. n \in S
  <2> HIDE DEF S
  <2> QED BY <1>1, <1>2, Upwards
<1>4. \E f \in [0 .. n -> V] : Upto(n, f)
  BY <1>3
<1> QED BY <1>4 DEF Runs

Components == Names \cup {Dot, DotDot}

(* A path that is not empty is one that is shorter, and a last component. *)
LEMMA Shorter ==
  ASSUME NEW p \in Path, p # <<>>
  PROVE  /\ Len(p) \in Nat \ {0} /\ Front(p) \in Path /\ Len(Front(p)) = Len(p) - 1
         /\ Last(p) \in Components /\ Len(p) \in DOMAIN p /\ Last(p) = p[Len(p)]
         /\ \A i \in 1 .. Len(p) - 1 : Front(p)[i] = p[i]
         /\ \A i \in 1 .. Len(p) : p[i] \in Components
<1>1. p \in Seq(Components) /\ Len(p) \in Nat \ {0} /\ \A i \in 1 .. Len(p) : p[i] \in Components
  BY DEF Path, Components
<1>2. \A i \in 1 .. Len(p) - 1 : p[i] \in Components
  BY <1>1
<1>3. /\ SubSeq(p, 1, Len(p) - 1) \in Seq(Components)
      /\ Len(SubSeq(p, 1, Len(p) - 1)) = IF 1 <= Len(p) - 1 THEN (Len(p) - 1) - 1 + 1 ELSE 0
      /\ \A i \in 1 .. (Len(p) - 1) - 1 + 1 : SubSeq(p, 1, Len(p) - 1)[i] = p[1 + i - 1]
  BY <1>1, <1>2, SubSeqProperties
<1>4. Front(p) \in Path /\ Front(p) = SubSeq(p, 1, Len(p) - 1)
  BY <1>3 DEF Front, Path, Components
<1>5. Len(Front(p)) = Len(p) - 1 /\ \A i \in 1 .. Len(p) - 1 : Front(p)[i] = p[i]
  <2>1. (Len(p) - 1) - 1 + 1 = Len(p) - 1 /\ (1 <= Len(p) - 1 \/ Len(p) - 1 = 0)
    BY <1>1
  <2>2. Len(Front(p)) = Len(p) - 1
    BY <1>3, <1>4, <2>1
  <2>3. ASSUME NEW i \in 1 .. Len(p) - 1 PROVE Front(p)[i] = p[i]
    <3>1. 1 + i - 1 = i
      OBVIOUS
    <3> QED BY <1>3, <1>4, <2>1, <3>1
  <2> QED BY <2>2, <2>3
<1>6. Last(p) = p[Len(p)] /\ Last(p) \in Components /\ Len(p) \in DOMAIN p
  BY <1>1 DEF Last
<1> QED BY <1>1, <1>4, <1>5, <1>6

(* Paths with the same last component and the same rest are the same. *)
LEMMA SamePath ==
  ASSUME NEW p \in Path, NEW q \in Path, p # <<>>, q # <<>>,
         Front(p) = Front(q), Last(p) = Last(q)
  PROVE  p = q
<1>1. Len(p) = Len(q) /\ Len(p) \in Nat
  BY Shorter
<1>2. \A i \in 1 .. Len(p) : p[i] = q[i]
  <2> TAKE i \in 1 .. Len(p)
  <2>1. CASE i = Len(p)
    BY <1>1, <2>1, Shorter
  <2>2. CASE i # Len(p)
    BY <1>1, <2>2, Shorter
  <2> QED BY <2>1, <2>2
<1> QED BY <1>1, <1>2 DEF Path

(* What holds of the empty path, and of a path when it holds of the one without
   the last component, holds of all paths. *)
LEMMA PathInduction ==
  ASSUME NEW P, <<>> \in P, \A p \in Path : p # <<>> /\ Front(p) \in P => p \in P
  PROVE  Path \subseteq P
<1> DEFINE S == {n \in Nat : \A p \in Path : Len(p) = n => p \in P}
<1>1. 0 \in S
  <2>1. \A p \in Path : Len(p) = 0 => p = <<>>
    BY DEF Path
  <2> QED BY <2>1
<1>2. ASSUME NEW n \in Nat, n \in S PROVE n + 1 \in S
  <2> SUFFICES ASSUME NEW p \in Path, Len(p) = n + 1 PROVE p \in P
    OBVIOUS
  <2>1. p # <<>>
    BY DEF Path
  <2>2. Front(p) \in Path /\ Len(Front(p)) = n
    BY <2>1, Shorter
  <2> QED BY <1>2, <2>1, <2>2
<1>3. Nat \subseteq S
  <2> HIDE DEF S
  <2> QED BY <1>1, <1>2, Upwards
<1>4. \A p \in Path : Len(p) \in Nat
  BY DEF Path
<1> QED BY <1>3, <1>4

(* Deeper never goes above the root. *)
LEMMA DeeperIs ==
  ASSUME NEW d \in Nat, NEW n
  PROVE  Deeper(d, n) \in Nat
BY DEF Deeper

Depth(p) == PathDepths(p)[Len(p)]

(* The depths along a path *)
LEMMA DepthsAre ==
  ASSUME NEW p \in Path
  PROVE  /\ PathDepths(p) \in [0 .. Len(p) -> Nat] /\ PathDepths(p)[0] = 0
         /\ \A k \in 1 .. Len(p) : PathDepths(p)[k] = Deeper(PathDepths(p)[k - 1], p[k])
<1> DEFINE step == [k \in 1 .. Len(p) |-> [d \in Nat |-> Deeper(d, p[k])]]
           Is(f) == f = [k \in 0 .. Len(p) |-> IF k = 0 THEN 0 ELSE Deeper(f[k - 1], p[k])]
<1>1. Len(p) \in Nat /\ step \in [1 .. Len(p) -> [Nat -> Nat]]
  BY DeeperIs DEF Path
<1>2. Runs(Nat, 0, Len(p), step) # {}
  <2> HIDE DEF step
  <2> QED BY <1>1, Recursion
<1>3. PICK f \in [0 .. Len(p) -> Nat] : f[0] = 0 /\ \A k \in 1 .. Len(p) : f[k] = Deeper(f[k - 1], p[k])
  <2>1. PICK f \in Runs(Nat, 0, Len(p), step) : TRUE
    BY <1>2
  <2>2. /\ f \in [0 .. Len(p) -> Nat] /\ f[0] = 0
        /\ \A k \in 1 .. Len(p) : f[k] = step[k][f[k - 1]]
    BY <2>1 DEF Runs
  <2>3. ASSUME NEW k \in 1 .. Len(p) PROVE f[k] = Deeper(f[k - 1], p[k])
    <3>1. k - 1 \in 0 .. Len(p)
      BY <1>1
    <3>2. f[k - 1] \in Nat
      BY <2>2, <3>1
    <3> QED BY <2>2, <3>2
  <2> QED BY <2>2, <2>3
<1>4. Is(f)
  <2>1. \A k \in 0 .. Len(p) : f[k] = IF k = 0 THEN 0 ELSE Deeper(f[k - 1], p[k])
    BY <1>1, <1>3
  <2> QED BY <2>1
<1>5. PathDepths(p) = CHOOSE g : Is(g)
  BY DEF PathDepths
<1>6. Is(PathDepths(p))
  <2> HIDE DEF Is
  <2> QED BY <1>4, <1>5
<1> DEFINE g == PathDepths(p)
<1>7. \A k \in 0 .. Len(p) : g[k] = IF k = 0 THEN 0 ELSE Deeper(g[k - 1], p[k])
  BY <1>6
<1>8. g = [k \in 0 .. Len(p) |-> g[k]]
  BY <1>6
<1> HIDE DEF g
<1>9. \A k \in 0 .. Len(p) : g[k] \in Nat
  <2> DEFINE S == {n \in Nat : n <= Len(p) => g[n] \in Nat}
  <2>1. 0 \in S
    BY <1>1, <1>7
  <2>2. ASSUME NEW n \in Nat, n \in S PROVE n + 1 \in S
    <3> SUFFICES ASSUME n + 1 <= Len(p) PROVE g[n + 1] \in Nat
      OBVIOUS
    <3>1. g[n] \in Nat /\ n + 1 \in 0 .. Len(p) /\ n + 1 # 0 /\ (n + 1) - 1 = n
      BY <1>1, <2>2
    <3>2. g[n + 1] = Deeper(g[n], p[n + 1])
      BY <1>7, <3>1
    <3> QED BY <3>1, <3>2, DeeperIs
  <2>3. Nat \subseteq S
    <3> HIDE DEF S
    <3> QED BY <2>1, <2>2, Upwards
  <2> QED BY <2>3, <1>1
<1>10. \A k \in 1 .. Len(p) : k \in 0 .. Len(p) /\ k # 0
  BY <1>1
<1>11. 0 \in 0 .. Len(p)
  BY <1>1
<1>12. g \in [0 .. Len(p) -> Nat] /\ g[0] = 0 /\ \A k \in 1 .. Len(p) : g[k] = Deeper(g[k - 1], p[k])
  BY <1>7, <1>8, <1>9, <1>10, <1>11
<1> QED BY <1>12 DEF g

(* The steps of a path that is followed to its end are those of the path
   without the last component, and one more. *)
LEMMA DepthIs ==
  /\ Depth(<<>>) = 0
  /\ \A p \in Path : Depth(p) \in Nat
  /\ \A p \in Path : p # <<>> => Depth(p) = Deeper(Depth(Front(p)), Last(p))
<1>1. <<>> \in Path /\ Len(<<>>) = 0
  BY DEF Path
<1>2. \A p \in Path : Len(p) \in Nat /\ Len(p) \in 0 .. Len(p)
  BY DEF Path
<1>3. Depth(<<>>) = 0 /\ \A p \in Path : Depth(p) \in Nat
  BY <1>1, <1>2, DepthsAre DEF Depth
<1>4. ASSUME NEW p \in Path, p # <<>>
      PROVE  Depth(p) = Deeper(Depth(Front(p)), Last(p))
  <2> DEFINE q == Front(p)
             f == PathDepths(p)
             g == PathDepths(q)
             S == {n \in Nat : n <= Len(q) => f[n] = g[n]}
  <2>1. q \in Path /\ Len(q) = Len(p) - 1 /\ Len(q) \in Nat /\ \A i \in 1 .. Len(q) : q[i] = p[i]
    BY <1>4, Shorter, <1>2
  <2>2. 0 \in S
    BY <2>1, DepthsAre
  <2>3. ASSUME NEW n \in Nat, n \in S PROVE n + 1 \in S
    <3> SUFFICES ASSUME n + 1 <= Len(q) PROVE f[n + 1] = g[n + 1]
      OBVIOUS
    <3>1. n + 1 \in 1 .. Len(q) /\ n + 1 \in 1 .. Len(p) /\ (n + 1) - 1 = n /\ n <= Len(q)
      BY <2>1
    <3>2. f[n + 1] = Deeper(f[n], p[n + 1]) /\ g[n + 1] = Deeper(g[n], q[n + 1])
      BY <2>1, <3>1, DepthsAre
    <3>3. f[n] = g[n] /\ p[n + 1] = q[n + 1]
      BY <2>1, <2>3, <3>1
    <3> QED BY <3>2, <3>3
  <2>4. Len(q) \in S
    <3> HIDE DEF S
    <3> QED BY <2>1, <2>2, <2>3, Upwards
  <2>5. f[Len(p) - 1] = Depth(q)
    BY <2>1, <2>4 DEF Depth
  <2>6. Len(p) \in 1 .. Len(p)
    BY <1>4, Shorter
  <2>7. f[Len(p)] = Deeper(f[Len(p) - 1], p[Len(p)])
    BY <2>6, DepthsAre
  <2> QED BY <1>4, <2>5, <2>7, Shorter DEF Depth
<1> QED BY <1>3, <1>4

-----------------------------------------------------------------------------
(* Trees. *)

Good(t) == t \in TreeType /\ WellFormed(t)

Places == Inodes \cup {None}

(* The fields of a tree, and who is a directory *)
LEMMA Fields ==
  ASSUME NEW t, Good(t)
  PROVE  /\ t.kind \in [Inodes -> {"free", "dir", "file"}]
         /\ t.ent \in [Inodes -> [Names -> Places]]
         /\ t.mode \in [Inodes -> Modes]
         /\ t.atime \in [Inodes -> Int] /\ t.mtime \in [Inodes -> Int]
         /\ \A i \in Inodes : i # None /\ (i \in Dirs(t) <=> t.kind[i] = "dir")
         /\ \A i : i \in Dirs(t) <=> i \in Inodes /\ IsDir(t, i)
         /\ \A i \in Places : IsDir(t, i) <=> i \in Dirs(t)
         /\ Root \in Dirs(t) /\ Root \in Inodes /\ None \notin Inodes
BY TreeAssumption DEF Good, TreeType, WellFormed, Dirs, IsDir, Places

(* An entry is in a directory, and refers to an inode in use that is not the
   root. *)
LEMMA EntriesAre ==
  ASSUME NEW t, Good(t), NEW d \in Inodes, NEW n \in Names, t.ent[d][n] # None
  PROVE  /\ d \in Dirs(t) /\ t.ent[d][n] \in Inodes \ {Root}
         /\ t.kind[t.ent[d][n]] # "free" /\ <<d, n>> \in Links(t, t.ent[d][n])
<1>1. IsDir(t, d) /\ t.kind[t.ent[d][n]] # "free" /\ t.ent[d][n] # Root
  BY DEF Good, WellFormed
<1>2. t.ent[d][n] \in Places
  BY Fields
<1> QED BY <1>1, <1>2, Fields DEF Links, Places

(* A finite set has one element or not. *)
LEMMA LinksAre ==
  ASSUME NEW t, Good(t), NEW i \in Inodes
  PROVE  /\ IsFiniteSet(Links(t, i))
         /\ Cardinality(Links(t, i)) = 1 <=> \E l : Links(t, i) = {l}
         /\ \A d \in Inodes, n \in Names : <<d, n>> \in Links(t, i) <=> t.ent[d][n] = i
         /\ \A l \in Links(t, i) : l[1] \in Inodes /\ l[2] \in Names /\ l = <<l[1], l[2]>>
<1>1. Links(t, i) \in SUBSET (Inodes \X Names)
  BY DEF Links
<1>2. IsFiniteSet(Links(t, i))
  BY <1>1, TreeAssumption, FS_Product, FS_Subset
<1>3. Cardinality(Links(t, i)) = 1 <=> \E l : Links(t, i) = {l}
  BY <1>2, FS_Singleton
<1> QED BY <1>1, <1>2, <1>3 DEF Links

(* A directory other than the root has one entry, in its parent. *)
LEMMA ParentIs ==
  ASSUME NEW t, Good(t), NEW i \in Dirs(t), i # Root
  PROVE  \E d \in Dirs(t), n \in Names :
            /\ t.ent[d][n] = i /\ ParentOf(t, i) = d
            /\ \A e \in Inodes, m \in Names : t.ent[e][m] = i => e = d /\ m = n
<1>1. i \in Inodes /\ Cardinality(Links(t, i)) = 1
  BY Fields DEF Good, WellFormed
<1>2. PICK l : Links(t, i) = {l}
  BY <1>1, LinksAre
<1>3. PICK d \in Inodes, n \in Names : l = <<d, n>> /\ t.ent[d][n] = i
  BY <1>1, <1>2, LinksAre
<1>4. ASSUME NEW e \in Inodes, NEW m \in Names, t.ent[e][m] = i PROVE e = d /\ m = n
  <2>1. <<e, m>> \in Links(t, i)
    BY <1>1, <1>4, LinksAre
  <2>2. <<e, m>> = <<d, n>>
    BY <1>2, <1>3, <2>1
  <2> QED BY <2>2
<1>5. d \in Dirs(t)
  BY <1>1, <1>3, EntriesAre, Fields
<1>6. ParentOf(t, i) = CHOOSE p \in Inodes : \E m \in Names : t.ent[p][m] = i
  BY DEF ParentOf
<1>7. ParentOf(t, i) = d
  BY <1>3, <1>4, <1>6
<1> QED BY <1>3, <1>4, <1>5, <1>7

(* Parents are directories, and the root is its own. *)
LEMMA Parents ==
  ASSUME NEW t, Good(t)
  PROVE  ParentOf(t, Root) = Root /\ \A i \in Dirs(t) : ParentOf(t, i) \in Dirs(t)
<1>1. ParentOf(t, Root) = Root
  BY DEF ParentOf
<1> QED BY <1>1, ParentIs, Fields

(* What an entry of a directory is *)
LEMMA EntryIs ==
  ASSUME NEW t, Good(t), NEW d \in Places, NEW n \in Components
  PROVE  /\ Entry(t, d, n) \in Places
         /\ d \notin Dirs(t) => Entry(t, d, n) = None
         /\ d \in Dirs(t) => /\ n = Dot => Entry(t, d, n) = d
                             /\ n = DotDot => Entry(t, d, n) = ParentOf(t, d)
                             /\ n \in Names => Entry(t, d, n) = t.ent[d][n]
<1>1. d \notin Dirs(t) => Entry(t, d, n) = None
  BY Fields DEF Entry
<1>2. ASSUME d \in Dirs(t)
      PROVE  /\ n = Dot => Entry(t, d, n) = d
             /\ n = DotDot => Entry(t, d, n) = ParentOf(t, d)
             /\ n \in Names => Entry(t, d, n) = t.ent[d][n]
  <2>1. IsDir(t, d) /\ Dot # DotDot /\ (n \in Names => n # Dot /\ n # DotDot)
    BY <1>2, Fields, NameAssumption DEF Dot, DotDot
  <2> QED BY <2>1 DEF Entry
<1>3. Entry(t, d, n) \in Places
  BY <1>1, <1>2, Parents, Fields DEF Components, Places
<1> QED BY <1>1, <1>2, <1>3

(* The places on a path *)
LEMMA TrailIs ==
  ASSUME NEW t, Good(t), NEW p \in Path
  PROVE  /\ Trail(t, p) \in [0 .. Len(p) -> Places] /\ Trail(t, p)[0] = Root
         /\ \A k \in 1 .. Len(p) : Trail(t, p)[k] = Entry(t, Trail(t, p)[k - 1], p[k])
<1> DEFINE step == [k \in 1 .. Len(p) |-> [d \in Places |-> Entry(t, d, p[k])]]
           Is(f) == f = [k \in 0 .. Len(p) |-> IF k = 0 THEN Root ELSE Entry(t, f[k - 1], p[k])]
<1>1. Len(p) \in Nat /\ \A k \in 1 .. Len(p) : p[k] \in Components
  BY DEF Path, Components
<1>2. step \in [1 .. Len(p) -> [Places -> Places]] /\ Root \in Places
  BY <1>1, EntryIs, Fields DEF Places
<1>3. Runs(Places, Root, Len(p), step) # {}
  <2> HIDE DEF step
  <2> QED BY <1>1, <1>2, Recursion
<1>4. PICK f \in [0 .. Len(p) -> Places] :
         f[0] = Root /\ \A k \in 1 .. Len(p) : f[k] = Entry(t, f[k - 1], p[k])
  <2>1. PICK f \in Runs(Places, Root, Len(p), step) : TRUE
    BY <1>3
  <2>2. /\ f \in [0 .. Len(p) -> Places] /\ f[0] = Root
        /\ \A k \in 1 .. Len(p) : f[k] = step[k][f[k - 1]]
    BY <2>1 DEF Runs
  <2>3. ASSUME NEW k \in 1 .. Len(p) PROVE f[k] = Entry(t, f[k - 1], p[k])
    <3>1. k - 1 \in 0 .. Len(p)
      BY <1>1
    <3>2. f[k - 1] \in Places
      BY <2>2, <3>1
    <3> QED BY <2>2, <3>2
  <2> QED BY <2>2, <2>3
<1>5. Is(f)
  <2>1. \A k \in 0 .. Len(p) : f[k] = IF k = 0 THEN Root ELSE Entry(t, f[k - 1], p[k])
    BY <1>1, <1>4
  <2> QED BY <2>1
<1>6. Trail(t, p) = CHOOSE g : Is(g)
  BY DEF Trail
<1>7. Is(Trail(t, p))
  <2> HIDE DEF Is
  <2> QED BY <1>5, <1>6
<1> DEFINE g == Trail(t, p)
<1>8. /\ g = [k \in 0 .. Len(p) |-> g[k]]
      /\ \A k \in 0 .. Len(p) : g[k] = IF k = 0 THEN Root ELSE Entry(t, g[k - 1], p[k])
  BY <1>7
<1> HIDE DEF g
<1>9. \A k \in 0 .. Len(p) : g[k] \in Places
  <2> DEFINE S == {n \in Nat : n <= Len(p) => g[n] \in Places}
  <2>1. 0 \in S
    BY <1>1, <1>2, <1>8
  <2>2. ASSUME NEW n \in Nat, n \in S PROVE n + 1 \in S
    <3> SUFFICES ASSUME n + 1 <= Len(p) PROVE g[n + 1] \in Places
      OBVIOUS
    <3>1. g[n] \in Places /\ n + 1 \in 1 .. Len(p) /\ n + 1 \in 0 .. Len(p) /\ n + 1 # 0 /\ (n + 1) - 1 = n
      BY <1>1, <2>2
    <3>2. g[n + 1] = Entry(t, g[n], p[n + 1]) /\ p[n + 1] \in Components
      BY <1>1, <1>8, <3>1
    <3> QED BY <3>1, <3>2, EntryIs
  <2>3. Nat \subseteq S
    <3> HIDE DEF S
    <3> QED BY <2>1, <2>2, Upwards
  <2> QED BY <2>3, <1>1
<1>10. 0 \in 0 .. Len(p) /\ \A k \in 1 .. Len(p) : k \in 0 .. Len(p) /\ k # 0
  BY <1>1
<1>11. g \in [0 .. Len(p) -> Places] /\ g[0] = Root /\ \A k \in 1 .. Len(p) : g[k] = Entry(t, g[k - 1], p[k])
  BY <1>8, <1>9, <1>10
<1> QED BY <1>11 DEF g

(* A walk is one to the directory of the last component, and a look there. *)
LEMMA WalkIs ==
  ASSUME NEW t, Good(t)
  PROVE  /\ Walk(t, <<>>) = Root /\ DirOf(t, <<>>) = None
         /\ \A p \in Path : Walk(t, p) \in Places
         /\ \A p \in Path : p # <<>> =>
               DirOf(t, p) = Walk(t, Front(p)) /\ Walk(t, p) = Entry(t, Walk(t, Front(p)), Last(p))
<1>1. <<>> \in Path /\ Len(<<>>) = 0
  BY DEF Path
<1>2. \A p \in Path : Len(p) \in Nat /\ Len(p) \in 0 .. Len(p)
  BY DEF Path
<1>3. Walk(t, <<>>) = Root /\ \A p \in Path : Walk(t, p) \in Places
  BY <1>1, <1>2, TrailIs DEF Walk
<1>4. ASSUME NEW p \in Path, p # <<>>
      PROVE  Walk(t, p) = Entry(t, Walk(t, Front(p)), Last(p))
  <2> DEFINE q == Front(p)
             f == Trail(t, p)
             g == Trail(t, q)
             S == {n \in Nat : n <= Len(q) => f[n] = g[n]}
  <2>1. q \in Path /\ Len(q) = Len(p) - 1 /\ Len(q) \in Nat /\ \A i \in 1 .. Len(q) : q[i] = p[i]
    BY <1>4, Shorter, <1>2
  <2>2. 0 \in S
    BY <2>1, TrailIs
  <2>3. ASSUME NEW n \in Nat, n \in S PROVE n + 1 \in S
    <3> SUFFICES ASSUME n + 1 <= Len(q) PROVE f[n + 1] = g[n + 1]
      OBVIOUS
    <3>1. n + 1 \in 1 .. Len(q) /\ n + 1 \in 1 .. Len(p) /\ (n + 1) - 1 = n /\ n <= Len(q)
      BY <2>1
    <3>2. f[n + 1] = Entry(t, f[n], p[n + 1]) /\ g[n + 1] = Entry(t, g[n], q[n + 1])
      BY <2>1, <3>1, TrailIs
    <3>3. f[n] = g[n] /\ p[n + 1] = q[n + 1]
      BY <2>1, <2>3, <3>1
    <3> QED BY <3>2, <3>3
  <2>4. Len(q) \in S
    <3> HIDE DEF S
    <3> QED BY <2>1, <2>2, <2>3, Upwards
  <2>5. f[Len(p) - 1] = Walk(t, q)
    BY <2>1, <2>4 DEF Walk
  <2>6. Len(p) \in 1 .. Len(p)
    BY <1>4, Shorter
  <2>7. f[Len(p)] = Entry(t, f[Len(p) - 1], p[Len(p)])
    BY <2>6, TrailIs
  <2> QED BY <1>4, <2>5, <2>7, Shorter DEF Walk
<1>5. DirOf(t, <<>>) = None /\ \A p : p # <<>> => DirOf(t, p) = Walk(t, Front(p))
  BY DEF DirOf
<1> QED BY <1>3, <1>4, <1>5

(* A way down of k names from the root to i *)
Descent(t, k, i) ==
    \E c \in [0 .. k -> Places] :
        /\ c[0] = Root /\ c[k] = i
        /\ \A j \in 1 .. k : /\ c[j - 1] \in Dirs(t) /\ c[j] \in Inodes \ {Root}
                             /\ \E n \in Names : t.ent[c[j - 1]][n] = c[j]

(* The empty way *)
LEMMA NoDescent ==
  ASSUME NEW t, Good(t)
  PROVE  Descent(t, 0, Root) /\ \A i : Descent(t, 0, i) => i = Root
<1> DEFINE c == [j \in 0 .. 0 |-> Root]
<1>1. c \in [0 .. 0 -> Places] /\ c[0] = Root /\ 1 .. 0 = {}
  BY Fields DEF Places
<1>2. Descent(t, 0, Root)
  <2> HIDE DEF c
  <2> QED BY <1>1 DEF Descent
<1> QED BY <1>2 DEF Descent

(* One name more *)
LEMMA DescentDown ==
  ASSUME NEW t, Good(t), NEW k \in Nat, NEW d \in Dirs(t), Descent(t, k, d),
         NEW n \in Names, t.ent[d][n] # None
  PROVE  Descent(t, k + 1, t.ent[d][n])
<1> DEFINE i == t.ent[d][n]
<1>1. i \in Inodes \ {Root}
  BY EntriesAre, Fields
<1>2. PICK c \in [0 .. k -> Places] :
        /\ c[0] = Root /\ c[k] = d
        /\ \A j \in 1 .. k : /\ c[j - 1] \in Dirs(t) /\ c[j] \in Inodes \ {Root}
                             /\ \E m \in Names : t.ent[c[j - 1]][m] = c[j]
  BY DEF Descent
<1> DEFINE b == [j \in 0 .. k + 1 |-> IF j = k + 1 THEN i ELSE c[j]]
<1>3. b \in [0 .. k + 1 -> Places] /\ b[0] = Root /\ b[k + 1] = i /\ b[k] = d
  BY <1>1, <1>2 DEF Places
<1>4. ASSUME NEW j \in 1 .. k + 1
      PROVE  /\ b[j - 1] \in Dirs(t) /\ b[j] \in Inodes \ {Root}
             /\ \E m \in Names : t.ent[b[j - 1]][m] = b[j]
  <2>1. CASE j = k + 1
    <3>1. j - 1 = k /\ b[j - 1] = d /\ b[j] = i
      BY <1>3, <2>1
    <3> QED BY <3>1, <1>1
  <2>2. CASE j # k + 1
    <3>1. j \in 1 .. k /\ b[j] = c[j] /\ b[j - 1] = c[j - 1]
      BY <2>2
    <3> HIDE DEF b
    <3> QED BY <3>1, <1>2
  <2> QED BY <2>1, <2>2
<1> HIDE DEF b
<1>5. Descent(t, k + 1, i)
  BY <1>3, <1>4 DEF Descent
<1> QED BY <1>5

(* One name less *)
LEMMA DescentUp ==
  ASSUME NEW t, Good(t), NEW k \in Nat \ {0}, NEW d \in Dirs(t), Descent(t, k, d)
  PROVE  d # Root /\ Descent(t, k - 1, ParentOf(t, d))
<1>1. PICK c \in [0 .. k -> Places] :
        /\ c[0] = Root /\ c[k] = d
        /\ \A j \in 1 .. k : /\ c[j - 1] \in Dirs(t) /\ c[j] \in Inodes \ {Root}
                             /\ \E m \in Names : t.ent[c[j - 1]][m] = c[j]
  BY DEF Descent
<1>2. k \in 1 .. k
  OBVIOUS
<1>3. d # Root /\ c[k - 1] \in Inodes /\ \E m \in Names : t.ent[c[k - 1]][m] = d
  BY <1>1, <1>2, Fields
<1>4. ParentOf(t, d) = c[k - 1]
  BY <1>3, ParentIs
<1> DEFINE b == [j \in 0 .. k - 1 |-> c[j]]
<1>5. b \in [0 .. k - 1 -> Places] /\ b[0] = Root /\ b[k - 1] = ParentOf(t, d)
  BY <1>1, <1>4
<1>6. \A j \in 1 .. k - 1 : j \in 1 .. k /\ b[j] = c[j] /\ b[j - 1] = c[j - 1]
  OBVIOUS
<1>7. \A j \in 1 .. k - 1 : /\ b[j - 1] \in Dirs(t) /\ b[j] \in Inodes \ {Root}
                            /\ \E m \in Names : t.ent[b[j - 1]][m] = b[j]
  <2> HIDE DEF b
  <2> QED BY <1>1, <1>6
<1> HIDE DEF b
<1>8. Descent(t, k - 1, ParentOf(t, d))
  BY <1>5, <1>7 DEF Descent
<1> QED BY <1>3, <1>8

(* A path leads as many names down as its components say, if it leads
   anywhere. *)
LEMMA DepthOfWalk ==
  ASSUME NEW t, Good(t), NEW p \in Path, Walk(t, p) # None
  PROVE  Descent(t, Depth(p), Walk(t, p))
<1> DEFINE P == {q \in Path : Walk(t, q) # None => Descent(t, Depth(q), Walk(t, q))}
<1>1. <<>> \in P
  <2>1. <<>> \in Path
    BY DEF Path
  <2> QED BY <2>1, WalkIs, DepthIs, NoDescent
<1>2. ASSUME NEW q \in Path, q # <<>>, Front(q) \in P PROVE q \in P
  <2> SUFFICES ASSUME Walk(t, q) # None PROVE Descent(t, Depth(q), Walk(t, q))
    OBVIOUS
  <2> DEFINE d == Walk(t, Front(q))
             n == Last(q)
             k == Depth(Front(q))
  <2>1. d \in Places /\ n \in Components /\ k \in Nat
    BY <1>2, Shorter, WalkIs, DepthIs
  <2>2. Walk(t, q) = Entry(t, d, n) /\ Depth(q) = Deeper(k, n)
    BY <1>2, WalkIs, DepthIs
  <2>3. d \in Dirs(t) /\ d # None
    BY <2>1, <2>2, EntryIs, Fields
  <2>4. Descent(t, k, d)
    BY <1>2, <2>3
  <2> HIDE DEF d, n, k
  <2>5. CASE n = Dot
    <3>1. Entry(t, d, n) = d /\ Deeper(k, n) = k
      BY <2>1, <2>3, <2>5, EntryIs DEF Deeper, Dot, DotDot
    <3> QED BY <2>2, <2>4, <3>1
  <2>6. CASE n = DotDot /\ k = 0
    <3>1. Entry(t, d, n) = ParentOf(t, d) /\ Deeper(k, n) = 0
      BY <2>1, <2>3, <2>6, EntryIs DEF Deeper, Dot, DotDot
    <3>2. d = Root
      BY <2>4, <2>6, NoDescent
    <3> QED BY <2>2, <2>4, <2>6, <3>1, <3>2, Parents
  <2>7. CASE n = DotDot /\ k # 0
    <3>1. Entry(t, d, n) = ParentOf(t, d) /\ Deeper(k, n) = k - 1
      BY <2>1, <2>3, <2>7, EntryIs DEF Deeper, Dot, DotDot
    <3>2. Descent(t, k - 1, ParentOf(t, d))
      BY <2>1, <2>3, <2>4, <2>7, DescentUp
    <3> QED BY <2>2, <3>1, <3>2
  <2>8. CASE n \in Names
    <3>1. Entry(t, d, n) = t.ent[d][n] /\ Deeper(k, n) = k + 1
      BY <2>1, <2>3, <2>8, EntryIs, NameAssumption DEF Deeper
    <3>2. Descent(t, k + 1, t.ent[d][n])
      BY <2>1, <2>2, <2>3, <2>4, <2>8, <3>1, DescentDown
    <3> QED BY <2>2, <3>1, <3>2
  <2> QED BY <2>1, <2>5, <2>6, <2>7, <2>8 DEF Components
<1>3. Path \subseteq P
  <2> HIDE DEF P
  <2> QED BY <1>1, <1>2, PathInduction
<1> QED BY <1>3

(* The lexical test of path_is_mount_root is right about every path that leads
   anywhere. *)
LEMMA MountRootIs ==
  ASSUME NEW t, Good(t), NEW p \in Path
  PROVE  /\ Walk(t, p) = Root => PathIsMountRoot(p)
         /\ PathIsMountRoot(p) => Walk(t, p) \in {None, Root}
<1>1. PathIsMountRoot(p) <=> Depth(p) = 0
  BY DEF PathIsMountRoot, Depth
<1>2. ASSUME Depth(p) = 0, Walk(t, p) # None PROVE Walk(t, p) = Root
  BY <1>2, DepthOfWalk, NoDescent
<1>3. ASSUME Walk(t, p) = Root PROVE Depth(p) = 0
  <2> SUFFICES ASSUME Depth(p) # 0 PROVE FALSE
    OBVIOUS
  <2>1. Root # None /\ Root \in Dirs(t) /\ Depth(p) \in Nat \ {0}
    BY Fields, DepthIs
  <2>2. Descent(t, Depth(p), Root)
    BY <1>3, <2>1, DepthOfWalk
  <2> QED BY <2>1, <2>2, DescentUp
<1> QED BY <1>1, <1>2, <1>3

-----------------------------------------------------------------------------
(* Paths without dots, and the directories above one. *)

Plain(p) == ~HasDotComponent(p)

(* A path without dots is one that is shorter, and a name. *)
LEMMA PlainIs ==
  ASSUME NEW p \in Path, p # <<>>, Plain(p)
  PROVE  Plain(Front(p)) /\ Last(p) \in Names
<1>1. \A i \in DOMAIN p : p[i] \notin {Dot, DotDot}
  BY DEF Plain, HasDotComponent
<1>2. Last(p) \in Names
  BY <1>1, Shorter DEF Components
<1>3. \A i \in DOMAIN Front(p) : i \in DOMAIN p /\ Front(p)[i] = p[i]
  <2>1. DOMAIN Front(p) = 1 .. Len(p) - 1 /\ DOMAIN p = 1 .. Len(p) /\ Len(p) \in Nat
    BY Shorter DEF Path
  <2> QED BY <2>1, Shorter
<1> QED BY <1>1, <1>2, <1>3 DEF Plain, HasDotComponent

(* What a prefix is *)
LEMMA PrefixIs ==
  ASSUME NEW p \in Path, NEW q \in Path
  PROVE  IsPrefix(p, q) <=> Len(p) <= Len(q) /\ \A i \in 1 .. Len(p) : p[i] = q[i]
<1>1. /\ Len(p) \in Nat /\ Len(q) \in Nat
      /\ \A i \in 1 .. Len(p) : p[i] \in Components
      /\ \A i \in 1 .. Len(q) : q[i] \in Components
      /\ p \in Seq(Components)
  BY DEF Path, Components
<1>2. SubSeq(p, 1, Len(p)) = p
  BY <1>1, SubSeqFull
<1>3. ASSUME Len(p) <= Len(q)
      PROVE  SubSeq(q, 1, Len(p)) = p <=> \A i \in 1 .. Len(p) : p[i] = q[i]
  <2> DEFINE s == SubSeq(q, 1, Len(p))
  <2>1. \A i \in 1 .. Len(p) : q[i] \in Components
    BY <1>1, <1>3
  <2>2. /\ s \in Seq(Components)
        /\ Len(s) = IF 1 <= Len(p) THEN Len(p) - 1 + 1 ELSE 0
        /\ \A i \in 1 .. Len(p) - 1 + 1 : s[i] = q[1 + i - 1]
    BY <1>1, <2>1, SubSeqProperties
  <2>3. Len(s) = Len(p) /\ \A i \in 1 .. Len(p) : s[i] = q[i]
    <3>1. Len(p) - 1 + 1 = Len(p) /\ (1 <= Len(p) \/ Len(p) = 0)
      BY <1>1
    <3>2. \A i \in 1 .. Len(p) : 1 + i - 1 = i
      OBVIOUS
    <3> HIDE DEF s
    <3> QED BY <2>2, <3>1, <3>2
  <2> HIDE DEF s
  <2>4. s = p <=> \A i \in 1 .. Len(p) : s[i] = p[i]
    BY <1>1, <2>2, <2>3
  <2> QED BY <2>3, <2>4 DEF s
<1> QED BY <1>2, <1>3 DEF IsPrefix

(* Prefixes of a path are the path itself and those of the shorter one. *)
LEMMA PrefixesAre ==
  ASSUME NEW p \in Path, NEW q \in Path
  PROVE  /\ IsPrefix(p, p)
         /\ q # <<>> => (IsPrefix(p, q) <=> p = q \/ IsPrefix(p, Front(q)))
         /\ p # <<>> /\ IsPrefix(p, q) => IsPrefix(Front(p), q)
         /\ IsPrefix(p, <<>>) <=> p = <<>>
<1>1. Len(p) \in Nat /\ Len(q) \in Nat /\ <<>> \in Path /\ Len(<<>>) = 0
  BY DEF Path
<1>2. ASSUME q # <<>> PROVE IsPrefix(p, q) <=> p = q \/ IsPrefix(p, Front(q))
  <2>1. /\ Front(q) \in Path /\ Len(Front(q)) = Len(q) - 1 /\ Len(q) \in Nat \ {0}
        /\ \A i \in 1 .. Len(q) - 1 : Front(q)[i] = q[i]
    BY <1>2, Shorter
  <2>2. CASE Len(p) = Len(q)
    <3>1. ~IsPrefix(p, Front(q))
      BY <2>1, <2>2, <1>1, PrefixIs
    <3>2. p = q <=> \A i \in 1 .. Len(p) : p[i] = q[i]
      BY <2>2 DEF Path
    <3> QED BY <2>2, <3>1, <3>2, <1>1, PrefixIs
  <2>3. CASE Len(p) # Len(q)
    <3>1. p # q
      BY <2>3
    <3>2. IsPrefix(p, q) <=> Len(p) <= Len(q) - 1 /\ \A i \in 1 .. Len(p) : p[i] = q[i]
      <4>1. Len(p) <= Len(q) <=> Len(p) <= Len(q) - 1
        BY <1>1, <2>3
      <4> QED BY <4>1, PrefixIs
    <3>3. IsPrefix(p, Front(q)) <=> Len(p) <= Len(q) - 1 /\ \A i \in 1 .. Len(p) : p[i] = Front(q)[i]
      BY <2>1, PrefixIs
    <3>4. Len(p) <= Len(q) - 1 => \A i \in 1 .. Len(p) : Front(q)[i] = q[i]
      BY <1>1, <2>1
    <3> QED BY <3>1, <3>2, <3>3, <3>4
  <2> QED BY <2>2, <2>3
<1>3. ASSUME p # <<>>, IsPrefix(p, q) PROVE IsPrefix(Front(p), q)
  <2>1. /\ Front(p) \in Path /\ Len(Front(p)) = Len(p) - 1 /\ Len(p) \in Nat \ {0}
        /\ \A i \in 1 .. Len(p) - 1 : Front(p)[i] = p[i]
    BY <1>3, Shorter
  <2>2. Len(p) <= Len(q) /\ \A i \in 1 .. Len(p) : p[i] = q[i]
    BY <1>3, PrefixIs
  <2>3. Len(Front(p)) <= Len(q) /\ \A i \in 1 .. Len(Front(p)) : Front(p)[i] = q[i]
    BY <1>1, <2>1, <2>2
  <2> QED BY <2>1, <2>3, PrefixIs
<1>4. IsPrefix(p, p)
  BY <1>1, PrefixIs
<1>5. IsPrefix(p, <<>>) <=> p = <<>>
  <2>1. Len(p) <= 0 <=> p = <<>>
    BY <1>1 DEF Path
  <2> QED BY <1>1, <1>4, <2>1, PrefixIs
<1> QED BY <1>2, <1>3, <1>4, <1>5

(* Above: a directory, what is above its parent, and nothing else. *)
LEMMA AboveIs ==
  ASSUME NEW t, Good(t), NEW i \in Dirs(t)
  PROVE  /\ Above(t, i) \in SUBSET Dirs(t) /\ i \in Above(t, i)
         /\ Above(t, ParentOf(t, i)) \in SUBSET Above(t, i)
         /\ \A j \in Above(t, i) : ParentOf(t, j) \in Above(t, i)
         /\ \A S \in SUBSET Dirs(t) : i \in S /\ (\A k \in S : ParentOf(t, k) \in S) => Above(t, i) \subseteq S
         /\ Root \in Above(t, i)
<1>1. Above(t, i) \in SUBSET Dirs(t) /\ i \in Above(t, i)
  BY DEF Above
<1>2. Above(t, ParentOf(t, i)) \in SUBSET Above(t, i)
  BY DEF Above
<1>3. \A j \in Above(t, i) : ParentOf(t, j) \in Above(t, i)
  BY Parents DEF Above
<1>4. \A S \in SUBSET Dirs(t) : i \in S /\ (\A k \in S : ParentOf(t, k) \in S) => Above(t, i) \subseteq S
  BY DEF Above
<1>5. Root \in Above(t, i)
  BY <1>1, Fields DEF Good, WellFormed
<1> QED BY <1>1, <1>2, <1>3, <1>4, <1>5

(* The last step of a path without dots that leads somewhere *)
LEMMA PlainStep ==
  ASSUME NEW t, Good(t), NEW p \in Path, p # <<>>, Plain(p), Walk(t, p) # None
  PROVE  /\ Walk(t, Front(p)) \in Dirs(t) /\ Last(p) \in Names /\ Front(p) \in Path /\ Plain(Front(p))
         /\ t.ent[Walk(t, Front(p))][Last(p)] = Walk(t, p)
         /\ Walk(t, p) \in Inodes \ {Root}
<1>1. Front(p) \in Path /\ Plain(Front(p)) /\ Last(p) \in Names /\ Last(p) \in Components
  BY PlainIs, Shorter
<1>2. Walk(t, p) = Entry(t, Walk(t, Front(p)), Last(p)) /\ Walk(t, Front(p)) \in Places
  BY <1>1, WalkIs
<1>3. Walk(t, Front(p)) \in Dirs(t) /\ Walk(t, p) = t.ent[Walk(t, Front(p))][Last(p)]
  BY <1>1, <1>2, EntryIs
<1>4. Walk(t, Front(p)) \in Inodes
  BY <1>3, Fields
<1>5. Walk(t, p) \in Inodes \ {Root}
  BY <1>1, <1>3, <1>4, EntriesAre
<1> QED BY <1>1, <1>3, <1>5

(* Without dots there is one path to a directory. *)
LEMMA OnePath ==
  ASSUME NEW t, Good(t), NEW p \in Path, NEW q \in Path, Plain(p), Plain(q),
         Walk(t, p) = Walk(t, q), Walk(t, p) \in Dirs(t)
  PROVE  p = q
<1> DEFINE Same(a, b) == /\ Plain(a) /\ Plain(b) /\ Walk(t, a) = Walk(t, b) /\ Walk(t, a) \in Dirs(t)
                         => a = b
           P == {a \in Path : \A b \in Path : Same(a, b)}
<1>1. <<>> \in P
  <2>1. <<>> \in Path
    BY DEF Path
  <2>2. ASSUME NEW b \in Path, b # <<>>, Plain(b) PROVE Walk(t, b) # Root
    BY <2>2, PlainStep, Fields
  <2> QED BY <2>1, <2>2, WalkIs
<1>2. ASSUME NEW a \in Path, a # <<>>, Front(a) \in P PROVE a \in P
  <2> SUFFICES ASSUME NEW b \in Path, Plain(a), Plain(b), Walk(t, a) = Walk(t, b), Walk(t, a) \in Dirs(t)
               PROVE  a = b
    OBVIOUS
  <2>1. Walk(t, a) # None /\ Walk(t, a) # Root
    BY <1>2, Fields, PlainStep
  <2>2. b # <<>>
    BY <2>1, WalkIs
  <2>3. /\ Walk(t, Front(a)) \in Dirs(t) /\ Last(a) \in Names /\ Plain(Front(a))
        /\ t.ent[Walk(t, Front(a))][Last(a)] = Walk(t, a)
    BY <1>2, <2>1, PlainStep
  <2>4. /\ Walk(t, Front(b)) \in Dirs(t) /\ Last(b) \in Names /\ Plain(Front(b)) /\ Front(b) \in Path
        /\ t.ent[Walk(t, Front(b))][Last(b)] = Walk(t, a)
    BY <2>1, <2>2, PlainStep
  <2>5. Walk(t, Front(a)) = Walk(t, Front(b)) /\ Last(a) = Last(b)
    BY <2>1, <2>3, <2>4, ParentIs, Fields
  <2>6. Front(a) = Front(b)
    BY <1>2, <2>3, <2>4, <2>5
  <2> QED BY <1>2, <2>2, <2>5, <2>6, SamePath
<1>3. Path \subseteq P
  <2> HIDE DEF P
  <2> QED BY <1>1, <1>2, PathInduction
<1> QED BY <1>3

(* Without dots, the directories above one are those on the path to it. *)
LEMMA AboveOnPath ==
  ASSUME NEW t, Good(t), NEW q \in Path, Plain(q), Walk(t, q) \in Dirs(t)
  PROVE  /\ \A p \in Path : IsPrefix(p, q) => Plain(p) /\ Walk(t, p) \in Above(t, Walk(t, q))
         /\ \A j \in Above(t, Walk(t, q)) : \E p \in Path : IsPrefix(p, q) /\ Plain(p) /\ Walk(t, p) = j
<1> DEFINE Right(b) == Plain(b) /\ Walk(t, b) \in Dirs(t)
                       => \A p \in Path : IsPrefix(p, b) => Plain(p) /\ Walk(t, p) \in Above(t, Walk(t, b))
           P == {b \in Path : Right(b)}
<1>1. <<>> \in P
  <2>1. <<>> \in Path
    BY DEF Path
  <2>2. \A p \in Path : IsPrefix(p, <<>>) => p = <<>>
    BY <2>1, PrefixesAre
  <2> QED BY <2>1, <2>2, AboveIs
<1>2. ASSUME NEW b \in Path, b # <<>>, Front(b) \in P PROVE b \in P
  <2> SUFFICES ASSUME Plain(b), Walk(t, b) \in Dirs(t), NEW p \in Path, IsPrefix(p, b)
               PROVE  Plain(p) /\ Walk(t, p) \in Above(t, Walk(t, b))
    OBVIOUS
  <2>1. CASE p = b
    BY <2>1, AboveIs
  <2>2. CASE IsPrefix(p, Front(b))
    <3>1. Walk(t, b) # None /\ Walk(t, b) \in Dirs(t)
      BY Fields
    <3>2. /\ Walk(t, Front(b)) \in Dirs(t) /\ Last(b) \in Names /\ Plain(Front(b)) /\ Walk(t, b) # Root
          /\ t.ent[Walk(t, Front(b))][Last(b)] = Walk(t, b)
      BY <1>2, <3>1, PlainStep
    <3>3. ParentOf(t, Walk(t, b)) = Walk(t, Front(b))
      BY <3>1, <3>2, ParentIs, Fields
    <3>4. Plain(p) /\ Walk(t, p) \in Above(t, Walk(t, Front(b)))
      BY <1>2, <2>2, <3>2
    <3> QED BY <3>1, <3>3, <3>4, AboveIs
  <2> QED BY <1>2, <2>1, <2>2, PrefixesAre
<1>3. Path \subseteq P
  <2> HIDE DEF P
  <2> QED BY <1>1, <1>2, PathInduction
<1>4. \A p \in Path : IsPrefix(p, q) => Plain(p) /\ Walk(t, p) \in Above(t, Walk(t, q))
  BY <1>3
<1> HIDE DEF P
<1> DEFINE S == {Walk(t, p) : p \in {p \in Path : IsPrefix(p, q)}}
<1>5. S \in SUBSET Dirs(t) /\ Walk(t, q) \in S
  BY <1>4, AboveIs, PrefixesAre
<1>6. ASSUME NEW k \in S PROVE ParentOf(t, k) \in S
  <2>1. PICK p \in Path : IsPrefix(p, q) /\ k = Walk(t, p) /\ Plain(p) /\ k \in Dirs(t)
    BY <1>4, <1>5, <1>6
  <2>2. CASE p = <<>>
    <3>1. k = Root
      BY <2>1, <2>2, WalkIs
    <3> QED BY <3>1, <1>6, Parents
  <2>3. CASE p # <<>>
    <3>1. /\ Walk(t, Front(p)) \in Dirs(t) /\ Last(p) \in Names /\ Front(p) \in Path /\ k # Root
          /\ t.ent[Walk(t, Front(p))][Last(p)] = k
      BY <2>1, <2>3, PlainStep, Fields
    <3>2. ParentOf(t, k) = Walk(t, Front(p))
      BY <2>1, <3>1, ParentIs, Fields
    <3>3. IsPrefix(Front(p), q)
      BY <2>1, <2>3, PrefixesAre
    <3> QED BY <3>1, <3>2, <3>3
  <2> QED BY <2>2, <2>3
<1>7. Above(t, Walk(t, q)) \subseteq S
  <2> HIDE DEF S
  <2> QED BY <1>5, <1>6, AboveIs
<1> QED BY <1>4, <1>7

-----------------------------------------------------------------------------
(* Changes of a tree. *)

(* A change that disturbs no entry but those of X and to X leaves a path alone
   that leads elsewhere, if there is no way through X for its components. *)
LEMMA SameWalk ==
  ASSUME NEW t, Good(t), NEW u, Good(u), NEW X \in SUBSET Inodes, Root \notin X,
         \A d \in Dirs(t) \ X, n \in Components :
            Entry(t, d, n) \notin X \cup {None} => Entry(u, d, n) = Entry(t, d, n),
         NEW p \in Path, \A d \in X, i \in DOMAIN p : Entry(t, d, p[i]) = None,
         Walk(t, p) \notin X \cup {None}
  PROVE  Walk(u, p) = Walk(t, p)
<1> DEFINE Blocked(q) == \A d \in X, i \in DOMAIN q : Entry(t, d, q[i]) = None
           P == {q \in Path : Blocked(q) /\ Walk(t, q) \notin X \cup {None} => Walk(u, q) = Walk(t, q)}
<1>1. <<>> \in P
  <2>1. <<>> \in Path
    BY DEF Path
  <2> QED BY <2>1, WalkIs
<1>2. ASSUME NEW q \in Path, q # <<>>, Front(q) \in P PROVE q \in P
  <2> SUFFICES ASSUME Blocked(q), Walk(t, q) \notin X \cup {None} PROVE Walk(u, q) = Walk(t, q)
    OBVIOUS
  <2> DEFINE d == Walk(t, Front(q))
             n == Last(q)
  <2>1. d \in Places /\ n \in Components /\ Len(q) \in DOMAIN q /\ n = q[Len(q)]
    BY <1>2, Shorter, WalkIs
  <2>2. Walk(t, q) = Entry(t, d, n) /\ Walk(u, q) = Entry(u, Walk(u, Front(q)), n)
    BY <1>2, WalkIs
  <2>3. d \in Dirs(t) /\ d # None
    BY <2>1, <2>2, EntryIs, Fields
  <2>4. d \notin X
    BY <2>1, <2>2
  <2>5. Blocked(Front(q))
    <3>1. DOMAIN Front(q) = 1 .. Len(q) - 1 /\ DOMAIN q = 1 .. Len(q) /\ Len(q) \in Nat
      BY <1>2, Shorter DEF Path
    <3>2. \A i \in DOMAIN Front(q) : i \in DOMAIN q /\ Front(q)[i] = q[i]
      BY <1>2, <3>1, Shorter
    <3> QED BY <3>2
  <2>6. Walk(u, Front(q)) = d
    BY <1>2, <2>3, <2>4, <2>5
  <2> HIDE DEF d, n
  <2> QED BY <2>1, <2>2, <2>3, <2>4, <2>6
<1>3. Path \subseteq P
  <2> HIDE DEF P
  <2> QED BY <1>1, <1>2, PathInduction
<1> QED BY <1>3

(* A change that makes no directory and leaves the links of those that stay *)
LEMMA StaysGood ==
  ASSUME NEW t, Good(t), NEW u \in TreeType, Dirs(u) \subseteq Dirs(t), Root \in Dirs(u),
         \A d \in Inodes, n \in Names :
            u.ent[d][n] # None => d \in Dirs(u) /\ u.ent[d][n] # Root /\ u.kind[u.ent[d][n]] # "free",
         \A i \in Inodes \ {Root} : u.kind[i] # "free" => Links(u, i) # {},
         \A i \in Dirs(u) \ {Root} : Links(u, i) = Links(t, i)
  PROVE  Good(u) /\ \A i \in Dirs(u) : ParentOf(u, i) = ParentOf(t, i)
<1>1. \A i \in Inodes : u.kind[i] = "dir" <=> i \in Dirs(u)
  BY TreeAssumption DEF Dirs, IsDir
<1>2. \A i \in Dirs(u) : IsDir(u, i) /\ i \in Inodes
  BY DEF Dirs
<1>3. ASSUME NEW i \in Dirs(u) PROVE ParentOf(u, i) = ParentOf(t, i)
  <2>1. CASE i = Root
    BY <2>1 DEF ParentOf
  <2>2. CASE i # Root
    <3>1. PICK d \in Dirs(t), n \in Names :
            /\ t.ent[d][n] = i /\ ParentOf(t, i) = d
            /\ \A e \in Inodes, m \in Names : t.ent[e][m] = i => e = d /\ m = n
      BY <1>3, <2>2, ParentIs
    <3>2. \A e \in Inodes, m \in Names : u.ent[e][m] = i <=> t.ent[e][m] = i
      <4>1. \A e \in Inodes, m \in Names : <<e, m>> \in Links(u, i) <=> <<e, m>> \in Links(t, i)
        BY <1>3, <2>2
      <4> QED BY <4>1 DEF Links
    <3>3. ParentOf(u, i) = CHOOSE e \in Inodes : \E m \in Names : u.ent[e][m] = i
      BY <2>2 DEF ParentOf
    <3>4. d \in Inodes /\ \A e \in Inodes : (\E m \in Names : u.ent[e][m] = i) <=> e = d
      BY <3>1, <3>2, Fields
    <3> QED BY <3>1, <3>3, <3>4
  <2> QED BY <2>1, <2>2
<1>4. ASSUME NEW i \in Dirs(u) PROVE Root \in Above(u, i)
  <2> SUFFICES ASSUME NEW S \in SUBSET Dirs(u), i \in S, \A k \in S : ParentOf(u, k) \in S
               PROVE  Root \in S
    BY DEF Above
  <2>1. S \in SUBSET Dirs(t) /\ \A k \in S : ParentOf(t, k) \in S
    BY <1>3
  <2>2. i \in Dirs(t) /\ Above(t, i) \subseteq S
    BY <2>1, AboveIs
  <2> QED BY <2>2, AboveIs
<1>5. ASSUME NEW i \in Dirs(u) \ {Root} PROVE Cardinality(Links(u, i)) = 1
  BY Fields DEF Good, WellFormed
<1>6. WellFormed(u)
  BY <1>1, <1>2, <1>4, <1>5 DEF WellFormed
<1> QED BY <1>3, <1>6 DEF Good

(* Attributes are no part of the shape. *)
LEMMA SameShape ==
  ASSUME NEW t, Good(t), NEW u \in TreeType, u.kind = t.kind, u.ent = t.ent
  PROVE  Good(u) /\ \A p \in Path : Walk(u, p) = Walk(t, p)
<1>1. Dirs(u) = Dirs(t) /\ \A i : Links(u, i) = Links(t, i)
  BY DEF Dirs, IsDir, Links
<1>2. \A d \in Inodes, n \in Names :
         u.ent[d][n] # None => d \in Dirs(u) /\ u.ent[d][n] # Root /\ u.kind[u.ent[d][n]] # "free"
  BY <1>1, EntriesAre
<1>3. \A i \in Inodes \ {Root} : u.kind[i] # "free" => Links(u, i) # {}
  BY <1>1 DEF Good, WellFormed
<1>4. Good(u) /\ \A i \in Dirs(u) : ParentOf(u, i) = ParentOf(t, i)
  <2>1. Dirs(u) \subseteq Dirs(t) /\ Root \in Dirs(u)
    BY <1>1, Fields
  <2>2. \A i \in Dirs(u) \ {Root} : Links(u, i) = Links(t, i)
    BY <1>1
  <2> QED BY <1>2, <1>3, <2>1, <2>2, StaysGood
<1>5. \A d \in Places, n \in Components : Entry(u, d, n) = Entry(t, d, n)
  <2> TAKE d \in Places, n \in Components
  <2>1. CASE d \in Dirs(t)
    BY <1>1, <1>4, <2>1, EntryIs DEF Components
  <2>2. CASE d \notin Dirs(t)
    BY <1>1, <1>4, <2>2, EntryIs
  <2> QED BY <2>1, <2>2
<1> DEFINE P == {p \in Path : Walk(u, p) = Walk(t, p)}
<1>6. <<>> \in P
  <2>1. <<>> \in Path
    BY DEF Path
  <2> QED BY <1>4, <2>1, WalkIs
<1>7. \A p \in Path : p # <<>> /\ Front(p) \in P => p \in P
  BY <1>4, <1>5, WalkIs, Shorter
<1>8. Path \subseteq P
  <2> HIDE DEF P
  <2> QED BY <1>6, <1>7, PathInduction
<1> QED BY <1>4, <1>8

Dropped(t, p) ==
    LET i == Walk(t, p)
    IN  IF Cardinality(Links(t, i)) = 1 THEN Free(t, {i}) ELSE SetEntry(t, DirOf(t, p), Last(p), None)

(* What Free does to the fields of a tree *)
LEMMA FreeIs ==
  ASSUME NEW t, Good(t), NEW i \in Inodes
  PROVE  /\ Free(t, {i}) \in TreeType
         /\ \A j \in Inodes : Free(t, {i}).kind[j] = IF j = i THEN "free" ELSE t.kind[j]
         /\ \A d \in Inodes, n \in Names :
               Free(t, {i}).ent[d][n] = IF d = i \/ t.ent[d][n] = i THEN None ELSE t.ent[d][n]
         /\ Free(t, {i}).mode = t.mode /\ Free(t, {i}).atime = t.atime /\ Free(t, {i}).mtime = t.mtime
<1> DEFINE k == [j \in Inodes |-> IF j \in {i} THEN "free" ELSE t.kind[j]]
           e == [d \in Inodes |-> [n \in Names |->
                    IF d \in {i} \/ t.ent[d][n] \in {i} THEN None ELSE t.ent[d][n]]]
<1>1. t \in TreeType
  BY DEF Good
<1>2. Free(t, {i}) = [kind |-> k, ent |-> e, mode |-> t.mode, atime |-> t.atime, mtime |-> t.mtime]
  <2>1. Free(t, {i}) = [t EXCEPT !.kind = k, !.ent = e]
    BY DEF Free
  <2> HIDE DEF k, e
  <2>2. [t EXCEPT !.kind = k, !.ent = e]
        = [kind |-> k, ent |-> e, mode |-> t.mode, atime |-> t.atime, mtime |-> t.mtime]
    <3> DEFINE v == [t EXCEPT !.kind = k]
    <3>1. v = [kind |-> k, ent |-> t.ent, mode |-> t.mode, atime |-> t.atime, mtime |-> t.mtime]
      BY <1>1 DEF TreeType
    <3> HIDE DEF v
    <3>2. [v EXCEPT !.ent = e]
          = [kind |-> v.kind, ent |-> e, mode |-> v.mode, atime |-> v.atime, mtime |-> v.mtime]
      BY <3>1
    <3>3. v.kind = k /\ v.mode = t.mode /\ v.atime = t.atime /\ v.mtime = t.mtime
      BY <3>1
    <3>4. [v EXCEPT !.ent = e]
          = [kind |-> k, ent |-> e, mode |-> t.mode, atime |-> t.atime, mtime |-> t.mtime]
      BY <3>2, <3>3
    <3> QED BY <3>4 DEF v
  <2> QED BY <2>1, <2>2
<1>3. k \in [Inodes -> {"free", "dir", "file"}]
  BY Fields
<1>4. e \in [Inodes -> [Names -> {None} \cup Inodes]]
  <2>1. \A d \in Inodes, n \in Names : t.ent[d][n] \in Places
    BY Fields
  <2> QED BY <2>1 DEF Places
<1>5. \A j \in Inodes : k[j] = IF j = i THEN "free" ELSE t.kind[j]
  OBVIOUS
<1>6. \A d \in Inodes, n \in Names : e[d][n] = IF d = i \/ t.ent[d][n] = i THEN None ELSE t.ent[d][n]
  OBVIOUS
<1> HIDE DEF k, e
<1>7. Free(t, {i}) \in TreeType
  <2>1. t.mode \in [Inodes -> Modes] /\ t.atime \in [Inodes -> Int] /\ t.mtime \in [Inodes -> Int]
    BY Fields
  <2>2. [kind |-> k, ent |-> e, mode |-> t.mode, atime |-> t.atime, mtime |-> t.mtime] \in TreeType
    BY <1>3, <1>4, <2>1 DEF TreeType
  <2> QED BY <1>2, <2>2
<1> QED BY <1>2, <1>5, <1>6, <1>7

(* What SetEntry does *)
LEMMA SetEntryIs ==
  ASSUME NEW t \in TreeType, NEW d \in Inodes, NEW n \in Names, NEW i \in Places
  PROVE  /\ SetEntry(t, d, n, i) \in TreeType
         /\ \A e \in Inodes, m \in Names :
               SetEntry(t, d, n, i).ent[e][m] = IF e = d /\ m = n THEN i ELSE t.ent[e][m]
         /\ SetEntry(t, d, n, i).kind = t.kind /\ SetEntry(t, d, n, i).mode = t.mode
         /\ SetEntry(t, d, n, i).atime = t.atime /\ SetEntry(t, d, n, i).mtime = t.mtime
<1> DEFINE g == [t.ent EXCEPT ![d][n] = i]
<1>1. SetEntry(t, d, n, i) = [kind |-> t.kind, ent |-> g, mode |-> t.mode, atime |-> t.atime, mtime |-> t.mtime]
  <2>1. SetEntry(t, d, n, i) = [t EXCEPT !.ent = g]
    BY DEF SetEntry
  <2> HIDE DEF g
  <2>2. [t EXCEPT !.ent = g]
        = [kind |-> t.kind, ent |-> g, mode |-> t.mode, atime |-> t.atime, mtime |-> t.mtime]
    BY DEF TreeType
  <2> QED BY <2>1, <2>2
<1>2. t.ent \in [Inodes -> [Names -> {None} \cup Inodes]]
  BY DEF TreeType
<1>3. g \in [Inodes -> [Names -> {None} \cup Inodes]]
  BY <1>2 DEF Places
<1>4. \A e \in Inodes, m \in Names : g[e][m] = IF e = d /\ m = n THEN i ELSE t.ent[e][m]
  BY <1>2
<1> HIDE DEF g
<1>5. SetEntry(t, d, n, i) \in TreeType
  BY <1>1, <1>3 DEF TreeType
<1> QED BY <1>1, <1>4, <1>5

(* Where the last step of a path to an inode other than the root is taken: a
   path to a directory may end in a dot, any other ends in a name. *)
LEMMA LastStep ==
  ASSUME NEW t, Good(t), NEW p \in Path, Walk(t, p) \notin {None, Root}
  PROVE  /\ p # <<>> /\ Walk(t, p) \in Inodes \ {Root} /\ DirOf(t, p) = Walk(t, Front(p))
         /\ DirOf(t, p) \in Dirs(t) /\ DirOf(t, p) \in Inodes
         /\ Walk(t, p) \notin Dirs(t) => Last(p) \in Names
         /\ Last(p) \in Names => t.ent[DirOf(t, p)][Last(p)] = Walk(t, p)
<1>1. p # <<>> /\ Walk(t, p) \in Inodes \ {Root}
  BY WalkIs DEF Places
<1>2. /\ Walk(t, p) = Entry(t, Walk(t, Front(p)), Last(p)) /\ DirOf(t, p) = Walk(t, Front(p))
      /\ Walk(t, Front(p)) \in Places /\ Last(p) \in Components
  BY <1>1, WalkIs, Shorter
<1>3. Walk(t, Front(p)) \in Dirs(t)
  BY <1>1, <1>2, EntryIs
<1>4. Walk(t, p) \notin Dirs(t) => Last(p) \in Names
  BY <1>2, <1>3, EntryIs, Parents DEF Components
<1>5. Last(p) \in Names => t.ent[DirOf(t, p)][Last(p)] = Walk(t, p)
  BY <1>2, <1>3, EntryIs
<1> QED BY <1>1, <1>2, <1>3, <1>4, <1>5, Fields

Droppable(t, p) ==
    Walk(t, p) \notin {None, Root} /\ (IsDir(t, Walk(t, p)) => IsEmpty(t, Walk(t, p)))

(* A name that is dropped, and its inode with the last *)
LEMMA DroppedIs ==
  ASSUME NEW t, Good(t), NEW p \in Path, Droppable(t, p), NEW i, i = Walk(t, p),
         NEW u, u = Dropped(t, p)
  PROVE  /\ u \in TreeType /\ i \in Inodes \ {Root}
         /\ u.mode = t.mode /\ u.atime = t.atime /\ u.mtime = t.mtime
         /\ \A j \in Inodes : j # i => u.kind[j] = t.kind[j]
         /\ \A d \in Inodes, n \in Names : t.ent[d][n] # i => u.ent[d][n] = t.ent[d][n]
         /\ \A d \in Inodes, n \in Names : t.ent[d][n] = i => u.ent[d][n] \in {i, None}
         /\ Last(p) \in Names => u.ent[DirOf(t, p)][Last(p)] = None
         /\ \/ /\ u.kind[i] = "free" /\ Links(u, i) = {}
            \/ /\ u.kind = t.kind /\ i \notin Dirs(t) /\ Links(u, i) # {}
<1>1. /\ i \in Inodes \ {Root} /\ DirOf(t, p) \in Inodes
      /\ i \notin Dirs(t) => Last(p) \in Names
      /\ Last(p) \in Names => t.ent[DirOf(t, p)][Last(p)] = i
      /\ i \in Dirs(t) => Cardinality(Links(t, i)) = 1 /\ \A n \in Names : t.ent[i][n] = None
  <2>1. i \in Dirs(t) => Cardinality(Links(t, i)) = 1
    BY LastStep, Fields DEF Droppable, Good, WellFormed
  <2>2. i \in Dirs(t) => \A n \in Names : t.ent[i][n] = None
    BY Fields DEF Droppable, IsEmpty
  <2> QED BY <2>1, <2>2, LastStep DEF Droppable
<1>2. \A n \in Names : t.ent[i][n] = None
  BY <1>1, EntriesAre
<1>3. CASE Cardinality(Links(t, i)) = 1
  <2>1. u = Free(t, {i})
    BY <1>3 DEF Dropped
  <2>2. \A d \in Inodes, n \in Names :
           u.ent[d][n] = IF d = i \/ t.ent[d][n] = i THEN None ELSE t.ent[d][n]
    BY <1>1, <2>1, FreeIs
  <2>3. \A d \in Inodes, n \in Names : t.ent[d][n] # i => u.ent[d][n] = t.ent[d][n]
    BY <1>2, <2>2
  <2>4. \A d \in Inodes, n \in Names : t.ent[d][n] = i => u.ent[d][n] = None
    BY <2>2
  <2>5. Links(u, i) = {}
    BY <1>1, <2>2, TreeAssumption DEF Links
  <2>6. /\ u \in TreeType /\ u.mode = t.mode /\ u.atime = t.atime /\ u.mtime = t.mtime
        /\ u.kind[i] = "free" /\ \A j \in Inodes : j # i => u.kind[j] = t.kind[j]
    BY <1>1, <2>1, FreeIs
  <2> QED BY <1>1, <2>3, <2>4, <2>5, <2>6
<1>4. CASE Cardinality(Links(t, i)) # 1
  <2>1. u = SetEntry(t, DirOf(t, p), Last(p), None) /\ Last(p) \in Names /\ i \notin Dirs(t)
    BY <1>1, <1>4 DEF Dropped
  <2>2. t \in TreeType /\ None \in Places
    BY DEF Good, Places
  <2>3. /\ u \in TreeType /\ u.kind = t.kind
        /\ u.mode = t.mode /\ u.atime = t.atime /\ u.mtime = t.mtime
        /\ \A e \in Inodes, m \in Names :
              u.ent[e][m] = IF e = DirOf(t, p) /\ m = Last(p) THEN None ELSE t.ent[e][m]
    BY <1>1, <2>1, <2>2, SetEntryIs
  <2>4. Links(u, i) # {}
    <3>1. <<DirOf(t, p), Last(p)>> \in Links(t, i)
      BY <1>1, <2>1, LinksAre
    <3>2. PICK l \in Links(t, i) : l # <<DirOf(t, p), Last(p)>>
      <4>1. Links(t, i) # {<<DirOf(t, p), Last(p)>>}
        <5>0. i \in Inodes
          BY <1>1
        <5>1. Cardinality(Links(t, i)) = 1 <=> \E l : Links(t, i) = {l}
          BY <5>0, LinksAre
        <5> QED BY <1>4, <5>1
      <4> QED BY <3>1, <4>1
    <3>3. l[1] \in Inodes /\ l[2] \in Names /\ l = <<l[1], l[2]>> /\ t.ent[l[1]][l[2]] = i
      BY <1>1, <3>2, LinksAre DEF Links
    <3>4. ~(l[1] = DirOf(t, p) /\ l[2] = Last(p))
      BY <3>2, <3>3
    <3>5. u.ent[l[1]][l[2]] = i
      BY <2>3, <3>3, <3>4
    <3>6. l \in Inodes \X Names
      BY <3>3
    <3> QED BY <3>5, <3>6 DEF Links
  <2>5. \A d \in Inodes, n \in Names : t.ent[d][n] # i => u.ent[d][n] = t.ent[d][n]
    BY <1>1, <2>1, <2>3
  <2> QED BY <1>1, <2>1, <2>3, <2>4, <2>5
<1> QED BY <1>3, <1>4

(* What is left is a tree, in which the directories are where they were. *)
LEMMA DroppedGood ==
  ASSUME NEW t, Good(t), NEW p \in Path, Droppable(t, p), NEW i, i = Walk(t, p),
         NEW u, u = Dropped(t, p)
  PROVE  /\ Good(u) /\ Dirs(u) = Dirs(t) \ {i}
         /\ \A d \in Dirs(u) : ParentOf(u, d) = ParentOf(t, d)
<1>1. /\ u \in TreeType /\ i \in Inodes \ {Root}
      /\ \A j \in Inodes : j # i => u.kind[j] = t.kind[j]
      /\ \A d \in Inodes, n \in Names : t.ent[d][n] # i => u.ent[d][n] = t.ent[d][n]
      /\ \A d \in Inodes, n \in Names : t.ent[d][n] = i => u.ent[d][n] \in {i, None}
      /\ \/ /\ u.kind[i] = "free" /\ Links(u, i) = {}
         \/ /\ u.kind = t.kind /\ i \notin Dirs(t) /\ Links(u, i) # {}
  BY DroppedIs
<1>2. \A j \in Inodes : j # None /\ (j \in Dirs(u) <=> u.kind[j] = "dir")
  BY TreeAssumption DEF Dirs, IsDir
<1>3. Dirs(u) = Dirs(t) \ {i}
  <2>1. \A j \in Dirs(u) \cup Dirs(t) : j \in Inodes
    BY DEF Dirs
  <2>2. \A j \in Inodes : j \in Dirs(u) <=> j \in Dirs(t) \ {i}
    <3> TAKE j \in Inodes
    <3>1. CASE j = i
      BY <1>1, <1>2, <3>1, Fields
    <3>2. CASE j # i
      BY <1>1, <1>2, <3>2, Fields
    <3> QED BY <3>1, <3>2
  <2> QED BY <2>1, <2>2
<1>4. ASSUME NEW d \in Inodes, NEW n \in Names, u.ent[d][n] # None
      PROVE  d \in Dirs(u) /\ u.ent[d][n] # Root /\ u.kind[u.ent[d][n]] # "free"
  <2>1. t.ent[d][n] # None
    BY <1>1, <1>2, <1>4
  <2>2. d \in Dirs(t) /\ t.ent[d][n] \in Inodes \ {Root} /\ t.kind[t.ent[d][n]] # "free"
    BY <2>1, EntriesAre
  <2>3. d # i
    BY <1>4, <2>1, <2>2, LastStep, Fields, <1>1 DEF Droppable, IsEmpty
  <2>4. u.ent[d][n] = t.ent[d][n]
    BY <1>1, <1>4
  <2>5. CASE t.ent[d][n] = i
    <3>1. <<d, n>> \in Links(u, i)
      BY <2>4, <2>5 DEF Links
    <3> QED BY <1>1, <1>3, <2>2, <2>3, <2>4, <3>1
  <2>6. CASE t.ent[d][n] # i
    BY <1>1, <1>3, <2>2, <2>3, <2>4, <2>6
  <2> QED BY <2>5, <2>6
<1>5. ASSUME NEW j \in Inodes \ {Root}, j # i
      PROVE  Links(u, j) = Links(t, j)
  <2>1. \A d \in Inodes, n \in Names : u.ent[d][n] = j <=> t.ent[d][n] = j
    BY <1>1, <1>2, <1>5
  <2>2. \A l \in Inodes \X Names : u.ent[l[1]][l[2]] = j <=> t.ent[l[1]][l[2]] = j
    BY <2>1
  <2> QED BY <2>2 DEF Links
<1>6. \A j \in Inodes \ {Root} : u.kind[j] # "free" => Links(u, j) # {}
  BY <1>1, <1>5 DEF Good, WellFormed
<1>7. \A j \in Dirs(u) \ {Root} : Links(u, j) = Links(t, j)
  BY <1>3, <1>5, Fields
<1>8. Root \in Dirs(u)
  BY <1>1, <1>3, Fields
<1>9. Good(u) /\ \A d \in Dirs(u) : ParentOf(u, d) = ParentOf(t, d)
  <2>1. Dirs(u) \subseteq Dirs(t)
    BY <1>3
  <2> QED BY <1>1, <1>4, <1>6, <1>7, <1>8, <2>1, StaysGood
<1> QED BY <1>3, <1>9

(* An inode with nothing in it is no way for any path, or for paths without
   dots if it is a directory. *)
LEMMA NoWay ==
  ASSUME NEW t, Good(t), NEW p \in Path, Droppable(t, p), NEW q \in Path,
         IsDir(t, Walk(t, p)) => Plain(q)
  PROVE  \A d \in {Walk(t, p)}, k \in DOMAIN q : Entry(t, d, q[k]) = None
<1> TAKE d \in {Walk(t, p)}, k \in DOMAIN q
<1>1. d \in Places /\ q[k] \in Components
  BY WalkIs DEF Path, Components
<1>2. CASE d \notin Dirs(t)
  BY <1>1, <1>2, EntryIs
<1>3. CASE d \in Dirs(t)
  <2>1. IsDir(t, Walk(t, p)) /\ IsEmpty(t, d) /\ Plain(q)
    BY <1>1, <1>3, Fields DEF Droppable
  <2>2. q[k] \in Names
    BY <1>1, <2>1 DEF Plain, HasDotComponent, Components
  <2> QED BY <1>1, <1>3, <2>1, <2>2, EntryIs DEF IsEmpty
<1> QED BY <1>2, <1>3

(* Other paths lead where they led. *)
LEMMA DroppedWalk ==
  ASSUME NEW t, Good(t), NEW p \in Path, Droppable(t, p), NEW u, u = Dropped(t, p), NEW q \in Path,
         IsDir(t, Walk(t, p)) => Plain(q), Walk(t, q) \notin {Walk(t, p), None}
  PROVE  Walk(u, q) = Walk(t, q)
<1> DEFINE i == Walk(t, p)
<1>1. /\ Good(u) /\ Dirs(u) = Dirs(t) \ {i} /\ \A d \in Dirs(u) : ParentOf(u, d) = ParentOf(t, d)
      /\ i \in Inodes \ {Root}
      /\ \A d \in Inodes, n \in Names : t.ent[d][n] # i => u.ent[d][n] = t.ent[d][n]
  BY DroppedGood, DroppedIs
<1>2. \A d \in {i}, k \in DOMAIN q : Entry(t, d, q[k]) = None
  BY NoWay
<1> HIDE DEF i
<1>3. \A d \in Dirs(t) \ {i}, n \in Components :
         Entry(t, d, n) \notin {i} \cup {None} => Entry(u, d, n) = Entry(t, d, n)
  <2> SUFFICES ASSUME NEW d \in Dirs(t) \ {i}, NEW n \in Components, Entry(t, d, n) \notin {i} \cup {None}
               PROVE  Entry(u, d, n) = Entry(t, d, n)
    OBVIOUS
  <2>1. d \in Dirs(u) /\ d \in Dirs(t) /\ d \in Places /\ d \in Inodes
    BY <1>1, Fields DEF Places
  <2>2. CASE n = Dot
    BY <1>1, <2>1, <2>2, EntryIs
  <2>3. CASE n = DotDot
    BY <1>1, <2>1, <2>3, EntryIs
  <2>4. CASE n \in Names
    <3>1. Entry(t, d, n) = t.ent[d][n] /\ Entry(u, d, n) = u.ent[d][n]
      BY <1>1, <2>1, <2>4, EntryIs
    <3> QED BY <1>1, <2>1, <2>4, <3>1
  <2> QED BY <2>2, <2>3, <2>4 DEF Components
<1> DEFINE X == {i}
<1>4. X \in SUBSET Inodes /\ Root \notin X /\ Walk(t, q) \notin X \cup {None}
  BY <1>1 DEF i
<1>5. /\ \A d \in X, k \in DOMAIN q : Entry(t, d, q[k]) = None
      /\ \A d \in Dirs(t) \ X, n \in Components :
            Entry(t, d, n) \notin X \cup {None} => Entry(u, d, n) = Entry(t, d, n)
  BY <1>2, <1>3
<1> HIDE DEF X
<1> QED BY <1>1, <1>4, <1>5, SameWalk

(* What is above a directory was above it. *)
LEMMA DroppedAbove ==
  ASSUME NEW t, Good(t), NEW p \in Path, Droppable(t, p), NEW u, u = Dropped(t, p),
         NEW q \in Dirs(u)
  PROVE  q \in Dirs(t) /\ Above(u, q) \subseteq Above(t, q)
<1>1. /\ Good(u) /\ Dirs(u) = Dirs(t) \ {Walk(t, p)}
      /\ \A d \in Dirs(u) : ParentOf(u, d) = ParentOf(t, d)
  BY DroppedGood
<1> DEFINE S == Above(t, q) \cap Dirs(u)
<1>2. q \in Dirs(t) /\ q \in S
  BY <1>1, AboveIs
<1>3. \A k \in S : ParentOf(u, k) \in S
  BY <1>1, <1>2, AboveIs, Parents
<1>4. Above(u, q) \subseteq S
  <2> HIDE DEF S
  <2>1. S \in SUBSET Dirs(u)
    BY DEF S
  <2> QED BY <1>1, <1>2, <1>3, <2>1, AboveIs
<1> QED BY <1>2, <1>4

(* lwext4 removes an empty directory as POSIX removes a name: there is nothing
   below it. *)
LEMMA DirRmIs ==
  ASSUME NEW t, Good(t), NEW p \in Path, Droppable(t, p), IsDir(t, Walk(t, p))
  PROVE  DirRm(t, p) = Accept(Dropped(t, p))
<1> DEFINE i == Walk(t, p)
<1>1. i \in Dirs(t) /\ i \in Inodes \ {Root} /\ \A n \in Names : t.ent[i][n] = None
  BY Fields, LastStep DEF Droppable, IsEmpty
<1>2. Cardinality(Links(t, i)) = 1
  BY <1>1, Fields DEF Good, WellFormed
<1> HIDE DEF i
<1>3. ASSUME NEW j \in Dirs(t), j # i PROVE i \notin Above(t, j)
  <2> DEFINE S == Dirs(t) \ {i}
  <2>1. ASSUME NEW k \in S PROVE ParentOf(t, k) \in S
    <3>1. CASE k = Root
      BY <2>1, <3>1, Parents
    <3>2. CASE k # Root
      <4>1. PICK d \in Dirs(t), n \in Names : t.ent[d][n] = k /\ ParentOf(t, k) = d
        BY <2>1, <3>2, ParentIs
      <4>2. k # None
        BY <2>1, Fields
      <4> QED BY <1>1, <4>1, <4>2
    <3> QED BY <3>1, <3>2
  <2>2. S \in SUBSET Dirs(t) /\ j \in S /\ i \notin S
    BY <1>3
  <2> HIDE DEF S
  <2>3. Above(t, j) \subseteq S
    BY <2>1, <2>2, AboveIs
  <2> QED BY <2>2, <2>3
<1>4. {j \in Dirs(t) : i \in Above(t, j)} = {i}
  BY <1>1, <1>3, AboveIs
<1>5. {j \in Inodes : t.kind[j] = "file" /\ \A l \in Links(t, j) : l[1] \in {i}} = {}
  <2> SUFFICES ASSUME NEW j \in Inodes, t.kind[j] = "file", \A l \in Links(t, j) : l[1] \in {i}
               PROVE  FALSE
    OBVIOUS
  <2>1. j # Root /\ t.kind[j] # "free" /\ j # None
    BY Fields
  <2>2. PICK l : l \in Links(t, j)
    BY <2>1 DEF Good, WellFormed
  <2>3. l[1] = i /\ l[2] \in Names /\ t.ent[l[1]][l[2]] = j
    BY <2>2, LinksAre DEF Links
  <2> QED BY <1>1, <2>1, <2>3
<1>6. Subtree(t, i) = {i}
  BY <1>4, <1>5 DEF Subtree
<1> QED BY <1>2, <1>6 DEF DirRm, Dropped, i

(* A new name for a file *)
LEMMA LinkedGood ==
  ASSUME NEW t, Good(t), NEW d \in Dirs(t), NEW n \in Names, t.ent[d][n] = None,
         NEW i \in Inodes, i \notin Dirs(t), t.kind[i] # "free", NEW u, u = SetEntry(t, d, n, i)
  PROVE  Good(u) /\ u.atime = t.atime /\ u.mtime = t.mtime /\ u.kind = t.kind
<1>1. t \in TreeType /\ d \in Inodes /\ i \in Places
  BY Fields DEF Good, Places
<1>2. /\ u \in TreeType /\ u.kind = t.kind /\ u.atime = t.atime /\ u.mtime = t.mtime
      /\ \A e \in Inodes, m \in Names : u.ent[e][m] = IF e = d /\ m = n THEN i ELSE t.ent[e][m]
  BY <1>1, SetEntryIs
<1>3. Dirs(u) = Dirs(t) /\ Root \in Dirs(u) /\ i # Root /\ None \notin Inodes
  BY <1>2, Fields DEF Dirs, IsDir
<1>4. \A e \in Inodes, m \in Names :
         u.ent[e][m] # None => e \in Dirs(u) /\ u.ent[e][m] # Root /\ u.kind[u.ent[e][m]] # "free"
  <2> SUFFICES ASSUME NEW e \in Inodes, NEW m \in Names, u.ent[e][m] # None
               PROVE  e \in Dirs(u) /\ u.ent[e][m] # Root /\ u.kind[u.ent[e][m]] # "free"
    OBVIOUS
  <2>1. CASE e = d /\ m = n
    BY <1>2, <1>3, <2>1
  <2>2. CASE ~(e = d /\ m = n)
    <3>1. u.ent[e][m] = t.ent[e][m] /\ t.ent[e][m] # None
      BY <1>2, <2>2
    <3>2. e \in Dirs(t) /\ t.ent[e][m] # Root /\ t.kind[t.ent[e][m]] # "free"
      BY <3>1, EntriesAre
    <3> QED BY <1>2, <1>3, <3>1, <3>2
  <2> QED BY <2>1, <2>2
<1>5. ASSUME NEW j \in Inodes, j # i PROVE Links(u, j) = Links(t, j)
  <2>1. \A l \in Inodes \X Names : u.ent[l[1]][l[2]] = j <=> t.ent[l[1]][l[2]] = j
    <3>1. \A e \in Inodes, m \in Names : u.ent[e][m] = j <=> t.ent[e][m] = j
      BY <1>2, <1>3, <1>5
    <3> QED BY <3>1
  <2> QED BY <2>1 DEF Links
<1>6. Links(u, i) # {}
  <2>1. <<d, n>> \in Inodes \X Names /\ u.ent[d][n] = i
    BY <1>1, <1>2
  <2> QED BY <2>1 DEF Links
<1>7. \A j \in Inodes \ {Root} : u.kind[j] # "free" => Links(u, j) # {}
  BY <1>2, <1>5, <1>6 DEF Good, WellFormed
<1>8. \A j \in Dirs(u) \ {Root} : Links(u, j) = Links(t, j)
  BY <1>3, <1>5, Fields
<1>9. Good(u)
  BY <1>2, <1>3, <1>4, <1>7, <1>8, StaysGood
<1> QED BY <1>2, <1>9

(* A name that is moved, of a directory only to a place that is not below it *)
LEMMA MovedGood ==
  ASSUME NEW t, Good(t), NEW d \in Dirs(t), NEW n \in Names, NEW s, s = t.ent[d][n], s # None,
         NEW e \in Dirs(t), NEW m \in Names, t.ent[e][m] = None, s \notin Above(t, e),
         NEW u, u = SetEntry(SetEntry(t, d, n, None), e, m, s)
  PROVE  Good(u) /\ u.atime = t.atime /\ u.mtime = t.mtime /\ u.kind = t.kind
<1>1. /\ t \in TreeType /\ d \in Inodes /\ e \in Inodes /\ None \in Places /\ s \in Places
      /\ s \in Inodes \ {Root} /\ t.kind[s] # "free" /\ None \notin Inodes
  BY Fields, EntriesAre DEF Good, Places
<1>2. /\ u \in TreeType /\ u.kind = t.kind /\ u.atime = t.atime /\ u.mtime = t.mtime
      /\ \A f \in Inodes, k \in Names :
            u.ent[f][k] = IF f = e /\ k = m THEN s ELSE IF f = d /\ k = n THEN None ELSE t.ent[f][k]
  <2> DEFINE v == SetEntry(t, d, n, None)
  <2>1. /\ v \in TreeType /\ v.kind = t.kind /\ v.atime = t.atime /\ v.mtime = t.mtime
        /\ \A f \in Inodes, k \in Names : v.ent[f][k] = IF f = d /\ k = n THEN None ELSE t.ent[f][k]
    BY <1>1, SetEntryIs
  <2> HIDE DEF v
  <2>2. u = SetEntry(v, e, m, s)
    BY DEF v
  <2>3. v \in TreeType /\ e \in Inodes /\ s \in Places
    BY <1>1, <2>1
  <2>4. /\ SetEntry(v, e, m, s) \in TreeType /\ SetEntry(v, e, m, s).kind = v.kind
        /\ SetEntry(v, e, m, s).atime = v.atime /\ SetEntry(v, e, m, s).mtime = v.mtime
        /\ \A f \in Inodes, k \in Names :
              SetEntry(v, e, m, s).ent[f][k] = IF f = e /\ k = m THEN s ELSE v.ent[f][k]
    BY <2>3, SetEntryIs
  <2> QED BY <2>1, <2>2, <2>4
<1>3. Dirs(u) = Dirs(t) /\ IsDir(u, Root) /\ \A j \in Inodes : IsDir(u, j) <=> j \in Dirs(t)
  BY <1>2, Fields DEF Dirs, IsDir
<1>4. ASSUME NEW f \in Inodes, NEW k \in Names, u.ent[f][k] # None
      PROVE  IsDir(u, f) /\ u.kind[u.ent[f][k]] # "free" /\ u.ent[f][k] # Root
  <2>1. CASE f = e /\ k = m
    BY <1>1, <1>2, <1>3, <2>1
  <2>2. CASE ~(f = e /\ k = m)
    <3>1. u.ent[f][k] = t.ent[f][k] /\ t.ent[f][k] # None
      BY <1>2, <1>4, <2>2
    <3>2. f \in Dirs(t) /\ t.ent[f][k] # Root /\ t.kind[t.ent[f][k]] # "free"
      BY <3>1, EntriesAre
    <3> QED BY <1>2, <1>3, <3>1, <3>2
  <2> QED BY <2>1, <2>2
<1>5. ASSUME NEW j \in Inodes, j # s
      PROVE  Links(u, j) = Links(t, j) /\ \A f \in Inodes, k \in Names : u.ent[f][k] = j <=> t.ent[f][k] = j
  <2>1. \A f \in Inodes, k \in Names : u.ent[f][k] = j <=> t.ent[f][k] = j
    BY <1>1, <1>2, <1>5
  <2>2. \A l \in Inodes \X Names : u.ent[l[1]][l[2]] = j <=> t.ent[l[1]][l[2]] = j
    BY <2>1
  <2> QED BY <2>1, <2>2 DEF Links
<1>6. <<e, m>> \in Links(u, s)
  <2>1. <<e, m>> \in Inodes \X Names /\ u.ent[e][m] = s
    BY <1>1, <1>2
  <2> QED BY <2>1 DEF Links
<1>7. ASSUME s \in Dirs(t)
      PROVE  Links(u, s) = {<<e, m>>} /\ ParentOf(u, s) = e
  <2>1. \A f \in Inodes, k \in Names : t.ent[f][k] = s => f = d /\ k = n
    BY <1>1, <1>7, ParentIs, Fields
  <2>2. \A f \in Inodes, k \in Names : u.ent[f][k] = s => f = e /\ k = m
    BY <1>1, <1>2, <2>1
  <2>3. ASSUME NEW l \in Links(u, s) PROVE l = <<e, m>>
    <3>1. l[1] \in Inodes /\ l[2] \in Names /\ l = <<l[1], l[2]>> /\ u.ent[l[1]][l[2]] = s
      BY DEF Links
    <3>2. l[1] = e /\ l[2] = m
      BY <2>2, <3>1
    <3> QED BY <3>1, <3>2
  <2>4. u.ent[e][m] = s
    BY <1>1, <1>2
  <2>5. ParentOf(u, s) = CHOOSE f \in Inodes : \E k \in Names : u.ent[f][k] = s
    BY <1>1 DEF ParentOf
  <2>6. \A f \in Inodes : (\E k \in Names : u.ent[f][k] = s) <=> f = e
    BY <2>2, <2>4
  <2>7. ParentOf(u, s) = e
    BY <1>1, <2>5, <2>6
  <2> QED BY <1>6, <2>3, <2>7
<1>8. ASSUME NEW j \in Dirs(t), j # s PROVE ParentOf(u, j) = ParentOf(t, j)
  <2>1. CASE j = Root
    BY <2>1 DEF ParentOf
  <2>2. CASE j # Root
    <3>1. \A f \in Inodes, k \in Names : u.ent[f][k] = j <=> t.ent[f][k] = j
      BY <1>5, <1>8, Fields
    <3>2. PICK f \in Dirs(t), k \in Names :
            /\ t.ent[f][k] = j /\ ParentOf(t, j) = f
            /\ \A g \in Inodes, h \in Names : t.ent[g][h] = j => g = f /\ h = k
      BY <1>8, <2>2, ParentIs
    <3>3. f \in Inodes /\ \A g \in Inodes : (\E h \in Names : u.ent[g][h] = j) <=> g = f
      BY <3>1, <3>2, Fields
    <3>4. ParentOf(u, j) = CHOOSE g \in Inodes : \E h \in Names : u.ent[g][h] = j
      BY <2>2 DEF ParentOf
    <3> QED BY <3>2, <3>3, <3>4
  <2> QED BY <2>1, <2>2
<1>9. ASSUME NEW j \in Dirs(t) PROVE Root \in Above(u, j)
  <2> SUFFICES ASSUME NEW S \in SUBSET Dirs(u), j \in S, \A k \in S : ParentOf(u, k) \in S
               PROVE  Root \in S
    BY <1>3, Fields DEF Above
  <2>1. S \in SUBSET Dirs(t)
    BY <1>3
  <2>2. CASE s \notin S
    <3>1. \A k \in S : ParentOf(t, k) \in S
      BY <1>8, <2>1, <2>2
    <3>2. Above(t, j) \subseteq S
      BY <2>1, <3>1, AboveIs
    <3> QED BY <2>1, <3>2, AboveIs
  <2>3. CASE s \in S
    <3> DEFINE R == S \cap Above(t, e)
    <3>1. e \in S
      BY <1>7, <2>1, <2>3
    <3>2. R \in SUBSET Dirs(t) /\ e \in R
      BY <2>1, <3>1, AboveIs
    <3>3. ASSUME NEW k \in R PROVE ParentOf(t, k) \in R
      <4>1. k \in S /\ k \in Above(t, e) /\ k # s /\ k \in Dirs(t)
        BY <2>1
      <4>2. ParentOf(t, k) \in S
        BY <1>8, <4>1
      <4>3. ParentOf(t, k) \in Above(t, e)
        BY <4>1, AboveIs
      <4> QED BY <4>2, <4>3
    <3>4. R \subseteq S
      OBVIOUS
    <3> HIDE DEF R
    <3>5. Above(t, e) \subseteq R
      BY <3>2, <3>3, AboveIs
    <3> QED BY <3>4, <3>5, AboveIs
  <2> QED BY <2>2, <2>3
<1>10. ASSUME NEW j \in Inodes \ {Root}
       PROVE  /\ u.kind[j] # "free" => Links(u, j) # {}
              /\ u.kind[j] = "dir" => Cardinality(Links(u, j)) = 1 /\ Root \in Above(u, j)
  <2>1. u.kind[j] = "dir" => j \in Dirs(t)
    BY <1>2, Fields
  <2>2. CASE j = s
    <3>1. u.kind[j] = "dir" => Links(u, j) = {<<e, m>>}
      BY <1>7, <2>1, <2>2
    <3>2. Cardinality({<<e, m>>}) = 1
      BY FS_Singleton
    <3> QED BY <1>6, <1>9, <2>1, <2>2, <3>1, <3>2
  <2>3. CASE j # s
    <3>1. Links(u, j) = Links(t, j) /\ u.kind[j] = t.kind[j]
      BY <1>2, <1>5, <2>3
    <3> QED BY <1>9, <2>1, <3>1 DEF Good, WellFormed
  <2> QED BY <2>2, <2>3
<1>11. WellFormed(u)
  BY <1>3, <1>4, <1>10 DEF WellFormed
<1>12. Good(u)
  BY <1>2, <1>11 DEF Good
<1> QED BY <1>2, <1>12

(* Trees with the same fields are the same. *)
LEMMA SameTree ==
  ASSUME NEW t \in TreeType, NEW u \in TreeType, t.kind = u.kind, t.mode = u.mode,
         t.atime = u.atime, t.mtime = u.mtime,
         \A d \in Inodes, n \in Names : t.ent[d][n] = u.ent[d][n]
  PROVE  t = u
<1>1. t.ent \in [Inodes -> [Names -> Places]] /\ u.ent \in [Inodes -> [Names -> Places]]
  BY DEF TreeType, Places
<1>2. ASSUME NEW d \in Inodes PROVE t.ent[d] = u.ent[d]
  <2>1. t.ent[d] \in [Names -> Places] /\ u.ent[d] \in [Names -> Places]
    BY <1>1
  <2> QED BY <2>1
<1>3. t.ent = u.ent
  BY <1>1, <1>2
<1> QED BY <1>3 DEF TreeType

(* Two entries may be set in any order. *)
LEMMA AnyOrder ==
  ASSUME NEW t \in TreeType, NEW d \in Inodes, NEW n \in Names, NEW i \in Places,
         NEW e \in Inodes, NEW m \in Names, NEW j \in Places, ~(d = e /\ n = m)
  PROVE  SetEntry(SetEntry(t, d, n, i), e, m, j) = SetEntry(SetEntry(t, e, m, j), d, n, i)
<1> DEFINE v == SetEntry(t, d, n, i)
           w == SetEntry(t, e, m, j)
<1>1. /\ v \in TreeType /\ v.kind = t.kind /\ v.mode = t.mode
      /\ v.atime = t.atime /\ v.mtime = t.mtime
      /\ \A f \in Inodes, k \in Names : v.ent[f][k] = IF f = d /\ k = n THEN i ELSE t.ent[f][k]
  BY SetEntryIs
<1>2. /\ w \in TreeType /\ w.kind = t.kind /\ w.mode = t.mode
      /\ w.atime = t.atime /\ w.mtime = t.mtime
      /\ \A f \in Inodes, k \in Names : w.ent[f][k] = IF f = e /\ k = m THEN j ELSE t.ent[f][k]
  BY SetEntryIs
<1> HIDE DEF v, w
<1> DEFINE x == SetEntry(v, e, m, j)
           y == SetEntry(w, d, n, i)
<1>3. v \in TreeType /\ w \in TreeType
  BY <1>1, <1>2
<1>4. /\ x \in TreeType /\ x.kind = v.kind /\ x.mode = v.mode
      /\ x.atime = v.atime /\ x.mtime = v.mtime
      /\ \A f \in Inodes, k \in Names : x.ent[f][k] = IF f = e /\ k = m THEN j ELSE v.ent[f][k]
  BY <1>3, SetEntryIs
<1>5. /\ y \in TreeType /\ y.kind = w.kind /\ y.mode = w.mode
      /\ y.atime = w.atime /\ y.mtime = w.mtime
      /\ \A f \in Inodes, k \in Names : y.ent[f][k] = IF f = d /\ k = n THEN i ELSE w.ent[f][k]
  BY <1>3, SetEntryIs
<1> HIDE DEF x, y
<1>6. \A f \in Inodes, k \in Names : x.ent[f][k] = y.ent[f][k]
  BY <1>1, <1>2, <1>4, <1>5
<1>7. x \in TreeType /\ y \in TreeType
  BY <1>4, <1>5
<1>8. x.kind = y.kind /\ x.mode = y.mode /\ x.atime = y.atime /\ x.mtime = y.mtime
  BY <1>1, <1>2, <1>4, <1>5
<1>9. x = y
  BY <1>6, <1>7, <1>8, SameTree
<1> QED BY <1>9 DEF v, w, x, y

(* A path to nothing in a directory ends in a name that the directory does not
   have. *)
LEMMA NoStep ==
  ASSUME NEW t, Good(t), NEW p \in Path, Walk(t, p) = None, IsDir(t, DirOf(t, p))
  PROVE  /\ p # <<>> /\ DirOf(t, p) = Walk(t, Front(p)) /\ DirOf(t, p) \in Dirs(t) /\ Last(p) \in Names
         /\ t.ent[DirOf(t, p)][Last(p)] = None
<1>1. p # <<>>
  BY DEF DirOf, IsDir
<1>2. /\ DirOf(t, p) = Walk(t, Front(p)) /\ Walk(t, p) = Entry(t, Walk(t, Front(p)), Last(p))
      /\ Last(p) \in Components /\ Front(p) \in Path /\ Walk(t, Front(p)) \in Places
  BY <1>1, WalkIs, Shorter
<1>3. DirOf(t, p) \in Dirs(t)
  BY <1>2, Fields
<1>4. Last(p) \in Names /\ t.ent[DirOf(t, p)][Last(p)] = None
  BY <1>2, <1>3, EntryIs, Parents, Fields DEF Components
<1> QED BY <1>1, <1>2, <1>3, <1>4

(* A rename to a name that is free *)
LEMMA MoveIs ==
  ASSUME NEW t, Good(t), NEW a \in Path, NEW b \in Path, Last(a) \in Names,
         Walk(t, a) \notin {None, Root}, Walk(t, b) = None, IsDir(t, DirOf(t, b)),
         Walk(t, a) \notin Above(t, DirOf(t, b)),
         NEW u, u = SetEntry(SetEntry(t, DirOf(t, b), Last(b), Walk(t, a)), DirOf(t, a), Last(a), None)
  PROVE  /\ Frename(t, a, b) = Accept(u)
         /\ Good(u) /\ u.atime = t.atime /\ u.mtime = t.mtime /\ u.kind = t.kind
<1> DEFINE s == Walk(t, a)
           d == DirOf(t, a)
           e == DirOf(t, b)
           n == Last(a)
           m == Last(b)
           v == SetEntry(SetEntry(t, d, n, None), e, m, s)
<1>1. s # None /\ d \in Dirs(t) /\ d \in Inodes /\ t.ent[d][n] = s /\ n \in Names /\ s \in Inodes
  BY LastStep
<1>2. e \in Dirs(t) /\ m \in Names /\ t.ent[e][m] = None /\ e \in Inodes
  BY NoStep, Fields
<1>3. s \notin Above(t, e)
  OBVIOUS
<1>4. Frename(t, a, b) = Accept(v)
  BY <1>1 DEF Frename
<1>5. t \in TreeType /\ None \in Places /\ s \in Places
  BY <1>1 DEF Good, Places
<1>6. u = SetEntry(SetEntry(t, e, m, s), d, n, None)
  OBVIOUS
<1> HIDE DEF s, d, e, n, m
<1>7. v = u
  <2>1. ~(d = e /\ n = m)
    BY <1>1, <1>2
  <2> QED BY <1>1, <1>2, <1>5, <1>6, <2>1, AnyOrder
<1> HIDE DEF v
<1>8. Good(v) /\ v.atime = t.atime /\ v.mtime = t.mtime /\ v.kind = t.kind
  BY <1>1, <1>2, <1>3, MovedGood DEF v
<1> QED BY <1>4, <1>7, <1>8

(* What rename_locked has found out when it removes the target *)
Replaceable(t, a, b) ==
    /\ Walk(t, a) \notin {None, Root} /\ Walk(t, b) \notin {None, Root} /\ Walk(t, a) # Walk(t, b)
    /\ Last(a) \in Names /\ IsDir(t, DirOf(t, b))
    /\ IsDir(t, Walk(t, a)) = IsDir(t, Walk(t, b))
    /\ IsDir(t, Walk(t, a)) => Plain(a) /\ Plain(b) /\ ~StrictDescendant(a, b)

(* The lexical test of path_is_strict_descendant is right about paths without
   dots. *)
LEMMA DescendantIs ==
  ASSUME NEW t, Good(t), NEW a \in Path, NEW b \in Path, Plain(a), Plain(b),
         IsDir(t, Walk(t, a)), Walk(t, a) # Walk(t, b), b # <<>>, IsDir(t, DirOf(t, b))
  PROVE  StrictDescendant(a, b) <=> Walk(t, a) \in Above(t, DirOf(t, b))
<1> DEFINE q == Front(b)
<1>1. q \in Path /\ Plain(q) /\ DirOf(t, b) = Walk(t, q) /\ Walk(t, q) \in Dirs(t)
  BY Shorter, PlainIs, WalkIs, Fields
<1>2. Walk(t, a) \in Dirs(t)
  BY WalkIs, Fields
<1>3. a # b
  OBVIOUS
<1>4. StrictDescendant(a, b) <=> IsPrefix(a, q)
  BY <1>3, PrefixesAre DEF StrictDescendant, IsStrictPrefix
<1> HIDE DEF q
<1>5. IsPrefix(a, q) => Walk(t, a) \in Above(t, Walk(t, q))
  BY <1>1, AboveOnPath
<1>6. ASSUME Walk(t, a) \in Above(t, Walk(t, q)) PROVE IsPrefix(a, q)
  <2>1. PICK p \in Path : IsPrefix(p, q) /\ Plain(p) /\ Walk(t, p) = Walk(t, a)
    BY <1>1, <1>6, AboveOnPath
  <2>2. p = a
    BY <1>2, <2>1, OnePath
  <2> QED BY <2>1, <2>2
<1> QED BY <1>1, <1>4, <1>5, <1>6

(* A rename to a name that is not free: once the target is gone, the source is
   where it was, and it can be moved. *)
LEMMA ReplaceIs ==
  ASSUME NEW t, Good(t), NEW a \in Path, NEW b \in Path, Replaceable(t, a, b), Droppable(t, b),
         NEW u, u = Dropped(t, b)
  PROVE  /\ Walk(t, a) \notin Above(t, DirOf(t, b))
         /\ Good(u) /\ Walk(u, a) = Walk(t, a) /\ DirOf(u, a) = DirOf(t, a) /\ DirOf(u, b) = DirOf(t, b)
         /\ Walk(u, b) = None /\ IsDir(u, DirOf(u, b)) /\ Walk(u, a) \notin Above(u, DirOf(u, b))
<1>1. /\ Walk(t, a) \notin {None, Root} /\ Walk(t, b) \notin {None, Root} /\ Walk(t, a) # Walk(t, b)
      /\ Last(a) \in Names /\ IsDir(t, DirOf(t, b))
      /\ IsDir(t, Walk(t, a)) = IsDir(t, Walk(t, b))
      /\ IsDir(t, Walk(t, a)) => Plain(a) /\ Plain(b) /\ ~StrictDescendant(a, b)
  BY DEF Replaceable
<1>2. /\ a # <<>> /\ DirOf(t, a) = Walk(t, Front(a)) /\ DirOf(t, a) \in Dirs(t)
      /\ t.ent[DirOf(t, a)][Last(a)] = Walk(t, a)
  BY <1>1, LastStep
<1>3. /\ b # <<>> /\ DirOf(t, b) = Walk(t, Front(b)) /\ DirOf(t, b) \in Dirs(t)
      /\ Walk(t, b) \in Inodes \ {Root}
      /\ Walk(t, b) \notin Dirs(t) => Last(b) \in Names
      /\ Last(b) \in Names => t.ent[DirOf(t, b)][Last(b)] = Walk(t, b)
  BY <1>1, LastStep
<1>4. Last(b) \in Names
  <2>1. Walk(t, b) \in Dirs(t) => Plain(b)
    BY <1>1, <1>3, Fields
  <2> QED BY <1>3, <2>1, PlainIs
<1>5. Front(a) \in Path /\ Front(b) \in Path
  BY <1>2, <1>3, Shorter
<1>6. Walk(t, a) \notin Above(t, DirOf(t, b))
  <2>1. CASE IsDir(t, Walk(t, a))
    BY <1>1, <1>3, <2>1, DescendantIs
  <2>2. CASE ~IsDir(t, Walk(t, a))
    BY <1>3, <2>2, AboveIs, Fields
  <2> QED BY <2>1, <2>2
<1>7. IsDir(t, Walk(t, b)) => /\ Plain(a) /\ Plain(b) /\ Plain(Front(a)) /\ Plain(Front(b))
                              /\ IsEmpty(t, Walk(t, b))
  BY <1>1, <1>2, <1>3, PlainIs DEF Droppable
<1>8. Walk(t, Front(a)) \notin {Walk(t, b), None} /\ Walk(t, Front(b)) \notin {Walk(t, b), None}
  <2>1. DirOf(t, a) # None /\ DirOf(t, b) # None
    BY <1>2, <1>3, Fields
  <2>2. ASSUME IsDir(t, Walk(t, b)) PROVE DirOf(t, a) # Walk(t, b) /\ DirOf(t, b) # Walk(t, b)
    BY <1>1, <1>2, <1>3, <1>4, <1>7, <2>2 DEF IsEmpty
  <2>3. ASSUME ~IsDir(t, Walk(t, b)) PROVE DirOf(t, a) # Walk(t, b) /\ DirOf(t, b) # Walk(t, b)
    BY <1>2, <1>3, <2>3, Fields
  <2> QED BY <1>2, <1>3, <2>1, <2>2, <2>3
<1>9. Walk(u, a) = Walk(t, a)
  BY <1>1, <1>7, DroppedWalk
<1>10. Walk(u, Front(a)) = Walk(t, Front(a)) /\ Walk(u, Front(b)) = Walk(t, Front(b))
  BY <1>5, <1>7, <1>8, DroppedWalk
<1>11. /\ Good(u) /\ Dirs(u) = Dirs(t) \ {Walk(t, b)} /\ u.ent[DirOf(t, b)][Last(b)] = None
  BY <1>4, DroppedGood, DroppedIs
<1>12. DirOf(u, a) = DirOf(t, a) /\ DirOf(u, b) = DirOf(t, b)
  BY <1>2, <1>3, <1>10, <1>11, WalkIs
<1>13. DirOf(u, b) \in Dirs(u)
  BY <1>3, <1>8, <1>11, <1>12
<1>14. Walk(u, b) = None
  <2>1. /\ Walk(u, b) = Entry(u, Walk(u, Front(b)), Last(b)) /\ Walk(u, Front(b)) = DirOf(u, b)
        /\ Last(b) \in Components
    BY <1>3, <1>4, <1>11, WalkIs DEF Components
  <2>2. DirOf(u, b) \in Places
    BY <1>11, <1>13, Fields DEF Places
  <2> QED BY <1>4, <1>11, <1>12, <1>13, <2>1, <2>2, EntryIs
<1>15. IsDir(u, DirOf(u, b)) /\ Walk(u, a) \notin Above(u, DirOf(u, b))
  <2>1. Above(u, DirOf(u, b)) \subseteq Above(t, DirOf(t, b))
    BY <1>12, <1>13, DroppedAbove
  <2> QED BY <1>6, <1>9, <1>11, <1>13, <2>1, Fields
<1> QED BY <1>6, <1>9, <1>11, <1>12, <1>14, <1>15

(* One field of one inode is set: its kind, *)
LEMMA KindIsSet ==
  ASSUME NEW t \in TreeType, NEW i \in Inodes, NEW k \in {"free", "dir", "file"},
         NEW u, u = [t EXCEPT !.kind[i] = k]
  PROVE  /\ u \in TreeType /\ u.ent = t.ent /\ u.mode = t.mode /\ u.atime = t.atime /\ u.mtime = t.mtime
         /\ \A j \in Inodes : u.kind[j] = IF j = i THEN k ELSE t.kind[j]
BY DEF TreeType

(* its mode, *)
LEMMA ModeIsSet ==
  ASSUME NEW t \in TreeType, NEW i \in Inodes, NEW m \in Modes, NEW u, u = [t EXCEPT !.mode[i] = m]
  PROVE  u \in TreeType /\ u.kind = t.kind /\ u.ent = t.ent /\ u.atime = t.atime /\ u.mtime = t.mtime
BY DEF TreeType

(* its time of access, *)
LEMMA AtimeIsSet ==
  ASSUME NEW t \in TreeType, NEW i \in Inodes, NEW x \in Int, NEW u, u = [t EXCEPT !.atime[i] = x]
  PROVE  /\ u \in TreeType /\ u.kind = t.kind /\ u.ent = t.ent /\ u.mode = t.mode /\ u.mtime = t.mtime
         /\ \A j \in Inodes : u.atime[j] = IF j = i THEN x ELSE t.atime[j]
BY DEF TreeType

(* or its time of modification. *)
LEMMA MtimeIsSet ==
  ASSUME NEW t \in TreeType, NEW i \in Inodes, NEW x \in Int, NEW u, u = [t EXCEPT !.mtime[i] = x]
  PROVE  /\ u \in TreeType /\ u.kind = t.kind /\ u.ent = t.ent /\ u.mode = t.mode /\ u.atime = t.atime
         /\ \A j \in Inodes : u.mtime[j] = IF j = i THEN x ELSE t.mtime[j]
BY DEF TreeType

(* The tree with a new, empty directory *)
LEMMA MadeGood ==
  ASSUME NEW t, Good(t), NEW a \in Path, Walk(t, a) = None, IsDir(t, DirOf(t, a)),
         \E j \in Inodes : t.kind[j] = "free", NEW u, u = DirMk(t, a).tree
  PROVE  /\ DirMk(t, a) = Accept(u) /\ Good(u) /\ Walk(u, a) # None
         /\ \A j \in Inodes : u.atime[j] \in {0, t.atime[j]} /\ u.mtime[j] \in {0, t.mtime[j]}
<1> DEFINE q == DirOf(t, a)
           n == Last(a)
           i == CHOOSE j \in Inodes : t.kind[j] = "free"
           v == SetEntry(t, q, n, i)
           w1 == [v EXCEPT !.kind[i] = "dir"]
           asMade == "default"
           w2 == [w1 EXCEPT !.mode[i] = asMade]
           w3 == [w2 EXCEPT !.atime[i] = 0]
           w == [w3 EXCEPT !.mtime[i] = 0]
<1>1. /\ a # <<>> /\ q = Walk(t, Front(a)) /\ q \in Dirs(t) /\ n \in Names /\ t.ent[q][n] = None
      /\ q \in Inodes /\ Front(a) \in Path
  BY NoStep, Fields, Shorter
<1>2. i \in Inodes /\ t.kind[i] = "free" /\ i \in Places /\ i \notin Dirs(t)
  <2>1. i \in Inodes /\ t.kind[i] = "free"
    OBVIOUS
  <2> HIDE DEF i
  <2> QED BY <2>1, Fields DEF Places
<1>3. DirMk(t, a) = Accept(w)
  BY <1>2 DEF DirMk, Make
<1>4. u = w
  BY <1>3 DEF Accept
<1> HIDE DEF q, n, i
<1>5. /\ v \in TreeType /\ v.kind = t.kind /\ v.atime = t.atime /\ v.mtime = t.mtime
      /\ \A d \in Inodes, k \in Names : v.ent[d][k] = IF d = q /\ k = n THEN i ELSE t.ent[d][k]
  BY <1>1, <1>2, SetEntryIs DEF Good
<1> HIDE DEF v
<1>6. /\ w1 \in TreeType /\ w1.ent = v.ent /\ w1.atime = t.atime /\ w1.mtime = t.mtime
      /\ \A j \in Inodes : w1.kind[j] = IF j = i THEN "dir" ELSE t.kind[j]
  BY <1>2, <1>5, KindIsSet
<1> HIDE DEF w1
<1>7. w2 \in TreeType /\ w2.kind = w1.kind /\ w2.ent = v.ent /\ w2.atime = t.atime /\ w2.mtime = t.mtime
  <2>1. asMade \in Modes
    BY DEF Modes
  <2> HIDE DEF asMade
  <2> QED BY <1>2, <1>6, <2>1, ModeIsSet
<1> HIDE DEF w2
<1>8. /\ w3 \in TreeType /\ w3.kind = w1.kind /\ w3.ent = v.ent /\ w3.mtime = t.mtime
      /\ \A j \in Inodes : w3.atime[j] \in {0, t.atime[j]}
  BY <1>2, <1>7, AtimeIsSet
<1> HIDE DEF w3
<1>9. /\ w \in TreeType /\ w.kind = w1.kind /\ w.ent = v.ent /\ w.atime = w3.atime
      /\ \A j \in Inodes : w.mtime[j] \in {0, t.mtime[j]}
  BY <1>2, <1>8, MtimeIsSet
<1> HIDE DEF w
<1>10. /\ u \in TreeType
       /\ \A j \in Inodes : u.kind[j] = IF j = i THEN "dir" ELSE t.kind[j]
       /\ \A d \in Inodes, k \in Names : u.ent[d][k] = IF d = q /\ k = n THEN i ELSE t.ent[d][k]
       /\ \A j \in Inodes : u.atime[j] \in {0, t.atime[j]} /\ u.mtime[j] \in {0, t.mtime[j]}
  BY <1>4, <1>5, <1>6, <1>8, <1>9
<1>11. /\ Root \in Dirs(t) /\ Root \in Inodes /\ None \notin Inodes /\ i # Root /\ i # None
       /\ \A j \in Inodes : IsDir(u, j) <=> j = i \/ j \in Dirs(t)
       /\ Dirs(u) = Dirs(t) \cup {i}
  <2>1. Root \in Dirs(t) /\ Root \in Inodes /\ None \notin Inodes /\ i # Root /\ i # None
    BY <1>2, Fields
  <2>2. \A j \in Inodes : IsDir(u, j) <=> j = i \/ j \in Dirs(t)
    BY <1>10, Fields DEF IsDir
  <2>3. \A j \in Dirs(t) : j \in Inodes
    BY Fields
  <2> QED BY <1>2, <2>1, <2>2, <2>3 DEF Dirs
<1>12. \A d \in Inodes, k \in Names : t.ent[d][k] # i
  <2> SUFFICES ASSUME NEW d \in Inodes, NEW k \in Names, t.ent[d][k] = i PROVE FALSE
    OBVIOUS
  <2>1. t.kind[t.ent[d][k]] # "free"
    BY <1>11, EntriesAre
  <2> QED BY <1>2, <2>1
<1>13. ASSUME NEW d \in Inodes, NEW k \in Names, u.ent[d][k] # None
       PROVE  IsDir(u, d) /\ u.kind[u.ent[d][k]] # "free" /\ u.ent[d][k] # Root
  <2>1. CASE d = q /\ k = n
    BY <1>1, <1>2, <1>10, <1>11, <2>1
  <2>2. CASE ~(d = q /\ k = n)
    <3>1. u.ent[d][k] = t.ent[d][k] /\ t.ent[d][k] # None
      BY <1>10, <1>13, <2>2
    <3>2. d \in Dirs(t) /\ t.ent[d][k] \in Inodes \ {Root} /\ t.kind[t.ent[d][k]] # "free"
      BY <3>1, EntriesAre
    <3> QED BY <1>10, <1>11, <3>1, <3>2
  <2> QED BY <2>1, <2>2
<1>14. ASSUME NEW j \in Inodes, j # i
       PROVE  /\ \A d \in Inodes, k \in Names : u.ent[d][k] = j <=> t.ent[d][k] = j
              /\ Links(u, j) = Links(t, j)
  <2>1. \A d \in Inodes, k \in Names : u.ent[d][k] = j <=> t.ent[d][k] = j
    BY <1>1, <1>10, <1>11, <1>14
  <2>2. \A l \in Inodes \X Names : u.ent[l[1]][l[2]] = j <=> t.ent[l[1]][l[2]] = j
    BY <2>1
  <2> QED BY <2>1, <2>2 DEF Links
<1>15. Links(u, i) = {<<q, n>>}
  <2>1. \A d \in Inodes, k \in Names : u.ent[d][k] = i <=> d = q /\ k = n
    BY <1>10, <1>12
  <2>2. \A l \in Inodes \X Names : u.ent[l[1]][l[2]] = i <=> l = <<q, n>>
    BY <2>1
  <2>3. <<q, n>> \in Inodes \X Names
    BY <1>1
  <2> QED BY <2>2, <2>3 DEF Links
<1>16. ParentOf(u, i) = q /\ \A j \in Dirs(t) : ParentOf(u, j) = ParentOf(t, j)
  <2>1. \A d \in Inodes : (\E k \in Names : u.ent[d][k] = i) <=> d = q
    BY <1>1, <1>10, <1>12
  <2>2. ParentOf(u, i) = CHOOSE d \in Inodes : \E k \in Names : u.ent[d][k] = i
    BY <1>11 DEF ParentOf
  <2>3. ParentOf(u, i) = q
    BY <1>1, <2>1, <2>2
  <2>4. ASSUME NEW j \in Dirs(t) PROVE ParentOf(u, j) = ParentOf(t, j)
    <3>1. CASE j = Root
      BY <3>1 DEF ParentOf
    <3>2. CASE j # Root
      <4>1. \A d \in Inodes, k \in Names : u.ent[d][k] = j <=> t.ent[d][k] = j
        BY <1>2, <1>14, Fields
      <4>2. PICK d \in Dirs(t), k \in Names :
              /\ t.ent[d][k] = j /\ ParentOf(t, j) = d
              /\ \A e \in Inodes, m \in Names : t.ent[e][m] = j => e = d /\ m = k
        BY <3>2, ParentIs
      <4>3. d \in Inodes /\ \A e \in Inodes : (\E m \in Names : u.ent[e][m] = j) <=> e = d
        BY <4>1, <4>2, Fields
      <4>4. ParentOf(u, j) = CHOOSE e \in Inodes : \E m \in Names : u.ent[e][m] = j
        BY <3>2 DEF ParentOf
      <4> QED BY <4>2, <4>3, <4>4
    <3> QED BY <3>1, <3>2
  <2> QED BY <2>3, <2>4
<1>17. ASSUME NEW j \in Dirs(u) PROVE Root \in Above(u, j)
  <2> SUFFICES ASSUME NEW S \in SUBSET Dirs(u), j \in S, \A k \in S : ParentOf(u, k) \in S
               PROVE  Root \in S
    BY <1>11 DEF Above
  <2> DEFINE R == S \cap Dirs(t)
  <2>1. PICK k \in Dirs(t) : k \in S
    BY <1>1, <1>11, <1>16
  <2>2. R \in SUBSET Dirs(t) /\ k \in R /\ R \subseteq S
    BY <2>1
  <2>3. \A m \in R : ParentOf(t, m) \in R
    BY <1>16, Parents
  <2> HIDE DEF R
  <2>4. Above(t, k) \subseteq R
    BY <2>2, <2>3, AboveIs
  <2> QED BY <2>2, <2>4, AboveIs
<1>18. ASSUME NEW j \in Inodes \ {Root}
       PROVE  /\ u.kind[j] # "free" => Links(u, j) # {}
              /\ u.kind[j] = "dir" => Cardinality(Links(u, j)) = 1 /\ Root \in Above(u, j)
  <2>1. CASE j = i
    <3>1. Cardinality({<<q, n>>}) = 1
      BY FS_Singleton
    <3> QED BY <1>11, <1>15, <1>17, <2>1, <3>1
  <2>2. CASE j # i
    <3>1. Links(u, j) = Links(t, j) /\ u.kind[j] = t.kind[j]
      BY <1>10, <1>14, <2>2
    <3>2. u.kind[j] = "dir" => j \in Dirs(u)
      BY <1>11, <3>1, Fields
    <3> QED BY <1>17, <3>1, <3>2 DEF Good, WellFormed
  <2> QED BY <2>1, <2>2
<1>19. WellFormed(u)
  <2>1. IsDir(u, Root)
    BY <1>11
  <2> QED BY <1>13, <1>18, <2>1 DEF WellFormed
<1>20. Good(u)
  BY <1>10, <1>19 DEF Good
<1>21. Walk(u, Front(a)) = q
  <2>1. \A d \in Dirs(t) \ {}, k \in Components :
           Entry(t, d, k) \notin {} \cup {None} => Entry(u, d, k) = Entry(t, d, k)
    <3> SUFFICES ASSUME NEW d \in Dirs(t), NEW k \in Components, Entry(t, d, k) # None
                 PROVE  Entry(u, d, k) = Entry(t, d, k)
      OBVIOUS
    <3>1. d \in Dirs(u) /\ d \in Places /\ d \in Inodes
      BY <1>11, Fields DEF Places
    <3>2. CASE k = Dot
      BY <1>20, <3>1, <3>2, EntryIs
    <3>3. CASE k = DotDot
      BY <1>16, <1>20, <3>1, <3>3, EntryIs
    <3>4. CASE k \in Names
      <4>1. Entry(t, d, k) = t.ent[d][k] /\ Entry(u, d, k) = u.ent[d][k]
        BY <1>20, <3>1, <3>4, EntryIs
      <4> QED BY <1>1, <1>10, <3>1, <3>4, <4>1
    <3> QED BY <3>2, <3>3, <3>4 DEF Components
  <2> DEFINE X == {}
  <2>2. /\ X \in SUBSET Inodes /\ Root \notin X
        /\ \A d \in Dirs(t) \ X, k \in Components :
              Entry(t, d, k) \notin X \cup {None} => Entry(u, d, k) = Entry(t, d, k)
        /\ \A d \in X, k \in DOMAIN Front(a) : Entry(t, d, Front(a)[k]) = None
    BY <2>1
  <2>3. Walk(t, Front(a)) \notin X \cup {None}
    BY <1>1, Fields
  <2> HIDE DEF X
  <2> QED BY <1>1, <1>20, <2>2, <2>3, SameWalk
<1>22. Walk(u, a) # None
  <2>0. Walk(u, a) = Entry(u, Walk(u, Front(a)), Last(a))
    BY <1>1, <1>20, WalkIs
  <2>1. Walk(u, a) = Entry(u, q, n) /\ n \in Components /\ q \in Places /\ q \in Dirs(u)
    BY <1>1, <1>11, <1>21, <2>0 DEF Components, Places, n
  <2>2. Entry(u, q, n) = i
    BY <1>1, <1>10, <1>20, <2>1, EntryIs
  <2> QED BY <1>11, <2>1, <2>2
<1> QED BY <1>3, <1>4, <1>10, <1>20, <1>22

-----------------------------------------------------------------------------
(* The invariant. *)

Times(t) == \A i \in Inodes : {t.atime[i], t.mtime[i]} \subseteq 0 .. TimeMax

CallNames == {"rename", "link", "unlink", "mkdir", "rmdir", "utime"}
Ats == {"idle", "done", "rename", "compare", "scan", "remove", "again", "link",
        "exist", "make", "mode", "atime", "mtime"}
Results == {"ok", "EROFS", "EBUSY", "EOVERFLOW", "ENOENT", "EEXIST", "EINVAL", "EISDIR", "ENOTDIR",
            "ENOTEMPTY", "ENOSPC", "EIO"}
Vals == {None} \cup {c.val : c \in Calls}
OpType == [call : CallNames \cup {"none"}, a : Path, b : Path, val : Vals, at : Ats,
           res : Results, hit : BOOLEAN]

Typed ==
    /\ op \in OpType
    /\ Good(tree) /\ Times(tree) /\ Good(before) /\ Times(before)
    /\ readOnly \in BOOLEAN /\ faults \in 0 .. MaxFaults /\ calls \in 0 .. MaxCalls

(* Which call a step is of, and where the tree has not changed yet *)
Staged ==
    /\ op.at \in {"rename", "compare", "again"} => op.call = "rename"
    /\ op.at = "scan" => op.call \in {"rename", "rmdir"}
    /\ op.at = "remove" => op.call \in {"rename", "rmdir", "unlink"}
    /\ op.at = "link" => op.call = "link"
    /\ op.at = "exist" => op.call \in {"unlink", "mkdir"}
    /\ op.at \in {"make", "mode"} => op.call = "mkdir"
    /\ op.at \in {"atime", "mtime"} => op.call = "utime"
    /\ op.at \notin {"again", "mode", "mtime", "done"} => tree = before

(* What the checks of the arguments let through *)
Checked ==
    op.at \notin {"idle", "done"} =>
        /\ op.call = "rename" => From # Root /\ To # Root /\ Last(op.a) \in Names
        /\ op.call = "rmdir" => From # Root
        /\ op.call = "mkdir" => op.val \in Modes
        /\ op.call = "utime" => op.val \in 0 .. TimeMax

(* What the steps of a call have found out and done *)
Found ==
    /\ op.at = "compare" => From # None /\ To # None /\ IsDir(before, DirOf(before, op.b))
    /\ op.at = "scan" /\ op.call = "rename" => Replaceable(before, op.a, op.b) /\ IsDir(before, To)
    /\ op.at = "remove" /\ op.call = "rename" =>
          Replaceable(before, op.a, op.b) /\ Droppable(before, op.b)
    /\ op.at = "remove" /\ op.call = "rmdir" => Droppable(before, op.a) /\ IsDir(before, From)
    /\ op.at = "again" =>
          /\ Replaceable(before, op.a, op.b) /\ Droppable(before, op.b)
          /\ tree = Unnamed(op.b)
    /\ op.at = "make" => From = None
    /\ op.at = "mode" => May /\ tree = DirMk(before, op.a).tree
    /\ op.at = "mtime" => From # None /\ tree = [before EXCEPT !.atime[From] = op.val]

(* What a call has done when it is over *)
Over ==
    op.at = "done" =>
        /\ op.res = "ok" => May /\ tree = Effect
        /\ op.res # "ok" => tree \in HalfDone
        /\ PosixOutcome /\ RootIsBusy

IInv == Typed /\ Staged /\ Checked /\ Found /\ Over

(* op goes on at l: the rest of it stays. *)
LEMMA GotoIs ==
  ASSUME op \in OpType, NEW l \in Ats, Goto(l)
  PROVE  /\ op' \in OpType /\ op'.at = l /\ op'.call = op.call /\ op'.a = op.a /\ op'.b = op.b
         /\ op'.val = op.val /\ op'.hit = op.hit
BY DEF OpType, Goto

(* op is done with e. *)
LEMMA DoneIs ==
  ASSUME op \in OpType, NEW e \in Results, Done(e)
  PROVE  /\ op' \in OpType /\ op'.at = "done" /\ op'.res = e
         /\ op'.call = op.call /\ op'.a = op.a /\ op'.b = op.b
         /\ op'.val = op.val /\ op'.hit = op.hit
<1>1. "done" \in Ats
  BY DEF Ats
<1> DEFINE l == "done"
<1>2. l \in Ats /\ op' = [op EXCEPT !.at = l, !.res = e]
  BY <1>1 DEF Done
<1> HIDE DEF l
<1>3. /\ op' \in OpType /\ op'.at = l /\ op'.res = e
      /\ op'.call = op.call /\ op'.a = op.a /\ op'.b = op.b
      /\ op'.val = op.val /\ op'.hit = op.hit
  BY <1>2 DEF OpType
<1> QED BY <1>3 DEF l

SameCall ==
    /\ op' \in OpType /\ op'.call = op.call /\ op'.a = op.a /\ op'.b = op.b /\ op'.val = op.val
    /\ before' = before

(* What is said of a call depends on its arguments and the tree before. *)
LEMMA SameMeaning ==
  ASSUME SameCall
  PROVE  /\ From' = From /\ To' = To /\ May' = May /\ Effect' = Effect /\ HalfDone' = HalfDone
         /\ \A p : Unnamed(p)' = Unnamed(p)
<1>1. /\ op'.call = op.call /\ op'.a = op.a /\ op'.b = op.b /\ op'.val = op.val /\ before' = before
  BY DEF SameCall
<1>2. From' = From /\ To' = To
  BY <1>1 DEF From, To
<1>3. May' = May
  BY <1>1, <1>2 DEF May
<1>4. \A p : Unnamed(p)' = Unnamed(p)
  BY <1>1 DEF Unnamed
<1>5. Effect' = Effect
  BY <1>1, <1>2, <1>4 DEF Effect
<1>6. HalfDone' = HalfDone
  BY <1>1, <1>2, <1>3, <1>4 DEF HalfDone
<1> QED BY <1>2, <1>3, <1>4, <1>5, <1>6

(* A step that a call goes on from *)
LEMMA GoesOn ==
  ASSUME IInv, SameCall, op.at \notin {"idle", "done"}, op'.at \notin {"idle", "done"},
         Good(tree'), Times(tree'), UNCHANGED <<readOnly, calls>>, faults' \in 0 .. MaxFaults,
         Staged', Found'
  PROVE  IInv'
<1>1. From' = From /\ To' = To
  BY SameMeaning
<1>2. Typed'
  BY DEF IInv, Typed, SameCall
<1>3. Checked'
  BY <1>1 DEF IInv, Checked, SameCall
<1>4. Over'
  BY DEF Over
<1> QED BY <1>2, <1>3, <1>4 DEF IInv

(* A step that ends a call *)
LEMMA Ended ==
  ASSUME IInv, SameCall, op.at \notin {"idle", "done"}, op'.at = "done", op'.res \notin {"EROFS", "EBUSY"},
         Good(tree'), Times(tree'), UNCHANGED <<readOnly, calls>>, faults' \in 0 .. MaxFaults,
         op'.res = "ok" => May /\ tree' = Effect,
         op'.res # "ok" => tree' \in HalfDone,
         op'.res # "ok" /\ ~op'.hit /\ Plain(op.a) /\ Plain(op.b) => ~May /\ tree' = before
  PROVE  IInv'
<1>1. From' = From /\ To' = To /\ May' = May /\ Effect' = Effect /\ HalfDone' = HalfDone
  BY SameMeaning
<1>2. op'.call = op.call /\ op'.a = op.a /\ op'.b = op.b /\ before' = before
  BY DEF SameCall
<1>3. Typed'
  BY DEF IInv, Typed, SameCall
<1>4. Checked' /\ Staged' /\ Found'
  BY DEF Checked, Staged, Found
<1>5. PosixOutcome'
  BY <1>1, <1>2 DEF PosixOutcome, At, Plain
<1>6. RootIsBusy'
  BY <1>1, <1>2 DEF IInv, Checked, RootIsBusy, At
<1>7. Over'
  BY <1>1, <1>5, <1>6 DEF Over
<1> QED BY <1>3, <1>4, <1>7 DEF IInv

Stays == UNCHANGED <<readOnly, before, calls>> /\ faults' \in 0 .. MaxFaults

(* A call is refused that has changed nothing yet, *)
LEMMA Refused ==
  ASSUME IInv, op.at \notin {"idle", "done"}, Stays,
         NEW e \in Results \ {"ok", "EROFS", "EBUSY"}, Done(e), tree = before, tree' = before,
         May => ~Plain(op.a) \/ ~Plain(op.b)
  PROVE  IInv'
<1>1. op \in OpType /\ Good(before) /\ Times(before)
  BY DEF IInv, Typed
<1>2. /\ op' \in OpType /\ op'.at = "done" /\ op'.res = e /\ op'.call = op.call /\ op'.a = op.a
      /\ op'.b = op.b /\ op'.val = op.val /\ op'.hit = op.hit
  BY <1>1, DoneIs
<1>3. SameCall
  BY <1>2 DEF SameCall, Stays
<1>4. before \in HalfDone
  BY DEF HalfDone
<1> QED BY <1>1, <1>2, <1>3, <1>4, Ended DEF Stays

(* or has had its effect, *)
LEMMA Accepted ==
  ASSUME IInv, op.at \notin {"idle", "done"}, Stays, Done("ok"), May, tree' = Effect,
         Good(tree'), Times(tree')
  PROVE  IInv'
<1>1. op \in OpType /\ "ok" \in Results
  BY DEF IInv, Typed, Results
<1>2. /\ op' \in OpType /\ op'.at = "done" /\ op'.res = "ok" /\ op'.call = op.call /\ op'.a = op.a
      /\ op'.b = op.b /\ op'.val = op.val /\ op'.hit = op.hit
  BY <1>1, DoneIs
<1>3. SameCall
  BY <1>2 DEF SameCall, Stays
<1> QED BY <1>1, <1>2, <1>3, Ended DEF Stays

(* or goes on. *)
LEMMA Continued ==
  ASSUME IInv, op.at \notin {"idle", "done"}, Stays, SameCall, op'.at \notin {"idle", "done"},
         op'.at \notin {"again", "mode", "mtime"}, tree = before, tree' = before, Staged', Found'
  PROVE  IInv'
<1>1. Good(tree') /\ Times(tree')
  BY DEF IInv, Typed
<1> QED BY <1>1, GoesOn DEF Stays

-----------------------------------------------------------------------------
(* The steps of rename. *)

(* rename_locked's first attempt *)
LEMMA RenameStep ==
  ASSUME IInv, Rename
  PROVE  IInv'
<1> DEFINE t == before
           a == op.a
           b == op.b
           r == Frename(t, a, b)
<1>1. /\ op \in OpType /\ Good(t) /\ Times(t) /\ tree = t /\ op.call = "rename" /\ op.at = "rename"
      /\ From # Root /\ To # Root /\ Last(a) \in Names /\ a \in Path /\ b \in Path
  BY DEF IInv, Typed, Staged, Checked, Rename, At, OpType
<1>2. Stays
  BY DEF IInv, Typed, Rename, Quiet, Stays
<1>3. IF r.err = "EEXIST" THEN Goto("compare") /\ tree' = t ELSE Ends(r)
  BY <1>1 DEF Rename
<1>4. From = Walk(t, a) /\ To = Walk(t, b)
  BY DEF From, To
<1>5. May <=> /\ From \notin {None, Root} /\ To # Root /\ IsDir(t, DirOf(t, b))
              /\ To # From => /\ From \notin Above(t, DirOf(t, b))
                              /\ To # None => /\ IsDir(t, From) = IsDir(t, To)
                                              /\ IsDir(t, To) => IsEmpty(t, To)
  BY <1>1 DEF May
<1>6. CASE From = None \/ ~IsDir(t, DirOf(t, b))
  <2>1. r = Refuse(t, "ENOENT")
    BY <1>4, <1>6 DEF Frename
  <2>2. Done("ENOENT") /\ tree' = t
    BY <1>3, <2>1 DEF Ends, Refuse
  <2>3. ~May
    BY <1>5, <1>6
  <2> QED BY <1>1, <1>2, <2>2, <2>3, Refused DEF Results
<1>7. CASE From # None /\ IsDir(t, DirOf(t, b)) /\ To # None
  <2>1. r.err = "EEXIST"
    BY <1>4, <1>7 DEF Frename, Refuse
  <2>2. Goto("compare") /\ tree' = t /\ "compare" \in Ats
    BY <1>3, <2>1 DEF Ats
  <2>3. /\ op' \in OpType /\ op'.at = "compare" /\ op'.call = op.call /\ op'.a = op.a
        /\ op'.b = op.b /\ op'.val = op.val
    BY <1>1, <2>2, GotoIs
  <2>4. SameCall
    BY <1>2, <2>3 DEF SameCall, Stays
  <2>5. From' = From /\ To' = To
    BY <2>4, SameMeaning
  <2>6. Staged'
    BY <1>1, <1>2, <2>2, <2>3 DEF Staged, Stays
  <2>7. Found'
    BY <1>2, <1>7, <2>3, <2>5 DEF Found, Stays
  <2> QED BY <1>1, <1>2, <2>2, <2>3, <2>4, <2>6, <2>7, Continued
<1>8. CASE From # None /\ IsDir(t, DirOf(t, b)) /\ To = None /\ From \in Above(t, DirOf(t, b))
  <2>1. r = Refuse(t, "EINVAL")
    BY <1>4, <1>8 DEF Frename
  <2>2. Done("EINVAL") /\ tree' = t
    BY <1>3, <2>1 DEF Ends, Refuse
  <2>3. ~May
    BY <1>5, <1>8
  <2> QED BY <1>1, <1>2, <2>2, <2>3, Refused DEF Results
<1>9. CASE From # None /\ IsDir(t, DirOf(t, b)) /\ To = None /\ From \notin Above(t, DirOf(t, b))
  <2> DEFINE u == SetEntry(SetEntry(t, DirOf(t, b), Last(b), Walk(t, a)), DirOf(t, a), Last(a), None)
  <2>1. r = Accept(u) /\ Good(u) /\ u.atime = t.atime /\ u.mtime = t.mtime
    <3>1. /\ Good(t) /\ a \in Path /\ b \in Path /\ Last(a) \in Names
          /\ Walk(t, a) \notin {None, Root} /\ Walk(t, b) = None /\ IsDir(t, DirOf(t, b))
          /\ Walk(t, a) \notin Above(t, DirOf(t, b))
          /\ u = SetEntry(SetEntry(t, DirOf(t, b), Last(b), Walk(t, a)), DirOf(t, a), Last(a), None)
      BY <1>1, <1>4, <1>9
    <3>2. r = Frename(t, a, b)
      OBVIOUS
    <3> HIDE DEF u, t, a, b, r
    <3> QED BY <3>1, <3>2, MoveIs
  <2>2. May
    BY <1>1, <1>5, <1>9
  <2>3. Effect = u
    BY <1>1, <1>4, <1>9 DEF Effect
  <2> HIDE DEF u, r
  <2>4. Done("ok") /\ tree' = u
    BY <1>3, <2>1 DEF Ends, Accept
  <2>5. Good(tree') /\ Times(tree')
    BY <1>1, <2>1, <2>4 DEF Times
  <2> QED BY <1>1, <1>2, <2>2, <2>3, <2>4, <2>5, Accepted
<1> QED BY <1>6, <1>7, <1>8, <1>9

(* What rename_locked decides from the two inodes *)
LEMMA CompareStep ==
  ASSUME IInv, Compare
  PROVE  IInv'
<1> DEFINE t == before
           a == op.a
           b == op.b
<1>1. /\ op \in OpType /\ Good(t) /\ Times(t) /\ tree = t /\ op.call = "rename" /\ op.at = "compare"
      /\ From \notin {None, Root} /\ To \notin {None, Root} /\ IsDir(t, DirOf(t, b))
      /\ Last(a) \in Names /\ a \in Path /\ b \in Path
  BY DEF IInv, Typed, Staged, Checked, Found, Compare, At, OpType
<1>2. Stays /\ tree' = t
  BY <1>1 DEF IInv, Typed, Compare, Quiet, Stays
<1>3. From = Walk(t, a) /\ To = Walk(t, b)
  BY DEF From, To
<1>4. May <=> (To # From => /\ From \notin Above(t, DirOf(t, b))
                            /\ IsDir(t, From) = IsDir(t, To)
                            /\ IsDir(t, To) => IsEmpty(t, To))
  BY <1>1 DEF May
<1>5. CASE From = To
  <2>1. Done("ok")
    BY <1>1, <1>3, <1>5 DEF Compare, SameFile
  <2>2. May /\ Effect = t
    BY <1>1, <1>4, <1>5 DEF Effect
  <2> QED BY <1>1, <1>2, <2>1, <2>2, Accepted
<1>6. CASE From # To /\ IsDir(t, From) # IsDir(t, To)
  <2>1. PICK e \in {"ENOTDIR", "EISDIR"} : Done(e)
    BY <1>1, <1>3, <1>6 DEF Compare, SameFile
  <2>2. ~May
    BY <1>4, <1>6
  <2>3. e \in Results \ {"ok", "EROFS", "EBUSY"}
    BY DEF Results
  <2> QED BY <1>1, <1>2, <2>1, <2>2, <2>3, Refused
<1>7. CASE From # To /\ IsDir(t, From) = IsDir(t, To) /\ Unreplaceable(From)
  <2>1. Done("EINVAL")
    BY <1>1, <1>3, <1>7 DEF Compare, SameFile
  <2>2. May => ~Plain(a) \/ ~Plain(b)
    <3> SUFFICES ASSUME Plain(a), Plain(b) PROVE ~May
      OBVIOUS
    <3>1. IsDir(t, From) /\ StrictDescendant(a, b)
      BY <1>1, <1>7 DEF Unreplaceable, Plain
    <3>2. b # <<>>
      BY <1>1 DEF DirOf, IsDir
    <3>3. From \in Above(t, DirOf(t, b))
      BY <1>1, <1>3, <1>7, <3>1, <3>2, DescendantIs
    <3> QED BY <1>4, <1>7, <3>3
  <2> QED BY <1>1, <1>2, <2>1, <2>2, Refused DEF Results
<1>8. CASE From # To /\ IsDir(t, From) = IsDir(t, To) /\ ~Unreplaceable(From)
  <2>1. PICK l \in {"scan", "remove"} : Goto(l) /\ (l = "scan" <=> IsDir(t, To))
    BY <1>1, <1>3, <1>8 DEF Compare, SameFile
  <2>2. l \in Ats
    BY DEF Ats
  <2>3. /\ op' \in OpType /\ op'.at = l /\ op'.call = op.call /\ op'.a = op.a
        /\ op'.b = op.b /\ op'.val = op.val
    BY <1>1, <2>1, <2>2, GotoIs
  <2>4. SameCall
    BY <1>2, <2>3 DEF SameCall, Stays
  <2>5. From' = From /\ To' = To
    BY <2>4, SameMeaning
  <2>6. Staged'
    BY <1>1, <1>2, <2>1, <2>3 DEF Staged, Stays
  <2>7. Replaceable(t, a, b)
    BY <1>1, <1>3, <1>8 DEF Replaceable, Unreplaceable, Plain
  <2>8. ~IsDir(t, To) => Droppable(t, b)
    BY <1>1, <1>3 DEF Droppable
  <2>9. Found'
    BY <1>1, <1>2, <2>1, <2>3, <2>5, <2>7, <2>8 DEF Found, Stays
  <2> QED BY <1>1, <1>2, <2>1, <2>3, <2>4, <2>6, <2>9, Continued
<1> QED BY <1>5, <1>6, <1>7, <1>8

(* The look into the directory that is to be removed *)
LEMMA ScanStep ==
  ASSUME IInv, Scan, ~ScanFaults
  PROVE  IInv'
<1> DEFINE t == before
           d == Walk(t, Target)
           at == IF ~IsDir(t, d) \/ ~IsEmpty(t, d) THEN "done" ELSE "remove"
           res == CASE ~IsDir(t, d) -> "ENOENT"
                    [] IsDir(t, d) /\ ~IsEmpty(t, d) -> "ENOTEMPTY"
                    [] OTHER -> "ok"
<1>1. /\ op \in OpType /\ Good(t) /\ tree = t /\ op.call \in {"rename", "rmdir"} /\ op.at = "scan"
      /\ op.call = "rename" => Replaceable(t, op.a, op.b) /\ IsDir(t, To)
      /\ op.call = "rmdir" => From # Root
  BY DEF IInv, Typed, Staged, Checked, Found, Scan, At
<1>2. Stays /\ tree' = t
  BY <1>1 DEF IInv, Typed, Scan, Stays
<1>3. op' = [op EXCEPT !.at = at, !.res = res]
  BY <1>1 DEF Scan
<1>4. d = IF op.call = "rename" THEN To ELSE From
  BY DEF Target, From, To
<1>5. ~IsDir(t, d) \/ ~IsEmpty(t, d) => ~May
  <2>1. CASE op.call = "rename"
    <3>1. d = To /\ To # From /\ To # None /\ IsDir(t, To)
      BY <1>1, <1>4, <2>1 DEF Replaceable, From, To, IsDir
    <3> QED BY <2>1, <3>1 DEF May
  <2>2. CASE op.call = "rmdir"
    BY <1>4, <2>2 DEF May
  <2> QED BY <1>1, <2>1, <2>2
<1>6. CASE ~IsDir(t, d)
  <2>0. at = "done" /\ res = "ENOENT"
    BY <1>6
  <2> HIDE DEF at, res
  <2>1. Done("ENOENT")
    BY <1>3, <2>0 DEF Done
  <2> QED BY <1>1, <1>2, <1>5, <1>6, <2>1, Refused DEF Results
<1>7. CASE IsDir(t, d) /\ ~IsEmpty(t, d)
  <2>0. at = "done" /\ res = "ENOTEMPTY"
    BY <1>7
  <2> HIDE DEF at, res
  <2>1. Done("ENOTEMPTY")
    BY <1>3, <2>0 DEF Done
  <2> QED BY <1>1, <1>2, <1>5, <1>7, <2>1, Refused DEF Results
<1>8. CASE IsDir(t, d) /\ IsEmpty(t, d)
  <2>0. at = "remove" /\ res = "ok"
    BY <1>8
  <2> HIDE DEF at, res
  <2>1. op' = [op EXCEPT !.at = "remove", !.res = "ok"]
    BY <1>3, <2>0
  <2>2. /\ op' \in OpType /\ op'.at = "remove" /\ op'.call = op.call /\ op'.a = op.a
        /\ op'.b = op.b /\ op'.val = op.val
    BY <1>1, <2>1 DEF OpType, Ats, Results
  <2>3. SameCall
    BY <1>2, <2>2 DEF SameCall, Stays
  <2>4. From' = From /\ To' = To
    BY <2>3, SameMeaning
  <2>5. Staged'
    BY <1>1, <1>2, <2>2 DEF Staged, Stays
  <2>6. op.call = "rename" => Droppable(t, op.b)
    BY <1>1, <1>4, <1>8 DEF Droppable, Replaceable, To
  <2>7. op.call = "rmdir" => Droppable(t, op.a) /\ IsDir(t, From)
    BY <1>1, <1>4, <1>8 DEF Droppable, From, IsDir
  <2>8. Found'
    BY <1>1, <1>2, <2>2, <2>4, <2>6, <2>7 DEF Found, Stays
  <2> QED BY <1>1, <1>2, <2>2, <2>3, <2>5, <2>8, Continued
<1> QED BY <1>6, <1>7, <1>8

(* lwext4 removes what can be dropped, and the tree is as POSIX has it. *)
LEMMA RemovedIs ==
  ASSUME NEW t, Good(t), Times(t), NEW p \in Path, Droppable(t, p)
  PROVE  /\ IsDir(t, Walk(t, p)) => DirRm(t, p) = Accept(Dropped(t, p))
         /\ ~IsDir(t, Walk(t, p)) => Fremove(t, p) = Accept(Dropped(t, p))
         /\ Good(Dropped(t, p)) /\ Times(Dropped(t, p))
<1>1. IsDir(t, Walk(t, p)) => DirRm(t, p) = Accept(Dropped(t, p))
  BY DirRmIs
<1>2. ~IsDir(t, Walk(t, p)) => Fremove(t, p) = Accept(Dropped(t, p))
  BY DEF Droppable, Fremove, Dropped
<1>3. Good(Dropped(t, p))
  BY DroppedGood
<1>4. Dropped(t, p).atime = t.atime /\ Dropped(t, p).mtime = t.mtime
  BY DroppedIs
<1> QED BY <1>1, <1>2, <1>3, <1>4 DEF Times

(* The removal of a name, for rename, rmdir and unlink *)
LEMMA RemoveTargetStep ==
  ASSUME IInv, RemoveTarget
  PROVE  IInv'
<1> DEFINE t == before
           a == op.a
           b == op.b
           r == IF IsDir(t, Walk(t, Target)) /\ op.call # "unlink" THEN DirRm(t, Target)
                ELSE Fremove(t, Target)
<1>1. /\ op \in OpType /\ Good(t) /\ Times(t) /\ tree = t /\ op.at = "remove"
      /\ op.call \in {"rename", "rmdir", "unlink"} /\ a \in Path /\ b \in Path
      /\ op.call = "rename" => Replaceable(t, a, b) /\ Droppable(t, b)
      /\ op.call = "rmdir" => Droppable(t, a) /\ IsDir(t, From)
  BY DEF IInv, Typed, Staged, Checked, Found, RemoveTarget, At, OpType
<1>2. Stays
  BY DEF IInv, Typed, RemoveTarget, Quiet, Stays
<1>3. IF op.call = "rename" THEN Then(r, "again") ELSE Ends(r)
  BY <1>1 DEF RemoveTarget
<1>4. From = Walk(t, a) /\ To = Walk(t, b) /\ \A p : Unnamed(p) = Dropped(t, p)
  BY DEF From, To, Unnamed, Dropped
<1>5. CASE op.call = "rename"
  <2>1. Target = b
    BY <1>5 DEF Target
  <2>2. r = Accept(Dropped(t, b)) /\ Good(Dropped(t, b)) /\ Times(Dropped(t, b))
    BY <1>1, <1>5, <2>1, RemovedIs
  <2> HIDE DEF r
  <2>3. Goto("again") /\ tree' = Dropped(t, b) /\ "again" \in Ats
    BY <1>3, <1>5, <2>2 DEF Then, Accept, Ats
  <2>4. /\ op' \in OpType /\ op'.at = "again" /\ op'.call = op.call /\ op'.a = op.a
        /\ op'.b = op.b /\ op'.val = op.val
    BY <1>1, <2>3, GotoIs
  <2>5. SameCall
    BY <1>2, <2>4 DEF SameCall, Stays
  <2>6. \A p : Unnamed(p)' = Unnamed(p)
    BY <2>5, SameMeaning
  <2>7. Staged'
    BY <1>5, <2>4 DEF Staged
  <2>8. Found'
    <3>1. Unnamed(op.b)' = Dropped(t, b)
      BY <1>4, <2>4, <2>5 DEF SameCall, Unnamed, Dropped
    <3> QED BY <1>1, <1>2, <1>5, <2>3, <2>4, <3>1 DEF Found, Stays
  <2> QED BY <1>1, <1>2, <2>2, <2>3, <2>4, <2>5, <2>7, <2>8, GoesOn DEF Stays
<1>6. CASE op.call = "rmdir"
  <2>1. Target = a
    BY <1>6 DEF Target
  <2>2. r = Accept(Dropped(t, a)) /\ Good(Dropped(t, a)) /\ Times(Dropped(t, a))
    BY <1>1, <1>4, <1>6, <2>1, RemovedIs
  <2> HIDE DEF r
  <2>3. Done("ok") /\ tree' = Dropped(t, a)
    BY <1>3, <1>6, <2>2 DEF Ends, Accept
  <2>4. May
    BY <1>1, <1>4, <1>6 DEF May, Droppable
  <2>5. Effect = Dropped(t, a)
    BY <1>4, <1>6 DEF Effect
  <2> QED BY <1>1, <1>2, <2>2, <2>3, <2>4, <2>5, Accepted
<1>7. CASE op.call = "unlink"
  <2>1. Target = a /\ r = Fremove(t, a)
    BY <1>7 DEF Target
  <2>2. May <=> From # None /\ ~IsDir(t, From)
    BY <1>7 DEF May
  <2>3. CASE From = None
    <3>0. Fremove(t, a) = Refuse(t, "ENOENT")
      BY <1>4, <2>3 DEF Fremove, IsDir
    <3>1. r = Refuse(t, "ENOENT")
      BY <2>1, <3>0
    <3> HIDE DEF r
    <3>2. Done("ENOENT") /\ tree' = t
      BY <1>3, <1>7, <3>1 DEF Ends, Refuse
    <3> QED BY <1>1, <1>2, <2>2, <2>3, <3>2, Refused DEF Results
  <2>4. CASE From # None /\ IsDir(t, From)
    <3>0. Fremove(t, a) = Refuse(t, "EISDIR")
      BY <1>4, <2>4 DEF Fremove
    <3>1. r = Refuse(t, "EISDIR")
      BY <2>1, <3>0
    <3> HIDE DEF r
    <3>2. Done("EISDIR") /\ tree' = t
      BY <1>3, <1>7, <3>1 DEF Ends, Refuse
    <3> QED BY <1>1, <1>2, <2>2, <2>4, <3>2, Refused DEF Results
  <2>5. CASE From # None /\ ~IsDir(t, From)
    <3>1. Droppable(t, a)
      BY <1>1, <1>4, <2>5, Fields DEF Droppable
    <3>2. r = Accept(Dropped(t, a)) /\ Good(Dropped(t, a)) /\ Times(Dropped(t, a))
      BY <1>1, <1>4, <2>1, <2>5, <3>1, RemovedIs
    <3> HIDE DEF r
    <3>3. Done("ok") /\ tree' = Dropped(t, a)
      BY <1>3, <1>7, <3>2 DEF Ends, Accept
    <3>4. Effect = Dropped(t, a)
      BY <1>4, <1>7 DEF Effect
    <3> QED BY <1>1, <1>2, <2>2, <2>5, <3>2, <3>3, <3>4, Accepted
  <2> QED BY <2>3, <2>4, <2>5
<1> QED BY <1>1, <1>5, <1>6, <1>7

(* rename_locked's second attempt *)
LEMMA RenameAgainStep ==
  ASSUME IInv, RenameAgain
  PROVE  IInv'
<1> DEFINE t == before
           a == op.a
           b == op.b
           u == Dropped(t, b)
           v == SetEntry(SetEntry(u, DirOf(u, b), Last(b), Walk(u, a)), DirOf(u, a), Last(a), None)
           r == Frename(u, a, b)
<1>1. /\ op \in OpType /\ Good(t) /\ op.at = "again" /\ op.call = "rename"
      /\ a \in Path /\ b \in Path /\ Replaceable(t, a, b) /\ Droppable(t, b)
      /\ tree = Unnamed(b) /\ Times(tree)
  BY DEF IInv, Typed, Staged, Checked, Found, RenameAgain, At, OpType
<1>2. Stays
  BY DEF IInv, Typed, RenameAgain, Quiet, Stays
<1>3. From = Walk(t, a) /\ To = Walk(t, b) /\ tree = u
  BY <1>1 DEF From, To, Unnamed, Dropped
<1>4. Ends(r)
  BY <1>3 DEF RenameAgain
<1>5. /\ Walk(t, a) \notin {None, Root} /\ Walk(t, b) \notin {None, Root} /\ Walk(t, a) # Walk(t, b)
      /\ Last(a) \in Names /\ IsDir(t, DirOf(t, b)) /\ IsDir(t, Walk(t, a)) = IsDir(t, Walk(t, b))
      /\ IsDir(t, Walk(t, b)) => IsEmpty(t, Walk(t, b))
  BY <1>1 DEF Replaceable, Droppable
<1> HIDE DEF u
<1>6. /\ Walk(t, a) \notin Above(t, DirOf(t, b))
      /\ Good(u) /\ Walk(u, a) = Walk(t, a) /\ DirOf(u, a) = DirOf(t, a) /\ DirOf(u, b) = DirOf(t, b)
      /\ Walk(u, b) = None /\ IsDir(u, DirOf(u, b)) /\ Walk(u, a) \notin Above(u, DirOf(u, b))
  BY <1>1, ReplaceIs DEF u
<1>7. May
  BY <1>1, <1>3, <1>5, <1>6 DEF May
<1>8. Effect = v
  <2>1. Unnamed(b) = u /\ From # To /\ To # None
    BY <1>1, <1>3, <1>5
  <2> QED BY <1>1, <1>3, <1>6, <2>1 DEF Effect
<1>9. r = Accept(v) /\ Good(v) /\ v.atime = u.atime /\ v.mtime = u.mtime
  <2>1. /\ Good(u) /\ a \in Path /\ b \in Path /\ Last(a) \in Names
        /\ Walk(u, a) \notin {None, Root} /\ Walk(u, b) = None /\ IsDir(u, DirOf(u, b))
        /\ Walk(u, a) \notin Above(u, DirOf(u, b))
        /\ v = SetEntry(SetEntry(u, DirOf(u, b), Last(b), Walk(u, a)), DirOf(u, a), Last(a), None)
    BY <1>1, <1>5, <1>6
  <2>2. r = Frename(u, a, b)
    OBVIOUS
  <2> HIDE DEF a, b, v, r
  <2> QED BY <2>1, <2>2, MoveIs
<1> HIDE DEF v, r
<1>10. Done("ok") /\ tree' = v
  BY <1>4, <1>9 DEF Ends, Accept
<1>11. Good(tree') /\ Times(tree')
  BY <1>1, <1>3, <1>9, <1>10 DEF Times
<1> QED BY <1>1, <1>2, <1>7, <1>8, <1>10, <1>11, Accepted

-----------------------------------------------------------------------------
(* The steps of the other calls. *)

(* link *)
LEMMA LinkStep ==
  ASSUME IInv, Link
  PROVE  IInv'
<1> DEFINE t == before
           a == op.a
           b == op.b
           r == Flink(t, a, b)
           u == SetEntry(t, DirOf(t, b), Last(b), From)
<1>1. /\ op \in OpType /\ Good(t) /\ Times(t) /\ tree = t /\ op.at = "link" /\ op.call = "link"
      /\ a \in Path /\ b \in Path
  BY DEF IInv, Typed, Staged, Link, At, OpType
<1>2. Stays
  BY DEF IInv, Typed, Link, Quiet, Stays
<1>3. Ends(r)
  BY <1>1 DEF Link
<1>4. From = Walk(t, a) /\ To = Walk(t, b)
  BY DEF From, To
<1>5. May <=> /\ From # None /\ ~IsDir(t, From)
              /\ To = None /\ IsDir(t, DirOf(t, b))
  BY <1>1 DEF May
<1>6. ASSUME NEW e \in {"ENOENT", "EINVAL", "EEXIST"}, r = Refuse(t, e), ~May PROVE IInv'
  <2>1. Done(e) /\ tree' = t
    BY <1>3, <1>6 DEF Ends, Refuse
  <2>2. e \in Results \ {"ok", "EROFS", "EBUSY"}
    BY DEF Results
  <2> QED BY <1>1, <1>2, <1>6, <2>1, <2>2, Refused
<1>7. CASE From = None \/ ~IsDir(t, DirOf(t, b))
  <2>1. r = Refuse(t, "ENOENT")
    BY <1>4, <1>7 DEF Flink
  <2> QED BY <1>5, <1>6, <1>7, <2>1
<1>8. CASE From # None /\ IsDir(t, DirOf(t, b)) /\ IsDir(t, From)
  <2>1. r = Refuse(t, "EINVAL")
    BY <1>4, <1>8 DEF Flink
  <2> QED BY <1>5, <1>6, <1>8, <2>1
<1>9. CASE From # None /\ IsDir(t, DirOf(t, b)) /\ ~IsDir(t, From) /\ To # None
  <2>1. r = Refuse(t, "EEXIST")
    BY <1>4, <1>9 DEF Flink
  <2> QED BY <1>5, <1>6, <1>9, <2>1
<1>10. CASE From # None /\ IsDir(t, DirOf(t, b)) /\ ~IsDir(t, From) /\ To = None
  <2>1. r = Accept(u)
    BY <1>4, <1>10 DEF Flink
  <2>2. /\ DirOf(t, b) \in Dirs(t) /\ Last(b) \in Names /\ t.ent[DirOf(t, b)][Last(b)] = None
    BY <1>1, <1>4, <1>10, NoStep
  <2>3. From \in Inodes /\ From \notin Dirs(t) /\ t.kind[From] # "free"
    <3>1. From # Root
      BY <1>1, <1>10, Fields
    <3>2. From \in Inodes /\ DirOf(t, a) \in Inodes /\ From \notin Dirs(t)
      BY <1>1, <1>4, <1>10, <3>1, LastStep, Fields
    <3>3. Last(a) \in Names /\ t.ent[DirOf(t, a)][Last(a)] = From
      BY <1>1, <1>4, <1>10, <3>1, <3>2, LastStep
    <3> QED BY <1>1, <1>10, <3>2, <3>3, EntriesAre
  <2>4. Effect = u
    BY <1>1 DEF Effect
  <2>5. u = SetEntry(t, DirOf(t, b), Last(b), From)
    OBVIOUS
  <2> HIDE DEF u, r
  <2>6. Done("ok") /\ tree' = u
    BY <1>3, <2>1 DEF Ends, Accept
  <2>7. Good(u) /\ u.atime = t.atime /\ u.mtime = t.mtime
    BY <1>1, <2>2, <2>3, <2>5, LinkedGood
  <2>8. Good(tree') /\ Times(tree')
    BY <1>1, <2>6, <2>7 DEF Times
  <2> QED BY <1>1, <1>2, <1>5, <1>10, <2>4, <2>6, <2>8, Accepted
<1> QED BY <1>7, <1>8, <1>9, <1>10

(* The look of unlink and mkdir for what is there *)
LEMMA ExistStep ==
  ASSUME IInv, Exist
  PROVE  IInv'
<1> DEFINE t == before
<1>1. /\ op \in OpType /\ Good(t) /\ tree = t /\ op.at = "exist" /\ op.call \in {"unlink", "mkdir"}
  BY DEF IInv, Typed, Staged, Exist, At
<1>2. Stays /\ tree' = t
  BY <1>1 DEF IInv, Typed, Exist, Quiet, Stays
<1>3. From = Walk(t, op.a)
  BY DEF From
<1>4. ASSUME NEW l \in {"remove", "make"}, Goto(l),
             l = "remove" => op.call = "unlink",
             l = "make" => op.call = "mkdir" /\ From = None
      PROVE  IInv'
  <2>1. l \in Ats
    BY DEF Ats
  <2>2. /\ op' \in OpType /\ op'.at = l /\ op'.call = op.call /\ op'.a = op.a
        /\ op'.b = op.b /\ op'.val = op.val
    BY <1>1, <1>4, <2>1, GotoIs
  <2>3. SameCall
    BY <1>2, <2>2 DEF SameCall, Stays
  <2>4. From' = From
    BY <2>3, SameMeaning
  <2>5. Staged'
    BY <1>1, <1>2, <1>4, <2>2 DEF Staged, Stays
  <2>6. Found'
    BY <1>4, <2>2, <2>4 DEF Found
  <2> QED BY <1>1, <1>2, <2>2, <2>3, <2>5, <2>6, Continued
<1>5. CASE op.call = "unlink"
  <2>1. IF IsDir(t, From) THEN Done("EISDIR") ELSE Goto("remove")
    BY <1>1, <1>3, <1>5 DEF Exist
  <2>2. CASE IsDir(t, From)
    <3>1. Done("EISDIR") /\ ~May
      BY <1>5, <2>1, <2>2 DEF May
    <3> QED BY <1>1, <1>2, <3>1, Refused DEF Results
  <2>3. CASE ~IsDir(t, From)
    BY <1>4, <1>5, <2>1, <2>3
  <2> QED BY <2>2, <2>3
<1>6. CASE op.call = "mkdir"
  <2>1. IF From # None THEN Done("EEXIST") ELSE Goto("make")
    BY <1>1, <1>3, <1>6 DEF Exist
  <2>2. CASE From # None
    <3>1. Done("EEXIST") /\ ~May
      BY <1>6, <2>1, <2>2 DEF May
    <3> QED BY <1>1, <1>2, <3>1, Refused DEF Results
  <2>3. CASE From = None
    BY <1>4, <1>6, <2>1, <2>3
  <2> QED BY <2>2, <2>3
<1> QED BY <1>1, <1>5, <1>6

(* mkdir: the directory is made, *)
LEMMA MakeDirStep ==
  ASSUME IInv, MakeDir
  PROVE  IInv'
<1> DEFINE t == before
           a == op.a
           u == DirMk(t, a).tree
           r == DirMk(t, a)
<1>1. /\ op \in OpType /\ Good(t) /\ Times(t) /\ tree = t /\ op.at = "make" /\ op.call = "mkdir"
      /\ a \in Path /\ From = None
  BY DEF IInv, Typed, Staged, Found, MakeDir, At, OpType
<1>2. Stays
  BY DEF IInv, Typed, MakeDir, Quiet, Stays
<1>3. Then(r, "mode")
  BY <1>1 DEF MakeDir
<1>4. From = Walk(t, a)
  BY DEF From
<1>5. May <=> IsDir(t, DirOf(t, a)) /\ \E i \in Inodes : t.kind[i] = "free"
  BY <1>1 DEF May
<1>6. ASSUME NEW e \in {"ENOENT", "ENOSPC"}, r = Refuse(t, e), ~May PROVE IInv'
  <2> HIDE DEF r
  <2>1. Done(e) /\ tree' = t
    BY <1>3, <1>6 DEF Then, Refuse
  <2>2. e \in Results \ {"ok", "EROFS", "EBUSY"}
    BY DEF Results
  <2> QED BY <1>1, <1>2, <1>6, <2>1, <2>2, Refused
<1>7. CASE ~IsDir(t, DirOf(t, a))
  <2>1. r = Refuse(t, "ENOENT")
    BY <1>7 DEF DirMk, Make
  <2> QED BY <1>5, <1>6, <1>7, <2>1
<1>8. CASE IsDir(t, DirOf(t, a)) /\ \A i \in Inodes : t.kind[i] # "free"
  <2>1. r = Refuse(t, "ENOSPC")
    BY <1>8 DEF DirMk, Make
  <2> QED BY <1>5, <1>6, <1>8, <2>1
<1>9. CASE IsDir(t, DirOf(t, a)) /\ \E i \in Inodes : t.kind[i] = "free"
  <2>1. /\ r = Accept(u) /\ Good(u)
        /\ \A j \in Inodes : u.atime[j] \in {0, t.atime[j]} /\ u.mtime[j] \in {0, t.mtime[j]}
    <3>1. Good(t) /\ a \in Path /\ Walk(t, a) = None
      BY <1>1, <1>4
    <3> QED BY <1>9, <3>1, MadeGood
  <2>2. u = DirMk(before, op.a).tree
    OBVIOUS
  <2> HIDE DEF r, u
  <2>3. Goto("mode") /\ tree' = u /\ "mode" \in Ats
    BY <1>3, <2>1 DEF Then, Accept, Ats
  <2>4. /\ op' \in OpType /\ op'.at = "mode" /\ op'.call = op.call /\ op'.a = op.a
        /\ op'.b = op.b /\ op'.val = op.val
    BY <1>1, <2>3, GotoIs
  <2>5. SameCall
    BY <1>2, <2>4 DEF SameCall, Stays
  <2>6. May' = May
    BY <2>5, SameMeaning
  <2>7. Staged'
    BY <1>1, <2>4 DEF Staged
  <2>8. Found'
    BY <1>1, <1>2, <1>5, <1>9, <2>2, <2>3, <2>4, <2>6 DEF Found, Stays
  <2>9. Good(tree') /\ Times(tree')
    <3>1. 0 \in 0 .. TimeMax
      BY TimeAssumption
    <3>2. \A j \in Inodes : {u.atime[j], u.mtime[j]} \subseteq 0 .. TimeMax
      BY <1>1, <2>1, <3>1 DEF Times
    <3> QED BY <2>1, <2>3, <3>2 DEF Times
  <2> QED BY <1>1, <1>2, <2>4, <2>5, <2>7, <2>8, <2>9, GoesOn DEF Stays
<1> QED BY <1>7, <1>8, <1>9

(* An attribute that is set leaves a tree, in which every path leads where it
   led. *)
LEMMA AttributeSet ==
  ASSUME NEW t, Good(t), Times(t), NEW a \in Path, Walk(t, a) # None
  PROVE  /\ Walk(t, a) \in Inodes
         /\ \A m \in Modes : LET u == [t EXCEPT !.mode[Walk(t, a)] = m]
                             IN  SetAttribute(t, a, "mode", m) = Accept(u) /\ Good(u) /\ Times(u)
         /\ \A x \in 0 .. TimeMax : LET u == [t EXCEPT !.atime[Walk(t, a)] = x]
                                    IN  /\ SetAttribute(t, a, "atime", x) = Accept(u) /\ Good(u) /\ Times(u)
                                        /\ Walk(u, a) = Walk(t, a)
         /\ \A x \in 0 .. TimeMax : LET u == [t EXCEPT !.mtime[Walk(t, a)] = x]
                                    IN  SetAttribute(t, a, "mtime", x) = Accept(u) /\ Good(u) /\ Times(u)
<1> DEFINE i == Walk(t, a)
<1>1. i \in Inodes /\ t \in TreeType /\ \A x \in 0 .. TimeMax : x \in Int
  BY WalkIs, TimeAssumption DEF Places, Good
<1>2. ASSUME NEW m \in Modes, NEW u, u = [t EXCEPT !.mode[i] = m]
      PROVE  SetAttribute(t, a, "mode", m) = Accept(u) /\ Good(u) /\ Times(u)
  <2>1. SetAttribute(t, a, "mode", m) = Accept(u)
    BY <1>2 DEF SetAttribute
  <2> HIDE DEF i
  <2>2. u \in TreeType /\ u.kind = t.kind /\ u.ent = t.ent /\ u.atime = t.atime /\ u.mtime = t.mtime
    BY <1>1, <1>2, ModeIsSet
  <2> QED BY <2>1, <2>2, SameShape DEF Times
<1>3. ASSUME NEW x \in 0 .. TimeMax, NEW u, u = [t EXCEPT !.atime[i] = x]
      PROVE  /\ SetAttribute(t, a, "atime", x) = Accept(u) /\ Good(u) /\ Times(u)
             /\ Walk(u, a) = i
  <2>1. SetAttribute(t, a, "atime", x) = Accept(u)
    BY <1>3 DEF SetAttribute
  <2>2. /\ u \in TreeType /\ u.kind = t.kind /\ u.ent = t.ent /\ u.mtime = t.mtime
        /\ \A j \in Inodes : u.atime[j] = IF j = i THEN x ELSE t.atime[j]
    <3> HIDE DEF i
    <3> QED BY <1>1, <1>3, AtimeIsSet
  <2>3. Good(u) /\ Walk(u, a) = i
    BY <2>2, SameShape
  <2>4. Times(u)
    <3> HIDE DEF i
    <3> QED BY <2>2 DEF Times
  <2> QED BY <2>1, <2>3, <2>4
<1>4. ASSUME NEW x \in 0 .. TimeMax, NEW u, u = [t EXCEPT !.mtime[i] = x]
      PROVE  SetAttribute(t, a, "mtime", x) = Accept(u) /\ Good(u) /\ Times(u)
  <2>1. SetAttribute(t, a, "mtime", x) = Accept(u)
    BY <1>4 DEF SetAttribute
  <2>2. /\ u \in TreeType /\ u.kind = t.kind /\ u.ent = t.ent /\ u.atime = t.atime
        /\ \A j \in Inodes : u.mtime[j] = IF j = i THEN x ELSE t.mtime[j]
    <3> HIDE DEF i
    <3> QED BY <1>1, <1>4, MtimeIsSet
  <2>3. Good(u)
    BY <2>2, SameShape
  <2>4. Times(u)
    <3> HIDE DEF i
    <3> QED BY <2>2 DEF Times
  <2> QED BY <2>1, <2>3, <2>4
<1> QED BY <1>1, <1>2, <1>3, <1>4

(* and given its mode. *)
LEMMA ModeSetStep ==
  ASSUME IInv, ModeSet
  PROVE  IInv'
<1> DEFINE t == before
           a == op.a
           u == DirMk(t, a).tree
           v == [u EXCEPT !.mode[Walk(u, a)] = op.val]
           r == SetAttribute(u, a, "mode", op.val)
<1>1. /\ op \in OpType /\ Good(t) /\ op.at = "mode" /\ op.call = "mkdir"
      /\ a \in Path /\ tree = u /\ Times(u) /\ May /\ op.val \in Modes
  BY DEF IInv, Typed, Staged, Checked, Found, ModeSet, At, OpType
<1>2. Stays
  BY DEF IInv, Typed, ModeSet, Quiet, Stays
<1>3. Ends(r)
  BY <1>1 DEF ModeSet
<1>4. Good(u) /\ Walk(u, a) # None
  <2>1. Walk(t, a) = None /\ IsDir(t, DirOf(t, a)) /\ \E i \in Inodes : t.kind[i] = "free"
    BY <1>1 DEF May, From
  <2> QED BY <1>1, <2>1, MadeGood
<1>5. Effect = r.tree
  BY <1>1 DEF Effect
<1>6. r = Accept(v) /\ Good(v) /\ Times(v)
  <2> HIDE DEF u
  <2> QED BY <1>1, <1>4, AttributeSet
<1> HIDE DEF r, v
<1>7. Done("ok") /\ tree' = v /\ Effect = v
  BY <1>3, <1>5, <1>6 DEF Ends, Accept
<1> QED BY <1>1, <1>2, <1>6, <1>7, Accepted

(* utime: the time of access is set, *)
LEMMA AtimeSetStep ==
  ASSUME IInv, AtimeSet
  PROVE  IInv'
<1> DEFINE t == before
           a == op.a
           u == [t EXCEPT !.atime[Walk(t, a)] = op.val]
           r == SetAttribute(t, a, "atime", op.val)
<1>1. /\ op \in OpType /\ Good(t) /\ Times(t) /\ op.at = "atime" /\ op.call = "utime"
      /\ a \in Path /\ tree = t /\ op.val \in 0 .. TimeMax
  BY DEF IInv, Typed, Staged, Checked, AtimeSet, At, OpType
<1>2. Stays
  BY DEF IInv, Typed, AtimeSet, Quiet, Stays
<1>3. Then(r, "mtime")
  BY <1>1 DEF AtimeSet
<1>4. From = Walk(t, a)
  BY DEF From
<1>5. CASE From = None
  <2>1. r = Refuse(t, "ENOENT")
    BY <1>4, <1>5 DEF SetAttribute
  <2> HIDE DEF r
  <2>2. Done("ENOENT") /\ tree' = t
    BY <1>3, <2>1 DEF Then, Refuse
  <2>3. ~May
    BY <1>1, <1>5 DEF May
  <2> QED BY <1>1, <1>2, <2>2, <2>3, Refused DEF Results
<1>6. CASE From # None
  <2>1. r = Accept(u) /\ Good(u) /\ Times(u)
    BY <1>1, <1>4, <1>6, AttributeSet
  <2>2. u = [before EXCEPT !.atime[From] = op.val]
    BY <1>4
  <2> HIDE DEF r, u
  <2>3. Goto("mtime") /\ tree' = u /\ "mtime" \in Ats
    BY <1>3, <2>1 DEF Then, Accept, Ats
  <2>4. /\ op' \in OpType /\ op'.at = "mtime" /\ op'.call = op.call /\ op'.a = op.a
        /\ op'.b = op.b /\ op'.val = op.val
    BY <1>1, <2>3, GotoIs
  <2>5. SameCall
    BY <1>2, <2>4 DEF SameCall, Stays
  <2>6. From' = From
    BY <2>5, SameMeaning
  <2>7. Staged'
    BY <1>1, <2>4 DEF Staged
  <2>8. tree' = [before' EXCEPT !.atime[From'] = op'.val]
    BY <1>2, <2>2, <2>3, <2>4, <2>6 DEF Stays
  <2>9. Found'
    BY <1>6, <2>4, <2>6, <2>8 DEF Found
  <2> QED BY <1>1, <1>2, <2>1, <2>3, <2>4, <2>5, <2>7, <2>9, GoesOn DEF Stays
<1> QED BY <1>5, <1>6

(* and then the time of modification. *)
LEMMA MtimeSetStep ==
  ASSUME IInv, MtimeSet
  PROVE  IInv'
<1> DEFINE t == before
           a == op.a
           i == Walk(t, a)
           u == [t EXCEPT !.atime[i] = op.val]
           v == [u EXCEPT !.mtime[Walk(u, a)] = op.val]
           r == SetAttribute(u, a, "mtime", op.val)
<1>1. /\ op \in OpType /\ Good(t) /\ Times(t) /\ op.at = "mtime" /\ op.call = "utime"
      /\ a \in Path /\ From # None /\ op.val \in 0 .. TimeMax /\ op.val <= TimeMax
      /\ tree = [t EXCEPT !.atime[From] = op.val]
  BY TimeAssumption DEF IInv, Typed, Staged, Checked, Found, MtimeSet, At, OpType
<1>2. Stays
  BY DEF IInv, Typed, MtimeSet, Quiet, Stays
<1>3. From = i /\ tree = u
  BY <1>1 DEF From
<1>4. Ends(r)
  BY <1>3 DEF MtimeSet
<1>5. Good(u) /\ Times(u) /\ Walk(u, a) = i
  <2>1. i # None
    BY <1>1, <1>3
  <2> QED BY <1>1, <2>1, AttributeSet
<1>6. May
  BY <1>1 DEF May
<1>7. Effect = v
  <2>1. Effect = [before EXCEPT !.atime[From] = op.val, !.mtime[From] = op.val]
    BY <1>1 DEF Effect
  <2>2. [before EXCEPT !.atime[From] = op.val, !.mtime[From] = op.val] = [u EXCEPT !.mtime[i] = op.val]
    BY <1>3
  <2> QED BY <1>5, <2>1, <2>2
<1> HIDE DEF u
<1>8. r = Accept(v) /\ Good(v) /\ Times(v)
  <2>1. Walk(u, a) # None
    BY <1>1, <1>3, <1>5
  <2> QED BY <1>1, <1>5, <2>1, AttributeSet
<1> HIDE DEF r, v
<1>9. Done("ok") /\ tree' = v
  BY <1>4, <1>8 DEF Ends, Accept
<1> QED BY <1>1, <1>2, <1>6, <1>7, <1>8, <1>9, Accepted

(* At every step of a call the tree is the old one or half done. *)
LEMMA IsHalfDone ==
  ASSUME IInv, op.at \notin {"idle", "done"}
  PROVE  tree \in HalfDone /\ (op.at \in {"again", "mode", "mtime"} => May)
<1>1. op \in OpType /\ Good(before) /\ op.a \in Path /\ op.b \in Path
  BY DEF IInv, Typed, OpType
<1>2. before \in HalfDone
  BY DEF HalfDone
<1>3. CASE op.at \notin {"again", "mode", "mtime"}
  BY <1>2, <1>3 DEF IInv, Staged
<1>4. CASE op.at = "again"
  <2>1. /\ op.call = "rename" /\ Replaceable(before, op.a, op.b) /\ Droppable(before, op.b)
        /\ tree = Unnamed(op.b)
    BY <1>4 DEF IInv, Staged, Found
  <2>2. From \notin Above(before, DirOf(before, op.b))
    BY <1>1, <2>1, ReplaceIs DEF From
  <2>3. /\ From \notin {None, Root} /\ To \notin {None, Root} /\ IsDir(before, DirOf(before, op.b))
        /\ IsDir(before, From) = IsDir(before, To) /\ (IsDir(before, To) => IsEmpty(before, To))
    BY <2>1 DEF Replaceable, Droppable, From, To
  <2>4. May
    BY <2>1, <2>2, <2>3 DEF May
  <2> QED BY <1>4, <2>1, <2>3, <2>4 DEF HalfDone
<1>5. CASE op.at = "mode"
  <2>1. op.call = "mkdir" /\ May /\ tree = DirMk(before, op.a).tree
    BY <1>5 DEF IInv, Staged, Found
  <2> QED BY <1>5, <2>1 DEF HalfDone
<1>6. CASE op.at = "mtime"
  <2>1. /\ op.call = "utime" /\ From # None /\ tree = [before EXCEPT !.atime[From] = op.val]
        /\ op.val <= TimeMax
    BY <1>6, TimeAssumption DEF IInv, Staged, Found, Checked
  <2>2. May
    BY <2>1 DEF May
  <2> QED BY <1>6, <2>1, <2>2 DEF HalfDone
<1> QED BY <1>3, <1>4, <1>5, <1>6

(* An lwext4 operation that fails *)
LEMMA OperationFailsStep ==
  ASSUME IInv, OperationFails
  PROVE  IInv'
<1>1. /\ op \in OpType /\ op.at \notin {"idle", "done"} /\ Good(tree) /\ Times(tree)
      /\ UNCHANGED <<tree, readOnly, before, calls>>
  BY DEF IInv, Typed, OperationFails, At
<1>2. faults' \in 0 .. MaxFaults
  BY BoundAssumption DEF IInv, Typed, OperationFails
<1>3. CASE op.call = "unlink" /\ op.at = "exist"
  <2>1. op' = [op EXCEPT !.at = "remove", !.hit = TRUE]
    BY <1>3 DEF OperationFails, At
  <2>2. /\ op' \in OpType /\ op'.at = "remove" /\ op'.call = op.call /\ op'.a = op.a
        /\ op'.b = op.b /\ op'.val = op.val
    BY <1>1, <2>1 DEF OpType, Ats
  <2>3. SameCall
    BY <1>1, <2>2 DEF SameCall
  <2>4. tree = before
    BY <1>3 DEF IInv, Staged
  <2>5. Staged' /\ Found'
    BY <1>1, <1>3, <2>2, <2>4 DEF Staged, Found
  <2> QED BY <1>1, <1>2, <2>2, <2>3, <2>5, GoesOn
<1>4. CASE ~(op.call = "unlink" /\ op.at = "exist")
  <2>1. op' = [op EXCEPT !.at = "done", !.res = "EIO", !.hit = TRUE]
    BY <1>4 DEF OperationFails, At
  <2>2. /\ op' \in OpType /\ op'.at = "done" /\ op'.res = "EIO" /\ op'.call = op.call /\ op'.a = op.a
        /\ op'.b = op.b /\ op'.val = op.val /\ op'.hit = TRUE
    BY <1>1, <2>1 DEF OpType, Ats, Results
  <2>3. SameCall
    BY <1>1, <2>2 DEF SameCall
  <2>4. tree \in HalfDone
    BY <1>1, IsHalfDone
  <2> QED BY <1>1, <1>2, <2>2, <2>3, <2>4, Ended
<1> QED BY <1>3, <1>4

(* A path without dots that passes for the mount root is the root. *)
LEMMA PlainRoot ==
  ASSUME NEW t, Good(t), NEW p \in Path, Plain(p), PathIsMountRoot(p)
  PROVE  Walk(t, p) = Root
<1>1. Depth(p) = 0
  BY DEF PathIsMountRoot, Depth
<1>2. ASSUME p # <<>> PROVE FALSE
  <2>1. Last(p) \in Names /\ Depth(p) = Deeper(Depth(Front(p)), Last(p)) /\ Depth(Front(p)) \in Nat
    BY <1>2, PlainIs, DepthIs, Shorter
  <2>2. Depth(p) = Depth(Front(p)) + 1
    BY <2>1, NameAssumption DEF Deeper
  <2> QED BY <1>1, <2>1, <2>2
<1> QED BY <1>2, WalkIs

(* A call begins, or is refused for its arguments. *)
LEMMA BeginStep ==
  ASSUME IInv, Begin
  PROVE  IInv'
<1> DEFINE t == tree
<1>1. /\ Good(t) /\ Times(t) /\ readOnly \in BOOLEAN /\ faults \in 0 .. MaxFaults
      /\ UNCHANGED <<tree, readOnly, faults>> /\ before' = t
  BY DEF IInv, Typed, Begin
<1>2. calls' \in 0 .. MaxCalls
  BY BoundAssumption DEF IInv, Typed, Begin
<1> DEFINE Busy(c) == \/ c.call = "rename" /\ (PathIsMountRoot(c.a) \/ PathIsMountRoot(c.b))
                      \/ c.call = "rmdir" /\ PathIsMountRoot(c.a)
           Why(c) == CASE ~Permitted(c) -> "EROFS"
                       [] Permitted(c) /\ Busy(c) -> "EBUSY"
                       [] Permitted(c) /\ TooLate(c) -> "EOVERFLOW"
                       [] OTHER -> "ok"
<1>3. PICK c \in ModelledCalls :
        op' = [call |-> c.call, a |-> c.a, b |-> c.b, val |-> c.val, hit |-> FALSE,
               at |-> IF Why(c) = "ok" THEN FirstStep[c.call] ELSE "done",
               res |-> Why(c)]
  BY DEF Begin
<1>4. /\ c \in Calls /\ c.call \in CallNames /\ c.a \in Path /\ c.b \in Path
      /\ c.call = "mkdir" => c.val \in Modes
      /\ c.call = "utime" => c.val \in Nat
      /\ c.call = "rename" => PathIsMountRoot(c.a) \/ Last(c.a) \in Names
  BY CallAssumption DEF ModelledCalls, FirstStep, CallNames
<1>5. Why(c) \in {"ok", "EROFS", "EBUSY", "EOVERFLOW"}
  OBVIOUS
<1>6. FirstStep[c.call] = CASE c.call = "rename" -> "rename" [] c.call = "link" -> "link"
                            [] c.call \in {"unlink", "mkdir"} -> "exist"
                            [] c.call = "rmdir" -> "scan" [] c.call = "utime" -> "atime"
  BY <1>4 DEF FirstStep, CallNames
<1>7. /\ Why(c) = "EBUSY" => Busy(c)
      /\ Why(c) = "EOVERFLOW" => TooLate(c) /\ ~Busy(c)
      /\ Why(c) = "ok" => ~Busy(c) /\ ~TooLate(c)
  <2> DEFINE P == Permitted(c)
             B == Busy(c)
             L == TooLate(c)
  <2>1. /\ Why(c) = CASE ~P -> "EROFS" [] P /\ B -> "EBUSY" [] P /\ L -> "EOVERFLOW" [] OTHER -> "ok"
        /\ P \in BOOLEAN /\ B \in BOOLEAN /\ L \in BOOLEAN
        /\ ~(B /\ L)
    BY <1>1 DEF Permitted, TooLate
  <2> HIDE DEF P, B, L, Why
  <2>2. CASE ~P
    BY <2>1, <2>2
  <2>3. CASE P /\ B
    <3>1. Why(c) = "EBUSY"
      BY <2>1, <2>3
    <3> QED BY <2>3, <3>1 DEF B
  <2>4. CASE P /\ ~B /\ L
    <3>1. Why(c) = "EOVERFLOW"
      BY <2>1, <2>4
    <3> QED BY <2>4, <3>1 DEF B, L
  <2>5. CASE P /\ ~B /\ ~L
    <3>1. Why(c) = "ok"
      BY <2>1, <2>5
    <3> QED BY <2>5, <3>1 DEF B, L
  <2> QED BY <2>1, <2>2, <2>3, <2>4, <2>5
<1> DEFINE at == IF Why(c) = "ok" THEN FirstStep[c.call] ELSE "done"
           res == Why(c)
<1>8. at \in Ats /\ res \in Results /\ c.val \in Vals
  BY <1>4, <1>5, <1>6 DEF Ats, Results, Vals, CallNames
<1>9. /\ op' \in OpType /\ op'.call = c.call /\ op'.a = c.a /\ op'.b = c.b /\ op'.val = c.val
      /\ op'.at = at /\ op'.res = res /\ op'.hit = FALSE
  <2>1. op' = [call |-> c.call, a |-> c.a, b |-> c.b, val |-> c.val, hit |-> FALSE,
               at |-> at, res |-> res]
    BY <1>3
  <2> HIDE DEF at, res
  <2> QED BY <1>4, <1>8, <2>1 DEF OpType
<1>10. Typed'
  BY <1>1, <1>2, <1>9 DEF Typed
<1>11. From' = Walk(t, c.a) /\ To' = Walk(t, c.b) /\ before' = t /\ tree' = t
  BY <1>1, <1>9 DEF From, To
<1>12. /\ Walk(t, c.a) = Root => PathIsMountRoot(c.a)
       /\ Walk(t, c.b) = Root => PathIsMountRoot(c.b)
       /\ PathIsMountRoot(c.a) => Walk(t, c.a) \in {None, Root}
       /\ PathIsMountRoot(c.b) => Walk(t, c.b) \in {None, Root}
       /\ PathIsMountRoot(c.b) /\ Plain(c.b) => Walk(t, c.b) = Root
  BY <1>1, <1>4, MountRootIs, PlainRoot
<1> HIDE DEF Why
<1>13. CASE Why(c) = "ok"
  <2>1. op'.at = FirstStep[c.call]
    BY <1>9, <1>13
  <2>2. ~Busy(c) /\ ~TooLate(c)
    BY <1>7, <1>13
  <2>3. /\ c.call = "rename" => /\ Walk(t, c.a) # Root /\ Walk(t, c.b) # Root /\ Last(c.a) \in Names
        /\ c.call = "rmdir" => Walk(t, c.a) # Root
    BY <1>4, <1>12, <2>2
  <2>4. c.call = "utime" => c.val \in 0 .. TimeMax
    BY <1>4, <2>2, TimeAssumption DEF TooLate
  <2>5. Checked'
    BY <1>4, <1>9, <1>11, <2>3, <2>4 DEF Checked
  <2>6. op'.at \in {"rename", "link", "exist", "scan", "atime"}
    BY <1>4, <1>6, <2>1 DEF CallNames
  <2>7. Staged'
    BY <1>4, <1>6, <1>9, <1>11, <2>1, <2>6 DEF Staged, CallNames
  <2>8. Found'
    <3>1. op'.at = "scan" => op'.call = "rmdir"
      BY <1>4, <1>6, <1>9, <2>1 DEF CallNames
    <3> QED BY <2>6, <3>1 DEF Found
  <2>9. Over'
    BY <2>6 DEF Over
  <2> QED BY <1>10, <2>5, <2>7, <2>8, <2>9 DEF IInv
<1>14. CASE Why(c) # "ok"
  <2>1. op'.at = "done" /\ op'.res = Why(c) /\ op'.res # "ok"
    BY <1>9, <1>14
  <2>2. Checked' /\ Staged' /\ Found'
    BY <2>1 DEF Checked, Staged, Found
  <2>3. (tree \in HalfDone)'
    BY <1>11 DEF HalfDone
  <2>4. ASSUME Why(c) = "EBUSY", Plain(c.a), Plain(c.b) PROVE ~May'
    <3>1. Busy(c)
      BY <1>7, <2>4
    <3>2. CASE c.call = "rename"
      BY <1>9, <1>11, <1>12, <2>4, <3>1, <3>2 DEF May
    <3>3. CASE c.call = "rmdir"
      BY <1>9, <1>11, <1>12, <3>1, <3>3 DEF May, IsDir
    <3> QED BY <3>1, <3>2, <3>3
  <2>5. ASSUME Why(c) = "EOVERFLOW" PROVE ~May'
    <3>1. c.call = "utime" /\ c.val > TimeMax /\ c.val \in Nat /\ TimeMax \in Nat
      BY <1>4, <1>7, <2>5, TimeAssumption DEF TooLate
    <3>2. ~(c.val <= TimeMax)
      BY <3>1
    <3> QED BY <1>9, <3>1, <3>2 DEF May
  <2>6. PosixOutcome'
    BY <1>5, <1>9, <1>11, <2>1, <2>4, <2>5 DEF PosixOutcome, At, Plain
  <2>7. RootIsBusy'
    BY <1>5, <1>7, <1>9, <1>11, <1>12, <2>1 DEF RootIsBusy, At
  <2>8. Over'
    BY <2>1, <2>3, <2>6, <2>7 DEF Over
  <2> QED BY <1>10, <2>2, <2>8 DEF IInv
<1> QED BY <1>13, <1>14

(* A call that is over returns. *)
LEMMA ReturnStep ==
  ASSUME IInv, Return
  PROVE  IInv'
<1>1. NoCall \in OpType /\ NoCall.at = "idle"
  <2>1. <<>> \in Path /\ None \in Vals
    BY DEF Path, Vals
  <2> DEFINE p == <<>>
  <2>2. p \in Path /\ NoCall = [call |-> "none", a |-> p, b |-> p, val |-> None, at |-> "idle",
                                res |-> "ok", hit |-> FALSE]
    BY <2>1 DEF NoCall
  <2> HIDE DEF p
  <2> QED BY <2>1, <2>2 DEF OpType, Ats, Results
<1>2. Typed'
  BY <1>1 DEF IInv, Typed, Return
<1>3. op'.at = "idle" /\ before' = tree'
  BY <1>1 DEF Return
<1>4. Staged' /\ Checked' /\ Found' /\ Over'
  BY <1>3 DEF Staged, Checked, Found, Over
<1> QED BY <1>2, <1>4 DEF IInv

(* A mounted tree is a good one. *)
LEMMA Initially ==
  ASSUME Init
  PROVE  IInv
<1>1. NoCall \in OpType /\ NoCall.at = "idle"
  <2>1. <<>> \in Path /\ None \in Vals
    BY DEF Path, Vals
  <2> DEFINE p == <<>>
  <2>2. p \in Path /\ NoCall = [call |-> "none", a |-> p, b |-> p, val |-> None, at |-> "idle",
                                res |-> "ok", hit |-> FALSE]
    BY <2>1 DEF NoCall
  <2> HIDE DEF p
  <2> QED BY <2>1, <2>2 DEF OpType, Ats, Results
<1>2. Good(tree) /\ Times(tree)
  BY MountAssumption DEF Init, Good, Times
<1>3. 0 \in 0 .. MaxFaults /\ 0 \in 0 .. MaxCalls
  BY BoundAssumption
<1>4. Typed
  BY <1>1, <1>2, <1>3 DEF Init, Typed
<1>5. op.at = "idle" /\ tree = before
  BY <1>1 DEF Init
<1>6. Staged /\ Checked /\ Found /\ Over
  BY <1>5 DEF Staged, Checked, Found, Over
<1> QED BY <1>4, <1>6 DEF IInv

(* Nothing that IInv speaks of changes in a stuttering step. *)
LEMMA Stutters ==
  ASSUME IInv, UNCHANGED vars
  PROVE  IInv'
<1>1. UNCHANGED <<tree, readOnly, op, before, calls, faults>>
  BY DEF vars
<1>2. From' = From /\ To' = To /\ May' = May /\ Effect' = Effect /\ HalfDone' = HalfDone
      /\ \A p : Unnamed(p)' = Unnamed(p)
  BY <1>1, SameMeaning DEF IInv, Typed, SameCall
<1>3. Typed' /\ Staged' /\ Checked'
  BY <1>1, <1>2 DEF IInv, Typed, Staged, Checked
<1>4. Found'
  <2>1. Unnamed(op.b)' = Unnamed(op.b)
    BY <1>1 DEF Unnamed
  <2> QED BY <1>1, <1>2, <2>1 DEF IInv, Found
<1>5. PosixOutcome' /\ RootIsBusy' <=> PosixOutcome /\ RootIsBusy
  BY <1>1, <1>2 DEF PosixOutcome, RootIsBusy, At
<1>6. Over'
  BY <1>1, <1>2, <1>5 DEF IInv, Over
<1> QED BY <1>3, <1>4, <1>6 DEF IInv

(* Every step of a call keeps the invariant. *)
LEMMA Step ==
  ASSUME IInv, [Next]_vars, ~ScanFaults
  PROVE  IInv'
<1>1. CASE Begin           BY <1>1, BeginStep
<1>2. CASE Return          BY <1>2, ReturnStep
<1>3. CASE Rename          BY <1>3, RenameStep
<1>4. CASE Compare         BY <1>4, CompareStep
<1>5. CASE Scan            BY <1>5, ScanStep
<1>6. CASE RemoveTarget    BY <1>6, RemoveTargetStep
<1>7. CASE RenameAgain     BY <1>7, RenameAgainStep
<1>8. CASE Link            BY <1>8, LinkStep
<1>9. CASE Exist           BY <1>9, ExistStep
<1>10. CASE MakeDir        BY <1>10, MakeDirStep
<1>11. CASE ModeSet        BY <1>11, ModeSetStep
<1>12. CASE AtimeSet       BY <1>12, AtimeSetStep
<1>13. CASE MtimeSet       BY <1>13, MtimeSetStep
<1>14. CASE OperationFails BY <1>14, OperationFailsStep
<1>15. CASE UNCHANGED vars BY <1>15, Stutters
<1> QED BY <1>1, <1>2, <1>3, <1>4, <1>5, <1>6, <1>7, <1>8, <1>9, <1>10, <1>11, <1>12, <1>13, <1>14,
           <1>15 DEF Next

-----------------------------------------------------------------------------
(* The theorems: a directory's entries can be read. *)

(* The invariant is inductive. *)
THEOREM Inductive ==
  ASSUME ~ScanFaults
  PROVE  Spec => []IInv
<1>1. Init => IInv
  BY Initially
<1>2. IInv /\ [Next]_vars => IInv'
  BY Step
<1> QED BY <1>1, <1>2, PTL DEF Spec

(* The tree is well formed at every step of every call: each inode in use is
   reached from the root, and each directory by exactly one name; and times fit
   lwext4's 32 bits. *)
THEOREM TypeCorrect ==
  ASSUME ~ScanFaults
  PROVE  Spec => []TypeOK
<1>1. IInv => TypeOK
  BY DEF IInv, Typed, TypeOK, Good, Times, OpType, Ats
<1> QED BY <1>1, Inductive, PTL

(* A call that reports success did exactly what POSIX says, and the calls
   refuse, when no operation of lwext4 fails, only what POSIX refuses. *)
THEOREM Outcome ==
  ASSUME ~ScanFaults
  PROVE  Spec => []PosixOutcome
<1>1. IInv => PosixOutcome
  BY DEF IInv, Over, PosixOutcome, At
<1> QED BY <1>1, Inductive, PTL

(* A power loss or a failure at any step leaves the old tree, the new one, or
   the half-done one that is said: never a rename's source lost. *)
THEOREM CutShort ==
  ASSUME ~ScanFaults
  PROVE  Spec => []OnlyHalfDone
<1>1. IInv => OnlyHalfDone
  <2> SUFFICES ASSUME IInv PROVE OnlyHalfDone
    OBVIOUS
  <2>1. CASE op.at = "done"
    BY <2>1 DEF IInv, Over, OnlyHalfDone, At
  <2>2. CASE op.at \notin {"idle", "done"}
    BY <2>2, IsHalfDone DEF OnlyHalfDone, At
  <2>3. CASE op.at = "idle"
    BY <2>3 DEF OnlyHalfDone, At
  <2> QED BY <2>1, <2>2, <2>3
<1> QED BY <1>1, Inductive, PTL

(* The lexical test for the mount root refuses the root, by whatever path, and
   nothing else. *)
THEOREM RootRefused ==
  ASSUME ~ScanFaults
  PROVE  Spec => []RootIsBusy
<1>1. IInv => RootIsBusy
  BY DEF IInv, Over, RootIsBusy, At
<1> QED BY <1>1, Inductive, PTL

-----------------------------------------------------------------------------
(* What a step frees. *)

Freed == {i \in Inodes : tree.kind[i] # "free" /\ tree'.kind[i] = "free"}

(* Renaming frees nothing. *)
LEMMA RenameFrees ==
  ASSUME NEW t, t \in TreeType, NEW a, NEW b
  PROVE  Frename(t, a, b).tree.kind = t.kind
<1>1. \A u \in TreeType : \A d, n, i : SetEntry(u, d, n, i).kind = u.kind
  BY DEF SetEntry, TreeType
<1>2. \A d, n, i, e, m, j : SetEntry(SetEntry(t, d, n, i), e, m, j).kind = t.kind
  BY DEF SetEntry, TreeType
<1>3. \A d, n, i, e, m, j : Accept(SetEntry(SetEntry(t, d, n, i), e, m, j)).tree.kind = t.kind
  BY <1>2 DEF Accept
<1>4. \A e : Refuse(t, e).tree.kind = t.kind
  BY DEF Refuse
<1> QED BY <1>3, <1>4 DEF Frename

(* What rmdir and rename remove is one inode at most. *)
LEMMA RemoveFrees ==
  ASSUME IInv, RemoveTarget, op.call \in {"rmdir", "rename"}
  PROVE  \E i : Freed \subseteq {i}
<1> DEFINE t == before
           p == Target
<1>1. /\ Good(t) /\ Times(t) /\ tree = t /\ p \in Path /\ Droppable(t, p)
  BY DEF IInv, Typed, Staged, Found, RemoveTarget, At, OpType, Target
<1>2. tree' = Dropped(t, p)
  <2> DEFINE r == IF IsDir(t, Walk(t, p)) /\ op.call # "unlink" THEN DirRm(t, p) ELSE Fremove(t, p)
  <2>1. tree' = r.tree
    BY <1>1 DEF RemoveTarget, Then, Ends
  <2>2. op.call # "unlink"
    OBVIOUS
  <2>3. r = Accept(Dropped(t, p))
    <3> HIDE DEF p
    <3> QED BY <1>1, <2>2, RemovedIs
  <2> HIDE DEF r
  <2> QED BY <2>1, <2>3 DEF Accept
<1> DEFINE u == Dropped(t, p)
           i == Walk(t, p)
<1>3. \A j \in Inodes : j # i => u.kind[j] = t.kind[j]
  <2>1. u = Dropped(t, p) /\ i = Walk(t, p)
    OBVIOUS
  <2> HIDE DEF u, i, p
  <2> QED BY <1>1, <2>1, DroppedIs
<1>4. Freed \subseteq {i}
  <2>0. tree' = u
    BY <1>2
  <2> HIDE DEF u, i, p, t
  <2> QED BY <1>1, <1>3, <2>0 DEF Freed
<1> QED BY <1>4

(* The other steps of rmdir and rename free nothing. *)
LEMMA OtherFrees ==
  ASSUME IInv, [Next]_vars, ~RemoveTarget, op.call \in {"rmdir", "rename"}
  PROVE  Freed = {}
<1>1. tree \in TreeType /\ op.at \notin {"link", "exist", "make", "mode", "atime", "mtime"}
  BY DEF IInv, Typed, Staged, Good
<1>2. ASSUME UNCHANGED tree PROVE Freed = {}
  BY <1>2 DEF Freed
<1>3. ASSUME Rename \/ RenameAgain PROVE UNCHANGED tree \/ tree' = Frename(tree, op.a, op.b).tree
  BY <1>3 DEF Rename, RenameAgain, Ends
<1>4. ASSUME Rename \/ RenameAgain PROVE Freed = {}
  BY <1>1, <1>2, <1>3, <1>4, RenameFrees DEF Freed
<1>5. ASSUME Begin \/ Return \/ Compare \/ Scan \/ OperationFails \/ UNCHANGED vars PROVE UNCHANGED tree
  BY <1>5 DEF Begin, Return, Compare, Scan, OperationFails, vars
<1>6. ~(Link \/ Exist \/ MakeDir \/ ModeSet \/ AtimeSet \/ MtimeSet)
  BY <1>1 DEF Link, Exist, MakeDir, ModeSet, AtimeSet, MtimeSet, At
<1> QED BY <1>2, <1>4, <1>5, <1>6 DEF Next

(* rmdir, and the removal of rename's target, are not recursive: a step frees
   one inode at most, although ext4_dir_rm removes whatever is in a directory. *)
THEOREM RemovesOne ==
  ASSUME ~ScanFaults
  PROVE  Spec => NotRecursive
<1>1. ASSUME IInv, [Next]_vars, op.call \in {"rmdir", "rename"}
      PROVE  Cardinality(Freed) <= 1
  <2>1. PICK i : Freed \subseteq {i}
    <3>1. CASE RemoveTarget
      BY <1>1, <3>1, RemoveFrees
    <3>2. CASE ~RemoveTarget
      BY <1>1, <3>2, OtherFrees
    <3> QED BY <3>1, <3>2
  <2>2. IsFiniteSet({i}) /\ Cardinality({i}) = 1
    BY FS_Singleton
  <2>3. Cardinality(Freed) <= Cardinality({i})
    BY <2>1, <2>2, FS_Subset
  <2> QED BY <2>2, <2>3
<1>2. IInv /\ [Next]_vars =>
        [op.call \in {"rmdir", "rename"} =>
           Cardinality({i \in Inodes : tree.kind[i] # "free" /\ tree'.kind[i] = "free"}) <= 1]_vars
  BY <1>1 DEF Freed
<1> QED BY <1>2, Inductive, PTL DEF Spec, NotRecursive
=============================================================================
