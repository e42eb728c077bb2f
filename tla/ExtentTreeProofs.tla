--------------------------- MODULE ExtentTreeProofs ---------------------------
(***************************************************************************)
(* Proofs about ExtentTree, for trees of any size and shape.               *)
(***************************************************************************)
EXTENDS ExtentLemmas, FiniteSetTheorems, SequenceTheorems, WellFoundedInduction, TLAPS

-----------------------------------------------------------------------------
(* The states between two steps. *)

(* the map lookups answer while the tree is whole and the operation has changed
   nothing, or has cleared everything below its cursor *)
Base(vw, o) == IF o.kind = "get" THEN vw ELSE Clear(vw, o, o.from)

CalmPcs == {"alloc", "insert", "room", "remove", "leaffree"} \cup GrowPcs \cup SplitPcs

Calm(nd, R, fr, vw, o) ==
    /\ Tree(nd, R) /\ Neat(nd, R, {}) /\ Owned(R, fr, Loose(o), Base(vw, o))
    /\ \A l \in LBlocks : Lookup(nd, l) = Base(vw, o)[l]

(* How the caller's map may change in a step of operation o. *)
Took(vw, o, x) ==
    \/ x = vw
    \/ o.kind = "get" /\ GetNumbers(vw, o) /\ o.cnt = o.hi - o.lo + 1 /\ x = Filled(vw, o)
    \/ o.kind = "remove" /\ o.lo \in LBlocks /\ o.hi \in LBlocks /\ x = Clear(vw, o, o.hi + 1)

(* A state that may follow one with view vw and operation o. *)
Onward(vw, o, nd, fr, x, q) ==
    Typed(nd, fr, q) /\ Took(vw, o, x) /\ \E R \in SUBSET Places : Fits(nd, R, fr, x, q)

(* Step's change of the view. *)
Seen(vw, nd, o) == IF Returned(o) THEN MapOf(nd) ELSE vw

(* In the states where the tree is plain, Busy says just this. *)
LEMMA CalmIs ==
  ASSUME NEW nd, NEW R, NEW fr, NEW vw, NEW o, o.pc \in CalmPcs
  PROVE  /\ Busy(nd, R, fr, vw, o) => Calm(nd, R, fr, vw, o)
         /\ o.kind \in {"get", "remove"} /\ Numbers(nd, vw, o) /\ PathKept(nd, R, o) /\ Calm(nd, R, fr, vw, o)
               => Busy(nd, R, fr, vw, o)
<1>1. o.pc \notin {"fix", "index", "indexfree", "middlefree", "leafput", "splitleft"}
  BY DEF CalmPcs, GrowPcs, SplitPcs
<1>2. Odd(nd, o) = {} /\ Whole(nd, o) = nd
  BY <1>1 DEF Odd, Whole
<1>3. Target(vw, o) = Base(vw, o) /\ Kept(vw, o) = Base(vw, o)
  BY <1>1 DEF Target, Kept, Base
<1> HIDE <1>1
<1> QED BY <1>2, <1>3 DEF Busy, Calm

(* What lookups should answer differs from the view only in the operation's
   range. *)
LEMMA TargetKept ==
  ASSUME NEW vw, NEW o, NEW l \in LBlocks \ (o.lo .. o.hi)
  PROVE  Target(vw, o)[l] = vw[l] /\ Filled(vw, o)[l] = vw[l] /\ \A x : Clear(vw, o, x)[l] = vw[l]
<1>1. Filled(vw, o)[l] = vw[l] /\ \A x : Clear(vw, o, x)[l] = vw[l]
  BY DEF Filled, Clear
<1> QED BY <1>1 DEF Target

(* The fields of an operation. *)
LEMMA OpIs ==
  ASSUME NEW o \in Ops
  PROVE  /\ o.pc \in Pcs /\ o.kind \in {"none", "get", "remove"} /\ o.lo \in LBlocks /\ o.lo \in Int /\ o.hi \in Nat
         /\ o.from \in Nat /\ o.cut \in Nat /\ o.first \in Nat /\ o.cnt \in Nat /\ o.goal \in Nat
         /\ o.path \in Seq(PathSteps) /\ o.lvl \in Nat /\ o.key \in LBlocks /\ o.fresh \in SUBSET Blocks
         /\ o.tries \in Nat /\ o.res \in Errors
BY Width DEF Ops

(* Data blocks of the operation are blocks. *)
LEMMA OpBlocksIs ==
  ASSUME NEW o \in Ops, NEW nd, NEW vw, Numbers(nd, vw, o)
  PROVE  OpBlocks(o) \subseteq Blocks
<1>1. CASE o.kind = "get"
  <2>1. /\ o.first \in Nat /\ o.cnt \in Nat /\ NBlocks \in Nat
        /\ o.first + o.cnt - 1 <= NBlocks /\ (o.cnt > 0 => o.first \in Blocks)
    BY <1>1, OpIs, SizeAssumption DEF Numbers, GetNumbers
  <2>2. OpBlocks(o) = o.first .. o.first + o.cnt - 1
    BY <1>1 DEF OpBlocks
  <2> QED BY <2>1, <2>2 DEF Blocks
<1>2. CASE o.kind # "get"
  BY <1>2 DEF OpBlocks
<1> QED BY <1>1, <1>2

(* An operation in progress fits when it is Busy. *)
LEMMA BusyFits ==
  ASSUME NEW nd, NEW R, NEW fr, NEW vw, NEW o, o.pc \in LivePcs, Busy(nd, R, fr, vw, o)
  PROVE  Fits(nd, R, fr, vw, o)
<1>1. o.pc # "idle" /\ o.pc # "done" /\ o.pc # "undo"
  BY DEF LivePcs, GetPcs, RemovePcs, GrowPcs, SplitPcs, LeafPcs
<1>2. OthersKept(nd, vw, o)
  BY TargetKept DEF OthersKept, Busy
<1> QED BY <1>1, <1>2 DEF Fits, Returned

(* ... and goes on. *)
LEMMA LiveOn ==
  ASSUME NEW vw, NEW o, NEW nd, NEW R \in SUBSET Places, NEW fr, NEW x, NEW q, Typed(nd, fr, q),
         q.pc \in LivePcs, Busy(nd, R, fr, vw, q), x = Seen(vw, nd, q)
  PROVE  Onward(vw, o, nd, fr, x, q)
<1>1. q.pc # "done"
  BY DEF LivePcs, GetPcs, RemovePcs, GrowPcs, SplitPcs, LeafPcs
<1>2. x = vw
  BY <1>1 DEF Seen, Returned
<1>3. Fits(nd, R, fr, vw, q)
  BY BusyFits
<1> QED BY <1>2, <1>3 DEF Onward, Took

(* An operation that failed. *)
LEMMA FailOn ==
  ASSUME NEW vw, NEW o \in Ops, NEW nd, NEW fr, NEW x, NEW q, NEW r \in Errors \ {"EOK"}, q = Fail(o, r),
         nd \in [Places -> Nodes], fr \in SUBSET Blocks, \E b : o.fresh \subseteq {b},
         OthersKept(nd, vw, o), OpBlocks(o) \subseteq Blocks, x = Seen(vw, nd, q)
  PROVE  Onward(vw, o, nd, fr, x, q)
<1>1. q.pc = "undo" /\ q.res = r /\ q.lo = o.lo /\ q.hi = o.hi /\ q.kind = o.kind /\ q.first = o.first /\ q.cnt = o.cnt
      /\ q.fresh = o.fresh
  BY DEF Fail, Ops
<1>2. q \in Ops
  BY Zenon DEF Fail, Ops, Pcs
<1>3. x = vw
  BY <1>1 DEF Seen, Returned
<1>4. OthersKept(nd, vw, q) /\ OpBlocks(q) = OpBlocks(o)
  BY <1>1 DEF OthersKept, OpBlocks
<1>5. Fits(nd, {}, fr, vw, q)
  BY <1>1, <1>4 DEF Fits, Returned, LivePcs, GetPcs, RemovePcs, GrowPcs, SplitPcs, LeafPcs
<1> QED BY <1>1, <1>2, <1>3, <1>5 DEF Onward, Took, Typed

(* An operation that returned success. *)
LEMMA DoneOn ==
  ASSUME NEW vw, NEW o, NEW nd, NEW R \in SUBSET Places, NEW fr, NEW x, NEW q, Typed(nd, fr, q),
         q.pc = "done", q.res = "EOK", Tree(nd, R), Neat(nd, R, {}), NEW m, Owned(R, fr, {}, m),
         \A l \in LBlocks : Lookup(nd, l) = m[l], Took(vw, o, m), q.kind = "get" => Answered(nd, R, q),
         x = Seen(vw, nd, q)
  PROVE  Onward(vw, o, nd, fr, x, q)
<1>1. Returned(q) /\ x = MapOf(nd)
  BY DEF Returned, Seen
<1>2. m \in [LBlocks -> Blocks \cup {Hole}]
  BY DEF Owned, AllMaps
<1>3. MapOf(nd) = m
  <2>1. m = [l \in LBlocks |-> m[l]]
    BY <1>2
  <2> QED BY <2>1 DEF MapOf
<1>4. Sound(nd, R, fr, m)
  BY DEF Sound
<1>5. Fits(nd, R, fr, m, q)
  BY <1>1, <1>4 DEF Fits, LivePcs, GetPcs, RemovePcs, GrowPcs, SplitPcs, LeafPcs
<1> QED BY <1>1, <1>3, <1>5 DEF Onward

-----------------------------------------------------------------------------
(* Writing one node. *)

(* EXCEPT writes one node. *)
LEMMA PutIs ==
  ASSUME NEW nd \in [Places -> Nodes], NEW b \in Places, NEW n \in Nodes, NEW md, md = [nd EXCEPT ![b] = n]
  PROVE  Put(nd, b, n, md)
BY DEF Put

(* Write: the step goes on, or fails with the block written or not. *)
LEMMA WriteOn ==
  ASSUME Typed(node, free, op), OpBlocks(op) \subseteq Blocks, UNCHANGED free, view' = Seen(view, node', op'),
         OthersKept(node, view, op), NEW b \in Places, NEW n \in Nodes, NEW md, md = [node EXCEPT ![b] = n],
         OthersKept(md, view, op), NEW o, Write(b, n, o), Onward(view, op, md, free, Seen(view, md, o), o)
  PROVE  Onward(view, op, node', free', view', op')
<1>1. md \in [Places -> Nodes] /\ node \in [Places -> Nodes] /\ free \in SUBSET Blocks /\ op \in Ops /\ \E c : op.fresh \subseteq {c}
  BY DEF Typed
<1>2. CASE node' = md /\ op' = o
  BY <1>2
<1>3. CASE node' \in {node, md} /\ op' = Fail(op, "EIO")
  <2>1. "EIO" \in Errors \ {"EOK"}
    BY DEF Errors
  <2>2. node' \in [Places -> Nodes] /\ free' \in SUBSET Blocks /\ OthersKept(node', view, op)
    BY Zenon, <1>1, <1>3
  <2> QED BY <1>1, <1>3, <2>1, <2>2, FailOn
<1> QED BY <1>2, <1>3 DEF Write

-----------------------------------------------------------------------------
(* get_blocks enters its run. *)

RunOf(o) == [first |-> o.lo, len |-> o.cnt, start |-> o.first, unwritten |-> FALSE]

(* get_blocks is about to insert its run. *)
Ready(nd, R, fr, vw, o) ==
    /\ o \in Ops /\ o.kind = "get" /\ o.pc \in {"insert", "room"} /\ o.fresh = {} /\ o.res = "EOK"
    /\ o.lo \in LBlocks /\ o.hi \in LBlocks /\ GetNumbers(vw, o) /\ Calm(nd, R, fr, vw, o)

(* The run is a good extent where nothing is mapped. *)
LEMMA RunOfIs ==
  ASSUME NEW nd, NEW R, NEW fr, NEW vw, NEW o, Ready(nd, R, fr, vw, o), NEW e, e = RunOf(o)
  PROVE  /\ Good(e) /\ e.first = o.lo /\ o.lo \in Int /\ End64(e) - 1 = o.hi /\ o.cnt = o.hi - o.lo + 1 /\ o.lo <= o.hi
         /\ o.first \in Nat /\ o.cnt \in Nat
         /\ \A l, v : Sends(e, l, v) <=> l \in o.lo .. o.hi /\ v = o.first + (l - o.lo)
         /\ \A l \in o.lo .. o.hi : Lookup(nd, l) = Hole
         /\ \A b \in R : nd[b].depth = 0 => Vacant(nd[b], o.lo, End64(e) - 1)
<1>1. /\ o.lo \in Int /\ o.hi \in Int /\ o.first \in Nat /\ o.cnt \in Nat /\ o.lo \in LBlocks /\ o.hi \in LBlocks
      /\ LBlocks = 0 .. LastLBlock /\ LastLBlock \in Nat /\ NBlocks \in Nat /\ MaxLen \in Nat
  BY Width, OpIs, SizeAssumption DEF Ready
<1>2. /\ o.lo <= o.hi /\ o.hi < LastLBlock /\ o.hi - o.lo + 1 <= MaxLen
      /\ o.first + o.cnt - 1 <= NBlocks /\ o.cnt = o.hi - o.lo + 1 /\ (o.cnt > 0 => o.first \in Blocks)
      /\ \A l \in o.lo .. o.hi : vw[l] = Hole
  BY DEF Ready, GetNumbers
<1>3. /\ e.first = o.lo /\ e.len = o.cnt /\ e.start = o.first /\ e.unwritten = FALSE
      /\ e = [first |-> e.first, len |-> e.len, start |-> e.start, unwritten |-> e.unwritten]
  BY DEF RunOf
<1> DEFINE a == o.lo
           z == o.hi
           c == o.cnt
           f == o.first
<1>4. /\ a \in Int /\ z \in Int /\ c \in Int /\ f \in Int /\ a <= z /\ c = z - a + 1 /\ c <= MaxLen /\ c >= 1
      /\ f \in Blocks /\ z < LastLBlock /\ f + c - 1 <= NBlocks /\ a + c = z + 1 /\ c \in 1 .. MaxLen
      /\ e.first = a /\ e.len = c /\ e.start = f /\ e.unwritten = FALSE /\ a \in LBlocks
      /\ e = [first |-> a, len |-> c, start |-> f, unwritten |-> FALSE]
  <2>1. a \in Int /\ z \in Int /\ c \in Nat /\ f \in Nat /\ a \in LBlocks /\ MaxLen \in Nat
    BY <1>1
  <2>2. a <= z /\ z < LastLBlock /\ z - a + 1 <= MaxLen /\ f + c - 1 <= NBlocks /\ c = z - a + 1 /\ (c > 0 => f \in Blocks)
    BY <1>2
  <2>3. /\ e.first = a /\ e.len = c /\ e.start = f /\ e.unwritten = FALSE
        /\ e = [first |-> a, len |-> c, start |-> f, unwritten |-> FALSE]
    BY DEF RunOf
  <2> HIDE DEF a, z, c, f
  <2> QED BY <2>1, <2>2, <2>3
<1> HIDE DEF a, z, c, f
<1>5. e \in Extents
  BY <1>4 DEF Extents
<1>6. End64(e) = z + 1
  BY <1>4 DEF End64
<1>7. Good(e)
  <2>1. e.len # 0 /\ End64(e) <= LastLBlock /\ e.start \in Blocks /\ e.start + e.len - 1 <= NBlocks
    BY <1>1, <1>4, <1>6
  <2>2. End64(e) <= LastLBlock + 1
    BY <2>1, <1>1, <1>4, <1>6
  <2> QED BY <2>1, <2>2, <1>5 DEF Good, ValidExtent
<1>8. \A l, v : Sends(e, l, v) <=> l \in o.lo .. o.hi /\ v = o.first + (l - o.lo)
  <2>1. o.lo = a /\ o.hi = z /\ o.first = f
    BY DEF a, z, f
  <2>2. e.first .. End64(e) - 1 = a .. z
    BY <1>4, <1>6
  <2> QED BY Zenon, <2>1, <2>2, <1>4 DEF Sends
<1>9. \A l \in o.lo .. o.hi : Lookup(nd, l) = Hole
  <2>1. \A l \in o.lo .. o.hi : l \in LBlocks
    BY <1>1
  <2>2. \A l \in LBlocks : Lookup(nd, l) = vw[l]
    BY DEF Ready, Calm, Base
  <2> QED BY <2>1, <2>2, <1>2
<1>10. \A b \in R : nd[b].depth = 0 => Vacant(nd[b], o.lo, o.hi)
  <2>1. Tree(nd, R)
    BY DEF Ready, Calm
  <2> HIDE DEF Ready
  <2> QED BY Zenon, <2>1, <1>1, <1>2, <1>9, Around
<1>11. End64(e) - 1 = o.hi
  BY <1>4, <1>6 DEF z
<1> QED BY Zenon, <1>1, <1>2, <1>3, <1>7, <1>8, <1>9, <1>10, <1>11

(* The tree md, with the run of o in leaf t. *)
Mapped(nd, R, fr, vw, o, b, t, md) ==
    /\ Tree(md, R) /\ Neat(md, R, {b}) /\ b \in R
    /\ \A l \in LBlocks : Lookup(md, l) = Filled(vw, o)[l]
    /\ (b = Root \/ (nd[b].ents # <<>> /\ t.ents[1].first = nd[b].ents[1].first)) => Neat(md, R, {})
    /\ Owned(R, fr, {}, Filled(vw, o))
    /\ OthersKept(md, vw, o)

(* The run is in. *)
LEMMA Entered ==
  ASSUME NEW nd, NEW R, NEW fr, NEW vw, NEW o, Ready(nd, R, fr, vw, o), NEW e, e = RunOf(o),
         NEW b, b = Landing(nd, o.lo), nd[b].depth = 0, NEW t, RunIn(b, nd[b], e, t),
         NEW md, Put(nd, b, t, md)
  PROVE  Mapped(nd, R, fr, vw, o, b, t, md)
<1>1. /\ Good(e) /\ o.lo \in LBlocks /\ o.hi \in LBlocks /\ o.lo <= o.hi /\ o.cnt = o.hi - o.lo + 1
      /\ o.first \in Nat /\ o.cnt \in Nat
      /\ \A l, v : Sends(e, l, v) <=> l \in o.lo .. o.hi /\ v = o.first + (l - o.lo)
      /\ \A l \in o.lo .. o.hi : Lookup(nd, l) = Hole
  BY RunOfIs DEF Ready
<1>2. Tree(nd, R) /\ Neat(nd, R, {}) /\ Owned(R, fr, Loose(o), vw) /\ \A l \in LBlocks : Lookup(nd, l) = vw[l]
  BY DEF Ready, Calm, Base
<1>3. Fit(b, t) /\ t.depth = 0 /\ t.ents # <<>>
      /\ \A l, v : Gives(t, l, v) <=> Gives(nd[b], l, v) \/ (l \in o.lo .. o.hi /\ v = o.first + (l - o.lo))
  BY <1>1 DEF RunIn
<1> DEFINE lo == o.lo
           hi == o.hi
           first == o.first
<1> HIDE DEF lo, hi, first
<1>4. /\ Tree(md, R) /\ b \in R
      /\ \A l \in LBlocks : Lookup(md, l) = IF l \in lo .. hi THEN first + (l - lo) ELSE Lookup(nd, l)
      /\ Neat(md, R, {b})
      /\ (b = Root \/ (nd[b].ents # <<>> /\ t.ents[1].first = nd[b].ents[1].first)) => Neat(md, R, {})
  <2>1. /\ lo \in LBlocks /\ hi \in LBlocks /\ lo <= hi /\ AllHoles(nd, lo, hi)
        /\ b = Landing(nd, lo) /\ Grown(nd, b, lo, hi, first, t)
    BY <1>1, <1>3 DEF lo, hi, first, Grown, AllHoles
  <2>2. /\ Tree(md, R) /\ b \in R /\ RunAdded(nd, md, lo, hi, first) /\ Neat(md, R, {b})
        /\ (b = Root \/ SameFirst(nd[b], t)) => Neat(md, R, {})
    BY <2>1, <1>2, AddRun
  <2> QED BY <2>2, <1>3 DEF RunAdded, SameFirst
<1>5. \A l \in LBlocks : Lookup(md, l) = Filled(vw, o)[l]
  BY <1>4, <1>2 DEF Filled, lo, hi, first
<1>6. Owned(R, fr, {}, Filled(vw, o))
  <2> DEFINE X == Loose(o)
             S == first .. first + (hi - lo)
             w == Filled(vw, o)
  <2>1. X = S
    <3>1. OpBlocks(o) = o.first .. o.first + (o.hi - o.lo)
      <4>1. o.first + o.cnt - 1 = o.first + (o.hi - o.lo)
        BY <1>1, Width
      <4> QED BY <4>1 DEF OpBlocks, Ready
    <3> QED BY <3>1 DEF Loose, Ready, first, lo, hi
  <2>2. w = [l \in LBlocks |-> IF l \in lo .. hi THEN first + (l - lo) ELSE vw[l]]
    BY DEF Filled, first, lo, hi
  <2>3. lo \in LBlocks /\ hi \in LBlocks /\ lo <= hi /\ first \in Nat /\ \A l \in lo .. hi : vw[l] = Hole
    BY <1>1 DEF Ready, GetNumbers, first, lo, hi
  <2>4. Owned(R, fr, X, vw) /\ S \subseteq X
    BY <1>2, <2>1
  <2> HIDE DEF w, X
  <2>5. Owned(R, fr, X \ S, w)
    BY <2>2, <2>3, <2>4, OwnMap
  <2>6. X \ S = {}
    BY <2>1
  <2> QED BY <2>5, <2>6 DEF w
<1>7. OthersKept(md, vw, o)
  <2>1. \A l \in LBlocks \ (o.lo .. o.hi) : Filled(vw, o)[l] = vw[l]
    BY TargetKept
  <2> QED BY <2>1, <1>5 DEF OthersKept
<1> QED BY <1>3, <1>4, <1>5, <1>6, <1>7 DEF Mapped

(* get_blocks returns with its run mapped. *)
LEMMA ResumeGet ==
  ASSUME NEW nd, NEW R \in SUBSET Places, NEW fr \in SUBSET Blocks, NEW vw, NEW o, o \in Ops, o.kind = "get", o.fresh = {},
         o.lo \in LBlocks, o.hi \in LBlocks, GetNumbers(vw, o), o.pc # "alloc",
         NEW md \in [Places -> Nodes], Tree(md, R), Neat(md, R, {}), Owned(R, fr, {}, Filled(vw, o)),
         \A l \in LBlocks : Lookup(md, l) = Filled(vw, o)[l], NEW q, q = Resume(o), NEW x, x = Seen(vw, md, q)
  PROVE  Onward(vw, o, md, fr, x, q)
<1>1. q = Finish(o, "EOK")
  BY DEF Resume
<1>2. /\ q.pc = "done" /\ q.res = "EOK" /\ q.kind = o.kind /\ q.lo = o.lo /\ q.hi = o.hi /\ q.first = o.first /\ q.cnt = o.cnt
      /\ q.fresh = o.fresh /\ q \in Ops
  BY Zenon, <1>1 DEF Finish, Ops, Pcs, Errors
<1>3. o.cnt = o.hi - o.lo + 1 /\ o.lo <= o.hi /\ o.lo \in Int /\ o.hi \in Int /\ o.cnt \in Int
  BY OpIs DEF GetNumbers
<1>4. Answered(md, R, q)
  <2>1. ASSUME NEW k \in 0 .. q.cnt - 1 PROVE Lookup(md, q.lo + k) = q.first + k
    <3> DEFINE l == o.lo + k
    <3>1. l \in o.lo .. o.hi /\ l - o.lo = k
      BY <1>2, <1>3
    <3>2. l \in LBlocks
      BY <3>1, Width
    <3> HIDE DEF l
    <3>3. Lookup(md, l) = o.first + k
      BY <3>1, <3>2 DEF Filled
    <3> QED BY <3>3, <1>2 DEF l
  <2>2. q.cnt # 0
    BY <1>2, <1>3
  <2> QED BY <2>1, <2>2 DEF Answered
<1>5. Took(vw, o, Filled(vw, o)) /\ Typed(md, fr, q)
  BY <1>2, <1>3 DEF Took, Typed
<1> QED BY <1>2, <1>4, <1>5, DoneOn

(* The separator above level l of P is to become k. *)
ToFix(o, P, l, k) == [o EXCEPT !.pc = "fix", !.path = P, !.lvl = l, !.key = k]

(* get_blocks goes on to the separators above its run. *)
LEMMA FixGet ==
  ASSUME NEW nd, NEW R \in SUBSET Places, NEW fr \in SUBSET Blocks, NEW vw, NEW o, Ready(nd, R, fr, vw, o),
         NEW P, P = FindPath(nd, o.lo), NEW b, b = Landing(nd, o.lo), Len(P) > 1, NEW n,
         NEW md, Put(nd, b, n, md), Tree(md, R), Neat(md, R, {b}), Owned(R, fr, {}, Filled(vw, o)),
         \A l \in LBlocks : Lookup(md, l) = Filled(vw, o)[l], n.ents # <<>>, n.ents[1].first = o.lo,
         NEW q, q = ToFix(o, P, Len(P), o.lo), NEW x, x = Seen(vw, md, q)
  PROVE  Onward(vw, o, md, fr, x, q)
<1>1. Shape(nd, R) /\ o.lo \in LBlocks /\ o \in Ops /\ o.kind = "get" /\ o.hi \in LBlocks /\ o.fresh = {} /\ o.res = "EOK"
      /\ GetNumbers(vw, o) /\ o.pc # "alloc"
  BY DEF Ready, Calm, Tree
<1>2. /\ Len(P) \in Nat \ {0} /\ P \in Seq(PathSteps) /\ Linked(nd, R, P, Len(P) - 1)
      /\ P[Len(P)].blk = b
  BY <1>1, PathLinked
<1>3. /\ q.pc = "fix" /\ q.path = P /\ q.lvl = Len(P) /\ q.key = o.lo /\ q.kind = "get" /\ q.lo = o.lo /\ q.hi = o.hi
      /\ q.first = o.first /\ q.cnt = o.cnt /\ q.fresh = {} /\ q.res = "EOK"
  BY <1>1 DEF Ops, ToFix
<1>4. q \in Ops
  BY Zenon, <1>1, <1>2 DEF Ops, Pcs, ToFix
<1>5. md \in [Places -> Nodes] /\ md[b] = n
  BY DEF Put
<1>6. Linked(md, R, P, Len(P) - 1)
  <2> DEFINE m == Len(P) - 1
  <2>1. m \in Nat /\ m + 1 = Len(P) /\ Linked(nd, R, P, m) /\ b = P[m + 1].blk
    BY <1>2
  <2>2. \A y \in R \ R : nd[y].depth <= nd[b].depth
    OBVIOUS
  <2> HIDE DEF m
  <2>3. Linked(md, R, P, m)
    BY Zenon, <1>1, <2>1, <2>2, LinkedWrite
  <2> QED BY <2>3 DEF m
<1>7. PathKept(md, R, q)
  BY <1>2, <1>3, <1>5, <1>6 DEF PathKept, SplitPcs, LeafPcs
<1>8. Numbers(md, vw, q)
  <2>1. GetNumbers(vw, q)
    BY <1>1, <1>3 DEF GetNumbers, GetPcs
  <2> QED BY <2>1, <1>1, <1>3 DEF Numbers, FreshPcs, GrowPcs
<1>9. Filled(vw, q) = Filled(vw, o)
  BY <1>3 DEF Filled
<1>10. Target(vw, q) = Filled(vw, o) /\ Kept(vw, q) = Filled(vw, o) /\ Loose(q) = {} /\ Odd(md, q) = {b} /\ Whole(md, q) = md
  BY <1>2, <1>3, <1>9 DEF Target, Kept, Loose, Odd, Whole
<1>11. Busy(md, R, fr, vw, q)
  BY <1>3, <1>7, <1>8, <1>10 DEF Busy
<1>12. Typed(md, fr, q) /\ q.pc \in LivePcs
  BY <1>3, <1>4, <1>5 DEF Typed, LivePcs, GetPcs
<1> QED BY <1>11, <1>12, LiveOn

(* The leaf the path for the run's first block ends at. *)
LEMMA LandsIn ==
  ASSUME NEW nd, NEW R, NEW fr, NEW vw, NEW o, Ready(nd, R, fr, vw, o), NEW P, P = FindPath(nd, o.lo),
         FindResult(nd, P) = "EOK", NEW b, b = Landing(nd, o.lo)
  PROVE  /\ b \in R /\ b \in Places /\ nd[b].depth = 0 /\ Fit(b, nd[b]) /\ Shape(nd, R)
         /\ Leaf(P).blk = b /\ Leaf(P).cnt = Len(nd[b].ents) /\ Leaf(P).cnt \in Nat
         /\ HaveExtent(P) <=> nd[b].ents # <<>>
         /\ nd[b].ents # <<>> => /\ Leaf(P).pos = SearchPos(nd[b].ents, o.lo) /\ Leaf(P).pos \in 1 .. Len(nd[b].ents)
                                 /\ Leaf(P).ent = nd[b].ents[Leaf(P).pos]
         /\ Len(P) \in Nat \ {0} /\ (Len(P) = 1 => b = Root)
         /\ nd \in [Places -> Nodes] /\ nd[b] = [depth |-> 0, ents |-> nd[b].ents]
<1>1. Shape(nd, R) /\ o.lo \in LBlocks
  BY DEF Ready, Calm, Tree
<1>2. /\ b \in R /\ Leaf(P).blk = b /\ Leaf(P).cnt = Len(nd[b].ents) /\ Leaf(P).cnt \in Nat
      /\ HaveExtent(P) <=> nd[b].ents # <<>>
      /\ nd[b].ents # <<>> => /\ Leaf(P).pos = SearchPos(nd[b].ents, o.lo) /\ Leaf(P).pos \in 1 .. Len(nd[b].ents)
                              /\ Leaf(P).ent = nd[b].ents[Leaf(P).pos]
  BY <1>1, LeafIs
<1>3. nd[b].depth = 0
  <2>1. FindResult(nd, P) = IF nd[b].depth = 0 THEN "EOK" ELSE "ENOENT"
    BY <1>1, ResultIs
  <2> QED BY <2>1
<1>4. Fit(b, nd[b]) /\ b \in Places
  BY <1>1, <1>2, DepthIs
<1>5. Len(P) \in Nat \ {0} /\ P[Len(P)].blk = b /\ P[1].blk = Root
  BY <1>1, PathLinked
<1>6. nd[b] = [depth |-> 0, ents |-> nd[b].ents]
  <2> DEFINE n == nd[b]
  <2> HIDE DEF n
  <2>1. n = [depth |-> 0, ents |-> n.ents]
    BY <1>3, <1>4, LeafParts DEF n
  <2> QED BY <2>1 DEF n
<1> QED BY <1>1, <1>2, <1>3, <1>4, <1>5, <1>6 DEF Shape

(* insert_new_extent, or its failure, leads on. *)
LEMMA InsertNewOn ==
  ASSUME Typed(node, free, op), NEW R \in SUBSET Places, Ready(node, R, free, view, op), OthersKept(node, view, op),
         OpBlocks(op) \subseteq Blocks, NEW P, P = FindPath(node, op.lo), FindResult(node, P) = "EOK",
         Leaf(P).cnt < MaxEntries(Leaf(P).blk), NEW e, e = RunOf(op), InsertNew(P, e), UNCHANGED free,
         view' = Seen(view, node', op')
  PROVE  Onward(view, op, node', free', view', op')
<1> DEFINE lo == op.lo
           b == Landing(node, lo)
           n == node[b]
           p == InsertPos(P, lo)
           t == [depth |-> 0, ents |-> InsertAt(n.ents, p, e)]
           md == [node EXCEPT ![b] = t]
           o == IF p = 1 /\ Len(P) > 1
                THEN ToFix(op, P, Len(P), lo) ELSE Resume(op)
<1>1. /\ b \in R /\ b \in Places /\ n.depth = 0 /\ Fit(b, n) /\ Shape(node, R)
      /\ Leaf(P).blk = b /\ Leaf(P).cnt = Len(n.ents)
      /\ HaveExtent(P) <=> n.ents # <<>>
      /\ n.ents # <<>> => /\ Leaf(P).pos = SearchPos(n.ents, lo) /\ Leaf(P).pos \in 1 .. Len(n.ents)
                          /\ Leaf(P).ent = n.ents[Leaf(P).pos]
      /\ Len(P) \in Nat \ {0} /\ (Len(P) = 1 => b = Root)
      /\ node \in [Places -> Nodes] /\ n = [depth |-> 0, ents |-> n.ents]
  <2> HIDE DEF b
  <2> QED BY LandsIn DEF b
<1>2. /\ Good(e) /\ e.first = lo /\ lo \in Int /\ Vacant(n, lo, End64(e) - 1)
  <2> HIDE DEF b
  <2>1. /\ Good(e) /\ e.first = op.lo /\ op.lo \in Int /\ \A c \in R : node[c].depth = 0 => Vacant(node[c], op.lo, End64(e) - 1)
    BY RunOfIs
  <2> QED BY <2>1, <1>1
<1>3. p = IF n.ents = <<>> \/ (SearchPos(n.ents, lo) = 1 /\ lo < n.ents[1].first) THEN 1
          ELSE SearchPos(n.ents, lo) + 1
  <2> HIDE DEF b
  <2> QED BY <1>1 DEF InsertPos
<1> HIDE DEF p
<1>4. Write(b, t, o)
  <2>1. [node[Leaf(P).blk] EXCEPT !.ents = InsertAt(@, p, e)] = t
    <3> HIDE DEF b, lo
    <3>1. [n EXCEPT !.ents = InsertAt(@, p, e)] = [depth |-> 0, ents |-> InsertAt(n.ents, p, e)]
      <4> DEFINE i == InsertAt(n.ents, p, e)
                 E == n.ents
      <4>1. n = [depth |-> 0, ents |-> E]
        BY <1>1
      <4> HIDE DEF i, n, E
      <4>2. [n EXCEPT !.ents = i] = [depth |-> 0, ents |-> i]
        BY <4>1
      <4> QED BY <4>2 DEF i
    <3> QED BY <3>1, <1>1
  <2> HIDE DEF b, t
  <2> QED BY <2>1, <1>1, <1>2 DEF InsertNew, p, ToFix
<1> HIDE DEF lo, b
<1>5. /\ RunIn(b, n, e, t)
      /\ p = 1 => t.ents[1].first = lo
      /\ p # 1 => n.ents # <<>> /\ t.ents[1].first = n.ents[1].first
  <2> DEFINE m == n
  <2>1. Fit(b, m) /\ m.depth = 0 /\ Len(m.ents) < MaxEntries(b) /\ Vacant(m, lo, End64(e) - 1)
        /\ p = (IF m.ents = <<>> \/ (SearchPos(m.ents, lo) = 1 /\ lo < m.ents[1].first) THEN 1
                ELSE SearchPos(m.ents, lo) + 1)
        /\ t = [depth |-> 0, ents |-> InsertAt(m.ents, p, e)]
    BY <1>1, <1>2, <1>3
  <2> HIDE DEF m, t
  <2>2. /\ RunIn(b, m, e, t)
        /\ p = 1 => t.ents[1].first = lo
        /\ p # 1 => m.ents # <<>> /\ t.ents[1].first = m.ents[1].first
    BY <2>1, <1>2, RunInsert
  <2> QED BY <2>2 DEF m
<1> HIDE DEF t
<1>6. t \in Nodes /\ t.ents # <<>>
  <2>1. Fit(b, t) /\ t.ents # <<>>
    BY <1>5 DEF RunIn
  <2> QED BY <2>1, NodeIs
<1>7. Put(node, b, t, md)
  BY Zenon, <1>1, <1>6, PutIs
<1> HIDE DEF md
<1>8. /\ Tree(md, R) /\ Neat(md, R, {b})
      /\ \A l \in LBlocks : Lookup(md, l) = Filled(view, op)[l]
      /\ (b = Root \/ (n.ents # <<>> /\ t.ents[1].first = n.ents[1].first)) => Neat(md, R, {})
      /\ Owned(R, free, {}, Filled(view, op))
      /\ OthersKept(md, view, op)
  <2>1. b = Landing(node, op.lo) /\ node[b].depth = 0 /\ RunIn(b, node[b], e, t) /\ Put(node, b, t, md)
    BY <1>1, <1>5, <1>7 DEF b, lo
  <2>2. Mapped(node, R, free, view, op, b, t, md)
    BY <2>1, Entered
  <2> QED BY <2>2 DEF Mapped
<1>9. md \in [Places -> Nodes] /\ free \in SUBSET Blocks
  BY <1>7 DEF Put, Typed
<1>10. Onward(view, op, md, free, Seen(view, md, o), o)
  <2> DEFINE x == Seen(view, md, o)
  <2>1. CASE p = 1 /\ Len(P) > 1
    <3>1. /\ o = ToFix(op, P, Len(P), op.lo) /\ b = Landing(node, op.lo)
          /\ P = FindPath(node, op.lo) /\ t.ents[1].first = op.lo /\ x = Seen(view, md, o)
      BY <2>1, <1>5 DEF lo, b
    <3> HIDE DEF o, x
    <3>2. Onward(view, op, md, free, x, o)
      BY <2>1, <3>1, <1>6, <1>7, <1>8, <1>9, FixGet
    <3> QED BY <3>2 DEF x
  <2>2. CASE ~ (p = 1 /\ Len(P) > 1)
    <3>1. Neat(md, R, {})
      <4>1. CASE p # 1
        BY <4>1, <1>5, <1>8
      <4>2. CASE p = 1
        <5>1. Len(P) = 1
          <6> DEFINE k == Len(P)
          <6>1. k \in Nat \ {0} /\ ~ (k > 1)
            BY <4>2, <2>2, <1>1
          <6> HIDE DEF k
          <6>2. k = 1
            BY <6>1
          <6> QED BY <6>2 DEF k
        <5> QED BY <5>1, <1>1, <1>8
      <4> QED BY <4>1, <4>2
    <3>2. o = Resume(op) /\ x = Seen(view, md, o)
      BY <2>2
    <3>3. /\ op \in Ops /\ op.kind = "get" /\ op.fresh = {} /\ op.lo \in LBlocks /\ op.hi \in LBlocks
          /\ GetNumbers(view, op) /\ op.pc # "alloc"
      BY DEF Ready
    <3> HIDE DEF o, x
    <3>4. Onward(view, op, md, free, x, o)
      BY <3>1, <3>2, <3>3, <1>8, <1>9, ResumeGet
    <3> QED BY <3>4 DEF x
  <2> QED BY <2>1, <2>2
<1> HIDE DEF o
<1> QED BY Zenon, <1>1, <1>4, <1>6, <1>8, <1>10, WriteOn DEF md

(* merge_extent, or its failure, leads on. *)
LEMMA MergeOn ==
  ASSUME Typed(node, free, op), NEW R \in SUBSET Places, Ready(node, R, free, view, op), OthersKept(node, view, op),
         OpBlocks(op) \subseteq Blocks, NEW b, b = Landing(node, op.lo), b \in Places, node[b].depth = 0,
         NEW e, e = RunOf(op), NEW t, RunIn(b, node[b], e, t), node[b].ents # <<>>,
         t.ents[1].first = node[b].ents[1].first,
         Write(b, t, Resume(op)), UNCHANGED free, view' = Seen(view, node', op')
  PROVE  Onward(view, op, node', free', view', op')
<1> DEFINE md == [node EXCEPT ![b] = t]
           o == Resume(op)
           x == Seen(view, md, o)
<1>1. node \in [Places -> Nodes] /\ free \in SUBSET Blocks
  BY DEF Typed
<1>2. t \in Nodes
  <2>1. Fit(b, t)
    BY DEF RunIn
  <2> QED BY <2>1, NodeIs
<1>3. Put(node, b, t, md)
  BY Zenon, <1>1, <1>2, PutIs
<1> HIDE DEF md
<1>4. Mapped(node, R, free, view, op, b, t, md)
  BY Zenon, <1>3, Entered
<1>5. md \in [Places -> Nodes]
  BY <1>3 DEF Put
<1>6. Tree(md, R) /\ Neat(md, R, {}) /\ Owned(R, free, {}, Filled(view, op)) /\ OthersKept(md, view, op)
      /\ \A l \in LBlocks : Lookup(md, l) = Filled(view, op)[l]
  BY <1>4 DEF Mapped
<1>7. o = Resume(op) /\ x = Seen(view, md, o)
  OBVIOUS
<1>8. /\ op \in Ops /\ op.kind = "get" /\ op.fresh = {} /\ op.lo \in LBlocks /\ op.hi \in LBlocks
      /\ GetNumbers(view, op) /\ op.pc # "alloc"
  BY DEF Ready
<1> HIDE DEF o, x
<1>9. Onward(view, op, md, free, x, o)
  BY <1>1, <1>5, <1>6, <1>7, <1>8, ResumeGet
<1> QED BY Zenon, <1>2, <1>6, <1>7, <1>9, WriteOn DEF md

(* An operation that goes on with the tree as it is. *)
LEMMA CalmOn ==
  ASSUME NEW nd, NEW R \in SUBSET Places, NEW fr, NEW vw, NEW o, NEW q, NEW x, Typed(nd, fr, q), Calm(nd, R, fr, vw, o),
         o.pc \in CalmPcs, q.pc \in CalmPcs, q.kind = o.kind, q.kind \in {"get", "remove"},
         Loose(q) = Loose(o), Base(vw, q) = Base(vw, o), Numbers(nd, vw, q), PathKept(nd, R, q), x = Seen(vw, nd, q)
  PROVE  Onward(vw, o, nd, fr, x, q)
<1>1. Calm(nd, R, fr, vw, q)
  BY DEF Calm
<1>2. Busy(nd, R, fr, vw, q)
  BY <1>1, CalmIs
<1>3. q.pc \in LivePcs
  BY DEF CalmPcs, LivePcs, GetPcs, RemovePcs, GrowPcs, SplitPcs, LeafPcs
<1> QED BY <1>2, <1>3, LiveOn

(* What holds while an operation is in progress. *)
LEMMA LiveIs ==
  ASSUME NEW nd, NEW R, NEW fr, NEW vw, NEW o \in Ops, Fits(nd, R, fr, vw, o), o.pc \in LivePcs
  PROVE  /\ Busy(nd, R, fr, vw, o) /\ OthersKept(nd, vw, o) /\ OpBlocks(o) \subseteq Blocks
         /\ o.kind \in {"get", "remove"} /\ Numbers(nd, vw, o) /\ PathKept(nd, R, o)
         /\ o.res = "EOK" /\ o.lo \in LBlocks /\ o.hi \in LBlocks
         /\ o.pc \notin FreshPcs => o.fresh = {}
         /\ o.pc \in FreshPcs => \E b \in Blocks : o.fresh = {b}
         /\ o.kind = "get" => GetNumbers(vw, o) /\ o.pc \in GetPcs
         /\ o.kind = "remove" => RemoveNumbers(o) /\ o.pc \in RemovePcs
<1>1. Busy(nd, R, fr, vw, o) /\ o.pc # "idle" /\ o.pc # "done"
  BY DEF Fits, LivePcs, GetPcs, RemovePcs, GrowPcs, SplitPcs, LeafPcs
<1>2. OthersKept(nd, vw, o)
  BY <1>1 DEF Fits, Returned
<1>3. Numbers(nd, vw, o) /\ PathKept(nd, R, o) /\ o.kind \in {"get", "remove"}
  BY <1>1 DEF Busy
<1>4. OpBlocks(o) \subseteq Blocks
  BY <1>3, OpBlocksIs
<1> QED BY <1>1, <1>2, <1>3, <1>4 DEF Numbers, GetNumbers, RemoveNumbers

(* get_blocks in insert_extent. *)
LEMMA ReadyIs ==
  ASSUME NEW nd, NEW R, NEW fr, NEW vw, NEW o \in Ops, Fits(nd, R, fr, vw, o), o.pc \in {"insert", "room"}, o.kind = "get"
  PROVE  Ready(nd, R, fr, vw, o)
<1>1. o.pc \in LivePcs /\ o.pc \in CalmPcs /\ o.pc \notin FreshPcs
  BY DEF LivePcs, GetPcs, RemovePcs, GrowPcs, SplitPcs, LeafPcs, CalmPcs, FreshPcs
<1>2. Busy(nd, R, fr, vw, o) /\ o.res = "EOK" /\ o.lo \in LBlocks /\ o.hi \in LBlocks /\ o.fresh = {} /\ GetNumbers(vw, o)
  BY <1>1, LiveIs
<1>3. Calm(nd, R, fr, vw, o)
  BY <1>1, <1>2, CalmIs
<1> QED BY <1>2, <1>3 DEF Ready

(* A step that fails and changes nothing in the tree. *)
LEMMA FailStill ==
  ASSUME Typed(node, free, op), NEW R, Fits(node, R, free, view, op), op.pc \in LivePcs, node' = node,
         free' \in SUBSET Blocks, NEW r \in Errors \ {"EOK"}, op' = Fail(op, r), view' = Seen(view, node', op')
  PROVE  Onward(view, op, node', free', view', op')
<1>1. node \in [Places -> Nodes] /\ op \in Ops /\ \E c : op.fresh \subseteq {c}
  BY DEF Typed
<1>2. OthersKept(node, view, op) /\ OpBlocks(op) \subseteq Blocks
  BY <1>1, LiveIs
<1> QED BY <1>1, <1>2, FailOn

(* What MergeAt writes. *)
LEMMA MergeAtIs ==
  ASSUME NEW leaf, NEW p, NEW left, NEW right, MergeAt(leaf, p, left, right), NEW b, b = leaf.blk,
         node[b] = [depth |-> 0, ents |-> node[b].ents]
  PROVE  \E x, t : /\ Joint(left, right, x) /\ Merged(node[b], p, x, t)
                   /\ Write(b, t, Resume(op))
<1> DEFINE x == [left EXCEPT !.len = @ + right.len]
           n == node[b]
           t == [n EXCEPT !.ents[p] = x]
           E == n.ents
<1>1. Joint(left, right, x)
  BY DEF Joint
<1>2. Write(b, t, Resume(op))
  BY DEF MergeAt
<1> HIDE DEF x
<1>3. t = [depth |-> 0, ents |-> [E EXCEPT ![p] = x]]
  <2>1. n = [depth |-> 0, ents |-> E]
    OBVIOUS
  <2> HIDE DEF n, E
  <2>2. [n EXCEPT !.ents[p] = x] = [depth |-> 0, ents |-> [E EXCEPT ![p] = x]]
    BY <2>1
  <2> QED BY <2>2
<1> HIDE DEF t
<1>4. Merged(n, p, x, t)
  BY <1>3 DEF Merged
<1> QED BY <1>1, <1>2, <1>4

(* insert_extent. *)
LEMMA InsertExtentOn ==
  ASSUME Typed(node, free, op), NEW R \in SUBSET Places, Fits(node, R, free, view, op), InsertExtent
  PROVE  Onward(view, op, node', free', view', op')
<1> DEFINE P == FindPath(node, op.lo)
           e == RunOf(op)
           b == Landing(node, op.lo)
           n == node[b]
           leaf == Leaf(P)
           d == leaf.ent
           skip == UNCHANGED <<node, faults>>
<1>1. op \in Ops /\ op.pc = "insert" /\ UNCHANGED free /\ view' = Seen(view, node', op') /\ node \in [Places -> Nodes]
      /\ free \in SUBSET Blocks
  BY DEF InsertExtent, Step, Seen, Typed
<1>2. op.pc \in LivePcs /\ op.pc \in CalmPcs /\ op.pc \notin RemovePcs
  BY <1>1 DEF LivePcs, GetPcs, RemovePcs, GrowPcs, SplitPcs, LeafPcs, CalmPcs
<1>3. op.kind = "get" /\ OthersKept(node, view, op) /\ OpBlocks(op) \subseteq Blocks
  BY <1>1, <1>2, LiveIs
<1>4. Ready(node, R, free, view, op)
  BY <1>1, <1>3, ReadyIs
<1>5. \/ FindResult(node, P) # "EOK" /\ op' = Fail(op, "EIO") /\ skip
      \/ FindResult(node, P) = "EOK" /\ op' = Fail(op, "EEXIST") /\ skip
      \/ FindResult(node, P) = "EOK" /\ HaveExtent(P) /\ CanMerge(d, e) /\ MergeAt(leaf, leaf.pos, d, e)
      \/ /\ FindResult(node, P) = "EOK" /\ HaveExtent(P) /\ leaf.pos < leaf.cnt /\ End(d) < e.first
         /\ CanMerge(e, node[leaf.blk].ents[leaf.pos + 1])
         /\ MergeAt(leaf, leaf.pos + 1, e, node[leaf.blk].ents[leaf.pos + 1])
      \/ FindResult(node, P) = "EOK" /\ HaveExtent(P) /\ leaf.pos > 1 /\ End(e) < d.first
      \/ FindResult(node, P) = "EOK" /\ leaf.cnt < MaxEntries(leaf.blk) /\ InsertNew(P, e)
      \/ op' = [op EXCEPT !.pc = "room"] /\ skip
  <2> HIDE DEF skip
  <2> QED BY DEF InsertExtent, RunOf, skip
<1>6. CASE op' \in {Fail(op, "EIO"), Fail(op, "EEXIST")} /\ skip
  <2>1. "EIO" \in Errors \ {"EOK"} /\ "EEXIST" \in Errors \ {"EOK"} /\ node' = node /\ free' \in SUBSET Blocks
    BY <1>1, <1>6 DEF Errors
  <2> QED BY <2>1, <1>1, <1>2, <1>6, FailStill
<1>7. CASE op' = [op EXCEPT !.pc = "room"] /\ skip
  <2>1. /\ op'.pc = "room" /\ op'.kind = "get" /\ op'.lo = op.lo /\ op'.hi = op.hi /\ op'.first = op.first
        /\ op'.cnt = op.cnt /\ op'.fresh = op.fresh /\ op'.res = op.res /\ op' \in Ops /\ op'.from = op.from
    BY Zenon, <1>1, <1>3, <1>7 DEF Ops, Pcs
  <2>2. Calm(node, R, free, view, op)
    BY <1>4 DEF Ready
  <2>3. Loose(op') = Loose(op) /\ Base(view, op') = Base(view, op)
    BY <1>1, <1>3, <2>1 DEF Loose, Base, OpBlocks
  <2>4. Numbers(node, view, op')
    BY <2>1, <1>1, <1>4 DEF Numbers, GetNumbers, GetPcs, FreshPcs, GrowPcs, SplitPcs, Ready
  <2>5. PathKept(node, R, op')
    BY <2>1 DEF PathKept, SplitPcs, LeafPcs
  <2>6. Typed(node, free, op') /\ op'.pc \in CalmPcs
    BY <1>1, <2>1 DEF Typed, CalmPcs
  <2>7. node' = node /\ free' = free
    BY <1>1, <1>7
  <2> DEFINE q == op'
             x == view'
  <2>8. x = Seen(view, node, q)
    BY <1>1, <2>7
  <2>9. Onward(view, op, node, free, x, q)
    BY <2>1, <2>2, <2>3, <2>4, <2>5, <2>6, <2>8, <1>2, <1>3, CalmOn
  <2> QED BY <2>7, <2>9
<1>8. CASE FindResult(node, P) = "EOK"
  <2>1. /\ b \in R /\ b \in Places /\ n.depth = 0 /\ Fit(b, n) /\ Shape(node, R)
        /\ leaf.blk = b /\ leaf.cnt = Len(n.ents) /\ leaf.cnt \in Nat
        /\ HaveExtent(P) <=> n.ents # <<>>
        /\ n.ents # <<>> => /\ leaf.pos = SearchPos(n.ents, op.lo) /\ leaf.pos \in 1 .. Len(n.ents)
                            /\ d = n.ents[leaf.pos]
        /\ n = [depth |-> 0, ents |-> n.ents]
    <3> HIDE DEF P, b
    <3> QED BY <1>4, <1>8, LandsIn DEF P, b
  <2>2. Good(e) /\ e.first = op.lo /\ op.lo \in Int /\ Vacant(n, op.lo, End64(e) - 1) /\ e = RunOf(op)
    <3> HIDE DEF b, e
    <3>1. Good(e) /\ e.first = op.lo /\ op.lo \in Int /\ \A c \in R : node[c].depth = 0 => Vacant(node[c], op.lo, End64(e) - 1)
      BY <1>4, RunOfIs DEF e
    <3> QED BY <3>1, <2>1 DEF e
  <2> DEFINE lo == op.lo
             s == leaf.pos
  <2>3. CASE HaveExtent(P) /\ CanMerge(d, e) /\ MergeAt(leaf, s, d, e)
    <3> HIDE DEF P, leaf
    <3>1. s = SearchPos(n.ents, lo) /\ d = n.ents[s] /\ n.ents # <<>> /\ b = leaf.blk
      BY <2>1, <2>3
    <3>2. PICK x, t : Joint(d, e, x) /\ Merged(n, s, x, t) /\ Write(b, t, Resume(op))
      <4> HIDE DEF b, s, d, e
      <4> QED BY <2>1, <2>3, <3>1, MergeAtIs
    <3>3. Fit(b, n) /\ n.depth = 0 /\ Good(e) /\ lo = e.first /\ lo \in Int /\ Vacant(n, lo, End64(e) - 1) /\ CanMerge(n.ents[s], e)
          /\ Joint(n.ents[s], e, x) /\ Found(n, lo, s) /\ n.ents # <<>> /\ Merged(n, s, x, t)
      BY <2>1, <2>2, <2>3, <3>1, <3>2 DEF Found
    <3> HIDE DEF b, e, lo, s, n, d
    <3>4. RunIn(b, n, e, t) /\ t.ents[1].first = n.ents[1].first
      BY <3>3, RunLeft
    <3>5. b = Landing(node, op.lo) /\ e = RunOf(op) /\ RunIn(b, node[b], e, t) /\ node[b].ents # <<>>
          /\ t.ents[1].first = node[b].ents[1].first /\ node[b].depth = 0 /\ b \in Places
      BY <3>1, <3>4, <2>1 DEF b, e, n
    <3> QED BY <3>2, <3>5, <1>1, <1>3, <1>4, MergeOn
  <2>4. CASE /\ HaveExtent(P) /\ s < leaf.cnt /\ End(d) < e.first
             /\ CanMerge(e, node[leaf.blk].ents[s + 1])
             /\ MergeAt(leaf, s + 1, e, node[leaf.blk].ents[s + 1])
    <3> HIDE DEF P, leaf
    <3> DEFINE p == s + 1
               g == n.ents[p]
    <3>1. s = SearchPos(n.ents, lo) /\ d = n.ents[s] /\ n.ents # <<>> /\ b = leaf.blk /\ s < Len(n.ents)
          /\ node[leaf.blk].ents[s + 1] = g /\ Behind(s, p)
      BY <2>1, <2>4 DEF Behind
    <3>2. PICK x, t : Joint(e, g, x) /\ Merged(n, p, x, t) /\ Write(b, t, Resume(op))
      <4>1. MergeAt(leaf, p, e, g)
        BY <2>4, <3>1
      <4> HIDE DEF b, s, d, e, p, g
      <4> QED BY <2>1, <4>1, <3>1, MergeAtIs
    <3>3. Fit(b, n) /\ n.depth = 0 /\ Good(e) /\ lo = e.first /\ lo \in Int /\ Vacant(n, lo, End64(e) - 1) /\ CanMerge(e, n.ents[p])
          /\ Joint(e, n.ents[p], x) /\ End(n.ents[s]) < lo
      BY <2>1, <2>2, <2>4, <3>1, <3>2
    <3> HIDE DEF b, e, lo, s, n, p, g
    <3>4. RunIn(b, n, e, t) /\ t.ents[1].first = n.ents[1].first
      BY <3>1, <3>2, <3>3, RunRight
    <3>5. b = Landing(node, op.lo) /\ e = RunOf(op) /\ RunIn(b, node[b], e, t) /\ node[b].ents # <<>>
          /\ t.ents[1].first = node[b].ents[1].first /\ node[b].depth = 0 /\ b \in Places
      BY <3>1, <3>4, <2>1 DEF b, e, n
    <3> QED BY <3>2, <3>5, <1>1, <1>3, <1>4, MergeOn
  <2>5. CASE HaveExtent(P) /\ s > 1 /\ End(e) < d.first
    <3>1. At(n.ents, lo, s) /\ d = n.ents[s] /\ s \in 1 .. Len(n.ents) /\ n.ents # <<>>
      <4> HIDE DEF b, P
      <4> QED BY <2>1, <2>2, <2>5, SearchIs
    <3>2. s = 1 \/ d.first <= lo
      BY <3>1 DEF At
    <3>3. Good(d)
      <4> HIDE DEF b, P
      <4> QED BY <3>1, <2>1, LeafParts
    <3>4. End(e) \in Int /\ lo \in Int /\ lo < End(e) /\ d.first \in Int
      <4> HIDE DEF e, d
      <4> QED BY <2>2, <3>3, GoodIs
    <3> HIDE DEF e, d, s, lo
    <3> QED BY <2>5, <3>2, <3>4
  <2>6. CASE leaf.cnt < MaxEntries(leaf.blk) /\ InsertNew(P, e)
    <3>1. P = FindPath(node, op.lo) /\ e = RunOf(op)
      OBVIOUS
    <3> HIDE DEF P, e
    <3> QED BY <3>1, <2>6, <1>1, <1>3, <1>4, <1>8, InsertNewOn
  <2> HIDE DEF P, e, b, n, d, leaf, s, skip
  <2> QED BY <2>3, <2>4, <2>5, <2>6, <1>5, <1>6, <1>7, <1>8 DEF s
<1> HIDE DEF P, e, b, n, d, leaf, skip
<1> QED BY <1>5, <1>6, <1>7, <1>8

-----------------------------------------------------------------------------
(* How long a run get_blocks may allocate. *)

(* The least of a length and at most one distance. *)
LEMMA MinOf ==
  ASSUME NEW room \in Nat \ {0}, NEW gaps, gaps = {} \/ \E g \in Nat \ {0} : gaps = {g},
         NEW c, c = CHOOSE i \in gaps \cup {room} : \A d \in gaps \cup {room} : i <= d
  PROVE  c \in Nat \ {0} /\ c <= room /\ \A g \in gaps : c <= g
<1> DEFINE S == gaps \cup {room}
<1>1. \E i \in S : \A d \in S : i <= d
  <2>1. CASE gaps = {}
    BY <2>1
  <2>2. CASE \E g \in Nat \ {0} : gaps = {g}
    <3>1. PICK g \in Nat \ {0} : gaps = {g}
      BY <2>2
    <3>2. g <= room \/ room <= g
      OBVIOUS
    <3> QED BY <3>1, <3>2
  <2> QED BY <2>1, <2>2
<1>2. c \in S /\ \A d \in S : c <= d
  BY <1>1
<1>3. S \subseteq Nat \ {0}
  OBVIOUS
<1> QED BY <1>2, <1>3

(* Nothing is mapped in c blocks from l on. *)
Holes(nd, l, c) == \A x \in LBlocks : l <= x /\ x < l + c => Lookup(nd, x) = Hole

(* The run stops before the next mapped block. *)
LEMMA CapIs ==
  ASSUME NEW R, Tree(node, R), Neat(node, R, {}), NEW l \in LBlocks, NEW P, P = FindPath(node, l),
         FindResult(node, P) = "EOK", ~ (HaveExtent(P) /\ Covers(Leaf(P).ent, l)), NEW max \in Nat \ {0},
         AllocCap(P, l, max) # {}
  PROVE  \E c \in Nat \ {0} : AllocCap(P, l, max) = {c} /\ c <= max /\ c <= MaxLen /\ Holes(node, l, c)
<1> DEFINE room == IF max < MaxLen THEN max ELSE MaxLen
           e == Leaf(P).ent
           b == Landing(node, l)
           n == node[b]
           next == IF ~ HaveExtent(P) THEN {} ELSE IF l < e.first THEN {e} ELSE NextExtent(node, P)
           gaps == {f.first - l : f \in next}
           c == CHOOSE i \in gaps \cup {room} : \A d \in gaps \cup {room} : i <= d
<1>1. Shape(node, R) /\ l \in Int /\ LastLBlock \in Nat /\ LBlocks = 0 .. LastLBlock /\ MaxLen \in Nat \ {0}
  BY Width, SizeAssumption DEF Tree
<1>2. room \in Nat \ {0} /\ room <= max /\ room <= MaxLen
  BY <1>1
<1>3. AllocCap(P, l, max) = IF \E f \in next : f = NoEntry \/ f.first <= l THEN {} ELSE {c}
  BY DEF AllocCap
<1> HIDE DEF next, room
<1>4. ~ \E f \in next : f = NoEntry \/ f.first <= l
  BY <1>3
<1>5. AllocCap(P, l, max) = {c}
  BY <1>3, <1>4
<1>6. n.depth = 0
  <2>1. FindResult(node, P) = IF n.depth = 0 THEN "EOK" ELSE "ENOENT"
    BY <1>1, ResultIs
  <2> QED BY <2>1
<1>7. /\ b \in R /\ Fit(b, n)
      /\ HaveExtent(P) <=> n.ents # <<>>
      /\ n.ents # <<>> => Leaf(P).pos \in 1 .. Len(n.ents) /\ e = n.ents[Leaf(P).pos]
  <2>1. /\ b \in R
        /\ HaveExtent(P) <=> n.ents # <<>>
        /\ n.ents # <<>> => Leaf(P).pos \in 1 .. Len(n.ents) /\ e = n.ents[Leaf(P).pos]
    BY <1>1, LeafIs
  <2> QED BY <2>1, <1>1 DEF Shape
<1> HIDE DEF e, b
<1>8. HaveExtent(P) => Good(e)
  BY <1>6, <1>7, LeafParts
<1>9. \/ next = {} /\ Holes(node, l, LastLBlock + 1)
      \/ \E f : next = {f} /\ f.first \in LBlocks /\ Holes(node, l, f.first - l)
  <2>1. CASE ~ HaveExtent(P)
    <3>1. \A y \in LBlocks : Lookup(node, y) = Hole
      <4>1. node[Landing(node, l)].ents = <<>>
        BY <2>1, <1>7 DEF b
      <4> QED BY <4>1, EmptyIs
    <3> QED BY <2>1, <3>1 DEF next, Holes
  <2>2. CASE HaveExtent(P) /\ l < e.first
    <3>1. e.first \in LBlocks /\ \A y \in LBlocks : l <= y /\ y < e.first => Lookup(node, y) = Hole
      BY <2>2, <1>6, <1>7, HeadIs DEF b, e
    <3>2. l + (e.first - l) = e.first
      BY <3>1, <1>1
    <3>3. Holes(node, l, e.first - l)
      BY <3>1, <3>2 DEF Holes
    <3> QED BY <2>2, <3>1, <3>3 DEF next
  <2>3. CASE HaveExtent(P) /\ ~ (l < e.first)
    <3>1. End64(e) <= l /\ End64(e) \in Int
      <4>1. e.first \in Int /\ End(e) = End64(e) /\ End64(e) \in Int
        BY <2>3, <1>8, GoodIs
      <4>2. ~ (e.first <= l /\ l < End(e))
        BY <2>3 DEF Covers, e
      <4> QED BY <4>1, <4>2, <2>3, <1>1
    <3>2. \/ NextExtent(node, P) = {} /\ Gap(node, l, LastLBlock + 1, e)
          \/ \E f : /\ NextExtent(node, P) = {f}
                    /\ f = NoEntry \/ (f.first \in LBlocks /\ l < f.first /\ Gap(node, l, f.first, e))
      <4>1. n.ents # <<>>
        BY <2>3, <1>7
      <4> QED BY <4>1, <1>6, NextIs DEF e, b
    <3>3. next = NextExtent(node, P)
      BY <2>3 DEF next
    <3>4. ASSUME NEW x \in Int, Gap(node, l, x, e) PROVE Holes(node, l, x - l)
      <4> SUFFICES ASSUME NEW y \in LBlocks, l <= y, y < l + (x - l) PROVE Lookup(node, y) = Hole
        BY DEF Holes
      <4>1. y \in Int /\ y < x /\ ~ (y < End64(e))
        BY <1>1, <3>1
      <4> QED BY <4>1, <3>4 DEF Gap
    <3>5. CASE next = {} /\ Gap(node, l, LastLBlock + 1, e)
      <4> SUFFICES Holes(node, l, LastLBlock + 1)
        BY <3>5
      <4> SUFFICES ASSUME NEW y \in LBlocks, l <= y PROVE Lookup(node, y) = Hole
        BY DEF Holes
      <4>1. y \in Int /\ y < LastLBlock + 1 /\ ~ (y < End64(e))
        BY <1>1, <3>1
      <4> QED BY <4>1, <3>5 DEF Gap
    <3>6. CASE \E f : next = {f} /\ (f = NoEntry \/ (f.first \in LBlocks /\ l < f.first /\ Gap(node, l, f.first, e)))
      <4>1. PICK f : next = {f} /\ (f = NoEntry \/ (f.first \in LBlocks /\ l < f.first /\ Gap(node, l, f.first, e)))
        BY <3>6
      <4>2. f # NoEntry
        BY <4>1, <1>4
      <4>3. f.first \in LBlocks /\ Gap(node, l, f.first, e) /\ f.first \in Int
        BY <4>1, <4>2, <1>1
      <4>4. Holes(node, l, f.first - l)
        BY <4>3, <3>4
      <4> QED BY <4>1, <4>3, <4>4
    <3> QED BY <3>2, <3>3, <3>5, <3>6
  <2> QED BY <2>1, <2>2, <2>3
<1>10. gaps = {} \/ \E g \in Nat \ {0} : gaps = {g}
  <2>1. CASE next = {}
    BY <2>1
  <2>2. CASE \E f : next = {f} /\ f.first \in LBlocks
    <3>1. PICK f : next = {f} /\ f.first \in LBlocks
      BY <2>2
    <3>2. f.first \in Int /\ ~ (f.first <= l)
      BY <3>1, <1>1, <1>4
    <3>3. f.first - l \in Nat \ {0} /\ gaps = {f.first - l}
      BY <3>1, <3>2, <1>1
    <3> QED BY Zenon, <3>3
  <2> QED BY <2>1, <2>2, <1>9
<1>11. c \in Nat \ {0} /\ c <= room /\ \A g \in gaps : c <= g
  <2> HIDE DEF gaps
  <2> QED BY <1>2, <1>10, MinOf
<1>12. Holes(node, l, c)
  <2> HIDE DEF c
  <2> SUFFICES ASSUME NEW x \in LBlocks, l <= x, x < l + c PROVE Lookup(node, x) = Hole
    BY DEF Holes
  <2>1. CASE next = {} /\ Holes(node, l, LastLBlock + 1)
    <3>1. x < l + (LastLBlock + 1)
      BY <1>1
    <3> QED BY <3>1, <2>1 DEF Holes
  <2>2. CASE \E f : next = {f} /\ f.first \in LBlocks /\ Holes(node, l, f.first - l)
    <3>1. PICK f : next = {f} /\ f.first \in LBlocks /\ Holes(node, l, f.first - l)
      BY <2>2
    <3> DEFINE g == f.first - l
    <3>2. g \in gaps
      BY <3>1
    <3>3. g \in Int /\ c <= g
      BY <3>1, <3>2, <1>1, <1>11
    <3> HIDE DEF g
    <3>4. x < l + g /\ x \in Int
      BY <3>3, <1>1, <1>11
    <3>5. Holes(node, l, g)
      BY <3>1 DEF g
    <3> QED BY <3>4, <3>5 DEF Holes
  <2> QED BY <2>1, <2>2, <1>9
<1>13. c <= max /\ c <= MaxLen
  <2> HIDE DEF c
  <2> QED BY <1>1, <1>2, <1>11
<1> HIDE DEF c
<1> QED BY <1>5, <1>11, <1>12, <1>13

-----------------------------------------------------------------------------
(* get_blocks begins. *)

(* An operation that returns at once. *)
LEMMA StillOn ==
  ASSUME NEW vw, NEW o, NEW nd \in [Places -> Nodes], NEW R \in SUBSET Places, NEW fr \in SUBSET Blocks,
         Sound(nd, R, fr, vw), NEW q \in Ops, q.pc = "done", q.fresh = {}, Returned(q) /\ q.kind = "get" => Answered(nd, R, q)
  PROVE  Onward(vw, o, nd, fr, vw, q)
<1>1. OthersKept(nd, vw, q)
  BY DEF OthersKept, Sound
<1>2. Fits(nd, R, fr, vw, q)
  BY <1>1 DEF Fits, Returned, LivePcs, GetPcs, RemovePcs, GrowPcs, SplitPcs, LeafPcs
<1> QED BY <1>2 DEF Onward, Took, Typed

(* The only leaf entry that can hold l is the one find_extent selects. *)
LEMMA Holder ==
  ASSUME NEW nd, NEW R, Tree(nd, R), NEW l \in LBlocks, NEW P, P = FindPath(nd, l), NEW b \in R, nd[b].depth = 0,
         NEW p \in 1 .. Len(nd[b].ents), l \in Keys(nd[b], p)
  PROVE  HaveExtent(P) /\ Covers(Leaf(P).ent, l) /\ nd[b].ents[p] = Leaf(P).ent
<1>1. Shape(nd, R) /\ l \in Int
  BY Width DEF Tree
<1>2. On(nd, l, b) /\ SearchPos(nd[b].ents, l) = p
  BY KeyOn
<1>3. b = Landing(nd, l)
  BY <1>1, <1>2, OnIs DEF Ends
<1>4. /\ HaveExtent(P) <=> nd[b].ents # <<>>
      /\ nd[b].ents # <<>> => Leaf(P).ent = nd[b].ents[p]
  <2>1. /\ HaveExtent(P) <=> nd[Landing(nd, l)].ents # <<>>
        /\ nd[Landing(nd, l)].ents # <<>> =>
              Leaf(P).pos = SearchPos(nd[Landing(nd, l)].ents, l) /\ Leaf(P).ent = nd[Landing(nd, l)].ents[Leaf(P).pos]
    BY <1>1, LeafIs
  <2> QED BY <2>1, <1>2, <1>3
<1> DEFINE n == nd[b]
<1>5. Fit(b, n) /\ n.depth = 0
  BY <1>1 DEF Shape
<1>6. l \in Keys(n, p) /\ p \in 1 .. Len(n.ents)
  OBVIOUS
<1> HIDE DEF n
<1>7. n.ents # <<>> /\ Good(n.ents[p])
  BY <1>5, <1>6, KeysAt, LeafParts
<1>8. Covers(n.ents[p], l)
  <2>1. End(n.ents[p]) = End64(n.ents[p]) /\ End64(n.ents[p]) \in Int
    BY <1>7, GoodIs
  <2>2. l \in n.ents[p].first .. End64(n.ents[p]) - 1
    BY <1>5, <1>6 DEF Keys
  <2> QED BY <2>1, <2>2, <1>1 DEF Covers
<1> QED BY <1>4, <1>7, <1>8 DEF n

(* How far an extent goes beyond l. *)
RunFrom(e, l, max, f, c) ==
    f = e.start + (l - e.first) /\ c = IF max < e.len - (l - e.first) THEN max ELSE e.len - (l - e.first)

Follows(nd, l, f, c) == \A k \in 0 .. c - 1 : Lookup(nd, l + k) = f + k

(* get_blocks finds an extent: it maps the whole run from l. *)
LEMMA HitIs ==
  ASSUME NEW nd, NEW R, Tree(nd, R), NEW l \in LBlocks, NEW P, P = FindPath(nd, l), FindResult(nd, P) = "EOK",
         NEW e, e = Leaf(P).ent, HaveExtent(P), Covers(e, l), NEW max \in Nat \ {0}, NEW f, NEW c, RunFrom(e, l, max, f, c)
  PROVE  /\ f \in Nat /\ c \in Nat \ {0}
         /\ Follows(nd, l, f, c)
<1> DEFINE b == Landing(nd, l)
           n == nd[b]
           p == Leaf(P).pos
<1>1. Shape(nd, R) /\ l \in Int
  BY Width DEF Tree
<1>2. n.depth = 0
  <2>1. FindResult(nd, P) = IF n.depth = 0 THEN "EOK" ELSE "ENOENT"
    BY <1>1, ResultIs
  <2> QED BY <2>1
<1>3. b \in R /\ n.ents # <<>> /\ p \in 1 .. Len(n.ents) /\ e = n.ents[p]
  BY <1>1, LeafIs
<1>4. Fit(b, n)
  BY <1>1, <1>3 DEF Shape
<1> HIDE DEF p, b
<1>5. Good(e)
  BY <1>2, <1>3, <1>4, LeafParts
<1>6. /\ e.first \in Nat /\ e.len \in Nat /\ e.start \in Nat /\ End64(e) = e.first + e.len
      /\ e.first <= l /\ l < End64(e) /\ e.first \in LBlocks
  BY <1>5, GoodIs DEF Covers
<1>7. f = e.start + (l - e.first) /\ c = IF max < e.len - (l - e.first) THEN max ELSE e.len - (l - e.first)
  BY DEF RunFrom
<1>8. l - e.first \in Nat /\ e.len - (l - e.first) \in Nat \ {0}
  BY <1>1, <1>6
<1>9. f \in Nat /\ c \in Nat \ {0} /\ c <= e.len - (l - e.first)
  BY <1>6, <1>7, <1>8
<1>10. ASSUME NEW k \in 0 .. c - 1 PROVE Lookup(nd, l + k) = f + k
  <2> DEFINE y == l + k
  <2>1. y \in e.first .. End64(e) - 1 /\ e.start + (y - e.first) = f + k
    BY <1>1, <1>6, <1>7, <1>9
  <2> HIDE DEF y
  <2> DEFINE v == f + k
  <2>2. Sends(e, y, v)
    BY <2>1 DEF Sends
  <2> HIDE DEF v
  <2>3. Gives(n, y, v)
    BY <2>2, <1>3 DEF Gives
  <2>4. Lookup(nd, y) = v
    BY Zenon, <2>3, <1>2, <1>3, GivesOn
  <2> QED BY <2>4 DEF y, v
<1> QED BY <1>9, <1>10 DEF Follows

(* ext4_extent_get_blocks up to its allocation. *)
LEMMA GetBlocksOn ==
  ASSUME Typed(node, free, op), NEW R \in SUBSET Places, Fits(node, R, free, view, op),
         NEW l \in LBlocks, NEW max \in Nat \ {0}, l + max <= LastLBlock, NEW create \in BOOLEAN, GetBlocks(l, max, create)
  PROVE  Onward(view, op, node', free', view', op')
<1> DEFINE P == FindPath(node, l)
           r == FindResult(node, P)
           e == Leaf(P).ent
           o == [IdleOp EXCEPT !.kind = "get", !.lo = l, !.hi = l, !.path = P]
           caps == AllocCap(P, l, max)
           hit == HaveExtent(P) /\ Covers(e, l)
           avail == e.len - (l - e.first)
           f == e.start + (l - e.first)
           c == IF max < avail THEN max ELSE avail
           g == IF HaveExtent(P) /\ End(e) = l THEN e.start + e.len ELSE GoalBlock
           q == op'
           end == l + (CHOOSE i \in caps : TRUE) - 1
<1>1. op.pc = "idle" /\ node' = node /\ free' = free /\ view' = view
  BY DEF GetBlocks, disk
<1>14. \/ r # "EOK" /\ q = Finish(o, r)
       \/ hit /\ e.unwritten /\ (q = Finish(o, "ENOTSUP") \/ q = Finish(o, "EOK"))
       \/ r = "EOK" /\ hit /\ q = [Finish(o, "EOK") EXCEPT !.first = f, !.cnt = c]
       \/ ~ hit /\ (q = Finish(o, "EOK") \/ q = Finish(o, "ENOTSUP") \/ q = Finish(o, "EIO"))
       \/ r = "EOK" /\ ~ hit /\ caps # {} /\ q = [o EXCEPT !.pc = "alloc", !.goal = g, !.hi = end]
  <2>1. q = IF r # "EOK" THEN Finish(o, r)
            ELSE IF hit /\ e.unwritten THEN Finish(o, IF create THEN "ENOTSUP" ELSE "EOK")
            ELSE IF hit THEN [Finish(o, "EOK") EXCEPT !.first = f, !.cnt = c]
            ELSE IF ~ create THEN Finish(o, "EOK")
            ELSE IF ~ journaled THEN Finish(o, "ENOTSUP")
            ELSE IF caps = {} THEN Finish(o, "EIO")
            ELSE [o EXCEPT !.pc = "alloc", !.goal = g, !.hi = end]
    BY Zenon DEF GetBlocks
  <2> DEFINE unw == e.unwritten
             A == Finish(o, r)
             B == Finish(o, "ENOTSUP")
             C == Finish(o, "EOK")
             D == Finish(o, "EIO")
             E == [Finish(o, "EOK") EXCEPT !.first = f, !.cnt = c]
             F == [o EXCEPT !.pc = "alloc", !.goal = g, !.hi = end]
             y == r = "EOK"
  <2>2. q = IF ~ y THEN A ELSE IF hit /\ unw THEN (IF create THEN B ELSE C) ELSE IF hit THEN E
            ELSE IF ~ create THEN C ELSE IF ~ journaled THEN B ELSE IF caps = {} THEN D ELSE F
    <3>1. CASE create
      <4> HIDE DEF r, o, hit, f, c, caps, g, end, e, q
      <4> QED BY <2>1, <3>1
    <3>2. CASE ~ create
      <4> HIDE DEF r, o, hit, f, c, caps, g, end, e, q
      <4> QED BY <2>1, <3>2
    <3> QED BY <3>1, <3>2
  <2> HIDE DEF q, A, B, C, D, E, F, unw, hit, y, caps
  <2>3. \/ ~ y /\ q = A
        \/ hit /\ unw /\ (q = B \/ q = C)
        \/ y /\ hit /\ q = E
        \/ ~ hit /\ (q = C \/ q = B \/ q = D)
        \/ y /\ ~ hit /\ caps # {} /\ q = F
    BY <2>2
  <2> QED BY <2>3 DEF A, B, C, D, E, F, unw, y
<1>2. Sound(node, R, free, view) /\ node \in [Places -> Nodes] /\ free \in SUBSET Blocks
  BY <1>1 DEF Fits, Typed
<1>3. Tree(node, R) /\ Neat(node, R, {}) /\ Owned(R, free, {}, view) /\ Shape(node, R) /\ (\A x \in LBlocks : Lookup(node, x) = view[x])
  BY <1>2 DEF Sound, Tree
<1>4. P \in Seq(PathSteps)
  BY <1>3, PathLinked
<1>5. r \in Errors
  <2>1. r = IF node[Landing(node, l)].depth = 0 THEN "EOK" ELSE "ENOENT"
    BY <1>3, ResultIs
  <2> QED BY <2>1 DEF Errors
<1>6. l \in Nat /\ l \in Int /\ LastLBlock \in Nat /\ LBlocks = 0 .. LastLBlock /\ 0 \in LBlocks /\ NBlocks \in Nat
  BY Width, SizeAssumption
<1>7. P = FindPath(node, l) /\ e = Leaf(P).ent
  OBVIOUS
<1> HIDE DEF P, r, e
<1>8. /\ o.pc = "idle" /\ o.kind = "get" /\ o.lo = l /\ o.hi = l /\ o.from = 0 /\ o.cut = 0 /\ o.first = 0 /\ o.cnt = 0
      /\ o.goal = 0 /\ o.path = P /\ o.lvl = 0 /\ o.key = 0 /\ o.fresh = {} /\ o.tries = 0 /\ o.res = "EOK" /\ o \in Ops
  BY Zenon, <1>4, <1>6 DEF IdleOp, Ops, Pcs, Errors
<1> HIDE DEF o, q
<1>9. ASSUME NEW s \in Errors, q = Finish(o, s), s = "EOK" => (hit => e.unwritten)
      PROVE  Onward(view, op, node', free', view', q)
  <2>1. q \in Ops /\ q.pc = "done" /\ q.fresh = {} /\ q.res = s /\ q.lo = l /\ q.cnt = 0
    BY Zenon, <1>8, <1>9 DEF Finish, Ops, Pcs
  <2>2. ASSUME s = "EOK" PROVE Answered(node, R, q)
    <3>1. ASSUME NEW b \in R, NEW p \in 1 .. Len(node[b].ents), node[b].depth = 0 /\ l \in Keys(node[b], p)
          PROVE node[b].ents[p].unwritten
      <4>1. HaveExtent(P) /\ Covers(e, l) /\ node[b].ents[p] = e
        BY <1>3, <1>7, <3>1, Holder
      <4> QED BY <4>1, <1>9, <2>2
    <3> QED BY <2>1, <3>1 DEF Answered
  <2>3. Returned(q) /\ q.kind = "get" => Answered(node, R, q)
    BY <2>1, <2>2 DEF Returned
  <2>4. Onward(view, op, node, free, view, q)
    BY <1>2, <2>1, <2>3, StillOn
  <2> QED BY <2>4, <1>1
<1>10. CASE r = "EOK" /\ hit /\ q = [Finish(o, "EOK") EXCEPT !.first = f, !.cnt = c]
  <2>1. RunFrom(e, l, max, f, c) /\ FindResult(node, P) = "EOK" /\ HaveExtent(P) /\ Covers(e, l) /\ e = Leaf(P).ent
    BY <1>10, <1>7 DEF RunFrom, r
  <2> HIDE DEF f, c
  <2>2. f \in Nat /\ c \in Nat \ {0} /\ Follows(node, l, f, c)
    BY <2>1, <1>3, <1>7, HitIs
  <2>3. q \in Ops /\ q.pc = "done" /\ q.fresh = {} /\ q.lo = l /\ q.cnt = c /\ q.first = f
    BY Zenon, <1>8, <1>10, <2>2 DEF Finish, Ops, Pcs, Errors
  <2>4. Answered(node, R, q)
    BY <2>2, <2>3 DEF Answered, Follows
  <2>5. Onward(view, op, node, free, view, q)
    BY <1>2, <2>3, <2>4, StillOn
  <2> QED BY <2>5, <1>1 DEF q
<1>11. CASE r = "EOK" /\ ~ hit /\ caps # {} /\ q = [o EXCEPT !.pc = "alloc", !.goal = g, !.hi = end]
  <2>1. PICK m \in Nat \ {0} : caps = {m} /\ m <= max /\ m <= MaxLen /\ Holes(node, l, m)
    <3>1. FindResult(node, P) = "EOK" /\ ~ (HaveExtent(P) /\ Covers(Leaf(P).ent, l)) /\ AllocCap(P, l, max) # {}
      BY <1>11 DEF r, e
    <3> QED BY <3>1, <1>3, <1>7, CapIs
  <2>2. (CHOOSE i \in caps : TRUE) = m
    BY <2>1
  <2> DEFINE h == l + m - 1
  <2>3. /\ h \in Nat /\ l <= h /\ h < LastLBlock /\ h - l + 1 = m /\ h \in LBlocks
    BY <2>1, <1>6
  <2>4. \A x \in l .. h : x \in LBlocks /\ view[x] = Hole
    <3> SUFFICES ASSUME NEW x \in l .. h PROVE x \in LBlocks /\ view[x] = Hole
      OBVIOUS
    <3>1. x \in LBlocks /\ l <= x /\ x < l + m
      BY <1>6, <2>1, <2>3
    <3> QED BY <3>1, <2>1, <1>3 DEF Holes
  <2>5. g \in Nat
    <3>1. HaveExtent(P) => e.start + e.len \in Nat
      <4> SUFFICES ASSUME HaveExtent(P) PROVE e.start + e.len \in Nat
        OBVIOUS
      <4> DEFINE b == Landing(node, l)
                 n == node[b]
                 s == Leaf(P).pos
      <4>1. n.depth = 0
        <5>1. r = IF node[Landing(node, l)].depth = 0 THEN "EOK" ELSE "ENOENT"
          BY <1>3, <1>7, ResultIs DEF r
        <5> QED BY <5>1, <1>11
      <4>2. b \in R /\ n.ents # <<>> /\ s \in 1 .. Len(n.ents) /\ e = n.ents[s]
        BY <1>3, <1>7, LeafIs
      <4>3. Fit(b, n)
        BY <1>3, <4>2 DEF Shape
      <4> HIDE DEF b, s
      <4>4. Good(e)
        BY <4>1, <4>2, <4>3, LeafParts
      <4> QED BY <4>4, GoodIs
    <3> QED BY <3>1, GoalAssumption
  <2> HIDE DEF g, h
  <2>6. q = [o EXCEPT !.pc = "alloc", !.goal = g, !.hi = h]
    BY Zenon, <1>11, <2>2 DEF h, end
  <2>7. /\ q.pc = "alloc" /\ q.kind = "get" /\ q.lo = l /\ q.hi = h /\ q.from = 0 /\ q.first = 0 /\ q.cnt = 0
        /\ q.fresh = {} /\ q.res = "EOK" /\ q \in Ops
    BY Zenon, <1>8, <2>3, <2>5, <2>6 DEF Ops, Pcs
  <2>8. Loose(q) = {} /\ Base(view, q) = view
    BY <2>7 DEF Loose, Base, OpBlocks
  <2>9. Numbers(node, view, q)
    <3>1. GetNumbers(view, q)
      BY <2>1, <2>3, <2>4, <2>7, <1>6 DEF GetNumbers, GetPcs
    <3> QED BY <3>1, <2>3, <2>7 DEF Numbers, FreshPcs, GrowPcs
  <2>10. PathKept(node, R, q)
    BY <2>7 DEF PathKept, SplitPcs, LeafPcs
  <2>11. Calm(node, R, free, view, q)
    BY <1>3, <2>8 DEF Calm
  <2>12. Busy(node, R, free, view, q)
    BY <2>7, <2>9, <2>10, <2>11, CalmIs DEF CalmPcs
  <2>13. view = Seen(view, node, q) /\ Typed(node, free, q) /\ q.pc \in LivePcs
    BY <2>7, <1>2 DEF Seen, Returned, Typed, LivePcs, GetPcs
  <2>14. Onward(view, op, node, free, view, q)
    BY <2>12, <2>13, LiveOn
  <2> QED BY <2>14, <1>1 DEF q
<1>12. "EOK" \in Errors /\ "ENOTSUP" \in Errors /\ "EIO" \in Errors
  BY DEF Errors
<1>13. Onward(view, op, node', free', view', q)
  <2> HIDE DEF f, c, g, caps
  <2>1. CASE r # "EOK" /\ q = Finish(o, r)
    BY <2>1, <1>5, <1>9
  <2>2. CASE hit /\ e.unwritten /\ (q = Finish(o, "ENOTSUP") \/ q = Finish(o, "EOK"))
    BY <2>2, <1>9, <1>12
  <2>3. CASE ~ hit /\ (q = Finish(o, "EOK") \/ q = Finish(o, "ENOTSUP") \/ q = Finish(o, "EIO"))
    BY <2>3, <1>9, <1>12
  <2> HIDE DEF hit, end
  <2> QED BY <2>1, <2>2, <2>3, <1>14, <1>10, <1>11 DEF q
<1> QED BY <1>13 DEF q

(* ext4_extent_remove_space up to its loop. *)
LEMMA RemoveSpaceOn ==
  ASSUME Typed(node, free, op), NEW R \in SUBSET Places, Fits(node, R, free, view, op),
         NEW from \in LBlocks, NEW to \in LBlocks, RemoveSpace(from, to)
  PROVE  Onward(view, op, node', free', view', op')
<1> DEFINE o == [IdleOp EXCEPT !.kind = "remove", !.lo = from, !.hi = to, !.from = from]
           q == op'
<1>1. op.pc = "idle" /\ node' = node /\ free' = free /\ view' = view
  BY DEF RemoveSpace, disk
<1>2. q = [o EXCEPT !.pc = "remove"] \/ q = Finish(o, "ENOTSUP")
  BY DEF RemoveSpace
<1>3. Sound(node, R, free, view) /\ node \in [Places -> Nodes] /\ free \in SUBSET Blocks
  BY <1>1 DEF Fits, Typed
<1>4. from \in Nat /\ to \in Nat /\ 0 \in LBlocks /\ LBlocks \subseteq Int
  BY Width
<1>5. /\ o.pc = "idle" /\ o.kind = "remove" /\ o.lo = from /\ o.hi = to /\ o.from = from
      /\ o.fresh = {} /\ o.res = "EOK" /\ o \in Ops
  <2>1. <<>> \in Seq(PathSteps) /\ {} \in SUBSET Blocks
    OBVIOUS
  <2>2. IdleOp \in Ops /\ IdleOp.pc = "idle" /\ IdleOp.fresh = {} /\ IdleOp.res = "EOK"
    BY <2>1, <1>4 DEF IdleOp, Ops, Pcs, Errors
  <2> QED BY Zenon, <2>2, <1>4 DEF Ops
<1> HIDE DEF o, q
<1>6. CASE q = Finish(o, "ENOTSUP")
  <2>1. q \in Ops /\ q.pc = "done" /\ q.fresh = {} /\ q.kind = "remove"
    BY Zenon, <1>5, <1>6 DEF Finish, Ops, Pcs, Errors
  <2>2. Onward(view, op, node, free, view, q)
    BY <1>3, <2>1, StillOn
  <2> QED BY <1>1, <2>2 DEF q
<1>7. CASE q = [o EXCEPT !.pc = "remove"]
  <2>1. /\ q \in Ops /\ q.pc = "remove" /\ q.fresh = {} /\ q.kind = "remove" /\ q.lo = from /\ q.hi = to /\ q.from = from
        /\ q.res = "EOK"
    BY Zenon, <1>5, <1>7 DEF Ops, Pcs
  <2>2. Base(view, q) = view
    <3>1. view = [l \in LBlocks |-> view[l]]
      BY <1>3 DEF Sound, Owned, AllMaps
    <3>2. \A l \in LBlocks : ~ (l \in q.lo .. q.hi /\ l < q.from)
      BY <1>4, <2>1
    <3>3. Clear(view, q, q.from) = view
      BY <3>1, <3>2 DEF Clear
    <3> QED BY <2>1, <3>3 DEF Base
  <2>3. Loose(q) = {}
    BY <2>1 DEF Loose
  <2>4. Calm(node, R, free, view, q)
    BY <1>3, <2>2, <2>3 DEF Calm, Sound
  <2>5. Numbers(node, view, q) /\ PathKept(node, R, q)
    BY <1>4, <2>1 DEF Numbers, RemoveNumbers, RemovePcs, FreshPcs, GrowPcs, LeafPcs, SplitPcs, PathKept
  <2>6. Busy(node, R, free, view, q)
    BY <2>1, <2>4, <2>5, CalmIs DEF CalmPcs
  <2>7. view = Seen(view, node, q) /\ Typed(node, free, q) /\ q.pc \in LivePcs
    BY <2>1, <1>3 DEF Seen, Returned, Typed, LivePcs, RemovePcs
  <2>8. Onward(view, op, node, free, view, q)
    BY <2>6, <2>7, LiveOn
  <2> QED BY <1>1, <2>8 DEF q
<1> QED BY <1>2, <1>6, <1>7 DEF q

-----------------------------------------------------------------------------
(* The allocation loop. *)

(* What get_blocks knows while it allocates. *)
LEMMA AllocIs ==
  ASSUME NEW nd, NEW R, NEW fr, NEW vw, NEW o \in Ops, Fits(nd, R, fr, vw, o), o.pc = "alloc"
  PROVE  /\ o.kind = "get" /\ Calm(nd, R, fr, vw, o) /\ Base(vw, o) = vw /\ Loose(o) = OpBlocks(o)
         /\ o.fresh = {} /\ o.res = "EOK" /\ o.lo \in LBlocks /\ o.hi \in LBlocks
         /\ fr \subseteq Blocks /\ OthersKept(nd, vw, o)
         /\ GetNumbers(vw, o) /\ OpBlocks(o) = o.first .. o.first + o.cnt - 1
         /\ o.lo \in Int /\ o.hi \in Int /\ o.cnt \in Nat /\ o.first \in Nat /\ LBlocks = 0 .. LastLBlock
         /\ LastLBlock \in Nat /\ NBlocks \in Nat /\ MaxLen \in Nat
<1>1. o.pc \in LivePcs /\ o.pc \in CalmPcs /\ o.pc \notin RemovePcs /\ o.pc \notin FreshPcs /\ o.pc # "fix"
  BY DEF LivePcs, GetPcs, RemovePcs, GrowPcs, SplitPcs, LeafPcs, CalmPcs, FreshPcs
<1>2. /\ Busy(nd, R, fr, vw, o) /\ o.kind = "get" /\ o.fresh = {} /\ o.res = "EOK" /\ o.lo \in LBlocks /\ o.hi \in LBlocks
      /\ GetNumbers(vw, o) /\ OthersKept(nd, vw, o)
  BY <1>1, LiveIs
<1>3. Calm(nd, R, fr, vw, o) /\ Base(vw, o) = vw
  BY <1>1, <1>2, CalmIs DEF Base
<1>4. Loose(o) = OpBlocks(o) /\ OpBlocks(o) = o.first .. o.first + o.cnt - 1
  BY <1>1, <1>2 DEF Loose, OpBlocks
<1>5. fr \subseteq Blocks
  BY <1>3 DEF Calm, Owned
<1> QED BY <1>2, <1>3, <1>4, <1>5, OpIs, Width, SizeAssumption

(* AllocBlock: the run grows by one block, ends, or the call fails. *)
LEMMA AllocBlockOn ==
  ASSUME Typed(node, free, op), NEW R \in SUBSET Places, Fits(node, R, free, view, op), AllocBlock
  PROVE  Onward(view, op, node', free', view', op')
<1> DEFINE stop == [op EXCEPT !.pc = "insert", !.hi = op.lo + op.cnt - 1]
           q == op'
           n == op.cnt
           f == op.first
           lo == op.lo
           hi == op.hi
<1>1. op.pc = "alloc" /\ node' = node /\ view' = Seen(view, node, op') /\ op \in Ops /\ node \in [Places -> Nodes]
      /\ free \in SUBSET Blocks
  <2>1. op.pc = "alloc" /\ node' = node /\ Step
    BY Zenon DEF AllocBlock
  <2> QED BY <2>1 DEF Step, Seen, Typed
<1>2. /\ op.kind = "get" /\ Calm(node, R, free, view, op) /\ Base(view, op) = view /\ Loose(op) = f .. f + n - 1
      /\ op.fresh = {} /\ op.res = "EOK" /\ lo \in LBlocks /\ hi \in LBlocks
      /\ OthersKept(node, view, op)
      /\ GetNumbers(view, op) /\ OpBlocks(op) = f .. f + n - 1
      /\ lo \in Int /\ hi \in Int /\ n \in Nat /\ f \in Nat /\ LBlocks = 0 .. LastLBlock
      /\ LastLBlock \in Nat /\ NBlocks \in Nat /\ MaxLen \in Nat
  BY <1>1, AllocIs
<1>3. /\ lo <= hi /\ hi < LastLBlock /\ hi - lo + 1 <= MaxLen /\ n < hi - lo + 1
      /\ f + n - 1 <= NBlocks /\ (n > 0 => f \in Blocks)
      /\ \A l \in lo .. hi : view[l] = Hole
  BY <1>1, <1>2 DEF GetNumbers
<1> DEFINE grab(c) == [op EXCEPT !.pc = IF n + 1 = hi - lo + 1 THEN "insert" ELSE "alloc",
                                 !.first = IF n = 0 THEN c ELSE @, !.cnt = @ + 1, !.goal = c + 1]
           none == Finish(op, "ENOSPC")
           bad == Fail(op, "EIO")
<1>4. \/ \E c \in free : (n = 0 \/ c = f + n) /\ free' = free \ {c} /\ q = grab(c)
      \/ n # 0 /\ q = stop /\ free' = free
      \/ n = 0 /\ q = none /\ free' = free
      \/ q = bad /\ free' \in SUBSET free
  <2>1. \/ \E c \in Pick(op.goal) : IF n = 0 \/ c = f + n THEN free' = free \ {c} /\ q = grab(c)
                                                          ELSE q = stop /\ free' = free
        \/ q = (IF n = 0 THEN none ELSE stop) /\ free' = free
        \/ q = bad /\ free' \in {free} \cup {free \ {c} : c \in Pick(op.goal)}
    BY Zenon DEF AllocBlock
  <2>2. Pick(op.goal) \subseteq free
    BY DEF Pick
  <2> HIDE DEF grab, none, bad, stop, q, n, f
  <2> QED BY <2>1, <2>2
<1>5. CASE n # 0 /\ q = stop /\ free' = free
  <2> DEFINE h == lo + n - 1
  <2>1. h \in Nat /\ lo <= h /\ h <= hi /\ h \in LBlocks /\ h - lo + 1 = n
    <3> HIDE DEF lo, hi, n
    <3>1. lo \in 0 .. LastLBlock /\ lo \in Int /\ hi \in Int /\ n \in Nat /\ LastLBlock \in Nat /\ n # 0
      BY <1>2, <1>5
    <3>2. lo <= hi /\ hi < LastLBlock /\ n < hi - lo + 1
      BY <1>3
    <3>3. h \in Nat /\ lo <= h /\ h <= hi /\ h \in 0 .. LastLBlock /\ h - lo + 1 = n
      BY <3>1, <3>2
    <3> QED BY <3>3, <1>2
  <2> HIDE DEF h
  <2>2. q = [op EXCEPT !.pc = "insert", !.hi = h]
    BY <1>5 DEF h
  <2> HIDE DEF q
  <2>3. /\ q \in Ops /\ q.pc = "insert" /\ q.kind = "get" /\ q.lo = lo /\ q.hi = h /\ q.first = f /\ q.cnt = n
        /\ q.fresh = {} /\ q.res = "EOK"
    BY Zenon, <1>1, <1>2, <2>1, <2>2 DEF Ops, Pcs
  <2>4. Loose(q) = Loose(op) /\ Base(view, q) = Base(view, op)
    <3>1. OpBlocks(q) = f .. f + n - 1
      BY <2>3 DEF OpBlocks
    <3> QED BY <3>1, <2>3, <1>2 DEF Loose, Base
  <2>5. GetNumbers(view, q)
    <3>1. \A l \in lo .. h : view[l] = Hole
      <4>1. \A l \in lo .. h : l \in lo .. hi
        BY <2>1, <1>2
      <4> QED BY <4>1, <1>3
    <3>2. h < LastLBlock /\ h - lo + 1 <= MaxLen
      BY <2>1, <1>2, <1>3
    <3> HIDE DEF n, f, lo, hi
    <3> QED BY <2>1, <2>3, <3>1, <3>2, <1>3, <1>5 DEF GetNumbers, GetPcs
  <2>6. Numbers(node, view, q) /\ PathKept(node, R, q)
    BY <2>1, <2>3, <2>5, <1>2 DEF Numbers, FreshPcs, GrowPcs, PathKept, SplitPcs, LeafPcs
  <2>7. Typed(node, free, q) /\ q.pc \in CalmPcs /\ op.pc \in CalmPcs
    BY <1>1, <2>3 DEF Typed, CalmPcs
  <2> DEFINE x == view'
  <2>8. x = Seen(view, node, q)
    BY <1>1 DEF q
  <2>9. Onward(view, op, node, free, x, q)
    <3> HIDE DEF x
    <3>1. q.kind = op.kind /\ q.kind \in {"get", "remove"} /\ Calm(node, R, free, view, op)
      BY <1>2, <2>3
    <3> QED BY <3>1, <2>4, <2>6, <2>7, <2>8, CalmOn
  <2> QED BY <2>9, <1>1, <1>5 DEF q
<1>6. CASE n = 0 /\ q = none /\ free' = free
  <2>1. /\ q \in Ops /\ q.pc = "done" /\ q.kind = "get" /\ q.lo = lo /\ q.hi = hi /\ q.fresh = {} /\ q.res = "ENOSPC"
    BY Zenon, <1>1, <1>2, <1>6 DEF Ops, Pcs, Errors, Finish
  <2> HIDE DEF q
  <2>2. OthersKept(node, view, q)
    BY <2>1, <1>2 DEF OthersKept
  <2>3. Fits(node, R, free, view, q)
    BY <2>1, <2>2 DEF Fits, Returned, LivePcs, GetPcs, RemovePcs, GrowPcs, SplitPcs, LeafPcs
  <2>4. view' = view
    BY <1>1, <2>1 DEF Seen, Returned, q
  <2>5. Typed(node, free, q)
    BY <1>1, <2>1 DEF Typed
  <2> QED BY <2>3, <2>4, <2>5, <1>1, <1>6 DEF Onward, Took, q
<1>7. CASE q = bad /\ free' \in SUBSET free
  <2>1. "EIO" \in Errors \ {"EOK"} /\ free' \in SUBSET Blocks /\ op.pc \in LivePcs
    BY <1>1, <1>7 DEF Errors, LivePcs, GetPcs
  <2> QED BY <2>1, <1>1, <1>7, FailStill
<1>8. ASSUME NEW c \in free, n = 0 \/ c = f + n, free' = free \ {c},
             q = grab(c)
      PROVE  Onward(view, op, node', free', view', op')
  <2> DEFINE g == IF n = 0 THEN c ELSE f
             m == n + 1
             pc == IF n + 1 = hi - lo + 1 THEN "insert" ELSE "alloc"
             gl == c + 1
             fr == free \ {c}
  <2>1. c \in Blocks /\ c \in Nat
    BY <1>1, <1>2 DEF Blocks
  <2>2. /\ g \in Nat /\ m \in Nat /\ gl \in Nat /\ g + m - 1 = c /\ c <= NBlocks /\ g \in Blocks /\ m > 0 /\ m # 0
        /\ m <= hi - lo + 1 /\ (pc = "alloc" => m < hi - lo + 1) /\ (pc # "alloc" => m = hi - lo + 1)
        /\ pc \in {"insert", "alloc"}
    <3>1. n = 0 => g = c
      OBVIOUS
    <3>2. n # 0 => g = f /\ c = f + n /\ f \in Blocks
      BY <1>2, <1>3, <1>8
    <3>3. c <= NBlocks
      BY <2>1, <1>2 DEF Blocks
    <3>4. /\ pc = "alloc" => m # hi - lo + 1
          /\ pc # "alloc" => m = hi - lo + 1
          /\ pc \in {"insert", "alloc"}
      OBVIOUS
    <3> HIDE DEF g, n, f, pc, hi, lo
    <3>5. hi \in Int /\ lo \in Int /\ n \in Nat /\ f \in Nat /\ n < hi - lo + 1
      BY <1>2, <1>3
    <3>6. /\ m \in Nat /\ m > 0 /\ m # 0 /\ m <= hi - lo + 1 /\ gl \in Nat
          /\ m # hi - lo + 1 => m < hi - lo + 1
      BY <2>1, <3>5
    <3>7. g \in Nat /\ g + m - 1 = c /\ g \in Blocks
      BY <2>1, <3>1, <3>2, <3>5
    <3> HIDE DEF m, gl
    <3> QED BY <3>3, <3>4, <3>6, <3>7
  <2>3. g .. g + m - 1 = (f .. f + n - 1) \cup {c}
    <3>1. CASE n = 0
      BY <3>1, <1>2, <2>1
    <3>2. CASE n # 0
      <4>1. g = f /\ c = f + n /\ m = n + 1
        BY <3>2, <1>8
      <4> HIDE DEF n, f, g, m
      <4> QED BY <4>1, <1>2, <2>1
    <3> QED BY <3>1, <3>2
  <2>4. q = [op EXCEPT !.pc = pc, !.first = g, !.cnt = m, !.goal = gl]
    BY <1>8
  <2> HIDE DEF g, m, pc, gl, q
  <2>5. /\ q \in Ops /\ q.pc = pc /\ q.kind = "get" /\ q.lo = lo /\ q.hi = hi /\ q.first = g /\ q.cnt = m
        /\ q.fresh = {} /\ q.res = "EOK"
    BY Zenon, <1>1, <1>2, <2>2, <2>4 DEF Ops, Pcs
  <2>6. Loose(q) = Loose(op) \cup {c} /\ Base(view, q) = view
    <3>1. OpBlocks(q) = g .. g + m - 1
      BY <2>5 DEF OpBlocks
    <3>2. q.pc # "fix"
      BY <2>2, <2>5
    <3> HIDE DEF n, f
    <3> QED BY <3>1, <3>2, <2>3, <2>5, <1>2 DEF Loose, Base
  <2>7. Calm(node, R, fr, view, q)
    <3>1. Owned(R, free, Loose(op), view) /\ {c} \in SUBSET free
      BY <1>2 DEF Calm
    <3>2. Owned(R, free \ {c}, Loose(op) \cup {c}, view)
      BY Zenon, <3>1, OwnTake
    <3> QED BY <3>2, <2>6, <1>2 DEF Calm
  <2>8. GetNumbers(view, q)
    <3> HIDE DEF n, f, lo, hi
    <3>1. g + m - 1 <= NBlocks
      BY <2>2
    <3> QED BY <2>2, <2>5, <3>1, <1>3 DEF GetNumbers, GetPcs
  <2>9. Numbers(node, view, q) /\ PathKept(node, R, q)
    <3>1. q.pc \in {"insert", "alloc"}
      BY <2>2, <2>5
    <3> QED BY <3>1, <2>5, <2>8, <1>2 DEF Numbers, FreshPcs, GrowPcs, PathKept, SplitPcs, LeafPcs
  <2>10. q.pc \in CalmPcs /\ q.pc \in LivePcs /\ q.pc # "done"
    BY <2>2, <2>5 DEF CalmPcs, LivePcs, GetPcs
  <2>11. Busy(node, R, fr, view, q)
    <3> HIDE DEF fr
    <3>1. q.kind \in {"get", "remove"}
      BY <2>5
    <3> QED BY <3>1, <2>7, <2>9, <2>10, CalmIs
  <2>12. Typed(node, fr, q)
    BY <1>1, <2>5 DEF Typed
  <2> DEFINE x == view'
  <2>13. x = Seen(view, node, q)
    BY <1>1 DEF q
  <2>14. Onward(view, op, node, fr, x, q)
    <3> HIDE DEF x, fr
    <3> QED BY <2>10, <2>11, <2>12, <2>13, LiveOn
  <2> QED BY <2>14, <1>1, <1>8 DEF q
<1> HIDE DEF stop, n, f, lo, hi, q, grab, none, bad
<1> QED BY <1>4, <1>5, <1>6, <1>7, <1>8

-----------------------------------------------------------------------------
(* Making room. *)

(* What holds where the tree is plain. *)
LEMMA CalmNow ==
  ASSUME Typed(node, free, op), NEW R, Fits(node, R, free, view, op), op.pc \in CalmPcs
  PROVE  /\ op \in Ops /\ op.pc \in LivePcs /\ Calm(node, R, free, view, op) /\ Tree(node, R) /\ Neat(node, R, {})
         /\ Shape(node, R) /\ node \in [Places -> Nodes] /\ free \in SUBSET Blocks
         /\ op.kind \in {"get", "remove"} /\ Numbers(node, view, op) /\ PathKept(node, R, op)
         /\ op.res = "EOK" /\ op.lo \in LBlocks /\ op.hi \in LBlocks /\ Key(op) \in LBlocks
         /\ OthersKept(node, view, op) /\ OpBlocks(op) \subseteq Blocks
         /\ Owned(R, free, Loose(op), Base(view, op)) /\ \A l \in LBlocks : Lookup(node, l) = Base(view, op)[l]
         /\ Loose(op) = op.fresh \cup OpBlocks(op)
<1>1. op.pc \in LivePcs /\ op \in Ops
  BY DEF Typed, LivePcs, GetPcs, RemovePcs, GrowPcs, SplitPcs, LeafPcs, CalmPcs
<1>2. /\ Busy(node, R, free, view, op) /\ OthersKept(node, view, op) /\ OpBlocks(op) \subseteq Blocks
      /\ op.kind \in {"get", "remove"} /\ Numbers(node, view, op) /\ PathKept(node, R, op)
      /\ op.res = "EOK" /\ op.lo \in LBlocks /\ op.hi \in LBlocks
      /\ op.kind = "remove" => RemoveNumbers(op)
  BY <1>1, LiveIs
<1>3. Calm(node, R, free, view, op)
  BY <1>2, CalmIs
<1>4. Key(op) \in LBlocks
  BY <1>2 DEF Key, RemoveNumbers
<1>5. Loose(op) = op.fresh \cup OpBlocks(op)
  <2>1. op.pc # "fix" /\ op.pc # "indexfree" /\ op.pc # "middlefree"
    BY DEF CalmPcs, GrowPcs, SplitPcs
  <2> QED BY <2>1, <1>2 DEF Loose, OpBlocks
<1> QED BY <1>1, <1>2, <1>3, <1>4, <1>5 DEF Calm, Tree, Typed

(* An operation that goes on in another state with the same blocks and numbers. *)
Alike(o, q) ==
    /\ q.kind = o.kind /\ q.lo = o.lo /\ q.hi = o.hi /\ q.from = o.from /\ q.first = o.first /\ q.cnt = o.cnt /\ q.res = o.res

(* Such states have the same blocks, base, key and targets. *)
LEMMA AlikeIs ==
  ASSUME NEW o, NEW q, Alike(o, q), NEW vw
  PROVE  /\ OpBlocks(q) = OpBlocks(o) /\ Base(vw, q) = Base(vw, o) /\ Filled(vw, q) = Filled(vw, o)
         /\ Key(q) = Key(o) /\ (\A x : Clear(vw, q, x) = Clear(vw, o, x))
         /\ \A nd : OthersKept(nd, vw, o) => OthersKept(nd, vw, q)
<1>1. Filled(vw, q) = Filled(vw, o) /\ \A x : Clear(vw, q, x) = Clear(vw, o, x)
  BY DEF Alike, Filled, Clear
<1> QED BY <1>1 DEF Alike, OpBlocks, Base, Key, OthersKept

(* The numbers of an operation that has left its allocation and its loop. *)
LEMMA AlikeNumbers ==
  ASSUME NEW nd, NEW md, NEW vw, NEW o, Numbers(nd, vw, o), NEW q, Alike(o, q),
         o.pc \in {"room"} \cup GrowPcs \cup SplitPcs, q.pc \in {"room"} \cup GrowPcs \cup SplitPcs,
         IF q.pc \in FreshPcs THEN \E b \in Blocks : q.fresh = {b} ELSE q.fresh = {}, q.fresh \cap OpBlocks(o) = {},
         q.pc \in GrowPcs => Len(md[Root].ents) >= RootMax,
         q.pc \in {"growput", "growroot"} => md[Root].depth < MaxDepth,
         q.pc = "growroot" => \A b \in q.fresh : md[b] = md[Root]
  PROVE  Numbers(md, vw, q)
<1>1. OpBlocks(q) = OpBlocks(o)
  BY AlikeIs
<1>2. GetNumbers(vw, o) => GetNumbers(vw, q)
  BY DEF Alike, GetNumbers, GetPcs, GrowPcs, SplitPcs
<1>3. RemoveNumbers(o) => RemoveNumbers(q)
  BY DEF Alike, RemoveNumbers, RemovePcs, GrowPcs, SplitPcs, LeafPcs
<1> QED BY <1>1, <1>2, <1>3 DEF Numbers, Alike

-----------------------------------------------------------------------------
(* A range in the middle of an extent is removed. *)

(* What remove_middle_of_extent keeps of its extent. *)
PrefixOf(e, from, x) == x = [e EXCEPT !.len = from - e.first]
SuffixOf(e, to, y) == y = [e EXCEPT !.first = to + 1, !.len = End64(e) - 1 - to, !.start = e.start + (to + 1 - e.first)]

(* The two remainders of an extent. *)
LEMMA Remainders ==
  ASSUME NEW e, Good(e), NEW from \in Int, NEW to \in Int, from <= to, e.first < from, to < End64(e) - 1,
         NEW x, PrefixOf(e, from, x), NEW y, SuffixOf(e, to, y)
  PROVE  /\ Good(x) /\ x.first = e.first /\ End64(x) = from
         /\ Good(y) /\ y.first = to + 1 /\ End64(y) = End64(e)
         /\ \A l, v : Sends(x, l, v) \/ Sends(y, l, v) <=> Sends(e, l, v) /\ l \notin from .. to
<1>1. e \in Extents /\ e.first \in Int /\ End64(e) \in Int
  BY GoodIs DEF Good
<1>2. x = [e EXCEPT !.len = from - e.first] /\ from <= End64(e)
  BY <1>1 DEF PrefixOf
<1>3. /\ Good(x) /\ x.first = e.first /\ End64(x) = from
      /\ \A l, v : Sends(x, l, v) <=> Sends(e, l, v) /\ l < from
  BY <1>2, Prefix
<1>4. y = [first |-> to + 1, len |-> End64(e) - 1 - to, start |-> e.start + (to + 1 - e.first), unwritten |-> e.unwritten]
  <2> DEFINE a == to + 1
             m == End64(e) - 1 - to
             c == e.start + (to + 1 - e.first)
  <2>1. y = [e EXCEPT !.first = a, !.len = m, !.start = c]
    BY DEF SuffixOf
  <2> HIDE DEF a, m, c
  <2>2. y = [first |-> a, len |-> m, start |-> c, unwritten |-> e.unwritten]
    BY Zenon, <2>1, <1>1 DEF Extents
  <2> QED BY <2>2 DEF a, m, c
<1>5. /\ Good(y) /\ y.first = to + 1 /\ End64(y) = End64(e)
      /\ \A l, v : Sends(y, l, v) <=> Sends(e, l, v) /\ to < l
  <2>1. e.first <= to
    BY <1>1
  <2> QED BY <2>1, <1>4, Suffix
<1>6. \A l, v : Sends(x, l, v) \/ Sends(y, l, v) <=> Sends(e, l, v) /\ l \notin from .. to
  <2> SUFFICES ASSUME NEW l, NEW v PROVE Sends(x, l, v) \/ Sends(y, l, v) <=> Sends(e, l, v) /\ l \notin from .. to
    OBVIOUS
  <2>1. Sends(e, l, v) => l \in Int
    BY <1>1 DEF Sends
  <2>2. l \in Int => (l < from \/ to < l <=> l \notin from .. to)
    OBVIOUS
  <2> QED BY <2>1, <2>2, <1>3, <1>5
<1> QED BY <1>3, <1>5, <1>6

EntryOf(n, p, e) == e = n.ents[p]

(* The leaf with the remainders. *)
LEMMA LeafMiddle ==
  ASSUME NEW b, NEW n, Fit(b, n), n.depth = 0, Len(n.ents) < MaxEntries(b), NEW p \in 1 .. Len(n.ents),
         NEW e, EntryOf(n, p, e), NEW from \in Int, NEW to \in Int, from <= to, e.first < from, to < End64(e) - 1,
         NEW x, PrefixOf(e, from, x), NEW y, SuffixOf(e, to, y),
         NEW t, t = [depth |-> 0, ents |-> InsertAt([n.ents EXCEPT ![p] = x], p + 1, y)]
  PROVE  Fit(b, t) /\ t.depth = 0 /\ SameFirst(n, t) /\ CutOut(n, from, to, t)
<1> DEFINE E == n.ents
           k == Len(E)
<1>1. /\ E \in Seq(Extents) /\ k \in Nat /\ (\A q \in 1 .. k : Good(E[q]))
      /\ \A a, c \in 1 .. k : a < c => End64(E[a]) <= E[c].first
  BY LeafParts
<1>12. e = E[p]
  BY DEF EntryOf
<1>2. Good(e) /\ p \in 1 .. k /\ p \in Int /\ E # <<>>
  BY <1>1, <1>12
<1>11. \A q \in 1 .. k : (q < p => End64(E[q]) <= e.first) /\ (q > p => End64(e) <= E[q].first)
  <2> HIDE DEF E, k
  <2> QED BY <1>1, <1>2, <1>12
<1>3. /\ Good(x) /\ x.first = e.first /\ End64(x) = from
      /\ Good(y) /\ y.first = to + 1 /\ End64(y) = End64(e)
      /\ \A l, v : Sends(x, l, v) \/ Sends(y, l, v) <=> Sends(e, l, v) /\ l \notin from .. to
  BY <1>2, Remainders
<1>4. /\ e.first \in Int /\ End64(e) \in Int /\ \A q \in 1 .. k : E[q].first \in Int /\ End64(E[q]) \in Int
  <2>1. e.first \in Int /\ End64(e) \in Int
    BY <1>2, GoodIs
  <2>2. ASSUME NEW q \in 1 .. k PROVE E[q].first \in Int /\ End64(E[q]) \in Int
    <3> DEFINE g == E[q]
    <3>1. Good(g)
      BY <1>1
    <3> HIDE DEF g
    <3>2. g.first \in Int /\ End64(g) \in Int
      BY <3>1, GoodIs
    <3> QED BY <3>2 DEF g
  <2> QED BY <2>1, <2>2
<1> DEFINE s == [depth |-> 0, ents |-> [E EXCEPT ![p] = x]]
<1>5. Swapped(Extents, E, p, x, s.ents)
  <2>1. x \in Extents
    BY <1>3 DEF Good
  <2> QED BY <2>1, <1>1, <1>2, ReplaceIs
<1>6. /\ Fit(b, s) /\ s.depth = 0 /\ s.ents # <<>> /\ Len(s.ents) = k
      /\ s.ents[1] = IF p = 1 THEN x ELSE E[1]
      /\ s.ents[p] = x /\ \A q \in 1 .. k : q # p => s.ents[q] = E[q]
      /\ \A l, v : Gives(s, l, v) <=> (\E q \in 1 .. k : q # p /\ Sends(E[q], l, v)) \/ Sends(x, l, v)
  <2>1. \A q \in 1 .. Len(n.ents) : q < p => End64(n.ents[q]) <= x.first
    BY <1>11, <1>3
  <2>2. \A q \in 1 .. Len(n.ents) : q > p => End64(x) <= n.ents[q].first
    <3> SUFFICES ASSUME NEW q \in 1 .. k, q > p PROVE End64(x) <= E[q].first
      OBVIOUS
    <3>1. End64(e) <= E[q].first /\ E[q].first \in Int
      <4> HIDE DEF k, E
      <4> QED BY Zenon, <1>2, <1>4, <1>11
    <3> DEFINE u == E[q].first
    <3>2. u \in Int /\ End64(e) <= u
      BY <3>1
    <3> HIDE DEF k, E, u
    <3>3. End64(x) <= u
      BY <3>2, <1>3, <1>4
    <3> QED BY <3>3 DEF u
  <2>3. s = [depth |-> 0, ents |-> s.ents]
    OBVIOUS
  <2>4. Swapped(Extents, n.ents, p, x, s.ents)
    BY <1>5
  <2> HIDE DEF s, E, k
  <2>5. Good(x) /\ p \in 1 .. Len(n.ents) /\ Fit(b, n) /\ n.depth = 0
    BY <1>3
  <2>6. Before(n, p, x) /\ Beyond(n, p, x)
    BY <2>1, <2>2 DEF Before, Beyond
  <2>7. /\ Fit(b, s) /\ s.depth = 0 /\ s.ents # <<>> /\ Len(s.ents) = Len(n.ents)
        /\ s.ents[1] = IF p = 1 THEN x ELSE n.ents[1]
        /\ s.ents[p] = x /\ \A q \in 1 .. Len(n.ents) : q # p => s.ents[q] = n.ents[q]
        /\ Instead(n, p, x, s)
    BY <2>3, <2>4, <2>5, <2>6, LeafReplace
  <2> QED BY <2>7 DEF E, k, Instead
<1> DEFINE j == p + 1
<1>7. Fit(b, t) /\ t.depth = 0 /\ t.ents # <<>> /\ (j # 1 => t.ents[1] = s.ents[1]) /\ Adds(s, y, t)
  <2>1. j \in 1 .. Len(s.ents) + 1 /\ j \in Int
    BY <1>1, <1>2, <1>6
  <2>2. \A q \in 1 .. Len(s.ents) : q < j => End64(s.ents[q]) <= y.first
    <3> SUFFICES ASSUME NEW q \in 1 .. k, q < j PROVE End64(s.ents[q]) <= y.first
      BY <1>6
    <3>1. CASE q = p
      BY <3>1, <1>3, <1>6
    <3>2. CASE q # p
      <4>1. q < p
        BY <3>2, <1>1, <1>2
      <4>2. s.ents[q] = E[q] /\ End64(E[q]) <= e.first /\ End64(E[q]) \in Int
        <5> HIDE DEF s, E, k, j
        <5> QED BY Zenon, <4>1, <3>2, <1>4, <1>6, <1>11
      <4> DEFINE u == End64(E[q])
      <4>3. u \in Int /\ u <= e.first /\ End64(s.ents[q]) = u
        BY <4>2
      <4> HIDE DEF s, E, k, j, u
      <4> QED BY <4>3, <1>3, <1>4
    <3> QED BY <3>1, <3>2
  <2>3. \A q \in 1 .. Len(s.ents) : q >= j => End64(y) <= s.ents[q].first
    <3> SUFFICES ASSUME NEW q \in 1 .. k, q >= j PROVE End64(y) <= s.ents[q].first
      BY <1>6
    <3>1. p < q /\ q # p
      BY <1>1, <1>2
    <3>2. End64(e) <= E[q].first /\ s.ents[q] = E[q]
      <4> HIDE DEF s, E, k
      <4> QED BY <3>1, <1>6, <1>11
    <3> HIDE DEF s, E, k
    <3> QED BY <3>2, <1>3
  <2>4. t = [depth |-> 0, ents |-> InsertAt(s.ents, j, y)]
    OBVIOUS
  <2>6. Len(s.ents) < MaxEntries(b) /\ Fit(b, s) /\ s.depth = 0
    BY <1>6
  <2> HIDE DEF s, j, E, k
  <2>7. Good(y) /\ j \in 1 .. Len(s.ents) + 1
    BY <2>1, <1>3
  <2>8. Before(s, j, y) /\ After(s, j, y)
    BY <2>2, <2>3 DEF Before, After
  <2> QED BY <2>4, <2>6, <2>7, <2>8, LeafInsert
<1>8. j # 1
  BY <1>2
<1> HIDE DEF s
<1>9. SameFirst(n, t)
  <2>1. t.ents[1] = IF p = 1 THEN x ELSE E[1]
    BY <1>6, <1>7, <1>8
  <2>2. t.ents[1].first = E[1].first
    <3>1. CASE p = 1
      <4>1. e = E[1]
        BY <3>1, <1>12
      <4> QED BY <3>1, <4>1, <2>1, <1>3
    <3>2. CASE p # 1
      BY <3>2, <2>1
    <3> QED BY <3>1, <3>2
  <2> QED BY <2>2, <1>2, <1>7 DEF SameFirst
<1>10. CutOut(n, from, to, t)
  <2> SUFFICES ASSUME NEW l, NEW v PROVE Gives(t, l, v) <=> Gives(n, l, v) /\ l \notin from .. to
    BY Zenon DEF CutOut
  <2>1. Gives(t, l, v) <=> (\E q \in 1 .. k : q # p /\ Sends(E[q], l, v)) \/ Sends(x, l, v) \/ Sends(y, l, v)
    BY Zenon, <1>6, <1>7 DEF Adds
  <2>2. Gives(n, l, v) <=> (\E q \in 1 .. k : q # p /\ Sends(E[q], l, v)) \/ Sends(e, l, v)
    BY <1>2, <1>12 DEF Gives
  <2>3. ASSUME NEW q \in 1 .. k, q # p, Sends(E[q], l, v) PROVE l \notin from .. to
    <3>1. l \in Int /\ E[q].first <= l /\ l <= End64(E[q]) - 1
      BY <1>4, <2>3 DEF Sends
    <3> DEFINE u == E[q].first
               w == End64(E[q])
    <3>2. /\ q < p => w <= e.first
          /\ q > p => End64(e) <= u
          /\ u \in Int /\ w \in Int /\ l \in Int /\ u <= l /\ l <= w - 1
      BY Zenon, <3>1, <1>4, <1>11
    <3>4. q < p \/ q > p
      BY <1>1, <1>2, <2>3
    <3> DEFINE a == e.first
               z == End64(e)
    <3>5. a \in Int /\ z \in Int /\ a < from /\ to < z - 1
      BY <1>4
    <3>6. w <= a \/ z <= u
      BY <3>2, <3>4
    <3>7. u \in Int /\ w \in Int /\ l \in Int /\ u <= l /\ l <= w - 1
      BY Zenon, <3>2
    <3> HIDE DEF E, k, u, w, a, z
    <3>8. CASE w <= a
      <4>1. l < from
        BY <3>5, <3>7, <3>8
      <4> QED BY <4>1, <3>7
    <3>9. CASE z <= u
      <4>1. to < l
        BY <3>5, <3>7, <3>9
      <4> QED BY <4>1, <3>7
    <3> QED BY <3>6, <3>8, <3>9
  <2>4. Sends(x, l, v) \/ Sends(y, l, v) <=> Sends(e, l, v) /\ l \notin from .. to
    BY <1>3
  <2> QED BY <2>1, <2>2, <2>3, <2>4
<1> QED BY <1>7, <1>9, <1>10

(* Clearing goes on from x to y. *)
LEMMA ClearMore ==
  ASSUME NEW vw, NEW o \in Ops, NEW x \in Int, NEW y \in Int, o.lo <= x, x <= y + 1, y <= o.hi, NEW w, w = Clear(vw, o, y + 1),
         NEW m, m = Clear(vw, o, x)
  PROVE  w = [l \in LBlocks |-> IF l \in x .. y THEN Hole ELSE m[l]]
<1>1. o.lo \in Int /\ o.hi \in Int /\ LBlocks \subseteq Int
  BY OpIs, Width
<1> DEFINE lo == o.lo
           hi == o.hi
<1>2. ASSUME NEW l \in LBlocks
      PROVE  (l \in lo .. hi /\ l < y + 1) <=> (l \in x .. y \/ (l \in lo .. hi /\ l < x))
  <2>1. lo \in Int /\ hi \in Int /\ l \in Int /\ lo <= x /\ y <= hi /\ x <= y + 1
    BY <1>1
  <2> HIDE DEF lo, hi
  <2> QED BY <2>1
<1> HIDE DEF lo, hi
<1>3. \A l \in LBlocks : (IF l \in lo .. hi /\ l < y + 1 THEN Hole ELSE vw[l])
                          = (IF l \in x .. y THEN Hole ELSE IF l \in lo .. hi /\ l < x THEN Hole ELSE vw[l])
  BY <1>2
<1>4. w = [l \in LBlocks |-> IF l \in lo .. hi /\ l < y + 1 THEN Hole ELSE vw[l]]
  BY DEF Clear, lo, hi
<1>5. \A l \in LBlocks : m[l] = IF l \in lo .. hi /\ l < x THEN Hole ELSE vw[l]
  BY DEF Clear, lo, hi
<1> QED BY <1>3, <1>4, <1>5

(* Lookups answer m. *)
Reads(nd, m) == \A l \in LBlocks : Lookup(nd, l) = m[l]

(* S is what m maps from..to to. *)
Images(m, from, to, S) == S = {m[l] : l \in (from .. to) \cap LBlocks} \ {Hole}

(* What an extent maps start..to to, when from..start-1 are holes. *)
LEMMA RemovedAre ==
  ASSUME NEW nd, NEW R, Tree(nd, R), NEW b \in R, nd[b].depth = 0, NEW p \in 1 .. Len(nd[b].ents),
         NEW e, EntryOf(nd[b], p, e), NEW from \in Int, NEW start \in Int, NEW to \in Int,
         from <= start, e.first <= start, to <= End64(e) - 1, AllHoles(nd, from, start - 1),
         NEW m, Reads(nd, m), NEW S, Images(m, from, to, S)
  PROVE  S = RemoveBlocks(e, start, to)
<1>1. Good(e)
  <2>1. Fit(b, nd[b])
    BY DEF Tree, Shape
  <2> QED BY <2>1, LeafParts DEF EntryOf
<1> DEFINE f == e.first
           s == e.start
<1>2. f \in Int /\ s \in Int /\ s >= 1
  BY <1>1, GoodIs
<1>3. ASSUME NEW l \in start .. to PROVE l \in LBlocks /\ m[l] = s + (l - f) /\ m[l] # Hole
  <2>1. l \in Keys(nd[b], p)
    <3>1. f \in Int /\ End64(e) \in Int /\ f <= start
      BY <1>1, GoodIs
    <3> HIDE DEF f
    <3>2. l \in f .. End64(e) - 1
      BY <3>1
    <3> QED BY <3>2 DEF f, Keys, EntryOf
  <2>2. Gives(nd[b], l, nd[b].ents[p].start + (l - nd[b].ents[p].first))
    BY Zenon, <2>1, KeyGives
  <2>3. Gives(nd[b], l, s + (l - f))
    BY <2>2 DEF EntryOf
  <2> HIDE DEF s, f
  <2>4. l \in LBlocks /\ Lookup(nd, l) = s + (l - f) /\ Lookup(nd, l) # Hole
    BY <2>3, GivesOn
  <2> QED BY <2>4 DEF Reads
<1>4. ASSUME NEW l \in (from .. to) \cap LBlocks PROVE l \in start .. to \/ m[l] = Hole
  <2>1. l \in start .. to \/ l \in from .. start - 1
    OBVIOUS
  <2> QED BY <2>1 DEF AllHoles, Reads
<1>5. RemoveBlocks(e, start, to) = s + (start - f) .. s + (to - f)
  BY DEF RemoveBlocks
<1> HIDE DEF f, s
<1>8. S = {m[l] : l \in (from .. to) \cap LBlocks} \ {Hole}
  BY DEF Images
<1>6. ASSUME NEW v \in s + (start - f) .. s + (to - f) PROVE v \in S
  <2> DEFINE l == v - s + f
  <2>1. l \in start .. to /\ s + (l - f) = v /\ l \in from .. to
    BY <1>2
  <2> HIDE DEF l
  <2>2. l \in LBlocks /\ m[l] = v /\ m[l] # Hole
    BY <2>1, <1>3
  <2> QED BY <2>1, <2>2, <1>8
<1>7. ASSUME NEW v \in S PROVE v \in s + (start - f) .. s + (to - f)
  <2>1. PICK l \in (from .. to) \cap LBlocks : v = m[l] /\ m[l] # Hole
    BY <1>8
  <2>2. l \in start .. to
    BY <2>1, <1>4
  <2>3. v = s + (l - f)
    BY <2>1, <2>2, <1>3
  <2> QED BY <2>2, <2>3, <1>2
<1> QED BY Zenon, <1>5, <1>6, <1>7

(* remove_space knows where it is, on a plain tree. *)
LEMMA RemoveNow ==
  ASSUME Typed(node, free, op), NEW R, Fits(node, R, free, view, op), op.pc \in CalmPcs \ FreshPcs, op.kind = "remove"
  PROVE  /\ op \in Ops /\ op.pc \in LivePcs /\ Tree(node, R) /\ Neat(node, R, {}) /\ Shape(node, R)
         /\ node \in [Places -> Nodes] /\ free \in SUBSET Blocks
         /\ op.lo \in Int /\ op.hi \in Int /\ op.lo <= op.from /\ op.from \in Int /\ op.from \in LBlocks /\ op.hi \in LBlocks
         /\ op.lo \in LBlocks /\ RemoveNumbers(op) /\ op.res = "EOK" /\ op.fresh = {}
         /\ OpBlocks(op) = {} /\ Loose(op) = {}
         /\ OthersKept(node, view, op) /\ Owned(R, free, {}, Clear(view, op, op.from))
         /\ Reads(node, Clear(view, op, op.from))
<1>1. /\ op \in Ops /\ op.pc \in LivePcs /\ Tree(node, R) /\ Neat(node, R, {}) /\ Shape(node, R)
      /\ node \in [Places -> Nodes] /\ free \in SUBSET Blocks /\ Numbers(node, view, op)
      /\ op.res = "EOK" /\ op.lo \in LBlocks /\ op.hi \in LBlocks /\ OthersKept(node, view, op)
      /\ Owned(R, free, Loose(op), Base(view, op)) /\ (\A l \in LBlocks : Lookup(node, l) = Base(view, op)[l])
      /\ Loose(op) = op.fresh \cup OpBlocks(op)
  BY CalmNow
<1>2. RemoveNumbers(op) /\ op.fresh = {} /\ OpBlocks(op) = {} /\ Base(view, op) = Clear(view, op, op.from)
  BY <1>1 DEF Numbers, OpBlocks, Base
<1>3. op.from \in LBlocks /\ op.lo <= op.from
  BY <1>2 DEF RemoveNumbers
<1>4. op.lo \in Int /\ op.hi \in Int /\ op.from \in Int
  BY <1>1, OpIs
<1> QED BY <1>1, <1>2, <1>3, <1>4 DEF Reads

(* The leaf remove_space is at. *)
LEMMA LeafAt ==
  ASSUME NEW nd, NEW R, Shape(nd, R), NEW l \in LBlocks, NEW P, P = FindPath(nd, l), FindResult(nd, P) = "EOK",
         NEW b, b = Landing(nd, l), NEW p, p = Leaf(P).pos
  PROVE  /\ b \in R /\ b \in Places /\ nd[b].depth = 0 /\ Fit(b, nd[b])
         /\ Leaf(P).blk = b /\ Leaf(P).cnt = Len(nd[b].ents) /\ Leaf(P).cnt \in Nat
         /\ HaveExtent(P) <=> nd[b].ents # <<>>
         /\ nd[b].ents = <<>> => Leaf(P).ent = NoEntry
         /\ nd[b].ents # <<>> => /\ p = SearchPos(nd[b].ents, l) /\ p \in 1 .. Len(nd[b].ents)
                                 /\ EntryOf(nd[b], p, Leaf(P).ent) /\ Good(Leaf(P).ent)
         /\ nd \in [Places -> Nodes] /\ nd[b] = [depth |-> 0, ents |-> nd[b].ents]
         /\ On(nd, l, b)
<1>2. /\ b \in R /\ Leaf(P).blk = b /\ Leaf(P).cnt = Len(nd[b].ents) /\ Leaf(P).cnt \in Nat
      /\ HaveExtent(P) <=> nd[b].ents # <<>>
      /\ nd[b].ents # <<>> => /\ p = SearchPos(nd[b].ents, l) /\ p \in 1 .. Len(nd[b].ents)
                              /\ Leaf(P).ent = nd[b].ents[p]
      /\ Leaf(P) = PathStep(nd, b, l)
  BY LeafIs
<1>3. nd[b].depth = 0
  <2>1. FindResult(nd, P) = IF nd[b].depth = 0 THEN "EOK" ELSE "ENOENT"
    BY ResultIs
  <2> QED BY <2>1
<1>4. Fit(b, nd[b]) /\ b \in Places
  BY <1>2, DepthIs
<1>5. nd[b].ents = <<>> => Leaf(P).ent = NoEntry
  BY <1>2, <1>4, StepIs
<1> DEFINE n == nd[b]
<1> HIDE DEF n
<1>6. n = [depth |-> 0, ents |-> n.ents] /\ \A q \in 1 .. Len(n.ents) : Good(n.ents[q])
  BY <1>3, <1>4, LeafParts DEF n
<1>7. On(nd, l, b)
  BY OnIs
<1> QED BY <1>2, <1>3, <1>4, <1>5, <1>6, <1>7 DEF Shape, EntryOf, n

(* remove_middle_of_extent once there is room. *)
LEMMA RemoveMiddlePutOn ==
  ASSUME Typed(node, free, op), NEW R \in SUBSET Places, Fits(node, R, free, view, op), op.pc = "room", op.kind = "remove",
         NEW P, P = FindPath(node, op.from), FindResult(node, P) = "EOK", RemoveMiddlePut(P), UNCHANGED free,
         view' = Seen(view, node', op')
  PROVE  Onward(view, op, node', free', view', op')
<1> DEFINE from == op.from
           to == op.hi
           b == Landing(node, from)
           n == node[b]
           leaf == Leaf(P)
           k == leaf.pos
           e == leaf.ent
           x == [e EXCEPT !.len = from - e.first]
           y == [e EXCEPT !.first = to + 1, !.len = End64(e) - 1 - to, !.start = e.start + (to + 1 - e.first)]
           t == [depth |-> 0, ents |-> InsertAt([n.ents EXCEPT ![k] = x], k + 1, y)]
           md == [node EXCEPT ![b] = t]
           o == [op EXCEPT !.pc = "middlefree", !.path = P]
<1>1. op.pc \in CalmPcs \ FreshPcs /\ op.pc \notin FreshPcs
  BY DEF CalmPcs, FreshPcs
<1>2. /\ op \in Ops /\ op.pc \in LivePcs /\ Tree(node, R) /\ Neat(node, R, {}) /\ Shape(node, R)
      /\ node \in [Places -> Nodes] /\ free \in SUBSET Blocks
      /\ op.lo \in Int /\ to \in Int /\ op.lo <= from /\ from \in Int /\ from \in LBlocks /\ to \in LBlocks
      /\ op.lo \in LBlocks /\ RemoveNumbers(op) /\ op.res = "EOK" /\ op.fresh = {}
      /\ OpBlocks(op) = {}
      /\ OthersKept(node, view, op) /\ Owned(R, free, {}, Clear(view, op, from))
      /\ Reads(node, Clear(view, op, from))
  BY <1>1, RemoveNow
<1>3. from <= to
  BY <1>2 DEF RemoveNumbers
<1>4. /\ b \in R /\ b \in Places /\ n.depth = 0 /\ Fit(b, n)
      /\ leaf.blk = b /\ leaf.cnt = Len(n.ents) /\ leaf.cnt \in Nat
      /\ n.ents = <<>> => e = NoEntry
      /\ n.ents # <<>> => k \in 1 .. Len(n.ents) /\ k = SearchPos(n.ents, from) /\ EntryOf(n, k, e) /\ Good(e)
      /\ n = [depth |-> 0, ents |-> n.ents]
  <2> HIDE DEF b
  <2>1. b = Landing(node, op.from)
    BY DEF b
  <2> QED BY <2>1, <1>2, LeafAt
<1>5. \/ op' = Fail(op, "EIO") /\ UNCHANGED <<node, faults>>
      \/ /\ leaf.cnt < MaxEntries(leaf.blk) /\ e.first < from /\ to < End64(e) - 1
         /\ Write(leaf.blk, [node[leaf.blk] EXCEPT !.ents = InsertAt([node[leaf.blk].ents EXCEPT ![k] = x], k + 1, y)], o)
      \/ ~ (leaf.cnt >= MaxEntries(leaf.blk) \/ e.first >= from \/ to >= End64(e) - 1)
         /\ ~ (leaf.cnt < MaxEntries(leaf.blk) /\ e.first < from /\ to < End64(e) - 1)
  <2>1. IF leaf.cnt >= MaxEntries(leaf.blk) \/ e.first >= from \/ to >= End64(e) - 1
        THEN op' = Fail(op, "EIO") /\ UNCHANGED <<node, faults>>
        ELSE Write(leaf.blk, [node[leaf.blk] EXCEPT !.ents = InsertAt([node[leaf.blk].ents EXCEPT ![k] = x], k + 1, y)], o)
    BY Zenon DEF RemoveMiddlePut
  <2> HIDE DEF leaf, e, k, x, y, o, from, to
  <2> QED BY Zenon, <2>1
<1>6. CASE op' = Fail(op, "EIO") /\ UNCHANGED <<node, faults>>
  <2>1. "EIO" \in Errors \ {"EOK"} /\ node' = node /\ free' \in SUBSET Blocks
    BY <1>2, <1>6 DEF Errors
  <2> QED BY <2>1, <1>2, <1>6, FailStill
<1>7. e.first \in Int /\ End64(e) \in Int /\ MaxEntries(leaf.blk) \in Int /\ leaf.cnt \in Int
  <2>1. CASE n.ents = <<>>
    BY <2>1, <1>4, CapacityAssumption DEF NoEntry, End64, MaxEntries
  <2>2. CASE n.ents # <<>>
    <3> HIDE DEF b, leaf, e
    <3> QED BY <2>2, <1>4, GoodIs, CapacityAssumption DEF MaxEntries
  <2> QED BY <2>1, <2>2
<1>8. CASE /\ leaf.cnt < MaxEntries(leaf.blk) /\ e.first < from /\ to < End64(e) - 1
           /\ Write(leaf.blk, [node[leaf.blk] EXCEPT !.ents = InsertAt([node[leaf.blk].ents EXCEPT ![k] = x], k + 1, y)], o)
  <2>1. n.ents # <<>>
    <3> SUFFICES ASSUME n.ents = <<>> PROVE FALSE
      OBVIOUS
    <3>1. End64(e) = 0
      BY <1>4 DEF NoEntry, End64
    <3>2. to \in Nat
      BY <1>2, OpIs
    <3> HIDE DEF e, to
    <3> QED BY <3>1, <3>2, <1>8
  <2>2. k \in 1 .. Len(n.ents) /\ k = SearchPos(n.ents, from) /\ EntryOf(n, k, e) /\ Good(e)
    BY <2>1, <1>4
  <2>3. [node[leaf.blk] EXCEPT !.ents = InsertAt([node[leaf.blk].ents EXCEPT ![k] = x], k + 1, y)] = t
    <3>1. node[leaf.blk] = n /\ n = [depth |-> 0, ents |-> n.ents]
      BY <1>4
    <3> DEFINE u == InsertAt([n.ents EXCEPT ![k] = x], k + 1, y)
    <3> HIDE DEF n, leaf, x, y, k, u
    <3>2. [n EXCEPT !.ents = u] = [depth |-> 0, ents |-> u]
      BY <3>1
    <3> QED BY <3>1, <3>2 DEF u
  <2>4. Write(b, t, o) /\ Len(n.ents) < MaxEntries(b)
    BY <2>3, <1>4, <1>8
  <2>5. PrefixOf(e, from, x) /\ SuffixOf(e, to, y)
    BY DEF PrefixOf, SuffixOf
  <2>6. Fit(b, t) /\ t.depth = 0 /\ SameFirst(n, t) /\ CutOut(n, from, to, t)
    <3>1. e.first < from /\ to < End64(e) - 1 /\ from \in Int /\ to \in Int
      BY <1>2, <1>8
    <3>2. t = [depth |-> 0, ents |-> InsertAt([n.ents EXCEPT ![k] = x], k + 1, y)]
      OBVIOUS
    <3>3. Fit(b, n) /\ n.depth = 0
      BY <1>4
    <3> HIDE DEF b, n, k, e, from, to, x, y, t
    <3> QED BY <3>1, <3>2, <3>3, <2>2, <2>4, <2>5, <1>3, LeafMiddle
  <2>7. Put(node, b, t, md) /\ t \in Nodes
    <3>1. t \in Nodes
      BY <2>6, NodeIs
    <3> HIDE DEF t
    <3> QED BY Zenon, <3>1, <1>2, <1>4, PutIs
  <2> HIDE DEF t, x, y, md
  <2> DEFINE w == Clear(view, op, to + 1)
             m == Clear(view, op, from)
  <2>8. w = [l \in LBlocks |-> IF l \in from .. to THEN Hole ELSE m[l]]
    <3>1. from <= to + 1 /\ to <= op.hi
      BY <1>2, <1>3
    <3> QED BY <3>1, <1>2, ClearMore
  <2>9. /\ Tree(md, R) /\ Neat(md, R, {})
        /\ \A l \in LBlocks : Lookup(md, l) = IF l \in from .. to THEN Hole ELSE Lookup(node, l)
    <3>1. \A l \in from .. to : On(node, l, b)
      <4> SUFFICES ASSUME NEW l \in from .. to PROVE On(node, l, b)
        OBVIOUS
      <4>1. l \in e.first .. End64(e) - 1
        <5> DEFINE f == e.first
                   z == End64(e)
        <5>1. f \in Int /\ z \in Int /\ f < from /\ to < z - 1 /\ from \in Int /\ to \in Int
          BY <1>2, <1>7, <1>8
        <5> HIDE DEF f, z, from, to
        <5>2. l \in f .. z - 1
          BY <5>1
        <5> QED BY <5>2 DEF f, z
      <4>2. l \in Keys(n, k)
        BY <4>1, <2>2, <1>4 DEF Keys, EntryOf
      <4> HIDE DEF b, k
      <4> QED BY <4>2, <2>2, <1>2, <1>4, KeyOn
    <3>2. /\ Tree(node, R) /\ from \in LBlocks /\ to \in LBlocks /\ b \in R /\ node[b].depth = 0 /\ Fit(b, t) /\ t.depth = 0
          /\ Put(node, b, t, md) /\ Neat(node, R, {})
      BY <1>2, <1>4, <2>6, <2>7
    <3>3. CutOut(node[b], from, to, t) /\ SameFirst(node[b], t) /\ AllOn(node, from, to, b)
      BY <2>6, <3>1 DEF AllOn
    <3> HIDE DEF b, from, to, n
    <3>4. Tree(md, R) /\ Neat(md, R, {}) /\ CutAway(node, md, from, to)
      BY Zenon, <3>2, <3>3, CutRun
    <3> QED BY <3>4 DEF CutAway
  <2>10. Reads(md, w)
    <3> HIDE DEF w, m
    <3> QED BY <2>8, <2>9, <1>2 DEF Reads, m
  <2> DEFINE S == {m[l] : l \in (from .. to) \cap LBlocks} \ {Hole}
  <2>11. S = RemoveBlocks(e, from, to)
    <3>1. /\ EntryOf(node[b], k, e) /\ k \in 1 .. Len(node[b].ents) /\ from <= from /\ e.first <= from /\ to <= End64(e) - 1
          /\ from \in Int /\ to \in Int /\ b \in R /\ node[b].depth = 0
      <4>1. e.first <= from /\ to <= End64(e) - 1 /\ from <= from
        <5> HIDE DEF from, to, e
        <5> QED BY <1>2, <1>7, <1>8
      <4> QED BY <4>1, <2>2, <1>2, <1>4
    <3>2. AllHoles(node, from, from - 1)
      <4>1. from .. from - 1 = {}
        BY <1>2
      <4> QED BY <4>1 DEF AllHoles
    <3>3. Reads(node, m) /\ Tree(node, R)
      BY <1>2
    <3>4. Images(m, from, to, S)
      BY DEF Images
    <3> HIDE DEF from, to, b, k, e, m, S
    <3> QED BY <3>1, <3>2, <3>3, <3>4, RemovedAre
  <2>12. Owned(R, free, RemoveBlocks(e, from, to), w)
    <3>1. Owned(R, free, {}, m)
      BY <1>2
    <3> DEFINE D == from .. to
    <3>2. w = [l \in LBlocks |-> IF l \in D THEN Hole ELSE m[l]] /\ S = {m[l] : l \in D \cap LBlocks} \ {Hole}
      BY <2>8
    <3> HIDE DEF w, m, S, D
    <3>3. Owned(R, free, {} \cup S, w)
      BY Zenon, <3>1, <3>2, OwnUnmap
    <3>4. {} \cup S = S
      OBVIOUS
    <3> QED BY <3>3, <3>4, <2>11
  <2>13. /\ o.pc = "middlefree" /\ o.kind = "remove" /\ o.lo = op.lo /\ o.hi = to /\ o.from = from /\ o.fresh = {}
         /\ o.res = "EOK" /\ o.path = P /\ o \in Ops
    <3>1. P \in Seq(PathSteps)
      BY <1>2, PathLinked
    <3> QED BY Zenon, <3>1, <1>2 DEF Ops, Pcs
  <2> HIDE DEF o
  <2>14. Clear(view, o, o.hi + 1) = w /\ Loose(o) = RemoveBlocks(e, from, to)
    <3>1. Clear(view, o, o.hi + 1) = w
      BY <2>13 DEF Clear
    <3> QED BY <3>1, <2>13 DEF Loose
  <2>15. Target(view, o) = w /\ Kept(view, o) = w /\ Odd(md, o) = {} /\ Whole(md, o) = md
    <3> HIDE DEF w
    <3> QED BY <2>13, <2>14 DEF Target, Kept, Odd, Whole
  <2>16. Numbers(md, view, o)
    <3>1. RemoveNumbers(o)
      <4>1. e \in Extents /\ ValidExtent(e) /\ e.first < o.from /\ o.hi < End64(e) - 1 /\ Leaf(o.path).ent = e
        BY <2>2, <2>13, <1>8 DEF Good
      <4> QED BY <4>1, <2>13, <1>2, <1>3 DEF RemoveNumbers, RemovePcs, LeafPcs
    <3> QED BY <3>1, <2>13, <1>2 DEF Numbers, FreshPcs, GrowPcs
  <2>17. PathKept(md, R, o)
    BY <2>13 DEF PathKept, SplitPcs, LeafPcs
  <2>18. Busy(md, R, free, view, o)
    <3> HIDE DEF w
    <3> QED BY <2>9, <2>10, <2>12, <2>13, <2>14, <2>15, <2>16, <2>17 DEF Busy, Reads
  <2>19. Typed(md, free, o) /\ o.pc \in LivePcs
    BY <2>7, <2>13, <1>2 DEF Typed, Put, LivePcs, RemovePcs
  <2> DEFINE z == Seen(view, md, o)
  <2>20. Onward(view, op, md, free, z, o)
    <3>1. z = Seen(view, md, o)
      OBVIOUS
    <3> HIDE DEF z
    <3> QED BY <3>1, <2>18, <2>19, LiveOn
  <2>21. OthersKept(md, view, op)
    <3>1. \A l \in LBlocks \ (op.lo .. op.hi) : w[l] = view[l]
      <4>1. \A l \in LBlocks \ (op.lo .. op.hi) : \A c : Clear(view, op, c)[l] = view[l]
        BY TargetKept
      <4> QED BY <4>1
    <3> HIDE DEF w
    <3> QED BY <3>1, <2>10 DEF OthersKept, Reads
  <2>22. OpBlocks(op) \subseteq Blocks /\ OthersKept(node, view, op) /\ b \in Places /\ t \in Nodes
    BY <1>2, <1>4, <2>7
  <2> HIDE DEF b
  <2> QED BY <2>4, <2>20, <2>21, <2>22, WriteOn DEF md, b
<1>9. \/ leaf.cnt >= MaxEntries(leaf.blk) \/ e.first >= from \/ to >= End64(e) - 1
      \/ leaf.cnt < MaxEntries(leaf.blk) /\ e.first < from /\ to < End64(e) - 1
  <2> DEFINE c1 == MaxEntries(leaf.blk)
             c2 == leaf.cnt
             c3 == e.first
             c4 == End64(e)
  <2>1. c1 \in Int /\ c2 \in Int /\ c3 \in Int /\ c4 \in Int /\ from \in Int /\ to \in Int
    BY <1>2, <1>7
  <2> HIDE DEF c1, c2, c3, c4, from, to
  <2>2. \/ c2 >= c1 \/ c3 >= from \/ to >= c4 - 1
        \/ c2 < c1 /\ c3 < from /\ to < c4 - 1
    BY <2>1
  <2> QED BY <2>2 DEF c1, c2, c3, c4, from, to
<1> HIDE DEF from, to, b, n, leaf, k, e, x, y, t, md, o
<1> QED BY <1>5, <1>6, <1>8, <1>9

(* Where the nodes of a path have room. *)
LEMMA PathRoom ==
  ASSUME NEW nd, NEW R, Shape(nd, R), NEW l \in LBlocks, NEW P, P = FindPath(nd, l), P[1].cnt < RootMax
  PROVE  /\ Len(P) \in Nat \ {0} /\ P \in Seq(PathSteps)
         /\ \A k \in 1 .. Len(P) : P[k].cnt \in Int /\ (k = 1 \/ P[k].cnt < NodeMax => P[k].cnt < MaxEntries(P[k].blk))
<1>1. /\ Len(P) \in Nat \ {0} /\ P[1].blk = Root /\ 1 \in 1 .. Len(P)
      /\ \A k \in 1 .. Len(P) : P[k].blk \in R /\ P[k].depth = nd[P[k].blk].depth /\ P[k].depth = nd[Root].depth - (k - 1)
                                /\ P[k].cnt \in Nat
  <2>1. P \in Walks(nd, R, l)
    BY PathIs
  <2> HIDE DEF Walks
  <2> QED BY <2>1, WalkIs
<1>2. P \in Seq(PathSteps)
  BY PathLinked
<1>3. ASSUME NEW k \in 1 .. Len(P), k # 1 PROVE P[k].blk # Root
  <2>1. Root \in R /\ nd[Root].depth \in Nat
    <3>1. Root \in R
      BY DEF Shape
    <3> QED BY <3>1, DepthIs
  <2> QED BY <2>1, <1>1, <1>3
<1>4. ASSUME NEW k \in 1 .. Len(P), k = 1 \/ P[k].cnt < NodeMax PROVE P[k].cnt < MaxEntries(P[k].blk)
  <2>1. CASE k = 1
    BY <2>1, <1>1 DEF MaxEntries
  <2>2. CASE k # 1
    BY <2>2, <1>3, <1>4 DEF MaxEntries
  <2> QED BY <2>1, <2>2
<1> QED BY <1>1, <1>2, <1>4

(* ensure_insert_room. *)
LEMMA EnsureInsertRoomOn ==
  ASSUME Typed(node, free, op), NEW R \in SUBSET Places, Fits(node, R, free, view, op), EnsureInsertRoom
  PROVE  Onward(view, op, node', free', view', op')
<1> DEFINE key == Key(op)
           P == FindPath(node, key)
           full == {k \in 2 .. Len(P) : P[k].cnt >= NodeMax}
           least == CHOOSE k \in full : \A j \in full : k <= j
           skip == UNCHANGED <<node, faults>>
           q == op'
           x == view'
<1>1. op.pc = "room" /\ UNCHANGED free /\ view' = Seen(view, node', op')
  <2>1. op.pc = "room" /\ UNCHANGED free /\ Step
    BY Zenon DEF EnsureInsertRoom
  <2> QED BY <2>1 DEF Step, Seen
<1>2. op.pc \in CalmPcs /\ op.pc \notin FreshPcs
  BY <1>1 DEF CalmPcs, FreshPcs
<1>3. /\ op \in Ops /\ op.pc \in LivePcs /\ Calm(node, R, free, view, op) /\ Tree(node, R) /\ Shape(node, R)
      /\ node \in [Places -> Nodes] /\ free \in SUBSET Blocks /\ op.kind \in {"get", "remove"}
      /\ Numbers(node, view, op) /\ PathKept(node, R, op) /\ key \in LBlocks
      /\ OthersKept(node, view, op) /\ OpBlocks(op) \subseteq Blocks
  BY <1>2, CalmNow
<1>4. op.fresh = {}
  BY <1>2, <1>3 DEF Numbers
<1>5. \/ op' = Fail(op, "EIO") /\ skip
      \/ P[1].cnt >= RootMax /\ q = [op EXCEPT !.pc = "grow", !.tries = @ + 1] /\ skip
      \/ /\ ~ (P[1].cnt >= RootMax) /\ full # {}
         /\ q = [op EXCEPT !.pc = "split", !.tries = @ + 1, !.path = P, !.lvl = least] /\ skip
      \/ /\ ~ (P[1].cnt >= RootMax) /\ full = {} /\ op.kind = "get" /\ FindResult(node, P) = "EOK"
         /\ InsertNew(P, RunOf(op))
      \/ /\ op.kind # "get" /\ FindResult(node, P) = "EOK" /\ RemoveMiddlePut(P)
  <2> HIDE DEF skip, full
  <2> QED BY Zenon DEF EnsureInsertRoom, RunOf, Key, skip, full
<1>6. P[1].cnt = Len(node[Root].ents) /\ Len(node[Root].ents) \in Int /\ RootMax \in Int /\ NodeMax \in Int
  <2>1. P \in Walks(node, R, key)
    BY <1>3, PathIs
  <2>2. 1 \in 1 .. Len(P) /\ P[1].blk = Root /\ \A k \in 1 .. Len(P) : P[k].cnt = Len(node[P[k].blk].ents) /\ P[k].cnt \in Nat
    <3> HIDE DEF Walks, P
    <3> QED BY <2>1, <1>3, WalkIs
  <2> QED BY <2>2, CapacityAssumption
<1>7. CASE op' = Fail(op, "EIO") /\ skip
  <2>1. "EIO" \in Errors \ {"EOK"} /\ node' = node /\ free' \in SUBSET Blocks
    BY <1>1, <1>3, <1>7 DEF Errors
  <2> QED BY <2>1, <1>1, <1>3, <1>7, FailStill
<1>8. CASE P[1].cnt >= RootMax /\ q = [op EXCEPT !.pc = "grow", !.tries = @ + 1] /\ skip
  <2>1. /\ q \in Ops /\ q.pc = "grow" /\ q.fresh = {} /\ Alike(op, q)
    <3> DEFINE n == op.tries + 1
    <3>1. n \in Nat /\ q = [op EXCEPT !.pc = "grow", !.tries = n]
      BY <1>3, <1>8, OpIs
    <3> HIDE DEF n, q
    <3> QED BY Zenon, <3>1, <1>3, <1>4 DEF Ops, Pcs, Alike
  <2>2. node' = node /\ free' = free
    BY <1>1, <1>8
  <2>3. x = Seen(view, node, q)
    BY <1>1, <2>2
  <2> HIDE DEF q, x
  <2>4. Numbers(node, view, q)
    <3>1. q.pc \in GrowPcs /\ q.pc \notin FreshPcs /\ op.pc \in {"room"} \cup GrowPcs \cup SplitPcs
          /\ Len(node[Root].ents) >= RootMax /\ q.pc \notin {"growput", "growroot"}
      BY <1>1, <1>6, <1>8, <2>1 DEF GrowPcs, FreshPcs
    <3> QED BY Zenon, <3>1, <2>1, <1>3, AlikeNumbers
  <2>5. PathKept(node, R, q)
    BY <2>1 DEF PathKept, SplitPcs, LeafPcs
  <2>6. Loose(q) = Loose(op) /\ Base(view, q) = Base(view, op)
    <3>1. OpBlocks(q) = OpBlocks(op) /\ Base(view, q) = Base(view, op)
      BY <2>1, AlikeIs
    <3> QED BY <3>1, <2>1, <1>1, <1>4 DEF Loose, Alike
  <2>7. Typed(node, free, q) /\ q.pc \in CalmPcs /\ q.kind = op.kind
    BY <2>1, <1>3 DEF Typed, CalmPcs, GrowPcs, Alike
  <2>8. Onward(view, op, node, free, x, q)
    BY <2>3, <2>4, <2>5, <2>6, <2>7, <1>2, <1>3, CalmOn
  <2> QED BY <2>2, <2>8 DEF q, x
<1>9. CASE /\ ~ (P[1].cnt >= RootMax) /\ full # {}
           /\ q = [op EXCEPT !.pc = "split", !.tries = @ + 1, !.path = P, !.lvl = least] /\ skip
  <2>0. P[1].cnt < RootMax
    <3> DEFINE c == P[1].cnt
    <3>1. c \in Int /\ ~ (c >= RootMax)
      BY <1>6, <1>9
    <3> HIDE DEF c
    <3>2. c < RootMax
      BY <3>1, <1>6
    <3> QED BY <3>2 DEF c
  <2>1. /\ Len(P) \in Nat \ {0} /\ P \in Seq(PathSteps)
        /\ \A k \in 1 .. Len(P) : P[k].cnt \in Int /\ (k = 1 \/ P[k].cnt < NodeMax => P[k].cnt < MaxEntries(P[k].blk))
    <3>1. P = FindPath(node, key)
      OBVIOUS
    <3> HIDE DEF P, key
    <3> QED BY <3>1, <2>0, <1>3, PathRoom
  <2>2. least \in full /\ \A j \in full : least <= j
    <3>1. full \in SUBSET Nat /\ full # {}
      BY <1>9, <2>1
    <3> HIDE DEF full
    <3>2. \E k \in full : \A j \in full : k <= j
      BY <3>1, Least
    <3> QED BY <3>2
  <2> HIDE DEF least
  <2>3. least \in Nat /\ least \in 2 .. Len(P) /\ P[least].cnt >= NodeMax
    BY <2>1, <2>2
  <2>4. P[least - 1].cnt < MaxEntries(P[least - 1].blk)
    <3> DEFINE k == least - 1
    <3>1. k \in 1 .. Len(P) /\ (k = 1 \/ k \in 2 .. Len(P)) /\ ~ (least <= k)
      BY <2>1, <2>3
    <3> HIDE DEF k
    <3>2. k = 1 \/ ~ (P[k].cnt >= NodeMax)
      BY <3>1, <2>2
    <3>3. k = 1 \/ P[k].cnt < NodeMax
      <4> DEFINE c == P[k].cnt
      <4>1. c \in Int /\ (k = 1 \/ ~ (c >= NodeMax))
        BY <2>1, <3>1, <3>2
      <4> HIDE DEF c
      <4>2. k = 1 \/ c < NodeMax
        BY <4>1, <1>6
      <4> QED BY <4>2 DEF c
    <3>4. P[k].cnt < MaxEntries(P[k].blk)
      BY <2>1, <3>1, <3>3
    <3> QED BY <3>4 DEF k
  <2>5. node' = node /\ free' = free
    BY <1>1, <1>9
  <2>6. x = Seen(view, node, q)
    BY <1>1, <2>5
  <2>7. /\ q \in Ops /\ q.pc = "split" /\ q.fresh = {} /\ Alike(op, q) /\ q.path = P /\ q.lvl = least
    <3> DEFINE n == op.tries + 1
    <3>1. n \in Nat /\ q = [op EXCEPT !.pc = "split", !.tries = n, !.path = P, !.lvl = least]
      BY <1>3, <1>9, OpIs
    <3> HIDE DEF n, q, P, full
    <3> QED BY Zenon, <3>1, <1>3, <1>4, <2>1, <2>3 DEF Ops, Pcs, Alike
  <2> HIDE DEF q, x
  <2>8. OpBlocks(q) = OpBlocks(op) /\ Base(view, q) = Base(view, op) /\ Key(q) = key
    BY <2>7, AlikeIs
  <2>9. Numbers(node, view, q)
    <3>1. q.pc \in SplitPcs /\ q.pc \notin GrowPcs /\ q.pc \notin FreshPcs /\ op.pc \in {"room"} \cup GrowPcs \cup SplitPcs
          /\ q.pc \notin {"growput", "growroot"}
      BY <1>1, <2>7 DEF SplitPcs, GrowPcs, FreshPcs
    <3> QED BY Zenon, <3>1, <2>7, <1>3, AlikeNumbers
  <2>10. PathKept(node, R, q)
    <3> HIDE DEF key
    <3>1. q.path = FindPath(node, Key(q))
      BY <2>7, <2>8 
    <3> HIDE DEF P
    <3> QED BY <3>1, <2>3, <2>4, <2>7 DEF PathKept, SplitPcs, LeafPcs
  <2>11. Loose(q) = Loose(op)
    BY <2>7, <2>8, <1>1, <1>4 DEF Loose, Alike
  <2>12. Typed(node, free, q) /\ q.pc \in CalmPcs /\ q.kind = op.kind
    BY <2>7, <1>3 DEF Typed, CalmPcs, SplitPcs, Alike
  <2>13. Onward(view, op, node, free, x, q)
    BY <2>6, <2>8, <2>9, <2>10, <2>11, <2>12, <1>2, <1>3, CalmOn
  <2> QED BY <2>5, <2>13 DEF q, x
<1>10. CASE /\ ~ (P[1].cnt >= RootMax) /\ full = {} /\ op.kind = "get" /\ FindResult(node, P) = "EOK"
            /\ InsertNew(P, RunOf(op))
  <2>0. P[1].cnt < RootMax
    <3> DEFINE c == P[1].cnt
    <3>1. c \in Int /\ ~ (c >= RootMax)
      BY <1>6, <1>10
    <3> HIDE DEF c
    <3>2. c < RootMax
      BY <3>1, <1>6
    <3> QED BY <3>2 DEF c
  <2>1. /\ Len(P) \in Nat \ {0} /\ P \in Seq(PathSteps)
        /\ \A k \in 1 .. Len(P) : P[k].cnt \in Int /\ (k = 1 \/ P[k].cnt < NodeMax => P[k].cnt < MaxEntries(P[k].blk))
    <3>1. P = FindPath(node, key)
      OBVIOUS
    <3> HIDE DEF P, key
    <3> QED BY <3>1, <2>0, <1>3, PathRoom
  <2>2. Leaf(P).cnt < MaxEntries(Leaf(P).blk)
    <3> DEFINE k == Len(P)
    <3>1. k \in 1 .. Len(P) /\ (k = 1 \/ k \in 2 .. Len(P))
      <4>1. k \in Nat /\ k # 0
        BY <2>1
      <4> HIDE DEF k, P
      <4>2. k \in 1 .. k /\ (k = 1 \/ k \in 2 .. k)
        BY <4>1
      <4> QED BY <4>2 DEF k
    <3>2. k = 1 \/ ~ (P[k].cnt >= NodeMax)
      BY <3>1, <1>10
    <3> HIDE DEF k, full
    <3>3. k = 1 \/ P[k].cnt < NodeMax
      <4> DEFINE c == P[k].cnt
      <4>1. c \in Int /\ (k = 1 \/ ~ (c >= NodeMax))
        BY <2>1, <3>1, <3>2
      <4> HIDE DEF c
      <4>2. k = 1 \/ c < NodeMax
        BY <4>1, <1>6
      <4> QED BY <4>2 DEF c
    <3>4. P[k].cnt < MaxEntries(P[k].blk)
      BY <2>1, <3>1, <3>3
    <3> QED BY <3>4 DEF k, Leaf
  <2>3. Ready(node, R, free, view, op)
    BY <1>1, <1>3, <1>10, ReadyIs
  <2>4. P = FindPath(node, op.lo)
    BY <1>10 DEF Key
  <2>5. InsertNew(P, RunOf(op)) /\ FindResult(node, P) = "EOK"
    BY <1>10
  <2> HIDE DEF P, full
  <2> DEFINE e == RunOf(op)
  <2>6. e = RunOf(op) /\ InsertNew(P, e)
    BY <2>5
  <2> HIDE DEF e
  <2> QED BY <2>2, <2>3, <2>4, <2>5, <2>6, <1>1, <1>3, InsertNewOn
<1>11. CASE op.kind # "get" /\ FindResult(node, P) = "EOK" /\ RemoveMiddlePut(P)
  <2>1. op.kind = "remove" /\ P = FindPath(node, op.from)
    BY <1>3, <1>11 DEF Key
  <2>2. RemoveMiddlePut(P) /\ FindResult(node, P) = "EOK"
    BY <1>11
  <2> HIDE DEF P
  <2> QED BY <2>1, <2>2, <1>1, RemoveMiddlePutOn
<1> HIDE DEF P, full, least, skip, q, key
<1> QED BY <1>5, <1>7, <1>8, <1>9, <1>10, <1>11

ToPc(o, pc) == [o EXCEPT !.pc = pc]
WithFresh(o, b) == [o EXCEPT !.fresh = {b}]

(* A block for a new node. *)
LEMMA AllocMetaOn ==
  ASSUME Typed(node, free, op), NEW R \in SUBSET Places, Fits(node, R, free, view, op),
         NEW pc, \/ op.pc = "grow" /\ pc = "growput" /\ node[Root].depth < MaxDepth
                 \/ op.pc = "split" /\ pc = "splitright",
         NEW next, next = ToPc(op, pc), AllocMeta(next), node' = node, view' = Seen(view, node', op')
  PROVE  Onward(view, op, node', free', view', op')
<1>1. op.pc \in CalmPcs /\ op.pc \notin FreshPcs
  BY DEF CalmPcs, FreshPcs, GrowPcs, SplitPcs
<1>2. /\ op \in Ops /\ op.pc \in LivePcs /\ Calm(node, R, free, view, op) /\ Tree(node, R) /\ Neat(node, R, {}) /\ Shape(node, R)
      /\ node \in [Places -> Nodes] /\ free \in SUBSET Blocks /\ op.kind \in {"get", "remove"}
      /\ Numbers(node, view, op) /\ PathKept(node, R, op)
      /\ Owned(R, free, Loose(op), Base(view, op)) /\ (\A l \in LBlocks : Lookup(node, l) = Base(view, op)[l])
      /\ Loose(op) = op.fresh \cup OpBlocks(op)
  BY <1>1, CalmNow
<1>3. op.fresh = {}
  BY <1>1, <1>2 DEF Numbers
<1>4. CASE op' \in {Fail(op, "EIO"), Fail(op, "ENOSPC")} /\ free' = free
  <2>1. "EIO" \in Errors \ {"EOK"} /\ "ENOSPC" \in Errors \ {"EOK"} /\ free' \in SUBSET Blocks
    BY <1>2, <1>4 DEF Errors
  <2> QED BY <2>1, <1>2, <1>4, FailStill
<1>5. ASSUME NEW b \in free, free' = free \ {b}, op' = WithFresh(next, b)
      PROVE  Onward(view, op, node', free', view', op')
  <2> DEFINE q == op'
             x == view'
             fr == free \ {b}
  <2>1. x = Seen(view, node, q) /\ b \in Blocks
    BY <1>2
  <2>2. q \in Ops /\ q.pc = pc /\ q.fresh = {b} /\ Alike(op, q) /\ q.path = op.path /\ q.lvl = op.lvl /\ q.kind = op.kind
    <3>1. q = [op EXCEPT !.pc = pc, !.fresh = {b}]
      BY <1>2, <1>5 DEF Ops, ToPc, WithFresh
    <3>2. pc \in Pcs
      BY DEF Pcs
    <3> HIDE DEF q
    <3> QED BY Zenon, <3>1, <3>2, <1>2, <2>1 DEF Ops, Alike
  <2> HIDE DEF q, x
  <2>3. OpBlocks(q) = OpBlocks(op) /\ Base(view, q) = Base(view, op) /\ Key(q) = Key(op)
    BY <2>2, AlikeIs
  <2>4. b \notin OpBlocks(op)
    BY <1>2 DEF Owned
  <2>5. Loose(q) = Loose(op) \cup {b}
    BY Zenon, <2>2, <2>3, <1>2, <1>3 DEF Loose, OpBlocks
  <2>6. Owned(R, fr, Loose(q), Base(view, q))
    <3>1. {b} \in SUBSET free
      OBVIOUS
    <3>2. Owned(R, free \ {b}, Loose(op) \cup {b}, Base(view, op))
      BY Zenon, <3>1, <1>2, OwnTake
    <3> QED BY <3>2, <2>3, <2>5
  <2>7. Calm(node, R, fr, view, q)
    <3> HIDE DEF fr
    <3> QED BY <2>3, <2>6, <1>2 DEF Calm
  <2>8. Numbers(node, view, q)
    <3>1. /\ q.pc \in {"room"} \cup GrowPcs \cup SplitPcs /\ op.pc \in {"room"} \cup GrowPcs \cup SplitPcs
          /\ q.pc \in FreshPcs /\ q.pc # "growroot"
      BY <2>2 DEF GrowPcs, SplitPcs, FreshPcs
    <3>2. (\E c \in Blocks : q.fresh = {c}) /\ q.fresh \cap OpBlocks(op) = {}
      BY <2>1, <2>2, <2>4
    <3>3. q.pc \in GrowPcs => Len(node[Root].ents) >= RootMax
      BY <2>2, <1>2 DEF Numbers, GrowPcs
    <3>4. q.pc \in {"growput", "growroot"} => node[Root].depth < MaxDepth
      BY <2>2
    <3> QED BY Zenon, <3>1, <3>2, <3>3, <3>4, <2>2, <1>2, AlikeNumbers
  <2>9. PathKept(node, R, q)
    <3>1. CASE pc = "growput"
      BY <3>1, <2>2 DEF PathKept, SplitPcs, LeafPcs
    <3>2. CASE pc = "splitright" /\ op.pc = "split"
      <4>1. /\ op.path = FindPath(node, Key(op)) /\ op.lvl \in 2 .. Len(op.path) /\ op.path[op.lvl].cnt >= NodeMax
            /\ op.path[op.lvl - 1].cnt < MaxEntries(op.path[op.lvl - 1].blk)
        BY <3>2, <1>2 DEF PathKept, SplitPcs
      <4> QED BY <3>2, <4>1, <2>2, <2>3 DEF PathKept, SplitPcs, LeafPcs
    <3> QED BY <3>1, <3>2
  <2>10. q.pc \in CalmPcs /\ q.pc \in LivePcs
    BY <2>2 DEF CalmPcs, LivePcs, GetPcs, GrowPcs, SplitPcs
  <2>11. Busy(node, R, fr, view, q)
    <3> HIDE DEF fr
    <3>1. q.kind \in {"get", "remove"}
      BY <2>2, <1>2
    <3> QED BY <3>1, <2>7, <2>8, <2>9, <2>10, CalmIs
  <2>12. Typed(node, fr, q)
    BY <1>2, <2>2 DEF Typed
  <2>13. Onward(view, op, node, fr, x, q)
    <3> HIDE DEF fr
    <3> QED BY <2>1, <2>10, <2>11, <2>12, LiveOn
  <2> QED BY <2>13, <1>5 DEF q, x
<1>6. Pick(GoalBlock) \subseteq free
  BY DEF Pick
<1>7. \/ \E b \in Pick(GoalBlock) : free' = free \ {b} /\ op' = WithFresh(next, b)
      \/ op' = Fail(op, "ENOSPC") /\ free' = free
      \/ op' = Fail(op, "EIO") /\ free' = free
  BY Zenon DEF AllocMeta, WithFresh
<1>8. CASE \E b \in Pick(GoalBlock) : free' = free \ {b} /\ op' = WithFresh(next, b)
  <2>1. PICK b \in Pick(GoalBlock) : free' = free \ {b} /\ op' = WithFresh(next, b)
    BY <1>8
  <2>2. b \in free
    BY <1>6
  <2> QED BY <2>1, <2>2, <1>5
<1> QED BY <1>4, <1>7, <1>8

(* grow_indepth: the allocation. *)
LEMMA GrowAllocOn ==
  ASSUME Typed(node, free, op), NEW R \in SUBSET Places, Fits(node, R, free, view, op), GrowAlloc
  PROVE  Onward(view, op, node', free', view', op')
<1> DEFINE next == [op EXCEPT !.pc = "growput"]
<1>1. op.pc = "grow" /\ node' = node /\ view' = Seen(view, node', op')
      /\ \/ op' = Fail(op, "EFBIG") /\ free' = free
         \/ ~ (node[Root].depth >= MaxDepth) /\ AllocMeta(next)
  <2>1. /\ op.pc = "grow" /\ node' = node /\ Step
        /\ \/ op' = Fail(op, "EFBIG") /\ free' = free
           \/ ~ (node[Root].depth >= MaxDepth) /\ AllocMeta(next)
    BY Zenon DEF GrowAlloc
  <2> QED BY <2>1 DEF Step, Seen
<1> HIDE DEF next
<1>2. op.pc \in CalmPcs /\ op.pc \in LivePcs
  BY <1>1 DEF CalmPcs, LivePcs, GetPcs, GrowPcs
<1>3. node[Root].depth \in Int /\ MaxDepth \in Int /\ free \in SUBSET Blocks
  <2>1. Shape(node, R) /\ free \in SUBSET Blocks
    BY <1>2, CalmNow
  <2>2. Root \in R
    BY <2>1 DEF Shape
  <2> QED BY <2>1, <2>2, DepthIs, SizeAssumption
<1>4. CASE op' = Fail(op, "EFBIG") /\ free' = free
  <2>1. "EFBIG" \in Errors \ {"EOK"} /\ free' \in SUBSET Blocks
    BY <1>3, <1>4 DEF Errors
  <2> QED BY <2>1, <1>1, <1>2, <1>4, FailStill
<1>5. CASE ~ (node[Root].depth >= MaxDepth) /\ AllocMeta(next)
  <2> DEFINE d == node[Root].depth
  <2>1. d \in Int /\ ~ (d >= MaxDepth)
    BY <1>3, <1>5
  <2> HIDE DEF d
  <2>2. d < MaxDepth
    BY <2>1, <1>3
  <2> DEFINE pc == "growput"
  <2>3. op.pc = "grow" /\ pc = "growput" /\ node[Root].depth < MaxDepth /\ next = ToPc(op, pc)
    BY <2>2, <1>1 DEF d, next, ToPc
  <2> HIDE DEF pc
  <2> QED BY <2>3, <1>1, <1>5, AllocMetaOn
<1> QED BY <1>1, <1>4, <1>5

(* split_full_node: the allocation. *)
LEMMA SplitAllocOn ==
  ASSUME Typed(node, free, op), NEW R \in SUBSET Places, Fits(node, R, free, view, op), SplitAlloc
  PROVE  Onward(view, op, node', free', view', op')
<1> DEFINE next == [op EXCEPT !.pc = "splitright"]
<1>1. op.pc = "split" /\ node' = node /\ view' = Seen(view, node', op')
      /\ \/ op' \in {Fail(op, "EIO"), Fail(op, "ENOSPC")} /\ free' = free
         \/ AllocMeta(next)
  <2>1. /\ op.pc = "split" /\ node' = node /\ Step
        /\ \/ op' \in {Fail(op, "EIO"), Fail(op, "ENOSPC")} /\ free' = free
           \/ AllocMeta(next)
    BY Zenon DEF SplitAlloc
  <2> QED BY <2>1 DEF Step, Seen
<1> HIDE DEF next
<1>2. op.pc \in CalmPcs /\ op.pc \in LivePcs
  BY <1>1 DEF CalmPcs, LivePcs, GetPcs, SplitPcs
<1>3. free \in SUBSET Blocks
  BY DEF Typed
<1>4. CASE op' \in {Fail(op, "EIO"), Fail(op, "ENOSPC")} /\ free' = free
  <2>1. "EIO" \in Errors \ {"EOK"} /\ "ENOSPC" \in Errors \ {"EOK"} /\ free' \in SUBSET Blocks
    BY <1>3, <1>4 DEF Errors
  <2> QED BY <2>1, <1>1, <1>2, <1>4, FailStill
<1>5. CASE AllocMeta(next)
  <2> DEFINE pc == "splitright"
  <2>3. op.pc = "split" /\ pc = "splitright" /\ next = ToPc(op, pc)
    BY <1>1 DEF next, ToPc
  <2> HIDE DEF pc
  <2> QED BY <2>3, <1>1, <1>5, AllocMetaOn
<1> QED BY <1>1, <1>4, <1>5

(* Writing a block that is not in the tree. *)
LEMMA OffTree ==
  ASSUME NEW nd \in [Places -> Nodes], NEW R, NEW fr, NEW vw, NEW o, Calm(nd, R, fr, vw, o), NEW b \in Loose(o), NEW n,
         NEW md, Put(nd, b, n, md)
  PROVE  /\ Calm(md, R, fr, vw, o) /\ b \in Blocks /\ b \notin R /\ b # Root /\ Root \in R /\ md \in [Places -> Nodes]
         /\ (\A x \in R : md[x] = nd[x]) /\ md[b] = n /\ md[Root] = nd[Root]
         /\ \A l \in LBlocks : FindPath(md, l) = FindPath(nd, l)
         /\ OthersKept(nd, vw, o) => OthersKept(md, vw, o)
<1>1. Tree(nd, R) /\ Neat(nd, R, {}) /\ Owned(R, fr, Loose(o), Base(vw, o)) /\ \A l \in LBlocks : Lookup(nd, l) = Base(vw, o)[l]
  BY DEF Calm
<1>2. b \in Blocks /\ b \notin R
  BY <1>1 DEF Owned
<1>3. Root \in R /\ R \subseteq Places
  BY <1>1 DEF Tree, Shape
<1>4. md \in [Places -> Nodes] /\ (\A x \in R : md[x] = nd[x]) /\ md[b] = n /\ md[Root] = nd[Root] /\ b # Root
  BY <1>2, <1>3 DEF Put
<1>5. /\ Tree(md, R) /\ Neat(md, R, {})
      /\ \A l \in LBlocks : FindPath(md, l) = FindPath(nd, l) /\ Lookup(md, l) = Lookup(nd, l)
  <2>1. md \in [Places -> Nodes] /\ (\A x \in R : md[x] = nd[x])
    BY <1>4
  <2>2. \A X : Neat(nd, R, X) => Neat(md, R, X)
    BY <1>1, <2>1, SameTree
  <2>3. Tree(md, R)
    BY <1>1, <2>1, SameTree
  <2>4. \A l \in LBlocks : FindPath(md, l) = FindPath(nd, l) /\ Lookup(md, l) = Lookup(nd, l)
    BY Zenon, <1>1, <2>1, SameTree
  <2> QED BY <1>1, <2>2, <2>3, <2>4
<1>6. Calm(md, R, fr, vw, o)
  BY <1>1, <1>5 DEF Calm
<1>7. OthersKept(nd, vw, o) => OthersKept(md, vw, o)
  BY <1>5 DEF OthersKept
<1> QED BY <1>2, <1>3, <1>4, <1>5, <1>6, <1>7

(* The same with the operation moving on; the tree stays plain. *)
LEMMA CalmWriteOn ==
  ASSUME Typed(node, free, op), NEW R \in SUBSET Places, Fits(node, R, free, view, op), op.pc \in CalmPcs,
         NEW b \in Loose(op), NEW n \in Nodes, NEW md, md = [node EXCEPT ![b] = n], NEW q \in Ops, Alike(op, q), q.fresh = op.fresh,
         q.pc \in CalmPcs, Numbers(md, view, q), PathKept(md, R, q), Write(b, n, q), UNCHANGED free,
         view' = Seen(view, node', op')
  PROVE  Onward(view, op, node', free', view', op')
<1>1. /\ op \in Ops /\ op.pc \in LivePcs /\ Calm(node, R, free, view, op)
      /\ node \in [Places -> Nodes] /\ free \in SUBSET Blocks /\ op.kind \in {"get", "remove"}
      /\ OthersKept(node, view, op) /\ OpBlocks(op) \subseteq Blocks
      /\ Loose(op) = op.fresh \cup OpBlocks(op) /\ \E c : op.fresh \subseteq {c}
  BY CalmNow DEF Typed
<1>2. /\ Calm(md, R, free, view, op) /\ b \in Blocks /\ md \in [Places -> Nodes] /\ OthersKept(md, view, op)
  <2>1. node \in [Places -> Nodes] /\ Calm(node, R, free, view, op) /\ b \in Loose(op) /\ n \in Nodes
    BY <1>1
  <2>2. Put(node, b, n, md)
    <3>1. b \in Places
      BY <1>1, <2>1 DEF Places, Ops
    <3> QED BY Zenon, <3>1, <2>1, PutIs
  <2>3. Calm(md, R, free, view, op)
    BY <2>1, <2>2, OffTree
  <2>4. b \in Blocks /\ md \in [Places -> Nodes]
    BY Zenon, <1>1, <2>1, <2>2 DEF Put, Ops
  <2>5. OthersKept(node, view, op) => OthersKept(md, view, op)
    BY <2>1, <2>2, OffTree
  <2> QED BY <1>1, <2>3, <2>4, <2>5
<1>3. /\ OpBlocks(q) = OpBlocks(op) /\ Base(view, q) = Base(view, op) /\ q.kind = op.kind
  BY AlikeIs DEF Alike
<1>4. Loose(q) = Loose(op)
  <2>1. q.pc # "fix" /\ q.pc # "indexfree" /\ q.pc # "middlefree"
    BY DEF CalmPcs, GrowPcs, SplitPcs
  <2> QED BY Zenon, <2>1, <1>1, <1>3 DEF Loose, OpBlocks
<1>5. Busy(md, R, free, view, q)
  <2>1. Calm(md, R, free, view, q)
    BY Zenon, <1>2, <1>3, <1>4 DEF Calm
  <2>2. q.kind \in {"get", "remove"}
    BY <1>1, <1>3
  <2> QED BY <2>1, <2>2, CalmIs
<1>6. Typed(md, free, q) /\ q.pc \in LivePcs
  BY <1>1, <1>2 DEF Typed, CalmPcs, LivePcs, GetPcs, RemovePcs, SplitPcs, GrowPcs, LeafPcs
<1> DEFINE x == Seen(view, md, q)
<1>7. Onward(view, op, md, free, x, q)
  <2>1. x = Seen(view, md, q)
    OBVIOUS
  <2> HIDE DEF x
  <2> QED BY <2>1, <1>5, <1>6, LiveOn
<1>8. b \in Places
  BY <1>2 DEF Places
<1> QED BY Zenon, <1>1, <1>2, <1>7, <1>8, WriteOn

(* grow_indepth: the new block is written. *)
LEMMA GrowPutOn ==
  ASSUME Typed(node, free, op), NEW R \in SUBSET Places, Fits(node, R, free, view, op), GrowPut
  PROVE  Onward(view, op, node', free', view', op')
<1> DEFINE q == ToPc(op, "growroot")
           n == node[Root]
<1>1. op.pc = "growput" /\ UNCHANGED free /\ view' = Seen(view, node', op') /\ \E b \in op.fresh : Write(b, n, q)
  <2>1. op.pc = "growput" /\ UNCHANGED free /\ Step /\ \E b \in op.fresh : Write(b, n, q)
    BY Zenon DEF GrowPut, ToPc
  <2> QED BY <2>1 DEF Step, Seen
<1>2. op.pc \in CalmPcs /\ op.pc \in FreshPcs
  BY <1>1 DEF CalmPcs, GrowPcs, FreshPcs
<1>3. /\ op \in Ops /\ Calm(node, R, free, view, op) /\ node \in [Places -> Nodes] /\ Numbers(node, view, op)
      /\ Loose(op) = op.fresh \cup OpBlocks(op)
  BY <1>2, CalmNow
<1>4. (\E b \in Blocks : op.fresh = {b}) /\ op.fresh \cap OpBlocks(op) = {} /\ Len(node[Root].ents) >= RootMax
      /\ node[Root].depth < MaxDepth
  BY <1>1, <1>2, <1>3 DEF Numbers, GrowPcs
<1>5. PICK b \in op.fresh : Write(b, n, q)
  BY <1>1
<1>6. q \in Ops /\ q.pc = "growroot" /\ Alike(op, q) /\ q.fresh = op.fresh
  BY Zenon, <1>3 DEF ToPc, Ops, Pcs, Alike
<1> HIDE DEF q
<1> DEFINE md == [node EXCEPT ![b] = n]
<1>7. n \in Nodes
  BY <1>3 DEF Places
<1>8. md[b] = n /\ md[Root] = node[Root] /\ b \in Loose(op)
  <2>1. b \in Loose(op)
    BY <1>3
  <2>2. b \in Places
    BY <1>4 DEF Places
  <2>3. Put(node, b, n, md)
    BY Zenon, <2>2, <1>3, <1>7, PutIs
  <2> HIDE DEF md
  <2> QED BY <2>1, <2>3, <1>3, OffTree
<1> HIDE DEF md
<1>9. Numbers(md, view, q)
  <2>1. q.pc \in {"room"} \cup GrowPcs \cup SplitPcs /\ op.pc \in {"room"} \cup GrowPcs \cup SplitPcs /\ q.pc \in FreshPcs
    BY <1>1, <1>6 DEF GrowPcs, FreshPcs
  <2>2. \A c \in q.fresh : md[c] = md[Root]
    BY <1>4, <1>6, <1>8
  <2> QED BY Zenon, <2>1, <2>2, <1>3, <1>4, <1>6, <1>8, AlikeNumbers
<1>10. PathKept(md, R, q) /\ q.pc \in CalmPcs
  BY <1>6 DEF PathKept, SplitPcs, LeafPcs, CalmPcs, GrowPcs
<1>11. Write(b, n, q) /\ md = [node EXCEPT ![b] = n]
  BY <1>5 DEF md
<1> HIDE DEF n
<1> QED BY Zenon, <1>1, <1>2, <1>6, <1>7, <1>8, <1>9, <1>10, <1>11, CalmWriteOn

(* What the root becomes. *)
Above(n, f) == [depth |-> n.depth + 1, ents |-> <<[first |-> n.ents[1].first, child |-> f]>>]

(* grow_indepth: the root points to the new block. *)
LEMMA GrowRootOn ==
  ASSUME Typed(node, free, op), NEW R \in SUBSET Places, Fits(node, R, free, view, op), GrowRoot
  PROVE  Onward(view, op, node', free', view', op')
<1> DEFINE n == node[Root]
           q == op'
           x == view'
           md == node'
           i(b) == [first |-> IF n.ents = <<>> THEN 0 ELSE n.ents[1].first, child |-> b]
<1>1. /\ op.pc = "growroot" /\ free' = free /\ x = Seen(view, md, q) /\ q = [op EXCEPT !.pc = "room", !.fresh = {}]
      /\ \E b \in op.fresh : node' = [node EXCEPT ![Root] = [depth |-> @.depth + 1, ents |-> <<i(b)>>]]
  <2>1. /\ op.pc = "growroot" /\ UNCHANGED <<free, faults>> /\ Step /\ q = [op EXCEPT !.pc = "room", !.fresh = {}]
        /\ \E b \in op.fresh : node' = [node EXCEPT ![Root] = [depth |-> @.depth + 1, ents |-> <<i(b)>>]]
    BY Zenon DEF GrowRoot
  <2> QED BY Zenon, <2>1 DEF Step, Seen
<1>2. op.pc \in CalmPcs /\ op.pc \in FreshPcs
  BY <1>1 DEF CalmPcs, GrowPcs, FreshPcs
<1>3. /\ op \in Ops /\ Calm(node, R, free, view, op) /\ node \in [Places -> Nodes] /\ Numbers(node, view, op)
      /\ Loose(op) = op.fresh \cup OpBlocks(op) /\ Tree(node, R) /\ Neat(node, R, {}) /\ Shape(node, R)
      /\ Owned(R, free, Loose(op), Base(view, op)) /\ (\A l \in LBlocks : Lookup(node, l) = Base(view, op)[l])
      /\ op.kind \in {"get", "remove"} /\ free \in SUBSET Blocks
  BY <1>2, CalmNow
<1>4. PICK f \in Blocks : op.fresh = {f}
  BY <1>1, <1>2, <1>3 DEF Numbers
<1>5. /\ f \notin OpBlocks(op) /\ Len(n.ents) >= RootMax /\ n.depth < MaxDepth /\ node[f] = n /\ f \in Loose(op)
  BY <1>1, <1>2, <1>3, <1>4 DEF Numbers, GrowPcs
<1>6. Root \in R /\ Fit(Root, n) /\ n.depth \in 0 .. MaxDepth /\ n.ents # <<>>
  <2>1. Root \in R
    BY <1>3 DEF Shape
  <2>2. Fit(Root, n) /\ n.depth \in 0 .. MaxDepth /\ Len(n.ents) \in Nat /\ (n.ents = <<>> <=> Len(n.ents) = 0)
    BY <2>1, <1>3, DepthIs
  <2>3. n.ents # <<>>
    <3> HIDE DEF n
    <3> QED BY <2>2, <1>5, CapacityAssumption
  <2> QED BY <2>1, <2>2, <2>3
<1>7. md = [node EXCEPT ![Root] = Above(n, f)]
  <2>1. md = [node EXCEPT ![Root] = [depth |-> n.depth + 1, ents |-> <<i(f)>>]]
    BY <1>1, <1>4
  <2>2. i(f) = [first |-> n.ents[1].first, child |-> f]
    BY <1>6
  <2> HIDE DEF i
  <2> QED BY <2>1, <2>2 DEF Above
<1> HIDE DEF q, x, md, i
<1>8. Above(n, f) \in Nodes
  <2> DEFINE d == n.depth + 1
             k == n.ents[1].first
  <2>1. d \in 1 .. MaxDepth
    BY <1>5, <1>6, SizeAssumption
  <2>2. k \in LBlocks
    <3>1. 1 \in 1 .. Len(n.ents)
      <4>1. Len(n.ents) \in Nat /\ Len(n.ents) # 0
        BY <1>6, NodeIs
      <4> QED BY <4>1
    <3> HIDE DEF n
    <3> QED BY Zenon, <3>1, <1>6, EntryIs
  <2> HIDE DEF d, k
  <2>3. <<[first |-> k, child |-> f]>> \in Seq(Indexes)
    BY <2>2 DEF Indexes
  <2>4. Above(n, f) = [depth |-> d, ents |-> <<[first |-> k, child |-> f]>>]
    BY DEF Above, d, k
  <2> QED BY <2>1, <2>3, <2>4 DEF Nodes, Inner
<1>9. Put(node, Root, Above(n, f), md)
  <2>1. Root \in Places
    BY DEF Places
  <2> QED BY Zenon, <2>1, <1>3, <1>7, <1>8, PutIs
<1>10. f \notin R /\ Owned(R \cup {f}, free, Loose(op) \ {f}, Base(view, op))
  <2> DEFINE X == Loose(op)
             m == Base(view, op)
  <2>1. Owned(R, free, X, m) /\ f \in X
    BY <1>3, <1>5
  <2> HIDE DEF X, m
  <2>2. f \notin R /\ Owned(R \cup {f}, free, X \ {f}, m)
    BY <2>1, OwnNode
  <2> QED BY <2>2 DEF X, m
<1> DEFINE Q == R \cup {f}
<1>11. Tree(md, Q) /\ Neat(md, Q, {}) /\ \A l \in LBlocks : Lookup(md, l) = Lookup(node, l)
  <2>1. Put(node, Root, [depth |-> node[Root].depth + 1, ents |-> <<[first |-> node[Root].ents[1].first, child |-> f]>>], md)
    BY <1>9 DEF Above
  <2>2. Tree(node, R) /\ Neat(node, R, {}) /\ f \notin R /\ node[f] = node[Root]
        /\ node[Root].ents # <<>> /\ node[Root].depth < MaxDepth
    BY <1>3, <1>5, <1>6, <1>10
  <2> HIDE DEF n
  <2> QED BY Zenon, <2>1, <2>2, GrowTree
<1>12. q \in Ops /\ q.pc = "room" /\ q.fresh = {} /\ Alike(op, q) /\ q.kind = op.kind
  BY Zenon, <1>1, <1>3 DEF Ops, Pcs, Alike
<1>13. OpBlocks(q) = OpBlocks(op) /\ Base(view, q) = Base(view, op)
  BY <1>12, AlikeIs
<1>14. Loose(q) = Loose(op) \ {f}
  BY Zenon, <1>3, <1>4, <1>5, <1>12, <1>13 DEF Loose, OpBlocks
<1> HIDE DEF Q
<1>15. Calm(md, Q, free, view, q)
  BY <1>3, <1>10, <1>11, <1>13, <1>14 DEF Calm, Q
<1>16. Numbers(md, view, q)
  <2>1. /\ q.pc \in {"room"} \cup GrowPcs \cup SplitPcs /\ op.pc \in {"room"} \cup GrowPcs \cup SplitPcs
        /\ q.pc \notin FreshPcs /\ q.pc \notin GrowPcs /\ q.pc \notin {"growput", "growroot"}
    BY <1>1, <1>12 DEF GrowPcs, FreshPcs
  <2> QED BY Zenon, <2>1, <1>3, <1>12, AlikeNumbers
<1>17. PathKept(md, Q, q) /\ q.pc \in CalmPcs /\ q.pc \in LivePcs
  BY <1>12 DEF PathKept, SplitPcs, LeafPcs, CalmPcs, LivePcs, GetPcs
<1>18. Busy(md, Q, free, view, q)
  <2>1. q.kind \in {"get", "remove"}
    BY <1>3, <1>12
  <2> QED BY <2>1, <1>15, <1>16, <1>17, CalmIs
<1>19. Typed(md, free, q) /\ Q \in SUBSET Places
  <2>1. f \in Places
    BY DEF Places
  <2> QED BY <2>1, <1>3, <1>9, <1>12 DEF Typed, Put, Q
<1>20. Onward(view, op, md, free, x, q)
  BY Zenon, <1>1, <1>17, <1>18, <1>19, LiveOn
<1> QED BY <1>1, <1>20 DEF md, x, q

-----------------------------------------------------------------------------
(* remove_space goes on after a removal. *)

(* What holds while the tree is not plain. *)
LaterPcs == {"middlefree", "leafput", "index", "indexfree", "fix"}

(* The parts of the invariant in those states. *)
LEMMA LaterNow ==
  ASSUME Typed(node, free, op), NEW R, Fits(node, R, free, view, op), op.pc \in LaterPcs
  PROVE  /\ op \in Ops /\ op.pc \in LivePcs /\ Tree(node, R) /\ Neat(node, R, Odd(node, op)) /\ Shape(node, R)
         /\ node \in [Places -> Nodes] /\ free \in SUBSET Blocks
         /\ op.lo \in Int /\ op.hi \in Int /\ op.lo \in LBlocks /\ op.hi \in LBlocks /\ op.res = "EOK" /\ op.fresh = {}
         /\ OthersKept(node, view, op) /\ Owned(R, free, Loose(op), Kept(view, op)) /\ Reads(node, Target(view, op))
         /\ OpBlocks(op) \subseteq Blocks /\ PathKept(node, R, op) /\ op.kind \in {"get", "remove"}
         /\ op.pc # "fix" => op.kind = "remove"
         /\ op.kind = "get" => GetNumbers(view, op)
         /\ op.kind = "remove" => RemoveNumbers(op) /\ op.from \in LBlocks /\ op.from \in Int /\ op.lo <= op.from /\ op.from <= op.hi
         /\ op.kind = "remove" /\ op.pc # "middlefree" => op.cut \in op.from .. op.hi
<1>1. op.pc \in LivePcs /\ op \in Ops /\ op.pc # "splitleft" /\ op.pc \notin FreshPcs
  BY DEF Typed, LivePcs, GetPcs, RemovePcs, GrowPcs, SplitPcs, LeafPcs, LaterPcs, FreshPcs
<1>2. /\ Busy(node, R, free, view, op) /\ OthersKept(node, view, op) /\ OpBlocks(op) \subseteq Blocks
      /\ op.kind \in {"get", "remove"} /\ PathKept(node, R, op)
      /\ op.res = "EOK" /\ op.lo \in LBlocks /\ op.hi \in LBlocks /\ op.fresh = {}
      /\ (op.kind = "get" => GetNumbers(view, op) /\ op.pc \in GetPcs)
      /\ (op.kind = "remove" => RemoveNumbers(op))
  BY <1>1, LiveIs
<1>3. Whole(node, op) = node
  BY <1>1 DEF Whole
<1>4. Tree(node, R) /\ Neat(node, R, Odd(node, op)) /\ Owned(R, free, Loose(op), Kept(view, op)) /\ Reads(node, Target(view, op))
  BY <1>2, <1>3 DEF Busy, Reads
<1>5. op.pc # "fix" => op.kind = "remove"
  BY <1>2 DEF LaterPcs, GetPcs, GrowPcs, SplitPcs
<1>6. op.lo \in Int /\ op.hi \in Int /\ op.from \in Int
  BY <1>1, OpIs
<1>7. op.kind = "remove" => op.from \in LBlocks /\ op.lo <= op.from /\ op.from <= op.hi
  BY <1>2 DEF RemoveNumbers, LaterPcs
<1>8. op.kind = "remove" /\ op.pc # "middlefree" => op.cut \in op.from .. op.hi
  BY <1>2 DEF RemoveNumbers, LaterPcs, LeafPcs
<1> QED BY <1>1, <1>2, <1>4, <1>5, <1>6, <1>7, <1>8 DEF Typed, Tree

(* The range is removed to its end. *)
LEMMA ClearedOn ==
  ASSUME NEW vw, NEW o \in Ops, o.kind = "remove", o.lo \in LBlocks, o.hi \in LBlocks, o.fresh = {},
         NEW nd \in [Places -> Nodes], NEW R \in SUBSET Places, NEW fr \in SUBSET Blocks, Tree(nd, R), Neat(nd, R, {}),
         NEW m, m = Clear(vw, o, o.hi + 1), Owned(R, fr, {}, m), Reads(nd, m),
         NEW q, q = Finish(o, "EOK"), NEW x, x = Seen(vw, nd, q)
  PROVE  Onward(vw, o, nd, fr, x, q)
<1>1. q.pc = "done" /\ q.res = "EOK" /\ q.kind = "remove" /\ q.fresh = {} /\ q \in Ops
  BY Zenon DEF Finish, Ops, Pcs, Errors
<1>2. Took(vw, o, m)
  BY DEF Took
<1>3. Typed(nd, fr, q)
  BY <1>1 DEF Typed
<1>4. \A l \in LBlocks : Lookup(nd, l) = m[l]
  BY DEF Reads
<1> HIDE DEF Reads
<1> QED BY <1>1, <1>2, <1>3, <1>4, DoneOn

ToLoop(o, a) == [o EXCEPT !.pc = "remove", !.from = a]

(* remove_space is back in its loop. *)
LEMMA LoopOn ==
  ASSUME NEW vw, NEW o \in Ops, o.kind = "remove", o.lo \in LBlocks, o.hi \in LBlocks, o.res = "EOK", o.fresh = {},
         NEW nd \in [Places -> Nodes], NEW R \in SUBSET Places, NEW fr \in SUBSET Blocks, Tree(nd, R), Neat(nd, R, {}),
         NEW a \in LBlocks, o.lo <= a, Owned(R, fr, {}, Clear(vw, o, a)), Reads(nd, Clear(vw, o, a)),
         NEW q, q = ToLoop(o, a), NEW x, x = Seen(vw, nd, q)
  PROVE  Onward(vw, o, nd, fr, x, q)
<1>1. /\ q.pc = "remove" /\ q.from = a /\ q.kind = "remove" /\ q.lo = o.lo /\ q.hi = o.hi /\ q.fresh = {} /\ q.res = "EOK"
  BY DEF Ops, ToLoop
<1>2. q \in Ops
  <2>1. a \in Nat
    BY Width
  <2> QED BY Zenon, <2>1 DEF Ops, Pcs, ToLoop
<1>3. Base(vw, q) = Clear(vw, o, a) /\ Loose(q) = {}
  BY <1>1 DEF Base, Clear, Loose
<1>4. Calm(nd, R, fr, vw, q)
  BY <1>3 DEF Calm, Reads
<1>5. Numbers(nd, vw, q)
  <2>1. RemoveNumbers(q)
    BY <1>1 DEF RemoveNumbers, RemovePcs, LeafPcs
  <2> QED BY <2>1, <1>1 DEF Numbers, FreshPcs, GrowPcs, OpBlocks
<1>6. PathKept(nd, R, q) /\ q.pc \in CalmPcs /\ q.pc \in LivePcs
  BY <1>1 DEF PathKept, SplitPcs, LeafPcs, CalmPcs, LivePcs, RemovePcs
<1>7. Busy(nd, R, fr, vw, q)
  BY <1>1, <1>4, <1>5, <1>6, CalmIs
<1>8. Typed(nd, fr, q)
  BY <1>1, <1>2 DEF Typed
<1> HIDE DEF Reads
<1> QED BY <1>6, <1>7, <1>8, LiveOn

(* One piece is removed. *)
LEMMA ResumeRemove ==
  ASSUME NEW vw, NEW o \in Ops, o.kind = "remove", o.lo \in LBlocks, o.hi \in LBlocks, o.res = "EOK", o.fresh = {},
         NEW nd \in [Places -> Nodes], NEW R \in SUBSET Places, NEW fr \in SUBSET Blocks, Tree(nd, R), Neat(nd, R, {}),
         o.cut \in o.from .. o.hi, o.lo <= o.from,
         Owned(R, fr, {}, Clear(vw, o, o.cut + 1)), Reads(nd, Clear(vw, o, o.cut + 1)),
         NEW q, q = Resume(o), NEW x, x = Seen(vw, nd, q)
  PROVE  Onward(vw, o, nd, fr, x, q)
<1>1. /\ o.lo \in Int /\ o.hi \in Int /\ o.from \in Int /\ o.cut \in Int /\ LastLBlock \in Int
      /\ LBlocks = 0 .. LastLBlock
  BY OpIs, Width
<1> DEFINE a == o.cut + 1
<1>2. CASE o.cut = LastLBlock
  <2>1. o.hi = LastLBlock
    BY <1>1, <1>2
  <2>2. q = Finish(o, "EOK")
    BY <1>2 DEF Resume
  <2> DEFINE m == Clear(vw, o, o.hi + 1)
  <2>3. m = Clear(vw, o, o.hi + 1) /\ Owned(R, fr, {}, m) /\ Reads(nd, m)
    BY <2>1, <1>2
  <2> DEFINE y == Finish(o, "EOK")
             z == Seen(vw, nd, y)
  <2>4. y = Finish(o, "EOK") /\ z = Seen(vw, nd, y)
    OBVIOUS
  <2> HIDE DEF m, Reads, y, z
  <2>5. Onward(vw, o, nd, fr, z, y)
    BY <2>3, <2>4, ClearedOn
  <2> QED BY <2>2, <2>5 DEF y, z
<1>3. CASE o.cut # LastLBlock
  <2>1. a \in LBlocks /\ o.lo <= a
    BY <1>1, <1>3
  <2>2. q = ToLoop(o, a)
    BY <1>3 DEF Resume, ToLoop
  <2>3. Owned(R, fr, {}, Clear(vw, o, a)) /\ Reads(nd, Clear(vw, o, a))
    OBVIOUS
  <2> HIDE DEF a, Reads
  <2> QED BY <2>1, <2>2, <2>3, LoopOn
<1> QED BY <1>2, <1>3

(* remove_middle_of_extent frees the blocks between. *)
LEMMA RemoveMiddleFreeOn ==
  ASSUME Typed(node, free, op), NEW R \in SUBSET Places, Fits(node, R, free, view, op), RemoveMiddleFree
  PROVE  Onward(view, op, node', free', view', op')
<1> DEFINE S == RemoveBlocks(Leaf(op.path).ent, op.from, op.hi)
           q == Finish(op, "EOK")
           m == Clear(view, op, op.hi + 1)
<1>1. op.pc = "middlefree" /\ Free(S, q) /\ node' = node /\ view' = Seen(view, node', op')
  BY DEF RemoveMiddleFree, Step, Seen
<1>2. op.pc \in LaterPcs
  BY <1>1 DEF LaterPcs
<1>3. /\ op \in Ops /\ op.pc \in LivePcs /\ Tree(node, R) /\ Neat(node, R, Odd(node, op)) /\ node \in [Places -> Nodes]
      /\ free \in SUBSET Blocks /\ op.lo \in LBlocks /\ op.hi \in LBlocks /\ op.fresh = {} /\ op.kind = "remove"
      /\ Owned(R, free, Loose(op), Kept(view, op)) /\ Reads(node, Target(view, op))
  BY <1>1, <1>2, LaterNow
<1>4. Loose(op) = S /\ Kept(view, op) = m /\ Target(view, op) = m /\ Odd(node, op) = {}
  BY <1>1, <1>3 DEF Loose, Kept, Target, Odd
<1> HIDE DEF S, q, m
<1>5. CASE free' = free \cup S /\ op' = q
  <2>1. Owned(R, free \cup S, S \ S, m) /\ S \subseteq Blocks
    <3>1. Owned(R, free, S, m) /\ S \in SUBSET S
      BY <1>3, <1>4
    <3>2. S \subseteq Blocks
      BY <3>1 DEF Owned
    <3> QED BY <3>1, <3>2, OwnGive
  <2>2. Owned(R, free', {}, m) /\ free' \in SUBSET Blocks
    <3>1. S \ S = {}
      OBVIOUS
    <3> QED BY <3>1, <2>1, <1>3, <1>5
  <2>3. m = Clear(view, op, op.hi + 1) /\ op' = Finish(op, "EOK")
    BY <1>5 DEF m, q
  <2>4. Reads(node, m) /\ Neat(node, R, {}) /\ view' = Seen(view, node, op')
    BY <1>1, <1>3, <1>4
  <2> HIDE DEF Reads
  <2>5. Onward(view, op, node, free', view', op')
    BY <2>2, <2>3, <2>4, <1>3, ClearedOn
  <2> QED BY <2>5, <1>1
<1>6. CASE op' = Fail(op, "EIO") /\ free' = free
  <2>1. "EIO" \in Errors \ {"EOK"}
    BY DEF Errors
  <2> QED BY <2>1, <1>1, <1>3, <1>6, FailStill
<1>7. (free' = free \cup S /\ op' = q) \/ (op' = Fail(op, "EIO") /\ free' = free)
  BY <1>1 DEF Free
<1> QED BY <1>5, <1>6, <1>7

-----------------------------------------------------------------------------
(* One turn of remove_space's loop. *)

(* Past the range nothing is cleared. *)
LEMMA ClearAll ==
  ASSUME NEW vw, NEW o \in Ops, NEW x \in Int, o.hi < x
  PROVE  Clear(vw, o, o.hi + 1) = Clear(vw, o, x)
<1>1. o.lo \in Int /\ o.hi \in Int /\ LBlocks \subseteq Int
  BY OpIs, Width
<1>2. ASSUME NEW l \in LBlocks PROVE (l \in o.lo .. o.hi /\ l < o.hi + 1) <=> (l \in o.lo .. o.hi /\ l < x)
  BY <1>1
<1> QED BY <1>2 DEF Clear

Bare(m, x, z, h) == \A y \in LBlocks : x <= y /\ y < z /\ y <= h => m[y] = Hole

(* Where nothing is mapped there is nothing to clear. *)
LEMMA ClearOver ==
  ASSUME NEW vw, NEW o \in Ops, NEW x \in Int, NEW z \in Int, x <= z, NEW m, m = Clear(vw, o, x), Bare(m, x, z, o.hi)
  PROVE  Clear(vw, o, z) = m
<1>1. o.lo \in Int /\ o.hi \in Int /\ LBlocks \subseteq Int
  BY OpIs, Width
<1> DEFINE w == Clear(vw, o, z)
<1>2. ASSUME NEW l \in LBlocks PROVE w[l] = m[l]
  <2>1. m[l] = IF l \in o.lo .. o.hi /\ l < x THEN Hole ELSE vw[l]
    BY DEF Clear
  <2>2. w[l] = IF l \in o.lo .. o.hi /\ l < z THEN Hole ELSE vw[l]
    BY DEF Clear
  <2> HIDE DEF w
  <2>3. CASE l < x
    <3>1. l < z
      BY <2>3, <1>1
    <3> QED BY <3>1, <2>1, <2>2, <2>3
  <2>4. CASE ~ (l < x) /\ l \in o.lo .. o.hi /\ l < z
    <3>1. x <= l /\ l <= o.hi
      BY <2>4, <1>1
    <3>2. m[l] = Hole
      BY <3>1, <2>4 DEF Bare
    <3> QED BY <3>2, <2>2, <2>4
  <2>5. CASE ~ (l < x) /\ ~ (l \in o.lo .. o.hi /\ l < z)
    BY <2>1, <2>2, <2>5
  <2> QED BY <2>3, <2>4, <2>5
<1>3. w = [l \in LBlocks |-> w[l]] /\ m = [l \in LBlocks |-> m[l]]
  BY DEF Clear
<1> HIDE DEF w
<1>4. w = m
  BY <1>2, <1>3
<1> QED BY <1>4 DEF w

(* remove_space has nothing left to remove. *)
LEMMA NothingLeft ==
  ASSUME Typed(node, free, op), NEW R \in SUBSET Places, Fits(node, R, free, view, op), op.pc = "remove",
         node' = node, free' = free, view' = Seen(view, node', op'), op' = Finish(op, "EOK"),
         op.hi < op.from \/ Bare(Clear(view, op, op.from), op.from, op.hi + 1, op.hi)
  PROVE  Onward(view, op, node', free', view', op')
<1>1. op.pc \in CalmPcs \ FreshPcs /\ op.pc \notin GetPcs
  BY DEF CalmPcs, FreshPcs, GetPcs, GrowPcs, SplitPcs
<1>2. op.kind = "remove"
  BY <1>1, CalmNow DEF Numbers, GetNumbers
<1>3. /\ op \in Ops /\ Tree(node, R) /\ Neat(node, R, {}) /\ node \in [Places -> Nodes] /\ free \in SUBSET Blocks
      /\ op.hi \in Int /\ op.from \in Int /\ op.hi \in LBlocks /\ op.lo \in LBlocks /\ op.fresh = {}
      /\ Owned(R, free, {}, Clear(view, op, op.from)) /\ Reads(node, Clear(view, op, op.from))
  BY <1>1, <1>2, RemoveNow
<1> DEFINE m == Clear(view, op, op.from)
<1>4. m = Clear(view, op, op.hi + 1)
  <2>1. CASE op.hi < op.from
    BY <2>1, <1>3, ClearAll
  <2>2. CASE ~ (op.hi < op.from)
    <3>1. op.from <= op.hi + 1 /\ op.hi + 1 \in Int
      BY <2>2, <1>3
    <3>2. m = Clear(view, op, op.from) /\ Bare(m, op.from, op.hi + 1, op.hi)
      BY <2>2
    <3> DEFINE z == op.hi + 1
    <3>3. z \in Int /\ op.from <= z /\ Bare(m, op.from, z, op.hi)
      BY <3>1, <3>2
    <3> HIDE DEF m, z, Bare
    <3>4. Clear(view, op, z) = m
      BY <1>3, <3>2, <3>3, ClearOver
    <3> QED BY <3>4 DEF z
  <2> QED BY <2>1, <2>2
<1>5. Owned(R, free, {}, m) /\ Reads(node, m)
  BY <1>3
<1> HIDE DEF m, Reads
<1>6. Onward(view, op, node, free, view', op')
  BY <1>2, <1>3, <1>4, <1>5, ClearedOn
<1> QED BY <1>6

ToRoom(o) == [o EXCEPT !.pc = "room", !.tries = 0]
ToLeaf(o, P, c) == [o EXCEPT !.pc = "leaffree", !.path = P, !.cut = c]

(* What a turn is based on. *)
Turning(P, e) ==
    /\ op.pc = "remove" /\ op.kind = "remove" /\ op.from <= op.hi /\ P = FindPath(node, op.from) /\ FindResult(node, P) = "EOK"
    /\ e = Leaf(P).ent /\ node' = node /\ free' = free /\ view' = Seen(view, node', op')

(* A range within an extent: room is needed for its second half. *)
LEMMA TurnRoom ==
  ASSUME Typed(node, free, op), NEW R \in SUBSET Places, Fits(node, R, free, view, op), NEW P, NEW e, Turning(P, e), op' = ToRoom(op)
  PROVE  Onward(view, op, node', free', view', op')
<1> DEFINE q == op'
           x == view'
<1>1. op.pc \in CalmPcs \ FreshPcs
  BY DEF Turning, CalmPcs, FreshPcs, GrowPcs, SplitPcs
<1>2. /\ op \in Ops /\ op.lo \in LBlocks /\ op.hi \in LBlocks /\ op.fresh = {} /\ op.res = "EOK" /\ op.kind = "remove"
      /\ RemoveNumbers(op) /\ OpBlocks(op) = {} /\ Loose(op) = {} /\ op.from \in LBlocks /\ op.lo <= op.from
  BY <1>1, RemoveNow DEF Turning
<1>3. Calm(node, R, free, view, op)
  BY <1>1, CalmNow
<1>4. q.pc = "room" /\ q.kind = "remove" /\ q.lo = op.lo /\ q.hi = op.hi /\ q.from = op.from /\ q.fresh = {} /\ q.res = "EOK"
  BY <1>2 DEF Ops, ToRoom
<1>5. q \in Ops
  BY Zenon, <1>2 DEF Ops, Pcs, ToRoom
<1>6. x = Seen(view, node, q) /\ node' = node /\ free' = free /\ op.from <= op.hi
  BY DEF Turning
<1> HIDE DEF q, x
<1>7. Calm(node, R, free, view, q)
  <2>1. Base(view, q) = Base(view, op) /\ Loose(q) = Loose(op)
    BY <1>2, <1>4 DEF Base, Clear, Loose
  <2> QED BY <2>1, <1>3 DEF Calm
<1>8. Numbers(node, view, q)
  <2>1. RemoveNumbers(q)
    BY <1>2, <1>4, <1>6 DEF RemoveNumbers, RemovePcs, LeafPcs
  <2> QED BY <2>1, <1>2, <1>4 DEF Numbers, FreshPcs, GrowPcs, OpBlocks
<1>9. PathKept(node, R, q) /\ q.pc \in CalmPcs /\ q.pc \in LivePcs
  BY <1>4 DEF PathKept, SplitPcs, LeafPcs, CalmPcs, LivePcs, RemovePcs
<1>10. Busy(node, R, free, view, q)
  BY <1>4, <1>7, <1>8, <1>9, CalmIs
<1>11. Typed(node, free, q)
  BY <1>4, <1>5 DEF Typed
<1>12. Onward(view, op, node, free, x, q)
  BY <1>6, <1>9, <1>10, <1>11, LiveOn
<1> QED BY <1>6, <1>12 DEF q, x

(* A range that meets the extent at one of its ends or covers it. *)
LEMMA TurnLeaf ==
  ASSUME Typed(node, free, op), NEW R \in SUBSET Places, Fits(node, R, free, view, op), NEW P, NEW e, Turning(P, e),
         HaveExtent(P), e.first <= op.hi, op.from <= End64(e) - 1, op.from <= e.first \/ End64(e) - 1 <= op.hi,
         op' = ToLeaf(op, P, IF End64(e) - 1 < op.hi THEN End64(e) - 1 ELSE op.hi)
  PROVE  Onward(view, op, node', free', view', op')
<1> DEFINE q == op'
           x == view'
           z == End64(e)
           c == IF z - 1 < op.hi THEN z - 1 ELSE op.hi
<1>1. op.pc \in CalmPcs \ FreshPcs
  BY DEF Turning, CalmPcs, FreshPcs, GrowPcs, SplitPcs
<1>2. /\ op \in Ops /\ op.lo \in LBlocks /\ op.hi \in LBlocks /\ op.fresh = {} /\ op.res = "EOK" /\ op.kind = "remove"
      /\ RemoveNumbers(op) /\ OpBlocks(op) = {} /\ Loose(op) = {} /\ op.from \in LBlocks /\ op.lo <= op.from
      /\ Shape(node, R) /\ op.from \in Int /\ op.hi \in Int
  BY <1>1, RemoveNow DEF Turning
<1>3. Calm(node, R, free, view, op)
  BY <1>1, CalmNow
<1>4. P = FindPath(node, op.from) /\ FindResult(node, P) = "EOK" /\ e = Leaf(P).ent /\ op.from <= op.hi
      /\ x = Seen(view, node, q) /\ node' = node /\ free' = free
  BY DEF Turning
<1> HIDE DEF q, x, c, z
<1>5. /\ Leaf(P).depth = 0 /\ Good(e) /\ P \in Seq(PathSteps)
  <2> DEFINE b == Landing(node, op.from)
  <2>1. Leaf(P).depth = node[b].depth /\ b \in R /\ (HaveExtent(P) <=> node[b].ents # <<>>)
        /\ (node[b].ents # <<>> => Leaf(P).pos \in 1 .. Len(node[b].ents) /\ e = node[b].ents[Leaf(P).pos])
    BY <1>2, <1>4, LeafIs
  <2>2. node[b].depth = 0
    <3>1. FindResult(node, P) = IF node[b].depth = 0 THEN "EOK" ELSE "ENOENT"
      BY <1>2, <1>4, ResultIs
    <3> QED BY <3>1, <1>4
  <2>4. Good(e)
    <3> DEFINE n == node[b]
               k == Leaf(P).pos
    <3>1. n.depth = 0 /\ k \in 1 .. Len(n.ents) /\ e = n.ents[k] /\ Fit(b, n)
      BY <2>1, <2>2, <1>2, DepthIs
    <3> HIDE DEF n, k
    <3>2. \A q1 \in 1 .. Len(n.ents) : Good(n.ents[q1])
      BY <3>1, LeafParts
    <3> QED BY <3>1, <3>2
  <2>3. P \in Seq(PathSteps)
    BY <1>2, <1>4, PathLinked
  <2> HIDE DEF b
  <2> QED BY <2>1, <2>2, <2>3, <2>4
<1>6. /\ z \in Int /\ c \in op.from .. op.hi /\ c \in Nat /\ e.first <= op.hi /\ op.from <= z - 1
      /\ c = (IF z - 1 < op.hi THEN z - 1 ELSE op.hi) /\ (op.from <= e.first \/ z - 1 <= op.hi)
  <2>1. z \in Int
    BY <1>5, GoodIs DEF z
  <2>2. e.first <= op.hi /\ op.from <= z - 1 /\ (op.from <= e.first \/ z - 1 <= op.hi)
    BY DEF z
  <2>3. op.from \in Nat
    BY <1>2, Width
  <2>4. c = IF z - 1 < op.hi THEN z - 1 ELSE op.hi
    BY DEF c
  <2>5. c \in op.from .. op.hi
    BY <2>1, <2>2, <2>4, <1>2, <1>4
  <2> QED BY <2>1, <2>2, <2>3, <2>4, <2>5, <1>2
<1>7. q = ToLeaf(op, P, c)
  BY DEF q, c, z
<1>8. /\ q.pc = "leaffree" /\ q.kind = "remove" /\ q.lo = op.lo /\ q.hi = op.hi /\ q.from = op.from /\ q.fresh = {}
      /\ q.res = "EOK" /\ q.path = P /\ q.cut = c
  BY <1>2, <1>7 DEF Ops, ToLeaf
<1>9. q \in Ops
  BY Zenon, <1>2, <1>5, <1>6, <1>7 DEF Ops, Pcs, ToLeaf
<1>10. Calm(node, R, free, view, q)
  <2>1. Base(view, q) = Base(view, op) /\ Loose(q) = Loose(op)
    BY <1>2, <1>8 DEF Base, Clear, Loose
  <2> QED BY <2>1, <1>3 DEF Calm
<1>11. Numbers(node, view, q)
  <2>1. RemoveNumbers(q)
    <3>1. End64(e) = z
      BY DEF z
    <3> QED BY <3>1, <1>2, <1>4, <1>5, <1>6, <1>8 DEF RemoveNumbers, RemovePcs, LeafPcs
  <2> QED BY <2>1, <1>2, <1>8 DEF Numbers, FreshPcs, GrowPcs, OpBlocks
<1>12. PathKept(node, R, q) /\ q.pc \in CalmPcs /\ q.pc \in LivePcs
  <2>1. Key(q) = op.from
    BY <1>8 DEF Key
  <2> QED BY <2>1, <1>4, <1>8 DEF PathKept, SplitPcs, LeafPcs, CalmPcs, LivePcs, RemovePcs
<1>13. Busy(node, R, free, view, q)
  BY <1>8, <1>10, <1>11, <1>12, CalmIs
<1>14. Typed(node, free, q)
  <2>1. node \in [Places -> Nodes] /\ free \in SUBSET Blocks
    BY DEF Typed
  <2> QED BY <2>1, <1>8, <1>9 DEF Typed
<1>15. Onward(view, op, node, free, x, q)
  BY <1>4, <1>12, <1>13, <1>14, LiveOn
<1> QED BY <1>4, <1>15 DEF q, x

(* The walk to the next extent. *)
LEMMA TurnNext ==
  ASSUME Typed(node, free, op), NEW R \in SUBSET Places, Fits(node, R, free, view, op), NEW P, NEW e, Turning(P, e),
         HaveExtent(P), End64(e) - 1 < op.from, NEW next, next = NextExtent(node, P),
         op' = IF next = {} THEN Finish(op, "EOK")
               ELSE IF NoEntry \in next THEN Fail(op, "EIO")
               ELSE [op EXCEPT !.from = (CHOOSE x \in next : TRUE).first]
  PROVE  Onward(view, op, node', free', view', op')
<1> DEFINE l == op.from
           b == Landing(node, l)
           m == Clear(view, op, l)
           z == End64(e)
<1>1. op.pc \in CalmPcs \ FreshPcs /\ op.pc \in LivePcs
  BY DEF Turning, CalmPcs, FreshPcs, GrowPcs, SplitPcs, LivePcs, RemovePcs
<1>2. /\ op \in Ops /\ Tree(node, R) /\ Neat(node, R, {}) /\ Shape(node, R) /\ node \in [Places -> Nodes] /\ free \in SUBSET Blocks
      /\ op.hi \in Int /\ l \in Int /\ l \in LBlocks /\ op.hi \in LBlocks /\ op.lo \in LBlocks /\ op.lo \in Int /\ op.lo <= l
      /\ op.fresh = {} /\ op.res = "EOK" /\ op.kind = "remove"
      /\ Owned(R, free, {}, m) /\ Reads(node, m)
  BY <1>1, RemoveNow DEF Turning
<1>3. P = FindPath(node, l) /\ FindResult(node, P) = "EOK" /\ e = Leaf(P).ent /\ l <= op.hi
      /\ view' = Seen(view, node', op') /\ node' = node /\ free' = free /\ op.pc = "remove"
  BY DEF Turning
<1>4. m = Clear(view, op, l)
  OBVIOUS
<1>5. z \in Int /\ z - 1 < l /\ b = Landing(node, l) /\ node[b].depth = 0 /\ node[b].ents # <<>> /\ Good(e)
  <2> HIDE DEF l, m
  <2>1. Leaf(P).depth = node[b].depth /\ b \in R /\ (HaveExtent(P) <=> node[b].ents # <<>>)
        /\ (node[b].ents # <<>> => Leaf(P).pos \in 1 .. Len(node[b].ents) /\ e = node[b].ents[Leaf(P).pos])
    BY <1>2, <1>3, LeafIs
  <2>2. node[b].depth = 0
    <3>1. FindResult(node, P) = IF node[b].depth = 0 THEN "EOK" ELSE "ENOENT"
      BY <1>2, <1>3, ResultIs
    <3> QED BY <3>1, <1>3
  <2>4. Good(e)
    <3> DEFINE n == node[b]
               k == Leaf(P).pos
    <3>1. n.depth = 0 /\ k \in 1 .. Len(n.ents) /\ e = n.ents[k] /\ Fit(b, n)
      BY <2>1, <2>2, <1>2, DepthIs
    <3> HIDE DEF n, k
    <3>2. \A q1 \in 1 .. Len(n.ents) : Good(n.ents[q1])
      BY <3>1, LeafParts
    <3> QED BY <3>1, <3>2
  <2>5. z \in Int
    BY <2>4, GoodIs
  <2> QED BY <2>1, <2>2, <2>4, <2>5 DEF l
<1> HIDE DEF l, b, m, z
<1>6. \A x \in Int : Gap(node, l, x, e) => Bare(m, l, x, op.hi)
  <2> SUFFICES ASSUME NEW x \in Int, Gap(node, l, x, e), NEW y \in LBlocks, l <= y, y < x
               PROVE  m[y] = Hole
    BY DEF Bare
  <2>1. Lookup(node, y) = Hole \/ (e.first <= y /\ y < End64(e))
    BY DEF Gap
  <2>2. y \in Int
    BY Width
  <2>3. ~ (y < z)
    BY <2>2, <1>2, <1>5
  <2>4. Lookup(node, y) = Hole
    BY <2>1, <2>3 DEF z
  <2> QED BY <2>4, <1>2 DEF Reads
<1>7. \/ next = {} /\ Gap(node, l, LastLBlock + 1, e)
      \/ \E f : next = {f} /\ (f = NoEntry \/ (f.first \in LBlocks /\ l < f.first /\ Gap(node, l, f.first, e)))
  BY <1>2, <1>3, <1>5, NextIs
<1>8. CASE next = {} /\ Gap(node, l, LastLBlock + 1, e)
  <2>1. Bare(m, l, op.hi + 1, op.hi)
    <3>1. LastLBlock + 1 \in Int
      BY Width
    <3>2. Bare(m, l, LastLBlock + 1, op.hi)
      BY <3>1, <1>6, <1>8
    <3>3. \A y \in LBlocks : y < LastLBlock + 1
      BY Width
    <3> QED BY <3>2, <3>3 DEF Bare
  <2>2. op' = Finish(op, "EOK")
    BY <1>8
  <2>3. Bare(Clear(view, op, op.from), op.from, op.hi + 1, op.hi)
    BY <2>1 DEF m, l
  <2> QED BY <2>2, <2>3, <1>3, NothingLeft
<1>9. ASSUME NEW f, next = {f}, f = NoEntry PROVE Onward(view, op, node', free', view', op')
  <2>1. op' = Fail(op, "EIO")
    BY <1>9
  <2>2. "EIO" \in Errors \ {"EOK"}
    BY DEF Errors
  <2> QED BY <2>1, <2>2, <1>1, <1>2, <1>3, FailStill
<1>10. ASSUME NEW f, next = {f}, f # NoEntry, f.first \in LBlocks, l < f.first, Gap(node, l, f.first, e)
       PROVE  Onward(view, op, node', free', view', op')
  <2> DEFINE a == f.first
  <2>1. op' = [op EXCEPT !.from = a]
    <3>1. (CHOOSE x \in next : TRUE) = f
      BY <1>10
    <3> QED BY <3>1, <1>10
  <2>2. op' = ToLoop(op, a)
    <3>1. op.pc = "remove"
      BY <1>3
    <3> HIDE DEF a
    <3>2. op = [op EXCEPT !.pc = "remove"]
      BY <3>1, <1>2 DEF Ops
    <3> QED BY Zenon, <3>2, <2>1 DEF ToLoop
  <2>3. a \in LBlocks /\ a \in Int /\ l <= a /\ op.lo <= a
    <3>1. a \in LBlocks /\ l < a
      BY <1>10
    <3> HIDE DEF a
    <3>2. a \in Int
      BY <3>1, Width
    <3> QED BY <3>1, <3>2, <1>2
  <2>4. Bare(m, l, a, op.hi)
    BY <2>3, <1>6, <1>10
  <2> HIDE DEF a
  <2>5. Clear(view, op, a) = m
    BY <2>3, <2>4, <1>2, <1>4, ClearOver
  <2>6. Owned(R, free, {}, Clear(view, op, a)) /\ Reads(node, Clear(view, op, a))
    BY <2>5, <1>2
  <2> HIDE DEF Reads
  <2>7. Onward(view, op, node, free, view', op')
    BY <2>2, <2>3, <2>6, <1>2, <1>3, LoopOn
  <2> QED BY <2>7, <1>3
<1> QED BY <1>7, <1>8, <1>9, <1>10

(* What a turn of the loop does, case by case. *)
LEMMA TurnIs ==
  ASSUME NEW P, NEW e, e = Leaf(P).ent, HaveExtent(P) => Good(e), op.from \in Int, op.hi \in Int
  PROVE  \/ (~ HaveExtent(P) \/ e.first > op.hi) /\ RemoveTurn(P) = Finish(op, "EOK")
         \/ /\ HaveExtent(P) /\ RemoveTurn(P) = ToRoom(op)
         \/ /\ HaveExtent(P) /\ e.first <= op.hi /\ op.from <= End64(e) - 1 /\ (op.from <= e.first \/ End64(e) - 1 <= op.hi)
            /\ RemoveTurn(P) = ToLeaf(op, P, IF End64(e) - 1 < op.hi THEN End64(e) - 1 ELSE op.hi)
         \/ /\ HaveExtent(P) /\ End64(e) - 1 < op.from
            /\ RemoveTurn(P) = IF NextExtent(node, P) = {} THEN Finish(op, "EOK")
                               ELSE IF NoEntry \in NextExtent(node, P) THEN Fail(op, "EIO")
                               ELSE [op EXCEPT !.from = (CHOOSE x \in NextExtent(node, P) : TRUE).first]
<1> DEFINE last == Wrap(e.first + e.len - 1)
           next == NextExtent(node, P)
           walk == IF next = {} THEN Finish(op, "EOK")
                   ELSE IF NoEntry \in next THEN Fail(op, "EIO")
                   ELSE [op EXCEPT !.from = (CHOOSE x \in next : TRUE).first]
           t == RemoveTurn(P)
<1>1. t = IF ~ HaveExtent(P) \/ e.first > op.hi THEN Finish(op, "EOK")
          ELSE IF e.first < op.from /\ op.hi < last THEN ToRoom(op)
          ELSE IF last >= op.from THEN ToLeaf(op, P, IF last < op.hi THEN last ELSE op.hi)
          ELSE walk
  BY Zenon DEF RemoveTurn, ToRoom, ToLeaf
<1>2. ASSUME HaveExtent(P) PROVE last = End64(e) - 1 /\ e.first \in Int /\ End64(e) \in Int
  <2>1. e.first \in Nat /\ e.len \in Nat /\ e.len >= 1 /\ End64(e) = e.first + e.len /\ End64(e) <= LastLBlock
    BY <1>2, GoodIs
  <2> DEFINE x == e.first + e.len - 1
  <2>2. x \in 0 .. LastLBlock /\ x = End64(e) - 1 /\ e.first \in Int /\ End64(e) \in Int
    BY <2>1, Width
  <2> HIDE DEF x
  <2>3. Wrap(x) = x
    BY <2>2, Width
  <2> QED BY <2>2, <2>3 DEF x
<1> HIDE DEF last, walk, t, next
<1>3. CASE ~ HaveExtent(P) \/ e.first > op.hi
  BY <1>1, <1>3 DEF t
<1>4. CASE HaveExtent(P) /\ ~ (e.first > op.hi)
  <2> DEFINE f == e.first
             z == End64(e)
  <2>1. f \in Int /\ z \in Int /\ last = z - 1 /\ f <= op.hi
    BY <1>2, <1>4
  <2>2. t = IF f < op.from /\ op.hi < z - 1 THEN ToRoom(op)
            ELSE IF z - 1 >= op.from THEN ToLeaf(op, P, IF z - 1 < op.hi THEN z - 1 ELSE op.hi)
            ELSE walk
    BY <1>1, <1>4, <2>1
  <2> HIDE DEF f, z
  <2>3. CASE f < op.from /\ op.hi < z - 1
    BY <2>2, <2>3, <1>4 DEF t
  <2>4. CASE ~ (f < op.from /\ op.hi < z - 1) /\ z - 1 >= op.from
    <3>1. t = ToLeaf(op, P, IF z - 1 < op.hi THEN z - 1 ELSE op.hi)
      BY <2>2, <2>4
    <3>2. op.from <= z - 1 /\ (op.from <= f \/ z - 1 <= op.hi)
      BY <2>1, <2>4
    <3> QED BY <3>1, <3>2, <2>1, <1>4 DEF t, f, z
  <2>5. CASE ~ (f < op.from /\ op.hi < z - 1) /\ ~ (z - 1 >= op.from)
    <3>1. t = walk
      BY <2>2, <2>5
    <3>2. z - 1 < op.from
      BY <2>1, <2>5
    <3> QED BY <3>1, <3>2, <1>4 DEF t, z, walk, next
  <2> QED BY <2>3, <2>4, <2>5
<1> QED BY <1>3, <1>4

(* remove_space's loop. *)
LEMMA RemoveLoopOn ==
  ASSUME Typed(node, free, op), NEW R \in SUBSET Places, Fits(node, R, free, view, op), RemoveLoop
  PROVE  Onward(view, op, node', free', view', op')
<1> DEFINE l == op.from
           P == FindPath(node, l)
           r == FindResult(node, P)
           e == Leaf(P).ent
           b == Landing(node, l)
           m == Clear(view, op, l)
<1>1. /\ op.pc = "remove" /\ node' = node /\ free' = free /\ view' = Seen(view, node', op')
      /\ op' = IF op.from > op.hi THEN Finish(op, "EOK") ELSE IF r # "EOK" THEN Fail(op, r) ELSE RemoveTurn(P)
  <2>1. /\ op.pc = "remove" /\ UNCHANGED <<disk, faults>> /\ Step
        /\ op' = IF op.from > op.hi THEN Finish(op, "EOK") ELSE IF r # "EOK" THEN Fail(op, r) ELSE RemoveTurn(P)
    BY Zenon DEF RemoveLoop
  <2> QED BY <2>1 DEF Step, Seen, disk
<1>2. op.pc \in CalmPcs \ FreshPcs /\ op.pc \in LivePcs /\ op.pc \notin GetPcs
  BY <1>1 DEF CalmPcs, FreshPcs, GrowPcs, SplitPcs, LivePcs, RemovePcs, GetPcs
<1>3. op.kind = "remove"
  BY <1>2, CalmNow DEF Numbers, GetNumbers
<1>4. /\ op \in Ops /\ Tree(node, R) /\ Neat(node, R, {}) /\ Shape(node, R) /\ free \in SUBSET Blocks
      /\ op.hi \in Int /\ l \in Int /\ l \in LBlocks /\ Reads(node, m)
  BY <1>2, <1>3, RemoveNow
<1>5. r = (IF node[b].depth = 0 THEN "EOK" ELSE "ENOENT")
  BY <1>4, ResultIs
<1>6. /\ b \in R /\ (HaveExtent(P) <=> node[b].ents # <<>>)
      /\ (node[b].ents # <<>> => Leaf(P).pos \in 1 .. Len(node[b].ents) /\ e = node[b].ents[Leaf(P).pos])
  BY <1>4, LeafIs
<1> HIDE DEF r, e, P, m, b
<1>7. CASE op.from > op.hi
  <2>1. op.hi < op.from /\ op' = Finish(op, "EOK")
    BY <1>1, <1>4, <1>7
  <2> QED BY <2>1, <1>1, NothingLeft
<1>8. CASE ~ (op.from > op.hi) /\ r # "EOK"
  <2>1. op' = Fail(op, r) /\ r \in Errors \ {"EOK"}
    BY <1>1, <1>5, <1>8 DEF Errors
  <2> QED BY Zenon, <2>1, <1>1, <1>2, <1>4, FailStill
<1>9. CASE ~ (op.from > op.hi) /\ r = "EOK"
  <2>1. op' = RemoveTurn(P) /\ l <= op.hi /\ node[b].depth = 0
    BY <1>1, <1>4, <1>5, <1>9
  <2>2. HaveExtent(P) => Good(e)
    <3> SUFFICES ASSUME HaveExtent(P) PROVE Good(e)
      OBVIOUS
    <3> DEFINE n == node[b]
               k == Leaf(P).pos
    <3>1. n.depth = 0 /\ k \in 1 .. Len(n.ents) /\ e = n.ents[k] /\ Fit(b, n)
      BY <2>1, <1>4, <1>6, DepthIs
    <3> HIDE DEF n, k
    <3>2. \A q1 \in 1 .. Len(n.ents) : Good(n.ents[q1])
      BY <3>1, LeafParts
    <3> QED BY <3>1, <3>2
  <2>3. Turning(P, e)
    BY <2>1, <1>1, <1>3, <1>9 DEF Turning, P, r, e
  <2>4. CASE (~ HaveExtent(P) \/ e.first > op.hi) /\ RemoveTurn(P) = Finish(op, "EOK")
    <3>1. Bare(m, l, op.hi + 1, op.hi)
      <4>1. CASE ~ HaveExtent(P)
        <5>1. node[Landing(node, l)].ents = <<>>
          BY <4>1, <1>6 DEF b
        <5>2. \A y \in LBlocks : Lookup(node, y) = Hole
          BY <5>1, <1>4, EmptyIs
        <5> QED BY <5>2, <1>4 DEF Bare, Reads
      <4>2. CASE HaveExtent(P) /\ e.first > op.hi
        <5>1. b = Landing(node, l) /\ node[b].depth = 0 /\ node[b].ents # <<>> /\ e = Leaf(FindPath(node, l)).ent
          BY <4>2, <2>1, <1>6 DEF b, e, P
        <5>2. e.first \in Int
          BY <4>2, <2>2, GoodIs
        <5> DEFINE f == e.first
        <5>3. l < f /\ op.hi < f /\ f \in Int
          BY <5>2, <4>2, <2>1, <1>4
        <5>4. \A y \in LBlocks : l <= y /\ y < f => Lookup(node, y) = Hole
          <6>1. l < e.first
            BY <5>3
          <6> HIDE DEF f
          <6>2. \A y \in LBlocks : l <= y /\ y < e.first => Lookup(node, y) = Hole
            BY <6>1, <5>1, <1>4, HeadIs
          <6> QED BY <6>2 DEF f
        <5> HIDE DEF f
        <5>5. \A y \in LBlocks : y <= op.hi => y < f
          BY <5>3, <1>4, Width
        <5> QED BY <5>4, <5>5, <1>4 DEF Bare, Reads
      <4> QED BY <4>1, <4>2, <2>4
    <3>2. op' = Finish(op, "EOK") /\ Bare(Clear(view, op, op.from), op.from, op.hi + 1, op.hi)
      BY <3>1, <2>1, <2>4 DEF m
    <3> QED BY <3>2, <1>1, NothingLeft
  <2>5. CASE HaveExtent(P) /\ RemoveTurn(P) = ToRoom(op)
    <3>1. op' = ToRoom(op)
      BY <2>1, <2>5
    <3> QED BY <3>1, <2>3, TurnRoom
  <2>6. CASE /\ HaveExtent(P) /\ e.first <= op.hi /\ op.from <= End64(e) - 1 /\ (op.from <= e.first \/ End64(e) - 1 <= op.hi)
             /\ RemoveTurn(P) = ToLeaf(op, P, IF End64(e) - 1 < op.hi THEN End64(e) - 1 ELSE op.hi)
    <3>1. op' = ToLeaf(op, P, IF End64(e) - 1 < op.hi THEN End64(e) - 1 ELSE op.hi)
      BY <2>1, <2>6
    <3> QED BY <3>1, <2>3, <2>6, TurnLeaf
  <2>7. CASE /\ HaveExtent(P) /\ End64(e) - 1 < op.from
             /\ RemoveTurn(P) = IF NextExtent(node, P) = {} THEN Finish(op, "EOK")
                                ELSE IF NoEntry \in NextExtent(node, P) THEN Fail(op, "EIO")
                                ELSE [op EXCEPT !.from = (CHOOSE x \in NextExtent(node, P) : TRUE).first]
    <3> DEFINE next == NextExtent(node, P)
    <3>1. op' = IF next = {} THEN Finish(op, "EOK")
                ELSE IF NoEntry \in next THEN Fail(op, "EIO")
                ELSE [op EXCEPT !.from = (CHOOSE x \in next : TRUE).first]
      BY <2>1, <2>7
    <3>2. next = NextExtent(node, P)
      OBVIOUS
    <3> HIDE DEF next
    <3> QED BY <3>1, <3>2, <2>3, <2>7, TurnNext
  <2>8. e = Leaf(P).ent /\ op.from \in Int
    BY <1>4 DEF e
  <2> QED BY <2>2, <2>4, <2>5, <2>6, <2>7, <2>8, <1>4, TurnIs
<1> QED BY <1>7, <1>8, <1>9

-----------------------------------------------------------------------------
(* remove_leaf. *)

(* The same operation, somewhere else in the tree. *)
Carried(o, q) ==
    /\ q \in Ops /\ q.kind = o.kind /\ q.lo = o.lo /\ q.hi = o.hi /\ q.from = o.from /\ q.cut = o.cut
    /\ q.first = o.first /\ q.cnt = o.cnt /\ q.fresh = o.fresh /\ q.res = o.res

(* The map while separators are corrected. *)
FixMap(vw, o) == IF o.kind = "get" THEN Filled(vw, o) ELSE Clear(vw, o, o.cut + 1)

(* An operation that has changed its leaf. *)
Changed(vw, o) ==
    /\ o \in Ops /\ o.kind \in {"get", "remove"} /\ o.lo \in LBlocks /\ o.hi \in LBlocks /\ o.res = "EOK" /\ o.fresh = {}
    /\ o.kind = "get" => GetNumbers(vw, o) /\ o.pc # "alloc"
    /\ o.kind = "remove" => o.from \in LBlocks /\ o.lo <= o.from /\ o.from <= o.hi /\ o.cut \in o.from .. o.hi

(* Its tree, with node c's separator wrong. *)
Bent(nd, R, fr, vw, o, c) ==
    /\ nd \in [Places -> Nodes] /\ R \in SUBSET Places /\ fr \in SUBSET Blocks /\ Tree(nd, R) /\ Neat(nd, R, c)
    /\ Owned(R, fr, {}, FixMap(vw, o)) /\ Reads(nd, FixMap(vw, o))

(* The separator above level k of P is to be corrected. *)
LEMMA FixOn ==
  ASSUME NEW vw, NEW o, Changed(vw, o), NEW nd, NEW R, NEW fr, NEW P, NEW k \in 2 .. Len(P), Linked(nd, R, P, k - 1),
         NEW c, c = P[k].blk, Bent(nd, R, fr, vw, o, {c}), nd[c].ents # <<>>,
         NEW q, Carried(o, q), q.pc = "fix", q.path = P, q.lvl = k, q.key = nd[c].ents[1].first,
         NEW x, x = Seen(vw, nd, q)
  PROVE  Onward(vw, o, nd, fr, x, q)
<1>1. Numbers(nd, vw, q)
  <2>1. q.kind = "get" => GetNumbers(vw, q)
    BY DEF GetNumbers, GetPcs, Changed, Carried
  <2>2. q.kind = "remove" => RemoveNumbers(q)
    BY DEF RemoveNumbers, RemovePcs, LeafPcs, Changed, Carried
  <2> QED BY <2>1, <2>2 DEF Numbers, FreshPcs, GrowPcs, Changed, Carried
<1>2. PathKept(nd, R, q)
  BY DEF PathKept, SplitPcs, LeafPcs
<1>3. q.kind \in {"get", "remove"} /\ q.fresh = {}
  BY DEF Changed, Carried
<1>4. Filled(vw, q) = Filled(vw, o) /\ Clear(vw, q, q.cut + 1) = Clear(vw, o, o.cut + 1)
  BY DEF Filled, Clear, Carried
<1>5. Target(vw, q) = FixMap(vw, o) /\ Kept(vw, q) = FixMap(vw, o) /\ Loose(q) = {} /\ Odd(nd, q) = {c} /\ Whole(nd, q) = nd
  BY <1>3, <1>4 DEF Target, Kept, Loose, Odd, Whole, FixMap, Carried
<1>6. Busy(nd, R, fr, vw, q)
  BY <1>1, <1>2, <1>3, <1>5 DEF Busy, Bent, Reads
<1>7. Typed(nd, fr, q) /\ q.pc \in LivePcs /\ R \in SUBSET Places
  BY <1>3 DEF Typed, LivePcs, GetPcs, Bent, Carried
<1> HIDE DEF Changed, Bent, Carried
<1> QED BY <1>6, <1>7, LiveOn

(* The entry at level k of P is to be dropped: the node below is empty. *)
LEMMA IndexOn ==
  ASSUME NEW vw, NEW o, Changed(vw, o), o.kind = "remove", NEW nd, NEW R, NEW fr, NEW P, NEW k \in 1 .. Len(P) - 1, Linked(nd, R, P, k),
         NEW c, c = P[k + 1].blk, Bent(nd, R, fr, vw, o, {c}), nd[c].ents = <<>>,
         NEW q, Carried(o, q), q.pc = "index", q.path = P, q.lvl = k, NEW x, x = Seen(vw, nd, q)
  PROVE  Onward(vw, o, nd, fr, x, q)
<1>1. Numbers(nd, vw, q)
  <2>1. RemoveNumbers(q)
    BY DEF RemoveNumbers, RemovePcs, LeafPcs, Changed, Carried
  <2> QED BY <2>1 DEF Numbers, FreshPcs, GrowPcs, Changed, Carried
<1>2. PathKept(nd, R, q)
  BY DEF PathKept, SplitPcs, LeafPcs
<1>3. q.kind = "remove" /\ q.fresh = {}
  BY DEF Changed, Carried
<1>4. Clear(vw, q, q.cut + 1) = FixMap(vw, o)
  BY DEF Clear, Carried, FixMap
<1>5. Target(vw, q) = FixMap(vw, o) /\ Kept(vw, q) = FixMap(vw, o) /\ Loose(q) = {} /\ Odd(nd, q) = {c} /\ Whole(nd, q) = nd
  BY <1>3, <1>4 DEF Target, Kept, Loose, Odd, Whole, Carried
<1>6. Busy(nd, R, fr, vw, q)
  BY <1>1, <1>2, <1>3, <1>5 DEF Busy, Bent, Reads
<1>7. Typed(nd, fr, q) /\ q.pc \in LivePcs /\ R \in SUBSET Places
  BY <1>3 DEF Typed, LivePcs, RemovePcs, Bent, Carried
<1> HIDE DEF Changed, Bent, Carried
<1> QED BY <1>6, <1>7, LiveOn

(* Everything is in order again. *)
LEMMA ResumeOn ==
  ASSUME NEW vw, NEW o, Changed(vw, o), NEW nd, NEW R, NEW fr, Bent(nd, R, fr, vw, o, {}),
         NEW q, q = Resume(o), NEW x, x = Seen(vw, nd, q)
  PROVE  Onward(vw, o, nd, fr, x, q)
<1>1. /\ nd \in [Places -> Nodes] /\ R \in SUBSET Places /\ fr \in SUBSET Blocks /\ Tree(nd, R) /\ Neat(nd, R, {})
      /\ Owned(R, fr, {}, FixMap(vw, o)) /\ Reads(nd, FixMap(vw, o))
  BY DEF Bent
<1>2. /\ o \in Ops /\ o.kind \in {"get", "remove"} /\ o.lo \in LBlocks /\ o.hi \in LBlocks /\ o.res = "EOK" /\ o.fresh = {}
      /\ o.kind = "get" => GetNumbers(vw, o) /\ o.pc # "alloc"
      /\ o.kind = "remove" => o.lo <= o.from /\ o.cut \in o.from .. o.hi
  BY DEF Changed
<1> DEFINE y == Resume(o)
           z == Seen(vw, nd, y)
<1>3. y = Resume(o) /\ z = Seen(vw, nd, y) /\ x = z /\ q = y
  OBVIOUS
<1> HIDE DEF y, z
<1>4. CASE o.kind = "get"
  <2>1. Owned(R, fr, {}, Filled(vw, o)) /\ \A l \in LBlocks : Lookup(nd, l) = Filled(vw, o)[l]
    BY <1>1, <1>4 DEF FixMap, Reads
  <2>2. Onward(vw, o, nd, fr, z, y)
    BY <1>1, <1>2, <1>3, <1>4, <2>1, ResumeGet
  <2> QED BY <2>2, <1>3
<1>5. CASE o.kind = "remove"
  <2>1. Owned(R, fr, {}, Clear(vw, o, o.cut + 1)) /\ Reads(nd, Clear(vw, o, o.cut + 1))
    BY <1>1, <1>5 DEF FixMap
  <2> HIDE DEF Reads
  <2>2. Onward(vw, o, nd, fr, z, y)
    BY <1>1, <1>2, <1>3, <1>5, <2>1, ResumeRemove
  <2> QED BY <2>2, <1>3
<1> QED BY <1>2, <1>4, <1>5

(* The leaf and the entry remove_leaf is at. *)
Cutting(R, b, n, p, e, P) ==
    /\ P = FindPath(node, op.from) /\ b = Landing(node, op.from) /\ b \in R /\ n = node[b]
    /\ Leaf(P).blk = b /\ Leaf(P).cnt = Len(n.ents) /\ Leaf(P).pos = p /\ Leaf(P).ent = e
    /\ n.depth = 0 /\ Fit(b, n) /\ n.ents # <<>> /\ p \in 1 .. Len(n.ents) /\ p = SearchPos(n.ents, op.from)
    /\ EntryOf(n, p, e) /\ Good(e)
    /\ e.first <= op.cut /\ op.cut <= End64(e) - 1
    /\ op.from <= e.first \/ op.cut = End64(e) - 1

(* What holds while remove_leaf works. *)
LEMMA LeafNow ==
  ASSUME Typed(node, free, op), NEW R \in SUBSET Places, Fits(node, R, free, view, op), op.pc \in LeafPcs
  PROVE  /\ op \in Ops /\ op.pc \in LivePcs /\ op.kind = "remove" /\ Changed(view, op) /\ Tree(node, R) /\ Neat(node, R, {})
         /\ Shape(node, R) /\ node \in [Places -> Nodes] /\ free \in SUBSET Blocks
         /\ Owned(R, free, {}, Kept(view, op)) /\ Reads(node, Clear(view, op, op.from))
         /\ OthersKept(node, view, op) /\ OpBlocks(op) \subseteq Blocks /\ RemoveNumbers(op)
         /\ op.from \in Int /\ op.cut \in Int /\ op.hi \in Int /\ op.lo \in Int /\ op.from <= op.cut
<1>1. op.pc \in LivePcs /\ op.pc \notin GetPcs
  BY DEF LeafPcs, LivePcs, RemovePcs, GetPcs, GrowPcs, SplitPcs
<1>2. op \in Ops
  BY DEF Typed
<1>3. /\ Busy(node, R, free, view, op) /\ OthersKept(node, view, op) /\ OpBlocks(op) \subseteq Blocks
      /\ op.res = "EOK" /\ op.lo \in LBlocks /\ op.hi \in LBlocks /\ op.fresh = {}
      /\ op.kind = "remove" /\ RemoveNumbers(op)
  <2>1. op.pc \notin FreshPcs
    BY DEF LeafPcs, FreshPcs
  <2> QED BY <1>1, <1>2, <2>1, LiveIs
<1>4. op.from \in LBlocks /\ op.lo <= op.from /\ op.from <= op.hi /\ op.cut \in op.from .. op.hi
  <2>1. op.pc # "remove" /\ op.pc \in {"fix", "index", "indexfree"} \cup LeafPcs
    BY DEF LeafPcs
  <2> QED BY <2>1, <1>3 DEF RemoveNumbers
<1>5. Whole(node, op) = node /\ Odd(node, op) = {} /\ Loose(op) = {} /\ Target(view, op) = Clear(view, op, op.from)
  BY <1>3 DEF LeafPcs, Whole, Odd, Loose, Target
<1>6. op.from \in Int /\ op.cut \in Int /\ op.hi \in Int /\ op.lo \in Int /\ op.from <= op.cut
  BY <1>2, <1>4, OpIs
<1>7. Tree(node, R) /\ Neat(node, R, {}) /\ Owned(R, free, {}, Kept(view, op)) /\ Reads(node, Clear(view, op, op.from))
  BY <1>3, <1>5 DEF Busy, Reads
<1>8. Changed(view, op)
  BY <1>2, <1>3, <1>4 DEF Changed
<1> QED BY <1>1, <1>2, <1>3, <1>6, <1>7, <1>8 DEF Tree, Shape, Typed

(* The entry remove_leaf is at. *)
LEMMA CuttingIs ==
  ASSUME Typed(node, free, op), NEW R \in SUBSET Places, Fits(node, R, free, view, op), op.pc \in LeafPcs
  PROVE  \E b, n, p, e : Cutting(R, b, n, p, e, op.path)
<1>1. /\ op \in Ops /\ op.kind = "remove" /\ Shape(node, R) /\ RemoveNumbers(op) /\ Changed(view, op)
      /\ op.from \in Int /\ op.cut \in Int /\ op.hi \in Int
  BY LeafNow
<1> DEFINE P == op.path
           l == op.from
           b == Landing(node, l)
           n == node[b]
           p == Leaf(P).pos
           e == Leaf(P).ent
           z == End64(e)
<1>2. l \in LBlocks
  BY <1>1 DEF Changed
<1>3. P = FindPath(node, l)
  <2>1. op.pc \in LivePcs
    BY DEF LeafPcs, LivePcs, RemovePcs
  <2>2. PathKept(node, R, op)
    BY <2>1, <1>1, LiveIs
  <2>3. Key(op) = l
    BY <1>1 DEF Key
  <2> QED BY <2>2, <2>3 DEF PathKept
<1>4. /\ Leaf(P).depth = 0 /\ HaveExtent(P) /\ e.first <= op.hi /\ l <= z - 1
      /\ op.cut = (IF z - 1 < op.hi THEN z - 1 ELSE op.hi) /\ (l <= e.first \/ z - 1 <= op.hi)
  BY <1>1 DEF RemoveNumbers
<1> HIDE DEF P
<1>5. /\ b \in R /\ Leaf(P).blk = b /\ Leaf(P).depth = n.depth /\ Leaf(P).cnt = Len(n.ents)
      /\ (HaveExtent(P) <=> n.ents # <<>>)
      /\ (n.ents # <<>> => p = SearchPos(n.ents, l) /\ p \in 1 .. Len(n.ents) /\ e = n.ents[p])
  BY <1>1, <1>2, <1>3, LeafIs
<1>6. Fit(b, n)
  BY <1>1, <1>5, DepthIs
<1> HIDE DEF n, p, e, z, b, l
<1>7. Good(e)
  <2>1. n.depth = 0 /\ p \in 1 .. Len(n.ents) /\ e = n.ents[p]
    BY <1>4, <1>5
  <2>2. \A q1 \in 1 .. Len(n.ents) : Good(n.ents[q1])
    BY <2>1, <1>6, LeafParts
  <2> QED BY <2>1, <2>2
<1>8. e.first <= op.cut /\ op.cut <= z - 1 /\ (l <= e.first \/ op.cut = z - 1)
  <2> DEFINE f == e.first
  <2>1. f \in Int /\ z \in Int /\ f < z
    BY <1>7, GoodIs DEF z
  <2>2. f <= op.hi /\ op.cut = (IF z - 1 < op.hi THEN z - 1 ELSE op.hi) /\ (l <= f \/ z - 1 <= op.hi)
    BY <1>4
  <2> HIDE DEF f
  <2>3. f <= op.cut /\ op.cut <= z - 1 /\ (l <= f \/ op.cut = z - 1)
    BY <2>1, <2>2, <1>1
  <2> QED BY <2>3 DEF f
<1>9. Cutting(R, b, n, p, e, P)
  <2>1. EntryOf(n, p, e)
    BY <1>4, <1>5 DEF EntryOf
  <2>2. b = Landing(node, op.from) /\ n = node[b] /\ p = Leaf(P).pos /\ e = Leaf(P).ent /\ z = End64(e) /\ l = op.from
    BY DEF b, n, p, e, z, l
  <2> QED BY <2>1, <2>2, <1>3, <1>4, <1>5, <1>6, <1>7, <1>8 DEF Cutting
<1> QED BY <1>9 DEF P

FreeFrom(e, from) == IF e.first < from THEN from ELSE e.first
ToPut(o) == [o EXCEPT !.pc = "leafput"]

(* The blocks remove_leaf frees are those the range of its step has. *)
LEMMA FreedAre ==
  ASSUME Typed(node, free, op), NEW R \in SUBSET Places, Fits(node, R, free, view, op), op.pc \in LeafPcs,
         NEW b, NEW n, NEW p, NEW e, NEW P, Cutting(R, b, n, p, e, P), NEW m, m = Clear(view, op, op.from),
         NEW S, Images(m, op.from, op.cut, S)
  PROVE  S = RemoveBlocks(e, FreeFrom(e, op.from), op.cut)
<1> DEFINE l == op.from
           a == FreeFrom(e, l)
<1>1. Tree(node, R) /\ Reads(node, m) /\ l \in Int /\ op.cut \in Int /\ l \in LBlocks
  BY LeafNow DEF Changed
<1>2. /\ P = FindPath(node, l) /\ b = Landing(node, l) /\ b \in R /\ n = node[b] /\ n.depth = 0 /\ n.ents # <<>>
      /\ p \in 1 .. Len(n.ents) /\ EntryOf(n, p, e) /\ Good(e) /\ Leaf(P).ent = e /\ op.cut <= End64(e) - 1
  BY DEF Cutting
<1>3. e.first \in Int /\ a \in Int /\ l <= a /\ e.first <= a
  <2> DEFINE f == e.first
  <2>1. f \in Int
    BY <1>2, GoodIs
  <2>2. a = IF f < l THEN l ELSE f
    BY DEF FreeFrom
  <2> HIDE DEF f, a, l
  <2>3. f \in Int /\ a \in Int /\ l <= a /\ f <= a
    BY <2>1, <2>2, <1>1
  <2> QED BY <2>3 DEF f
<1>4. AllHoles(node, l, a - 1)
  <2>1. CASE e.first < l
    <3>1. a = l
      BY <2>1 DEF FreeFrom
    <3>2. l .. a - 1 = {}
      BY <3>1, <1>1
    <3> QED BY <3>2 DEF AllHoles
  <2>2. CASE ~ (e.first < l)
    <3>1. a = e.first
      BY <2>2 DEF FreeFrom
    <3>2. CASE e.first = l
      <4>1. l .. a - 1 = {}
        BY <3>1, <3>2, <1>1
      <4> QED BY <4>1 DEF AllHoles
    <3>3. CASE e.first # l
      <4> DEFINE f == e.first
      <4>1. l < f /\ f \in Int
        BY <2>2, <3>3, <1>1, <1>3
      <4>2. \A y \in LBlocks : l <= y /\ y < f => Lookup(node, y) = Hole
        <5>1. l < e.first /\ e = Leaf(FindPath(node, l)).ent /\ node[b].depth = 0 /\ node[b].ents # <<>>
          BY <4>1, <1>2
        <5> HIDE DEF l, f, a
        <5>2. \A y \in LBlocks : l <= y /\ y < e.first => Lookup(node, y) = Hole
          BY <5>1, <1>1, <1>2, HeadIs
        <5> QED BY <5>2 DEF f
      <4>3. f \in LBlocks
        BY <1>2, GoodIs
      <4>4. \A y \in l .. a - 1 : y \in LBlocks /\ l <= y /\ y < f
        <5>1. l \in 0 .. LastLBlock /\ f \in 0 .. LastLBlock /\ LBlocks = 0 .. LastLBlock /\ LastLBlock \in Int /\ a = f
          BY <3>1, <4>3, <1>1, Width
        <5> HIDE DEF l, f, a
        <5> QED BY <5>1
      <4> QED BY <4>2, <4>4 DEF AllHoles
    <3> QED BY <3>2, <3>3
  <2> QED BY <2>1, <2>2
<1> HIDE DEF a
<1>5. S = RemoveBlocks(e, a, op.cut)
  <2>1. node[b].depth = 0 /\ p \in 1 .. Len(node[b].ents) /\ EntryOf(node[b], p, e) /\ Images(m, l, op.cut, S)
    BY <1>2
  <2> HIDE DEF l, Reads, Images, AllHoles, EntryOf
  <2> QED BY <2>1, <1>1, <1>2, <1>3, <1>4, RemovedAre
<1> QED BY <1>5 DEF a

(* remove_leaf frees the blocks of its range. *)
LEMMA RemoveLeafFreeOn ==
  ASSUME Typed(node, free, op), NEW R \in SUBSET Places, Fits(node, R, free, view, op), RemoveLeafFree
  PROVE  Onward(view, op, node', free', view', op')
<1> DEFINE P == op.path
           S == RemoveBlocks(Leaf(P).ent, FreeFrom(Leaf(P).ent, op.from), op.cut)
           q == ToPut(op)
           m == Clear(view, op, op.from)
           w == Clear(view, op, op.cut + 1)
<1>1. op.pc = "leaffree" /\ Free(S, q) /\ node' = node /\ view' = Seen(view, node', op')
  <2>1. op.pc = "leaffree" /\ Free(S, q) /\ UNCHANGED node /\ Step
    BY Zenon DEF RemoveLeafFree, FreeFrom, ToPut
  <2> QED BY <2>1 DEF Step, Seen
<1>2. op.pc \in LeafPcs /\ op.pc \in LivePcs /\ op.pc \notin FreshPcs
  BY <1>1 DEF LeafPcs, LivePcs, RemovePcs, FreshPcs
<1>3. /\ op \in Ops /\ op.kind = "remove" /\ Changed(view, op) /\ Tree(node, R) /\ Neat(node, R, {}) /\ node \in [Places -> Nodes]
      /\ free \in SUBSET Blocks /\ Owned(R, free, {}, Kept(view, op)) /\ Reads(node, m)
      /\ RemoveNumbers(op) /\ op.from \in Int /\ op.cut \in Int /\ op.hi \in Int /\ op.lo \in Int /\ op.from <= op.cut
  BY <1>2, LeafNow
<1>4. Kept(view, op) = m
  BY <1>1, <1>3 DEF Kept, Target
<1>5. op.lo <= op.from /\ op.cut <= op.hi /\ op.lo \in LBlocks /\ op.hi \in LBlocks /\ op.res = "EOK" /\ op.fresh = {}
      /\ op.from \in LBlocks
  BY <1>3 DEF Changed
<1>6. w = [l \in LBlocks |-> IF l \in op.from .. op.cut THEN Hole ELSE m[l]]
  <2> DEFINE x == op.from
             y == op.cut
  <2>1. x \in Int /\ y \in Int /\ op.lo <= x /\ x <= y + 1 /\ y <= op.hi /\ w = Clear(view, op, y + 1) /\ m = Clear(view, op, x)
    BY <1>3, <1>5
  <2> HIDE DEF x, y, w, m
  <2>2. w = [l \in LBlocks |-> IF l \in x .. y THEN Hole ELSE m[l]]
    BY <2>1, <1>3, ClearMore
  <2> QED BY <2>2 DEF x, y
<1> DEFINE D == op.from .. op.cut
           I == {m[l] : l \in D \cap LBlocks} \ {Hole}
<1>7. I = S
  <2>1. Images(m, op.from, op.cut, I)
    BY DEF Images
  <2>2. \E b, n, p, e : Cutting(R, b, n, p, e, P)
    BY <1>2, CuttingIs
  <2>3. PICK b, n, p, e : Cutting(R, b, n, p, e, P)
    BY <2>2
  <2>4. m = Clear(view, op, op.from)
    OBVIOUS
  <2> HIDE DEF m, I, P, Images
  <2>5. I = RemoveBlocks(e, FreeFrom(e, op.from), op.cut)
    BY <2>1, <2>3, <2>4, <1>2, FreedAre
  <2>6. e = Leaf(P).ent
    BY <2>3 DEF Cutting
  <2> QED BY <2>5, <2>6
<1>8. Owned(R, free \cup S, {}, w) /\ S \subseteq Blocks
  <2>1. Owned(R, free, {}, m)
    BY <1>3, <1>4
  <2>2. w = [l \in LBlocks |-> IF l \in D THEN Hole ELSE m[l]] /\ I = {m[l] : l \in D \cap LBlocks} \ {Hole}
    BY <1>6
  <2> HIDE DEF m, w, D, I, S
  <2>3. Owned(R, free, {} \cup I, w)
    BY Zenon, <2>1, <2>2, OwnUnmap
  <2>4. Owned(R, free, S, w) /\ S \in SUBSET S
    <3>1. {} \cup I = S
      BY <1>7
    <3> QED BY <2>3, <3>1
  <2>5. Owned(R, free \cup S, S \ S, w)
    BY <2>4, OwnGive
  <2>6. S \ S = {}
    OBVIOUS
  <2> QED BY <2>4, <2>5, <2>6 DEF Owned
<1> HIDE DEF S, w, m, D, I, P
<1>9. CASE free' = free \cup S /\ op' = q
  <2>1. /\ q.pc = "leafput" /\ q.kind = "remove" /\ q.lo = op.lo /\ q.hi = op.hi /\ q.from = op.from /\ q.fresh = {}
        /\ q.res = "EOK" /\ q.path = op.path /\ q.cut = op.cut
    BY <1>3, <1>5 DEF Ops, ToPut
  <2>2. q \in Ops
    BY Zenon, <1>3 DEF Ops, Pcs, ToPut
  <2> HIDE DEF q
  <2>3. Kept(view, q) = w /\ Target(view, q) = m /\ Loose(q) = {} /\ Odd(node, q) = {} /\ Whole(node, q) = node
    BY <2>1 DEF Kept, Target, Loose, Odd, Whole, Clear, w, m
  <2>4. Numbers(node, view, q)
    <3>1. RemoveNumbers(q)
      BY <2>1, <1>2, <1>3 DEF RemoveNumbers, RemovePcs, LeafPcs
    <3> QED BY <3>1, <2>1, <1>5 DEF Numbers, FreshPcs, GrowPcs, OpBlocks
  <2>5. PathKept(node, R, q)
    <3>1. PathKept(node, R, op)
      BY <1>2, <1>3, LiveIs
    <3>2. op.path = FindPath(node, Key(op)) /\ Key(q) = Key(op)
      BY <3>1, <2>1, <1>2, <1>3 DEF PathKept, Key
    <3> QED BY <3>2, <2>1 DEF PathKept, SplitPcs, LeafPcs
  <2>6. Busy(node, R, free', view, q)
    BY <2>1, <2>3, <2>4, <2>5, <1>3, <1>8, <1>9 DEF Busy, Reads
  <2>7. Typed(node, free', q) /\ q.pc \in LivePcs
    <3>1. q.pc \in LivePcs
      BY <2>1 DEF LivePcs, RemovePcs, LeafPcs
    <3> QED BY <3>1, <2>1, <2>2, <1>3, <1>8, <1>9 DEF Typed
  <2>8. view' = Seen(view, node, q)
    BY <1>1, <1>9
  <2>9. Onward(view, op, node, free', view', q)
    BY <2>6, <2>7, <2>8, LiveOn
  <2> QED BY <2>9, <1>1, <1>9
<1>10. CASE op' = Fail(op, "EIO") /\ free' = free
  <2>1. "EIO" \in Errors \ {"EOK"}
    BY DEF Errors
  <2> QED BY <2>1, <1>1, <1>2, <1>3, <1>10, FailStill
<1>11. (free' = free \cup S /\ op' = q) \/ (op' = Fail(op, "EIO") /\ free' = free)
  BY <1>1 DEF Free
<1> QED BY <1>9, <1>10, <1>11

(* The operation after remove_leaf has rewritten the leaf. *)
AfterLeaf(o, P, ents, p) ==
    IF Len(P) = 1 THEN Resume(o)
    ELSE IF ents = <<>> THEN [o EXCEPT !.pc = "index", !.lvl = Len(P) - 1]
    ELSE IF p = 1 THEN [o EXCEPT !.pc = "fix", !.lvl = Len(P), !.key = ents[1].first]
    ELSE Resume(o)

(* The leaf it writes. *)
LEMMA CutFit ==
  ASSUME Typed(node, free, op), NEW R \in SUBSET Places, Fits(node, R, free, view, op), op.pc \in LeafPcs,
         NEW b, NEW n, NEW p, NEW e, NEW P, Cutting(R, b, n, p, e, P), NEW t, t = Trimmed(n, p, op.from, op.cut)
  PROVE  Fit(b, t) /\ t.depth = 0 /\ (p # 1 => SameFirst(n, t)) /\ CutOut(n, op.from, op.cut, t)
<1> DEFINE from == op.from
           to == op.cut
<1>2. Shape(node, R) /\ from \in Int /\ to \in Int /\ from <= to
  BY LeafNow
<1>7. /\ n.depth = 0 /\ Fit(b, n) /\ n.ents # <<>> /\ p \in 1 .. Len(n.ents) /\ p = SearchPos(n.ents, from)
      /\ EntryOf(n, p, e) /\ Good(e) /\ e.first <= to /\ to <= End64(e) - 1 /\ (from <= e.first \/ to = End64(e) - 1)
  BY DEF Cutting
<1> HIDE DEF from, to
<1>8. Cuts(b, n, p, from, to)
  <2>1. e = n.ents[p]
    BY <1>7 DEF EntryOf
  <2>2. \A q \in 1 .. Len(n.ents) : q < p => End64(n.ents[q]) <= from
    <3> SUFFICES ASSUME NEW q \in 1 .. Len(n.ents), q < p PROVE End64(n.ents[q]) <= from
      OBVIOUS
    <3> DEFINE E == n.ents
               u == End64(E[q])
               v == E[p].first
    <3>1. /\ Len(E) \in Nat /\ (\A i \in 1 .. Len(E) : Good(E[i]))
          /\ \A i, j \in 1 .. Len(E) : i < j => End64(E[i]) <= E[j].first
      BY <1>7, LeafParts
    <3>2. u <= v /\ u \in Int /\ v \in Int
      <4>1. u <= v
        BY <3>1, <1>7
      <4>2. u \in Int
        <5> DEFINE g == E[q]
        <5>1. Good(g)
          BY <3>1
        <5> HIDE DEF g
        <5>2. End64(g) \in Int
          BY <5>1, GoodIs
        <5> QED BY <5>2 DEF g
      <4>3. v \in Int
        BY <1>7, <2>1, GoodIs
      <4> QED BY <4>1, <4>2, <4>3
    <3>3. v <= from
      <4>1. At(E, from, p)
        BY <1>2, <1>7, SearchIs
      <4>2. p # 1
        BY <3>1, <1>7
      <4> QED BY <4>1, <4>2 DEF At
    <3> HIDE DEF u, v, E
    <3>4. u <= from
      BY <3>2, <3>3, <1>2
    <3> QED BY <3>4 DEF u, E
  <2> QED BY <2>1, <2>2, <1>2, <1>7 DEF Cuts
<1>9. /\ Fit(b, t) /\ t.depth = 0 /\ (p # 1 => t.ents # <<>> /\ t.ents[1] = n.ents[1])
      /\ \A l, v : Gives(t, l, v) <=> Gives(n, l, v) /\ l \notin from .. to
  <2>1. t = Trimmed(n, p, from, to)
    BY DEF from, to
  <2> QED BY <2>1, <1>8, LeafTrim
<1>10. (p # 1 => SameFirst(n, t)) /\ CutOut(n, from, to, t)
  BY <1>7, <1>9 DEF SameFirst, CutOut
<1> QED BY <1>9, <1>10 DEF from, to

(* The tree once remove_leaf has rewritten its leaf. *)
LEMMA LeafCut ==
  ASSUME Typed(node, free, op), NEW R \in SUBSET Places, Fits(node, R, free, view, op), op.pc = "leafput",
         NEW b, NEW n, NEW p, NEW e, NEW P, Cutting(R, b, n, p, e, P),
         NEW t, t = Trimmed(n, p, op.from, op.cut), NEW md, Put(node, b, t, md)
  PROVE  /\ Bent(md, R, free, view, op, {b}) /\ (b = Root \/ p # 1 => Bent(md, R, free, view, op, {}))
<1>1. op.pc \in LeafPcs
  BY DEF LeafPcs
<1> DEFINE from == op.from
           to == op.cut
           m == Clear(view, op, from)
           w == Clear(view, op, to + 1)
<1>2. /\ op \in Ops /\ op.kind = "remove" /\ Tree(node, R) /\ Neat(node, R, {}) /\ Shape(node, R)
      /\ free \in SUBSET Blocks /\ Owned(R, free, {}, Kept(view, op)) /\ Reads(node, m)
      /\ from \in Int /\ to \in Int /\ op.hi \in Int /\ op.lo \in Int /\ from <= to /\ Changed(view, op)
  BY <1>1, LeafNow
<1>3. op.lo <= from /\ to <= op.hi /\ op.lo \in LBlocks /\ op.hi \in LBlocks /\ from \in LBlocks
  BY <1>2 DEF Changed
<1>4. to \in LBlocks
  <2> HIDE DEF from, to
  <2> QED BY <1>2, <1>3, Width
<1>5. FixMap(view, op) = w /\ Kept(view, op) = w
  BY <1>2 DEF FixMap, Kept
<1>6. w = [l \in LBlocks |-> IF l \in from .. to THEN Hole ELSE m[l]]
  <2>1. op.lo <= from /\ from <= to + 1 /\ to <= op.hi /\ w = Clear(view, op, to + 1) /\ m = Clear(view, op, from)
    BY <1>2, <1>3
  <2> HIDE DEF from, to, w, m
  <2> QED BY <2>1, <1>2, ClearMore
<1>7. /\ P = FindPath(node, from) /\ b = Landing(node, from) /\ b \in R /\ n = node[b] /\ Leaf(P).blk = b
      /\ n.depth = 0 /\ Fit(b, n) /\ n.ents # <<>> /\ p \in 1 .. Len(n.ents) /\ p = SearchPos(n.ents, from)
      /\ EntryOf(n, p, e) /\ Good(e) /\ e.first <= to /\ to <= End64(e) - 1 /\ (from <= e.first \/ to = End64(e) - 1)
  BY DEF Cutting
<1> HIDE DEF from, to, m, w
<1>9. Fit(b, t) /\ t.depth = 0 /\ (p # 1 => SameFirst(n, t)) /\ CutOut(n, from, to, t)
  <2>1. t = Trimmed(n, p, op.from, op.cut)
    OBVIOUS
  <2>2. Fit(b, t) /\ t.depth = 0 /\ (p # 1 => SameFirst(n, t)) /\ CutOut(n, op.from, op.cut, t)
    BY <2>1, <1>1, CutFit
  <2> QED BY <2>2 DEF from, to
<1>10. AllOn(node, from, to, b)
  <2> DEFINE z == End64(e) - 1
  <2>1. On(node, from, b)
    BY <1>2, <1>3, <1>7, OnIs
  <2>2. z \in Keys(n, p)
    <3>1. e.first \in Int /\ End64(e) \in Int /\ e.first < End64(e) /\ e = n.ents[p]
      BY <1>7, GoodIs DEF EntryOf
    <3> DEFINE f == e.first
               g == End64(e)
    <3>2. z \in f .. g - 1
      <4>1. f \in Int /\ g \in Int /\ f < g /\ z = g - 1
        BY <3>1
      <4> HIDE DEF f, g, z
      <4> QED BY <4>1
    <3> QED BY <3>1, <3>2, <1>7 DEF Keys
  <2>3. z \in LBlocks /\ On(node, z, b)
    <3> HIDE DEF z
    <3> QED BY <2>2, <1>2, <1>7, KeyOn
  <2>4. to <= z
    BY <1>7
  <2> HIDE DEF z
  <2>5. ASSUME NEW l \in from .. to PROVE On(node, l, b)
    <3>1. l \in LBlocks /\ from <= l /\ l <= z
      BY <2>3, <2>4, <1>2, <1>3, <1>4, Width
    <3> QED BY <3>1, <2>1, <2>3, <1>2, <1>3, <1>7, RouteBetween
  <2> QED BY <2>5 DEF AllOn
<1>11. /\ Tree(md, R) /\ CutAway(node, md, from, to) /\ Neat(md, R, {b})
       /\ b = Root \/ SameFirst(node[b], t) => Neat(md, R, {})
  <2>1. CutOut(node[b], from, to, t) /\ node[b].depth = 0
    BY <1>7, <1>9
  <2> QED BY Zenon, <2>1, <1>2, <1>3, <1>4, <1>7, <1>9, <1>10, CutRun
<1>12. Reads(md, w)
  BY <1>2, <1>6, <1>11 DEF Reads, CutAway
<1>13. md \in [Places -> Nodes]
  BY DEF Put
<1>14. p # 1 => SameFirst(node[b], t)
  BY <1>7, <1>9
<1> HIDE DEF Reads
<1>15. \A X : Neat(md, R, X) => Bent(md, R, free, view, op, X)
  BY <1>2, <1>5, <1>11, <1>12, <1>13 DEF Bent
<1> QED BY <1>11, <1>14, <1>15

ToIndex(o, l) == [o EXCEPT !.pc = "index", !.lvl = l]
ToKey(o, l, k) == [o EXCEPT !.pc = "fix", !.lvl = l, !.key = k]

(* On to the index entry at level l ... *)
LEMMA ToIndexIs ==
  ASSUME NEW o \in Ops, NEW l \in Nat, NEW q, q = ToIndex(o, l)
  PROVE  Carried(o, q) /\ q.pc = "index" /\ q.path = o.path /\ q.lvl = l
<1>1. q \in Ops
  BY Zenon DEF ToIndex, Ops, Pcs
<1>2. /\ q.kind = o.kind /\ q.lo = o.lo /\ q.hi = o.hi /\ q.from = o.from /\ q.cut = o.cut
      /\ q.first = o.first /\ q.cnt = o.cnt /\ q.fresh = o.fresh /\ q.res = o.res
      /\ q.pc = "index" /\ q.path = o.path /\ q.lvl = l
  BY DEF ToIndex, Ops
<1> QED BY <1>1, <1>2 DEF Carried

(* ... or to the separator above it. *)
LEMMA ToKeyIs ==
  ASSUME NEW o \in Ops, NEW l \in Nat, NEW k \in LBlocks, NEW q, q = ToKey(o, l, k)
  PROVE  Carried(o, q) /\ q.pc = "fix" /\ q.path = o.path /\ q.lvl = l /\ q.key = k
<1>1. q \in Ops
  BY Zenon DEF ToKey, Ops, Pcs
<1>2. /\ q.kind = o.kind /\ q.lo = o.lo /\ q.hi = o.hi /\ q.from = o.from /\ q.cut = o.cut
      /\ q.first = o.first /\ q.cnt = o.cnt /\ q.fresh = o.fresh /\ q.res = o.res
      /\ q.pc = "fix" /\ q.path = o.path /\ q.lvl = l /\ q.key = k
  BY DEF ToKey, Ops
<1> QED BY <1>1, <1>2 DEF Carried

(* The operation goes on in every case. *)
LEMMA AfterLeafOn ==
  ASSUME Changed(view, op), op.kind = "remove", NEW R, Shape(node, R), NEW P, P = op.path,
         Len(P) \in Nat \ {0}, Linked(node, R, P, Len(P) - 1), P[1].blk = Root, NEW b, b = P[Len(P)].blk,
         NEW t, Fit(b, t), NEW md, Put(node, b, t, md), NEW p, Bent(md, R, free, view, op, {b}),
         b = Root \/ p # 1 => Bent(md, R, free, view, op, {}),
         NEW q, q = AfterLeaf(op, P, t.ents, p), NEW x, x = Seen(view, md, q)
  PROVE  Onward(view, op, md, free, x, q)
<1>1. op \in Ops /\ md[b] = t
  BY DEF Changed, Put
<1>2. CASE Bent(md, R, free, view, op, {}) /\ q = Resume(op)
  BY <1>2, ResumeOn
<1> DEFINE m == Len(P) - 1
<1>3. /\ m \in Nat /\ m + 1 = Len(P) /\ Len(P) \in Nat
      /\ Len(P) # 1 => m \in 1 .. Len(P) - 1 /\ Len(P) \in 2 .. Len(P)
  <2> DEFINE N == Len(P)
  <2>1. N \in Nat \ {0} /\ m = N - 1
    OBVIOUS
  <2> HIDE DEF N, m
  <2>2. m \in Nat /\ m + 1 = N /\ N \in Nat /\ (N # 1 => m \in 1 .. N - 1 /\ N \in 2 .. N)
    BY <2>1
  <2> QED BY <2>2 DEF N
<1>4. Linked(md, R, P, m)
  <2>1. Linked(node, R, P, m) /\ b = P[m + 1].blk
    BY <1>3
  <2>2. \A y \in R \ R : node[y].depth <= node[b].depth
    OBVIOUS
  <2> HIDE DEF m
  <2> QED BY Zenon, <2>1, <2>2, <1>3, LinkedWrite
<1> HIDE DEF m
<1>5. CASE Len(P) # 1 /\ q = ToIndex(op, m) /\ t.ents = <<>>
  <2>1. m \in 1 .. Len(P) - 1
    BY <1>3, <1>5
  <2>2. Carried(op, q) /\ q.pc = "index" /\ q.path = P /\ q.lvl = m
    BY <1>1, <1>3, <1>5, ToIndexIs
  <2> QED BY <2>1, <2>2, <1>1, <1>3, <1>4, <1>5, IndexOn
<1>6. CASE Len(P) # 1 /\ q = ToKey(op, Len(P), t.ents[1].first) /\ t.ents # <<>>
  <2>1. Len(P) \in 2 .. Len(P) /\ Linked(md, R, P, Len(P) - 1)
    <3>1. m = Len(P) - 1
      BY DEF m
    <3> QED BY <3>1, <1>3, <1>4, <1>6
  <2>2. t.ents[1].first \in LBlocks
    <3>1. 1 \in 1 .. Len(t.ents)
      BY <1>6, NodeIs
    <3> QED BY Zenon, <3>1, EntryIs
  <2>3. Carried(op, q) /\ q.pc = "fix" /\ q.path = P /\ q.lvl = Len(P) /\ q.key = md[b].ents[1].first
    BY <1>1, <1>3, <1>6, <2>2, ToKeyIs
  <2>4. md[b].ents # <<>>
    BY <1>1, <1>6
  <2> QED BY <2>1, <2>3, <2>4, FixOn
<1>7. CASE Len(P) = 1
  <2>1. b = Root /\ q = Resume(op)
    BY <1>7 DEF AfterLeaf
  <2> QED BY <2>1, <1>2
<1>8. CASE Len(P) # 1 /\ t.ents = <<>>
  <2>1. q = ToIndex(op, m)
    BY <1>8 DEF AfterLeaf, ToIndex, m
  <2> QED BY <2>1, <1>5, <1>8
<1>9. CASE Len(P) # 1 /\ t.ents # <<>> /\ p = 1
  <2>1. q = ToKey(op, Len(P), t.ents[1].first)
    BY <1>9 DEF AfterLeaf, ToKey
  <2> QED BY <2>1, <1>6, <1>9
<1>10. CASE Len(P) # 1 /\ t.ents # <<>> /\ p # 1
  <2>1. q = Resume(op)
    BY <1>10 DEF AfterLeaf
  <2> QED BY <2>1, <1>2, <1>10
<1> QED BY <1>7, <1>8, <1>9, <1>10

(* Lookups outside the range answer as before. *)
LEMMA BentKeeps ==
  ASSUME NEW vw, NEW o, NEW nd, NEW R, NEW fr, NEW X, Bent(nd, R, fr, vw, o, X)
  PROVE  OthersKept(nd, vw, o)
<1>1. ASSUME NEW l \in LBlocks \ (o.lo .. o.hi) PROVE FixMap(vw, o)[l] = vw[l]
  BY TargetKept DEF FixMap
<1> QED BY <1>1 DEF OthersKept, Bent, Reads

(* remove_leaf rewrites the leaf. *)
LEMMA RemoveLeafPutOn ==
  ASSUME Typed(node, free, op), NEW R \in SUBSET Places, Fits(node, R, free, view, op), RemoveLeafPut
  PROVE  Onward(view, op, node', free', view', op')
<1>1. op.pc = "leafput" /\ op.pc \in LeafPcs /\ op.pc \in LivePcs /\ UNCHANGED free /\ view' = Seen(view, node', op')
  <2>1. op.pc = "leafput" /\ UNCHANGED free /\ Step
    BY Zenon DEF RemoveLeafPut
  <2>2. op.pc \in LeafPcs
    BY <2>1 DEF LeafPcs
  <2>3. op.pc \in LivePcs
    BY <2>2 DEF LivePcs, RemovePcs
  <2> QED BY <2>1, <2>2, <2>3 DEF Step, Seen
<1> DEFINE P == op.path
<1>2. PICK b, n, p, e : Cutting(R, b, n, p, e, P)
  BY <1>1, CuttingIs
<1>3. /\ op \in Ops /\ op.kind = "remove" /\ Changed(view, op) /\ Shape(node, R) /\ node \in [Places -> Nodes]
      /\ free \in SUBSET Blocks /\ OthersKept(node, view, op) /\ OpBlocks(op) \subseteq Blocks /\ op.from \in LBlocks
  BY <1>1, LeafNow DEF Changed
<1>4. /\ P = FindPath(node, op.from) /\ b = Landing(node, op.from) /\ b \in R /\ n = node[b]
      /\ Leaf(P).blk = b /\ Leaf(P).cnt = Len(n.ents) /\ Leaf(P).pos = p /\ Leaf(P).ent = e
      /\ n.depth = 0 /\ Fit(b, n) /\ EntryOf(n, p, e)
  BY <1>2 DEF Cutting
<1>5. /\ Len(P) \in Nat \ {0} /\ P \in Seq(PathSteps) /\ Linked(node, R, P, Len(P) - 1)
      /\ P[Len(P)].blk = b /\ P[1].blk = Root
  BY <1>3, <1>4, PathLinked
<1> DEFINE t == Trimmed(n, p, op.from, op.cut)
           q == AfterLeaf(op, P, t.ents, p)
           md == [node EXCEPT ![b] = t]
           x == Seen(view, md, q)
<1>6. Write(b, t, q)
  <2> DEFINE leaf == Leaf(op.path)
             old == node[leaf.blk].ents
             ents == SubSeq(old, 1, leaf.pos - 1) \o Trim(leaf.ent, op.from, op.cut) \o SubSeq(old, leaf.pos + 1, leaf.cnt)
  <2>1. Write(leaf.blk, [node[leaf.blk] EXCEPT !.ents = ents], AfterLeaf(op, op.path, ents, leaf.pos))
    BY Zenon DEF RemoveLeafPut, AfterLeaf
  <2>2. ents = SubSeq(n.ents, 1, p - 1) \o Trim(n.ents[p], op.from, op.cut) \o SubSeq(n.ents, p + 1, Len(n.ents))
    BY <1>4 DEF EntryOf
  <2>3. [n EXCEPT !.ents = ents] = [depth |-> 0, ents |-> ents]
    <3>1. n = [depth |-> 0, ents |-> n.ents]
      BY <1>4, LeafParts
    <3> HIDE DEF ents
    <3> QED BY <3>1
  <2> HIDE DEF ents
  <2>4. t = [depth |-> 0, ents |-> ents]
    BY <2>2 DEF Trimmed
  <2>5. t.ents = ents
    BY <2>4
  <2> QED BY <2>1, <2>3, <2>4, <2>5, <1>4
<1>7. Bent(md, R, free, view, op, {b}) /\ (b = Root \/ p # 1 => Bent(md, R, free, view, op, {}))
      /\ Put(node, b, t, md) /\ t \in Nodes /\ b \in Places
  <2>1. t = Trimmed(n, p, op.from, op.cut)
    OBVIOUS
  <2>2. md = [node EXCEPT ![b] = t]
    OBVIOUS
  <2> HIDE DEF t, md, P, q
  <2>3. b \in Places
    BY <1>3, <1>4 DEF Shape
  <2>4. Fit(b, t) /\ t \in Nodes
    <3>1. Fit(b, t)
      BY <2>1, <1>1, <1>2, CutFit
    <3> QED BY <3>1, NodeIs
  <2>5. Put(node, b, t, md)
    BY Zenon, <2>2, <2>3, <2>4, <1>3, PutIs
  <2> QED BY <2>1, <2>3, <2>4, <2>5, <1>1, <1>2, LeafCut
<1>8. Fit(b, t)
  <2>1. t = Trimmed(n, p, op.from, op.cut)
    OBVIOUS
  <2> HIDE DEF t
  <2> QED BY <2>1, <1>1, <1>2, CutFit
<1>9. md = [node EXCEPT ![b] = t] /\ q = AfterLeaf(op, P, t.ents, p) /\ x = Seen(view, md, q) /\ P = op.path
  OBVIOUS
<1> HIDE DEF md, q, x, t, P
<1>10. Onward(view, op, md, free, x, q)
  BY Zenon, <1>3, <1>5, <1>7, <1>8, <1>9, AfterLeafOn
<1>11. OthersKept(md, view, op)
  BY <1>7, BentKeeps
<1> QED BY Zenon, <1>1, <1>3, <1>6, <1>7, <1>9, <1>10, <1>11, WriteOn

-----------------------------------------------------------------------------
(* correct_indexes. *)

(* What holds on the way up. *)
LEMMA LevelNow ==
  ASSUME Typed(node, free, op), NEW R \in SUBSET Places, Fits(node, R, free, view, op), op.pc \in {"fix", "index", "indexfree"}
  PROVE  /\ Changed(view, op) /\ Tree(node, R) /\ Neat(node, R, Odd(node, op)) /\ Shape(node, R) /\ PathKept(node, R, op)
         /\ Reads(node, FixMap(view, op)) /\ Owned(R, free, Loose(op), FixMap(view, op))
         /\ OpBlocks(op) \subseteq Blocks /\ OthersKept(node, view, op) /\ op \in Ops /\ Len(op.path) \in Nat /\ op.lvl \in Nat
         /\ op.path \in Seq(PathSteps) /\ op.key \in LBlocks
         /\ op.pc # "fix" => op.kind = "remove"
         /\ op.pc # "indexfree" => Bent(node, R, free, view, op, Odd(node, op))
<1>1. op.pc \in LaterPcs
  BY DEF LaterPcs
<1>2. /\ op \in Ops /\ Tree(node, R) /\ Neat(node, R, Odd(node, op)) /\ Shape(node, R)
      /\ node \in [Places -> Nodes] /\ free \in SUBSET Blocks
      /\ op.lo \in LBlocks /\ op.hi \in LBlocks /\ op.res = "EOK" /\ op.fresh = {}
      /\ OthersKept(node, view, op) /\ Owned(R, free, Loose(op), Kept(view, op)) /\ Reads(node, Target(view, op))
      /\ OpBlocks(op) \subseteq Blocks /\ PathKept(node, R, op) /\ op.kind \in {"get", "remove"}
      /\ (op.pc # "fix" => op.kind = "remove")
      /\ (op.kind = "get" => GetNumbers(view, op))
      /\ (op.kind = "remove" => op.from \in LBlocks /\ op.lo <= op.from /\ op.from <= op.hi)
      /\ (op.kind = "remove" /\ op.pc # "middlefree" => op.cut \in op.from .. op.hi)
  BY <1>1, LaterNow
<1>3. Target(view, op) = FixMap(view, op) /\ Kept(view, op) = FixMap(view, op)
  BY <1>2 DEF Target, Kept, FixMap
<1>4. op.pc # "indexfree" => Loose(op) = {}
  BY <1>2 DEF Loose
<1>5. Changed(view, op)
  BY <1>2 DEF Changed
<1>6. Reads(node, FixMap(view, op)) /\ Owned(R, free, Loose(op), FixMap(view, op))
  BY <1>2, <1>3
<1>7. op.pc # "indexfree" => Bent(node, R, free, view, op, Odd(node, op))
  BY <1>2, <1>4, <1>6 DEF Bent
<1>8. op.path \in Seq(PathSteps) /\ op.lvl \in Nat /\ op.key \in LBlocks
  BY <1>2, OpIs
<1>9. Len(op.path) \in Nat
  BY <1>8
<1> QED BY <1>2, <1>5, <1>6, <1>7, <1>8, <1>9

(* No separator speaks for the root. *)
LEMMA NeatRoot ==
  ASSUME NEW nd, NEW R, Shape(nd, R), Neat(nd, R, {Root})
  PROVE  Neat(nd, R, {})
BY DEF Neat, Shape, Slot

(* It is a node. *)
LEMMA FixedNode ==
  ASSUME NEW b, NEW n, Fit(b, n), n.depth # 0, NEW p \in 1 .. Len(n.ents), NEW k \in LBlocks, NEW c \in Blocks,
         NEW t, t = FixedAt(n, p, k, c)
  PROVE  t \in Nodes
<1>1. n.depth \in 1 .. MaxDepth /\ n.ents \in Seq(Indexes)
  BY NodeIs
<1> DEFINE i == [first |-> k, child |-> c]
           s == [n.ents EXCEPT ![p] = i]
<1>2. i \in Indexes
  BY DEF Indexes
<1>3. s \in Seq(Indexes)
  <2>1. s = [n.ents EXCEPT ![p] = i]
    OBVIOUS
  <2> HIDE DEF i, s
  <2>2. Swapped(Indexes, n.ents, p, i, s)
    BY <1>1, <1>2, <2>1, ReplaceIs
  <2> QED BY <2>2 DEF Swapped
<1>4. t = [depth |-> n.depth, ents |-> s]
  BY DEF FixedAt
<1> HIDE DEF s
<1> QED BY <1>1, <1>3, <1>4 DEF Nodes, Inner

(* The tree with a separator corrected. *)
LEMMA FixBent ==
  ASSUME NEW vw, NEW o, NEW nd, NEW R, NEW fr, NEW c, Bent(nd, R, fr, vw, o, {c}),
         NEW k, Heads(nd, c, k), NEW u \in R, NEW p, Slot(nd, u, p, c), NEW t, Fixed(nd, u, p, k, c, t),
         NEW md, Put(nd, u, t, md)
  PROVE  /\ Bent(md, R, fr, vw, o, {u})
         /\ p # 1 \/ u = Root => Bent(md, R, fr, vw, o, {})
         /\ md[u].ents # <<>> /\ (p = 1 => md[u].ents[1].first = k)
<1>1. /\ nd \in [Places -> Nodes] /\ R \in SUBSET Places /\ fr \in SUBSET Blocks /\ Tree(nd, R) /\ Neat(nd, R, {c})
      /\ Owned(R, fr, {}, FixMap(vw, o)) /\ Reads(nd, FixMap(vw, o))
  BY DEF Bent
<1>3. /\ Tree(md, R) /\ SameLookups(nd, md)
      /\ Neat(md, R, {u}) /\ (p # 1 => Neat(md, R, {}))
      /\ md[u].ents # <<>> /\ (p = 1 => Heads(md, u, k))
  <2>1. /\ Tree(nd, R) /\ u \in R /\ Slot(nd, u, p, c) /\ Neat(nd, R, {c}) /\ Heads(nd, c, k)
    BY <1>1
  <2> QED BY Zenon, <2>1, FixTree
<1>4. u = Root => Neat(md, R, {})
  BY Zenon, <1>3, NeatRoot DEF Tree
<1>5. md \in [Places -> Nodes]
  BY DEF Put
<1>6. Reads(md, FixMap(vw, o))
  BY <1>1, <1>3 DEF Reads, SameLookups
<1> HIDE DEF Reads
<1>7. \A X : Neat(md, R, X) => Bent(md, R, fr, vw, o, X)
  BY <1>1, <1>3, <1>5, <1>6 DEF Bent
<1> QED BY <1>3, <1>4, <1>7 DEF Heads

Rising(o) == [o EXCEPT !.lvl = @ - 1]

(* One turn of correct_indexes. *)
LEMMA CorrectIndexesOn ==
  ASSUME Typed(node, free, op), NEW R \in SUBSET Places, Fits(node, R, free, view, op), CorrectIndexes
  PROVE  Onward(view, op, node', free', view', op')
<1> DEFINE P == op.path
           m == op.lvl - 1
           up == P[m]
           c == P[op.lvl].blk
           u == up.blk
           p == up.pos
           k == op.key
<1>1. op.pc = "fix" /\ UNCHANGED free /\ view' = Seen(view, node', op')
  <2>1. op.pc = "fix" /\ UNCHANGED free /\ Step
    BY Zenon DEF CorrectIndexes
  <2> QED BY <2>1 DEF Step, Seen
<1>2. /\ Changed(view, op) /\ Shape(node, R) /\ PathKept(node, R, op) /\ OpBlocks(op) \subseteq Blocks
      /\ OthersKept(node, view, op) /\ op \in Ops /\ Len(P) \in Nat /\ op.lvl \in Nat /\ k \in LBlocks
      /\ Bent(node, R, free, view, op, Odd(node, op)) /\ P \in Seq(PathSteps)
  BY <1>1, LevelNow
<1>3. /\ op.lvl \in 2 .. Len(P) /\ Linked(node, R, P, op.lvl - 1) /\ node[c].ents # <<>> /\ node[c].ents[1].first = k
      /\ Odd(node, op) = {c}
  BY <1>1, <1>2 DEF PathKept, Odd
<1>4. m \in Nat /\ m \in 1 .. m /\ m + 1 = op.lvl /\ (op.lvl # 2 => m \in 2 .. Len(P)) /\ (op.lvl = 2 => m = 1)
      /\ m - 1 \in Nat /\ m - 1 \in 0 .. m
  <2> DEFINE N == Len(P)
             v == op.lvl
  <2>1. N \in Nat /\ v \in 2 .. N
    BY <1>2, <1>3
  <2>2. m = v - 1
    OBVIOUS
  <2> HIDE DEF N, v, m
  <2>3. m \in Nat /\ m \in 1 .. m /\ m + 1 = v /\ (v # 2 => m \in 2 .. N) /\ (v = 2 => m = 1) /\ m - 1 \in Nat /\ m - 1 \in 0 .. m
    BY <2>1, <2>2
  <2> QED BY <2>3 DEF N, v
<1> HIDE DEF m
<1>5. /\ u \in R /\ node[u].depth > 0 /\ p \in 1 .. Len(node[u].ents) /\ up.ent = node[u].ents[p] /\ up.ent.child = c
      /\ Linked(node, R, P, m) /\ P[1].blk = Root
  <2>1. Linked(node, R, P, m)
    BY <1>3 DEF m
  <2> QED BY <2>1, <1>4 DEF Linked
<1>6. Slot(node, u, p, c) /\ Fit(u, node[u]) /\ node[u].depth # 0 /\ c \in Blocks /\ u \in Places /\ node \in [Places -> Nodes]
  <2>1. Slot(node, u, p, c)
    BY <1>5 DEF Slot
  <2>2. c \in Blocks
    <3> HIDE DEF c, u, p
    <3> QED BY <2>1, <1>2, <1>5, SlotIs
  <2>3. Fit(u, node[u]) /\ u \in Places /\ node \in [Places -> Nodes]
    BY <1>2, <1>5 DEF Shape
  <2>4. node[u].depth # 0
    <3>1. node[u].depth \in 0 .. MaxDepth
      BY <2>3, NodeIs
    <3> QED BY <3>1, <1>5
  <2> QED BY <2>1, <2>2, <2>3, <2>4
<1> DEFINE t == FixedAt(node[u], p, k, c)
           q == IF FixDone(up) THEN Resume(op) ELSE Rising(op)
           md == [node EXCEPT ![u] = t]
           x == Seen(view, md, q)
<1>7. Write(u, t, q)
  <2> DEFINE i == [up.ent EXCEPT !.first = k]
             n == [node[u] EXCEPT !.ents[p] = i]
  <2>1. Write(u, n, q)
    <3>1. Write(op.path[op.lvl - 1].blk,
                [node[op.path[op.lvl - 1].blk] EXCEPT !.ents[op.path[op.lvl - 1].pos] = [op.path[op.lvl - 1].ent EXCEPT !.first = op.key]],
                IF FixDone(op.path[op.lvl - 1]) THEN Resume(op) ELSE [op EXCEPT !.lvl = @ - 1])
      BY Zenon DEF CorrectIndexes
    <3> QED BY <3>1, Zenon DEF m, Rising
  <2>2. i = [first |-> k, child |-> c]
    <3> DEFINE e == up.ent
               g == node[u]
    <3>1. Fit(u, g) /\ p \in 1 .. Len(g.ents) /\ g.depth # 0 /\ e = g.ents[p] /\ e.child = c
      BY <1>5, <1>6
    <3>2. e = [first |-> e.first, child |-> e.child] /\ e.child = c
      <4> HIDE DEF e, g, p, u, c
      <4>1. g.ents[p] = [first |-> g.ents[p].first, child |-> g.ents[p].child]
        BY Zenon, <3>1, EntryIs
      <4> QED BY <3>1, <4>1
    <3> HIDE DEF e, k, c
    <3>3. [e EXCEPT !.first = k] = [first |-> k, child |-> c]
      BY <3>2
    <3> QED BY <3>3 DEF e
  <2>3. node[u] = [depth |-> node[u].depth, ents |-> node[u].ents]
    BY <1>6, NodeIs
  <2> DEFINE g == node[u]
  <2>4. n = [depth |-> g.depth, ents |-> [g.ents EXCEPT ![p] = i]]
    <3>1. g = [depth |-> g.depth, ents |-> g.ents]
      BY <2>3
    <3> HIDE DEF g, p, i
    <3>2. [g EXCEPT !.ents[p] = i] = [depth |-> g.depth, ents |-> [g.ents EXCEPT ![p] = i]]
      BY <3>1
    <3> QED BY <3>2 DEF g
  <2> HIDE DEF i
  <2>5. n = t
    BY <2>2, <2>4 DEF FixedAt
  <2> QED BY <2>1, <2>5
<1>8. t \in Nodes
  <2>1. t = FixedAt(node[u], p, k, c)
    OBVIOUS
  <2> HIDE DEF t, u, p, k, c
  <2> QED BY <2>1, <1>2, <1>5, <1>6, FixedNode
<1>9. md = [node EXCEPT ![u] = t]
  OBVIOUS
<1>9c. x = Seen(view, md, q)
  OBVIOUS
<1>9d. Fixed(node, u, p, k, c, t)
  BY DEF Fixed
<1>9e. Heads(node, c, k)
  BY <1>3 DEF Heads
<1>9a. u = P[m].blk /\ p = P[m].pos /\ c = P[op.lvl].blk
  OBVIOUS
<1>9b. /\ p # 1 \/ op.lvl = 2 => q = Resume(op)
       /\ ~ (p # 1 \/ op.lvl = 2) => q = Rising(op)
  BY DEF FixDone
<1>10. Bent(node, R, free, view, op, {c})
  BY <1>2, <1>3
<1> HIDE DEF t, u, p, k, c, md, x, q, up, P
<1>11. Put(node, u, t, md)
  <2>1. u \in Places /\ node \in [Places -> Nodes]
    BY <1>6
  <2> QED BY Zenon, <2>1, <1>8, <1>9, PutIs
<1>12. /\ Bent(md, R, free, view, op, {u})
       /\ p # 1 \/ u = Root => Bent(md, R, free, view, op, {})
       /\ md[u].ents # <<>> /\ (p = 1 => md[u].ents[1].first = k)
  <2>1. u \in R /\ Slot(node, u, p, c)
    BY <1>5, <1>6
  <2> QED BY <2>1, <1>9d, <1>9e, <1>10, <1>11, FixBent
<1>13. Onward(view, op, md, free, x, q)
  <2>1. CASE p # 1 \/ op.lvl = 2
    <3>1. p # 1 \/ u = Root
      BY <2>1, <1>4, <1>5, <1>9a
    <3>2. q = Resume(op)
      BY <2>1, <1>9b
    <3> QED BY <3>1, <3>2, <1>2, <1>9c, <1>12, ResumeOn
  <2>2. CASE p = 1 /\ op.lvl # 2
    <3>1. q = Rising(op)
      BY <2>2, <1>9b
    <3>2. q.lvl = m /\ q.pc = "fix" /\ q.path = P /\ q.key = k
      BY <3>1, <1>1, <1>2 DEF Rising, Ops, m, k, P
    <3>3. Carried(op, q)
      <4>1. q \in Ops
        <5>1. op.lvl - 1 \in Nat
          BY <1>4 DEF m
        <5> QED BY Zenon, <3>1, <5>1, <1>2 DEF Rising, Ops
      <4> QED BY Zenon, <3>1, <4>1, <1>2 DEF Carried, Rising, Ops
    <3>4. Linked(md, R, P, m - 1)
      <4> DEFINE j == m - 1
      <4>1. j \in Nat /\ j \in 0 .. m /\ u = P[j + 1].blk
        BY <1>4, <1>9a
      <4>2. \A y \in R \ R : node[y].depth <= node[u].depth
        OBVIOUS
      <4> HIDE DEF j
      <4>3. Linked(node, R, P, j)
        BY <4>1, <1>2, <1>4, <1>5, LinkedLess
      <4>4. Linked(md, R, P, j)
        BY Zenon, <4>1, <4>2, <4>3, <1>2, <1>11, LinkedWrite
      <4> QED BY <4>4 DEF j
    <3>5. m \in 2 .. Len(P) /\ q.key = md[u].ents[1].first
      BY <3>2, <2>2, <1>4, <1>12
    <3> QED BY <3>2, <3>3, <3>4, <3>5, <1>2, <1>9a, <1>9c, <1>12, FixOn
  <2> QED BY <2>1, <2>2
<1>14. OthersKept(md, view, op)
  BY <1>12, BentKeeps
<1>15. Typed(node, free, op) /\ op.lvl \in Nat
  BY <1>2
<1> QED BY Zenon, <1>1, <1>2, <1>6, <1>7, <1>8, <1>9, <1>9c, <1>13, <1>14, WriteOn

-----------------------------------------------------------------------------
(* remove_index. *)

(* Entry P[k].ent has been dropped and its child is still to be freed. *)
Dangling(nd, R, fr, vw, o, P, k) ==
    /\ nd \in [Places -> Nodes] /\ R \in SUBSET Places /\ fr \in SUBSET Blocks /\ Tree(nd, R)
    /\ k \in 1 .. Len(P) /\ Linked(nd, R, P, k - 1)
    /\ P[k].blk \in R /\ nd[P[k].blk].depth > 0 /\ P[k].ent.child \in Blocks \ R
    /\ Neat(nd, R, IF P[k].pos = 1 \/ nd[P[k].blk].ents = <<>> THEN {P[k].blk} ELSE {})
    /\ Owned(R, fr, {P[k].ent.child}, FixMap(vw, o)) /\ Reads(nd, FixMap(vw, o))

(* The dropped entry's child is to be freed. *)
LEMMA IndexFreeOn ==
  ASSUME NEW vw, NEW o, Changed(vw, o), o.kind = "remove", NEW nd, NEW R, NEW fr, NEW P, NEW k, Dangling(nd, R, fr, vw, o, P, k),
         NEW q, Carried(o, q), q.pc = "indexfree", q.path = P, q.lvl = k, NEW x, x = Seen(vw, nd, q)
  PROVE  Onward(vw, o, nd, fr, x, q)
<1>1. Numbers(nd, vw, q)
  <2>1. RemoveNumbers(q)
    BY DEF RemoveNumbers, RemovePcs, LeafPcs, Changed, Carried
  <2> QED BY <2>1 DEF Numbers, FreshPcs, GrowPcs, Changed, Carried
<1>2. PathKept(nd, R, q)
  BY DEF PathKept, SplitPcs, LeafPcs, Dangling
<1>3. q.kind = "remove" /\ q.fresh = {}
  BY DEF Changed, Carried
<1>4. Clear(vw, q, q.cut + 1) = FixMap(vw, o)
  BY DEF Clear, Carried, FixMap
<1>5. /\ Target(vw, q) = FixMap(vw, o) /\ Kept(vw, q) = FixMap(vw, o) /\ Loose(q) = {P[k].ent.child} /\ Whole(nd, q) = nd
      /\ Odd(nd, q) = IF P[k].pos = 1 \/ nd[P[k].blk].ents = <<>> THEN {P[k].blk} ELSE {}
  BY <1>3, <1>4 DEF Target, Kept, Loose, Odd, Whole, Carried
<1>6. Busy(nd, R, fr, vw, q)
  BY <1>1, <1>2, <1>3, <1>5 DEF Busy, Dangling, Reads
<1>7. Typed(nd, fr, q) /\ q.pc \in LivePcs /\ R \in SUBSET Places
  BY <1>3 DEF Typed, LivePcs, RemovePcs, Dangling, Carried
<1> HIDE DEF Changed, Dangling, Carried
<1> QED BY <1>6, <1>7, LiveOn

(* What dropping the empty child leaves: DropTree's conclusion. *)
DropLeaves(nd, R, u, p, c, md) ==
    /\ Tree(md, R \ {c}) /\ SameLookups(nd, md)
    /\ Neat(md, R \ {c}, {u}) /\ (p # 1 => Neat(md, R \ {c}, {}))
    /\ md[u].depth = nd[u].depth /\ (md[u].ents = <<>> => p = 1)

(* DropTree in these words. *)
LEMMA DropAll ==
  ASSUME NEW nd, NEW R, Tree(nd, R), NEW u \in R, NEW p, NEW c, Slot(nd, u, p, c), Neat(nd, R, {c}),
         nd[c].ents = <<>>, NEW t1, Drops(nd, u, p, t1), NEW md, Put(nd, u, t1, md)
  PROVE  DropLeaves(nd, R, u, p, c, md)
BY DropTree DEF DropLeaves

(* Step k of path P leads from block u by entry p to block c. *)
LeadsBy(P, k, u, p, c) == u = P[k].blk /\ p = P[k].pos /\ c = P[k + 1].blk

(* The tree without the entry. *)
LEMMA DropBent ==
  ASSUME NEW vw, NEW o, NEW nd, NEW R, NEW fr, NEW P, NEW k \in 1 .. Len(P), Linked(nd, R, P, k), Len(P) \in Nat,
         NEW u, NEW p, NEW c, LeadsBy(P, k, u, p, c), Bent(nd, R, fr, vw, o, {c}), nd[c].ents = <<>>,
         NEW t, Drops(nd, u, p, t), NEW md, Put(nd, u, t, md)
  PROVE  Dangling(md, R \ {c}, fr, vw, o, P, k) /\ Reads(md, FixMap(vw, o))
<1> DEFINE Q == R \ {c}
<1>1. /\ nd \in [Places -> Nodes] /\ R \in SUBSET Places /\ fr \in SUBSET Blocks /\ Tree(nd, R) /\ Neat(nd, R, {c})
      /\ Owned(R, fr, {}, FixMap(vw, o)) /\ Reads(nd, FixMap(vw, o)) /\ Shape(nd, R)
  BY DEF Bent, Tree
<1>2. /\ u \in R /\ nd[u].depth > 0 /\ p \in 1 .. Len(nd[u].ents) /\ P[k].ent = nd[u].ents[p] /\ P[k].ent.child = c
  <2>1. k \in 1 .. k
    OBVIOUS
  <2> QED BY Zenon, <2>1 DEF Linked, LeadsBy
<1>3. Slot(nd, u, p, c)
  BY <1>2 DEF Slot
<1>4. c \in R /\ c # Root /\ nd[c].depth < nd[u].depth /\ c \in Blocks
  BY <1>1, <1>2, <1>3, SlotIs
<1>6. /\ Tree(md, Q) /\ SameLookups(nd, md)
      /\ Neat(md, Q, {u}) /\ (p # 1 => Neat(md, Q, {}))
      /\ md[u].depth = nd[u].depth /\ (md[u].ents = <<>> => p = 1)
  <2>1. DropLeaves(nd, R, u, p, c, md)
    <3>1. Tree(nd, R) /\ u \in R /\ Slot(nd, u, p, c) /\ Neat(nd, R, {c}) /\ nd[c].ents = <<>>
      BY <1>1, <1>2, <1>3
    <3> QED BY <3>1, DropAll
  <2> QED BY <2>1 DEF DropLeaves
<1>7. md \in [Places -> Nodes] /\ Q \in SUBSET Places /\ u \in Q /\ c \in Blocks \ Q
  BY <1>1, <1>2, <1>4 DEF Put
<1>8. Owned(Q, fr, {c}, FixMap(vw, o))
  <2> DEFINE w == FixMap(vw, o)
  <2>1. Owned(R, fr, {}, w)
    BY <1>1
  <2> HIDE DEF w, Q
  <2>2. Owned(R \ {c}, fr, {} \cup {c}, w)
    BY <2>1, <1>4, OwnDrop
  <2>3. {} \cup {c} = {c} /\ Q = R \ {c}
    BY DEF Q
  <2> QED BY <2>2, <2>3 DEF w
<1>9. Reads(md, FixMap(vw, o))
  BY <1>1, <1>6 DEF Reads, SameLookups
<1>10. Linked(md, Q, P, k - 1)
  <2> DEFINE j == k - 1
  <2>1. j \in Nat /\ j \in 0 .. k /\ j + 1 = k /\ k \in Nat
    OBVIOUS
  <2>2. u = P[j + 1].blk
    BY <2>1 DEF LeadsBy
  <2>3. \A y \in R \ Q : nd[y].depth <= nd[u].depth
    <3>1. nd[c].depth \in Int /\ nd[u].depth \in Int
      BY <1>1, <1>2, <1>4, DepthIs
    <3>2. nd[c].depth <= nd[u].depth
      BY <3>1, <1>4
    <3> QED BY <3>2
  <2> HIDE DEF j, Q
  <2>4. Linked(nd, R, P, j)
    BY <2>1, LinkedLess
  <2>5. Linked(md, Q, P, j)
    BY Zenon, <2>1, <2>2, <2>3, <2>4, <1>1, LinkedWrite
  <2> QED BY <2>5 DEF j
<1>11. Neat(md, Q, IF P[k].pos = 1 \/ md[P[k].blk].ents = <<>> THEN {P[k].blk} ELSE {})
  BY <1>6 DEF LeadsBy
<1> HIDE DEF Reads
<1> QED BY <1>1, <1>2, <1>6, <1>7, <1>8, <1>9, <1>10, <1>11 DEF Dangling, LeadsBy

(* Its node. *)
LEMMA DroppedNode ==
  ASSUME NEW b, NEW n, Fit(b, n), n.depth # 0, NEW p \in 1 .. Len(n.ents), NEW t, t = DroppedAt(n, p)
  PROVE  t \in Nodes
<1>1. t = [depth |-> n.depth, ents |-> RemoveAt(n.ents, p)]
  BY DEF DroppedAt
<1>2. Dropped(b, n, p, t)
  BY <1>1, IndexDrop
<1> QED BY <1>2, NodeIs DEF Dropped

ToFree(o) == [o EXCEPT !.pc = "indexfree"]

(* Outside the range of the operation the target is the view. *)
LEMMA FixMapOutside ==
  ASSUME NEW vw, NEW o, NEW l \in LBlocks \ (o.lo .. o.hi)
  PROVE  FixMap(vw, o)[l] = vw[l]
<1>1. Filled(vw, o)[l] = vw[l] /\ \A x : Clear(vw, o, x)[l] = vw[l]
  BY Zenon, TargetKept
<1> DEFINE a == Filled(vw, o)
           b == Clear(vw, o, o.cut + 1)
<1>2. a[l] = vw[l] /\ b[l] = vw[l] /\ FixMap(vw, o) = IF o.kind = "get" THEN a ELSE b
  BY <1>1 DEF FixMap
<1> HIDE DEF a, b
<1> QED BY <1>2

(* remove_index drops the entry. *)
LEMMA RemoveIndexOn ==
  ASSUME Typed(node, free, op), NEW R \in SUBSET Places, Fits(node, R, free, view, op), RemoveIndex
  PROVE  Onward(view, op, node', free', view', op')
<1> DEFINE P == op.path
           k == op.lvl
           c == P[k + 1].blk
           u == P[k].blk
           p == P[k].pos
<1>1. op.pc = "index" /\ UNCHANGED free /\ view' = Seen(view, node', op')
  <2>1. op.pc = "index" /\ UNCHANGED free /\ Step
    BY Zenon DEF RemoveIndex
  <2> QED BY <2>1 DEF Step, Seen
<1>2. /\ Changed(view, op) /\ Shape(node, R) /\ PathKept(node, R, op) /\ OpBlocks(op) \subseteq Blocks
      /\ OthersKept(node, view, op) /\ op \in Ops /\ Len(P) \in Nat /\ k \in Nat
      /\ Bent(node, R, free, view, op, Odd(node, op)) /\ P \in Seq(PathSteps) /\ op.kind = "remove"
  BY <1>1, LevelNow
<1>3. k \in 1 .. Len(P) - 1 /\ Linked(node, R, P, k) /\ node[c].ents = <<>> /\ Odd(node, op) = {c}
  BY <1>1, <1>2 DEF PathKept, Odd
<1>4. k \in 1 .. Len(P) /\ k \in 1 .. k
  <2> DEFINE N == Len(P)
  <2>1. N \in Nat /\ k \in 1 .. N - 1
    BY <1>2, <1>3
  <2> HIDE DEF N, k
  <2>2. k \in 1 .. N /\ k \in 1 .. k
    BY <2>1
  <2> QED BY <2>2 DEF N
<1>5. u \in R /\ node[u].depth > 0 /\ p \in 1 .. Len(node[u].ents)
  BY Zenon, <1>3, <1>4 DEF Linked
<1>6. Fit(u, node[u]) /\ node[u].depth # 0 /\ u \in Places /\ node \in [Places -> Nodes]
  <2>1. Fit(u, node[u]) /\ u \in Places /\ node \in [Places -> Nodes]
    BY <1>2, <1>5 DEF Shape
  <2>2. node[u].depth \in 0 .. MaxDepth
    <3> DEFINE n == node[u]
    <3>1. Fit(u, n)
      BY <2>1
    <3> HIDE DEF n, u
    <3>2. n.depth \in 0 .. MaxDepth
      BY Zenon, <3>1, NodeIs
    <3> QED BY <3>2 DEF n
  <2> QED BY <2>1, <2>2, <1>5
<1> DEFINE t == DroppedAt(node[u], p)
           q == ToFree(op)
           md == [node EXCEPT ![u] = t]
           x == Seen(view, md, q)
<1>7. Write(u, t, q)
  <2>1. Write(u, [node[u] EXCEPT !.ents = RemoveAt(@, p)], q)
    BY Zenon DEF RemoveIndex, ToFree
  <2>2. node[u] = [depth |-> node[u].depth, ents |-> node[u].ents]
    BY <1>6, NodeIs
  <2> DEFINE g == node[u]
             r == RemoveAt(g.ents, p)
  <2>3. [node[u] EXCEPT !.ents = RemoveAt(@, p)] = [depth |-> g.depth, ents |-> r]
    <3>1. g = [depth |-> g.depth, ents |-> g.ents]
      BY <2>2
    <3>2. [node[u] EXCEPT !.ents = RemoveAt(@, p)] = [g EXCEPT !.ents = r]
      OBVIOUS
    <3> HIDE DEF g, r
    <3>3. [g EXCEPT !.ents = r] = [depth |-> g.depth, ents |-> r]
      BY <3>1
    <3> QED BY <3>2, <3>3
  <2> QED BY <2>1, <2>3 DEF DroppedAt
<1>8. t \in Nodes
  <2>1. t = DroppedAt(node[u], p)
    OBVIOUS
  <2> HIDE DEF t, u, p
  <2> QED BY <2>1, <1>5, <1>6, DroppedNode
<1>9. md = [node EXCEPT ![u] = t]
  OBVIOUS
<1>10. x = Seen(view, md, q)
  OBVIOUS
<1>11. Drops(node, u, p, t)
  BY DEF Drops
<1>12. LeadsBy(P, k, u, p, c)
  BY DEF LeadsBy
<1>13. q.path = P /\ q.lvl = k /\ q.pc = "indexfree" /\ Carried(op, q)
  <2>1. q \in Ops
    BY Zenon, <1>2 DEF ToFree, Ops, Pcs
  <2> QED BY Zenon, <2>1, <1>2 DEF ToFree, Ops, Carried
<1>14. Bent(node, R, free, view, op, {c})
  BY <1>2, <1>3
<1> HIDE DEF t, u, p, k, c, md, x, q, P
<1>15. Put(node, u, t, md)
  <2>1. u \in Places /\ node \in [Places -> Nodes]
    BY <1>6
  <2> QED BY Zenon, <2>1, <1>8, <1>9, PutIs
<1>16. Dangling(md, R \ {c}, free, view, op, P, k) /\ Reads(md, FixMap(view, op))
  BY <1>2, <1>3, <1>4, <1>11, <1>12, <1>14, <1>15, DropBent
<1>17. Onward(view, op, md, free, x, q)
  BY <1>2, <1>10, <1>13, <1>16, IndexFreeOn
<1>18. OthersKept(md, view, op)
  BY <1>16, FixMapOutside DEF OthersKept, Reads
<1> QED BY Zenon, <1>1, <1>2, <1>6, <1>7, <1>8, <1>9, <1>10, <1>17, <1>18, WriteOn

(* The tree is as it was, the child is free. *)
LEMMA ChildFree ==
  ASSUME NEW vw, NEW o, NEW nd, NEW R, NEW fr, NEW c, NEW X, nd \in [Places -> Nodes], R \in SUBSET Places, fr \in SUBSET Blocks,
         Tree(nd, R), Neat(nd, R, X), Owned(R, fr, {c}, FixMap(vw, o)), Reads(nd, FixMap(vw, o)), c \in Blocks
  PROVE  Bent(nd, R, fr \cup {c}, vw, o, X)
<1>1. Owned(R, fr \cup {c}, {c} \ {c}, FixMap(vw, o))
  <2>1. {c} \in SUBSET {c}
    OBVIOUS
  <2> QED BY Zenon, <2>1, OwnGive
<1>2. {c} \ {c} = {} /\ fr \cup {c} \in SUBSET Blocks
  OBVIOUS
<1> HIDE DEF Reads
<1> QED BY <1>1, <1>2 DEF Bent

(* An index root without entries becomes a leaf. *)
LEMMA CollapseBent ==
  ASSUME NEW vw, NEW o, NEW nd, NEW R, NEW fr, NEW X, Bent(nd, R, fr, vw, o, X), nd[Root].ents = <<>>,
         NEW t, t = [depth |-> 0, ents |-> <<>>], NEW md, Put(nd, Root, t, md)
  PROVE  Bent(md, R, fr, vw, o, {})
<1>1. /\ nd \in [Places -> Nodes] /\ R \in SUBSET Places /\ fr \in SUBSET Blocks /\ Tree(nd, R)
      /\ Owned(R, fr, {}, FixMap(vw, o)) /\ Reads(nd, FixMap(vw, o))
  BY DEF Bent
<1>2. Tree(md, R) /\ (\A Y : Neat(md, R, Y)) /\ SameLookups(nd, md)
  BY <1>1, CollapseTree
<1>3. md \in [Places -> Nodes]
  BY DEF Put
<1>4. Reads(md, FixMap(vw, o))
  BY <1>1, <1>2 DEF Reads, SameLookups
<1> HIDE DEF Reads
<1> QED BY <1>1, <1>2, <1>3, <1>4 DEF Bent

(* What remove_index goes on with. *)
AfterIndex(o, ents, u, p) ==
    IF ents = <<>> /\ u # Root THEN ToIndex(o, o.lvl - 1)
    ELSE IF p = 1 /\ ents # <<>> /\ o.lvl > 1 THEN ToKey(o, o.lvl, ents[1].first)
    ELSE Resume(o)

(* Entry p of block u, at level k of P, is the one the operation is at; e is
   what the block holds, X the block if its separator may be wrong. *)
AtLevel(P, k, u, p, e, X) ==
    /\ P = op.path /\ k = op.lvl /\ u = P[k].blk /\ p = P[k].pos /\ e = node[u].ents
    /\ X = IF p = 1 \/ e = <<>> THEN {u} ELSE {}

Goes(q, e, u, p) == q = AfterIndex(op, e, u, p)

(* The level below is done. *)
LEMMA AfterIndexOn ==
  ASSUME Changed(view, op), op.kind = "remove", NEW R, NEW P, NEW k \in 1 .. Len(P), Len(P) \in Nat,
         Linked(node, R, P, k - 1), NEW u, NEW p, NEW e, NEW X, AtLevel(P, k, u, p, e, X), u \in R, NEW f,
         Bent(node, R, f, view, op, X), ~ (e = <<>> /\ u = Root), NEW q, Goes(q, e, u, p), NEW x, x = Seen(view, node, q)
  PROVE  Onward(view, op, node, f, x, q)
<1> DEFINE m == k - 1
<1>0. /\ P = op.path /\ k = op.lvl /\ u = P[k].blk /\ p = P[k].pos /\ node[u].ents = e
      /\ p = 1 \/ e = <<>> => X = {u}
      /\ ~ (p = 1 \/ e = <<>>) => X = {}
  <2>1. P = op.path /\ k = op.lvl /\ u = P[k].blk /\ p = P[k].pos /\ node[u].ents = e
    BY Zenon DEF AtLevel
  <2>2. X = IF p = 1 \/ e = <<>> THEN {u} ELSE {}
    BY Zenon DEF AtLevel
  <2>3. p = 1 \/ e = <<>> => X = {u}
    BY <2>2
  <2>4. ~ (p = 1 \/ e = <<>>) => X = {}
    BY <2>2
  <2> QED BY Zenon, <2>1, <2>3, <2>4
<1>0a. q = AfterIndex(op, e, u, p)
  BY DEF Goes
<1>1. Shape(node, R) /\ Fit(u, node[u]) /\ P[1].blk = Root /\ op \in Ops
  <2>1. Shape(node, R) /\ P[1].blk = Root /\ op \in Ops
    BY DEF Bent, Tree, Linked, Changed
  <2> QED BY <2>1 DEF Shape
<1>2. k \in Nat /\ m + 1 = k /\ (k # 1 => m \in Nat /\ m \in 1 .. Len(P) - 1 /\ k \in 2 .. Len(P) /\ k > 1) /\ (k = 1 => ~ (k > 1))
  <2> DEFINE N == Len(P)
  <2>1. N \in Nat /\ k \in 1 .. N /\ m = k - 1
    OBVIOUS
  <2> HIDE DEF N, m
  <2>2. k \in Nat /\ m + 1 = k /\ (k # 1 => m \in Nat /\ m \in 1 .. N - 1 /\ k \in 2 .. N /\ k > 1) /\ (k = 1 => ~ (k > 1))
    BY <2>1
  <2> QED BY <2>2 DEF N
<1>3. Linked(node, R, P, m) /\ op.lvl - 1 = m
  BY <1>0
<1> HIDE DEF m
<1>4. CASE e = <<>> /\ u # Root
  <2>1. k # 1
    BY <1>0, <1>1, <1>4
  <2>2. q = ToIndex(op, m)
    BY <1>0a, <1>3, <1>4 DEF AfterIndex
  <2>3. Carried(op, q) /\ q.pc = "index" /\ q.path = P /\ q.lvl = m
    BY <1>0, <1>1, <1>2, <2>1, <2>2, ToIndexIs
  <2>4. Bent(node, R, f, view, op, {u}) /\ u = P[m + 1].blk /\ node[u].ents = <<>>
    BY Zenon, <1>0, <1>2, <1>4
  <2>5. m \in 1 .. Len(P) - 1
    BY <1>2, <2>1
  <2> QED BY <2>5, <2>3, <2>4, <1>3, IndexOn
<1>5. CASE p = 1 /\ e # <<>> /\ k # 1
  <2>1. e[1].first \in LBlocks
    <3>1. 1 \in 1 .. Len(node[u].ents)
      BY <1>0, <1>1, <1>5, NodeIs
    <3>2. node[u].ents[1].first \in LBlocks
      BY Zenon, <3>1, <1>1, EntryIs
    <3> QED BY <3>2, <1>0
  <2>2. q = ToKey(op, k, e[1].first)
    BY <1>0, <1>0a, <1>2, <1>5 DEF AfterIndex
  <2>3. Carried(op, q) /\ q.pc = "fix" /\ q.path = op.path /\ q.lvl = k /\ q.key = e[1].first
    BY <1>1, <1>2, <2>1, <2>2, ToKeyIs
  <2>4. Bent(node, R, f, view, op, {u}) /\ k \in 2 .. Len(P) /\ Linked(node, R, P, k - 1)
    BY Zenon, <1>0, <1>2, <1>5
  <2>5. q.path = P /\ q.key = node[u].ents[1].first /\ node[u].ents # <<>> /\ u = P[k].blk
    BY <2>3, <1>0, <1>5
  <2> QED BY <2>3, <2>4, <2>5, FixOn
<1>6. CASE e # <<>> /\ ~ (p = 1 /\ k # 1)
  <2>1. q = Resume(op)
    BY <1>0, <1>0a, <1>2, <1>6 DEF AfterIndex
  <2>2. Bent(node, R, f, view, op, {})
    <3>1. CASE p = 1
      <4>1. u = Root /\ Bent(node, R, f, view, op, {Root})
        BY Zenon, <3>1, <1>0, <1>1, <1>6
      <4> QED BY Zenon, <4>1, <1>1, NeatRoot DEF Bent
    <3>2. CASE p # 1
      BY Zenon, <3>2, <1>0, <1>6
    <3> QED BY <3>1, <3>2
  <2> QED BY <2>1, <2>2, ResumeOn
<1> QED BY <1>4, <1>5, <1>6

(* remove_index frees the child. *)
LEMMA RemoveIndexFreeOn ==
  ASSUME Typed(node, free, op), NEW R \in SUBSET Places, Fits(node, R, free, view, op), RemoveIndexFree
  PROVE  Onward(view, op, node', free', view', op')
<1> DEFINE P == op.path
           k == op.lvl
           u == P[k].blk
           p == P[k].pos
           c == P[k].ent.child
           e == node[u].ents
           f == free \cup {c}
           X == IF p = 1 \/ e = <<>> THEN {u} ELSE {}
<1>1. op.pc = "indexfree" /\ view' = Seen(view, node', op')
  <2>1. op.pc = "indexfree" /\ Step
    BY Zenon DEF RemoveIndexFree
  <2> QED BY <2>1 DEF Step, Seen
<1>2. /\ Changed(view, op) /\ Shape(node, R) /\ PathKept(node, R, op) /\ Tree(node, R) /\ Neat(node, R, Odd(node, op))
      /\ Reads(node, FixMap(view, op)) /\ Owned(R, free, Loose(op), FixMap(view, op))
      /\ op \in Ops /\ Len(P) \in Nat /\ k \in Nat /\ P \in Seq(PathSteps) /\ op.kind = "remove"
  BY <1>1, LevelNow
<1>3. /\ k \in 1 .. Len(P) /\ Linked(node, R, P, k - 1) /\ u \in R /\ c \in Blocks
      /\ Odd(node, op) = X
  BY <1>1, <1>2 DEF PathKept, Odd
<1>4. Loose(op) = {c}
  BY <1>1, <1>2 DEF Loose, Changed
<1>5. node \in [Places -> Nodes] /\ free \in SUBSET Blocks
  BY DEF Typed
<1>6. X = (IF p = 1 \/ e = <<>> THEN {u} ELSE {})
  OBVIOUS
<1>7. \/ /\ free' = f
         /\ op' = IF e = <<>> /\ ~ (e = <<>> /\ u = Root) THEN ToIndex(op, op.lvl - 1)
                  ELSE IF p = 1 /\ e # <<>> /\ op.lvl > 1 THEN [op EXCEPT !.pc = "fix", !.key = e[1].first]
                  ELSE Resume(op)
         /\ node' = IF e = <<>> /\ u = Root THEN [node EXCEPT ![Root].depth = 0] ELSE node
      \/ op' = Fail(op, "EIO") /\ node' = node /\ free' = free
  BY Zenon DEF RemoveIndexFree, disk, ToIndex
<1>8. Bent(node, R, f, view, op, X)
  <2> HIDE DEF X, c
  <2>1. Neat(node, R, X) /\ Owned(R, free, {c}, FixMap(view, op))
    BY <1>2, <1>3, <1>4
  <2> QED BY <2>1, <1>2, <1>3, <1>5, ChildFree
<1>9. ASSUME op' = Fail(op, "EIO"), node' = node, free' = free PROVE Onward(view, op, node', free', view', op')
  <2>1. op.pc \in LivePcs /\ "EIO" \in Errors \ {"EOK"} /\ free' \in SUBSET Blocks
    BY <1>1, <1>5, <1>9 DEF LivePcs, RemovePcs, Errors
  <2> QED BY <2>1, <1>1, <1>9, FailStill
<1>10. [op EXCEPT !.pc = "fix", !.key = e[1].first] = ToKey(op, op.lvl, e[1].first)
  <2> DEFINE g == e[1].first
  <2> HIDE DEF g, e
  <2>1. [op EXCEPT !.pc = "fix", !.key = g] = ToKey(op, op.lvl, g)
    BY Zenon, <1>2 DEF ToKey, Ops
  <2> QED BY <2>1 DEF g
<1>11. ASSUME free' = f, e = <<>>, u = Root, node' = [node EXCEPT ![Root].depth = 0], op' = Resume(op)
       PROVE  Onward(view, op, node', free', view', op')
  <2> DEFINE t == [depth |-> 0, ents |-> <<>>]
             md == [node EXCEPT ![Root] = t]
             q == Resume(op)
             x == Seen(view, md, q)
  <2>1. node' = md
    <3> DEFINE g == node[Root]
    <3>1. g = [depth |-> g.depth, ents |-> g.ents] /\ g.ents = <<>>
      <4>1. Fit(Root, g)
        BY <1>2 DEF Shape
      <4> QED BY <4>1, <1>11, NodeIs
    <3>2. node' = [node EXCEPT ![Root] = [g EXCEPT !.depth = 0]]
      BY <1>11
    <3> HIDE DEF g
    <3>3. [g EXCEPT !.depth = 0] = t
      BY <3>1
    <3> QED BY Zenon, <3>2, <3>3
  <2>2. t \in Nodes
    <3>1. <<>> \in Seq(Extents)
      OBVIOUS
    <3> QED BY <3>1, SizeAssumption DEF Nodes, Leaves
  <2>3. Root \in Places /\ md = [node EXCEPT ![Root] = t] /\ t = [depth |-> 0, ents |-> <<>>]
    BY DEF Places
  <2>4. q = Resume(op) /\ x = Seen(view, md, q)
    OBVIOUS
  <2>5. x = view' /\ q = op'
    BY Zenon, <1>1, <1>11, <2>1
  <2> HIDE DEF t, md, q, x, f, X
  <2>6. Put(node, Root, t, md)
    BY Zenon, <2>2, <2>3, <1>5, PutIs
  <2>7. Bent(md, R, f, view, op, {})
    BY <2>3, <2>6, <1>8, <1>11, CollapseBent
  <2>8. Onward(view, op, md, f, x, q)
    BY <2>4, <2>7, <1>2, ResumeOn
  <2> QED BY <2>1, <2>5, <2>8, <1>11
<1>12. ASSUME free' = f, ~ (e = <<>> /\ u = Root), node' = node, NEW q, q = AfterIndex(op, e, u, p), op' = q
       PROVE  Onward(view, op, node', free', view', op')
  <2> DEFINE x == Seen(view, node, q)
  <2>1. x = Seen(view, node, q) /\ x = view'
    BY <1>1, <1>12
  <2>2. AtLevel(P, k, u, p, e, X) /\ Goes(q, e, u, p)
    BY <1>12 DEF AtLevel, Goes
  <2> HIDE DEF x, f, X, P, k, u, p, e
  <2>3. Onward(view, op, node, f, x, q)
    <3>1. Changed(view, op) /\ op.kind = "remove" /\ k \in 1 .. Len(P) /\ Len(P) \in Nat /\ Linked(node, R, P, k - 1) /\ u \in R
      BY <1>2, <1>3
    <3> QED BY Zenon, <3>1, <1>8, <1>12, <2>1, <2>2, AfterIndexOn
  <2> QED BY Zenon, <2>1, <2>3, <1>12
<1> DEFINE q == AfterIndex(op, e, u, p)
<1>13. q = (IF e = <<>> /\ ~ (e = <<>> /\ u = Root) THEN ToIndex(op, op.lvl - 1)
                  ELSE IF p = 1 /\ e # <<>> /\ op.lvl > 1 THEN [op EXCEPT !.pc = "fix", !.key = e[1].first]
                  ELSE Resume(op))
  <2> HIDE DEF e, u, p
  <2> QED BY <1>10 DEF AfterIndex
<1>14. e = <<>> /\ u = Root => q = Resume(op)
  BY DEF AfterIndex
<1>15. q = AfterIndex(op, e, u, p)
  OBVIOUS
<1> HIDE DEF q, e, u, p, f, k, P
<1> QED BY <1>7, <1>9, <1>11, <1>12, <1>13, <1>14, <1>15

-----------------------------------------------------------------------------
(* Splitting a node. *)

LowHalf(n, m) == [depth |-> n.depth, ents |-> SubSeq(n.ents, 1, m)]
HighHalf(n, m) == [depth |-> n.depth, ents |-> SubSeq(n.ents, m + 1, Len(n.ents))]

(* The node s to be split, before its entry m + 1, and its entry p of u. *)
Splits(u, p, s, m) ==
    /\ s = op.path[op.lvl].blk /\ m = SplitMid(op.path[op.lvl].cnt)
    /\ u = op.path[op.lvl - 1].blk /\ p = op.path[op.lvl - 1].pos

(* The two halves are nodes. *)
LEMMA HalfNodes ==
  ASSUME NEW b, NEW n, Fit(b, n), NEW m \in 1 .. Len(n.ents) - 1
  PROVE  /\ LowHalf(n, m) \in Nodes /\ HighHalf(n, m) \in Nodes /\ Fit(b, LowHalf(n, m))
         /\ n.ents[m + 1].first \in LBlocks /\ m + 1 \in 1 .. Len(n.ents)
<1> DEFINE lo == LowHalf(n, m)
           hi == HighHalf(n, m)
           k == n.ents[m + 1].first
<1>1. lo = [depth |-> n.depth, ents |-> SubSeq(n.ents, 1, m)] /\ hi = [depth |-> n.depth, ents |-> SubSeq(n.ents, m + 1, Len(n.ents))]
  BY DEF LowHalf, HighHalf
<1>2. k = n.ents[m + 1].first
  OBVIOUS
<1>3. m + 1 \in 1 .. Len(n.ents)
  <2> DEFINE N == Len(n.ents)
  <2>1. N \in Nat /\ m \in 1 .. N - 1
    BY NodeIs
  <2> HIDE DEF N
  <2>2. m + 1 \in 1 .. N
    BY <2>1
  <2> QED BY <2>2 DEF N
<1> HIDE DEF lo, hi, k
<1>4. Halved(b, n, m, k, lo, hi)
  BY Zenon, <1>1, <1>2, Halves
<1>5. Fit(b, lo) /\ Fit(b, hi) /\ k \in LBlocks
  BY <1>4 DEF Halved
<1>6. lo \in Nodes /\ hi \in Nodes
  BY <1>5, NodeIs
<1> QED BY <1>3, <1>5, <1>6 DEF lo, hi, k

(* What holds while a node is split. *)
LEMMA SplitNow ==
  ASSUME Typed(node, free, op), NEW R \in SUBSET Places, Fits(node, R, free, view, op), op.pc \in SplitPcs,
         NEW u, NEW p, NEW s, NEW m, Splits(u, p, s, m)
  PROVE  /\ u \in R /\ s \in R /\ s # Root /\ s \in Blocks /\ Slot(node, u, p, s) /\ Fit(s, node[s]) /\ Fit(u, node[u])
         /\ op.path[op.lvl].cnt = Len(node[s].ents) /\ op.path[op.lvl].depth = node[s].depth
         /\ op.path[op.lvl - 1].cnt = Len(node[u].ents) /\ op.path[op.lvl - 1].depth = node[u].depth
         /\ Len(node[u].ents) < MaxEntries(u) /\ m \in 1 .. Len(node[s].ents) - 1
         /\ op.lvl \in 2 .. Len(op.path)
<1> DEFINE P == FindPath(node, Key(op))
           v == op.lvl
<1>1. op.pc \in CalmPcs
  BY DEF CalmPcs
<1>2. /\ op \in Ops /\ Shape(node, R) /\ PathKept(node, R, op) /\ Key(op) \in LBlocks
  BY <1>1, CalmNow
<1>3. /\ op.path = P /\ v \in 2 .. Len(op.path) /\ op.path[v].cnt >= NodeMax
      /\ op.path[v - 1].cnt < MaxEntries(op.path[v - 1].blk)
  BY <1>2 DEF PathKept
<1>4. P \in Walks(node, R, Key(op))
  BY <1>2, PathIs
<1>5. /\ Len(P) \in Nat \ {0}
      /\ \A k \in 1 .. Len(P) :
            /\ P[k].blk \in R /\ P[k].depth = node[P[k].blk].depth
            /\ P[k].cnt = Len(node[P[k].blk].ents) /\ P[k].cnt \in Nat
            /\ P[k].cnt > 0 => P[k].pos \in 1 .. P[k].cnt /\ P[k].ent = node[P[k].blk].ents[P[k].pos]
      /\ \A k \in 1 .. Len(P) - 1 :
            P[k + 1].blk = P[k].ent.child /\ P[k].depth > 0 /\ P[k].cnt > 0
  <2> HIDE DEF Walks, P
  <2> QED BY <1>2, <1>4, WalkIs
<1> DEFINE w == v - 1
           N == Len(P)
<1>6. N \in Nat /\ v \in 2 .. N
  BY <1>3, <1>5
<1>7. w \in 1 .. N /\ w \in 1 .. N - 1 /\ w + 1 = v /\ v \in 1 .. N
  <2> HIDE DEF N
  <2> QED BY <1>6
<1> HIDE DEF w, N
<1>8. s = P[v].blk /\ u = P[w].blk /\ p = P[w].pos /\ m = SplitMid(P[v].cnt)
  BY <1>3 DEF Splits, w
<1>9. /\ u \in R /\ s \in R /\ P[v].cnt = Len(node[s].ents) /\ P[v].depth = node[s].depth /\ P[v].cnt \in Nat
      /\ P[w].cnt = Len(node[u].ents) /\ P[w].depth = node[u].depth /\ P[w].cnt \in Nat
      /\ p \in 1 .. P[w].cnt /\ P[w].ent = node[u].ents[p] /\ s = P[w].ent.child /\ P[w].depth > 0
  BY Zenon, <1>5, <1>7, <1>8 DEF N
<1>10. Slot(node, u, p, s)
  BY <1>9 DEF Slot
<1>11. m \in 1 .. Len(node[s].ents) - 1
  <2> DEFINE c == P[v].cnt
  <2>1. c \in Nat /\ c >= NodeMax /\ m = c \div 2
    <3>1. m = SplitMid(c)
      BY <1>8
    <3>2. c \in Nat /\ c >= NodeMax
      BY <1>3, <1>9
    <3> HIDE DEF c
    <3> QED BY <3>1, <3>2 DEF SplitMid
  <2> HIDE DEF c
  <2>2. m \in 1 .. c - 1
    BY <2>1, CapacityAssumption
  <2> QED BY <2>2, <1>9 DEF c
<1>12. s # Root /\ s \in Blocks
  BY <1>2, <1>9, <1>10, SlotIs
<1>13. Fit(s, node[s]) /\ Fit(u, node[u])
  BY <1>2, <1>9 DEF Shape
<1>14. Len(node[u].ents) < MaxEntries(u)
  <2>1. P[w].cnt < MaxEntries(P[w].blk)
    <3>1. op.path[v - 1].cnt < MaxEntries(op.path[v - 1].blk)
      BY <1>3
    <3>2. op.path = P /\ w = v - 1
      BY <1>3 DEF w
    <3> HIDE DEF P, v
    <3> QED BY <3>1, <3>2
  <2> HIDE DEF P
  <2>2. P[w].blk = u /\ P[w].cnt = Len(node[u].ents)
    <3>1. P[w].blk = u
      BY Zenon, <1>8
    <3>2. P[w].cnt = Len(node[u].ents)
      BY Zenon, <1>9
    <3> QED BY Zenon, <3>1, <3>2
  <2> QED BY <2>1, <2>2
<1> QED BY <1>3, <1>9, <1>10, <1>11, <1>12, <1>13, <1>14 DEF w

ToSplit(o, k) == [o EXCEPT !.pc = "splitindex", !.key = k]

(* split_full_node: the upper half is copied. *)
LEMMA SplitRightOn ==
  ASSUME Typed(node, free, op), NEW R \in SUBSET Places, Fits(node, R, free, view, op), SplitRight
  PROVE  Onward(view, op, node', free', view', op')
<1> DEFINE s == op.path[op.lvl].blk
           m == SplitMid(op.path[op.lvl].cnt)
           u == op.path[op.lvl - 1].blk
           p == op.path[op.lvl - 1].pos
           k == node[s].ents[m + 1].first
           q == ToSplit(op, k)
           n == HighHalf(node[s], m)
           g == [depth |-> op.path[op.lvl].depth, ents |-> SubSeq(node[s].ents, m + 1, op.path[op.lvl].cnt)]
<1>1. op.pc = "splitright" /\ free' = free /\ view' = Seen(view, node', op')
  <2>1. op.pc = "splitright" /\ free' = free /\ Step
    BY Zenon DEF SplitRight
  <2> QED BY <2>1 DEF Step, Seen
<1>1a. \E b \in op.fresh : Write(b, g, q)
  BY Zenon DEF SplitRight, ToSplit
<1>1b. g = [depth |-> op.path[op.lvl].depth, ents |-> SubSeq(node[s].ents, m + 1, op.path[op.lvl].cnt)]
  OBVIOUS
<1>2. op.pc \in CalmPcs /\ op.pc \in FreshPcs /\ op.pc \in SplitPcs
  BY <1>1 DEF CalmPcs, SplitPcs, FreshPcs
<1>3. /\ op \in Ops /\ Calm(node, R, free, view, op) /\ node \in [Places -> Nodes] /\ Numbers(node, view, op)
      /\ Loose(op) = op.fresh \cup OpBlocks(op) /\ Shape(node, R) /\ PathKept(node, R, op) /\ Key(op) \in LBlocks
  BY <1>2, CalmNow
<1>4. (\E b \in Blocks : op.fresh = {b}) /\ op.fresh \cap OpBlocks(op) = {}
  BY <1>1, <1>2, <1>3 DEF Numbers
<1>4a. Splits(u, p, s, m)
  BY DEF Splits
<1>4b. k = node[s].ents[m + 1].first /\ q = ToSplit(op, k) /\ n = HighHalf(node[s], m)
  OBVIOUS
<1> HIDE DEF s, m, u, p, k, q, n, g
<1>5. /\ u \in R /\ s \in R /\ s # Root /\ s \in Blocks /\ Slot(node, u, p, s) /\ Fit(s, node[s])
      /\ op.path[op.lvl].cnt = Len(node[s].ents) /\ op.path[op.lvl].depth = node[s].depth
      /\ m \in 1 .. Len(node[s].ents) - 1 /\ op.lvl \in 2 .. Len(op.path)
  BY <1>2, <1>4a, SplitNow
<1>6. n = [depth |-> op.path[op.lvl].depth, ents |-> SubSeq(node[s].ents, m + 1, op.path[op.lvl].cnt)]
  BY <1>4b, <1>5 DEF HighHalf
<1>7. PICK b \in op.fresh : Write(b, n, q)
  BY <1>1a, <1>1b, <1>6
<1>8. n \in Nodes /\ k \in LBlocks
  BY <1>4b, <1>5, HalfNodes
<1>9. q \in Ops /\ q.pc = "splitindex" /\ Alike(op, q) /\ q.fresh = op.fresh /\ q.path = op.path /\ q.lvl = op.lvl /\ q.key = k
  BY Zenon, <1>3, <1>4b, <1>8 DEF ToSplit, Ops, Pcs, Alike
<1> DEFINE md == [node EXCEPT ![b] = n]
<1>10. md = [node EXCEPT ![b] = n] /\ b \in Loose(op) /\ b \in Places /\ b \in Blocks /\ op.fresh = {b}
  BY <1>3, <1>4 DEF Places
<1> HIDE DEF md
<1>11. Put(node, b, n, md)
  BY Zenon, <1>3, <1>8, <1>10, PutIs
<1>12. md[b] = n /\ b \notin R /\ (\A x \in R : md[x] = node[x]) /\ (\A l \in LBlocks : FindPath(md, l) = FindPath(node, l))
  BY <1>3, <1>10, <1>11, OffTree
<1>13. Numbers(md, view, q)
  <2>1. /\ q.pc \in {"room"} \cup GrowPcs \cup SplitPcs /\ op.pc \in {"room"} \cup GrowPcs \cup SplitPcs
        /\ q.pc \in FreshPcs /\ q.pc \notin GrowPcs /\ q.pc \notin {"growput", "growroot"}
    BY <1>1, <1>9 DEF GrowPcs, SplitPcs, FreshPcs
  <2> QED BY Zenon, <2>1, <1>3, <1>4, <1>9, AlikeNumbers
<1>14. PathKept(md, R, q)
  <2>1. /\ op.path = FindPath(node, Key(op)) /\ op.lvl \in 2 .. Len(op.path) /\ op.path[op.lvl].cnt >= NodeMax
        /\ op.path[op.lvl - 1].cnt < MaxEntries(op.path[op.lvl - 1].blk)
    BY <1>2, <1>3 DEF PathKept
  <2>2. Key(q) = Key(op)
    BY <1>9, AlikeIs
  <2>3. q.path = FindPath(md, Key(q))
    BY <2>1, <2>2, <1>3, <1>9, <1>12
  <2>4. md[s] = node[s]
    BY <1>5, <1>12
  <2>5. s = q.path[q.lvl].blk /\ m = SplitMid(q.path[q.lvl].cnt) /\ q.path[q.lvl].cnt = Len(md[s].ents)
        /\ q.path[q.lvl].depth = md[s].depth
    BY <2>4, <1>5, <1>9 DEF s, m
  <2>6. q.key = md[s].ents[m + 1].first
    BY <2>4, <1>4b, <1>9
  <2>7. \A c \in q.fresh : md[c] = [depth |-> q.path[q.lvl].depth, ents |-> SubSeq(md[s].ents, m + 1, q.path[q.lvl].cnt)]
    BY Zenon, <2>4, <1>6, <1>9, <1>10, <1>12
  <2>8. q.lvl \in 2 .. Len(q.path) /\ q.path[q.lvl].cnt >= NodeMax
        /\ q.path[q.lvl - 1].cnt < MaxEntries(q.path[q.lvl - 1].blk)
    BY <2>1, <1>9
  <2>9. q.pc \notin LeafPcs /\ q.pc \notin {"splitleft", "fix", "index", "indexfree"}
    BY <1>9 DEF LeafPcs
  <2> DEFINE t == q.path[q.lvl]
             mid == SplitMid(t.cnt)
             e == md[t.blk].ents
             half == [depth |-> t.depth, ents |-> SubSeq(e, mid + 1, t.cnt)]
  <2>10. t.blk = s /\ mid = m /\ q.key = e[mid + 1].first
    BY <2>5, <2>6
  <2>11. half = [depth |-> t.depth, ents |-> SubSeq(md[s].ents, m + 1, t.cnt)]
    BY <2>10
  <2>12. \A c \in q.fresh : md[c] = half
    <3>1. ASSUME NEW c \in q.fresh PROVE md[c] = [depth |-> t.depth, ents |-> SubSeq(md[s].ents, m + 1, t.cnt)]
      BY Zenon, <2>7
    <3> HIDE DEF half
    <3> QED BY Zenon, <3>1, <2>11
  <2>13. LET r == q.path[q.lvl]
             i == SplitMid(r.cnt)
         IN  /\ q.key = md[r.blk].ents[i + 1].first
             /\ \A c \in q.fresh : md[c] = [depth |-> r.depth, ents |-> SubSeq(md[r.blk].ents, i + 1, r.cnt)]
    BY Zenon, <2>10, <2>12
  <2> HIDE DEF t, mid, e, half
  <2> QED BY Zenon, <2>3, <2>8, <2>9, <2>13 DEF PathKept
<1>15. q.pc \in CalmPcs
  BY <1>9 DEF CalmPcs, SplitPcs
<1>16. b \in Loose(op) /\ md = [node EXCEPT ![b] = n] /\ Write(b, n, q)
  BY <1>7, <1>10
<1> QED BY Zenon, <1>1, <1>2, <1>8, <1>9, <1>13, <1>14, <1>15, <1>16, CalmWriteOn

(* The parent with an entry for the upper half. *)
LinkedHalf(n, p, k, f) == [depth |-> n.depth, ents |-> InsertAt(n.ents, p + 1, [first |-> k, child |-> f])]
Middle(n, m, k) == k = n.ents[m + 1].first
BothRead(nd, md, wd) == \A l \in LBlocks : Lookup(md, l) = Lookup(nd, l) /\ Lookup(wd, l) = Lookup(nd, l)

(* SplitTree with its nodes written one after the other. *)
LEMMA SplitWhole ==
  ASSUME NEW nd, nd \in [Places -> Nodes], NEW R, Tree(nd, R), Neat(nd, R, {}), NEW u \in R, NEW p, NEW s, Slot(nd, u, p, s),
         Len(nd[u].ents) < MaxEntries(u), NEW m \in 1 .. Len(nd[s].ents) - 1, NEW k, Middle(nd[s], m, k),
         NEW f \in Blocks, f \notin R, nd[f] = HighHalf(nd[s], m), NEW t, t = LinkedHalf(nd[u], p, k, f),
         NEW md, Put(nd, u, t, md), NEW a, a = LowHalf(nd[s], m), NEW wd, Put(md, s, a, wd)
  PROVE  Tree(wd, R \cup {f}) /\ Neat(wd, R \cup {f}, {}) /\ SameLookups(nd, wd) /\ SplitLeaves(wd, u, p, s, k)
<1>1. Shape(nd, R) /\ R \in SUBSET Places
  BY DEF Tree, Shape
<1>2. s \in R /\ s # Root /\ nd[s].depth < nd[u].depth /\ s # u
  <2>1. s \in R /\ s # Root /\ nd[s].depth < nd[u].depth
    BY <1>1, SlotIs
  <2>2. nd[s].depth \in Nat /\ nd[u].depth \in Nat
    BY <1>1, <2>1, DepthIs
  <2> QED BY <2>1, <2>2
<1>3. wd \in [Places -> Nodes] /\ wd[s] = a /\ wd[u] = t
  <2>1. u \in Places
    BY <1>1
  <2> QED BY <2>1, <1>2 DEF Put
<1>4. wd[f] = HighHalf(nd[s], m)
  <2>1. f \in Places /\ f # u /\ f # s
    BY <1>2 DEF Places
  <2> QED BY <2>1 DEF Put
<1>5. \A x \in R \ {s, u} : wd[x] = nd[x]
  <2> SUFFICES ASSUME NEW x \in R \ {s, u} PROVE wd[x] = nd[x]
    OBVIOUS
  <2>1. x \in Places
    BY <1>1
  <2> QED BY <2>1 DEF Put
<1>6. /\ wd[s] = [depth |-> nd[s].depth, ents |-> SubSeq(nd[s].ents, 1, m)]
      /\ wd[f] = [depth |-> nd[s].depth, ents |-> SubSeq(nd[s].ents, m + 1, Len(nd[s].ents))]
      /\ wd[u] = [depth |-> nd[u].depth, ents |-> InsertAt(nd[u].ents, p + 1, [first |-> k, child |-> f])]
  BY <1>3, <1>4 DEF LowHalf, HighHalf, LinkedHalf
<1>7. k = nd[s].ents[m + 1].first
  BY DEF Middle
<1>8. SplitInto(nd, R, u, p, s, m, k, f, wd)
  BY <1>5, <1>6, <1>7 DEF SplitInto
<1> QED BY Zenon, <1>3, <1>8, SplitTree

(* ... and before the lower node is shortened. *)
LEMMA SplitHalfway ==
  ASSUME NEW nd, nd \in [Places -> Nodes], NEW R, Tree(nd, R), Neat(nd, R, {}), NEW u \in R, NEW p, NEW s, Slot(nd, u, p, s),
         Len(nd[u].ents) < MaxEntries(u), NEW m \in 1 .. Len(nd[s].ents) - 1, NEW k, Middle(nd[s], m, k),
         NEW f \in Blocks, f \notin R, nd[f] = HighHalf(nd[s], m), NEW t, t = LinkedHalf(nd[u], p, k, f),
         NEW md, Put(nd, u, t, md), NEW a, a = LowHalf(nd[s], m), NEW wd, Put(md, s, a, wd)
  PROVE  Tree(wd, R \cup {f}) /\ Neat(wd, R \cup {f}, {}) /\ BothRead(nd, md, wd)
<1> DEFINE Q == R \cup {f}
           n == nd[s]
<1>1. Tree(wd, Q) /\ Neat(wd, Q, {}) /\ SameLookups(nd, wd) /\ SplitLeaves(wd, u, p, s, k)
  BY Zenon, SplitWhole
<1>2. Shape(nd, R) /\ R \in SUBSET Places
  BY DEF Tree, Shape
<1>3. s \in R /\ s # Root /\ s # u /\ Fit(s, n) /\ u \in Places /\ s \in Places
  <2>1. s \in R /\ s # Root /\ nd[s].depth < nd[u].depth
    BY <1>2, SlotIs
  <2>2. nd[s].depth \in Nat /\ nd[u].depth \in Nat /\ Fit(s, n) /\ u \in Places /\ s \in Places
    BY <1>2, <2>1, DepthIs
  <2> QED BY <2>1, <2>2
<1>4. wd[s] = [depth |-> n.depth, ents |-> SubSeq(n.ents, 1, m)] /\ n.ents[m + 1].first = k
  BY <1>3 DEF Put, LowHalf, Middle
<1>5. \A x \in R : wd[x].depth = nd[x].depth
  <2> SUFFICES ASSUME NEW x \in R PROVE wd[x].depth = nd[x].depth
    OBVIOUS
  <2>1. x \in Places
    BY <1>2
  <2>2. CASE x = s
    BY <2>2, <1>4
  <2>3. CASE x # s
    <3>1. wd[x] = md[x]
      BY <2>1, <2>3 DEF Put
    <3>2. CASE x = u
      BY <3>1, <3>2 DEF Put, LinkedHalf
    <3>3. CASE x # u
      BY <3>1, <3>3, <2>1 DEF Put
    <3> QED BY <3>2, <3>3
  <2> QED BY <2>2, <2>3
<1>6. n.depth > 0 => \A q \in 1 .. Len(n.ents) : n.ents[q].child \in Q \ {Root} /\ wd[n.ents[q].child].depth = n.depth - 1
  <2> SUFFICES ASSUME n.depth > 0, NEW q \in 1 .. Len(n.ents)
               PROVE n.ents[q].child \in Q \ {Root} /\ wd[n.ents[q].child].depth = n.depth - 1
    OBVIOUS
  <2>1. n.ents[q].child \in R \ {Root} /\ nd[n.ents[q].child].depth = n.depth - 1
    BY <1>2, <1>3 DEF Shape
  <2> QED BY <2>1, <1>5
<1>7. Put(wd, s, n, md)
  <2>1. md \in [Places -> Nodes] /\ md[s] = n
    BY <1>3 DEF Put
  <2>2. \A x \in Places \ {s} : md[x] = wd[x]
    BY DEF Put
  <2> QED BY <2>1, <2>2 DEF Put
<1> HIDE DEF Q, n
<1>8. SameLookups(wd, md)
  <2>1. u \in Q /\ m \in 1 .. Len(n.ents) - 1
    BY DEF Q, n
  <2>2. HalfKept(wd, Q, s, n, m, k)
    BY <1>4, <1>6 DEF HalfKept
  <2> QED BY <2>1, <2>2, <1>1, <1>3, <1>7, HalfDone
<1> QED BY <1>1, <1>8 DEF BothRead, SameLookups, Q

(* Entry p of u is the last one that is not above k. *)
SplitSlot(n, p, k, u) ==
    /\ Cardinality({q \in 1 .. Len(n.ents) : n.ents[q].first <= k}) = p
    /\ n.ents[p].first # k /\ k \in LBlocks /\ p \in Nat
    /\ \A f \in Blocks : Len(n.ents) < MaxEntries(u) => LinkedHalf(n, p, k, f) \in Nodes

(* The entry for the upper half goes behind the one for the node. *)
LEMMA SplitPlace ==
  ASSUME NEW nd, NEW R, Tree(nd, R), Neat(nd, R, {}), NEW u \in R, NEW p, NEW s, Slot(nd, u, p, s),
         NEW m \in 1 .. Len(nd[s].ents) - 1, NEW k, Middle(nd[s], m, k)
  PROVE  SplitSlot(nd[u], p, k, u)
<1> DEFINE n == nd[u]
           N == Len(n.ents)
           S == {q \in 1 .. N : n.ents[q].first <= k}
<1>1. Shape(nd, R)
  BY DEF Tree
<1>2. k \in LBlocks /\ n.ents[p].first < k /\ \A q \in p + 1 .. N : k < n.ents[q].first
  <2>1. k = nd[s].ents[m + 1].first
    BY DEF Middle
  <2> QED BY <2>1, SplitKey
<1>3. Fit(u, n) /\ N \in Nat /\ p \in 1 .. N /\ p \in Nat /\ k \in Int
  <2>1. Fit(u, n) /\ N \in Nat /\ p \in 1 .. N
    BY <1>1, SlotIs, DepthIs
  <2> QED BY <2>1, <1>2, Width
<1>4. \A q \in 1 .. N : n.ents[q].first \in Int
  <2> SUFFICES ASSUME NEW q \in 1 .. N PROVE n.ents[q].first \in Int
    OBVIOUS
  <2>1. n.ents[q].first \in LBlocks
    BY Zenon, <1>3, EntryIs
  <2> QED BY <2>1, Width
<1>5. \A q \in 1 .. N : q < p => n.ents[q].first < n.ents[p].first
  BY <1>3 DEF Fit, Keyed
<1> HIDE DEF N
<1>6. S = 1 .. p
  <2>1. ASSUME NEW q \in 1 .. N PROVE (n.ents[q].first <= k) <=> (q <= p)
    <3> DEFINE g == n.ents[q].first
               h == n.ents[p].first
    <3>1. g \in Int /\ h \in Int /\ h < k
      BY <1>2, <1>3, <1>4
    <3>2. q > p => k < g
      <4>1. q > p => q \in p + 1 .. N
        BY <1>3
      <4> QED BY <4>1, <1>2
    <3>3. q < p => g < h
      BY <1>5
    <3>4. q = p => g = h
      OBVIOUS
    <3> HIDE DEF g, h
    <3>5. (g <= k) <=> (q <= p)
      BY <3>1, <3>2, <3>3, <3>4, <1>3
    <3> QED BY <3>5 DEF g
  <2> QED BY <2>1, <1>3
<1>7. Cardinality(1 .. p) = p
  <2> DEFINE one == 1
  <2>1. one \in Int /\ p \in Int
    BY <1>3
  <2>2. Cardinality(one .. p) = IF one > p THEN 0 ELSE p - one + 1
    <3> HIDE DEF one
    <3> QED BY <2>1, FS_Interval
  <2> QED BY <2>2, <1>3
<1>8. Cardinality(S) = p
  BY Zenon, <1>6, <1>7
<1>9. n.ents[p].first # k
  BY <1>2, <1>3, <1>4
<1>10. ASSUME NEW f \in Blocks, N < MaxEntries(u) PROVE LinkedHalf(n, p, k, f) \in Nodes
  <2> DEFINE i == [first |-> k, child |-> f]
             t == [depth |-> n.depth, ents |-> InsertAt(n.ents, p + 1, i)]
  <2>1. n.depth # 0
    <3>1. n.depth \in 1 .. MaxDepth
      BY <1>1, SlotIs
    <3> QED BY <3>1
  <2>2. i = [first |-> k, child |-> f] /\ t = [depth |-> n.depth, ents |-> InsertAt(n.ents, p + 1, i)]
    OBVIOUS
  <2> HIDE DEF i, t
  <2>3. Inserted(u, n, p, k, f, i, t)
    BY Zenon, <2>1, <2>2, <1>2, <1>3, <1>10, IndexInsert DEF N
  <2>4. t \in Nodes
    BY <2>3, NodeIs DEF Inserted
  <2> QED BY <2>4 DEF LinkedHalf, t, i
<1> QED BY <1>2, <1>3, <1>8, <1>9, <1>10 DEF N, SplitSlot

ToLeft(o) == [o EXCEPT !.pc = "splitleft", !.fresh = {}]

CutNode(md, o) == [md EXCEPT ![o.path[o.lvl].blk].ents = SubSeq(@, 1, SplitMid(o.path[o.lvl].cnt))]
LeftTo(o, q) == q = ToLeft(o)
LeftNode(o, s) == s = o.path[o.lvl].blk
LeftView(vw, md, q, x) == x = Seen(vw, md, q)
HalfAdded(R, f, Q) == Q = R \cup {f}
CutIs(md, o, wd) == wd = CutNode(md, o)
OnlyFresh(o, f) == o.fresh = {f}

(* The upper half is linked, the node not yet shortened. *)
LEMMA SplitLeftNext ==
  ASSUME NEW vw, NEW o \in Ops, NEW R, NEW fr, NEW f \in Blocks, NEW nd, Numbers(nd, vw, o), OnlyFresh(o, f), o.pc = "splitindex",
         o.kind \in {"get", "remove"}, Owned(R, fr, Loose(o), Base(vw, o)), NEW Q, HalfAdded(R, f, Q), R \in SUBSET Places,
         NEW s, LeftNode(o, s), s \in R, s # Root, o.lvl \in 2 .. Len(o.path), fr \in SUBSET Blocks,
         NEW md, md \in [Places -> Nodes], NEW wd, CutIs(md, o, wd),
         Tree(wd, Q), Neat(wd, Q, {}), Reads(md, Base(vw, o)), Reads(wd, Base(vw, o)),
         NEW q, LeftTo(o, q), NEW x, LeftView(vw, md, q, x)
  PROVE  Onward(vw, o, md, fr, x, q)
<1>0. \A b : b \in o.fresh <=> b = f
  BY DEF OnlyFresh
<1>0a. s = o.path[o.lvl].blk
  BY DEF LeftNode
<1>1. q \in Ops /\ q.pc = "splitleft" /\ q.fresh = {} /\ Alike(o, q) /\ q.path = o.path /\ q.lvl = o.lvl /\ q.kind = o.kind
  BY Zenon DEF LeftTo, ToLeft, Ops, Pcs, Alike
<1>2. OpBlocks(q) = OpBlocks(o) /\ Base(vw, q) = Base(vw, o)
  BY <1>1, AlikeIs
<1>3. Loose(q) = Loose(o) \ {f} /\ f \in Loose(o) /\ Target(vw, q) = Base(vw, q) /\ Kept(vw, q) = Base(vw, q) /\ Odd(md, q) = {}
  <2>1. f \notin OpBlocks(o)
    BY <1>0 DEF Numbers
  <2>2. Loose(o) = o.fresh \cup OpBlocks(o)
    BY DEF Loose, OpBlocks
  <2>3. Loose(q) = OpBlocks(o)
    BY <1>1, <1>2 DEF Loose, OpBlocks
  <2>4. Target(vw, q) = Base(vw, q) /\ Kept(vw, q) = Base(vw, q) /\ Odd(md, q) = {}
    BY <1>1 DEF Target, Kept, Base, Odd
  <2> QED BY <2>1, <2>2, <2>3, <2>4, <1>0
<1>4. Whole(md, q) = wd
  <2>1. CutNode(md, q) = CutNode(md, o)
    BY Zenon, <1>1 DEF CutNode
  <2>2. Whole(md, q) = CutNode(md, q)
    BY Zenon, <1>1 DEF CutNode, Whole
  <2> QED BY Zenon, <2>1, <2>2 DEF CutIs
<1>5. Owned(Q, fr, Loose(q), Kept(vw, q))
  <2> DEFINE X == Loose(o)
             w == Base(vw, o)
  <2>1. Owned(R, fr, X, w) /\ f \in X
    BY <1>3
  <2> HIDE DEF X, w
  <2>2. Owned(R \cup {f}, fr, X \ {f}, w)
    BY <2>1, OwnNode
  <2> QED BY <2>2, <1>2, <1>3 DEF X, w, HalfAdded
<1>6. Numbers(md, vw, q)
  <2>1. GetNumbers(vw, o) => GetNumbers(vw, q)
    BY <1>1 DEF Alike, GetNumbers, GetPcs, GrowPcs, SplitPcs
  <2>2. RemoveNumbers(o) => RemoveNumbers(q)
    BY <1>1 DEF Alike, RemoveNumbers, RemovePcs, GrowPcs, SplitPcs, LeafPcs
  <2>3. q.pc \notin FreshPcs /\ q.pc \notin GrowPcs /\ q.pc \notin {"growput", "growroot"}
    BY <1>1 DEF FreshPcs, GrowPcs
  <2> QED BY <2>1, <2>2, <2>3, <1>1, <1>2 DEF Numbers, Alike
<1>7. PathKept(md, Q, q)
  <2>1. s \in Q
    BY DEF HalfAdded
  <2> QED BY <2>1, <1>0a, <1>1 DEF PathKept, SplitPcs, LeafPcs
<1>8. /\ Tree(Whole(md, q), Q) /\ Neat(Whole(md, q), Q, Odd(md, q)) /\ q.kind \in {"get", "remove"}
      /\ Reads(md, Target(vw, q)) /\ Reads(Whole(md, q), Target(vw, q))
  BY <1>1, <1>2, <1>3, <1>4
<1>9. Busy(md, Q, fr, vw, q)
  BY <1>5, <1>6, <1>7, <1>8 DEF Busy, Reads
<1>10. Typed(md, fr, q) /\ q.pc \in LivePcs /\ Q \in SUBSET Places
  BY <1>1 DEF Typed, LivePcs, GetPcs, Places, HalfAdded
<1>11. x = Seen(vw, md, q)
  BY DEF LeftView
<1> QED BY <1>9, <1>10, <1>11, LiveOn

(* What insert_index_entry writes, and into which node. *)
LEMMA SplitIndexIs ==
  ASSUME Typed(node, free, op), NEW R \in SUBSET Places, Fits(node, R, free, view, op), SplitIndex,
         NEW u, NEW p, NEW s, NEW m, Splits(u, p, s, m)
  PROVE  /\ Middle(node[s], m, op.key) /\ free' = free /\ view' = Seen(view, node', op')
         /\ \E f \in Blocks : /\ OnlyFresh(op, f) /\ node[f] = HighHalf(node[s], m)
                              /\ LinkedHalf(node[u], p, op.key, f) \in Nodes
                              /\ Write(u, LinkedHalf(node[u], p, op.key, f), ToLeft(op))
<1> DEFINE n == node[u]
           k == op.key
           c == op.path[op.lvl - 1].cnt
           i == Cardinality({q \in 1 .. c : n.ents[q].first <= k}) + 1
           stale == Len(n.ents) # c \/ n.depth # op.path[op.lvl - 1].depth \/ ~ ValidEntries(n)
           dup == i > 1 /\ n.ents[i - 1].first = k
           g(b) == [n EXCEPT !.ents = InsertAt(@, i, [first |-> k, child |-> b])]
<1>1. op.pc = "splitindex" /\ free' = free /\ view' = Seen(view, node', op')
  <2>1. op.pc = "splitindex" /\ free' = free /\ Step
    BY Zenon DEF SplitIndex
  <2> QED BY <2>1 DEF Step, Seen
<1>2. op.pc \in CalmPcs /\ op.pc \in FreshPcs /\ op.pc \in SplitPcs
  BY <1>1 DEF CalmPcs, SplitPcs, FreshPcs
<1>3. /\ op \in Ops /\ Tree(node, R) /\ Neat(node, R, {}) /\ Numbers(node, view, op) /\ PathKept(node, R, op)
  BY <1>2, CalmNow
<1>4. s = op.path[op.lvl].blk /\ m = SplitMid(op.path[op.lvl].cnt) /\ u = op.path[op.lvl - 1].blk
  BY DEF Splits
<1>5. /\ u \in R /\ s \in R /\ Slot(node, u, p, s) /\ Fit(s, node[s]) /\ Fit(u, n)
      /\ op.path[op.lvl].cnt = Len(node[s].ents) /\ op.path[op.lvl].depth = node[s].depth
      /\ c = Len(n.ents) /\ op.path[op.lvl - 1].depth = n.depth
      /\ Len(n.ents) < MaxEntries(u) /\ m \in 1 .. Len(node[s].ents) - 1
  BY <1>2, SplitNow
<1>6. IF u # Root /\ stale THEN op' = Fail(op, "EIO") /\ UNCHANGED <<node, faults>>
      ELSE IF dup THEN op' = Fail(op, "EEXIST") /\ UNCHANGED <<node, faults>>
      ELSE \E b \in op.fresh : Write(u, g(b), ToLeft(op))
  BY Zenon, <1>4 DEF SplitIndex, ToLeft
<1>7. LET r == op.path[op.lvl]
          mid == SplitMid(r.cnt)
      IN  /\ op.key = node[r.blk].ents[mid + 1].first
          /\ \A b \in op.fresh : node[b] = [depth |-> r.depth, ents |-> SubSeq(node[r.blk].ents, mid + 1, r.cnt)]
  BY Zenon, <1>1, <1>3 DEF PathKept
<1>8. k = node[s].ents[m + 1].first
  BY Zenon, <1>4, <1>7
<1>9. \A b \in op.fresh : node[b] = HighHalf(node[s], m)
  <2>1. ASSUME NEW b \in op.fresh PROVE node[b] = [depth |-> op.path[op.lvl].depth, ents |-> SubSeq(node[s].ents, m + 1, op.path[op.lvl].cnt)]
    BY Zenon, <1>4, <1>7
  <2>2. op.path[op.lvl].depth = node[s].depth /\ op.path[op.lvl].cnt = Len(node[s].ents)
    BY <1>5
  <2> HIDE <1>7
  <2> QED BY Zenon, <2>1, <2>2 DEF HighHalf
<1> HIDE <1>7, <1>6 DEF n, k, c, stale, dup, g
<1>10. Middle(node[s], m, k)
  BY <1>8 DEF Middle
<1>11. /\ Cardinality({q \in 1 .. Len(n.ents) : n.ents[q].first <= k}) = p /\ n.ents[p].first # k /\ p \in Nat
       /\ \A f \in Blocks : Len(n.ents) < MaxEntries(u) => LinkedHalf(n, p, k, f) \in Nodes
  <2>1. Slot(node, u, p, s) /\ m \in 1 .. Len(node[s].ents) - 1 /\ u \in R
    BY <1>5
  <2>2. SplitSlot(node[u], p, k, u)
    BY Zenon, <1>3, <1>10, <2>1, SplitPlace
  <2>3. SplitSlot(n, p, k, u)
    BY <2>2 DEF n
  <2> QED BY <2>3 DEF SplitSlot
<1>12. i = p + 1
  <2>1. c = Len(n.ents)
    BY <1>5 DEF n, c
  <2> QED BY <2>1, <1>11
<1> HIDE DEF i
<1>13. ~ stale /\ ~ dup
  <2>1. ~ stale
    <3>1. ValidEntries(n)
      BY <1>5, FitValid
    <3> QED BY <3>1, <1>5 DEF stale, c, n
  <2>2. ~ dup
    BY <1>11, <1>12 DEF dup
  <2> QED BY <2>1, <2>2
<1>14. PICK f \in op.fresh : Write(u, g(f), ToLeft(op))
  BY <1>6, <1>13
<1>15. f \in Blocks /\ OnlyFresh(op, f)
  BY <1>1, <1>2, <1>3 DEF Numbers, OnlyFresh
<1>16. g(f) = LinkedHalf(n, p, k, f)
  <2>1. n = [depth |-> n.depth, ents |-> n.ents]
    BY <1>5, NodeIs
  <2> DEFINE t == InsertAt(n.ents, i, [first |-> k, child |-> f])
  <2>2. g(f) = [n EXCEPT !.ents = t]
    BY Zenon DEF g
  <2>3. LinkedHalf(n, p, k, f) = [depth |-> n.depth, ents |-> t]
    BY Zenon, <1>12 DEF LinkedHalf
  <2> HIDE DEF t, g
  <2>4. [n EXCEPT !.ents = t] = [depth |-> n.depth, ents |-> t]
    <3> DEFINE d == n.depth
               e == n.ents
    <3>1. n = [depth |-> d, ents |-> e]
      BY <2>1
    <3> HIDE DEF d, e
    <3>2. n.depth = d
      BY <3>1
    <3>3. [n EXCEPT !.ents = t] = [depth |-> d, ents |-> t]
      BY <3>1
    <3> QED BY <3>2, <3>3
  <2> QED BY <2>2, <2>3, <2>4
<1>17. LinkedHalf(n, p, k, f) \in Nodes
  BY <1>5, <1>11, <1>15 DEF n
<1>18. Write(u, LinkedHalf(n, p, k, f), ToLeft(op)) /\ node[f] = HighHalf(node[s], m)
  BY <1>9, <1>14, <1>16
<1> QED BY <1>1, <1>10, <1>15, <1>17, <1>18 DEF n, k

(* split_full_node: the upper half is linked. *)
LEMMA SplitIndexOn ==
  ASSUME Typed(node, free, op), NEW R \in SUBSET Places, Fits(node, R, free, view, op), SplitIndex
  PROVE  Onward(view, op, node', free', view', op')
<1> DEFINE s == op.path[op.lvl].blk
           m == SplitMid(op.path[op.lvl].cnt)
           u == op.path[op.lvl - 1].blk
           p == op.path[op.lvl - 1].pos
           q == ToLeft(op)
           a == LowHalf(node[s], m)
           w == Base(view, op)
<1>1. Splits(u, p, s, m) /\ LeftNode(op, s) /\ LeftTo(op, q) /\ a = LowHalf(node[s], m)
  BY DEF Splits, LeftNode, LeftTo
<1>1a. s = op.path[op.lvl].blk /\ m = SplitMid(op.path[op.lvl].cnt)
  OBVIOUS
<1>2. op.pc = "splitindex"
  BY Zenon DEF SplitIndex
<1> HIDE DEF s, m, u, p, q, a
<1>3. op.pc \in CalmPcs /\ op.pc \in SplitPcs
  BY <1>2 DEF CalmPcs, SplitPcs
<1>4. /\ op \in Ops /\ Tree(node, R) /\ Neat(node, R, {}) /\ Numbers(node, view, op) /\ Owned(R, free, Loose(op), w)
      /\ node \in [Places -> Nodes] /\ free \in SUBSET Blocks /\ op.kind \in {"get", "remove"}
      /\ OthersKept(node, view, op) /\ OpBlocks(op) \subseteq Blocks /\ Loose(op) = op.fresh \cup OpBlocks(op)
      /\ \A l \in LBlocks : Lookup(node, l) = w[l]
  BY <1>3, CalmNow
<1>5. /\ u \in R /\ s \in R /\ s # Root /\ Slot(node, u, p, s) /\ Fit(s, node[s])
      /\ Len(node[u].ents) < MaxEntries(u) /\ m \in 1 .. Len(node[s].ents) - 1 /\ op.lvl \in 2 .. Len(op.path)
  BY <1>1, <1>3, SplitNow
<1>6. Middle(node[s], m, op.key) /\ free' = free /\ view' = Seen(view, node', op')
  BY <1>1, SplitIndexIs
<1>7. PICK f \in Blocks : /\ OnlyFresh(op, f) /\ node[f] = HighHalf(node[s], m)
                          /\ LinkedHalf(node[u], p, op.key, f) \in Nodes
                          /\ Write(u, LinkedHalf(node[u], p, op.key, f), q)
  BY <1>1, SplitIndexIs DEF q
<1> DEFINE t == LinkedHalf(node[u], p, op.key, f)
           md == [node EXCEPT ![u] = t]
           wd == [md EXCEPT ![s] = a]
           Q == R \cup {f}
<1>8. t = LinkedHalf(node[u], p, op.key, f) /\ t \in Nodes /\ Write(u, t, q)
  BY <1>7
<1>9. md = [node EXCEPT ![u] = t]
  OBVIOUS
<1>10. wd = [md EXCEPT ![s] = a]
  OBVIOUS
<1>11. HalfAdded(R, f, Q)
  BY DEF HalfAdded
<1> HIDE DEF w, t, md, wd
<1>12. f \in Loose(op) /\ f \notin R
  <2>1. f \in Loose(op)
    BY <1>4, <1>7 DEF OnlyFresh
  <2> QED BY <2>1, <1>4 DEF Owned
<1>13. u \in Places /\ s \in Places /\ u # s
  <2>1. Shape(node, R)
    BY <1>4 DEF Tree
  <2>2. u \in Places /\ s \in Places
    BY <1>5
  <2>3. node[s].depth < node[u].depth
    BY <2>1, <1>5, SlotIs
  <2>4. node[s].depth \in Nat
    BY <2>1, <1>5, DepthIs
  <2> QED BY <2>2, <2>3, <2>4
<1>14. Put(node, u, t, md) /\ md \in [Places -> Nodes]
  <2>1. Put(node, u, t, md)
    BY Zenon, <1>4, <1>8, <1>9, <1>13, PutIs
  <2> QED BY <2>1 DEF Put
<1>15. a \in Nodes
  BY <1>1, <1>5, HalfNodes
<1>16. Put(md, s, a, wd)
  BY Zenon, <1>10, <1>13, <1>14, <1>15, PutIs
<1>17. Tree(wd, Q) /\ Neat(wd, Q, {}) /\ BothRead(node, md, wd)
  <2>1. /\ Tree(node, R) /\ Neat(node, R, {}) /\ u \in R /\ Slot(node, u, p, s) /\ Len(node[u].ents) < MaxEntries(u)
        /\ m \in 1 .. Len(node[s].ents) - 1 /\ Middle(node[s], m, op.key) /\ f \in Blocks /\ f \notin R
        /\ node[f] = HighHalf(node[s], m) /\ node \in [Places -> Nodes]
    BY <1>4, <1>5, <1>6, <1>7, <1>12
  <2> QED BY Zenon, <2>1, <1>1, <1>8, <1>14, <1>16, SplitHalfway
<1>18. CutIs(md, op, wd)
  <2> DEFINE e == [md[s] EXCEPT !.ents = SubSeq(@, 1, m)]
  <2>1. CutNode(md, op) = [md EXCEPT ![s] = e]
    BY Zenon, <1>1a DEF CutNode
  <2>2. e = a
    <3> DEFINE n == node[s]
               h == SubSeq(n.ents, 1, m)
    <3>1. md[s] = n
      BY <1>13, <1>14 DEF Put
    <3>2. n = [depth |-> n.depth, ents |-> n.ents]
      BY <1>5, NodeIs
    <3>3. e = [n EXCEPT !.ents = h]
      BY Zenon, <3>1
    <3>4. a = [depth |-> n.depth, ents |-> h]
      BY Zenon, <1>1 DEF LowHalf
    <3> HIDE DEF n, h, e
    <3>5. [n EXCEPT !.ents = h] = [depth |-> n.depth, ents |-> h]
      <4> DEFINE x == n.depth
                 y == n.ents
      <4>1. n = [depth |-> x, ents |-> y]
        BY <3>2
      <4> HIDE DEF x, y
      <4>2. n.depth = x /\ [n EXCEPT !.ents = h] = [depth |-> x, ents |-> h]
        BY <4>1
      <4> QED BY <4>2
    <3> QED BY <3>3, <3>4, <3>5
  <2> HIDE DEF e
  <2> QED BY <2>1, <2>2, <1>10 DEF CutIs
<1>19. Reads(md, w) /\ Reads(wd, w) /\ OthersKept(md, view, op)
  <2>1. \A l \in LBlocks : Lookup(md, l) = Lookup(node, l) /\ Lookup(wd, l) = Lookup(node, l)
    BY <1>17 DEF BothRead
  <2>2. Reads(md, w) /\ Reads(wd, w)
    BY <2>1, <1>4 DEF Reads
  <2>3. OthersKept(md, view, op)
    BY <2>1, <1>4 DEF OthersKept
  <2> QED BY <2>2, <2>3
<1> DEFINE x == Seen(view, md, q)
<1>20. LeftView(view, md, q, x)
  BY DEF LeftView
<1> HIDE DEF x, Q
<1>21. Onward(view, op, md, free, x, q)
  <2>1. Owned(R, free, Loose(op), Base(view, op)) /\ Reads(md, Base(view, op)) /\ Reads(wd, Base(view, op))
    BY <1>4, <1>19 DEF w
  <2> QED BY Zenon, <2>1, <1>1, <1>2, <1>4, <1>5, <1>7, <1>11, <1>14, <1>17, <1>18, <1>20, SplitLeftNext
<1>22. Onward(view, op, md, free, Seen(view, md, q), q)
  BY <1>21 DEF x
<1> QED BY Zenon, <1>4, <1>6, <1>8, <1>9, <1>13, <1>19, <1>22, WriteOn

RoomAgain(o) == [o EXCEPT !.pc = "room"]

(* The node has been shortened. *)
LEMMA SplitLeftDone ==
  ASSUME NEW vw, NEW o \in Ops, NEW nd, NEW R, NEW fr, R \in SUBSET Places, fr \in SUBSET Blocks, o.pc = "splitleft",
         Busy(nd, R, fr, vw, o), NEW md, md \in [Places -> Nodes], md = Whole(nd, o), NEW q, q = RoomAgain(o),
         NEW x, LeftView(vw, md, q, x)
  PROVE  Onward(vw, o, md, fr, x, q)
<1>1. q \in Ops /\ q.pc = "room" /\ Alike(o, q) /\ q.fresh = o.fresh
  BY Zenon DEF RoomAgain, Ops, Pcs, Alike
<1>2. o.kind \in {"get", "remove"} /\ Numbers(nd, vw, o)
      /\ Tree(md, R) /\ Neat(md, R, Odd(nd, o)) /\ Owned(R, fr, Loose(o), Kept(vw, o))
      /\ \A l \in LBlocks : Lookup(md, l) = Target(vw, o)[l]
  BY DEF Busy
<1>3. Odd(nd, o) = {} /\ Target(vw, o) = Base(vw, o) /\ Kept(vw, o) = Base(vw, o) /\ Base(vw, q) = Base(vw, o)
  <2>1. Base(vw, q) = Base(vw, o)
    BY <1>1, AlikeIs
  <2> QED BY <2>1 DEF Odd, Target, Kept, Base
<1>4. o.fresh = {} /\ Loose(q) = Loose(o) /\ OpBlocks(q) = OpBlocks(o)
  <2>1. o.fresh = {}
    BY <1>2 DEF Numbers, FreshPcs
  <2>2. OpBlocks(q) = OpBlocks(o)
    BY <1>1, AlikeIs
  <2> QED BY <2>1, <2>2, <1>1 DEF Loose, OpBlocks, Alike
<1>5. Numbers(md, vw, q)
  <2>1. GetNumbers(vw, o) => GetNumbers(vw, q)
    BY <1>1 DEF Alike, GetNumbers, GetPcs, GrowPcs, SplitPcs
  <2>2. RemoveNumbers(o) => RemoveNumbers(q)
    BY <1>1 DEF Alike, RemoveNumbers, RemovePcs, GrowPcs, SplitPcs, LeafPcs
  <2>3. q.pc \notin FreshPcs /\ q.pc \notin GrowPcs /\ q.pc \notin {"growput", "growroot"}
    BY <1>1 DEF FreshPcs, GrowPcs
  <2> QED BY <2>1, <2>2, <2>3, <1>1, <1>2, <1>4 DEF Numbers, Alike
<1>6. PathKept(md, R, q)
  BY <1>1 DEF PathKept, SplitPcs, LeafPcs
<1>7. q.pc \in CalmPcs /\ q.pc \in LivePcs
  BY <1>1 DEF CalmPcs, LivePcs, GetPcs
<1>8. Calm(md, R, fr, vw, q)
  BY <1>2, <1>3, <1>4 DEF Calm
<1>9. q.kind \in {"get", "remove"}
  BY <1>1, <1>2 DEF Alike
<1>10. Busy(md, R, fr, vw, q)
  BY <1>5, <1>6, <1>7, <1>8, <1>9, CalmIs
<1>11. Typed(md, fr, q)
  BY <1>1, <1>4 DEF Typed
<1>12. x = Seen(vw, md, q)
  BY DEF LeftView
<1> QED BY <1>7, <1>10, <1>11, <1>12, LiveOn

(* split_full_node: the node is shortened. *)
LEMMA SplitLeftOn ==
  ASSUME Typed(node, free, op), NEW R \in SUBSET Places, Fits(node, R, free, view, op), SplitLeft
  PROVE  Onward(view, op, node', free', view', op')
<1> DEFINE s == op.path[op.lvl].blk
           n == [node[s] EXCEPT !.ents = SubSeq(@, 1, SplitMid(op.path[op.lvl].cnt))]
           q == RoomAgain(op)
           md == [node EXCEPT ![s] = n]
           x == Seen(view, md, q)
<1>1. op.pc = "splitleft" /\ free' = free /\ view' = Seen(view, node', op')
  <2>1. op.pc = "splitleft" /\ free' = free /\ Step
    BY Zenon DEF SplitLeft
  <2> QED BY <2>1 DEF Step, Seen
<1>2. Write(s, n, q)
  BY Zenon DEF SplitLeft, RoomAgain
<1>3. md = Whole(node, op)
  BY Zenon, <1>1 DEF Whole
<1>4. md = [node EXCEPT ![s] = n] /\ q = RoomAgain(op) /\ x = Seen(view, md, q) /\ LeftView(view, md, q, x)
  BY DEF LeftView
<1>5. op.pc \in LivePcs
  BY <1>1 DEF LivePcs, GetPcs
<1>6. /\ op \in Ops /\ node \in [Places -> Nodes] /\ free \in SUBSET Blocks
      /\ Busy(node, R, free, view, op) /\ OthersKept(node, view, op) /\ OpBlocks(op) \subseteq Blocks
  <2>1. op \in Ops
    BY DEF Typed
  <2> QED BY <2>1, <1>5, LiveIs DEF Typed
<1>6a. PathKept(node, R, op)
  BY <1>6 DEF Busy
<1>7. s \in R /\ s \in Places
  <2> HIDE DEF n, q, md, x
  <2> QED BY <1>1, <1>6a DEF PathKept
<1>8. Tree(md, R) /\ Reads(md, Target(view, op))
  BY Zenon, <1>3, <1>6 DEF Busy, Reads
<1> HIDE DEF s, n, q, md, x
<1>9. md[s] = n
  BY <1>4, <1>6, <1>7
<1>10. n \in Nodes
  <2>1. Fit(s, md[s])
    BY <1>7, <1>8 DEF Tree, Shape
  <2> QED BY <2>1, <1>9, NodeIs
<1>11. md \in [Places -> Nodes]
  BY Zenon, <1>4, <1>6, <1>10
<1>12. OthersKept(md, view, op)
  BY <1>8, TargetKept DEF OthersKept, Reads
<1>13. Onward(view, op, md, free, x, q)
  BY Zenon, <1>1, <1>3, <1>4, <1>6, <1>11, SplitLeftDone
<1>14. Onward(view, op, md, free, Seen(view, md, q), q)
  BY <1>4, <1>13
<1> QED BY Zenon, <1>1, <1>2, <1>4, <1>6, <1>7, <1>10, <1>12, <1>14, WriteOn

-----------------------------------------------------------------------------
(* Errors, and the end of an operation. *)

(* A node cannot be read. *)
LEMMA ReadFailsOn ==
  ASSUME Typed(node, free, op), NEW R \in SUBSET Places, Fits(node, R, free, view, op), ReadFails
  PROVE  Onward(view, op, node', free', view', op')
<1>1. op.pc \in LivePcs
  BY DEF ReadFails, LivePcs, GetPcs, RemovePcs, SplitPcs, LeafPcs
<1>2. op' = Fail(op, "EIO") /\ node' = node /\ free' = free /\ view' = Seen(view, node', op')
  BY DEF ReadFails, disk, Step, Seen
<1>3. "EIO" \in Errors \ {"EOK"} /\ free' \in SUBSET Blocks
  BY <1>2 DEF Errors, Typed
<1> QED BY <1>1, <1>2, <1>3, FailStill

(* The error returns on the way out. *)
LEMMA UndoOn ==
  ASSUME Typed(node, free, op), NEW R \in SUBSET Places, Fits(node, R, free, view, op), Undo
  PROVE  Onward(view, op, node', free', view', op')
<1>1. op.pc = "undo" /\ node' = node /\ view' = Seen(view, node', op')
  BY DEF Undo, Step, Seen
<1>2. op' = [op EXCEPT !.pc = "done", !.fresh = {}, !.cnt = 0]
  BY DEF Undo
<1>3. op \in Ops /\ node \in [Places -> Nodes] /\ free \in SUBSET Blocks
  BY DEF Typed
<1>4. OthersKept(node, view, op) /\ op.res # "EOK" /\ OpBlocks(op) \subseteq Blocks
  BY <1>1 DEF Fits, Returned
<1>5. op' \in Ops /\ op'.pc = "done" /\ op'.fresh = {} /\ op'.res = op.res /\ op'.lo = op.lo /\ op'.hi = op.hi
  BY Zenon, <1>2, <1>3 DEF Ops, Pcs
<1>6. free' \in SUBSET Blocks
  <2>1. op.fresh \in SUBSET Blocks
    BY <1>3, OpIs
  <2> QED BY <2>1, <1>3, <1>4 DEF Undo
<1>7. view' = view
  BY <1>1, <1>4, <1>5 DEF Seen, Returned
<1>8. OthersKept(node', view', op')
  BY <1>1, <1>4, <1>5, <1>7 DEF OthersKept
<1>9. Fits(node', R, free', view', op')
  BY <1>4, <1>5, <1>8 DEF Fits, Returned, LivePcs, GetPcs, RemovePcs, GrowPcs, SplitPcs, LeafPcs
<1> QED BY <1>1, <1>3, <1>5, <1>6, <1>7, <1>9 DEF Onward, Took, Typed

(* No operation is in progress. *)
LEMMA IdleFits ==
  ASSUME NEW nd, NEW R, NEW fr, NEW m, Sound(nd, R, fr, m)
  PROVE  Typed(nd, fr, IdleOp) /\ R \in SUBSET Places /\ Fits(nd, R, fr, m, IdleOp) /\ m \in AllMaps
<1>1. nd \in [Places -> Nodes] /\ R \in SUBSET Places
  BY DEF Sound, Tree, Shape
<1>2. fr \in SUBSET Blocks /\ m \in AllMaps
  BY DEF Sound, Owned
<1>3. IdleOp \in Ops /\ IdleOp.pc = "idle" /\ IdleOp.fresh = {}
  BY Width DEF IdleOp, Ops, Pcs, Errors
<1>4. Fits(nd, R, fr, m, IdleOp)
  BY <1>3 DEF Fits, Returned, LivePcs, GetPcs, RemovePcs, GrowPcs, SplitPcs, LeafPcs
<1> QED BY <1>1, <1>2, <1>3, <1>4 DEF Typed

(* Commit forgets the content of free blocks, which no tree has. *)
LEMMA ReuseSound ==
  ASSUME NEW nd, NEW R, NEW fr, NEW m, Sound(nd, R, fr, m)
  PROVE  Sound(Reuse(nd, fr), R, fr, m) /\ MapOf(Reuse(nd, fr)) = m
<1> DEFINE md == Reuse(nd, fr)
<1>1. Tree(nd, R) /\ Neat(nd, R, {}) /\ Owned(R, fr, {}, m) /\ \A l \in LBlocks : Lookup(nd, l) = m[l]
  BY DEF Sound
<1>2. nd \in [Places -> Nodes] /\ R \in SUBSET Places
  BY <1>1 DEF Tree, Shape
<1>3. md = [b \in Blocks \cup {Root} |-> IF b \in fr THEN Garbage ELSE nd[b]]
  BY DEF Reuse
<1> HIDE DEF md
<1>4. md \in [Places -> Nodes]
  BY <1>2, <1>3 DEF Places, Nodes
<1>5. \A b \in R : md[b] = nd[b]
  <2> SUFFICES ASSUME NEW b \in R PROVE md[b] = nd[b]
    OBVIOUS
  <2>1. b \notin fr /\ b \in Places
    BY <1>1, <1>2 DEF Owned
  <2> QED BY <2>1, <1>3 DEF Places
<1>6. Tree(md, R) /\ Neat(md, R, {}) /\ \A l \in LBlocks : Lookup(md, l) = Lookup(nd, l)
  BY <1>1, <1>4, <1>5, SameTree
<1>7. Sound(md, R, fr, m)
  BY <1>1, <1>6 DEF Sound
<1>8. MapOf(md) = m
  <2>1. m \in [LBlocks -> Blocks \cup {Hole}]
    BY <1>1 DEF Owned, AllMaps
  <2>2. m = [l \in LBlocks |-> m[l]]
    BY <2>1
  <2>3. \A l \in LBlocks : Lookup(md, l) = m[l]
    BY <1>1, <1>6
  <2> QED BY <2>2, <2>3 DEF MapOf
<1> QED BY <1>7, <1>8 DEF md

(* The map that has taken in an operation's range is a map. *)
LEMMA TookMap ==
  ASSUME NEW vw \in AllMaps, NEW o \in Ops, NEW x, Took(vw, o, x)
  PROVE  x \in AllMaps
<1>1. CASE x = vw
  BY <1>1
<1>2. CASE GetNumbers(vw, o) /\ o.cnt = o.hi - o.lo + 1 /\ x = Filled(vw, o)
  <2>1. o.lo \in Int /\ o.hi \in Nat /\ o.first \in Nat /\ o.cnt \in Nat /\ NBlocks \in Nat
    BY OpIs, SizeAssumption
  <2>2. ASSUME NEW l \in LBlocks, l \in o.lo .. o.hi PROVE o.first + (l - o.lo) \in Blocks
    <3>1. o.first + o.cnt - 1 <= NBlocks /\ (o.cnt > 0 => o.first \in Blocks) /\ o.cnt = o.hi - o.lo + 1
      BY <1>2 DEF GetNumbers
    <3>2. l \in Int /\ o.lo <= l /\ l <= o.hi
      BY <2>1, <2>2
    <3> QED BY <2>1, <3>1, <3>2 DEF Blocks
  <2>3. \A l \in LBlocks : vw[l] \in Blocks \cup {Hole}
    BY DEF AllMaps
  <2> QED BY <1>2, <2>2, <2>3 DEF Filled, AllMaps
<1>3. CASE x = Clear(vw, o, o.hi + 1)
  BY <1>3 DEF Clear, AllMaps
<1> QED BY <1>1, <1>2, <1>3 DEF Took

-----------------------------------------------------------------------------
(* The steps together. *)

Spent == faults' = faults \/ (faults > 0 /\ faults' = faults - 1)

(* What the steps of an operation leave alone. *)
Paced == saved' = saved /\ load' = load /\ journaled' = journaled /\ nops' = nops /\ ntxn' = ntxn /\ Spent

(* A write, a free and an allocation inject at most one failure. *)
LEMMA WriteSpends ==
  ASSUME NEW b, NEW n, NEW o, Write(b, n, o)
  PROVE  Spent
BY DEF Write, Spent

(* ... the same of the allocator's calls ... *)
LEMMA FreeSpends ==
  ASSUME NEW S, NEW o, Free(S, o) \/ AllocMeta(o)
  PROVE  Spent
BY DEF Free, AllocMeta, Spent

(* ... and of a change of a leaf. *)
LEMMA InsertSpends ==
  ASSUME NEW path, NEW e, InsertNew(path, e)
  PROVE  Spent
<1>1. \E b, n, o : Write(b, n, o)
  BY Zenon DEF InsertNew
<1> QED BY <1>1, WriteSpends

(* ... of a merge ... *)
LEMMA MergeSpends ==
  ASSUME NEW leaf, NEW p, NEW left, NEW right, MergeAt(leaf, p, left, right)
  PROVE  Spent
<1>1. \E b, n, o : Write(b, n, o)
  BY Zenon DEF MergeAt
<1> QED BY <1>1, WriteSpends

(* ... and of the cut in the middle of an extent. *)
LEMMA MiddleSpends ==
  ASSUME NEW path, RemoveMiddlePut(path)
  PROVE  Spent
<1>1. UNCHANGED <<node, faults>> \/ \E b, n, o : Write(b, n, o)
  BY Zenon DEF RemoveMiddlePut
<1> QED BY <1>1, WriteSpends DEF Spent

(* Step leaves everything else alone. *)
LEMMA StepPaces ==
  ASSUME Step, Spent
  PROVE  Paced /\ view' = Seen(view, node', op')
BY DEF Step, Paced, given, Seen

(* Every step of an operation is such a step. *)
LEMMA OpPaces ==
  ASSUME OpStep \/ ReadFails
  PROVE  Paced /\ view' = Seen(view, node', op')
<1>1. Step
  <2>1. AllocBlock \/ InsertExtent \/ EnsureInsertRoom \/ GrowAlloc \/ GrowPut \/ GrowRoot => Step
    BY Zenon DEF AllocBlock, InsertExtent, EnsureInsertRoom, GrowAlloc, GrowPut, GrowRoot
  <2>2. SplitAlloc \/ SplitRight \/ SplitIndex \/ SplitLeft \/ CorrectIndexes => Step
    BY Zenon DEF SplitAlloc, SplitRight, SplitIndex, SplitLeft, CorrectIndexes
  <2>3. RemoveLoop \/ RemoveLeafFree \/ RemoveLeafPut \/ RemoveIndex \/ RemoveIndexFree \/ RemoveMiddleFree \/ Undo => Step
    BY Zenon DEF RemoveLoop, RemoveLeafFree, RemoveLeafPut, RemoveIndex, RemoveIndexFree, RemoveMiddleFree, Undo
  <2>4. ReadFails => Step
    BY Zenon DEF ReadFails
  <2> QED BY <2>1, <2>2, <2>3, <2>4 DEF OpStep
<1>2. Spent
  <2> DEFINE idle == UNCHANGED <<node, faults>>
             calm == UNCHANGED <<free, faults>>
             Wrote == \E b, n, o : Write(b, n, o)
             Freed == \E S, o : Free(S, o) \/ AllocMeta(o)
             Put1 == \E path, e : InsertNew(path, e)
             Put2 == \E leaf, p, left, right : MergeAt(leaf, p, left, right)
             Put3 == \E path : RemoveMiddlePut(path)
  <2>0. idle \/ calm \/ Wrote \/ Freed \/ Put1 \/ Put2 \/ Put3 \/ (UNCHANGED faults) => Spent
    <3>1. Wrote \/ Freed => Spent
      BY WriteSpends, FreeSpends
    <3>2. Put1 \/ Put2 \/ Put3 => Spent
      BY InsertSpends, MergeSpends, MiddleSpends
    <3> QED BY <3>1, <3>2 DEF Spent
  <2>1. CASE AllocBlock \/ Undo \/ ReadFails \/ GrowRoot
    <3>1. AllocBlock => Spent
      BY Zenon DEF AllocBlock, Spent
    <3>2. Undo \/ ReadFails \/ GrowRoot => Spent
      BY Zenon DEF Undo, ReadFails, GrowRoot, Spent
    <3> QED BY <2>1, <3>1, <3>2
  <2>2. InsertExtent => idle \/ Put1 \/ Put2
    BY Zenon DEF InsertExtent
  <2>3. EnsureInsertRoom => idle \/ Put1 \/ Put3
    BY Zenon DEF EnsureInsertRoom
  <2>4. GrowAlloc \/ SplitAlloc => calm \/ Freed
    BY Zenon DEF GrowAlloc, SplitAlloc
  <2>5. GrowPut \/ SplitRight \/ SplitLeft \/ CorrectIndexes => Wrote
    BY Zenon DEF GrowPut, SplitRight, SplitLeft, CorrectIndexes
  <2>6. SplitIndex => idle \/ Wrote
    BY Zenon DEF SplitIndex
  <2>7. RemoveLoop => idle \/ Put3 \/ (UNCHANGED faults)
    BY Zenon DEF RemoveLoop, RemoveTurn
  <2>8. RemoveLeafFree \/ RemoveMiddleFree => Freed
    BY Zenon DEF RemoveLeafFree, RemoveMiddleFree
  <2>8a. RemoveIndexFree => Spent
    BY Zenon DEF RemoveIndexFree, Spent
  <2>9. RemoveLeafPut \/ RemoveIndex => Wrote \/ idle
    BY Zenon DEF RemoveLeafPut, RemoveIndex
  <2> HIDE DEF idle, calm, Wrote, Freed, Put1, Put2, Put3
  <2> QED BY <2>0, <2>1, <2>2, <2>3, <2>4, <2>5, <2>6, <2>7, <2>8, <2>8a, <2>9 DEF OpStep
<1> QED BY <1>1, <1>2, StepPaces

(* Every step of an operation goes on from a state that fits to one that fits. *)
LEMMA OpOn ==
  ASSUME Typed(node, free, op), NEW R \in SUBSET Places, Fits(node, R, free, view, op), OpStep \/ ReadFails
  PROVE  Onward(view, op, node', free', view', op')
<1>1. CASE AllocBlock \/ InsertExtent \/ EnsureInsertRoom
  BY <1>1, AllocBlockOn, InsertExtentOn, EnsureInsertRoomOn
<1>2. CASE GrowAlloc \/ GrowPut \/ GrowRoot
  BY <1>2, GrowAllocOn, GrowPutOn, GrowRootOn
<1>3. CASE SplitAlloc \/ SplitRight \/ SplitIndex \/ SplitLeft
  BY <1>3, SplitAllocOn, SplitRightOn, SplitIndexOn, SplitLeftOn
<1>4. CASE RemoveLoop \/ RemoveLeafFree \/ RemoveLeafPut
  BY <1>4, RemoveLoopOn, RemoveLeafFreeOn, RemoveLeafPutOn
<1>5. CASE CorrectIndexes \/ RemoveIndex \/ RemoveIndexFree \/ RemoveMiddleFree
  BY <1>5, CorrectIndexesOn, RemoveIndexOn, RemoveIndexFreeOn, RemoveMiddleFreeOn
<1>6. CASE Undo \/ ReadFails
  BY <1>6, UndoOn, ReadFailsOn
<1> QED BY <1>1, <1>2, <1>3, <1>4, <1>5, <1>6 DEF OpStep

(* ... and so does the beginning of one. *)
LEMMA RequestOn ==
  ASSUME AwayFromEnd, IInv, NEW R \in SUBSET Places, Fits(node, R, free, view, op), Request
  PROVE  Onward(view, op, node', free', view', op')
<1>1. load \in Workloads /\ Typed(node, free, op)
  BY DEF IInv, Counted
<1>2. CASE \E l \in load.blocks, max \in load.counts, create \in BOOLEAN : GetBlocks(l, max, create)
  <2>1. PICK l \in load.blocks, max \in load.counts, create \in BOOLEAN : GetBlocks(l, max, create)
    BY <1>2
  <2>2. l \in LBlocks /\ max \in Nat \ {0} /\ l + max <= LastLBlock
    BY <1>1, WorkloadAssumption DEF AwayFromEnd
  <2> QED BY <1>1, <2>1, <2>2, GetBlocksOn
<1>3. CASE \E r \in load.ranges : RemoveSpace(r[1], r[2])
  <2>1. PICK r \in load.ranges : RemoveSpace(r[1], r[2])
    BY <1>3
  <2>2. r[1] \in LBlocks /\ r[2] \in LBlocks
    BY <1>1, WorkloadAssumption
  <2> QED BY <1>1, <2>1, <2>2, RemoveSpaceOn
<1> QED BY <1>2, <1>3 DEF Request

(* The counters stay within the workload's bounds. *)
LEMMA CountedStays ==
  ASSUME Counted, Next
  PROVE  Counted'
<1> DEFINE a == load.ops
           b == load.txnOps
           c == load.faults
<1>1. a \in Nat /\ b \in Nat /\ c \in Nat
  BY WorkloadAssumption DEF Counted
<1>2. load \in Workloads /\ journaled \in BOOLEAN /\ nops \in 0 .. a /\ ntxn \in 0 .. b /\ faults \in 0 .. c
  BY DEF Counted
<1> HIDE DEF a, b, c
<1>3. load' = load /\ journaled' = journaled /\ nops' \in 0 .. a /\ ntxn' \in 0 .. b /\ faults' \in 0 .. c
  <2>1. CASE Paced
    BY <2>1, <1>1, <1>2 DEF Paced, Spent
  <2>2. CASE Request
    <3>1. nops < a /\ ntxn < b /\ nops' = nops + 1 /\ ntxn' = ntxn + 1 /\ faults' = faults /\ load' = load /\ journaled' = journaled
      <4>1. nops < load.ops /\ ntxn < load.txnOps /\ nops' = nops + 1 /\ ntxn' = ntxn + 1 /\ UNCHANGED <<faults, given>>
        BY Zenon, <2>2 DEF Request, GetBlocks, RemoveSpace
      <4> QED BY <4>1 DEF given, a, b
    <3> QED BY <3>1, <1>1, <1>2
  <2>3. CASE Return \/ Crash
    <3>1. ntxn' \in {ntxn, 0} /\ nops' = nops /\ faults' = faults /\ load' = load /\ journaled' = journaled
      BY <2>3 DEF Return, Crash, Restore, Continue, Commit, Abort, given, bounds
    <3> QED BY <3>1, <1>1, <1>2
  <2> QED BY <2>1, <2>2, <2>3, OpPaces DEF Next
<1> QED BY <1>2, <1>3 DEF Counted, a, b, c

(* What the last commit saved stays, but for a commit, which saves the tree. *)
LEMMA ReturnOn ==
  ASSUME IInv, Return \/ Crash
  PROVE  /\ \E R \in SUBSET Places : Sound(node', R, free', view')
         /\ SavedInv' /\ op' = IdleOp
         /\ \/ saved' = saved /\ view' = view
            \/ saved'.map = view /\ view' = view
            \/ saved' = saved /\ view' = saved.map
<1>1. PICK R \in SUBSET Places : Fits(node, R, free, view, op)
  BY DEF IInv, TreeInv
<1>2. PICK Q \in SUBSET Places : Sound(saved.node, Q, saved.free, saved.map)
  BY DEF IInv, SavedInv
<1>3. CASE Continue
  <2>1. Returned(op) /\ node' = node /\ free' = free /\ view' = view /\ saved' = saved /\ op' = IdleOp
    BY <1>3 DEF Continue, Returned, disk
  <2>2. Sound(node, R, free, view)
    BY <1>1, <2>1 DEF Fits
  <2> QED BY <1>2, <2>1, <2>2 DEF SavedInv
<1>4. CASE Commit
  <2> DEFINE md == Reuse(node, free)
             sv == [node |-> md, free |-> free, map |-> MapOf(md)]
  <2>1. Returned(op) /\ node' = md /\ free' = free /\ view' = view /\ op' = IdleOp
    BY <1>4 DEF Commit, Returned
  <2>2. saved' = sv
    BY <1>4 DEF Commit
  <2>3. Sound(node, R, free, view)
    BY <1>1, <2>1 DEF Fits
  <2>4. Sound(md, R, free, view) /\ MapOf(md) = view
    BY <2>3, ReuseSound
  <2> HIDE DEF md
  <2>5. saved'.node = md /\ saved'.free = free /\ saved'.map = view
    BY <2>2, <2>4
  <2>6. SavedInv'
    <3>1. Sound(saved'.node, R, saved'.free, saved'.map)
      BY <2>4, <2>5
    <3> QED BY <3>1 DEF SavedInv
  <2> QED BY <2>1, <2>4, <2>5, <2>6
<1>5. CASE Restore
  <2>1. node' = saved.node /\ free' = saved.free /\ view' = saved.map /\ saved' = saved /\ op' = IdleOp
    BY <1>5 DEF Restore
  <2> QED BY <1>2, <2>1 DEF SavedInv
<1> QED BY <1>3, <1>4, <1>5 DEF Return, Abort, Crash

(* Every step keeps the invariant; and it changes the maps as Took says, or
   commits, or goes back to the last commit. *)
LEMMA Inductive ==
  ASSUME AwayFromEnd, IInv, [Next]_vars
  PROVE  IInv'
<1>1. PICK R \in SUBSET Places : Fits(node, R, free, view, op)
  BY DEF IInv, TreeInv
<1>2. Typed(node, free, op) /\ view \in AllMaps /\ Counted /\ SavedInv
  BY DEF IInv
<1>3. CASE Request \/ OpStep \/ ReadFails
  <2>1. Onward(view, op, node', free', view', op')
    BY <1>1, <1>2, <1>3, RequestOn, OpOn
  <2>2. Typed(node', free', op') /\ TreeInv' /\ Took(view, op, view')
    BY <2>1 DEF Onward, TreeInv
  <2>3. op \in Ops
    BY <1>2 DEF Typed
  <2>4. view' \in AllMaps
    BY <1>2, <2>2, <2>3, TookMap
  <2>5. saved' = saved
    BY Zenon, <1>3, OpPaces DEF Request, GetBlocks, RemoveSpace, Paced
  <2>6. Counted'
    BY <1>2, <1>3, CountedStays DEF Next
  <2>7. SavedInv'
    BY <1>2, <2>5 DEF SavedInv
  <2>8. Typed(node, free, op)'
    BY <2>2 DEF Typed
  <2>9. (view \in AllMaps)'
    BY <2>4 DEF AllMaps
  <2> QED BY <2>2, <2>6, <2>7, <2>8, <2>9 DEF IInv
<1>4. CASE Return \/ Crash
  <2>1. SavedInv' /\ op' = IdleOp /\ \E Q \in SUBSET Places : Sound(node', Q, free', view')
    BY <1>4, ReturnOn
  <2>2. PICK Q \in SUBSET Places : Sound(node', Q, free', view')
    BY <2>1
  <2>3. Typed(node', free', op') /\ Fits(node', Q, free', view', op') /\ view' \in AllMaps
    BY <2>1, <2>2, IdleFits
  <2>4. TreeInv'
    BY <2>3 DEF TreeInv
  <2>5. Counted'
    BY <1>2, <1>4, CountedStays DEF Next
  <2>6. Typed(node, free, op)'
    BY <2>3 DEF Typed
  <2> QED BY <2>1, <2>3, <2>4, <2>5, <2>6 DEF IInv
<1>5. CASE UNCHANGED vars
  <2>1. node' = node /\ free' = free /\ op' = op /\ view' = view /\ saved' = saved /\ load' = load
        /\ journaled' = journaled /\ nops' = nops /\ ntxn' = ntxn /\ faults' = faults
    BY <1>5 DEF vars, given, bounds
  <2>2. TreeInv' /\ SavedInv' /\ Counted'
    BY <1>1, <1>2, <2>1 DEF TreeInv, SavedInv, Counted
  <2>3. Typed(node, free, op)' /\ view' \in AllMaps
    BY <1>2, <2>1 DEF Typed
  <2> QED BY <2>2, <2>3 DEF IInv
<1> QED BY <1>3, <1>4, <1>5 DEF Next

(* The trees found at mount fit. *)
LEMMA InitInv ==
  ASSUME Init
  PROVE  IInv
<1>1. /\ load \in Workloads /\ node = load.node /\ free = load.free /\ view = MapOf(node)
      /\ saved = [node |-> node, free |-> free, map |-> view] /\ op = IdleOp /\ journaled \in BOOLEAN
      /\ nops = 0 /\ ntxn = 0 /\ faults = load.faults
  BY DEF Init
<1> DEFINE R == Reachable(node)
<1>2. Sound(node, R, free, view)
  BY <1>1, MountAssumption
<1> HIDE DEF R
<1>3. Typed(node, free, op) /\ R \in SUBSET Places /\ Fits(node, R, free, view, op) /\ view \in AllMaps
  BY <1>1, <1>2, IdleFits
<1>4. saved.node = node /\ saved.free = free /\ saved.map = view
  BY <1>1
<1>5. Counted
  BY <1>1, WorkloadAssumption DEF Counted
<1> QED BY <1>2, <1>3, <1>4, <1>5 DEF IInv, TreeInv, SavedInv

-----------------------------------------------------------------------------
(* What the invariant says of a tree at rest. *)

(* The places of a tree's entries. *)
LEMMA SlotsAre ==
  ASSUME NEW nd, NEW R, Tree(nd, R)
  PROVE  /\ \A s \in Slots(nd) : s[1] \in R /\ s[2] \in 1 .. Len(nd[s[1]].ents) /\ s = <<s[1], s[2]>>
         /\ \A b \in R : \A p \in 1 .. Len(nd[b].ents) : <<b, p>> \in Slots(nd)
<1>1. Reachable(nd) = R
  BY ReachableIs
<1>2. Slots(nd) = UNION {{b} \X (1 .. Len(nd[b].ents)) : b \in R}
  BY <1>1 DEF Slots
<1>3. ASSUME NEW s \in Slots(nd)
      PROVE  s[1] \in R /\ s[2] \in 1 .. Len(nd[s[1]].ents) /\ s = <<s[1], s[2]>>
  <2>1. PICK b \in R : s \in {b} \X (1 .. Len(nd[b].ents))
    BY <1>2
  <2>2. s[1] = b /\ s[2] \in 1 .. Len(nd[b].ents) /\ s = <<s[1], s[2]>>
    BY <2>1
  <2> QED BY <2>2
<1>4. ASSUME NEW b \in R, NEW p \in 1 .. Len(nd[b].ents) PROVE <<b, p>> \in Slots(nd)
  <2>1. <<b, p>> \in {b} \X (1 .. Len(nd[b].ents))
    OBVIOUS
  <2> QED BY <1>2, <2>1
<1> QED BY <1>3, <1>4

(* ... and of its extents. *)
LEMMA LeafSlotIs ==
  ASSUME NEW nd, NEW R, Tree(nd, R), NEW s \in LeafSlots(nd)
  PROVE  /\ s[1] \in R /\ s[2] \in 1 .. Len(nd[s[1]].ents) /\ s = <<s[1], s[2]>> /\ nd[s[1]].depth = 0
         /\ EntryAt(nd, s) = nd[s[1]].ents[s[2]]
         /\ Keys(nd[s[1]], s[2]) = EntryAt(nd, s).first .. End64(EntryAt(nd, s)) - 1
         /\ EntryAt(nd, s).first \in Int /\ EntryAt(nd, s).start \in Int /\ EntryAt(nd, s).len \in Int
<1>1. s \in Slots(nd) /\ nd[s[1]].depth = 0
  BY DEF LeafSlots
<1>2. s[1] \in R /\ s[2] \in 1 .. Len(nd[s[1]].ents) /\ s = <<s[1], s[2]>>
  BY <1>1, SlotsAre
<1>3. Fit(s[1], nd[s[1]])
  BY <1>2 DEF Tree, Shape
<1> DEFINE b == s[1]
           p == s[2]
           e == nd[b].ents[p]
<1>4. e.first \in LBlocks /\ e.len \in 1 .. MaxLen /\ e.start \in Blocks
  <2> DEFINE n == nd[b]
  <2>1. Fit(b, n) /\ p \in 1 .. Len(n.ents) /\ n.depth = 0
    BY <1>1, <1>2, <1>3
  <2> HIDE DEF n, b, p
  <2>2. n.ents[p].first \in LBlocks /\ n.ents[p].len \in 1 .. MaxLen /\ n.ents[p].start \in Blocks
    BY Zenon, <2>1, EntryIs
  <2> QED BY <2>2 DEF n
<1>5. e.first \in Int /\ e.len \in Int /\ e.start \in Int
  <2> HIDE DEF e
  <2> QED BY <1>4, Width, SizeAssumption DEF Blocks
<1>6. EntryAt(nd, s) = e
  BY DEF EntryAt
<1>7. Keys(nd[b], p) = e.first .. End64(e) - 1
  BY <1>1 DEF Keys
<1> HIDE DEF e
<1> QED BY <1>1, <1>2, <1>5, <1>6, <1>7 DEF e

(* Every key of every extent is found where the extent says. *)
LEMMA SlotFound ==
  ASSUME NEW nd, NEW R, Tree(nd, R), NEW s \in LeafSlots(nd), NEW l \in EntryAt(nd, s).first .. End64(EntryAt(nd, s)) - 1
  PROVE  /\ l \in LBlocks /\ Lookup(nd, l) = EntryAt(nd, s).start + (l - EntryAt(nd, s).first) /\ Lookup(nd, l) # Hole
         /\ \A t \in LeafSlots(nd) : l \in EntryAt(nd, t).first .. End64(EntryAt(nd, t)) - 1 => t = s
<1> DEFINE e == EntryAt(nd, s)
           v == e.start + (l - e.first)
<1>1. /\ s[1] \in R /\ s[2] \in 1 .. Len(nd[s[1]].ents) /\ nd[s[1]].depth = 0 /\ s = <<s[1], s[2]>>
      /\ e = nd[s[1]].ents[s[2]] /\ l \in Keys(nd[s[1]], s[2])
  BY Zenon, LeafSlotIs
<1>2. l \in LBlocks /\ On(nd, l, s[1]) /\ SearchPos(nd[s[1]].ents, l) = s[2]
  BY <1>1, KeyOn
<1>3. Maps(nd, R, l, v)
  BY <1>1 DEF Maps
<1>4. Lookup(nd, l) = v /\ v # Hole
  <2> HIDE DEF v
  <2> QED BY <1>2, <1>3, LookupMaps
<1>5. ASSUME NEW t \in LeafSlots(nd), l \in EntryAt(nd, t).first .. End64(EntryAt(nd, t)) - 1
      PROVE  t = s
  <2>1. /\ t[1] \in R /\ t[2] \in 1 .. Len(nd[t[1]].ents) /\ nd[t[1]].depth = 0 /\ t = <<t[1], t[2]>>
        /\ l \in Keys(nd[t[1]], t[2])
    BY Zenon, <1>5, LeafSlotIs
  <2>2. On(nd, l, t[1]) /\ SearchPos(nd[t[1]].ents, l) = t[2]
    BY <2>1, KeyOn
  <2>3. Shape(nd, R)
    BY DEF Tree
  <2>4. s[1] = t[1]
    <3>1. Ends(nd[s[1]]) /\ Ends(nd[t[1]])
      BY <1>1, <2>1 DEF Ends
    <3>2. s[1] = Landing(nd, l) /\ t[1] = Landing(nd, l)
      BY <1>2, <2>2, <2>3, <3>1, OnIs
    <3> QED BY <3>2
  <2> QED BY <1>1, <1>2, <2>1, <2>2, <2>4
<1> QED BY <1>2, <1>4, <1>5

(* A data block of an extent stands for one of its keys. *)
LEMMA DataKey ==
  ASSUME NEW nd, NEW R, Tree(nd, R), NEW s \in LeafSlots(nd), NEW v \in DataOf(EntryAt(nd, s))
  PROVE  \E l \in EntryAt(nd, s).first .. End64(EntryAt(nd, s)) - 1 :
            v = EntryAt(nd, s).start + (l - EntryAt(nd, s).first)
<1> DEFINE e == EntryAt(nd, s)
           x == e.first
           y == e.start
           z == e.len
<1>1. x \in Int /\ y \in Int /\ z \in Int
  BY LeafSlotIs
<1>2. v \in y .. y + z - 1
  BY DEF DataOf
<1>3. End64(e) = x + z
  BY DEF End64
<1> HIDE DEF e, x, y, z
<1>4. x + (v - y) \in x .. (x + z) - 1 /\ v = y + ((x + (v - y)) - x)
  BY <1>1, <1>2
<1>5. x + (v - y) \in x .. End64(e) - 1
  BY <1>3, <1>4
<1>6. \E l \in x .. End64(e) - 1 : v = y + (l - x)
  BY <1>4, <1>5
<1> QED BY <1>6 DEF x, y, e

(* ... and the key's block is a data block of the extent. *)
LEMMA KeyData ==
  ASSUME NEW nd, NEW R, Tree(nd, R), NEW s \in LeafSlots(nd), NEW l \in EntryAt(nd, s).first .. End64(EntryAt(nd, s)) - 1
  PROVE  EntryAt(nd, s).start + (l - EntryAt(nd, s).first) \in DataOf(EntryAt(nd, s))
<1> DEFINE e == EntryAt(nd, s)
           x == e.first
           y == e.start
           z == e.len
<1>1. x \in Int /\ y \in Int /\ z \in Int
  BY LeafSlotIs
<1>2. l \in x .. (x + z) - 1
  BY DEF End64
<1> HIDE DEF e, x, y, z
<1>3. y + (l - x) \in y .. y + z - 1
  BY <1>1, <1>2
<1>4. y + (l - x) \in DataOf(e)
  BY <1>3 DEF DataOf, y, z
<1> QED BY <1>4 DEF x, y, e

(* The nodes of a tree pass the code's validation. *)
LEMMA SoundValid ==
  ASSUME NEW nd, NEW R, Tree(nd, R), Neat(nd, R, {})
  PROVE  NodesValid(nd) /\ SeparatorsExact(nd)
<1>1. Reachable(nd) = R /\ Shape(nd, R) /\ Hung(nd, R)
  BY ReachableIs DEF Tree
<1>2. ASSUME NEW b \in R PROVE ValidHeader(b, nd[b]) /\ ValidEntries(nd[b]) /\ (b # Root => nd[b].ents # <<>>)
  <2>1. Fit(b, nd[b])
    BY <1>1 DEF Shape
  <2>2. b # Root => nd[b].ents # <<>>
    <3> SUFFICES ASSUME b # Root PROVE nd[b].ents # <<>>
      OBVIOUS
    <3>1. PICK a \in R : \E p \in 1 .. Len(nd[a].ents) : Slot(nd, a, p, b)
      BY <1>1 DEF Hung
    <3> QED BY <3>1 DEF Neat
  <2> QED BY <2>1, <2>2, FitValid
<1>3. NodesValid(nd)
  BY <1>1, <1>2 DEF NodesValid
<1>4. ASSUME NEW s \in InnerSlots(nd)
      PROVE  LET i == EntryAt(nd, s)
             IN  /\ nd[i.child].depth = nd[s[1]].depth - 1
                 /\ nd[i.child].ents # <<>> /\ nd[i.child].ents[1].first = i.first
  <2> DEFINE b == s[1]
             p == s[2]
             i == nd[b].ents[p]
  <2>1. s \in Slots(nd) /\ nd[b].depth # 0
    BY DEF InnerSlots, LeafSlots
  <2>2. b \in R /\ p \in 1 .. Len(nd[b].ents)
    BY <2>1, SlotsAre
  <2>3. nd[b].depth \in Nat
    BY <1>1, <2>2, DepthIs
  <2>4. Slot(nd, b, p, i.child)
    BY <2>1, <2>2, <2>3 DEF Slot
  <2>5. i.child \in R /\ nd[i.child].depth = nd[b].depth - 1
    <3> HIDE DEF b, p, i
    <3> QED BY <1>1, <2>2, <2>4, SlotIs
  <2>6. nd[i.child].ents # <<>> /\ nd[i.child].ents[1].first = i.first
    BY Zenon, <2>2, <2>4, <2>5 DEF Neat
  <2>7. EntryAt(nd, s) = i
    BY DEF EntryAt
  <2> HIDE DEF i
  <2> QED BY <2>5, <2>6, <2>7
<1> QED BY <1>3, <1>4 DEF SeparatorsExact

(* Every extent is found. *)
LEMMA SoundFound ==
  ASSUME NEW nd, NEW R, Tree(nd, R)
  PROVE  AllFound(nd)
<1>1. ASSUME NEW s \in LeafSlots(nd), NEW l \in EntryAt(nd, s).first .. End64(EntryAt(nd, s)) - 1
      PROVE  Lookup(nd, l) = EntryAt(nd, s).start + (l - EntryAt(nd, s).first)
  BY <1>1, SlotFound
<1> QED BY <1>1 DEF AllFound

(* The entries of index nodes are as many as the nodes below the root. *)
LEMMA InnerCount ==
  ASSUME NEW nd, NEW R, Tree(nd, R)
  PROVE  Cardinality(InnerSlots(nd)) = Cardinality(R \ {Root})
<1> DEFINE S == InnerSlots(nd)
           T == R \ {Root}
           h == [s \in S |-> nd[s[1]].ents[s[2]].child]
<1>1. Shape(nd, R) /\ Hung(nd, R) /\ Once(nd, R)
  BY DEF Tree
<1>2. \A s \in S : /\ s[1] \in R /\ s[2] \in 1 .. Len(nd[s[1]].ents) /\ s = <<s[1], s[2]>>
                   /\ Slot(nd, s[1], s[2], h[s]) /\ h[s] \in T
  <2> SUFFICES ASSUME NEW s \in S
               PROVE  /\ s[1] \in R /\ s[2] \in 1 .. Len(nd[s[1]].ents) /\ s = <<s[1], s[2]>>
                      /\ Slot(nd, s[1], s[2], h[s]) /\ h[s] \in T
    OBVIOUS
  <2>1. s \in Slots(nd) /\ nd[s[1]].depth # 0
    BY DEF InnerSlots, LeafSlots
  <2>2. s[1] \in R /\ s[2] \in 1 .. Len(nd[s[1]].ents) /\ s = <<s[1], s[2]>>
    BY <2>1, SlotsAre
  <2>3. nd[s[1]].depth \in Nat
    BY <1>1, <2>2, DepthIs
  <2>4. Slot(nd, s[1], s[2], h[s])
    BY <2>1, <2>2, <2>3 DEF Slot
  <2>5. h[s] \in R /\ h[s] # Root
    <3> HIDE DEF h, S
    <3> QED BY <1>1, <2>2, <2>4, SlotIs
  <2> QED BY <2>2, <2>4, <2>5
<1>3. h \in [S -> T]
  BY <1>2
<1>4. \A t \in T : \E s \in S : h[s] = t
  <2> SUFFICES ASSUME NEW t \in T PROVE \E s \in S : h[s] = t
    OBVIOUS
  <2>1. PICK b \in R : \E p \in 1 .. Len(nd[b].ents) : Slot(nd, b, p, t)
    BY <1>1 DEF Hung
  <2>2. PICK p \in 1 .. Len(nd[b].ents) : Slot(nd, b, p, t)
    BY <2>1
  <2> DEFINE s == <<b, p>>
  <2>3. s \in Slots(nd)
    BY SlotsAre
  <2>4. s[1] = b /\ s[2] = p
    OBVIOUS
  <2>5. nd[b].depth > 0 /\ nd[b].depth \in Nat /\ nd[b].ents[p].child = t
    BY <1>1, <2>2, DepthIs DEF Slot
  <2>6. nd[b].depth # 0
    BY <2>5
  <2>7. s \in S
    BY <2>3, <2>4, <2>6 DEF InnerSlots, LeafSlots
  <2> QED BY <2>4, <2>5, <2>7
<1> HIDE DEF h
<1>5. \A r, s \in S : h[r] = h[s] => r = s
  <2> SUFFICES ASSUME NEW r \in S, NEW s \in S, h[r] = h[s] PROVE r = s
    OBVIOUS
  <2>1. /\ r[1] \in R /\ r[2] \in 1 .. Len(nd[r[1]].ents) /\ r = <<r[1], r[2]>> /\ Slot(nd, r[1], r[2], h[r])
        /\ s[1] \in R /\ s[2] \in 1 .. Len(nd[s[1]].ents) /\ s = <<s[1], s[2]>> /\ Slot(nd, s[1], s[2], h[r]) /\ h[r] \in R
    BY <1>2
  <2>2. r[1] = s[1] /\ r[2] = s[2]
    BY <1>1, <2>1 DEF Once
  <2> QED BY <2>1, <2>2
<1> HIDE DEF S, T
<1>6. h \in Injection(S, T) /\ h \in Surjection(S, T)
  BY <1>3, <1>4, <1>5 DEF Injection, Surjection, IsInjective
<1>7. IsFiniteSet(T)
  <2>1. IsFiniteSet(Blocks)
    <3>1. 1 \in Int /\ NBlocks \in Int
      BY SizeAssumption
    <3> QED BY <3>1, FS_Interval DEF Blocks
  <2>2. T \in SUBSET Blocks
    BY <1>1 DEF T, Shape, Places
  <2> QED BY <2>1, <2>2, FS_Subset
<1>8. Cardinality(S) = Cardinality(T)
  BY <1>6, <1>7, FS_Injection
<1> QED BY <1>8 DEF S, T

(* Every block has one owner. *)
LEMMA SoundOwner ==
  ASSUME NEW nd, NEW R, NEW fr, NEW m, Sound(nd, R, fr, m)
  PROVE  OneOwner(nd, fr)
<1> DEFINE meta == R \ {Root}
           data == UNION {DataOf(EntryAt(nd, s)) : s \in LeafSlots(nd)}
<1>1. Tree(nd, R) /\ Owned(R, fr, {}, m) /\ (\A l \in LBlocks : Lookup(nd, l) = m[l]) /\ Reachable(nd) = R
  BY ReachableIs DEF Sound
<1>2. \A a, b \in LBlocks : a # b /\ m[a] # Hole => m[a] # m[b]
  BY <1>1 DEF Owned
<1>3. ASSUME NEW s \in LeafSlots(nd), NEW t \in LeafSlots(nd), s # t
      PROVE  DataOf(EntryAt(nd, s)) \cap DataOf(EntryAt(nd, t)) = {}
  <2> SUFFICES ASSUME NEW v \in DataOf(EntryAt(nd, s)), v \in DataOf(EntryAt(nd, t)) PROVE FALSE
    OBVIOUS
  <2>1. PICK k \in EntryAt(nd, s).first .. End64(EntryAt(nd, s)) - 1 : v = EntryAt(nd, s).start + (k - EntryAt(nd, s).first)
    BY <1>1, DataKey
  <2>2. PICK l \in EntryAt(nd, t).first .. End64(EntryAt(nd, t)) - 1 : v = EntryAt(nd, t).start + (l - EntryAt(nd, t).first)
    BY <1>1, DataKey
  <2>3. k \in LBlocks /\ Lookup(nd, k) = v /\ v # Hole
    BY <1>1, <2>1, SlotFound
  <2>4. l \in LBlocks /\ Lookup(nd, l) = v
    BY <1>1, <2>2, SlotFound
  <2>5. k = l
    BY <1>1, <1>2, <2>3, <2>4
  <2> QED BY <1>1, <1>3, <2>1, <2>2, <2>5, SlotFound
<1>4. data = Img(m)
  <2>1. ASSUME NEW v \in data PROVE v \in Img(m)
    <3>1. PICK s \in LeafSlots(nd) : v \in DataOf(EntryAt(nd, s))
      OBVIOUS
    <3>2. PICK k \in EntryAt(nd, s).first .. End64(EntryAt(nd, s)) - 1 : v = EntryAt(nd, s).start + (k - EntryAt(nd, s).first)
      BY <1>1, <3>1, DataKey
    <3>3. k \in LBlocks /\ Lookup(nd, k) = v /\ v # Hole
      BY <1>1, <3>2, SlotFound
    <3> QED BY <1>1, <3>3 DEF Img
  <2>2. ASSUME NEW v \in Img(m) PROVE v \in data
    <3>1. PICK l \in LBlocks : m[l] = v /\ v # Hole
      BY DEF Img
    <3>2. Maps(nd, R, l, v)
      BY <1>1, <3>1, LookupMaps
    <3>3. PICK b \in R : \E p \in 1 .. Len(nd[b].ents) :
             nd[b].depth = 0 /\ l \in Keys(nd[b], p) /\ v = nd[b].ents[p].start + (l - nd[b].ents[p].first)
      BY <3>2 DEF Maps
    <3>4. PICK p \in 1 .. Len(nd[b].ents) :
             nd[b].depth = 0 /\ l \in Keys(nd[b], p) /\ v = nd[b].ents[p].start + (l - nd[b].ents[p].first)
      BY <3>3
    <3> DEFINE s == <<b, p>>
    <3>5. s[1] = b /\ s[2] = p
      OBVIOUS
    <3>6. s \in LeafSlots(nd)
      BY <1>1, <3>4, <3>5, SlotsAre DEF LeafSlots
    <3>7. EntryAt(nd, s) = nd[b].ents[p]
      BY <3>5 DEF EntryAt
    <3> HIDE DEF s
    <3>8. l \in EntryAt(nd, s).first .. End64(EntryAt(nd, s)) - 1
      <4>1. Keys(nd[s[1]], s[2]) = EntryAt(nd, s).first .. End64(EntryAt(nd, s)) - 1
        BY Zenon, <1>1, <3>6, LeafSlotIs
      <4> QED BY Zenon, <4>1, <3>4, <3>5
    <3>9. v = EntryAt(nd, s).start + (l - EntryAt(nd, s).first)
      BY <3>4, <3>7
    <3>10. v \in DataOf(EntryAt(nd, s))
      BY <1>1, <3>6, <3>8, <3>9, KeyData
    <3> QED BY <3>6, <3>10
  <2> HIDE DEF data
  <2> QED BY <2>1, <2>2
<1>5. Cardinality(InnerSlots(nd)) = Cardinality(meta)
  BY <1>1, InnerCount
<1> HIDE DEF data
<1>6. meta \cap data = {}
  BY <1>1, <1>4 DEF Owned
<1>7. fr = Blocks \ (meta \cup data)
  <2>1. Root \notin Blocks
    BY DEF Root, Blocks
  <2> QED BY <1>1, <1>4, <2>1 DEF Owned
<1> QED BY <1>1, <1>3, <1>5, <1>6, <1>7 DEF OneOwner, data

-----------------------------------------------------------------------------
(* The properties of ExtentTree. *)

(* A quiet tree is sound. *)
LEMMA QuietSound ==
  ASSUME IInv, Quiet
  PROVE  \E R \in SUBSET Places : Sound(node, R, free, view) /\ Fits(node, R, free, view, op)
<1>1. PICK R \in SUBSET Places : Fits(node, R, free, view, op)
  BY DEF IInv, TreeInv
<1>2. Sound(node, R, free, view)
  BY <1>1 DEF Fits, Quiet
<1> QED BY <1>1, <1>2

(* The invariant has the types in it ... *)
LEMMA InvTypes == IInv => TypeOK
<1> SUFFICES ASSUME IInv PROVE TypeOK
  OBVIOUS
<1>1. Typed(node, free, op) /\ Counted
  BY DEF IInv
<1>2. Cardinality(op.fresh) <= 1
  <2>1. PICK b : op.fresh \subseteq {b}
    BY <1>1 DEF Typed
  <2>2. op.fresh = {} \/ op.fresh = {b}
    BY <2>1
  <2>3. Cardinality({}) = 0 /\ Cardinality({b}) = 1
    BY FS_EmptySet, FS_Singleton
  <2> QED BY <2>2, <2>3
<1> QED BY <1>1, <1>2 DEF TypeOK, Typed, Counted, Places

(* ... the form of the tree ... *)
LEMMA InvWellFormed == IInv => TreeWellFormed
<1> SUFFICES ASSUME IInv, Quiet PROVE NodesValid(node) /\ SeparatorsExact(node)
  BY DEF TreeWellFormed
<1>1. PICK R \in SUBSET Places : Sound(node, R, free, view)
  BY QuietSound
<1>2. Tree(node, R) /\ Neat(node, R, {})
  BY <1>1 DEF Sound
<1> QED BY <1>2, SoundValid

(* ... the search ... *)
LEMMA InvFound == IInv => EveryExtentFound
<1> SUFFICES ASSUME IInv, Quiet PROVE AllFound(node)
  BY DEF EveryExtentFound
<1>1. PICK R \in SUBSET Places : Sound(node, R, free, view)
  BY QuietSound
<1>2. Tree(node, R)
  BY <1>1 DEF Sound
<1> QED BY <1>2, SoundFound

(* ... the owners ... *)
LEMMA InvOwners == IInv => NoLeakNoSharing
<1> SUFFICES ASSUME IInv PROVE NoLeakNoSharing
  OBVIOUS
<1>1. Quiet => OneOwner(node, free)
  <2> SUFFICES ASSUME Quiet PROVE OneOwner(node, free)
    OBVIOUS
  <2>1. PICK R \in SUBSET Places : Sound(node, R, free, view)
    BY QuietSound
  <2> QED BY <2>1, SoundOwner
<1>2. OneOwner(saved.node, saved.free)
  <2>1. PICK R \in SUBSET Places : Sound(saved.node, R, saved.free, saved.map)
    BY DEF IInv, SavedInv
  <2> QED BY <2>1, SoundOwner
<1> QED BY <1>1, <1>2 DEF NoLeakNoSharing

(* ... the lookups of other blocks ... *)
LEMMA InvOthers == IInv => OthersUntouched
<1> SUFFICES ASSUME IInv, ~ Quiet PROVE \A l \in LBlocks \ (op.lo .. op.hi) : Lookup(node, l) = view[l]
  BY DEF OthersUntouched
<1>1. PICK R \in SUBSET Places : Fits(node, R, free, view, op)
  BY DEF IInv, TreeInv
<1>2. OthersKept(node, view, op)
  BY <1>1 DEF Fits, Quiet
<1> QED BY <1>2 DEF OthersKept

(* ... and the result. *)
LEMMA InvResult == IInv => ResultIsMapping
<1> SUFFICES ASSUME IInv, op.pc = "done", op.res = "EOK", op.kind = "get"
             PROVE  /\ \A k \in 0 .. op.cnt - 1 : Lookup(node, op.lo + k) = op.first + k
                    /\ op.cnt = 0 => \A s \in LeafSlots(node) :
                          LET e == EntryAt(node, s)
                          IN  op.lo \in e.first .. End64(e) - 1 => e.unwritten
  BY DEF ResultIsMapping
<1>1. Returned(op) /\ Quiet
  BY DEF Returned, Quiet
<1>2. PICK R \in SUBSET Places : Sound(node, R, free, view) /\ Fits(node, R, free, view, op)
  BY <1>1, QuietSound
<1>3. Answered(node, R, op)
  BY <1>1, <1>2 DEF Fits
<1>4. ASSUME op.cnt = 0, NEW s \in LeafSlots(node), op.lo \in EntryAt(node, s).first .. End64(EntryAt(node, s)) - 1
      PROVE  EntryAt(node, s).unwritten
  <2>1. Tree(node, R)
    BY <1>2 DEF Sound
  <2> DEFINE e == EntryAt(node, s)
             x == e.first .. End64(e) - 1
  <2>2. /\ s[1] \in R /\ s[2] \in 1 .. Len(node[s[1]].ents) /\ node[s[1]].depth = 0
        /\ e = node[s[1]].ents[s[2]] /\ Keys(node[s[1]], s[2]) = x
    BY <2>1, LeafSlotIs
  <2>2a. op.lo \in x
    BY <1>4
  <2> HIDE DEF e, x
  <2>3. node[s[1]].ents[s[2]].unwritten
    BY Zenon, <1>3, <1>4, <2>2, <2>2a DEF Answered
  <2>4. e.unwritten
    BY <2>2, <2>3
  <2> QED BY <2>4 DEF e
<1> QED BY <1>3, <1>4 DEF Answered

(* The invariant holds in every reachable state. *)
LEMMA InvHolds == AwayFromEnd => (Spec => []IInv)
<1> SUFFICES ASSUME AwayFromEnd PROVE Spec => []IInv
  OBVIOUS
<1>1. Init => IInv
  BY InitInv
<1>2. IInv /\ [Next]_vars => IInv'
  BY Inductive
<1> QED BY <1>1, <1>2, PTL DEF Spec

(* Every variable keeps its type: no step of an allocation or a removal makes a
   node that mixes extents and indexes, or an extent of no or too many blocks. *)
THEOREM TypeCorrect == AwayFromEnd => (Spec => []TypeOK)
BY InvHolds, InvTypes, PTL

(* After any sequence of allocations and removals, splits and growth of the tree
   included, the nodes pass the code's validation, no node but the root is
   empty, and every separator is the first key below it. *)
THEOREM WellFormedHolds == AwayFromEnd => (Spec => []TreeWellFormed)
BY InvHolds, InvWellFormed, PTL

(* Every block of every extent is found by find_extent's descent. *)
THEOREM FoundHolds == AwayFromEnd => (Spec => []EveryExtentFound)
BY InvHolds, InvFound, PTL

(* After a successful operation, and after a restart, every block is free, or a
   node with one parent, or in one extent: get_blocks and remove_space neither
   leak a block nor hand it out twice. *)
THEOREM OwnersHold == AwayFromEnd => (Spec => []NoLeakNoSharing)
BY InvHolds, InvOwners, PTL

(* Between any two writes of an operation, failed or not, lookups outside its
   range answer what they answered before. *)
THEOREM OthersHold == AwayFromEnd => (Spec => []OthersUntouched)
BY InvHolds, InvOthers, PTL

(* get_blocks returns the run that the tree maps. *)
THEOREM ResultHolds == AwayFromEnd => (Spec => []ResultIsMapping)
BY InvHolds, InvResult, PTL

-----------------------------------------------------------------------------
(* ExtentTree implements ExtentMap. *)

(* The map of a sound tree is one that ExtentMap starts from. *)
LEMMA SoundMap ==
  ASSUME NEW nd, NEW R, NEW fr, NEW m, Sound(nd, R, fr, m)
  PROVE  m \in Abstract!Maps /\ Abstract!Injective(m)
BY DEF Sound, Owned, AllMaps, Abstract!Maps, Abstract!Injective, Abstract!Hole, Hole

(* A step of an operation is a step of the map or none. *)
LEMMA OpRefines ==
  ASSUME IInv, IInv', Request \/ OpStep \/ ReadFails, Took(view, op, view'), view' = Seen(view, node', op') \/ view' = view,
         saved' = saved
  PROVE  [Abstract!Next]_(Abstract!vars)
<1>1. CASE view' = view
  BY <1>1 DEF Abstract!vars
<1>2. CASE /\ op.kind = "get" /\ GetNumbers(view, op) /\ op.cnt = op.hi - op.lo + 1 /\ view' = Filled(view, op)
           /\ view' # view
  <2> DEFINE l == op.lo
             h == op.hi
             f == op.first
             ran == f .. f + (h - l)
  <2>1. op \in Ops /\ view \in AllMaps
    BY DEF IInv, Typed
  <2>2. l \in LBlocks /\ l \in Int /\ h \in Nat /\ f \in Nat /\ op.cnt \in Nat /\ NBlocks \in Nat
    BY <2>1, OpIs, SizeAssumption
  <2>3. /\ l <= h /\ h < LastLBlock /\ op.cnt = h - l + 1 /\ f + op.cnt - 1 <= NBlocks /\ (op.cnt > 0 => f \in Blocks)
        /\ \A k \in l .. h : view[k] = Hole
    BY <1>2 DEF GetNumbers
  <2>4. f \in Blocks /\ h \in LBlocks /\ l .. h \subseteq LBlocks /\ ran \subseteq Blocks
    <3>1. op.cnt > 0
      BY <2>2, <2>3
    <3>2. LBlocks = 0 .. LastLBlock /\ LastLBlock \in Nat /\ Blocks = 1 .. NBlocks
      BY Width DEF Blocks
    <3> HIDE DEF l, h, f, ran
    <3>3. f \in Blocks /\ f + (h - l) <= NBlocks
      BY <3>1, <2>2, <2>3
    <3>4. ran \subseteq Blocks
      BY <3>2, <3>3, <2>2 DEF ran
    <3>5. h \in LBlocks /\ l .. h \subseteq LBlocks
      BY <3>2, <2>2, <2>3
    <3> QED BY <3>3, <3>4, <3>5
  <2>5. view' = [x \in LBlocks |-> IF x \in l .. h THEN f + (x - l) ELSE view[x]]
    BY <1>2 DEF Filled
  <2>6. \A a, b \in LBlocks : a # b /\ view'[a] # Hole => view'[a] # view'[b]
    <3>1. Returned(op')
      BY <1>2 DEF Seen
    <3>2. Quiet'
      BY <3>1 DEF Quiet, Returned
    <3>3. PICK R \in SUBSET Places : Fits(node', R, free', view', op')
      BY DEF IInv, TreeInv
    <3>4. Sound(node', R, free', view')
      BY <3>1, <3>3 DEF Fits
    <3> QED BY <3>4 DEF Sound, Owned
  <2>7. \A x \in LBlocks : view[x] \notin ran
    <3> SUFFICES ASSUME NEW x \in LBlocks, view[x] \in ran PROVE FALSE
      OBVIOUS
    <3> DEFINE k == l + (view[x] - f)
               y == view[x]
    <3>0. y \in f .. f + (h - l)
      OBVIOUS
    <3> HIDE DEF l, h, f, y, ran
    <3>1. y \in Int /\ f <= y /\ y <= f + (h - l)
      BY <3>0, <2>2
    <3>2. l + (y - f) \in l .. h /\ f + ((l + (y - f)) - l) = y
      BY <3>1, <2>2
    <3>3. k \in l .. h /\ f + (k - l) = y
      BY <3>2 DEF y
    <3> HIDE DEF k
    <3>4. k \in LBlocks /\ view'[k] = y
      BY <3>3, <2>4, <2>5
    <3>5. y # Hole
      BY <3>1, <2>4 DEF Hole, Blocks
    <3>6. x \notin l .. h
      <4>1. view[x] # Hole
        BY <3>5 DEF y
      <4> QED BY <4>1, <2>3
    <3>7. view'[x] = y
      BY <3>6, <2>5 DEF y
    <3> QED BY <2>6, <3>3, <3>4, <3>5, <3>6, <3>7
  <2>8. Abstract!MapRange(l, h, f)
    <3>1. l <= h /\ l .. h \subseteq LBlocks /\ ran \subseteq Blocks /\ (\A x \in l .. h : view[x] = Abstract!Hole)
          /\ (\A x \in LBlocks : view[x] \notin ran)
      BY <2>3, <2>4, <2>7 DEF Abstract!Hole, Hole
    <3> QED BY <3>1, <2>5 DEF Abstract!MapRange
  <2> HIDE DEF l, h, f
  <2>9. \E a, b \in LBlocks, c \in Blocks : Abstract!MapRange(a, b, c)
    BY <2>2, <2>4, <2>8
  <2> QED BY <2>9 DEF Abstract!Next
<1>3. CASE op.kind = "remove" /\ op.lo \in LBlocks /\ op.hi \in LBlocks /\ view' = Clear(view, op, op.hi + 1)
  <2> DEFINE l == op.lo
             h == op.hi
  <2>1. l \in LBlocks /\ h \in LBlocks
    BY <1>3
  <2>2. view' = [x \in LBlocks |-> IF x \in l .. h THEN Abstract!Hole ELSE view[x]]
    <3>1. \A x \in LBlocks : (x \in l .. h /\ x < h + 1) <=> x \in l .. h
      BY <2>1, Width
    <3>2. view' = [x \in LBlocks |-> IF x \in l .. h /\ x < h + 1 THEN Hole ELSE view[x]]
      BY <1>3 DEF Clear
    <3> QED BY <3>1, <3>2 DEF Abstract!Hole, Hole
  <2>3. Abstract!UnmapRange(l, h)
    BY <2>2 DEF Abstract!UnmapRange
  <2> HIDE DEF l, h
  <2>4. \E a, b \in LBlocks : Abstract!UnmapRange(a, b)
    BY <2>1, <2>3
  <2> QED BY <2>4 DEF Abstract!Next
<1> QED BY <1>1, <1>2, <1>3 DEF Took

(* So is the end of one. *)
LEMMA StepRefines ==
  ASSUME AwayFromEnd, IInv, IInv', [Next]_vars
  PROVE  [Abstract!Next]_(Abstract!vars)
<1>1. CASE Request \/ OpStep \/ ReadFails
  <2>1. PICK R \in SUBSET Places : Fits(node, R, free, view, op)
    BY DEF IInv, TreeInv
  <2>2. Onward(view, op, node', free', view', op')
    BY <1>1, <2>1, RequestOn, OpOn DEF IInv
  <2>3. Took(view, op, view')
    BY <2>2 DEF Onward
  <2>4. CASE Request
    <3>1. view' = view /\ saved' = saved
      BY Zenon, <2>4 DEF Request, GetBlocks, RemoveSpace
    <3> QED BY <3>1, <1>1, <2>3, OpRefines
  <2>5. CASE OpStep \/ ReadFails
    <3>1. saved' = saved /\ view' = Seen(view, node', op')
      BY <2>5, OpPaces DEF Paced
    <3> QED BY <3>1, <1>1, <2>3, OpRefines
  <2> QED BY <1>1, <2>4, <2>5
<1>2. CASE Return \/ Crash
  <2>1. \/ saved' = saved /\ view' = view
        \/ saved'.map = view /\ view' = view
        \/ saved' = saved /\ view' = saved.map
    BY <1>2, ReturnOn
  <2>2. CASE saved' = saved /\ view' = view
    BY <2>2 DEF Abstract!vars
  <2>3. CASE saved'.map = view /\ view' = view
    BY <2>3 DEF Abstract!Next, Abstract!Commit
  <2>4. CASE saved' = saved /\ view' = saved.map
    BY <2>4 DEF Abstract!Next, Abstract!Rollback
  <2> QED BY <2>1, <2>2, <2>3, <2>4
<1>3. CASE UNCHANGED vars
  BY <1>3 DEF vars, Abstract!vars
<1> QED BY <1>1, <1>2, <1>3 DEF Next

(* The map found at mount is one ExtentMap may start with. *)
LEMMA InitRefines ==
  ASSUME Init
  PROVE  Abstract!Init
<1>1. load \in Workloads /\ node = load.node /\ free = load.free /\ view = MapOf(node) /\ saved.map = view
  BY DEF Init
<1>2. Sound(node, Reachable(node), free, view)
  BY <1>1, MountAssumption
<1>3. view \in Abstract!Maps /\ Abstract!Injective(view)
  BY <1>2, SoundMap
<1> QED BY <1>1, <1>3 DEF Abstract!Init

(* The steps of the code implement the map: an allocation or a removal takes
   effect when it returns success, as a whole, and a failure or a crash goes
   back to the last commit. *)
THEOREM RefinesMap == AwayFromEnd => (Spec => ImplementsMap)
<1> SUFFICES ASSUME AwayFromEnd PROVE Spec => ImplementsMap
  OBVIOUS
<1>1. Spec => []IInv
  BY InvHolds
<1>2. Init => Abstract!Init
  BY InitRefines
<1>3. IInv /\ IInv' /\ [Next]_vars => [Abstract!Next]_(Abstract!vars)
  BY StepRefines
<1> QED BY <1>1, <1>2, <1>3, PTL DEF Spec, ImplementsMap, Abstract!Spec

(* A run of new blocks leaves the map injective: within the run blocks differ
   because they are consecutive, outside it none of them was in use. *)
LEMMA MapRangeShares ==
  ASSUME Abstract!TypeOK, Abstract!NeverShared, NEW l \in LBlocks, NEW last \in LBlocks, NEW first \in Blocks,
         Abstract!MapRange(l, last, first)
  PROVE  Abstract!TypeOK' /\ Abstract!NeverShared'
<1> USE DEF Abstract!MapRange, Abstract!Maps, Abstract!Hole, Abstract!TypeOK
<1>0. LBlocks \subseteq Nat /\ Blocks \subseteq Nat \ {0}
  BY Width DEF Blocks
<1> USE <1>0
<1>1. \A x \in l .. last : x \in Int /\ first + (x - l) \in first .. first + (last - l)
  OBVIOUS
<1>2. Abstract!TypeOK'
  BY <1>1
<1>3. ASSUME NEW a \in LBlocks, NEW b \in LBlocks, a # b, view'[a] # Abstract!Hole
      PROVE  view'[a] # view'[b]
  <2>1. CASE a \in l .. last /\ b \in l .. last
    BY <1>1, <1>3, <2>1
  <2>2. CASE a \in l .. last /\ b \notin l .. last
    BY <1>1, <1>3, <2>2
  <2>3. CASE a \notin l .. last /\ b \in l .. last
    BY <1>1, <1>3, <2>3
  <2>4. CASE a \notin l .. last /\ b \notin l .. last
    BY <1>3, <2>4 DEF Abstract!Injective, Abstract!NeverShared
  <2> QED BY <2>1, <2>2, <2>3, <2>4
<1> QED BY <1>2, <1>3 DEF Abstract!Injective, Abstract!NeverShared

(* One step of the map keeps both maps injective. *)
LEMMA NeverSharedStep ==
  ASSUME Abstract!TypeOK, Abstract!NeverShared, [Abstract!Next]_(Abstract!vars)
  PROVE  Abstract!TypeOK' /\ Abstract!NeverShared'
<1> USE DEF Abstract!NeverShared
<1>1. ASSUME NEW l \in LBlocks, NEW last \in LBlocks, NEW first \in Blocks, Abstract!MapRange(l, last, first)
      PROVE  Abstract!TypeOK' /\ Abstract!NeverShared'
  BY <1>1, MapRangeShares
<1>2. ASSUME NEW from \in LBlocks, NEW to \in LBlocks, Abstract!UnmapRange(from, to)
      PROVE  Abstract!TypeOK' /\ Abstract!NeverShared'
  BY <1>2 DEF Abstract!UnmapRange, Abstract!TypeOK, Abstract!Maps, Abstract!Hole, Abstract!Injective
<1>3. CASE Abstract!Commit
  BY <1>3 DEF Abstract!Commit, Abstract!TypeOK, Abstract!Injective
<1>4. CASE Abstract!Rollback
  BY <1>4 DEF Abstract!Rollback, Abstract!TypeOK, Abstract!Injective
<1>5. CASE UNCHANGED Abstract!vars
  BY <1>5 DEF Abstract!vars, Abstract!TypeOK, Abstract!Injective
<1> QED BY <1>1, <1>2, <1>3, <1>4, <1>5 DEF Abstract!Next

(* No physical block stands for two logical blocks, in the view of the running
   transaction or after a restart. *)
THEOREM NeverSharedHolds == AwayFromEnd => (Spec => []Abstract!NeverShared)
<1> SUFFICES ASSUME AwayFromEnd PROVE Spec => []Abstract!NeverShared
  OBVIOUS
<1>1. Spec => []IInv
  BY InvHolds
<1>2. Init => Abstract!Init
  BY InitRefines
<1>3. Abstract!Init => Abstract!TypeOK /\ Abstract!NeverShared
  BY DEF Abstract!Init, Abstract!TypeOK, Abstract!NeverShared
<1>4. IInv /\ IInv' /\ [Next]_vars => [Abstract!Next]_(Abstract!vars)
  BY StepRefines
<1>5. Abstract!TypeOK /\ Abstract!NeverShared /\ [Abstract!Next]_(Abstract!vars) => Abstract!TypeOK' /\ Abstract!NeverShared'
  BY NeverSharedStep
<1> QED BY <1>1, <1>2, <1>3, <1>4, <1>5, PTL DEF Spec
===============================================================================
