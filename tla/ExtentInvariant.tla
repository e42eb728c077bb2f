---------------------------- MODULE ExtentInvariant ----------------------------
(***************************************************************************)
(* The inductive invariant of ExtentTree: what a tree of extents is, at    *)
(* every step of every operation.                                          *)
(*                                                                         *)
(* ExtentTree's own properties say what a caller sees between operations.  *)
(* Here is what the code relies on in between: which nodes hang in the     *)
(* tree, who owns every block, what lookups answer while a node is split   *)
(* or a separator is wrong, and what the operation remembers in op.        *)
(***************************************************************************)
EXTENDS ExtentTree

-----------------------------------------------------------------------------
(* What a tree is. *)

Places == Blocks \cup {Root}

Keyed(ents) == \A p, q \in 1 .. Len(ents) : p < q => ents[p].first < ents[q].first
Apart(ents) == \A p, q \in 1 .. Len(ents) : p < q => End64(ents[p]) <= ents[q].first

(* n may stand in block b: it fits, and its entries are valid and in order. *)
Fit(b, n) ==
    /\ n \in Leaves \cup Inner
    /\ Len(n.ents) <= MaxEntries(b)
    /\ Keyed(n.ents)
    /\ n.depth = 0 => /\ Apart(n.ents)
                      /\ \A p \in 1 .. Len(n.ents) :
                            ValidExtent(n.ents[p]) /\ End64(n.ents[p]) <= LastLBlock

Slot(nd, b, p, c) == nd[b].depth > 0 /\ p \in 1 .. Len(nd[b].ents) /\ nd[b].ents[p].child = c

Shape(nd, R) ==
    /\ nd \in [Places -> Nodes]
    /\ R \in SUBSET Places /\ Root \in R
    /\ \A b \in R : Fit(b, nd[b])
    /\ \A b \in R : nd[b].depth > 0 =>
          \A p \in 1 .. Len(nd[b].ents) : LET c == nd[b].ents[p].child
                                          IN  c \in R \ {Root} /\ nd[c].depth = nd[b].depth - 1

Hung(nd, R) == \A c \in R \ {Root} : \E b \in R : \E p \in 1 .. Len(nd[b].ents) : Slot(nd, b, p, c)

Once(nd, R) ==
    \A a, b \in R : \A p \in 1 .. Len(nd[a].ents), q \in 1 .. Len(nd[b].ents) : \A c \in R :
        Slot(nd, a, p, c) /\ Slot(nd, b, q, c) => a = b /\ p = q

(* find_extent's descent for l comes by block b. *)
On(nd, l, b) == \E k \in 1 .. Len(FindPath(nd, l)) : FindPath(nd, l)[k].blk = b

(* the logical blocks an entry speaks for *)
Keys(n, p) == IF n.depth = 0 THEN n.ents[p].first .. End64(n.ents[p]) - 1 ELSE {n.ents[p].first}

Region(nd, R) == [b \in R |-> {l \in LBlocks : On(nd, l, b)}]

Routed(nd, R, g) == \A b \in R : \A p \in 1 .. Len(nd[b].ents) : Keys(nd[b], p) \subseteq g[b]

Tree(nd, R) == Shape(nd, R) /\ Hung(nd, R) /\ Once(nd, R) /\ Routed(nd, R, Region(nd, R))

(* Separators are the first keys below them, but for the children in X. *)
Neat(nd, R, X) ==
    \A b \in R : \A p \in 1 .. Len(nd[b].ents), c \in R \ X :
        Slot(nd, b, p, c) => nd[c].ents # <<>> /\ nd[c].ents[1].first = nd[b].ents[p].first

(* the content, read off without searching *)
Maps(nd, R, l, v) ==
    \E b \in R : \E p \in 1 .. Len(nd[b].ents) :
        /\ nd[b].depth = 0 /\ l \in Keys(nd[b], p)
        /\ v = nd[b].ents[p].start + (l - nd[b].ents[p].first)

Img(m) == {m[l] : l \in LBlocks} \ {Hole}

AllMaps == [LBlocks -> Blocks \cup {Hole}]

(* Of the blocks, R are nodes, m's are data, X are on their way, and the others
   are free. *)
Owned(R, fr, X, m) ==
    /\ m \in AllMaps /\ X \in SUBSET Blocks
    /\ \A a, b \in LBlocks : a # b /\ m[a] # Hole => m[a] # m[b]
    /\ R \cap Img(m) = {} /\ R \cap X = {} /\ Img(m) \cap X = {}
    /\ fr = Blocks \ (R \cup Img(m) \cup X)

Sound(nd, R, fr, m) ==
    /\ Tree(nd, R) /\ Neat(nd, R, {}) /\ Owned(R, fr, {}, m)
    /\ \A l \in LBlocks : Lookup(nd, l) = m[l]

-----------------------------------------------------------------------------
(* The operation in progress, in the state with nodes nd, free blocks fr and
   view vw. *)

Clear(vw, o, x) == [l \in LBlocks |-> IF l \in o.lo .. o.hi /\ l < x THEN Hole ELSE vw[l]]
Filled(vw, o) == [l \in LBlocks |-> IF l \in o.lo .. o.hi THEN o.first + (l - o.lo) ELSE vw[l]]

(* what lookups answer *)
Target(vw, o) ==
    IF o.kind = "get" THEN (IF o.pc = "fix" THEN Filled(vw, o) ELSE vw)
    ELSE IF o.pc \in {"fix", "index", "indexfree"} THEN Clear(vw, o, o.cut + 1)
    ELSE IF o.pc = "middlefree" THEN Clear(vw, o, o.hi + 1)
    ELSE Clear(vw, o, o.from)

(* the map whose blocks are taken *)
Kept(vw, o) == IF o.pc = "leafput" THEN Clear(vw, o, o.cut + 1) ELSE Target(vw, o)

(* blocks that neither the tree nor the free list has *)
Loose(o) ==
    o.fresh \cup (IF o.kind = "get" THEN (IF o.pc = "fix" THEN {} ELSE OpBlocks(o))
                  ELSE IF o.pc = "indexfree" THEN {o.path[o.lvl].ent.child}
                  ELSE IF o.pc = "middlefree" THEN RemoveBlocks(Leaf(o.path).ent, o.from, o.hi)
                  ELSE {})

(* the node whose separator may be wrong *)
Odd(nd, o) ==
    IF o.pc = "fix" THEN {o.path[o.lvl].blk}
    ELSE IF o.pc = "index" THEN {o.path[o.lvl + 1].blk}
    ELSE IF o.pc = "indexfree" /\ (o.path[o.lvl].pos = 1 \/ nd[o.path[o.lvl].blk].ents = <<>>)
    THEN {o.path[o.lvl].blk} ELSE {}

(* nd as it is once the left half of a split is cut off *)
Whole(nd, o) ==
    IF o.pc = "splitleft"
    THEN [nd EXCEPT ![o.path[o.lvl].blk].ents = SubSeq(@, 1, SplitMid(o.path[o.lvl].cnt))]
    ELSE nd

(* the first m steps of path P lead from the root to P[m + 1] *)
Linked(nd, R, P, m) ==
    /\ m \in 0 .. Len(P) - 1
    /\ P[1].blk = Root
    /\ \A j \in 1 .. m : /\ P[j].blk \in R /\ nd[P[j].blk].depth > 0
                         /\ P[j].pos \in 1 .. Len(nd[P[j].blk].ents)
                         /\ P[j].ent = nd[P[j].blk].ents[P[j].pos]
                         /\ P[j].ent.child = P[j + 1].blk

Key(o) == IF o.kind = "get" THEN o.lo ELSE o.from

SplitPcs == {"split", "splitright", "splitindex"}
GrowPcs == {"grow", "growput", "growroot"}
FreshPcs == {"growput", "growroot", "splitright", "splitindex"}
LeafPcs == {"leaffree", "leafput"}
GetPcs == {"alloc", "insert", "room", "fix", "splitleft"} \cup GrowPcs \cup SplitPcs
RemovePcs == {"remove", "room", "fix", "index", "indexfree", "middlefree", "splitleft"}
                 \cup GrowPcs \cup SplitPcs \cup LeafPcs
LivePcs == GetPcs \cup RemovePcs

(* the path the operation keeps *)
PathKept(nd, R, o) ==
    /\ o.pc \in SplitPcs \cup LeafPcs => o.path = FindPath(nd, Key(o))
    /\ o.pc \in SplitPcs => /\ o.lvl \in 2 .. Len(o.path) /\ o.path[o.lvl].cnt >= NodeMax
                            /\ o.path[o.lvl - 1].cnt < MaxEntries(o.path[o.lvl - 1].blk)
    /\ o.pc = "splitindex" =>
          LET s == o.path[o.lvl]
              mid == SplitMid(s.cnt)
          IN  /\ o.key = nd[s.blk].ents[mid + 1].first
              /\ \A b \in o.fresh : nd[b] = [depth |-> s.depth,
                                             ents |-> SubSeq(nd[s.blk].ents, mid + 1, s.cnt)]
    /\ o.pc = "splitleft" => o.lvl \in 2 .. Len(o.path) /\ o.path[o.lvl].blk \in R \ {Root}
    /\ o.pc = "fix" => /\ o.lvl \in 2 .. Len(o.path) /\ Linked(nd, R, o.path, o.lvl - 1)
                       /\ nd[o.path[o.lvl].blk].ents # <<>>
                       /\ nd[o.path[o.lvl].blk].ents[1].first = o.key
    /\ o.pc = "index" => /\ o.lvl \in 1 .. Len(o.path) - 1 /\ Linked(nd, R, o.path, o.lvl)
                         /\ nd[o.path[o.lvl + 1].blk].ents = <<>>
    /\ o.pc = "indexfree" => /\ o.lvl \in 1 .. Len(o.path) /\ Linked(nd, R, o.path, o.lvl - 1)
                             /\ o.path[o.lvl].blk \in R /\ nd[o.path[o.lvl].blk].depth > 0
                             /\ o.path[o.lvl].ent.child \in Blocks \ R

(* the numbers the operation keeps *)
GetNumbers(vw, o) ==
    /\ o.pc \in GetPcs
    /\ o.lo <= o.hi /\ o.hi < LastLBlock /\ o.hi - o.lo + 1 <= MaxLen
    /\ \A l \in o.lo .. o.hi : vw[l] = Hole
    /\ o.first + o.cnt - 1 <= NBlocks
    /\ o.pc = "alloc" => o.cnt < o.hi - o.lo + 1
    /\ o.pc # "alloc" => o.cnt = o.hi - o.lo + 1
    /\ o.cnt > 0 => o.first \in Blocks

RemoveNumbers(o) ==
    /\ o.pc \in RemovePcs
    /\ o.from \in LBlocks /\ o.lo <= o.from
    /\ o.pc # "remove" => o.from <= o.hi
    /\ o.pc \in {"fix", "index", "indexfree"} \cup LeafPcs => o.cut \in o.from .. o.hi
    /\ o.pc \in LeafPcs =>
          LET e == Leaf(o.path).ent
          IN  /\ Leaf(o.path).depth = 0 /\ HaveExtent(o.path)
              /\ e.first <= o.hi /\ o.from <= End64(e) - 1
              /\ o.cut = (IF End64(e) - 1 < o.hi THEN End64(e) - 1 ELSE o.hi)
              /\ o.from <= e.first \/ End64(e) - 1 <= o.hi
    /\ o.pc = "middlefree" =>
          LET e == Leaf(o.path).ent
          IN  e \in Extents /\ ValidExtent(e) /\ e.first < o.from /\ o.hi < End64(e) - 1

Numbers(nd, vw, o) ==
    /\ o.res = "EOK" /\ o.lo \in LBlocks /\ o.hi \in LBlocks
    /\ IF o.pc \in FreshPcs THEN \E b \in Blocks : o.fresh = {b} ELSE o.fresh = {}
    /\ o.fresh \cap OpBlocks(o) = {}
    /\ o.pc \in GrowPcs => Len(nd[Root].ents) >= RootMax
    /\ o.pc \in {"growput", "growroot"} => nd[Root].depth < MaxDepth
    /\ o.pc = "growroot" => \A b \in o.fresh : nd[b] = nd[Root]
    /\ o.kind = "get" => GetNumbers(vw, o)
    /\ o.kind = "remove" => RemoveNumbers(o)

Busy(nd, R, fr, vw, o) ==
    /\ o.kind \in {"get", "remove"}
    /\ Numbers(nd, vw, o)
    /\ PathKept(nd, R, o)
    /\ Tree(Whole(nd, o), R) /\ Neat(Whole(nd, o), R, Odd(nd, o))
    /\ Owned(R, fr, Loose(o), Kept(vw, o))
    /\ \A l \in LBlocks : /\ Lookup(nd, l) = Target(vw, o)[l]
                         /\ Lookup(Whole(nd, o), l) = Target(vw, o)[l]

OthersKept(nd, vw, o) == \A l \in LBlocks \ (o.lo .. o.hi) : Lookup(nd, l) = vw[l]

(* A get_blocks that returned success: extents that hold lo are unwritten, or
   the run is mapped. *)
Answered(nd, R, o) ==
    /\ \A k \in 0 .. o.cnt - 1 : Lookup(nd, o.lo + k) = o.first + k
    /\ o.cnt = 0 => \A b \in R : \A p \in 1 .. Len(nd[b].ents) :
          nd[b].depth = 0 /\ o.lo \in Keys(nd[b], p) => nd[b].ents[p].unwritten

(* One state, with R the blocks of the tree. *)
Fits(nd, R, fr, vw, o) ==
    /\ o.pc = "idle" \/ Returned(o) => Sound(nd, R, fr, vw)
    /\ Returned(o) /\ o.kind = "get" => Answered(nd, R, o)
    /\ o.pc \in LivePcs => Busy(nd, R, fr, vw, o)
    /\ ~ (o.pc = "idle" \/ Returned(o)) => OthersKept(nd, vw, o)
    /\ o.pc = "undo" => o.res # "EOK" /\ OpBlocks(o) \subseteq Blocks

(* Nodes, free blocks and operation keep their types. *)
Typed(nd, fr, o) ==
    nd \in [Places -> Nodes] /\ fr \in SUBSET Blocks /\ o \in Ops /\ \E b : o.fresh \subseteq {b}

Counted ==
    /\ load \in Workloads /\ journaled \in BOOLEAN
    /\ nops \in 0 .. load.ops /\ ntxn \in 0 .. load.txnOps /\ faults \in 0 .. load.faults

TreeInv == \E R \in SUBSET Places : Fits(node, R, free, view, op)
SavedInv == \E R \in SUBSET Places : Sound(saved.node, R, saved.free, saved.map)

IInv == Typed(node, free, op) /\ view \in AllMaps /\ Counted /\ TreeInv /\ SavedInv

-----------------------------------------------------------------------------
(* What is found at mount is a tree, as e2fsck would leave it. *)
ASSUME MountAssumption ==
    \A w \in Workloads : Sound(w.node, Reachable(w.node), w.free, MapOf(w.node))

(* No caller asks for blocks so near the end of the block numbers that the
   32-bit first + count would wrap; ExtentTree's run at that end shows what
   happens then. *)
AwayFromEnd ==
    \A w \in Workloads : \A l \in w.blocks, c \in w.counts : l + c <= LastLBlock
================================================================================
