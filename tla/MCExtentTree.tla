----------------------------- MODULE MCExtentTree -----------------------------
(* Instances of ExtentTree for TLC. *)
EXTENDS ExtentInvariant

(* The allocator prefers the goal, then the next free block above it, then
   the lowest free block. *)
GoalThenLowest(goal, F) ==
    LET above == {b \in F : b >= goal}
        C == IF above = {} THEN F ELSE above
    IN  {b \in C : \A c \in C : b <= c}

Ext(l, n, p) == [first |-> l, len |-> n, start |-> p, unwritten |-> FALSE]
Unw(l, n, p) == [first |-> l, len |-> n, start |-> p, unwritten |-> TRUE]
Idx(l, b) == [first |-> l, child |-> b]

(* The tree with these nodes; all other blocks but the extents' are free. *)
TreeOf(nodes) ==
    LET nd == nodes @@ EmptyTree.node
        data == UNION {DataOf(EntryAt(nd, s)) : s \in LeafSlots(nd)}
    IN  [node |-> nd, free |-> Blocks \ (Reachable(nd) \cup data)]

(* A full root leaf with an unwritten (preallocated) extent *)
FullRoot ==
    TreeOf(0 :> [depth |-> 0, ents |-> <<Ext(1, 4, 5), Unw(6, 3, 10)>>])

(* A full root over two leaves, one of them full *)
TwoLeaves ==
    TreeOf((0 :> [depth |-> 1, ents |-> <<Idx(1, 1), Idx(9, 2)>>])
      @@ (1 :> [depth |-> 0, ents |-> <<Ext(1, 1, 5), Ext(2, 4, 7), Ext(7, 1, 12)>>])
      @@ (2 :> [depth |-> 0, ents |-> <<Unw(9, 3, 14), Ext(13, 1, 18)>>]))

(* Depth two: a full root, a full and a single-child index node below it; the
   block behind the first extent is taken, so that extent cannot grow *)
ThreeLevels ==
    TreeOf((0 :> [depth |-> 2, ents |-> <<Idx(1, 1), Idx(11, 2)>>])
      @@ (1 :> [depth |-> 1, ents |-> <<Idx(1, 3), Idx(4, 4), Idx(8, 5)>>])
      @@ (2 :> [depth |-> 1, ents |-> <<Idx(11, 6)>>])
      @@ (3 :> [depth |-> 0, ents |-> <<Ext(1, 2, 9)>>])
      @@ (4 :> [depth |-> 0, ents |-> <<Ext(4, 1, 11), Ext(5, 1, 13), Ext(6, 1, 15)>>])
      @@ (5 :> [depth |-> 0, ents |-> <<Ext(8, 1, 17)>>])
      @@ (6 :> [depth |-> 0, ents |-> <<Ext(11, 2, 19)>>]))

(* A device with two free blocks left, when the one hole in the file lies in a
   full leaf below a full index node *)
Crowded ==
    TreeOf((0 :> [depth |-> 2, ents |-> <<Idx(0, 1)>>])
      @@ (1 :> [depth |-> 1, ents |-> <<Idx(0, 2), Idx(3, 3), Idx(8, 4)>>])
      @@ (2 :> [depth |-> 0, ents |-> <<Ext(0, 3, 5)>>])
      @@ (3 :> [depth |-> 0, ents |-> <<Ext(3, 1, 9), Ext(4, 1, 11), Ext(6, 2, 12)>>])
      @@ (4 :> [depth |-> 0, ents |-> <<Ext(8, 3, 14), Ext(11, 4, 17)>>]))

SomeRanges == {<<f, t>> : f \in {0, 1, 3, 6, 12}, t \in {0, 3, 7, 10, 15}}

(* Two operations of any kind on full trees, in one transaction or two, with
   I/O failures *)
Mixed(t) ==
    [node |-> t.node, free |-> t.free, blocks |-> {0, 3, 5, 8, 12}, counts |-> {1, 3},
     ranges |-> SomeRanges, ops |-> 2, txnOps |-> 2, faults |-> 2]

(* Blocks bs allocated one by one in any order, n of them, in an empty file *)
Grow(bs, n) ==
    [node |-> EmptyTree.node, free |-> EmptyTree.free, blocks |-> bs, counts |-> {1},
     ranges |-> {}, ops |-> n, txnOps |-> 1, faults |-> 0]

Mounted == {Mixed(t) : t \in {FullRoot, TwoLeaves, ThreeLevels}}
             \cup {[Mixed(Crowded) EXCEPT !.ops = 1], Grow({0, 2, 3, 5, 7, 9}, 6)}
AtTheEnd == {Grow({14, 15}, 3)}

(* Only the second instance comes near the end of the block numbers. *)
ASSUME Away == Workloads # AtTheEnd => AwayFromEnd
===============================================================================
