------------------------------ MODULE ExtentNode ------------------------------
(***************************************************************************)
(* The data of the extent tree of port/lwext4_extent.c: entries, nodes,    *)
(* and the read-only operations on them.  No state: ExtentTree and the     *)
(* search specification are built on these operators.                      *)
(*                                                                         *)
(* A node is [depth, ents].  Its header's max_entries_count is a function  *)
(* of where it lives (MaxEntries): the inode root holds RootMax entries, a *)
(* block NodeMax.  The bytes of entries past entries_count are not kept.   *)
(* Positions are 1-based, the code's are 0-based.                          *)
(***************************************************************************)
EXTENDS Integers, Sequences, FiniteSets

CONSTANTS LBits,     \* width of a logical block number (32 in the code)
          NBlocks,   \* size of the file system; physical blocks are 1..NBlocks
          RootMax,   \* EXT4_EXTENT_ROOT_MAX_ENTRIES (4)
          NodeMax,   \* (block_size - 12) / 12, at least 84
          MaxDepth,  \* EXT4_EXTENT_MAX_DEPTH (5)
          MaxLen     \* EXT_INIT_MAX_LEN (32768)

ASSUME SizeAssumption ==
    /\ LBits \in Nat \ {0} /\ NBlocks \in Nat \ {0}
    /\ MaxDepth \in Nat \ {0} /\ MaxLen \in Nat \ {0}

(* merge_extent tells a root leaf from an external one by comparing capacities *)
ASSUME CapacityAssumption ==
    RootMax \in Nat \ {0, 1} /\ NodeMax \in Nat /\ RootMax < NodeMax

(* 2^n is built in: the provers know no more of it than this says. *)
ASSUME WidthAssumption == 2^LBits - 1 \in Nat

LBlocks == 0 .. 2^LBits - 1
Blocks == 1 .. NBlocks
LastLBlock == 2^LBits - 1            \* UINT32_MAX
Wrap(x) == x % 2^LBits               \* uint32_t arithmetic
Root == 0                            \* pblock_of_node = 0: the inode's root
Hole == 0

(* On-disk entries.  The unwritten flag is the high bit of block_count. *)
Extents == [first : LBlocks, len : 1 .. MaxLen, start : Blocks, unwritten : BOOLEAN]
Indexes == [first : LBlocks, child : Blocks]
NoEntry == [first |-> 0, len |-> 0, start |-> 0, unwritten |-> FALSE]

(* A block without the extent magic: free, or used for file data. *)
Garbage == [depth |-> -1, ents |-> <<>>]

Leaves == [depth : {0}, ents : Seq(Extents)]
Inner == [depth : 1 .. MaxDepth, ents : Seq(Indexes)]
Nodes == Leaves \cup Inner \cup {Garbage}

MaxEntries(b) == IF b = Root THEN RootMax ELSE NodeMax

-----------------------------------------------------------------------------
(* first_block + len as the code computes it: a uint32_t *)
End(e) == Wrap(e.first + e.len)
(* the same sum in 64 bits, as the validators compute it *)
End64(e) == e.first + e.len

Covers(e, l) == e.first <= l /\ l < End(e)

MaxLenFor(e) == IF e.unwritten THEN MaxLen - 1 ELSE MaxLen

(* Mutant: forgets that the blocks must be consecutive on the device too. *)
CanMergeLogically(e1, e2) ==
    /\ e1.unwritten = e2.unwritten
    /\ End(e1) = e2.first
    /\ e1.len + e2.len <= MaxLenFor(e1)

CanMerge(e1, e2) ==
    /\ e1.unwritten = e2.unwritten
    /\ End(e1) = e2.first
    /\ e1.len + e2.len <= MaxLenFor(e1)
    /\ e1.start + e1.len = e2.start

(* binsearch_extent and binsearch_idx: the last entry whose key is not above
   l, or the first entry when every key is above l. *)
SearchPos(ents, l) ==
    CHOOSE p \in 1 .. Len(ents) :
        /\ p = 1 \/ ents[p].first <= l
        /\ \A q \in p + 1 .. Len(ents) : l < ents[q].first

ValidHeader(b, n) ==
    n.depth \in 0 .. MaxDepth /\ Len(n.ents) <= MaxEntries(b)

ValidExtent(e) ==
    /\ e.len # 0 /\ End64(e) <= LastLBlock + 1
    /\ e.start \in Blocks /\ e.start + e.len - 1 <= NBlocks

ValidEntry(n, p) ==
    IF n.depth = 0 THEN ValidExtent(n.ents[p]) ELSE n.ents[p].child \in Blocks

(* entries p and p+1 are in order *)
OrderedAt(n, p) ==
    IF n.depth = 0 THEN End64(n.ents[p]) <= n.ents[p + 1].first
                   ELSE n.ents[p].first < n.ents[p + 1].first

ValidEntries(n) ==
    /\ \A p \in 1 .. Len(n.ents) : ValidEntry(n, p)
    /\ \A p \in 1 .. Len(n.ents) - 1 : OrderedAt(n, p)

ValidSelected(n, p) ==
    /\ p \in 1 .. Len(n.ents)
    /\ ValidEntry(n, p)
    /\ p > 1 => OrderedAt(n, p - 1)
    /\ p < Len(n.ents) => OrderedAt(n, p)

-----------------------------------------------------------------------------
(* One element of an extent_search_path: the node's block, its header and the
   selected entry as they were when find_extent read them. *)
PathStep(nd, b, l) ==
    LET n == nd[b]
        p == IF n.ents = <<>> THEN 1 ELSE SearchPos(n.ents, l)
    IN  [blk |-> b, depth |-> n.depth, cnt |-> Len(n.ents), pos |-> p,
         ent |-> IF n.ents = <<>> THEN NoEntry ELSE n.ents[p]]

(* One level further down.  The descent stops at a leaf, at an empty index
   node, and at a selected index that fails validation. *)
Descend(nd, path, l) ==
    LET s == path[Len(path)]
    IN  IF s.depth > 0 /\ s.cnt > 0 /\ ValidSelected(nd[s.blk], s.pos)
        THEN Append(path, PathStep(nd, s.ent.child, l)) ELSE path

(* find_extent's path.  Each set has one element: the path so far. *)
FindPath(nd, l) ==
    LET upTo[k \in 0 .. MaxDepth] ==
            IF k = 0 THEN {<<PathStep(nd, Root, l)>>}
            ELSE {Descend(nd, path, l) : path \in upTo[k - 1]}
    IN  CHOOSE path \in upTo[MaxDepth] : TRUE

Leaf(path) == path[Len(path)]
HaveExtent(path) == Leaf(path).cnt > 0

(* find_extent's result code; EIO covers every failed validation *)
FindResult(nd, path) ==
    IF \/ ~ ValidHeader(Root, nd[Root]) \/ ~ ValidEntries(nd[Root])
       \/ \E k \in 2 .. Len(path) :
              \/ ~ ValidHeader(path[k].blk, nd[path[k].blk])
              \/ path[k].depth # path[k - 1].depth - 1
    THEN "EIO"
    ELSE IF Leaf(path).depth > 0
    THEN (IF Leaf(path).cnt = 0 THEN "ENOENT" ELSE "EIO")
    ELSE IF HaveExtent(path) /\ ~ ValidSelected(nd[Leaf(path).blk], Leaf(path).pos)
    THEN "EIO"
    ELSE "EOK"

(* leftmost_extent_below: the first leaf entry under block b, which must be a
   node of that depth, or NoEntry when the walk meets a bad or empty node or one
   of another depth (EIO) *)
LeftmostBelow(nd, b, depth) ==
    LET good(c) == ValidHeader(c, nd[c]) /\ ValidEntries(nd[c]) /\ nd[c].ents # <<>>
        down[c \in Blocks] ==
            IF good(c) /\ nd[c].depth > 0 THEN nd[c].ents[1].child ELSE c
        at[k \in 0 .. MaxDepth] == IF k = 0 THEN b ELSE down[at[k - 1]]
    IN  IF \A k \in 0 .. depth : good(at[k]) /\ nd[at[k]].depth = depth - k
        THEN nd[at[depth]].ents[1] ELSE NoEntry

(* find_next_extent: {} is ENOENT, {NoEntry} is EIO *)
NextExtent(nd, path) ==
    LET leaf == Leaf(path)
        turns == {k \in 1 .. Len(path) - 1 : path[k].pos < path[k].cnt}
        up == CHOOSE k \in turns : \A j \in turns : j <= k
    IN  IF leaf.pos < leaf.cnt THEN {nd[leaf.blk].ents[leaf.pos + 1]}
        ELSE IF turns = {} THEN {}
        ELSE {LeftmostBelow(nd, nd[path[up].blk].ents[path[up].pos + 1].child,
                            path[up].depth - 1)}

(* Mutant: always behind the selected entry. *)
InsertPosBehind(path, l) == IF HaveExtent(path) THEN Leaf(path).pos + 1 ELSE 1

(* Where insert_new_extent puts an entry with key l in the leaf of path.  Only
   the root is ever an empty leaf. *)
InsertPos(path, l) ==
    IF ~ HaveExtent(path) \/ (Leaf(path).pos = 1 /\ l < Leaf(path).ent.first)
    THEN 1 ELSE Leaf(path).pos + 1

(* Mutant: an entry that starts with the range keeps an empty prefix. *)
TrimEmpty(e, from, to) ==
    IF e.first <= from THEN <<[e EXCEPT !.len = from - e.first]>>
    ELSE IF End64(e) - 1 > to
    THEN <<[e EXCEPT !.first = to + 1, !.len = End64(e) - 1 - to,
                     !.start = e.start + (to + 1 - e.first)]>>
    ELSE <<>>

(* Mutant: the suffix keeps the physical start of the whole entry. *)
TrimKeepsStart(e, from, to) ==
    IF e.first < from THEN <<[e EXCEPT !.len = from - e.first]>>
    ELSE IF End64(e) - 1 > to
    THEN <<[e EXCEPT !.first = to + 1, !.len = End64(e) - 1 - to]>>
    ELSE <<>>

(* What remove_leaf keeps of an entry that meets from..to.  An entry that
   sticks out on both sides is remove_middle_of_extent's. *)
Trim(e, from, to) ==
    IF e.first < from THEN <<[e EXCEPT !.len = from - e.first]>>
    ELSE IF End64(e) - 1 > to
    THEN <<[e EXCEPT !.first = to + 1, !.len = End64(e) - 1 - to,
                     !.start = e.start + (to + 1 - e.first)]>>
    ELSE <<>>

-----------------------------------------------------------------------------
(* Reference definitions: the content of a tree read off without searching. *)

(* The nodes reachable from the root, by levels. *)
Reachable(nd) ==
    LET level[k \in 0 .. MaxDepth] ==
            IF k = 0 THEN {Root}
            ELSE UNION {{nd[b].ents[p].child : p \in 1 .. Len(nd[b].ents)} :
                           b \in {c \in level[k - 1] : nd[c].depth > 0}}
    IN  UNION {level[k] : k \in 0 .. MaxDepth}

(* What a lookup of l answers: ext4_extent_get_blocks without create. *)
Lookup(nd, l) ==
    LET at(path) ==
            IF /\ FindResult(nd, path) = "EOK" /\ HaveExtent(path)
               /\ Covers(Leaf(path).ent, l)
            THEN Leaf(path).ent.start + (l - Leaf(path).ent.first) ELSE Hole
    IN  CHOOSE b \in {at(path) : path \in {FindPath(nd, l)}} : TRUE
=============================================================================
