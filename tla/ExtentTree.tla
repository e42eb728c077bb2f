------------------------------ MODULE ExtentTree ------------------------------
(***************************************************************************)
(* ext4_extent_get_blocks and ext4_extent_remove_space of                  *)
(* port/lwext4_extent.c on one inode, step by step.                        *)
(*                                                                         *)
(* lwext4 holds its mount lock around every call, so one operation runs at *)
(* a time; what can happen between two of its steps is a failed block read *)
(* or write, a failed allocation, or a power loss.  A step is therefore    *)
(* one change of persistent state (one node block or the root rewritten,   *)
(* blocks taken from or given to the allocator).                           *)
(*                                                                         *)
(* External, modelled from how this code uses it: the block allocator      *)
(* (ext4_balloc), the block cache, and the caller's journal transaction.   *)
(***************************************************************************)
EXTENDS ExtentNode, SequencesExt

CONSTANTS Workloads,          \* trees found at mount, and what is done to them
          GoalBlock,          \* ext4_fs_inode_to_goal_block
          Allocate(_, _)      \* Allocate(goal, free): blocks the allocator may pick

(***************************************************************************)
(* A workload is a record: node and free are the tree found at mount;      *)
(* blocks the logical blocks the caller asks for, counts its values of     *)
(* max_blocks, ranges the pairs <<from, to>> it removes; and ops, txnOps   *)
(* and faults the bounds: operations in all, operations in one             *)
(* transaction, and injected I/O failures.                                 *)
(***************************************************************************)
ASSUME WorkloadAssumption ==
    \A w \in Workloads :
        /\ w.blocks \subseteq LBlocks /\ w.counts \subseteq Nat \ {0}
        /\ w.ranges \subseteq LBlocks \X LBlocks
        /\ w.ops \in Nat /\ w.txnOps \in Nat \ {0} /\ w.faults \in Nat

ASSUME GoalAssumption == GoalBlock \in Nat

MaxTries == 2 * MaxDepth + 4      \* ensure_insert_room's attempts

VARIABLES load,      \* the workload
          node,      \* node[b]: the content of block b; node[Root] is in the inode
          free,      \* blocks the allocator has
          op,        \* the operation in progress
          saved,     \* [node, free] at the last commit, and its mapping (auxiliary)
          journaled, \* a journal is started, so callers open transactions
          nops,      \* operations begun
          ntxn,      \* operations in the open transaction
          faults,    \* failures left to inject
          view       \* auxiliary: the mapping after the last successful operation

disk == <<node, free>>
bounds == <<nops, ntxn, faults>>
given == <<load, journaled>>
vars == <<node, free, op, saved, given, bounds, view>>

(***************************************************************************)
(* op.pc is where the operation is; lo..hi the logical range it is about;  *)
(* from remove_space's cursor and cut the end of its current removal;      *)
(* first, cnt the blocks allocated (or found) and goal the next preference; *)
(* path the last find_extent; lvl the node being treated and key the       *)
(* separator on its way up; fresh a metadata block not linked yet; tries   *)
(* the attempts of ensure_insert_room; res the result code.                *)
(***************************************************************************)
IdleOp == [pc |-> "idle", kind |-> "none", lo |-> 0, hi |-> 0, from |-> 0,
           cut |-> 0, first |-> 0, cnt |-> 0, goal |-> 0, path |-> <<>>,
           lvl |-> 0, key |-> 0, fresh |-> {}, tries |-> 0, res |-> "EOK"]

(* ext4_extent_tree_init: an empty leaf as root *)
EmptyTree ==
    [node |-> [b \in Blocks \cup {Root} |->
                  IF b = Root THEN [depth |-> 0, ents |-> <<>>] ELSE Garbage],
     free |-> Blocks]

MapOf(nd) == [l \in LBlocks |-> Lookup(nd, l)]

Init ==
    /\ load \in Workloads
    /\ node = load.node /\ free = load.free
    /\ view = MapOf(node)
    /\ saved = [node |-> node, free |-> free, map |-> view]
    /\ op = IdleOp
    /\ journaled \in BOOLEAN
    /\ nops = 0 /\ ntxn = 0 /\ faults = load.faults

-----------------------------------------------------------------------------
(* Shared pieces of the steps. *)

Finish(o, r) == [o EXCEPT !.pc = "done", !.res = r]

(* Mutant: the error is lost on the way out. *)
FailQuietly(o, r) == [o EXCEPT !.pc = "undo"]

(* An error return: free_new_metadata_block and get_blocks' release of its
   data blocks are still to come. *)
Fail(o, r) == [o EXCEPT !.pc = "undo", !.res = r]

OpBlocks(o) == IF o.kind = "get" THEN o.first .. o.first + o.cnt - 1 ELSE {}

(* What follows a completed leaf change: get_blocks returns, remove_space
   moves its cursor past the piece it removed. *)
Resume(o) ==
    IF o.kind = "get" \/ o.cut = LastLBlock THEN Finish(o, "EOK")
    ELSE [o EXCEPT !.pc = "remove", !.from = o.cut + 1]

(* Store n in block b and go on with o.  The root is in memory; a block goes
   through node_block_put, whose failure may or may not leave the new
   content in the cache. *)
Write(b, n, o) ==
    \/ /\ node' = [node EXCEPT ![b] = n]
       /\ op' = o
       /\ UNCHANGED faults
    \/ /\ b # Root /\ faults > 0
       /\ node' \in {node, [node EXCEPT ![b] = n]}
       /\ op' = Fail(op, "EIO")
       /\ faults' = faults - 1

(* The caller sees the new mapping when the operation returns success. *)
Returned(o) == o.pc = "done" /\ o.res = "EOK"

Step ==
    /\ view' = IF Returned(op') THEN MapOf(node') ELSE view
    /\ UNCHANGED <<saved, given, nops, ntxn>>

(* ext4_balloc_free_blocks, which may fail without effect *)
Free(S, o) ==
    \/ free' = free \cup S /\ op' = o /\ UNCHANGED faults
    \/ faults > 0 /\ op' = Fail(op, "EIO") /\ faults' = faults - 1 /\ UNCHANGED free

(* ext4_balloc_alloc_block answers a free block, as near the goal as it can *)
Pick(goal) == Allocate(goal, free) \cap free

(* ... for one metadata block *)
AllocMeta(next) ==
    \/ /\ free # {}
       /\ \E b \in Pick(GoalBlock) :
             free' = free \ {b} /\ op' = [next EXCEPT !.fresh = {b}]
       /\ UNCHANGED faults
    \/ free = {} /\ op' = Fail(op, "ENOSPC") /\ UNCHANGED <<free, faults>>
    \/ faults > 0 /\ op' = Fail(op, "EIO") /\ faults' = faults - 1 /\ UNCHANGED free

-----------------------------------------------------------------------------
(* ext4_extent_get_blocks *)

(* Mutant: the run may go past the next mapped block. *)
AllocCapBlind(path, l, max) == {IF max < MaxLen THEN max ELSE MaxLen}

(* The largest run it may allocate at l: up to max_blocks, up to the longest
   extent, and up to the next mapped block.  {} when the walk fails. *)
AllocCap(path, l, max) ==
    LET room == IF max < MaxLen THEN max ELSE MaxLen
        next == IF ~ HaveExtent(path) THEN {}
                ELSE IF l < Leaf(path).ent.first THEN {Leaf(path).ent}
                ELSE NextExtent(node, path)
        gaps == {e.first - l : e \in next}
    IN  IF \E e \in next : e = NoEntry \/ e.first <= l THEN {}
        ELSE {CHOOSE c \in gaps \cup {room} : \A d \in gaps \cup {room} : c <= d}

(* Entry, lookup, and the returns that change nothing *)
GetBlocks(l, max, create) ==
    LET path == FindPath(node, l)
        e == Leaf(path).ent
        o == [IdleOp EXCEPT !.kind = "get", !.lo = l, !.hi = l, !.path = path]
        caps == AllocCap(path, l, max)
        hit == HaveExtent(path) /\ Covers(e, l)
        avail == e.len - (l - e.first)
        goal == IF HaveExtent(path) /\ End(e) = l THEN e.start + e.len ELSE GoalBlock
    IN  /\ op.pc = "idle" /\ nops < load.ops /\ ntxn < load.txnOps
        /\ op' = IF FindResult(node, path) # "EOK" THEN Finish(o, FindResult(node, path))
                 ELSE IF hit /\ e.unwritten
                 THEN Finish(o, IF create THEN "ENOTSUP" ELSE "EOK")
                 ELSE IF hit
                 THEN [Finish(o, "EOK") EXCEPT !.first = e.start + (l - e.first),
                                               !.cnt = IF max < avail THEN max ELSE avail]
                 ELSE IF ~ create THEN Finish(o, "EOK")
                 ELSE IF ~ journaled THEN Finish(o, "ENOTSUP")
                 ELSE IF caps = {} THEN Finish(o, "EIO")
                 ELSE [o EXCEPT !.pc = "alloc", !.goal = goal,
                                !.hi = l + (CHOOSE c \in caps : TRUE) - 1]
        /\ nops' = nops + 1 /\ ntxn' = ntxn + 1
        /\ UNCHANGED <<disk, saved, given, faults, view>>

(* One turn of the allocation loop: a block that does not continue the run
   is given back and ends it; running out ends it too.  On an error the
   candidate may have leaked. *)
AllocBlock ==
    LET cap == op.hi - op.lo + 1
        stop == [op EXCEPT !.pc = "insert", !.hi = op.lo + op.cnt - 1]
    IN  /\ op.pc = "alloc"
        /\ \/ /\ free # {}
              /\ \E c \in Pick(op.goal) :
                    IF op.cnt = 0 \/ c = op.first + op.cnt
                    THEN /\ free' = free \ {c}
                         /\ op' = [op EXCEPT !.pc = IF op.cnt + 1 = cap THEN "insert" ELSE "alloc",
                                             !.first = IF op.cnt = 0 THEN c ELSE @,
                                             !.cnt = @ + 1, !.goal = c + 1]
                    ELSE op' = stop /\ UNCHANGED free
              /\ UNCHANGED faults
           \/ /\ free = {}
              /\ op' = IF op.cnt = 0 THEN Finish(op, "ENOSPC") ELSE stop
              /\ UNCHANGED <<free, faults>>
           \/ /\ faults > 0 /\ faults' = faults - 1
              /\ op' = Fail(op, "EIO")
              /\ free' \in {free} \cup {free \ {c} : c \in Pick(op.goal)}
        /\ UNCHANGED node /\ Step

(* insert_new_extent into the leaf of path, which has room *)
InsertNew(path, e) ==
    LET leaf == Leaf(path)
        p == InsertPos(path, e.first)
        n == [node[leaf.blk] EXCEPT !.ents = InsertAt(@, p, e)]
    IN  Write(leaf.blk, n,
              IF p = 1 /\ Len(path) > 1
              THEN [op EXCEPT !.pc = "fix", !.path = path, !.lvl = Len(path), !.key = e.first]
              ELSE Resume(op))

(* merge_extent: entry p of the leaf becomes left lengthened by right *)
MergeAt(leaf, p, left, right) ==
    Write(leaf.blk, [node[leaf.blk] EXCEPT !.ents[p] = [left EXCEPT !.len = @ + right.len]],
          Resume(op))

(* insert_extent *)
InsertExtent ==
    LET new == [first |-> op.lo, len |-> op.cnt, start |-> op.first, unwritten |-> FALSE]
        path == FindPath(node, op.lo)
        leaf == Leaf(path)
        e == leaf.ent
        ents == node[leaf.blk].ents
        overlap == HaveExtent(path) /\ Covers(e, op.lo)
        mergeLeft == HaveExtent(path) /\ CanMerge(e, new)
        mergeRight == /\ HaveExtent(path) /\ leaf.pos < leaf.cnt
                      /\ End(e) < new.first
                      /\ CanMerge(new, ents[leaf.pos + 1])
        mergePrev == /\ HaveExtent(path) /\ leaf.pos > 1
                     /\ End(new) < e.first
                     /\ CanMerge(ents[leaf.pos - 1], new)
        skip == UNCHANGED <<node, faults>>
    IN  /\ op.pc = "insert"
        /\ IF FindResult(node, path) # "EOK" THEN op' = Fail(op, "EIO") /\ skip
           ELSE IF overlap THEN op' = Fail(op, "EEXIST") /\ skip
           ELSE IF mergeLeft THEN MergeAt(leaf, leaf.pos, e, new)
           ELSE IF mergeRight THEN MergeAt(leaf, leaf.pos + 1, new, ents[leaf.pos + 1])
           ELSE IF mergePrev THEN MergeAt(leaf, leaf.pos - 1, ents[leaf.pos - 1], new)
           ELSE IF leaf.cnt < MaxEntries(leaf.blk) THEN InsertNew(path, new)
           ELSE op' = [op EXCEPT !.pc = "room"] /\ skip
        /\ UNCHANGED free /\ Step

-----------------------------------------------------------------------------
(* Mutant: one block too few. *)
RemoveBlocksShort(e, from, to) ==
    e.start + (from - e.first) .. e.start + (to - e.first) - 1

(* remove_blocks: the blocks of from..to, which lies in extent e *)
RemoveBlocks(e, from, to) == e.start + (from - e.first) .. e.start + (to - e.first)

(* remove_middle_of_extent once there is room: prefix and suffix replace the
   extent, and then the blocks between are freed *)
RemoveMiddlePut(path) ==
    LET leaf == Leaf(path)
        e == leaf.ent
        from == op.from
        to == op.hi
        prefix == [e EXCEPT !.len = from - e.first]
        suffix == [e EXCEPT !.first = to + 1, !.len = End64(e) - 1 - to,
                            !.start = e.start + (to + 1 - e.first)]
        ents == node[leaf.blk].ents
    IN  IF leaf.cnt >= MaxEntries(leaf.blk) \/ e.first >= from \/ to >= End64(e) - 1
        THEN op' = Fail(op, "EIO") /\ UNCHANGED <<node, faults>>
        ELSE Write(leaf.blk,
                   [node[leaf.blk] EXCEPT !.ents = InsertAt([ents EXCEPT ![leaf.pos] = prefix],
                                                            leaf.pos + 1, suffix)],
                   [op EXCEPT !.pc = "middlefree", !.path = path])

RemoveMiddleFree ==
    /\ op.pc = "middlefree"
    /\ Free(RemoveBlocks(Leaf(op.path).ent, op.from, op.hi), Finish(op, "EOK"))
    /\ UNCHANGED node /\ Step

(* One attempt of ensure_insert_room: grow a full root, or split the topmost
   full node of the path, or let the caller insert. *)
EnsureInsertRoom ==
    LET l == IF op.kind = "get" THEN op.lo ELSE op.from
        path == FindPath(node, l)
        full == {k \in 2 .. Len(path) : path[k].cnt >= NodeMax}
        skip == UNCHANGED <<node, faults>>
        new == [first |-> op.lo, len |-> op.cnt, start |-> op.first, unwritten |-> FALSE]
    IN  /\ op.pc = "room"
        /\ IF op.tries = MaxTries \/ FindResult(node, path) # "EOK"
           THEN op' = Fail(op, "EIO") /\ skip
           ELSE IF path[1].cnt >= RootMax
           THEN op' = [op EXCEPT !.pc = "grow", !.tries = @ + 1] /\ skip
           ELSE IF full # {}
           THEN /\ op' = [op EXCEPT !.pc = "split", !.tries = @ + 1, !.path = path,
                                    !.lvl = CHOOSE k \in full : \A j \in full : k <= j]
                /\ skip
           ELSE IF op.kind = "get" THEN InsertNew(path, new)
           ELSE RemoveMiddlePut(path)
        /\ UNCHANGED free /\ Step

(* grow_indepth: the root moves into a new block, then points to it *)
GrowAlloc ==
    /\ op.pc = "grow"
    /\ IF node[Root].depth >= MaxDepth
       THEN op' = Fail(op, "EFBIG") /\ UNCHANGED <<free, faults>>
       ELSE AllocMeta([op EXCEPT !.pc = "growput"])
    /\ UNCHANGED node /\ Step

GrowPut ==
    /\ op.pc = "growput"
    /\ \E b \in op.fresh : Write(b, node[Root], [op EXCEPT !.pc = "growroot"])
    /\ UNCHANGED free /\ Step

GrowRoot ==
    /\ op.pc = "growroot"
    /\ \E b \in op.fresh :
          node' = [node EXCEPT ![Root] =
                     [depth |-> @.depth + 1,
                      ents |-> <<[first |-> IF @.ents = <<>> THEN 0 ELSE @.ents[1].first,
                                  child |-> b]>>]]
    /\ op' = [op EXCEPT !.pc = "room", !.fresh = {}]
    /\ UNCHANGED <<free, faults>> /\ Step

-----------------------------------------------------------------------------
(* split_full_node: the upper half is copied to a new block, the block is
   linked in the parent, and only then the old node is shortened *)
SplitMid(cnt) == cnt \div 2

SplitAlloc ==
    LET s == op.path[op.lvl]
    IN  /\ op.pc = "split"
        /\ IF ~ ValidEntries(node[s.blk]) \/ s.cnt < 2
           THEN op' = Fail(op, "EIO") /\ UNCHANGED <<free, faults>>
           ELSE IF op.path[op.lvl - 1].cnt >= MaxEntries(op.path[op.lvl - 1].blk)
           THEN op' = Fail(op, "ENOSPC") /\ UNCHANGED <<free, faults>>
           ELSE AllocMeta([op EXCEPT !.pc = "splitright"])
        /\ UNCHANGED node /\ Step

SplitRight ==
    LET s == op.path[op.lvl]
        ents == node[s.blk].ents
    IN  /\ op.pc = "splitright"
        /\ \E b \in op.fresh :
              Write(b, [depth |-> s.depth, ents |-> SubSeq(ents, SplitMid(s.cnt) + 1, s.cnt)],
                    [op EXCEPT !.pc = "splitindex", !.key = ents[SplitMid(s.cnt) + 1].first])
        /\ UNCHANGED free /\ Step

(* insert_index_entry into the parent *)
SplitIndex ==
    LET up == op.path[op.lvl - 1]
        n == node[up.blk]
        p == Cardinality({q \in 1 .. up.cnt : n.ents[q].first <= op.key}) + 1
        stale == Len(n.ents) # up.cnt \/ n.depth # up.depth \/ ~ ValidEntries(n)
        dup == p > 1 /\ n.ents[p - 1].first = op.key
    IN  /\ op.pc = "splitindex"
        /\ IF up.blk # Root /\ stale
           THEN op' = Fail(op, "EIO") /\ UNCHANGED <<node, faults>>
           ELSE IF dup THEN op' = Fail(op, "EEXIST") /\ UNCHANGED <<node, faults>>
           ELSE \E b \in op.fresh :
                   Write(up.blk, [n EXCEPT !.ents = InsertAt(@, p, [first |-> op.key, child |-> b])],
                         [op EXCEPT !.pc = "splitleft", !.fresh = {}])
        /\ UNCHANGED free /\ Step

SplitLeft ==
    LET s == op.path[op.lvl]
    IN  /\ op.pc = "splitleft"
        /\ Write(s.blk, [node[s.blk] EXCEPT !.ents = SubSeq(@, 1, SplitMid(s.cnt))],
                 [op EXCEPT !.pc = "room"])
        /\ UNCHANGED free /\ Step

(* Mutants: only the separator of the leaf is corrected; the level is not
   counted down *)
FixOneLevel(up) == TRUE
CorrectSameLevel ==
    LET up == op.path[op.lvl - 1]
    IN  /\ op.pc = "fix"
        /\ Write(up.blk, [node[up.blk] EXCEPT !.ents[up.pos] = [up.ent EXCEPT !.first = op.key]],
                 IF up.pos # 1 \/ op.lvl = 2 THEN Resume(op) ELSE op)
        /\ UNCHANGED free /\ Step

(* The separator in path element up has no copy above it. *)
FixDone(up) == up.pos # 1 \/ op.lvl = 2

(* One turn of correct_indexes: the separator above level lvl becomes key,
   and so on upwards while it is the first of its node *)
CorrectIndexes ==
    LET up == op.path[op.lvl - 1]
    IN  /\ op.pc = "fix"
        /\ Write(up.blk, [node[up.blk] EXCEPT !.ents[up.pos] = [up.ent EXCEPT !.first = op.key]],
                 IF FixDone(up) THEN Resume(op) ELSE [op EXCEPT !.lvl = @ - 1])
        /\ UNCHANGED free /\ Step

-----------------------------------------------------------------------------
(* ext4_extent_remove_space *)
RemoveSpace(from, to) ==
    LET o == [IdleOp EXCEPT !.kind = "remove", !.lo = from, !.hi = to, !.from = from]
    IN  /\ op.pc = "idle" /\ nops < load.ops /\ ntxn < load.txnOps
        /\ op' = IF journaled THEN [o EXCEPT !.pc = "remove"] ELSE Finish(o, "ENOTSUP")
        /\ nops' = nops + 1 /\ ntxn' = ntxn + 1
        /\ UNCHANGED <<disk, saved, given, faults, view>>

(* One turn of its loop, once find_extent has succeeded *)
RemoveTurn(path) ==
    LET e == Leaf(path).ent
        last == Wrap(e.first + e.len - 1)
    IN  IF ~ HaveExtent(path) \/ e.first > op.hi THEN Finish(op, "EOK")
        ELSE IF e.first < op.from /\ op.hi < last
        THEN [op EXCEPT !.pc = "room", !.tries = 0]
        ELSE IF last >= op.from
        THEN [op EXCEPT !.pc = "leaffree", !.path = path,
                        !.cut = IF last < op.hi THEN last ELSE op.hi]
        ELSE LET next == NextExtent(node, path)
             IN  IF next = {} THEN Finish(op, "EOK")
                 ELSE IF NoEntry \in next THEN Fail(op, "EIO")
                 ELSE [op EXCEPT !.from = (CHOOSE x \in next : TRUE).first]

RemoveLoop ==
    /\ op.pc = "remove"
    /\ \E path \in {FindPath(node, op.from)} :
          op' = IF op.from > op.hi THEN Finish(op, "EOK")
                ELSE IF FindResult(node, path) # "EOK" THEN Fail(op, FindResult(node, path))
                ELSE RemoveTurn(path)
    /\ UNCHANGED <<disk, faults>> /\ Step

(* remove_leaf frees the blocks first and then rewrites the node.  The caller
   cuts the range at the end of the selected entry, so the walk over the
   node's entries stops after that one. *)
RemoveLeafFree ==
    LET e == Leaf(op.path).ent
        start == IF e.first < op.from THEN op.from ELSE e.first
    IN  /\ op.pc = "leaffree"
        /\ Free(RemoveBlocks(e, start, op.cut), [op EXCEPT !.pc = "leafput"])
        /\ UNCHANGED node /\ Step

RemoveLeafPut ==
    LET leaf == Leaf(op.path)
        old == node[leaf.blk].ents
        ents == SubSeq(old, 1, leaf.pos - 1) \o Trim(leaf.ent, op.from, op.cut)
                    \o SubSeq(old, leaf.pos + 1, leaf.cnt)
    IN  /\ op.pc = "leafput"
        /\ Write(leaf.blk, [node[leaf.blk] EXCEPT !.ents = ents],
                 IF Len(op.path) = 1 THEN Resume(op)
                 ELSE IF ents = <<>> THEN [op EXCEPT !.pc = "index", !.lvl = Len(op.path) - 1]
                 ELSE IF leaf.pos = 1
                 THEN [op EXCEPT !.pc = "fix", !.lvl = Len(op.path), !.key = ents[1].first]
                 ELSE Resume(op))
        /\ UNCHANGED free /\ Step

(* remove_index at level lvl: drop the entry, then free the child block *)
RemoveIndex ==
    LET s == op.path[op.lvl]
    IN  /\ op.pc = "index"
        /\ Write(s.blk, [node[s.blk] EXCEPT !.ents = RemoveAt(@, s.pos)],
                 [op EXCEPT !.pc = "indexfree"])
        /\ UNCHANGED free /\ Step

(* ... then correct the separators above, or drop the empty node too; an
   empty root becomes a leaf again *)
RemoveIndexFree ==
    LET s == op.path[op.lvl]
        ents == node[s.blk].ents
        collapse == ents = <<>> /\ s.blk = Root
    IN  /\ op.pc = "indexfree"
        /\ \/ /\ free' = free \cup {s.ent.child}
              /\ op' = IF ents = <<>> /\ ~ collapse
                       THEN [op EXCEPT !.pc = "index", !.lvl = @ - 1]
                       ELSE IF s.pos = 1 /\ ents # <<>> /\ op.lvl > 1
                       THEN [op EXCEPT !.pc = "fix", !.key = ents[1].first]
                       ELSE Resume(op)
              /\ node' = IF collapse THEN [node EXCEPT ![Root].depth = 0] ELSE node
              /\ UNCHANGED faults
           \/ /\ faults > 0 /\ faults' = faults - 1
              /\ op' = Fail(op, "EIO")
              /\ UNCHANGED disk
        /\ Step

-----------------------------------------------------------------------------
(* A block the operation has to read cannot be read: on the way down from
   the root, or before a step that changes more than that block.  (Where one
   block is read and written back, Write's failure covers its read too.) *)
ReadFails ==
    /\ faults > 0 /\ faults' = faults - 1
    /\ \/ op.pc \in {"insert", "room", "remove"} /\ node[Root].depth > 0
       \/ op.pc = "split"
       \/ op.pc = "leaffree" /\ Leaf(op.path).blk # Root
    /\ op' = Fail(op, "EIO")
    /\ UNCHANGED disk /\ Step

(* The error returns on the way out: the unlinked metadata block and the
   data blocks are given back (a failing free leaks them). *)
Undo ==
    /\ op.pc = "undo"
    /\ \/ free' = free \cup op.fresh \cup OpBlocks(op) /\ UNCHANGED faults
       \/ /\ faults > 0 /\ faults' = faults - 1
          /\ \E S \in {op.fresh, OpBlocks(op)} : free' = free \cup S
    /\ op' = [op EXCEPT !.pc = "done", !.fresh = {}, !.cnt = 0]
    /\ UNCHANGED node /\ Step

-----------------------------------------------------------------------------
(* The caller's transaction (external).  Blocks freed in it can be reused by
   anyone once it ends, so their content is forgotten. *)
Reuse(nd, fr) == [b \in Blocks \cup {Root} |-> IF b \in fr THEN Garbage ELSE nd[b]]

(* The operation succeeded and the caller goes on in the same transaction. *)
Continue ==
    /\ op.pc = "done" /\ op.res = "EOK" /\ ntxn < load.txnOps
    /\ op' = IdleOp
    /\ UNCHANGED <<disk, saved, given, bounds, view>>

Commit ==
    /\ op.pc = "done" /\ op.res = "EOK"
    /\ op' = IdleOp
    /\ node' = Reuse(node, free)
    /\ saved' = [node |-> Reuse(node, free), free |-> free, map |-> MapOf(Reuse(node, free))]
    /\ ntxn' = 0
    /\ UNCHANGED <<free, given, nops, faults, view>>

Restore ==
    /\ op' = IdleOp
    /\ node' = saved.node
    /\ free' = saved.free
    /\ view' = saved.map
    /\ ntxn' = 0
    /\ UNCHANGED <<saved, given, nops, faults>>

(* The operation failed and the caller aborts. *)
Abort == op.pc = "done" /\ op.res # "EOK" /\ Restore

(* Power loss in the middle of an operation; the journal is replayed at the
   next mount. *)
Crash == op.pc \notin {"idle", "done"} /\ Restore

-----------------------------------------------------------------------------
OpStep ==
    \/ AllocBlock \/ InsertExtent \/ EnsureInsertRoom
    \/ GrowAlloc \/ GrowPut \/ GrowRoot
    \/ SplitAlloc \/ SplitRight \/ SplitIndex \/ SplitLeft \/ CorrectIndexes
    \/ RemoveLoop \/ RemoveLeafFree \/ RemoveLeafPut \/ RemoveIndex \/ RemoveIndexFree
    \/ RemoveMiddleFree \/ Undo

Return == Continue \/ Commit \/ Abort

Request ==
    \/ \E l \in load.blocks, max \in load.counts, create \in BOOLEAN : GetBlocks(l, max, create)
    \/ \E r \in load.ranges : RemoveSpace(r[1], r[2])

Next == Request \/ OpStep \/ ReadFails \/ Return \/ Crash

Spec == Init /\ [][Next]_vars

(* An operation that has begun is run to its end by the task that called it;
   it must not take an I/O failure to get there. *)
FairSpec == Spec /\ WF_vars(OpStep /\ UNCHANGED faults) /\ WF_vars(Return)

-----------------------------------------------------------------------------
(* Types of the variables. *)
Pcs == {"idle", "alloc", "insert", "room", "grow", "growput", "growroot", "split",
        "splitright", "splitindex", "splitleft", "fix", "remove", "leaffree", "leafput",
        "index", "indexfree", "middlefree", "undo", "done"}

Errors == {"EOK", "EIO", "ENOSPC", "EEXIST", "ENOTSUP", "EFBIG", "ENOENT"}

PathSteps == [blk : Blocks \cup {Root}, depth : 0 .. MaxDepth, cnt : Nat, pos : Nat,
              ent : Extents \cup Indexes \cup {NoEntry}]

Ops == [pc : Pcs, kind : {"none", "get", "remove"}, lo : LBlocks, hi : Nat, from : Nat,
        cut : Nat, first : Nat, cnt : Nat, goal : Nat, path : Seq(PathSteps), lvl : Nat,
        key : LBlocks, fresh : SUBSET Blocks, tries : Nat, res : Errors]

(* Every variable keeps its type; in particular no node ever mixes extents and
   indexes, and no entry gets a zero or over-long length. *)
TypeOK ==
    /\ node \in [Blocks \cup {Root} -> Nodes]
    /\ free \in SUBSET Blocks
    /\ op \in Ops /\ Cardinality(op.fresh) <= 1
    /\ journaled \in BOOLEAN
    /\ nops \in 0 .. load.ops /\ ntxn \in 0 .. load.txnOps /\ faults \in 0 .. load.faults

-----------------------------------------------------------------------------
(* What a tree has to satisfy between operations. *)

Slots(nd) == UNION {{b} \X (1 .. Len(nd[b].ents)) : b \in Reachable(nd)}
LeafSlots(nd) == {s \in Slots(nd) : nd[s[1]].depth = 0}
InnerSlots(nd) == Slots(nd) \ LeafSlots(nd)
EntryAt(nd, s) == nd[s[1]].ents[s[2]]
DataOf(e) == e.start .. e.start + e.len - 1

NodesValid(nd) ==
    \A b \in Reachable(nd) :
        /\ ValidHeader(b, nd[b]) /\ ValidEntries(nd[b])
        /\ b # Root => nd[b].ents # <<>>

SeparatorsExact(nd) ==
    \A s \in InnerSlots(nd) :
        LET i == EntryAt(nd, s)
        IN  /\ nd[i.child].depth = nd[s[1]].depth - 1
            /\ nd[i.child].ents # <<>> /\ nd[i.child].ents[1].first = i.first

AllFound(nd) ==
    \A s \in LeafSlots(nd) :
        LET e == EntryAt(nd, s)
        IN  \A l \in e.first .. End64(e) - 1 : Lookup(nd, l) = e.start + (l - e.first)

OneOwner(nd, fr) ==
    LET meta == Reachable(nd) \ {Root}
        data == UNION {DataOf(EntryAt(nd, s)) : s \in LeafSlots(nd)}
    IN  /\ Cardinality(InnerSlots(nd)) = Cardinality(meta)
        /\ \A s, t \in LeafSlots(nd) :
              s # t => DataOf(EntryAt(nd, s)) \cap DataOf(EntryAt(nd, t)) = {}
        /\ meta \cap data = {}
        /\ fr = Blocks \ (meta \cup data)

(* The operation, if any, has returned success *)
Quiet == op.pc = "idle" \/ Returned(op)

(* After any sequence of successful allocations and removals, every node
   passes the code's own validation, no external node is empty, and every
   separator is exactly the first key below it (insert_new_extent, remove_leaf,
   remove_index and correct_indexes keep it so through splits and growth). *)
TreeWellFormed == Quiet => NodesValid(node) /\ SeparatorsExact(node)

(* Every block of every extent stored in the tree is found by find_extent's
   descent: nothing is stored where the search does not look. *)
EveryExtentFound == Quiet => AllFound(node)

(* After a successful operation each block has exactly one owner - the free
   list, one index entry or one extent - so nothing leaks and nothing is
   shared; and what a restart finds has the same property. *)
NoLeakNoSharing ==
    /\ Quiet => OneOwner(node, free)
    /\ OneOwner(saved.node, saved.free)

(* At every step of every operation, failed or not, a lookup outside the range
   the operation is about answers as it did before the operation began: grow
   and split publish the new node before the old one is shortened, and
   removal detaches a node only when it is empty. *)
OthersUntouched ==
    ~ Quiet =>
        \A l \in LBlocks \ (op.lo .. op.hi) : Lookup(node, l) = view[l]

(* A get_blocks call that returns EOK with a count has the caller's blocks
   mapped to the returned run; with no count, the block was and is a hole or
   unwritten. *)
ResultIsMapping ==
    (op.pc = "done" /\ op.res = "EOK" /\ op.kind = "get") =>
        /\ \A k \in 0 .. op.cnt - 1 : Lookup(node, op.lo + k) = op.first + k
        /\ op.cnt = 0 => \A s \in LeafSlots(node) :
              LET e == EntryAt(node, s)
              IN  op.lo \in e.first .. End64(e) - 1 => e.unwritten

(* Without I/O errors a valid tree never makes an operation fail except for
   lack of space, depth or a journal: validation never trips over the code's
   own intermediate states, insertion never finds itself overlapping, and
   ensure_insert_room never runs out of attempts. *)
OnlyExpectedErrors ==
    faults = load.faults => op.res \in {"EOK", "ENOSPC", "ENOTSUP", "EFBIG"}

(* insert_extent's own comment: an insertion that starts inside an existing
   extent is rejected, so no two extents of the tree ever overlap. *)
OverlapRejected ==
    \A s, t \in LeafSlots(node) :
        LET d == EntryAt(node, s)
            e == EntryAt(node, t)
        IN  (Quiet /\ s # t) => ~ (d.first \in e.first .. End64(e) - 1)

(* The tree implements the map of ExtentMap: the operation takes effect when
   it returns success, and a failure or crash goes back to the last commit.
   view is the mapping of the tree whenever no operation is in progress. *)
Abstract == INSTANCE ExtentMap
                WITH current <- view, durable <- saved.map

ImplementsMap == Abstract!Spec

(* Every call returns: the removal loop advances, splitting and index
   correction end. *)
EveryCallReturns == (op.pc # "idle") ~> (op.pc = "idle")
=============================================================================
