------------------------------ MODULE ExtentMap ------------------------------
(***************************************************************************)
(* What the extent layer (port/lwext4_extent.c) promises to lwext4: one    *)
(* file is a partial map from logical to physical blocks.                  *)
(*                                                                         *)
(*  - ext4_extent_get_blocks(create) maps a run of logical blocks that     *)
(*    were all holes onto a run of consecutive physical blocks that the    *)
(*    file did not use, and changes nothing else;                          *)
(*  - ext4_extent_remove_space turns exactly the requested range into      *)
(*    holes;                                                               *)
(*  - a transaction that fails, or is cut by a power loss, leaves the map  *)
(*    of the last commit.                                                  *)
(*                                                                         *)
(* ExtentTree is shown to implement this module.                           *)
(***************************************************************************)
EXTENDS Integers

CONSTANTS LBlocks,   \* logical block numbers, an interval 0..n of Nat
          Blocks     \* physical block numbers, a set of positive numbers

Hole == 0

Maps == [LBlocks -> Blocks \cup {Hole}]

VARIABLES current,   \* the map the caller sees at this point of its transaction
          durable    \* the map a restart would find

vars == <<current, durable>>

(* No physical block stands for two logical blocks. *)
Injective(m) ==
    \A a, b \in LBlocks : (a # b /\ m[a] # Hole) => m[a] # m[b]

TypeOK == current \in Maps /\ durable \in Maps

Init == current \in {m \in Maps : Injective(m)} /\ durable = current

(* A successful allocation: physical first, first+1, ... for the logical
   blocks l, l+1, ..., last. *)
MapRange(l, last, first) ==
    LET dom == l .. last
        ran == first .. first + (last - l)
    IN  /\ l <= last
        /\ dom \subseteq LBlocks
        /\ ran \subseteq Blocks
        /\ \A x \in dom : current[x] = Hole
        /\ \A x \in LBlocks : current[x] \notin ran
        /\ current' = [x \in LBlocks |->
                          IF x \in dom THEN first + (x - l) ELSE current[x]]
        /\ UNCHANGED durable

(* A successful removal of the range from..to. *)
UnmapRange(from, to) ==
    /\ current' = [x \in LBlocks |->
                      IF x \in from .. to THEN Hole ELSE current[x]]
    /\ UNCHANGED durable

(* The caller's transaction commits (and may go on in a new one). *)
Commit == durable' = current /\ UNCHANGED current

(* Abort by the caller, or a crash. *)
Rollback == current' = durable /\ UNCHANGED durable

Next ==
    \/ Commit
    \/ Rollback
    \/ \E from, to \in LBlocks : UnmapRange(from, to)
    \/ \E l, last \in LBlocks, first \in Blocks : MapRange(l, last, first)

Spec == Init /\ [][Next]_vars

-----------------------------------------------------------------------------
(* Two logical blocks of a file never share a physical block, neither in the
   view of the running transaction nor after a restart. *)
NeverShared == Injective(current) /\ Injective(durable)
=============================================================================
