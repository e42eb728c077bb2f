---------------------------- MODULE FormatWrapper ----------------------------
(***************************************************************************)
(* lwext4_port_format_blockdev, port/lwext4_port_format.c: it checks the   *)
(* parameters, rounds the length to whole block groups, and runs mkfs on a *)
(* shadow device that passes requests on to the adapter and counts blocks  *)
(* for the progress callback.                                              *)
(*                                                                         *)
(* mkfs is external: any requests, up to the first that fails.  The        *)
(* adapter's side of formatting, with its locks, is in BdlAdapter.         *)
(***************************************************************************)
EXTENDS Integers

CONSTANTS Lengths,    \* part_size of the devices that may be formatted
          Configs,    \* [block, inode, progress]: block_size and inode_size as
                      \* passed in (0 is the default; the adapters only let
                      \* powers of two through), whether progress is set
          Default,    \* the default block size, 4096
          MinBlock, MaxBlock,  \* 1024, EXT4_MAX_BLOCK_SIZE
          MinInode,   \* 128
          RoundToFullGroups,   \* the build option
          UintMax,    \* UINT32_MAX
          Interval,   \* progress interval, 4096
          Counts,     \* block counts of mkfs's requests
          MaxRequests \* bound: requests of one mkfs

ASSUME WidthAssumption == Interval \in 1 .. UintMax /\ UintMax \in Nat
ASSUME CountAssumption == Counts \subseteq 0 .. UintMax /\ MaxRequests \in Nat
ASSUME ConfigAssumption ==
    /\ Lengths \subseteq Nat
    /\ \A c \in Configs : c.block \in Nat /\ c.inode \in Nat /\ c.progress \in BOOLEAN
ASSUME BlockAssumption == MinBlock \in Nat \ {0} /\ MaxBlock \in Nat /\ MaxBlock <= UintMax \div 8 /\ Default \in Nat

VARIABLES phase,      \* "idle", "mkfs", or how the call ended: "ok", "error"
          partSize,   \* part_size
          config,
          length,     \* info.len
          since,      \* blocks_since_progress
          moved,      \* blocks_read + blocks_written
          reported,   \* moved at the last progress callback
          requests

formatVars == <<phase, partSize, config, length, since, moved, reported, requests>>

BlockSize == IF config.block # 0 THEN config.block ELSE Default

PowerOfTwo(n) == n > 0 /\ \E k \in 0 .. n : 2 ^ k = n

ValidSizes ==
    /\ BlockSize \in MinBlock .. MaxBlock /\ BlockSize <= UintMax \div 8
    /\ config.inode # 0 =>
          config.inode \in MinInode .. BlockSize /\ PowerOfTwo(config.inode)

GroupBytes == BlockSize * 8 * BlockSize

(* Mutant of Rounded: up to the next group. *)
RoundedUp(len) == ((len + GroupBytes - 1) \div GroupBytes) * GroupBytes
Rounded(len) == (len \div GroupBytes) * GroupBytes

FormatInit ==
    /\ phase = "idle" /\ partSize \in Lengths /\ config \in Configs
    /\ length = 0 /\ since = 0 /\ moved = 0 /\ reported = 0 /\ requests = 0

Start ==
    /\ phase = "idle"
    /\ LET len == IF RoundToFullGroups THEN Rounded(partSize) ELSE partSize
           good == ValidSizes /\ (RoundToFullGroups => len # 0)
       IN  /\ length' = IF good THEN len ELSE length
           /\ phase' = IF good THEN "mkfs" ELSE "error"
    /\ UNCHANGED <<partSize, config, since, moved, reported, requests>>

(* Mutant of Added: the sum of two uint32_t. *)
AddedWraps(n) == (since + n) % (UintMax + 1)
Added(n) == IF UintMax - since < n THEN Interval ELSE since + n

(* Mutant of Due: one block late. *)
DueLate(n) == Added(n) > Interval
Due(n) == Added(n) >= Interval

(* format_wrapper_account and format_wrapper_report *)
Account(n) ==
    IF ~config.progress THEN UNCHANGED <<since, reported>>
    ELSE /\ since' = IF Due(n) THEN 0 ELSE Added(n)
         /\ reported' = IF Due(n) THEN moved' ELSE reported

(* A request that the adapter served, and one that it failed *)
Transfer ==
    /\ phase = "mkfs" /\ requests < MaxRequests
    /\ requests' = requests + 1
    /\ \E n \in Counts :
          \/ moved' = moved + n /\ Account(n) /\ UNCHANGED phase
          \/ phase' = "error" /\ UNCHANGED <<since, moved, reported>>
    /\ UNCHANGED <<partSize, config, length>>

Finish ==
    /\ phase = "mkfs"
    /\ phase' = "ok"
    /\ UNCHANGED <<partSize, config, length, since, moved, reported, requests>>

FormatNext == Start \/ Transfer \/ Finish

FormatSpec == FormatInit /\ [][FormatNext]_formatVars

-----------------------------------------------------------------------------
(* The counter never stands at the interval between two requests. *)
FormatTypeOK ==
    /\ phase \in {"idle", "mkfs", "ok", "error"} /\ partSize \in Lengths /\ config \in Configs
    /\ length \in Nat /\ since \in 0 .. Interval - 1 /\ requests \in 0 .. MaxRequests
    /\ moved \in Nat /\ reported \in Nat

(* The callback is called in time ("approximately every 4096 physical blocks",
   lwext4_port_bdl.h): the blocks moved since the last call stay below the
   interval, even when a request is so large that the counter saturates. *)
ProgressTimely == config.progress => moved - reported < Interval

(* What mkfs is told to format is part of the device, at least one group, and
   with rounding whole groups, of which none is left out. *)
LengthFits ==
    phase \in {"mkfs", "ok"} =>
        /\ length <= partSize
        /\ RoundToFullGroups => /\ length >= GroupBytes /\ length % GroupBytes = 0
                                /\ partSize - length < GroupBytes
=============================================================================
