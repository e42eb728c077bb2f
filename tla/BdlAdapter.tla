------------------------------ MODULE BdlAdapter ------------------------------
(***************************************************************************)
(* The block device adapter over an ESP-IDF BDL device,                    *)
(* port/lwext4_port_bdl.c, with lwext4 above it and the device below.      *)
(*                                                                         *)
(* A call is a program: the sequence of steps that are left of it, todo[t],*)
(* with everything another task can see between two of them.  A call that  *)
(* fails has only its error path left (Cleanup).                           *)
(* What lwext4 does (blocks read and written one locked request at a time, *)
(* the reference count, the order of mount, unmount and mkfs) and what the *)
(* lower device does are external.                                         *)
(***************************************************************************)
EXTENDS Integers, Sequences, FiniteSets

CONSTANTS Tasks,
          Setups,       \* adapters and their use: [lower, config, load], where lower is a
                        \* device [disk, rs, ws, ro, canWrite, canSync], sizes in bytes,
                        \* and config is [pbs, tbb, ro, saw, rewrite]
          Loads,        \* Loads[load]: [requests, calls, faults], the requests of lwext4,
                        \* records [kind, from, cnt, alias, tag], and two bounds: calls
                        \* made, and lower operations that fail
          FormatSizes,  \* file system block sizes that formatting is asked for
          SizeMax,      \* SIZE_MAX
          MaxRefs,      \* bound: mounts at a time
          None

ASSUME TaskAssumption == None \notin Tasks
ASSUME SizeAssumption == SizeMax \in Nat
ASSUME SetupAssumption ==
    Setups \subseteq
      [lower : [disk : Nat, rs : Nat, ws : Nat, ro : BOOLEAN, canWrite : BOOLEAN, canSync : BOOLEAN],
       config : [pbs : Nat, tbb : Nat, ro : BOOLEAN, saw : BOOLEAN, rewrite : BOOLEAN],
       load : DOMAIN Loads]
ASSUME RequestAssumption ==
    \A l \in DOMAIN Loads :
       Loads[l].requests \subseteq [kind : {"read", "write"}, from : Nat, cnt : Nat,
                                   alias : BOOLEAN, tag : STRING]
ASSUME BoundAssumption ==
    /\ MaxRefs \in Nat
    /\ \A l \in DOMAIN Loads : Loads[l].calls \in Nat /\ Loads[l].faults \in Nat

VARIABLES
    geo,        \* the adapter's setup, chosen at its creation
    freed,      \* destroy has freed the adapter
    owner,      \* the task that holds the recursive mutex, or None
    depth,      \* how often it has taken it
    refs,       \* ph_refctr, counted by lwext4
    lastError,  \* last_lower_error: "ok" or "fail"
    buf,        \* the transfer buffer, blocks 1 .. tbb
    media,      \* the lower device
    dirty,      \* blocks that it would lose with its power
    op, todo,   \* each task's call and what is left of it
    res,        \* the call's result so far
    io,         \* the request that bdl_read or bdl_write works on
    later,      \* later[t]: blocks others wrote since t's call began
    calls, faults

vars == <<geo, freed, owner, depth, refs, lastError, buf, media, dirty,
          op, todo, res, io, later, calls, faults>>

device == <<buf, media, dirty, later>>
lock == <<owner, depth>>

Load == Loads[geo.load]
Bsize == geo.config.pbs
Bcnt == geo.lower.disk \div Bsize
Bufs == IF geo.config.tbb = 0 THEN 1 ELSE geo.config.tbb

IsPowerOfTwo(n) == n > 0 /\ \E k \in 0 .. n : 2 ^ k = n

(* validate_create_args accepts configuration c for lower device l. *)
Creatable(l, c) ==
    /\ l.disk # 0 /\ l.rs # 0 /\ IsPowerOfTwo(c.pbs)
    /\ c.pbs % l.rs = 0 /\ l.disk % c.pbs = 0
    /\ ~c.ro => /\ ~l.ro /\ l.canWrite /\ c.rewrite
                /\ l.ws # 0 /\ c.pbs % l.ws = 0
    /\ c.saw => l.canSync
    /\ (IF c.tbb = 0 THEN 1 ELSE c.tbb) <= SizeMax \div c.pbs

NoIo == [on |-> FALSE, kind |-> "none", from |-> 0, cnt |-> 0, pos |-> 0,
         alias |-> FALSE, data |-> <<>>, ok |-> FALSE]

(* create has returned a new adapter. *)
Init ==
    /\ geo \in Setups
    /\ Creatable(geo.lower, geo.config)
    /\ freed = FALSE /\ owner = None /\ depth = 0 /\ refs = 0
    /\ lastError = "ok"
    /\ buf = [i \in 1 .. Bufs |-> <<"empty", i>>]
    /\ media = [b \in 0 .. Bcnt - 1 |-> <<"old", b>>]
    /\ dirty = {}
    /\ op = [t \in Tasks |-> "none"]
    /\ todo = [t \in Tasks |-> <<>>]
    /\ res = [t \in Tasks |-> "ok"]
    /\ io = [t \in Tasks |-> NoIo]
    /\ later = [t \in Tasks |-> {}]
    /\ calls = 0 /\ faults = 0

-----------------------------------------------------------------------------
(* The calls. *)

Program ==
    [io |-> <<"lock", "io", "unlock">>,
     sync |-> <<"lock", "sync", "unlock">>,
     mount |-> <<"open", "lock", "io", "unlock">>,
     unmount |-> <<"lock", "io", "unlock", "unref">>,
     format |-> <<"check", "lock", "sync", "unlock", "params", "lock", "lock", "io", "unlock",
                  "lock", "io", "unlock", "close", "unlock", "lock", "sync", "unlock">>,
     destroy |-> <<"lock", "refs", "sync", "unlock", "free">>]

At(t, l) == todo[t] # <<>> /\ Head(todo[t]) = l

(* The error paths: what a call still does after one of its steps failed.
   destroy finds the device in use. *)
RefsError == <<"unlock">>

(* sync_lower fails: under the mutex, but for bdl_close at an unmount. *)
SyncError(o) == IF o = "unmount" THEN <<>> ELSE <<"unlock">>

(* Mutant of MkfsError: formatting returns what mkfs returned. *)
MkfsErrorKeepsLock == <<"unlock", "close">>

(* A request fails inside mkfs: the wrapper gives the mutex back, mkfs closes
   its device, and lwext4_port_format_blockdev gives the mutex back once more. *)
MkfsError == <<"unlock", "close", "unlock">>

(* A request of lwext4 fails; a mount also drops its reference. *)
RequestError(o) ==
    CASE o = "format" -> MkfsError
      [] o = "mount" -> <<"unlock", "unref">>
      [] OTHER -> <<"unlock">>

Cleanup(t) ==
    CASE At(t, "check") \/ At(t, "params") -> <<>>
      [] At(t, "refs") -> RefsError
      [] At(t, "sync") -> SyncError(op[t])
      [] OTHER -> RequestError(op[t])

Go(t) == todo' = [todo EXCEPT ![t] = Tail(@)] /\ UNCHANGED res
First(t, more) == todo' = [todo EXCEPT ![t] = more \o Tail(@)] /\ UNCHANGED res
Fail(t) == /\ todo' = [todo EXCEPT ![t] = Cleanup(t)]
           /\ res' = [res EXCEPT ![t] = "fail"]

(* The application mounts and unmounts from one task at a time, and formats and
   destroys when no other call is being made. *)
Alone == {"destroy", "format"}
Serial == {"mount", "unmount"}
MayBegin(o) ==
    \A u \in Tasks : /\ op[u] # "none" => o \notin Alone /\ op[u] \notin Alone
                     /\ op[u] \in Serial => o \notin Serial

Begin(t) ==
    /\ op[t] = "none" /\ ~freed /\ calls < Load.calls
    /\ \E o \in DOMAIN Program :
          /\ MayBegin(o)
          /\ o = "mount" => refs < MaxRefs
          /\ o = "unmount" => refs > 0
          /\ op' = [op EXCEPT ![t] = o]
          /\ todo' = [todo EXCEPT ![t] = Program[o]]
    /\ res' = [res EXCEPT ![t] = "ok"]
    /\ io' = [io EXCEPT ![t] = NoIo]
    /\ later' = [later EXCEPT ![t] = {}]
    /\ calls' = calls + 1
    /\ UNCHANGED <<geo, freed, lock, refs, lastError, buf, media, dirty, faults>>

Return(t) ==
    /\ op[t] # "none" /\ todo[t] = <<>>
    /\ op' = [op EXCEPT ![t] = "none"]
    /\ UNCHANGED <<geo, freed, lock, refs, lastError, device, todo, res, io, calls, faults>>

-----------------------------------------------------------------------------
(* The mutex, the reference count and the end of the adapter. *)

(* xSemaphoreTakeRecursive *)
Lock(t) ==
    /\ At(t, "lock") /\ owner \in {t, None}
    /\ owner' = t /\ depth' = depth + 1
    /\ Go(t)
    /\ UNCHANGED <<geo, freed, refs, lastError, device, op, io, calls, faults>>

Unlock(t) ==
    /\ At(t, "unlock") /\ owner = t
    /\ depth' = depth - 1
    /\ owner' = IF depth = 1 THEN None ELSE t
    /\ Go(t)
    /\ UNCHANGED <<geo, freed, refs, lastError, device, op, io, calls, faults>>

(* ext4_block_init: bdl_open finds nothing wrong with an adapter that create
   made. *)
Open(t) ==
    /\ At(t, "open")
    /\ refs' = refs + 1
    /\ Go(t)
    /\ UNCHANGED <<geo, freed, lock, lastError, device, op, io, calls, faults>>

(* ext4_block_fini: the last reference calls bdl_close, whose result is the
   result of an unmount. *)
Unref(t) ==
    /\ At(t, "unref")
    /\ refs' = refs - 1
    /\ First(t, IF refs > 1 THEN <<>> ELSE IF op[t] = "unmount" THEN <<"sync">> ELSE <<"close">>)
    /\ UNCHANGED <<geo, freed, lock, lastError, device, op, io, calls, faults>>

(* validate_format_args, without the lock *)
Formattable(bs) ==
    /\ refs = 0
    /\ ~geo.config.ro
    /\ geo.lower.ws # 0
    /\ IsPowerOfTwo(bs) /\ bs % geo.lower.rs = 0 /\ bs % geo.lower.ws = 0
    /\ geo.lower.disk % bs = 0

CheckFormat(t) ==
    /\ At(t, "check")
    /\ \E bs \in FormatSizes : IF Formattable(bs) THEN Go(t) ELSE Fail(t)
    /\ UNCHANGED <<geo, freed, lock, refs, lastError, device, op, io, calls, faults>>

(* What lwext4_port_format_blockdev checks before it takes the mutex (its memory,
   the sizes of blocks and inodes, a length of at least one group) may fail. *)
CheckParameters(t) ==
    /\ At(t, "params")
    /\ Go(t) \/ Fail(t)
    /\ UNCHANGED <<geo, freed, lock, refs, lastError, device, op, io, calls, faults>>

Referenced == refs # 0

CheckRefs(t) ==
    /\ At(t, "refs")
    /\ IF Referenced THEN Fail(t) ELSE Go(t)
    /\ UNCHANGED <<geo, freed, lock, refs, lastError, device, op, io, calls, faults>>

Free(t) ==
    /\ At(t, "free")
    /\ freed' = TRUE
    /\ Go(t)
    /\ UNCHANGED <<geo, lock, refs, lastError, device, op, io, calls, faults>>

-----------------------------------------------------------------------------
(* Operations of the lower device.  One that fails may have done a part. *)

SaveResult(ok) == lastError' = IF ok THEN "ok" ELSE "fail"

(* Mutant of SyncResult: the result of the lower operation is dropped. *)
SyncIgnored(t, ok) == Go(t)
SyncResult(t, ok) == IF ok \/ At(t, "close") THEN Go(t) ELSE Fail(t)

(* sync_lower, which stores ESP_OK for a device without a sync operation; in a
   write with sync_after_write the answer waits for it.
   mkfs and a failing mount drop what bdl_close returns. *)
SyncLower(t) ==
    /\ At(t, "sync") \/ At(t, "close") \/ At(t, "iosync")
    /\ \E ok \in IF geo.lower.canSync /\ faults < Load.faults THEN BOOLEAN ELSE {TRUE} :
          /\ SaveResult(ok)
          /\ SyncResult(t, ok)
          /\ dirty' = IF ok THEN {} ELSE dirty
          /\ faults' = IF ok THEN faults ELSE faults + 1
          /\ io' = IF At(t, "iosync") THEN [io EXCEPT ![t].on = FALSE, ![t].ok = ok] ELSE io
    /\ UNCHANGED <<geo, freed, lock, refs, buf, media, later, op, calls>>

(* Mutant of RangeError: a request may run one block past the end. *)
RangeErrorOffByOne(from, cnt) ==
    cnt > 0 /\ (from > Bcnt \/ cnt > Bcnt + 1 - from \/ cnt > SizeMax \div Bsize)
RangeError(from, cnt) ==
    cnt > 0 /\ (from >= Bcnt \/ cnt > Bcnt - from \/ cnt > SizeMax \div Bsize)

(* bdl_read or bdl_write refuses request r. *)
Refused(r) ==
    \/ r.kind = "write" /\ geo.config.ro
    \/ RangeError(r.from, r.cnt)
    \/ r.cnt > 0 /\ r.alias /\ r.cnt > Bufs

Data(r) ==
    IF r.kind = "read" THEN <<>>
    ELSE IF r.alias THEN SubSeq(buf, 1, r.cnt)
    ELSE [i \in 1 .. r.cnt |-> <<r.tag, i>>]

(* bdl_read, bdl_write up to their loops.  lwext4 may pass the adapter's own
   transfer buffer (ph_bbuf), r.alias. *)
BeginIo(t) ==
    /\ At(t, "io")
    /\ \E r \in Load.requests :
          CASE Refused(r) -> Fail(t) /\ UNCHANGED io
            [] ~Refused(r) /\ r.cnt = 0 -> Go(t) /\ UNCHANGED io
            [] OTHER ->
                 /\ First(t, <<IF r.kind = "read" THEN "read" ELSE "copyin">>)
                 /\ io' = [io EXCEPT ![t] = [on |-> TRUE, kind |-> r.kind, from |-> r.from,
                              cnt |-> r.cnt, pos |-> 0, alias |-> r.alias,
                              data |-> Data(r), ok |-> FALSE]]
    /\ UNCHANGED <<geo, freed, lock, refs, lastError, device, op, calls, faults>>

Chunk(t) == IF io[t].cnt - io[t].pos > Bufs THEN Bufs ELSE io[t].cnt - io[t].pos

FirstBlock(t) == io[t].from + io[t].pos
ChunkBlocks(t) == FirstBlock(t) .. FirstBlock(t) + Chunk(t) - 1

(* One turn is over: the next one, or the end of the loop. *)
NextTurn(t, again) ==
    LET last == io[t].pos + Chunk(t) = io[t].cnt
        answer == last /\ ~(io[t].kind = "write" /\ geo.config.saw)
    IN  /\ First(t, IF ~last THEN <<again>> ELSE IF answer THEN <<>> ELSE <<"iosync">>)
        /\ io' = [io EXCEPT ![t].pos = @ + Chunk(t), ![t].on = ~answer, ![t].ok = answer,
                             ![t].data = IF io[t].kind = "read" THEN @ \o SubSeq(buf, 1, Chunk(t))
                                         ELSE @]

BrokenOff(t) == io' = [io EXCEPT ![t].on = FALSE, ![t].ok = FALSE]

(* memcpy into the transfer buffer *)
CopyIn(t) ==
    /\ At(t, "copyin")
    /\ buf' = [i \in DOMAIN buf |-> IF io[t].alias \/ i > Chunk(t) THEN buf[i]
                                    ELSE io[t].data[io[t].pos + i]]
    /\ First(t, <<"write">>)
    /\ UNCHANGED <<geo, freed, lock, refs, lastError, media, dirty, later, op, io, calls, faults>>

(* Blocks bs of the chunk reach the lower device. *)
Store(t, bs) ==
    /\ media' = [b \in DOMAIN media |-> IF b \in bs THEN buf[b - FirstBlock(t) + 1] ELSE media[b]]
    /\ dirty' = IF geo.lower.canSync THEN dirty \cup bs ELSE dirty
    /\ later' = [u \in Tasks |-> IF u = t THEN later[u] ELSE later[u] \cup bs]

(* Mutant of StopOnError: a chunk that fails is not noticed. *)
NeverStop(t, again) == NextTurn(t, again)
StopOnError(t, again) == Fail(t) /\ BrokenOff(t)

WriteChunk(t) ==
    /\ At(t, "write")
    /\ \/ /\ Store(t, ChunkBlocks(t)) /\ SaveResult(TRUE)
          /\ NextTurn(t, "copyin")
          /\ UNCHANGED faults
       \/ /\ faults < Load.faults /\ faults' = faults + 1
          /\ \E bs \in SUBSET ChunkBlocks(t) : Store(t, bs)
          /\ SaveResult(FALSE)
          /\ StopOnError(t, "copyin")
    /\ UNCHANGED <<geo, freed, lock, refs, buf, op, calls>>

(* A failing read leaves something in the transfer buffer. *)
ReadChunk(t) ==
    /\ At(t, "read")
    /\ \/ /\ buf' = [i \in DOMAIN buf |-> IF i > Chunk(t) THEN buf[i]
                                          ELSE media[FirstBlock(t) + i - 1]]
          /\ SaveResult(TRUE)
          /\ First(t, <<"copyout">>)
          /\ UNCHANGED <<io, faults>>
       \/ /\ faults < Load.faults /\ faults' = faults + 1
          /\ buf' = [i \in DOMAIN buf |-> IF i > Chunk(t) THEN buf[i] ELSE <<"torn", i>>]
          /\ SaveResult(FALSE)
          /\ StopOnError(t, "read")
    /\ UNCHANGED <<geo, freed, lock, refs, media, dirty, later, op, calls>>

(* memcpy to the destination; none is needed when that is the buffer. *)
CopyOut(t) ==
    /\ At(t, "copyout")
    /\ NextTurn(t, "read")
    /\ UNCHANGED <<geo, freed, lock, refs, lastError, device, op, calls, faults>>

-----------------------------------------------------------------------------
Step(t) ==
    \/ Return(t) \/ Lock(t) \/ Unlock(t) \/ Open(t) \/ Unref(t)
    \/ CheckFormat(t) \/ CheckParameters(t) \/ CheckRefs(t) \/ Free(t) \/ SyncLower(t)
    \/ BeginIo(t) \/ CopyIn(t) \/ WriteChunk(t) \/ ReadChunk(t) \/ CopyOut(t)

Next == \E t \in Tasks : Begin(t) \/ Step(t)

Spec == Init /\ [][Next]_vars

-----------------------------------------------------------------------------
(* Type invariant: the adapter's fields and every task's program. *)
Steps == {"lock", "unlock", "open", "unref", "check", "params", "refs", "free", "sync", "close",
          "iosync", "io", "copyin", "write", "read", "copyout"}
TypeOK ==
    /\ freed \in BOOLEAN /\ owner \in Tasks \cup {None} /\ depth \in Nat /\ refs \in Nat
    /\ lastError \in {"ok", "fail"}
    /\ DOMAIN buf = 1 .. Bufs /\ DOMAIN media = 0 .. Bcnt - 1 /\ dirty \subseteq DOMAIN media
    /\ op \in [Tasks -> DOMAIN Program \cup {"none"}]
    /\ todo \in [Tasks -> Seq(Steps)] /\ res \in [Tasks -> {"ok", "fail"}]
    /\ later \in [Tasks -> SUBSET DOMAIN media]

(* What lwext4 sees of the device: requests are served from their checks to
   the end of their loop. *)
serving == [t \in Tasks |-> [kind |-> IF io[t].on THEN io[t].kind ELSE "none",
                             from |-> io[t].from, data |-> io[t].data, ok |-> io[t].ok]]

Device == INSTANCE BlockDevice WITH content <- media, serving <- serving

(* The chunked loops over one shared transfer buffer, under one mutex, with
   lower operations that fail after any part, implement the block device. *)
ImplementsDevice == Device!Spec

(* Every lower read and write that bdl_read and bdl_write make is aligned to
   what the device asks for, inside the disk, no longer than the transfer
   buffer, and a write only goes to a device that accepts overwrites. *)
LowerContract ==
    \A t \in Tasks : At(t, "read") \/ At(t, "write") =>
        LET addr == FirstBlock(t) * Bsize
            size == Chunk(t) * Bsize
            unit == IF At(t, "read") THEN geo.lower.rs ELSE geo.lower.ws
        IN  /\ unit # 0 /\ addr % unit = 0 /\ size % unit = 0
            /\ addr + size <= geo.lower.disk
            /\ size > 0 /\ size <= Bufs * Bsize /\ Bufs * Bsize <= SizeMax
            /\ At(t, "write") => /\ geo.lower.canWrite /\ geo.config.rewrite
                                 /\ ~geo.lower.ro /\ ~geo.config.ro

(* Calls after which the caller may rely on its data being durable *)
PromisesDurable(t) ==
    \/ op[t] \in {"sync", "format", "destroy"}
    \/ op[t] = "unmount" /\ refs = 0
    \/ geo.config.saw /\ io[t].kind = "write"

(* When such a call returns success, what the device could still lose was
   written by others during the call (lwext4_port_bdl_sync, _format, _destroy,
   bdl_close and sync_after_write), whatever failed before. *)
SyncedMeansDurable ==
    \A t \in Tasks : op[t] # "none" /\ todo[t] = <<>> /\ res[t] = "ok" /\ PromisesDurable(t)
                      => dirty \subseteq later[t]

(* destroy frees the adapter only when lwext4 does not refer to it, no task is
   in another call, and everything is durable; after a failed sync it stays. *)
FreedClean ==
    freed => /\ refs = 0 /\ dirty = {} /\ owner = None
             /\ \A t \in Tasks : todo[t] = <<>>
=============================================================================
