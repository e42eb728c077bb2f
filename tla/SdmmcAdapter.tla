----------------------------- MODULE SdmmcAdapter -----------------------------
(***************************************************************************)
(* The block device adapter over an SD card, port/lwext4_port_sdmmc.c.     *)
(*                                                                         *)
(* It is told as in BdlAdapter: todo[t] is what is left of t's call.  The  *)
(* card writes through, so nothing is synced; a block is a sector, and its *)
(* number is narrowed to size_t for the card's driver.  lwext4's own steps *)
(* and the card are external.                                              *)
(***************************************************************************)
EXTENDS Integers, Sequences

CONSTANTS Tasks,
          Setups,       \* adapters and their use: [card, config, load], where card is
                        \* [capacity, size], sectors and bytes of one, and config [pbs, tbb]
          Loads,        \* Loads[load]: [requests, calls, faults], the requests of lwext4,
                        \* records [kind, from, cnt, alias, tag], and two bounds: calls
                        \* made, and card operations that fail
          FormatSizes,  \* file system block sizes that formatting is asked for
          SizeMax,      \* SIZE_MAX
          None

ASSUME TaskAssumption == None \notin Tasks
ASSUME SizeAssumption == SizeMax \in Nat
ASSUME SetupAssumption ==
    Setups \subseteq [card : [capacity : Int, size : Nat], config : [pbs : Nat, tbb : Nat],
                      load : DOMAIN Loads]
ASSUME RequestAssumption ==
    \A l \in DOMAIN Loads :
       Loads[l].requests \subseteq [kind : {"read", "write"}, from : Nat, cnt : Nat,
                                   alias : BOOLEAN, tag : STRING]

(* csd.capacity is an int, and size_t at least as wide as its unsigned type. *)
ASSUME CapacityAssumption == \A s \in Setups : 2 * s.card.capacity <= SizeMax

VARIABLES
    geo,          \* the adapter's setup, chosen at its creation
    freed,        \* destroy has freed the adapter
    owner, depth, \* the recursive mutex
    refs,         \* ph_refctr, counted by lwext4
    buf,          \* the transfer buffer, blocks 1 .. Bufs
    media,        \* the card's sectors
    op, todo,     \* each task's call and what is left of it
    res,          \* the call's result so far
    io,           \* the request that sdmmc_read or sdmmc_write works on
    calls, faults

vars == <<geo, freed, owner, depth, refs, buf, media, op, todo, res, io, calls, faults>>

lock == <<owner, depth>>
device == <<buf, media>>

Load == Loads[geo.load]
Bufs == IF geo.config.tbb = 0 THEN 1 ELSE geo.config.tbb

IsPowerOfTwo(n) == n > 0 /\ \E k \in 0 .. n : 2 ^ k = n

(* validate_create_args accepts configuration c for card k. *)
Creatable(k, c) ==
    /\ k.size # 0 /\ k.capacity > 0
    /\ c.pbs = k.size /\ IsPowerOfTwo(c.pbs)
    /\ (IF c.tbb = 0 THEN 1 ELSE c.tbb) <= SizeMax \div c.pbs

NoIo == [on |-> FALSE, kind |-> "none", from |-> 0, cnt |-> 0, pos |-> 0,
         alias |-> FALSE, data |-> <<>>, ok |-> FALSE]

(* create has returned a new adapter. *)
Init ==
    /\ geo \in Setups
    /\ Creatable(geo.card, geo.config)
    /\ freed = FALSE /\ owner = None /\ depth = 0 /\ refs = 0
    /\ buf = [i \in 1 .. Bufs |-> <<"empty", i>>]
    /\ media = [b \in 0 .. geo.card.capacity - 1 |-> <<"old", b>>]
    /\ op = [t \in Tasks |-> "none"]
    /\ todo = [t \in Tasks |-> <<>>]
    /\ res = [t \in Tasks |-> "ok"]
    /\ io = [t \in Tasks |-> NoIo]
    /\ calls = 0 /\ faults = 0

-----------------------------------------------------------------------------
(* The calls.  The card's close does nothing, so an unmount only drops the
   reference, and sync only waits for its turn. *)

Program ==
    [io |-> <<"lock", "io", "unlock">>,
     sync |-> <<"lock", "unlock">>,
     mount |-> <<"open", "lock", "io", "unlock">>,
     unmount |-> <<"lock", "io", "unlock", "unref">>,
     format |-> <<"check", "params", "lock", "lock", "io", "unlock", "lock", "io", "unlock", "unlock">>,
     destroy |-> <<"lock", "refs", "unlock", "free">>]

At(t, l) == todo[t] # <<>> /\ Head(todo[t]) = l

(* The error paths: what a call still does after one of its steps failed.
   destroy finds the card in use. *)
RefsError == <<"unlock">>

(* Mutant of MkfsError: formatting returns what mkfs returned. *)
MkfsErrorKeepsLock == <<"unlock">>

(* A request fails inside mkfs: the wrapper gives the mutex back, and
   lwext4_port_format_blockdev does once more. *)
MkfsError == <<"unlock", "unlock">>

(* A request of lwext4 fails; a mount also drops its reference. *)
RequestError(o) ==
    CASE o = "format" -> MkfsError
      [] o = "mount" -> <<"unlock", "unref">>
      [] OTHER -> <<"unlock">>

Cleanup(t) ==
    CASE At(t, "check") \/ At(t, "params") -> <<>>
      [] At(t, "refs") -> RefsError
      [] OTHER -> RequestError(op[t])

First(t, more) == todo' = [todo EXCEPT ![t] = more \o Tail(@)] /\ UNCHANGED res
Go(t) == First(t, <<>>)
Fail(t) == /\ todo' = [todo EXCEPT ![t] = Cleanup(t)]
           /\ res' = [res EXCEPT ![t] = "fail"]

(* The application formats and destroys when no other call is being made, and
   mounts and unmounts from one task at a time. *)
Alone == {"destroy", "format"}
Serial == {"mount", "unmount"}
MayBegin(o) ==
    \A u \in Tasks : /\ op[u] # "none" => o \notin Alone /\ op[u] \notin Alone
                     /\ op[u] \in Serial => o \notin Serial

Begin(t) ==
    /\ op[t] = "none" /\ ~freed /\ calls < Load.calls
    /\ \E o \in DOMAIN Program :
          /\ MayBegin(o)
          /\ o = "mount" => refs = 0
          /\ o = "unmount" => refs > 0
          /\ op' = [op EXCEPT ![t] = o]
          /\ todo' = [todo EXCEPT ![t] = Program[o]]
    /\ res' = [res EXCEPT ![t] = "ok"]
    /\ io' = [io EXCEPT ![t] = NoIo]
    /\ calls' = calls + 1
    /\ UNCHANGED <<geo, freed, lock, refs, device, faults>>

Return(t) ==
    /\ op[t] # "none" /\ todo[t] = <<>>
    /\ op' = [op EXCEPT ![t] = "none"]
    /\ UNCHANGED <<geo, freed, lock, refs, device, todo, res, io, calls, faults>>

Lock(t) ==
    /\ At(t, "lock") /\ owner \in {t, None}
    /\ owner' = t /\ depth' = depth + 1
    /\ Go(t)
    /\ UNCHANGED <<geo, freed, refs, device, op, io, calls, faults>>

Unlock(t) ==
    /\ At(t, "unlock") /\ owner = t
    /\ depth' = depth - 1
    /\ owner' = IF depth = 1 THEN None ELSE t
    /\ Go(t)
    /\ UNCHANGED <<geo, freed, refs, device, op, io, calls, faults>>

Open(t) ==
    /\ At(t, "open")
    /\ refs' = refs + 1
    /\ Go(t)
    /\ UNCHANGED <<geo, freed, lock, device, op, io, calls, faults>>

Unref(t) ==
    /\ At(t, "unref")
    /\ refs' = refs - 1
    /\ Go(t)
    /\ UNCHANGED <<geo, freed, lock, device, op, io, calls, faults>>

(* validate_format_args, without the lock *)
Formattable(bs) ==
    /\ refs = 0
    /\ IsPowerOfTwo(bs) /\ bs % geo.card.size = 0
    /\ (geo.card.capacity * geo.card.size) % bs = 0

CheckFormat(t) ==
    /\ At(t, "check")
    /\ \E bs \in FormatSizes : IF Formattable(bs) THEN Go(t) ELSE Fail(t)
    /\ UNCHANGED <<geo, freed, lock, refs, device, op, io, calls, faults>>

(* What lwext4_port_format_blockdev checks before it takes the mutex may fail. *)
CheckParameters(t) ==
    /\ At(t, "params")
    /\ Go(t) \/ Fail(t)
    /\ UNCHANGED <<geo, freed, lock, refs, device, op, io, calls, faults>>

CheckRefs(t) ==
    /\ At(t, "refs")
    /\ IF refs # 0 THEN Fail(t) ELSE Go(t)
    /\ UNCHANGED <<geo, freed, lock, refs, device, op, io, calls, faults>>

Free(t) ==
    /\ At(t, "free")
    /\ freed' = TRUE
    /\ Go(t)
    /\ UNCHANGED <<geo, lock, refs, device, op, io, calls, faults>>

-----------------------------------------------------------------------------
(* Reading and writing. *)

(* Mutant of RangeError: the sum of position and count is not compared. *)
RangeErrorStart(from, cnt) ==
    cnt > 0 /\ (from >= geo.card.capacity \/ cnt > SizeMax \div geo.config.pbs)
RangeError(from, cnt) ==
    cnt > 0 /\ \/ from >= geo.card.capacity
               \/ cnt > geo.card.capacity - from
               \/ cnt > SizeMax \div geo.config.pbs
               \/ from > SizeMax
               \/ cnt > SizeMax - from

Refused(r) == RangeError(r.from, r.cnt) \/ (r.cnt > 0 /\ r.alias /\ r.cnt > Bufs)

Data(r) ==
    IF r.kind = "read" THEN <<>>
    ELSE IF r.alias THEN SubSeq(buf, 1, r.cnt)
    ELSE [i \in 1 .. r.cnt |-> <<r.tag, i>>]

BeginIo(t) ==
    /\ At(t, "io")
    /\ \E r \in Load.requests :
          CASE Refused(r) -> Fail(t) /\ UNCHANGED io
            [] ~Refused(r) /\ r.cnt = 0 -> Go(t) /\ UNCHANGED io
            [] OTHER ->
                 /\ First(t, <<IF r.kind = "read" THEN "read" ELSE "copyin">>)
                 /\ io' = [io EXCEPT ![t] = [on |-> TRUE, kind |-> r.kind, from |-> r.from,
                              cnt |-> r.cnt, pos |-> 0, alias |-> r.alias,
                              data |-> Data(r), ok |-> FALSE]]
    /\ UNCHANGED <<geo, freed, lock, refs, device, op, calls, faults>>

Chunk(t) == IF io[t].cnt - io[t].pos > Bufs THEN Bufs ELSE io[t].cnt - io[t].pos

(* (size_t)sector, and the sectors of the chunk that starts there *)
Sector(t) == (io[t].from + io[t].pos) % (SizeMax + 1)
ChunkSectors(t) == Sector(t) .. Sector(t) + Chunk(t) - 1

NextTurn(t, again) ==
    LET last == io[t].pos + Chunk(t) = io[t].cnt
    IN  /\ First(t, IF last THEN <<>> ELSE <<again>>)
        /\ io' = [io EXCEPT ![t].pos = @ + Chunk(t), ![t].on = ~last, ![t].ok = last,
                             ![t].data = IF io[t].kind = "read" THEN @ \o SubSeq(buf, 1, Chunk(t))
                                         ELSE @]

BreakOff(t) == Fail(t) /\ io' = [io EXCEPT ![t].on = FALSE, ![t].ok = FALSE]

(* Mutant of Copied: every chunk is copied from the beginning of the source. *)
CopiedFromStart(t, i) == io[t].data[i]
Copied(t, i) == io[t].data[io[t].pos + i]

CopyIn(t) ==
    /\ At(t, "copyin")
    /\ buf' = [i \in DOMAIN buf |-> IF io[t].alias \/ i > Chunk(t) THEN buf[i] ELSE Copied(t, i)]
    /\ First(t, <<"write">>)
    /\ UNCHANGED <<geo, freed, lock, refs, media, op, io, calls, faults>>

Store(t, bs) ==
    media' = [b \in DOMAIN media |-> IF b \in bs THEN buf[b - Sector(t) + 1] ELSE media[b]]

WriteChunk(t) ==
    /\ At(t, "write")
    /\ \/ Store(t, ChunkSectors(t)) /\ NextTurn(t, "copyin") /\ UNCHANGED faults
       \/ /\ faults < Load.faults /\ faults' = faults + 1
          /\ \E bs \in SUBSET ChunkSectors(t) : Store(t, bs)
          /\ BreakOff(t)
    /\ UNCHANGED <<geo, freed, lock, refs, buf, op, calls>>

(* A failing read leaves something in the transfer buffer. *)
ReadChunk(t) ==
    /\ At(t, "read")
    /\ \/ /\ buf' = [i \in DOMAIN buf |-> IF i > Chunk(t) THEN buf[i] ELSE media[Sector(t) + i - 1]]
          /\ First(t, <<"copyout">>) /\ UNCHANGED <<io, faults>>
       \/ /\ faults < Load.faults /\ faults' = faults + 1
          /\ buf' = [i \in DOMAIN buf |-> IF i > Chunk(t) THEN buf[i] ELSE <<"torn", i>>]
          /\ BreakOff(t)
    /\ UNCHANGED <<geo, freed, lock, refs, media, op, calls>>

CopyOut(t) ==
    /\ At(t, "copyout")
    /\ NextTurn(t, "read")
    /\ UNCHANGED <<geo, freed, lock, refs, device, op, calls, faults>>

-----------------------------------------------------------------------------
Step(t) ==
    \/ Return(t) \/ Lock(t) \/ Unlock(t) \/ Open(t) \/ Unref(t)
    \/ CheckFormat(t) \/ CheckParameters(t) \/ CheckRefs(t) \/ Free(t)
    \/ BeginIo(t) \/ CopyIn(t) \/ WriteChunk(t) \/ ReadChunk(t) \/ CopyOut(t)

Next == \E t \in Tasks : Begin(t) \/ Step(t)

Spec == Init /\ [][Next]_vars

(* Ready tasks are run; FreeRTOS hands the mutex to a task that waits. *)
Fairness == \A t \in Tasks : WF_vars(Step(t)) /\ SF_vars(Lock(t))

FairSpec == Spec /\ Fairness

-----------------------------------------------------------------------------
serving == [t \in Tasks |-> [kind |-> IF io[t].on THEN io[t].kind ELSE "none",
                             from |-> io[t].from, data |-> io[t].data, ok |-> io[t].ok]]

Device == INSTANCE BlockDevice WITH content <- media, serving <- serving

(* The chunked loops over one shared transfer buffer, under one mutex, with
   card operations that fail after any part, implement the block device. *)
ImplementsDevice == Device!Spec

(* Every call of the card's driver is for sectors of the card, after the
   narrowing of the sector number, and fits into the transfer buffer. *)
SectorContract ==
    \A t \in Tasks : At(t, "read") \/ At(t, "write") =>
        /\ ChunkSectors(t) \subseteq DOMAIN media
        /\ Sector(t) = io[t].from + io[t].pos
        /\ Chunk(t) \in 1 .. Bufs /\ Bufs * geo.config.pbs <= SizeMax

(* Every call comes to its end, mkfs under the mutex it takes again included. *)
EveryCallReturns == \A t \in Tasks : op[t] # "none" ~> op[t] = "none"
=============================================================================
