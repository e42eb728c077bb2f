------------------------------- MODULE VfsDir -------------------------------
(***************************************************************************)
(* Directory streams of port/esp_lwext4.c: opendir, readdir, telldir,      *)
(* seekdir and closedir, while other tasks make and remove entries.        *)
(*                                                                         *)
(* Each call holds the context's lock (VfsMount) and is one step.  The     *)
(* iterator is lwext4's and external: a directory is an array of slots, an *)
(* entry keeps its slot while it lives, and the iterator passes free       *)
(* slots.  It answers NULL at the end and when a read fails.  The adapter  *)
(* counts the entries it was given: that count is what telldir answers.    *)
(***************************************************************************)
EXTENDS Integers, FiniteSets

CONSTANTS SlotCount,  \* slots of the directory
          None,       \* no stream, no location
          MaxCalls,   \* bound: calls on the stream
          MaxChanges, \* bound: entries made or removed
          MaxFaults   \* bound: reads of the directory that fail

ASSUME SlotAssumption == SlotCount \in Nat

Slots == 1 .. SlotCount

VARIABLES live,    \* the slots that hold an entry
          stream,  \* None, or [pos, offset]: the iterator's next slot, and dir->offset
          told,    \* a location telldir gave for this stream: None, or [offset, rest]
          seen,    \* slots of the entries that readdir gave since opendir or the last seekdir
          kept,    \* slots whose entry has been there all this time
          first,   \* the first slot of this time
          steady,  \* no entry was made or removed since opendir
          ended,   \* the last call was a readdir that answered NULL without a failure
          sought,  \* the last call was a seekdir without a failure to there, or None
          calls, changes, faults

vars == <<live, stream, told, seen, kept, first, steady, ended, sought, calls, changes, faults>>
history == <<told, seen, kept, first, steady>>

Init ==
    /\ live \in SUBSET Slots
    /\ stream = None /\ told = None
    /\ seen = {} /\ kept = {} /\ first = 1
    /\ steady = TRUE /\ ended = FALSE /\ sought = None
    /\ calls = 0 /\ changes = 0 /\ faults = 0

(* ext4_dir_entry_next gives the entry of the lowest of these slots. *)
Rest(p) == {s \in live : s >= p}
Lowest(S) == CHOOSE s \in S : \A t \in S : s <= t

(* The stream after k entries from position p *)
After(p, k) == IF k = 0 THEN p ELSE 1 + CHOOSE s \in Rest(p) : Cardinality({t \in Rest(p) : t <= s}) = k

Call == stream # None /\ calls < MaxCalls /\ calls' = calls + 1 /\ UNCHANGED <<live, changes>>

(* What is known of a call that ends *)
Ends(atEnd, offset) == ended' = atEnd /\ sought' = offset

-----------------------------------------------------------------------------
Opendir ==
    /\ stream = None /\ calls < MaxCalls /\ calls' = calls + 1
    /\ stream' = [pos |-> 1, offset |-> 0]
    /\ told' = None /\ seen' = {} /\ kept' = live /\ first' = 1
    /\ steady' = TRUE /\ Ends(FALSE, None)
    /\ UNCHANGED <<live, changes, faults>>

(* What readdir has yet to give.  Mutant of Remaining: the place is found
   again by counting the entries that were given. *)
RemainingByCount == {s \in live : Cardinality({t \in live : t <= s}) > stream.offset}
Remaining == Rest(stream.pos)

Readdir ==
    /\ Call
    /\ IF Remaining = {}
       THEN UNCHANGED <<stream, seen>> /\ Ends(TRUE, None)
       ELSE LET s == Lowest(Remaining)
            IN  /\ stream' = [pos |-> s + 1, offset |-> stream.offset + 1]
                /\ seen' = seen \cup {s}
                /\ Ends(FALSE, None)
    /\ UNCHANGED <<told, kept, first, steady, faults>>

(* A read that fails looks like the end of the directory. *)
ReaddirFails ==
    /\ Call /\ faults < MaxFaults
    /\ faults' = faults + 1 /\ Ends(FALSE, None)
    /\ UNCHANGED <<stream, history>>

Telldir ==
    /\ Call
    /\ told' = [offset |-> stream.offset, rest |-> Rest(stream.pos)]
    /\ Ends(FALSE, None)
    /\ UNCHANGED <<stream, seen, kept, first, steady, faults>>

(* Where seekdir's walk begins.  Mutants of Rewound: the iterator is not
   rewound; the count is not reset. *)
RewoundCountOnly(offset) ==
    IF offset < stream.offset THEN [stream EXCEPT !.offset = 0] ELSE stream
RewoundKeepsCount(offset) ==
    IF offset < stream.offset THEN [stream EXCEPT !.pos = 1] ELSE stream
Rewound(offset) ==
    IF offset < stream.offset THEN [pos |-> 1, offset |-> 0] ELSE stream

(* The walk ends at the location, at the last entry, or where a read fails. *)
Seekdir ==
    /\ Call
    /\ \E offset \in 0 .. SlotCount, k \in 0 .. SlotCount :
          LET from == Rewound(offset)
              there == from.offset + k >= offset
              last == k = Cardinality(Rest(from.pos))
          IN  /\ from.offset + k <= offset \/ k = 0
              /\ k <= Cardinality(Rest(from.pos))
              /\ IF there \/ last THEN UNCHANGED faults /\ Ends(FALSE, offset)
                 ELSE faults < MaxFaults /\ faults' = faults + 1 /\ Ends(FALSE, None)
              /\ stream' = [pos |-> After(from.pos, k), offset |-> from.offset + k]
    /\ seen' = {} /\ kept' = live /\ first' = stream'.pos
    /\ UNCHANGED <<told, steady>>

Closedir ==
    /\ Call
    /\ stream' = None
    /\ Ends(FALSE, None)
    /\ UNCHANGED <<history, faults>>

(* Other tasks *)
Change ==
    /\ changes < MaxChanges /\ changes' = changes + 1
    /\ \E s \in Slots :
          /\ live' = IF s \in live THEN live \ {s} ELSE live \cup {s}
          /\ kept' = kept \ {s}
    /\ steady' = FALSE /\ Ends(FALSE, None)
    /\ UNCHANGED <<stream, told, seen, first, calls, faults>>

Next == Opendir \/ Readdir \/ ReaddirFails \/ Telldir \/ Seekdir \/ Closedir \/ Change

Spec == Init /\ [][Next]_vars

-----------------------------------------------------------------------------
(* Properties. *)

(* The type of every variable. *)
TypeOK ==
    /\ live \subseteq Slots /\ seen \subseteq Slots /\ kept \subseteq Slots
    /\ stream = None \/ stream \in [pos : 1 .. SlotCount + 1, offset : 0 .. SlotCount]
    /\ told = None \/ told \in [offset : Nat, rest : SUBSET Slots]
    /\ first \in 1 .. SlotCount + 1
    /\ {steady, ended} \subseteq BOOLEAN /\ (sought = None \/ sought \in Nat)

(* However the stream has sought back and forth, and whatever reads failed on
   the way, its count is that of the entries before the iterator, so long as
   the directory does not change (readdir_r and seekdir count only what the
   iterator gave, and a rewind counts anew). *)
CountIsPosition ==
    stream # None /\ steady => stream.offset = Cardinality({s \in live : s < stream.pos})

(* When readdir answers that there are no more, every entry that was there
   from the place where the scan began has been given, whatever entries
   other tasks made and removed meanwhile (readdir_r). *)
ScanComplete == ended => {s \in kept : s >= first} \subseteq seen

(* A seekdir to what telldir answered, of which no read fails, continues
   where the stream stood at that telldir, in a directory that did not
   change. *)
SeekReturns ==
    /\ stream # None /\ told # None /\ steady
    /\ sought # None /\ sought = told.offset
    => {s \in live : s >= stream.pos} = told.rest
=============================================================================
