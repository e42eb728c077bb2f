------------------------- MODULE SdmmcAdapterProofs -------------------------
(***************************************************************************)
(* Proofs about SdmmcAdapter, for every card, configuration, set of tasks  *)
(* and load.                                                               *)
(*                                                                         *)
(* The argument is that of BdlAdapterProofs, without what is durable: how  *)
(* often a task holds the mutex is a function of its place in its call     *)
(* (Placed), so one task at a time is inside the loops of sdmmc_read and   *)
(* sdmmc_write, and what its loop has done so far is still there at its    *)
(* next turn (Served).  The narrowed sector numbers are those that were    *)
(* meant because the checks at the start of a request keep all of it on    *)
(* the card.                                                               *)
(***************************************************************************)
EXTENDS SdmmcAdapter, SequenceTheorems, TLAPS

-----------------------------------------------------------------------------
(* The inductive invariant. *)

Steps == {"lock", "unlock", "open", "unref", "check", "params", "refs", "free", "io", "copyin",
          "write", "read", "copyout"}

Calls == DOMAIN Program

(* How often t has taken the mutex *)
Held(t) == IF owner = t THEN depth ELSE 0

(* How often the mutex is held before each step of a call, and after it *)
Depth ==
    [io |-> <<0, 1, 1, 0>>,
     sync |-> <<0, 1, 0>>,
     mount |-> <<0, 0, 1, 1, 0>>,
     unmount |-> <<0, 1, 1, 0, 0>>,
     format |-> <<0, 0, 0, 1, 2, 2, 1, 2, 2, 1, 0>>,
     destroy |-> <<0, 1, 1, 0, 0>>]

(* What is left of call o from its k-th step on *)
Left(o, k) == SubSeq(Program[o], k, Len(Program[o]))

(* The steps that a step "io" turns into, one after the other *)
LoopSteps == {"copyin", "write", "read", "copyout"}
InLoop(t) == todo[t] # <<>> /\ Head(todo[t]) \in LoopSteps

(* The steps that may fail *)
Failing == {"check", "params", "refs", "io"} \cup LoopSteps

(* A call that has not failed *)
OnCourse(t) ==
    \/ op[t] \in Calls /\ \E k \in 1 .. Len(Program[op[t]]) + 1 :
          /\ Held(t) = Depth[op[t]][k]
          /\ \/ todo[t] = Left(op[t], k)
             \/ /\ k <= Len(Program[op[t]]) /\ Program[op[t]][k] = "io"
                /\ \E x \in LoopSteps : todo[t] = <<x>> \o Left(op[t], k + 1)
    \/ op[t] = "none" /\ Held(t) = 0 /\ todo[t] = <<>>

(* The error path of one that has *)
GivingUp(t) ==
    \/ Held(t) = 0 /\ todo[t] = <<>>
    \/ Held(t) = 1 /\ todo[t] = <<"unlock">> /\ op[t] # "none"
    \/ op[t] = "mount" /\ \/ Held(t) = 1 /\ todo[t] = <<"unlock", "unref">>
                          \/ Held(t) = 0 /\ todo[t] = <<"unref">>
    \/ op[t] = "format" /\ Held(t) = 2 /\ todo[t] = <<"unlock", "unlock">>

Placed == \A t \in Tasks : IF res[t] = "ok" THEN OnCourse(t) ELSE GivingUp(t)

Mutex == owner = None <=> depth = 0

Excluded ==
    \A t, u \in Tasks : t # u =>
        /\ op[t] \in Alone => op[u] = "none"
        /\ op[t] \in Serial => op[u] \notin Serial

(* A call that is to drop a reference finds one. *)
Referring ==
    \A t \in Tasks :
        /\ op[t] = "mount" /\ todo[t] \notin {Left("mount", 1), <<>>} => refs > 0
        /\ op[t] = "unmount" /\ todo[t] # <<>> => refs > 0

(* The data of blocks *)
Origins == {"old", "empty", "torn"} \cup {r.tag : r \in UNION {Loads[l].requests : l \in DOMAIN Loads}}
Block == Origins \X Int

Requests ==
    [on : BOOLEAN, kind : {"none", "read", "write"}, from : Nat, cnt : Nat, pos : Nat,
     alias : BOOLEAN, data : Seq(Block), ok : BOOLEAN]

(* The adapter's fields and every task's program *)
TypeOK ==
    /\ freed \in BOOLEAN /\ owner \in Tasks \cup {None} /\ depth \in Nat /\ refs \in Nat
    /\ op \in [Tasks -> Calls \cup {"none"}]
    /\ todo \in [Tasks -> Seq(Steps)] /\ res \in [Tasks -> {"ok", "fail"}]

Sectors == geo.card.capacity

Typed ==
    /\ TypeOK
    /\ geo \in Setups /\ Creatable(geo.card, geo.config)
    /\ buf \in [1 .. Bufs -> Block] /\ media \in [0 .. Sectors - 1 -> Block]
    /\ io \in [Tasks -> Requests]

Good(t) ==
    LET r == io[t]
    IN  /\ r.kind \in {"read", "write"} /\ r.from + r.cnt <= Sectors /\ r.pos < r.cnt
        /\ r.alias => r.cnt <= Bufs
        /\ Len(r.data) = IF r.kind = "write" THEN r.cnt ELSE r.pos
        /\ IF r.kind = "read" THEN At(t, "read") \/ At(t, "copyout")
                              ELSE At(t, "copyin") \/ At(t, "write")
        /\ \A i \in 1 .. r.pos : media[r.from + i - 1] = r.data[i]
        /\ (At(t, "copyin") /\ r.alias) \/ At(t, "write") =>
              \A i \in 1 .. Chunk(t) : buf[i] = r.data[r.pos + i]
        /\ At(t, "copyout") => \A i \in 1 .. Chunk(t) : buf[i] = media[r.from + r.pos + i - 1]

Served == \A t \in Tasks : (io[t].on <=> InLoop(t)) /\ (io[t].on => Good(t))

(* destroy, from its look at the count on *)
Ending ==
    \A t \in Tasks :
        op[t] = "destroy" /\ res[t] = "ok" /\ todo[t] \in {<<"unlock", "free">>, <<"free">>} => refs = 0

(* destroy frees the adapter only when lwext4 does not refer to it and no task
   is in another call. *)
FreedClean ==
    freed => refs = 0 /\ owner = None /\ \A t \in Tasks : todo[t] = <<>>

Control == Placed /\ Mutex /\ Excluded /\ Referring

IInv == Typed /\ Control /\ Served /\ Ending /\ FreedClean
-----------------------------------------------------------------------------
(* The places of a call. *)

(* What a step "x" in front of what is left looks like. *)
LEMMA Cons ==
  ASSUME NEW S, NEW x \in S, NEW s \in Seq(S)
  PROVE  /\ <<x>> \o s \in Seq(S) /\ <<x>> \o s # <<>>
         /\ Head(<<x>> \o s) = x /\ Tail(<<x>> \o s) = s
         /\ Len(<<x>> \o s) = 1 + Len(s)
         /\ (<<x>> \o s)[1] = x
<1> DEFINE c == <<x>> \o s
<1>1. /\ c \in Seq(S) /\ Len(c) = 1 + Len(s) /\ Len(s) \in Nat
      /\ \A i \in 1 .. 1 + Len(s) : c[i] = IF i <= 1 THEN x ELSE s[i - 1]
  <2>1. <<x>> \in Seq(S) /\ Len(<<x>>) = 1 /\ <<x>>[1] = x
    OBVIOUS
  <2>2. /\ <<x>> \o s \in Seq(S) /\ Len(<<x>> \o s) = Len(<<x>>) + Len(s)
        /\ \A i \in 1 .. Len(<<x>>) + Len(s) :
              (<<x>> \o s)[i] = IF i <= Len(<<x>>) THEN <<x>>[i] ELSE s[i - Len(<<x>>)]
    BY <2>1, ConcatProperties
  <2>3. Len(s) \in Nat
    OBVIOUS
  <2> QED BY <2>1, <2>2, <2>3
<1> HIDE DEF c
<1>2. c # <<>> /\ c[1] = x
  BY <1>1, EmptySeq
<1>3. Head(c) = x
  BY <1>1, <1>2
<1>4. Tail(c) = s
  <2>1. /\ Tail(c) \in Seq(S) /\ Len(Tail(c)) = Len(s)
        /\ \A i \in 1 .. Len(Tail(c)) : Tail(c)[i] = c[i + 1]
    BY <1>1, <1>2, HeadTailProperties
  <2>2. \A i \in 1 .. Len(s) : Tail(c)[i] = s[i]
    BY <1>1, <2>1
  <2> QED BY <2>1, <2>2, SeqEqual
<1> QED BY <1>1, <1>2, <1>3, <1>4 DEF c

(* Putting nothing in front of what is left is taking the step off. *)
LEMMA EmptyCons == \A s \in Seq(Steps) : s # <<>> => <<>> \o Tail(s) = Tail(s) /\ Tail(s) \in Seq(Steps)
BY HeadTailProperties, ConcatEmptySeq

(* Cons for steps. *)
LEMMA ConsStep ==
  \A x \in Steps, s \in Seq(Steps) : /\ <<x>> \o s \in Seq(Steps) /\ <<x>> \o s # <<>>
                                     /\ Head(<<x>> \o s) = x /\ Tail(<<x>> \o s) = s
BY Cons

(* The calls that lwext4 and the application make. *)
LEMMA CallNames == Calls = {"io", "sync", "mount", "unmount", "format", "destroy"}
BY DEF Calls, Program

(* Every call is a sequence of steps, and none is empty. *)
LEMMA Programs ==
  ASSUME NEW o \in Calls
  PROVE  Program[o] \in Seq(Steps) /\ Len(Program[o]) \in Nat \ {0}
<1>1. CASE o = "io"
  BY <1>1 DEF Program, Steps
<1>2. CASE o = "sync"
  BY <1>2 DEF Program, Steps
<1>3. CASE o = "mount"
  BY <1>3 DEF Program, Steps
<1>4. CASE o = "unmount"
  BY <1>4 DEF Program, Steps
<1>5. CASE o = "format"
  BY <1>5 DEF Program, Steps
<1>6. CASE o = "destroy"
  BY <1>6 DEF Program, Steps
<1> QED BY <1>1, <1>2, <1>3, <1>4, <1>5, <1>6, CallNames

(* A step takes a call from one place to the next. *)
LEMMA LeftSteps ==
  ASSUME NEW o \in Calls, NEW k \in 1 .. Len(Program[o])
  PROVE  /\ Left(o, k) # <<>> /\ Left(o, k) \in Seq(Steps)
         /\ Head(Left(o, k)) = Program[o][k]
         /\ Tail(Left(o, k)) = Left(o, k + 1)
<1>1. Program[o] \in Seq(Steps) /\ Len(Program[o]) \in 1 .. Len(Program[o])
      /\ Len(Program[o]) \in k .. Len(Program[o])
  BY Programs
<1>2. Head(Left(o, k)) = Program[o][k] /\ Tail(Left(o, k)) = Left(o, k + 1)
  BY <1>1, HeadTailOfSubSeq, Zenon DEF Left
<1>3. /\ Left(o, k) \in Seq(Steps)
      /\ Len(Left(o, k)) = Len(Program[o]) - k + 1
  BY <1>1, SubSeqProperties, ElementOfSeq DEF Left
<1>4. Left(o, k) # <<>>
  BY <1>1, <1>3, EmptySeq
<1> QED BY <1>2, <1>3, <1>4

(* What is left of a call is a sequence of steps, past its end too. *)
LEMMA LeftInSeq ==
  ASSUME NEW o \in Calls, NEW k \in 1 .. Len(Program[o]) + 2
  PROVE  Left(o, k) \in Seq(Steps)
<1>1. Program[o] \in Seq(Steps) /\ Len(Program[o]) \in Int /\ k \in Int
  BY Programs
<1>2. \A i \in k .. Len(Program[o]) : Program[o][i] \in Steps
  BY <1>1, ElementOfSeq
<1> QED BY <1>1, <1>2, SubSeqProperties DEF Left

(* All of a call is left at its first step, nothing after its last. *)
LEMMA LeftEnds ==
  ASSUME NEW o \in Calls
  PROVE  Left(o, 1) = Program[o] /\ Left(o, Len(Program[o]) + 1) = <<>>
BY Programs, SubSeqFull, SubSeqEmpty DEF Left

(* How the mutex is taken and given along each call *)
LEMMA Depths ==
  ASSUME NEW o \in Calls
  PROVE  /\ Depth[o][1] = 0 /\ Depth[o][Len(Program[o]) + 1] = 0
         /\ \A k \in 1 .. Len(Program[o]) + 1 :
               Depth[o][k] \in 0 .. 2 /\ (Depth[o][k] = 2 => o = "format")
         /\ \A k \in 1 .. Len(Program[o]) :
               LET s == Program[o][k]
               IN  /\ s \in Steps \ LoopSteps
                   /\ s = "lock" => Depth[o][k + 1] = Depth[o][k] + 1
                   /\ s = "unlock" => Depth[o][k + 1] = Depth[o][k] - 1
                   /\ s \notin {"lock", "unlock"} => Depth[o][k + 1] = Depth[o][k]
                   /\ s = "io" => Depth[o][k] > 0
                   /\ s = "open" => o = "mount" /\ k = 1
                   /\ s = "unref" => o = "unmount" /\ k = Len(Program[o])
<1>1. CASE o = "io"
  BY <1>1 DEF Program, Steps, LoopSteps, Depth
<1>2. CASE o = "sync"
  BY <1>2 DEF Program, Steps, LoopSteps, Depth
<1>3. CASE o = "mount"
  BY <1>3 DEF Program, Steps, LoopSteps, Depth
<1>4. CASE o = "unmount"
  BY <1>4 DEF Program, Steps, LoopSteps, Depth
<1>5. CASE o = "format"
  BY <1>5 DEF Program, Steps, LoopSteps, Depth
<1>6. CASE o = "destroy"
  BY <1>6 DEF Program, Steps, LoopSteps, Depth
<1> QED BY <1>1, <1>2, <1>3, <1>4, <1>5, <1>6, CallNames

-----------------------------------------------------------------------------
(* The moves of one task, from its place to the next. *)

(* Where a call is that has not failed, when its next step is no loop's. *)
LEMMA OnPlace ==
  ASSUME NEW t \in Tasks, NEW l, At(t, l), l \notin LoopSteps, OnCourse(t)
  PROVE  /\ op[t] \in Calls
         /\ \E k \in 1 .. Len(Program[op[t]]) :
               /\ Program[op[t]][k] = l /\ Held(t) = Depth[op[t]][k]
               /\ todo[t] = Left(op[t], k) /\ Tail(todo[t]) = Left(op[t], k + 1)
<1> USE DEF At
<1>1. CASE op[t] \in Calls /\ \E k \in 1 .. Len(Program[op[t]]) + 1 :
             /\ Held(t) = Depth[op[t]][k]
             /\ \/ todo[t] = Left(op[t], k)
                \/ /\ k <= Len(Program[op[t]]) /\ Program[op[t]][k] = "io"
                   /\ \E x \in LoopSteps : todo[t] = <<x>> \o Left(op[t], k + 1)
  <2>1. PICK k \in 1 .. Len(Program[op[t]]) + 1 :
             /\ Held(t) = Depth[op[t]][k]
             /\ \/ todo[t] = Left(op[t], k)
                \/ /\ k <= Len(Program[op[t]]) /\ Program[op[t]][k] = "io"
                   /\ \E x \in LoopSteps : todo[t] = <<x>> \o Left(op[t], k + 1)
    BY <1>1
  <2>2. Len(Program[op[t]]) \in Nat
    BY <1>1, Programs
  <2>3. CASE todo[t] = Left(op[t], k)
    <3>1. k \in 1 .. Len(Program[op[t]])
      BY <1>1, <2>2, <2>3, LeftEnds
    <3> QED BY <1>1, <2>1, <2>3, <3>1, LeftSteps
  <2>4. ASSUME NEW x \in LoopSteps, todo[t] = <<x>> \o Left(op[t], k + 1)
        PROVE  FALSE
    <3>1. Left(op[t], k + 1) \in Seq(Steps)
      BY <1>1, <2>1, LeftInSeq
    <3>2. Head(todo[t]) = x
      BY <2>4, <3>1, Cons DEF LoopSteps, Steps
    <3> QED BY <3>2
  <2> QED BY <2>1, <2>3, <2>4
<1> QED BY <1>1 DEF OnCourse

(* Where it is in a loop: at one of its requests, holding the mutex. *)
LEMMA LoopPlace ==
  ASSUME NEW t \in Tasks, InLoop(t), OnCourse(t)
  PROVE  /\ op[t] \in Calls
         /\ \E k \in 1 .. Len(Program[op[t]]) :
               /\ Program[op[t]][k] = "io" /\ Held(t) = Depth[op[t]][k]
               /\ Tail(todo[t]) = Left(op[t], k + 1)
<1> USE DEF InLoop
<1>1. PICK k \in 1 .. Len(Program[op[t]]) + 1 :
             /\ op[t] \in Calls
             /\ Held(t) = Depth[op[t]][k]
             /\ \/ todo[t] = Left(op[t], k)
                \/ /\ k <= Len(Program[op[t]]) /\ Program[op[t]][k] = "io"
                   /\ \E x \in LoopSteps : todo[t] = <<x>> \o Left(op[t], k + 1)
  BY DEF OnCourse
<1>2. Len(Program[op[t]]) \in Nat
  BY <1>1, Programs
<1>3. todo[t] # Left(op[t], k)
  <2>1. CASE k = Len(Program[op[t]]) + 1
    BY <1>1, <2>1, LeftEnds
  <2>2. CASE k \in 1 .. Len(Program[op[t]])
    <3>1. Program[op[t]][k] \notin LoopSteps
      BY <1>1, <2>2, Depths
    <3>2. Head(Left(op[t], k)) = Program[op[t]][k]
      BY <1>1, <2>2, LeftSteps
    <3> QED BY <3>1, <3>2
  <2> QED BY <1>1, <1>2, <2>1, <2>2
<1>4. PICK x \in LoopSteps : todo[t] = <<x>> \o Left(op[t], k + 1)
  BY <1>1, <1>3
<1>5. Tail(todo[t]) = Left(op[t], k + 1)
  <2>1. Left(op[t], k + 1) \in Seq(Steps) /\ x \in Steps
    BY <1>1, <1>2, LeftInSeq DEF LoopSteps, Steps
  <2> DEFINE rest == Left(op[t], k + 1)
  <2>2. rest \in Seq(Steps) /\ todo[t] = <<x>> \o rest
    BY <1>4, <2>1
  <2> HIDE DEF rest
  <2>3. Tail(<<x>> \o rest) = rest
    BY <2>1, <2>2, Cons
  <2>4. Tail(todo[t]) = rest
    BY <2>2, <2>3, Zenon
  <2> QED BY <2>4 DEF rest
<1> QED BY <1>1, <1>2, <1>3, <1>5

(* The next step of a call that has not failed *)
LEMMA PopOnCourse ==
  ASSUME NEW t \in Tasks, NEW l, At(t, l), l \notin LoopSteps, OnCourse(t),
         op'[t] = op[t], todo'[t] = Tail(todo[t]),
         Held(t)' = Held(t) + (IF l = "lock" THEN 1 ELSE IF l = "unlock" THEN -1 ELSE 0)
  PROVE  OnCourse(t)'
<1>1. ASSUME op[t] \in Calls,
             NEW k \in 1 .. Len(Program[op[t]]),
             Program[op[t]][k] = l, Held(t) = Depth[op[t]][k],
             Tail(todo[t]) = Left(op[t], k + 1)
      PROVE  OnCourse(t)'
  <2>1. k + 1 \in 1 .. Len(Program[op[t]]) + 1
    BY <1>1, Programs
  <2>2. Depth[op[t]][k] \in 0 .. 2 /\ Depth[op[t]][k + 1] \in 0 .. 2
    BY <1>1, <2>1, Programs, Depths
  <2>3. /\ l = "lock" => Depth[op[t]][k + 1] = Depth[op[t]][k] + 1
        /\ l = "unlock" => Depth[op[t]][k + 1] = Depth[op[t]][k] - 1
        /\ l \notin {"lock", "unlock"} => Depth[op[t]][k + 1] = Depth[op[t]][k]
    BY <1>1, Depths
  <2>4. Held(t)' = Depth[op[t]][k + 1]
    BY <1>1, <2>2, <2>3
  <2> QED BY <1>1, <2>1, <2>4 DEF OnCourse
<1> QED BY <1>1, OnPlace

(* Inside the loop of a request *)
LEMMA LoopOnCourse ==
  ASSUME NEW t \in Tasks, At(t, "io") \/ InLoop(t), OnCourse(t),
         NEW x \in LoopSteps,
         op'[t] = op[t], todo'[t] = <<x>> \o Tail(todo[t]), Held(t)' = Held(t)
  PROVE  OnCourse(t)'
<1>1. /\ op[t] \in Calls
      /\ \E k \in 1 .. Len(Program[op[t]]) :
            /\ Program[op[t]][k] = "io" /\ Held(t) = Depth[op[t]][k]
            /\ Tail(todo[t]) = Left(op[t], k + 1)
  BY OnPlace, LoopPlace DEF LoopSteps
<1>2. PICK k \in 1 .. Len(Program[op[t]]) :
         /\ Program[op[t]][k] = "io" /\ Held(t) = Depth[op[t]][k]
         /\ Tail(todo[t]) = Left(op[t], k + 1)
  BY <1>1
<1>3. k \in 1 .. Len(Program[op[t]]) + 1 /\ k <= Len(Program[op[t]])
  BY <1>1, Programs
<1>4. todo'[t] = <<x>> \o Left(op[t], k + 1)
  BY <1>2
<1> QED BY <1>1, <1>2, <1>3, <1>4, Zenon DEF OnCourse

(* At its end *)
LEMMA LoopEndOnCourse ==
  ASSUME NEW t \in Tasks, InLoop(t), OnCourse(t),
         op'[t] = op[t], todo'[t] = Tail(todo[t]), Held(t)' = Held(t)
  PROVE  OnCourse(t)'
<1>1. PICK k \in 1 .. Len(Program[op[t]]) :
         /\ op[t] \in Calls
         /\ Program[op[t]][k] = "io" /\ Held(t) = Depth[op[t]][k]
         /\ Tail(todo[t]) = Left(op[t], k + 1)
  BY LoopPlace
<1>2. k + 1 \in 1 .. Len(Program[op[t]]) + 1
  BY <1>1, Programs
<1>3. Held(t)' = Depth[op[t]][k + 1]
  BY <1>1, Depths
<1> QED BY <1>1, <1>2, <1>3 DEF OnCourse

(* How often the mutex is held where a step may fail *)
LEMMA FailDepths ==
  ASSUME NEW o \in Calls, NEW k \in 1 .. Len(Program[o])
  PROVE  LET s == Program[o][k]
         IN  /\ s \in {"check", "params"} => Depth[o][k] = 0
             /\ s \in {"refs"} => Depth[o][k] = 1 /\ o # "unmount"
             /\ s = "io" => Depth[o][k] = IF o = "format" THEN 2 ELSE 1
<1>1. CASE o = "io"
  BY <1>1 DEF Program, Depth
<1>2. CASE o = "sync"
  BY <1>2 DEF Program, Depth
<1>3. CASE o = "mount"
  BY <1>3 DEF Program, Depth
<1>4. CASE o = "unmount"
  BY <1>4 DEF Program, Depth
<1>5. CASE o = "format"
  BY <1>5 DEF Program, Depth
<1>6. CASE o = "destroy"
  BY <1>6 DEF Program, Depth
<1> QED BY <1>1, <1>2, <1>3, <1>4, <1>5, <1>6, CallNames

(* A call that fails gives back what it holds: its error path, which is where
   the code has it, fits the place where the step failed. *)
LEMMA FailGivesUp ==
  ASSUME NEW t \in Tasks, NEW l \in Failing, At(t, l), OnCourse(t),
         op'[t] = op[t], todo'[t] = Cleanup(t), Held(t)' = Held(t)
  PROVE  GivingUp(t)'
<1> DEFINE Place(k, s) == /\ op[t] \in Calls /\ Program[op[t]][k] = s /\ Held(t) = Depth[op[t]][k]
<1>1. "none" \notin Calls /\ \A m : m # l => ~At(t, m)
  BY CallNames DEF At
<1>2. CASE l \in {"check", "params"}
  <2>1. \E k \in 1 .. Len(Program[op[t]]) : Place(k, l)
    BY <1>2, OnPlace DEF LoopSteps
  <2>2. Held(t) = 0
    BY <1>2, <2>1, FailDepths
  <2>3. At(t, "check") \/ At(t, "params")
    BY <1>2
  <2>4. Cleanup(t) = <<>>
    BY <1>1, <1>2, <2>3 DEF Cleanup
  <2> QED BY <2>2, <2>4 DEF GivingUp
<1>3. CASE l = "refs"
  <2>1. \E k \in 1 .. Len(Program[op[t]]) : Place(k, l)
    BY <1>3, OnPlace DEF LoopSteps
  <2>2. Held(t) = 1 /\ op[t] # "none"
    BY <1>1, <1>3, <2>1, FailDepths
  <2>3. Cleanup(t) = <<"unlock">>
    BY <1>1, <1>3 DEF Cleanup, RefsError
  <2> QED BY <2>2, <2>3 DEF GivingUp
<1>4. CASE l \in LoopSteps \cup {"io"}
  <2>1. \E k \in 1 .. Len(Program[op[t]]) : Place(k, "io")
    <3>1. CASE l = "io"
      BY <3>1, OnPlace DEF LoopSteps
    <3>2. CASE l \in LoopSteps
      BY <3>2, LoopPlace DEF InLoop, At
    <3> QED BY <1>4, <3>1, <3>2
  <2>2. op[t] # "none" /\ Held(t) = IF op[t] = "format" THEN 2 ELSE 1
    BY <1>1, <2>1, FailDepths
  <2>3. Cleanup(t) = RequestError(op[t])
    BY <1>1, <1>4 DEF Cleanup, LoopSteps
  <2> QED BY <2>2, <2>3 DEF RequestError, MkfsError, GivingUp
<1> QED BY <1>2, <1>3, <1>4 DEF Failing

(* The steps of the error paths *)
LEMMA GivingUpPlace ==
  ASSUME NEW t \in Tasks, NEW l, At(t, l), GivingUp(t)
  PROVE  \/ /\ l = "unlock" /\ op[t] # "none"
            /\ Held(t) = 1 /\ todo[t] = <<"unlock">> /\ Tail(todo[t]) = <<>>
         \/ /\ l = "unlock" /\ op[t] = "mount"
            /\ Held(t) = 1 /\ todo[t] = <<"unlock", "unref">> /\ Tail(todo[t]) = <<"unref">>
         \/ /\ l = "unlock" /\ op[t] = "format"
            /\ Held(t) = 2 /\ todo[t] = <<"unlock", "unlock">> /\ Tail(todo[t]) = <<"unlock">>
         \/ /\ l = "unref" /\ op[t] = "mount"
            /\ Held(t) = 0 /\ todo[t] = <<"unref">> /\ Tail(todo[t]) = <<>>
<1>1. /\ Head(<<"unlock">>) = "unlock" /\ Tail(<<"unlock">>) = <<>>
      /\ Head(<<"unref">>) = "unref" /\ Tail(<<"unref">>) = <<>>
      /\ Head(<<"unlock", "unref">>) = "unlock" /\ Tail(<<"unlock", "unref">>) = <<"unref">>
      /\ Head(<<"unlock", "unlock">>) = "unlock" /\ Tail(<<"unlock", "unlock">>) = <<"unlock">>
  OBVIOUS
<1>2. todo[t] # <<>> /\ Head(todo[t]) = l
  BY DEF At
<1>3. CASE Held(t) = 1 /\ todo[t] = <<"unlock">> /\ op[t] # "none"
  BY <1>1, <1>2, <1>3
<1>4. CASE op[t] = "mount" /\ Held(t) = 1 /\ todo[t] = <<"unlock", "unref">>
  BY <1>1, <1>2, <1>4
<1>5. CASE op[t] = "mount" /\ Held(t) = 0 /\ todo[t] = <<"unref">>
  BY <1>1, <1>2, <1>5
<1>6. CASE op[t] = "format" /\ Held(t) = 2 /\ todo[t] = <<"unlock", "unlock">>
  BY <1>1, <1>2, <1>6
<1> QED BY <1>2, <1>3, <1>4, <1>5, <1>6 DEF GivingUp

(* The next step of an error path. *)
LEMMA PopGivingUp ==
  ASSUME NEW t \in Tasks, NEW l, At(t, l), GivingUp(t),
         op'[t] = op[t], todo'[t] = Tail(todo[t]),
         Held(t)' = Held(t) + (IF l = "lock" THEN 1 ELSE IF l = "unlock" THEN -1 ELSE 0)
  PROVE  GivingUp(t)'
<1>1. CASE l = "unlock"
  <2>1. Held(t)' = Held(t) - 1
    BY <1>1
  <2>2. \/ op[t] # "none" /\ Held(t) = 1 /\ Tail(todo[t]) = <<>>
        \/ op[t] = "mount" /\ Held(t) = 1 /\ Tail(todo[t]) = <<"unref">>
        \/ op[t] = "format" /\ Held(t) = 2 /\ Tail(todo[t]) = <<"unlock">>
    BY <1>1, GivingUpPlace
  <2> QED BY <2>1, <2>2 DEF GivingUp
<1>2. CASE l = "unref"
  <2>1. Held(t)' = Held(t) + 0
    BY <1>2
  <2>2. Held(t) = 0 /\ Tail(todo[t]) = <<>>
    BY <1>2, GivingUpPlace
  <2> QED BY <2>1, <2>2 DEF GivingUp
<1> QED BY <1>1, <1>2, GivingUpPlace

-----------------------------------------------------------------------------
(* Control: one step of one task. *)

(* Taking and giving the mutex changes what one task holds. *)
LEMMA TakeHeld ==
  ASSUME TypeOK, Mutex, NEW t \in Tasks, owner \in {t, None}, owner' = t, depth' = depth + 1
  PROVE  /\ Held(t)' = Held(t) + 1 /\ Mutex'
         /\ \A u \in Tasks \ {t} : Held(u)' = Held(u)
BY TaskAssumption DEF TypeOK, Mutex, Held

(* xSemaphoreGiveRecursive, by the task that holds the mutex. *)
LEMMA GiveHeld ==
  ASSUME TypeOK, Mutex, NEW t \in Tasks, owner = t,
         depth' = depth - 1, owner' = IF depth = 1 THEN None ELSE t
  PROVE  /\ Held(t) \in Nat \ {0} /\ Held(t)' = Held(t) - 1 /\ Mutex'
         /\ \A u \in Tasks \ {t} : Held(u)' = Held(u)
BY TaskAssumption DEF TypeOK, Mutex, Held

(* Without that, every task holds what it held. *)
LEMMA KeepHeld ==
  ASSUME Mutex, UNCHANGED lock
  PROVE  Mutex' /\ \A u \in Tasks : Held(u)' = Held(u)
BY DEF Mutex, Held, lock

Course(t) == IF res[t] = "ok" THEN OnCourse(t) ELSE GivingUp(t)

(* The others are where they were. *)
LEMMA OthersPlaced ==
  ASSUME Placed, NEW t \in Tasks, Course(t)',
         \A u \in Tasks \ {t} : /\ op'[u] = op[u] /\ todo'[u] = todo[u] /\ res'[u] = res[u]
                                /\ Held(u)' = Held(u)
  PROVE  Placed'
<1>1. ASSUME NEW u \in Tasks \ {t} PROVE Course(u)'
  <2>1. op'[u] = op[u] /\ todo'[u] = todo[u] /\ res'[u] = res[u] /\ Held(u)' = Held(u)
    BY <1>1
  <2>2. OnCourse(u) => OnCourse(u)'
    BY <2>1 DEF OnCourse
  <2>3. GivingUp(u) => GivingUp(u)'
    BY <2>1 DEF GivingUp
  <2> QED BY <2>1, <2>2, <2>3 DEF Placed, Course
<1> QED BY <1>1 DEF Placed, Course

(* What a step done leaves *)
LEMMA GoPops ==
  ASSUME TypeOK, NEW t \in Tasks, NEW l, At(t, l), Go(t)
  PROVE  /\ todo'[t] = Tail(todo[t]) /\ res' = res
         /\ \A u \in Tasks \ {t} : todo'[u] = todo[u]
<1>1. todo[t] \in Seq(Steps) /\ todo[t] # <<>>
  BY DEF TypeOK, At
<1>2. <<>> \o Tail(todo[t]) = Tail(todo[t])
  BY <1>1, EmptyCons
<1> QED BY <1>2 DEF Go, First, TypeOK

(* A step done leads to the next place. *)
LEMMA GoPlaced ==
  ASSUME TypeOK, Placed, NEW t \in Tasks, NEW l, At(t, l),
         Go(t), op' = op,
         \A u \in Tasks \ {t} : Held(u)' = Held(u),
         Held(t)' = Held(t) + (IF l = "lock" THEN 1 ELSE IF l = "unlock" THEN -1 ELSE 0)
  PROVE  Placed'
<1>1. /\ todo'[t] = Tail(todo[t]) /\ res' = res
      /\ \A u \in Tasks \ {t} : todo'[u] = todo[u]
  BY GoPops
<1>2. CASE res[t] # "ok"
  <2>1. GivingUp(t)'
    BY <1>1, <1>2, PopGivingUp DEF Placed
  <2> QED BY <1>1, <1>2, <2>1, OthersPlaced DEF Course
<1>3. CASE res[t] = "ok"
  <2>1. CASE l \notin LoopSteps
    <3>1. OnCourse(t)'
      BY <1>1, <1>3, <2>1, PopOnCourse DEF Placed
    <3> QED BY <1>1, <1>3, <3>1, OthersPlaced DEF Course
  <2>2. CASE l \in LoopSteps
    <3>1. InLoop(t) /\ Held(t)' = Held(t) + 0
      BY <2>2 DEF InLoop, At, LoopSteps
    <3>2. Held(t) \in Int
      BY DEF Held, TypeOK
    <3>3. OnCourse(t)'
      BY <1>1, <1>3, <3>1, <3>2, LoopEndOnCourse DEF Placed
    <3> QED BY <1>1, <1>3, <3>3, OthersPlaced DEF Course
  <2> QED BY <2>1, <2>2
<1> QED BY <1>2, <1>3

(* Only a call that has not failed is at another step than these. *)
LEMMA NotGivingUp ==
  ASSUME Placed, NEW t \in Tasks, NEW l, At(t, l), l \notin {"unlock", "unref"}
  PROVE  res[t] = "ok" /\ OnCourse(t) /\ op[t] # "none"
<1>1. ~GivingUp(t)
  BY GivingUpPlace
<1> QED BY <1>1 DEF Placed, OnCourse, At, Calls, Program

(* A request's loop stays at the place of its request. *)
LEMMA LoopPlaced ==
  ASSUME TypeOK, Placed, NEW t \in Tasks, At(t, "io") \/ InLoop(t),
         NEW x \in LoopSteps, First(t, <<x>>), op' = op, UNCHANGED lock, Mutex
  PROVE  Placed'
<1>1. /\ todo'[t] = <<x>> \o Tail(todo[t]) /\ res' = res
      /\ \A u \in Tasks \ {t} : todo'[u] = todo[u]
  BY DEF First, TypeOK
<1>2. res[t] = "ok" /\ OnCourse(t)
  BY NotGivingUp DEF InLoop, LoopSteps, At
<1>3. \A u \in Tasks : Held(u)' = Held(u)
  BY KeepHeld
<1>4. OnCourse(t)'
  BY <1>1, <1>2, <1>3, LoopOnCourse
<1> QED BY <1>1, <1>2, <1>3, <1>4, OthersPlaced DEF Course

(* A failure leads to the error path. *)
LEMMA FailPlaced ==
  ASSUME TypeOK, Placed, NEW t \in Tasks, NEW l \in Failing, At(t, l),
         Fail(t), op' = op, UNCHANGED lock, Mutex
  PROVE  Placed'
<1>1. /\ todo'[t] = Cleanup(t) /\ res'[t] = "fail"
      /\ \A u \in Tasks \ {t} : todo'[u] = todo[u] /\ res'[u] = res[u]
  BY DEF Fail, TypeOK
<1>2. OnCourse(t)
  BY NotGivingUp DEF Failing, LoopSteps
<1>3. \A u \in Tasks : Held(u)' = Held(u)
  BY KeepHeld
<1>4. GivingUp(t)'
  BY <1>1, <1>2, <1>3, FailGivesUp
<1> QED BY <1>1, <1>2, <1>3, <1>4, OthersPlaced DEF Course

(* The last step of an unmount, and of a mount that failed *)
LEMMA UnrefPlace ==
  ASSUME Placed, NEW t \in Tasks, At(t, "unref")
  PROVE  /\ Held(t) = 0 /\ Tail(todo[t]) = <<>>
         /\ \/ res[t] = "ok" /\ op[t] = "unmount"
            \/ res[t] # "ok" /\ op[t] = "mount"
<1>1. CASE res[t] # "ok"
  BY <1>1, GivingUpPlace DEF Placed
<1>2. CASE res[t] = "ok"
  <2>1. PICK k \in 1 .. Len(Program[op[t]]) :
           /\ op[t] \in Calls
           /\ Program[op[t]][k] = "unref" /\ Held(t) = Depth[op[t]][k]
           /\ Tail(todo[t]) = Left(op[t], k + 1)
    BY <1>2, OnPlace DEF Placed, LoopSteps
  <2>2. op[t] = "unmount" /\ k = Len(Program[op[t]])
    BY <2>1, Depths
  <2>3. Depth["unmount"][k] = 0
    BY <2>1, <2>2 DEF Depth, Program
  <2> QED BY <1>2, <2>1, <2>2, <2>3, LeftEnds
<1> QED BY <1>1, <1>2

(* At the end of a call, and between calls *)
LEMMA EmptyPlace ==
  ASSUME Placed, NEW t \in Tasks, op[t] = "none" \/ todo[t] = <<>>
  PROVE  Held(t) = 0 /\ todo[t] = <<>>
<1>1. "none" \notin Calls
  BY CallNames
<1>2. ASSUME op[t] \in Calls, NEW k \in 1 .. Len(Program[op[t]]) + 1,
             Held(t) = Depth[op[t]][k], todo[t] = Left(op[t], k)
      PROVE  Held(t) = 0 /\ todo[t] = <<>>
  <2>1. Len(Program[op[t]]) \in Nat
    BY <1>2, Programs
  <2>2. k \notin 1 .. Len(Program[op[t]])
    BY <1>1, <1>2, LeftSteps
  <2>3. k = Len(Program[op[t]]) + 1
    BY <2>1, <2>2
  <2> QED BY <1>1, <1>2, <2>3, Depths
<1>3. ASSUME op[t] \in Calls, NEW k \in 1 .. Len(Program[op[t]]),
             NEW x \in LoopSteps, todo[t] = <<x>> \o Left(op[t], k + 1)
      PROVE  FALSE
  <2>1. Left(op[t], k + 1) \in Seq(Steps) /\ x \in Steps
    BY <1>3, Programs, LeftInSeq DEF LoopSteps, Steps
  <2> QED BY <1>1, <1>3, <2>1, Cons
<1>4. CASE res[t] = "ok"
  <2>1. OnCourse(t)
    BY <1>4 DEF Placed
  <2>2. CASE op[t] \in Calls /\ \E k \in 1 .. Len(Program[op[t]]) + 1 :
               /\ Held(t) = Depth[op[t]][k]
               /\ \/ todo[t] = Left(op[t], k)
                  \/ /\ k <= Len(Program[op[t]]) /\ Program[op[t]][k] = "io"
                     /\ \E x \in LoopSteps : todo[t] = <<x>> \o Left(op[t], k + 1)
    <3>1. PICK k \in 1 .. Len(Program[op[t]]) + 1 :
               /\ Held(t) = Depth[op[t]][k]
               /\ \/ todo[t] = Left(op[t], k)
                  \/ /\ k <= Len(Program[op[t]])
                     /\ \E x \in LoopSteps : todo[t] = <<x>> \o Left(op[t], k + 1)
      BY <2>2
    <3>2. Len(Program[op[t]]) \in Nat
      BY <2>2, Programs
    <3>3. CASE todo[t] = Left(op[t], k)
      BY <1>2, <2>2, <3>1, <3>3
    <3>4. CASE k <= Len(Program[op[t]]) /\ \E x \in LoopSteps : todo[t] = <<x>> \o Left(op[t], k + 1)
      <4> DEFINE n == Len(Program[op[t]])
      <4>1. n \in Nat /\ k \in 1 .. n + 1 /\ k <= n
        BY <3>1, <3>2, <3>4
      <4> HIDE DEF n
      <4>2. k \in 1 .. n
        BY <4>1
      <4> QED BY <1>3, <2>2, <3>4, <4>2 DEF n
    <3> QED BY <3>1, <3>3, <3>4
  <2>3. CASE op[t] = "none" /\ Held(t) = 0 /\ todo[t] = <<>>
    BY <2>3
  <2> QED BY <2>1, <2>2, <2>3, Zenon DEF OnCourse
<1>5. CASE res[t] # "ok"
  BY <1>5 DEF Placed, GivingUp
<1> QED BY <1>4, <1>5

(* A call begins at its first place, without the mutex. *)
LEMMA BeginPlaced ==
  ASSUME TypeOK, Placed, Mutex, NEW t \in Tasks, Begin(t)
  PROVE  Placed'
<1>1. PICK o \in Calls : op' = [op EXCEPT ![t] = o] /\ todo' = [todo EXCEPT ![t] = Program[o]]
  BY DEF Begin, Calls
<1>2. op[t] = "none" /\ res' = [res EXCEPT ![t] = "ok"] /\ UNCHANGED lock
  BY DEF Begin
<1>3. /\ \A u \in Tasks : Held(u)' = Held(u)
      /\ Held(t) = 0
  BY <1>2, KeepHeld, EmptyPlace
<1>4. /\ op'[t] = o /\ todo'[t] = Program[o] /\ res'[t] = "ok"
      /\ \A u \in Tasks \ {t} : op'[u] = op[u] /\ todo'[u] = todo[u] /\ res'[u] = res[u]
  BY <1>1, <1>2 DEF TypeOK
<1>5. Program[o] = Left(o, 1) /\ Depth[o][1] = 0 /\ 1 \in 1 .. Len(Program[o]) + 1
  BY LeftEnds, Depths, Programs
<1>6. OnCourse(t)'
  BY <1>3, <1>4, <1>5 DEF OnCourse
<1> QED BY <1>3, <1>4, <1>6, OthersPlaced DEF Course

(* A call returns without the mutex. *)
LEMMA ReturnPlaced ==
  ASSUME TypeOK, Placed, Mutex, NEW t \in Tasks, Return(t)
  PROVE  Placed'
<1>1. /\ op'[t] = "none" /\ todo' = todo /\ res' = res /\ UNCHANGED lock /\ todo[t] = <<>>
      /\ \A u \in Tasks \ {t} : op'[u] = op[u]
  BY DEF Return, TypeOK
<1>2. /\ \A u \in Tasks : Held(u)' = Held(u)
      /\ Held(t) = 0
  BY <1>1, KeepHeld, EmptyPlace
<1>3. Course(t)'
  BY <1>1, <1>2 DEF Course, OnCourse, GivingUp
<1> QED BY <1>1, <1>2, <1>3, OthersPlaced

(* Every step leaves every task at a place of its call. *)
LEMMA PlacedStep ==
  ASSUME TypeOK, Placed, Mutex, NEW t \in Tasks, Begin(t) \/ Step(t)
  PROVE  Placed' /\ Mutex'
<1>1. ASSUME NEW l, At(t, l), l \notin {"lock", "unlock"}, Go(t), op' = op, UNCHANGED lock
      PROVE  Placed'
  <2>1. /\ \A u \in Tasks : Held(u)' = Held(u)
        /\ Held(t) \in Int
    BY <1>1, KeepHeld DEF TypeOK, Held
  <2> QED BY <1>1, <2>1, GoPlaced
<1>2. CASE Begin(t)
  BY <1>2, BeginPlaced, KeepHeld DEF Begin
<1>3. CASE Return(t)
  BY <1>3, ReturnPlaced, KeepHeld DEF Return
<1>4. CASE Lock(t)
  <2>1. At(t, "lock") /\ Go(t) /\ op' = op /\ owner \in {t, None} /\ owner' = t /\ depth' = depth + 1
    BY <1>4 DEF Lock
  <2>2. /\ Held(t)' = Held(t) + 1 /\ Mutex'
        /\ \A u \in Tasks \ {t} : Held(u)' = Held(u)
    BY <2>1, TakeHeld
  <2> QED BY <2>1, <2>2, GoPlaced
<1>5. CASE Unlock(t)
  <2>1. /\ At(t, "unlock") /\ Go(t) /\ op' = op
        /\ owner = t /\ depth' = depth - 1 /\ owner' = IF depth = 1 THEN None ELSE t
    BY <1>5 DEF Unlock
  <2>2. /\ Held(t)' = Held(t) + (-1) /\ Mutex'
        /\ \A u \in Tasks \ {t} : Held(u)' = Held(u)
    BY <2>1, GiveHeld
  <2> QED BY <2>1, <2>2, GoPlaced
<1>6. CASE Open(t)
  BY <1>1, <1>6, KeepHeld DEF Open
<1>7. CASE Unref(t)
  BY <1>1, <1>7, KeepHeld DEF Unref
<1>8. CASE CheckFormat(t) \/ CheckParameters(t)
  BY <1>1, <1>8, FailPlaced, KeepHeld DEF Failing, LoopSteps, CheckFormat, CheckParameters
<1>9. CASE CheckRefs(t)
  BY <1>1, <1>9, FailPlaced, KeepHeld DEF Failing, LoopSteps, CheckRefs
<1>10. CASE Free(t)
  BY <1>1, <1>10, KeepHeld DEF Free
<1>11. CASE BeginIo(t)
  <2>1. At(t, "io") /\ op' = op /\ UNCHANGED lock
    BY <1>11 DEF BeginIo
  <2>2. \/ Fail(t) \/ Go(t) \/ \E x \in LoopSteps : First(t, <<x>>)
    BY <1>11 DEF BeginIo, LoopSteps
  <2> QED BY <1>1, <2>1, <2>2, FailPlaced, LoopPlaced, KeepHeld DEF Failing, LoopSteps
<1>12. CASE CopyIn(t)
  <2>1. InLoop(t) /\ First(t, <<"write">>) /\ "write" \in LoopSteps /\ op' = op /\ UNCHANGED lock
    BY <1>12 DEF CopyIn, InLoop, At, LoopSteps
  <2> QED BY <2>1, LoopPlaced, KeepHeld
<1>13. ASSUME NEW l \in LoopSteps, At(t, l), op' = op, UNCHANGED lock,
              NEW again \in LoopSteps, NextTurn(t, again)
       PROVE  Placed'
  <2>1. InLoop(t)
    BY <1>13 DEF InLoop, At
  <2>2. CASE First(t, <<>>)
    BY <1>1, <1>13, <2>2 DEF LoopSteps, Go
  <2>3. CASE \E x \in LoopSteps : First(t, <<x>>)
    BY <1>13, <2>1, <2>3, LoopPlaced
  <2> QED BY <1>13, <2>2, <2>3 DEF NextTurn, LoopSteps
<1>14. CASE WriteChunk(t)
  <2>1. At(t, "write") /\ op' = op /\ UNCHANGED lock /\ (NextTurn(t, "copyin") \/ Fail(t))
    BY <1>14 DEF WriteChunk, BreakOff
  <2> QED BY <1>13, <2>1, FailPlaced, KeepHeld DEF Failing, LoopSteps
<1>15. CASE ReadChunk(t)
  <2>1. At(t, "read") /\ op' = op /\ UNCHANGED lock /\ (First(t, <<"copyout">>) \/ Fail(t))
    BY <1>15 DEF ReadChunk, BreakOff
  <2>2. InLoop(t) /\ "copyout" \in LoopSteps
    BY <2>1 DEF InLoop, At, LoopSteps
  <2> QED BY <2>1, <2>2, FailPlaced, LoopPlaced, KeepHeld DEF Failing, LoopSteps
<1>16. CASE CopyOut(t)
  <2>1. At(t, "copyout") /\ op' = op /\ UNCHANGED lock /\ NextTurn(t, "read")
    BY <1>16 DEF CopyOut
  <2> QED BY <1>13, <2>1, KeepHeld DEF LoopSteps
<1> QED BY <1>2, <1>3, <1>4, <1>5, <1>6, <1>7, <1>8, <1>9, <1>10, <1>11, <1>12, <1>14, <1>15, <1>16 DEF Step

(* The application keeps the calls apart that it must. *)
LEMMA ExcludedStep ==
  ASSUME TypeOK, Excluded, NEW t \in Tasks, Begin(t) \/ Step(t)
  PROVE  Excluded'
<1>1. CASE Begin(t)
  <2>1. PICK o \in Calls : MayBegin(o) /\ op' = [op EXCEPT ![t] = o]
    BY <1>1 DEF Begin, Calls
  <2>2. op[t] = "none" /\ "none" \notin Alone \cup Serial
    BY <1>1 DEF Begin, Alone, Serial
  <2> QED BY <2>1, <2>2 DEF TypeOK, Excluded, MayBegin
<1>2. CASE Return(t)
  <2>1. op' = [op EXCEPT ![t] = "none"] /\ "none" \notin Alone \cup Serial
    BY <1>2 DEF Return, Alone, Serial
  <2> QED BY <2>1 DEF TypeOK, Excluded
<1>3. CASE ~Begin(t) /\ ~Return(t)
  <2>1. op' = op
    BY <1>3 DEF Step, Lock, Unlock, Open, Unref, CheckFormat, CheckParameters, CheckRefs, Free, BeginIo, CopyIn, WriteChunk, ReadChunk, CopyOut
  <2> QED BY <2>1 DEF Excluded
<1> QED BY <1>1, <1>2, <1>3
(* A step that neither opens nor drops a reference keeps Referring. *)
LEMMA ReferringKept ==
  ASSUME TypeOK, Placed, Referring, NEW t \in Tasks, NEW l, At(t, l), l \notin {"open", "unref"},
         op' = op, refs' = refs, \A u \in Tasks \ {t} : todo'[u] = todo[u]
  PROVE  Referring'
<1>1. Head(todo[t]) = l /\ todo[t] # <<>>
  BY DEF At
<1>2. Left("mount", 1) # todo[t]
  <2>1. "mount" \in Calls /\ Program["mount"][1] = "open" /\ 1 \in 1 .. Len(Program["mount"])
    BY DEF Calls, Program
  <2>2. Head(Left("mount", 1)) = "open"
    BY <2>1, LeftSteps
  <2> QED BY <1>1, <2>2
<1>3. Left("mount", 1)' = Left("mount", 1)
  BY DEF Left, Program
<1> QED BY <1>1, <1>2, <1>3 DEF Referring

(* Every step keeps a reference for whoever is to drop one. *)
LEMMA ReferringStep ==
  ASSUME TypeOK, Placed, Mutex, Excluded, Referring, NEW t \in Tasks, Begin(t) \/ Step(t)
  PROVE  Referring' /\ refs' \in Nat
<1>1. CASE Begin(t)
  <2>1. PICK o \in Calls : /\ o = "unmount" => refs > 0
                           /\ op' = [op EXCEPT ![t] = o] /\ todo' = [todo EXCEPT ![t] = Program[o]]
    BY <1>1 DEF Begin, Calls
  <2>2. "mount" \in Calls /\ Left("mount", 1) = Program["mount"] /\ refs' = refs
    BY <1>1, LeftEnds, CallNames DEF Begin
  <2> QED BY <2>1, <2>2 DEF TypeOK, Referring
<1>2. CASE Return(t)
  BY <1>2 DEF Return, TypeOK, Referring
<1>3. CASE Open(t)
  <2>1. refs' = refs + 1 /\ op' = op
    BY <1>3 DEF Open
  <2> QED BY <2>1 DEF TypeOK, Referring
<1>4. CASE Unref(t)
  <2>1. /\ At(t, "unref") /\ op' = op /\ refs' = refs - 1 /\ Go(t)
    BY <1>4 DEF Unref
  <2>2. op[t] \in {"mount", "unmount"} /\ Tail(todo[t]) = <<>>
    BY <2>1, UnrefPlace
  <2>3. refs > 0
    <3>1. Head(todo[t]) = "unref" /\ todo[t] # <<>>
      BY <2>1 DEF At
    <3>2. "mount" \in Calls /\ Program["mount"][1] = "open" /\ 1 \in 1 .. Len(Program["mount"])
      BY DEF Calls, Program
    <3>3. Head(Left("mount", 1)) = "open"
      BY <3>2, LeftSteps
    <3> QED BY <2>2, <3>1, <3>3 DEF Referring
  <2>4. \A u \in Tasks \ {t} : op[u] \notin {"mount", "unmount"}
    BY <2>2 DEF Excluded, Serial
  <2>5. todo'[t] = <<>> /\ \A u \in Tasks \ {t} : todo'[u] = todo[u]
    BY <2>1, <2>2, GoPops
  <2>6. refs' \in Nat
    BY <2>1, <2>3 DEF TypeOK
  <2> QED BY <2>1, <2>2, <2>4, <2>5, <2>6 DEF Referring
<1>5. ASSUME NEW l, At(t, l), l \notin {"open", "unref"}, op' = op, refs' = refs,
             Fail(t) \/ \E more : First(t, more)
      PROVE  Referring' /\ refs' \in Nat
  <2>1. \A u \in Tasks \ {t} : todo'[u] = todo[u]
    BY <1>5 DEF Fail, First, TypeOK
  <2> QED BY <1>5, <2>1, ReferringKept DEF TypeOK
<1>6. CASE Lock(t)
  BY <1>5, <1>6 DEF Lock, Go
<1>7. CASE Unlock(t)
  BY <1>5, <1>7 DEF Unlock, Go
<1>8. CASE CheckFormat(t) \/ CheckParameters(t)
  BY <1>5, <1>8 DEF CheckFormat, CheckParameters, Go
<1>9. CASE CheckRefs(t)
  BY <1>5, <1>9 DEF CheckRefs, Go
<1>10. CASE Free(t)
  BY <1>5, <1>10 DEF Free, Go
<1>11. CASE BeginIo(t)
  BY <1>5, <1>11 DEF BeginIo, Go
<1>12. CASE CopyIn(t)
  BY <1>5, <1>12 DEF CopyIn
<1>13. CASE WriteChunk(t)
  BY <1>5, <1>13 DEF WriteChunk, NextTurn, BreakOff
<1>14. CASE ReadChunk(t)
  BY <1>5, <1>14 DEF ReadChunk, BreakOff
<1>15. CASE CopyOut(t)
  BY <1>5, <1>15 DEF CopyOut, NextTurn
<1> QED BY <1>1, <1>2, <1>3, <1>4, <1>6, <1>7, <1>8, <1>9, <1>10, <1>11, <1>12, <1>13, <1>14, <1>15 DEF Step

-----------------------------------------------------------------------------
(* The loops of sdmmc_read and sdmmc_write. *)

(* What validate_create_args leaves true of the sizes in use. *)
LEMMA Sizes ==
  ASSUME geo \in Setups, Creatable(geo.card, geo.config)
  PROVE  /\ Bufs \in Nat \ {0} /\ Sectors \in Nat /\ geo.config.pbs \in Nat \ {0}
         /\ 2 * Sectors <= SizeMax /\ Bufs <= SizeMax \div geo.config.pbs
         /\ Load.requests \subseteq [kind : {"read", "write"}, from : Nat, cnt : Nat,
                                     alias : BOOLEAN, tag : STRING]
         /\ \A r \in Load.requests : r.tag \in Origins
<1>1. /\ geo.card.capacity \in Int /\ geo.config.pbs \in Nat /\ geo.config.tbb \in Nat
      /\ geo.load \in DOMAIN Loads
  BY SetupAssumption
<1>2. /\ Bufs \in Nat \ {0} /\ Sectors \in Nat /\ geo.config.pbs \in Nat \ {0}
      /\ Bufs <= SizeMax \div geo.config.pbs
  BY <1>1 DEF Bufs, Sectors, Creatable, IsPowerOfTwo
<1>3. 2 * Sectors <= SizeMax
  BY CapacityAssumption DEF Sectors
<1>4. /\ Load.requests \subseteq [kind : {"read", "write"}, from : Nat, cnt : Nat,
                                  alias : BOOLEAN, tag : STRING]
      /\ \A r \in Load.requests : r.tag \in Origins
  BY <1>1, RequestAssumption DEF Load, Origins
<1> QED BY <1>2, <1>3, <1>4

(* What is held in the loop *)
LEMMA Holder ==
  ASSUME TypeOK, Placed, NEW t \in Tasks, InLoop(t) \/ At(t, "io")
  PROVE  owner = t /\ res[t] = "ok"
<1>1. OnCourse(t) /\ res[t] = "ok"
  BY NotGivingUp DEF InLoop, LoopSteps, At
<1>2. \E k \in 1 .. Len(Program[op[t]]) :
            /\ op[t] \in Calls
            /\ Program[op[t]][k] = "io" /\ Held(t) = Depth[op[t]][k]
  BY <1>1, OnPlace, LoopPlace DEF LoopSteps
<1>3. Held(t) > 0
  BY <1>2, Depths
<1> QED BY <1>1, <1>3 DEF Held

(* So there is one task in the loops. *)
LEMMA OneInLoop ==
  ASSUME TypeOK, Placed, NEW t \in Tasks, InLoop(t) \/ At(t, "io"), NEW u \in Tasks \ {t}
  PROVE  ~InLoop(u)
BY Holder

(* Where a step leads, unless it goes on in the loop *)
LEMMA NotLoopAfter ==
  ASSUME Placed, NEW t \in Tasks, todo[t] # <<>>
  PROVE  Tail(todo[t]) = <<>> \/ Head(Tail(todo[t])) \notin LoopSteps
<1>1. ASSUME NEW o \in Calls, NEW k \in 1 .. Len(Program[o]), Tail(todo[t]) = Left(o, k + 1)
      PROVE  Tail(todo[t]) = <<>> \/ Head(Tail(todo[t])) \notin LoopSteps
  <2> DEFINE n == Len(Program[o])
  <2>1. n \in Nat
    BY Programs
  <2>2. CASE k = n
    BY <1>1, <2>2, LeftEnds
  <2>3. CASE k # n
    <3>1. k + 1 \in 1 .. n
      BY <2>1, <2>3
    <3>2. Head(Left(o, k + 1)) = Program[o][k + 1]
      BY <3>1, LeftSteps
    <3>3. Program[o][k + 1] \notin LoopSteps
      BY <3>1, Depths
    <3> QED BY <1>1, <3>2, <3>3
  <2> QED BY <2>2, <2>3
<1>2. CASE res[t] # "ok"
  <2>1. Head(<<"unref">>) = "unref" /\ Head(<<"unlock">>) = "unlock"
    OBVIOUS
  <2> QED BY <1>2, <2>1, GivingUpPlace DEF Placed, At, LoopSteps
<1>3. CASE res[t] = "ok"
  <2>1. OnCourse(t)
    BY <1>3 DEF Placed
  <2>2. CASE InLoop(t)
    BY <1>1, <2>1, <2>2, LoopPlace
  <2>3. CASE ~InLoop(t)
    <3>1. At(t, Head(todo[t])) /\ Head(todo[t]) \notin LoopSteps
      BY <2>3 DEF At, InLoop
    <3> QED BY <1>1, <2>1, <3>1, OnPlace
  <2> QED BY <2>2, <2>3
<1> QED BY <1>2, <1>3

(* The error paths have no request. *)
LEMMA ErrorPaths ==
  ASSUME NEW s \in {<<>>, <<"unlock">>, <<"unlock", "unref">>, <<"unref">>, <<"unlock", "unlock">>}
  PROVE  s = <<>> \/ Head(s) \notin LoopSteps
<1>1. /\ Head(<<"unlock">>) = "unlock" /\ Head(<<"unlock", "unref">>) = "unlock"
      /\ Head(<<"unref">>) = "unref" /\ Head(<<"unlock", "unlock">>) = "unlock"
  OBVIOUS
<1> QED BY <1>1 DEF LoopSteps

(* So a call that fails is out of its loop. *)
LEMMA GivingUpNotInLoop == ASSUME NEW t \in Tasks, GivingUp(t)' PROVE ~InLoop(t)'
BY ErrorPaths DEF GivingUp, InLoop

(* The others' requests are as they were. *)
LEMMA OthersServed ==
  ASSUME Served, UNCHANGED geo, NEW t \in Tasks,
         \A u \in Tasks \ {t} : io'[u] = io[u] /\ todo'[u] = todo[u],
         \A u \in Tasks \ {t} : InLoop(u) => media' = media /\ buf' = buf,
         io'[t].on <=> InLoop(t)', io'[t].on => Good(t)'
  PROVE  Served'
<1>1. ASSUME NEW u \in Tasks \ {t} PROVE (io[u].on <=> InLoop(u))' /\ (io'[u].on => Good(u)')
  <2>1. io'[u] = io[u] /\ todo'[u] = todo[u] /\ InLoop(u)' = InLoop(u)
    BY <1>1 DEF InLoop
  <2>2. CASE io[u].on
    <3>1. Good(u) /\ media' = media /\ buf' = buf
      BY <1>1, <2>2 DEF Served
    <3> QED BY <2>1, <2>2, <3>1 DEF Good, Served, At, Chunk, Bufs, Sectors
  <2>3. CASE ~io[u].on
    BY <1>1, <2>1, <2>3 DEF Served
  <2> QED BY <2>2, <2>3
<1> QED BY <1>1 DEF Served

(* No multiple of the modulus is taken off a small number. *)
LEMMA Narrowed == ASSUME NEW n \in Nat, NEW m \in Nat, n <= m PROVE n % (m + 1) = n
OBVIOUS

(* A chunk fits into the transfer buffer and into what is left of the request,
   and its sector is the one that was meant. *)
LEMMA Chunks ==
  ASSUME Typed, NEW t \in Tasks, io[t].pos < io[t].cnt, io[t].from + io[t].cnt <= Sectors
  PROVE  /\ Chunk(t) \in 1 .. Bufs /\ io[t].pos + Chunk(t) <= io[t].cnt
         /\ io[t].pos + Chunk(t) # io[t].cnt => Chunk(t) = Bufs
         /\ Sector(t) = io[t].from + io[t].pos /\ Sector(t) \in Nat
<1>1. /\ io[t].pos \in Nat /\ io[t].cnt \in Nat /\ io[t].from \in Nat /\ Bufs \in Nat \ {0}
      /\ Sectors \in Nat /\ 2 * Sectors <= SizeMax
  BY Sizes DEF Typed, Requests
<1>2. /\ Chunk(t) \in 1 .. Bufs /\ io[t].pos + Chunk(t) <= io[t].cnt
      /\ io[t].pos + Chunk(t) # io[t].cnt => Chunk(t) = Bufs
  BY <1>1 DEF Chunk
<1>3. Sector(t) = io[t].from + io[t].pos
  <2>1. io[t].from + io[t].pos \in Nat /\ io[t].from + io[t].pos <= SizeMax
    BY <1>1, SizeAssumption
  <2> QED BY <2>1, Narrowed, SizeAssumption DEF Sector
<1> QED BY <1>1, <1>2, <1>3

(* A request with other fields. *)
LEMMA Replaced ==
  ASSUME NEW r \in Requests, NEW p \in Nat, NEW o \in BOOLEAN, NEW a \in BOOLEAN, NEW d \in Seq(Block)
  PROVE  [r EXCEPT !.pos = p, !.on = o, !.ok = a, !.data = d] \in Requests
BY DEF Requests

(* What the loops keep in io *)
LEMMA NextTurnFields ==
  ASSUME Typed, NEW t \in Tasks, todo[t] # <<>>, NEW again, NextTurn(t, again),
         NEW data, data = IF io[t].kind = "read" THEN io[t].data \o SubSeq(buf, 1, Chunk(t)) ELSE io[t].data,
         data \in Seq(Block), Chunk(t) \in Nat,
         NEW last \in BOOLEAN, last <=> io[t].pos + Chunk(t) = io[t].cnt
  PROVE  /\ io' \in [Tasks -> Requests]
         /\ io'[t].kind = io[t].kind /\ io'[t].from = io[t].from /\ io'[t].cnt = io[t].cnt
         /\ io'[t].alias = io[t].alias /\ io'[t].pos = io[t].pos + Chunk(t) /\ io'[t].data = data
         /\ io'[t].on = ~last /\ io'[t].ok = last
         /\ \A u \in Tasks \ {t} : io'[u] = io[u] /\ todo'[u] = todo[u]
         /\ todo'[t] = (IF last THEN <<>> ELSE <<again>>) \o Tail(todo[t])
<1>1. io \in [Tasks -> Requests] /\ io[t] \in Requests /\ todo \in [Tasks -> Seq(Steps)]
  BY DEF Typed, TypeOK
<1> DEFINE new == [io[t] EXCEPT !.pos = io[t].pos + Chunk(t), !.on = ~last, !.ok = last, !.data = data]
<1>2. io' = [io EXCEPT ![t] = new]
  BY <1>1 DEF NextTurn, Requests
<1>3. new \in Requests
  <2>1. io[t].pos + Chunk(t) \in Nat /\ (~last) \in BOOLEAN
    BY <1>1 DEF Requests
  <2> QED BY <1>1, <2>1, Replaced
<1>4. /\ new.kind = io[t].kind /\ new.from = io[t].from /\ new.cnt = io[t].cnt
      /\ new.alias = io[t].alias /\ new.pos = io[t].pos + Chunk(t) /\ new.data = data
      /\ new.on = ~last /\ new.ok = last
  BY <1>1 DEF Requests
<1>5. /\ \A u \in Tasks \ {t} : todo'[u] = todo[u]
      /\ todo'[t] = (IF last THEN <<>> ELSE <<again>>) \o Tail(todo[t])
  BY <1>1 DEF NextTurn, First
<1> HIDE DEF new
<1>6. io' \in [Tasks -> Requests] /\ io'[t] = new /\ \A u \in Tasks \ {t} : io'[u] = io[u]
  BY <1>1, <1>2, <1>3
<1> QED BY <1>4, <1>5, <1>6

(* What a turn of sdmmc_read adds to the blocks of those before it *)
Extended(d, b, n) == d \o SubSeq(b, 1, n)

(* The blocks of the turns before stay, those of this turn follow. *)
LEMMA Appended ==
  ASSUME NEW d \in Seq(Block), NEW n \in Nat, NEW b,
         \A j \in 1 .. n : b[j] \in Block
  PROVE  /\ Extended(d, b, n) \in Seq(Block) /\ Len(Extended(d, b, n)) = Len(d) + n
         /\ \A i \in 1 .. Len(d) : Extended(d, b, n)[i] = d[i]
         /\ \A j \in 1 .. n : Extended(d, b, n)[Len(d) + j] = b[j]
<1> DEFINE s == SubSeq(b, 1, n)
<1>1. s = [j \in 1 .. n |-> b[j]]
  BY DEF SubSeq
<1>2. s \in Seq(Block) /\ Len(s) = n /\ \A j \in 1 .. n : s[j] = b[j]
  <2>1. [j \in 1 .. n |-> b[j]] \in [1 .. n -> Block]
    OBVIOUS
  <2> QED BY <1>1, <2>1
<1> HIDE DEF s
<1>3. /\ d \o s \in Seq(Block) /\ Len(d \o s) = Len(d) + Len(s)
      /\ \A i \in 1 .. Len(d) + Len(s) : (d \o s)[i] = IF i <= Len(d) THEN d[i] ELSE s[i - Len(d)]
  BY <1>2, ConcatProperties
<1> DEFINE p == Len(d)
<1>p. p \in Nat
  OBVIOUS
<1> HIDE DEF p
<1>4. \A i \in 1 .. p : (d \o s)[i] = d[i]
  BY <1>2, <1>3, <1>p DEF p
<1>5. ASSUME NEW j \in 1 .. n PROVE (d \o s)[p + j] = b[j]
  <2>1. p + j \in 1 .. p + n /\ ~(p + j <= p) /\ (p + j) - p = j
    BY <1>p
  <2> QED BY <1>2, <1>3, <2>1, <1>p DEF p
<1> QED BY <1>2, <1>3, <1>4, <1>5 DEF s, p, Extended


(* What a turn of the loop leads to: the next turn or the answer *)
Turned(t) ==
  /\ io' \in [Tasks -> Requests] /\ (io'[t].on <=> InLoop(t)')
  /\ (io'[t].on => Good(t)')
  /\ \A u \in Tasks \ {t} : io'[u] = io[u] /\ todo'[u] = todo[u]
  /\ io'[t].kind = io[t].kind
  /\ io'[t].pos = io[t].pos + Chunk(t) /\ io'[t].from = io[t].from
  /\ io'[t].cnt = io[t].cnt
  /\ (io[t].kind = "write" => io'[t].data = io[t].data)
  /\ Len(io'[t].data) = (IF io[t].kind = "write" THEN io[t].cnt ELSE io'[t].pos)
  /\ \A i \in 1 .. io'[t].pos : media'[io[t].from + i - 1] = io'[t].data[i]
  /\ (io'[t].ok => io'[t].pos = io[t].cnt /\ ~io'[t].on)

(* A turn of the loop is over. *)
LEMMA TurnOver ==
  ASSUME Typed, Served, NEW t \in Tasks, io[t].on,
         NEW again \in LoopSteps, NextTurn(t, again),
         Placed, UNCHANGED <<geo, buf>>,
         again = IF io[t].kind = "read" THEN "read" ELSE "copyin",
         \A i \in 1 .. io[t].pos : media'[io[t].from + i - 1] = io[t].data[i],
         \A i \in 1 .. Chunk(t) :
            /\ media'[io[t].from + io[t].pos + i - 1] = buf[i]
            /\ io[t].kind = "write" => io[t].data[io[t].pos + i] = buf[i]
  PROVE  Turned(t)
<1> DEFINE r == io[t]
           n == Chunk(t)
           last == r.pos + n = r.cnt
           data == IF r.kind = "read" THEN r.data \o SubSeq(buf, 1, n) ELSE r.data
<1>1. r \in Requests /\ Good(t) /\ InLoop(t)
  BY DEF Served, Typed
<1>2. r.pos < r.cnt /\ r.pos \in Nat /\ r.cnt \in Nat /\ r.from \in Nat /\ r.data \in Seq(Block)
      /\ r.from + r.cnt <= Sectors
      /\ r.kind \in {"read", "write"} /\ (r.alias => r.cnt <= Bufs)
      /\ Len(r.data) = (IF r.kind = "write" THEN r.cnt ELSE r.pos)
  BY <1>1 DEF Good, Requests
<1>3. n \in 1 .. Bufs /\ r.pos + n <= r.cnt /\ (~last => n = Bufs) /\ Bufs \in Nat
  BY <1>2, Chunks, Sizes DEF Typed
<1>4. n \in Nat /\ n > 0 /\ r.pos + n \in Nat
  BY <1>2, <1>3
<1>5. \A i \in 1 .. r.pos : media'[r.from + i - 1] = r.data[i]
  OBVIOUS
<1>6. \A j \in 1 .. n : /\ media'[r.from + r.pos + j - 1] = buf[j]
                        /\ r.kind = "write" => r.data[r.pos + j] = buf[j]
  BY <1>3
<1>7. \A j \in 1 .. n : buf[j] \in Block
  BY <1>3 DEF Typed
<1>8. data \in Seq(Block) /\ Len(data) = (IF r.kind = "write" THEN r.cnt ELSE r.pos + n)
      /\ (\A i \in 1 .. r.pos : data[i] = r.data[i])
      /\ \A j \in 1 .. n : data[r.pos + j] = buf[j]
  <2>1. CASE r.kind = "write"
    <3>1. data = r.data
      BY <2>1
    <3> QED BY <1>2, <1>6, <2>1, <3>1
  <2>2. CASE r.kind = "read"
    <3>1. data = r.data \o SubSeq(buf, 1, n)
      BY <2>2
    <3>2. Len(r.data) = r.pos
      BY <1>2, <2>2
    <3>3. r.data \in Seq(Block) /\ n \in Nat /\ Len(r.data) = r.pos
      BY <1>2, <1>4, <2>2
    <3>4. data = Extended(r.data, buf, n)
      BY <3>1 DEF Extended
    <3> HIDE DEF data, r, n
    <3>5. /\ Extended(r.data, buf, n) \in Seq(Block)
          /\ Len(Extended(r.data, buf, n)) = Len(r.data) + n
          /\ \A i \in 1 .. Len(r.data) : Extended(r.data, buf, n)[i] = r.data[i]
          /\ \A j \in 1 .. n : Extended(r.data, buf, n)[Len(r.data) + j] = buf[j]
      <4> PICK d, m : d = r.data /\ m = n
        OBVIOUS
      <4>1. d \in Seq(Block) /\ m \in Nat /\ \A j \in 1 .. m : buf[j] \in Block
        BY ONLY <1>7, <3>3, d = r.data /\ m = n
      <4>2. /\ Extended(d, buf, m) \in Seq(Block)
            /\ Len(Extended(d, buf, m)) = Len(d) + m
            /\ \A i \in 1 .. Len(d) : Extended(d, buf, m)[i] = d[i]
            /\ \A j \in 1 .. m : Extended(d, buf, m)[Len(d) + j] = buf[j]
        BY ONLY <4>1, Appended, SMT
      <4> QED BY ONLY <4>2, d = r.data /\ m = n
    <3> QED BY <2>2, <3>3, <3>4, <3>5
  <2> QED BY <1>2, <2>1, <2>2
<1>9. \A i \in 1 .. r.pos + n : media'[r.from + i - 1] = data[i]
  <2> HIDE DEF data, r, n
  <2>1. \A i \in 1 .. r.pos : media'[r.from + i - 1] = data[i]
    BY <1>5, <1>8
  <2>2. \A j \in 1 .. n : media'[r.from + r.pos + j - 1] = buf[j] /\ data[r.pos + j] = buf[j]
    BY <1>6, <1>8
  <2>3. r.from \in Nat /\ r.pos \in Nat /\ n \in Nat
    BY <1>2, <1>4
  <2> SUFFICES ASSUME NEW i \in 1 .. r.pos + n PROVE media'[r.from + i - 1] = data[i]
    OBVIOUS
  <2>4. CASE i <= r.pos
    BY <2>1, <2>3, <2>4
  <2>5. CASE i > r.pos
    <3> DEFINE j == i - r.pos
    <3>1. j \in 1 .. n /\ i = r.pos + j /\ r.from + r.pos + j - 1 = r.from + i - 1
      BY <2>3, <2>5
    <3> HIDE DEF j
    <3>2. media'[r.from + r.pos + j - 1] = buf[j] /\ data[r.pos + j] = buf[j]
      BY <2>2, <3>1
    <3> QED BY <3>1, <3>2
  <2> QED BY <2>3, <2>4, <2>5
<1>10. todo[t] # <<>> /\ todo[t] \in Seq(Steps) /\ Tail(todo[t]) \in Seq(Steps)
  BY <1>1, EmptyCons DEF InLoop, Typed, TypeOK
<1>11. /\ io' \in [Tasks -> Requests]
       /\ io'[t].kind = r.kind /\ io'[t].from = r.from /\ io'[t].cnt = r.cnt
       /\ io'[t].alias = r.alias /\ io'[t].pos = r.pos + n /\ io'[t].data = data
       /\ io'[t].on = ~last /\ io'[t].ok = last
       /\ (\A u \in Tasks \ {t} : io'[u] = io[u] /\ todo'[u] = todo[u])
       /\ todo'[t] = (IF last THEN <<>> ELSE <<again>>) \o Tail(todo[t])
  <2> HIDE DEF last, data
  <2>1. last \in BOOLEAN /\ (last <=> io[t].pos + Chunk(t) = io[t].cnt)
    BY DEF last
  <2>2. data = IF io[t].kind = "read" THEN io[t].data \o SubSeq(buf, 1, Chunk(t)) ELSE io[t].data
    BY DEF data
  <2>3. NextTurn(t, again) /\ data \in Seq(Block) /\ Chunk(t) \in Nat
    BY <1>4, <1>8
  <2>4. todo[t] # <<>>
    BY <1>10
  <2> HIDE DEF r, n
  <2>5. /\ io' \in [Tasks -> Requests]
        /\ io'[t].kind = io[t].kind /\ io'[t].from = io[t].from /\ io'[t].cnt = io[t].cnt
        /\ io'[t].alias = io[t].alias /\ io'[t].pos = io[t].pos + Chunk(t) /\ io'[t].data = data
        /\ io'[t].on = ~last /\ io'[t].ok = last
        /\ \A u \in Tasks \ {t} : io'[u] = io[u] /\ todo'[u] = todo[u]
        /\ todo'[t] = (IF last THEN <<>> ELSE <<again>>) \o Tail(todo[t])
    BY <2>1, <2>2, <2>3, <2>4, NextTurnFields, Zenon
  <2> QED BY <2>5, Zenon DEF r, n
<1>12. r.kind = "write" => data = r.data
  OBVIOUS
<1>13. again = IF r.kind = "read" THEN "read" ELSE "copyin"
  OBVIOUS
<1>14. last \in BOOLEAN /\ (last <=> r.pos + n = r.cnt)
  OBVIOUS
<1>15. geo' = geo /\ buf' = buf /\ Bufs' = Bufs /\ Sectors' = Sectors
  BY DEF Bufs, Sectors
<1>16. io'[t].on <=> InLoop(t)'
  <2> HIDE DEF data, r, n, last
  <2>1. CASE last
    <3>1. todo'[t] = Tail(todo[t])
      BY <1>11, <1>10, <2>1, EmptyCons
    <3> QED BY <1>10, <1>11, <2>1, <3>1, NotLoopAfter DEF InLoop
  <2>2. CASE ~last
    <3>1. todo'[t] = <<again>> \o Tail(todo[t]) /\ again \in LoopSteps /\ again \in Steps
      BY <1>11, <2>2, <1>13 DEF LoopSteps, Steps
    <3>2. todo'[t] # <<>> /\ Head(todo'[t]) = again
      BY <1>10, <3>1, ConsStep
    <3> QED BY <1>11, <2>2, <3>1, <3>2 DEF InLoop
  <2> QED BY <1>14, <2>1, <2>2
<1>17. io'[t].on => Good(t)'
  <2> HIDE DEF data, r, n, last
  <2> SUFFICES ASSUME ~last PROVE Good(t)'
    BY <1>11
  <2>1. todo'[t] = <<again>> \o Tail(todo[t]) /\ again \in LoopSteps /\ again \in Steps
    BY <1>11, <1>13 DEF LoopSteps, Steps
  <2>2. todo'[t] # <<>> /\ Head(todo'[t]) = again
    BY <1>10, <2>1, ConsStep
  <2>3. /\ ~At(t, "write")' /\ ~At(t, "copyout")'
        /\ (r.kind = "read" => At(t, "read")') /\ (r.kind # "read" => At(t, "copyin")')
    BY <1>13, <2>2 DEF At
  <2>4. ~r.alias /\ r.pos + n < r.cnt
    BY <1>2, <1>3, <1>4, <1>14
  <2> QED BY <1>2, <1>3, <1>4, <1>8, <1>9, <1>11, <1>12, <1>14, <1>15, <2>3, <2>4 DEF Good
<1>18. /\ io' \in [Tasks -> Requests]
       /\ \A u \in Tasks \ {t} : io'[u] = io[u] /\ todo'[u] = todo[u]
  BY <1>11
<1>19. /\ io'[t].kind = r.kind /\ io'[t].pos = r.pos + n /\ io'[t].from = r.from /\ io'[t].cnt = r.cnt
       /\ (r.kind = "write" => io'[t].data = r.data)
  BY <1>11, <1>12
<1>20. Len(io'[t].data) = (IF r.kind = "write" THEN r.cnt ELSE io'[t].pos)
  BY <1>8, <1>11
<1>21. \A i \in 1 .. io'[t].pos : media'[r.from + i - 1] = io'[t].data[i]
  <2> HIDE DEF data, r, n
  <2> QED BY <1>9, <1>11
<1>22. io'[t].ok => io'[t].pos = r.cnt /\ ~io'[t].on
  <2> HIDE DEF data, r, n, last
  <2> QED BY <1>11, <1>14
<1> HIDE DEF n, data, last
<1>23. n = Chunk(t)
  BY DEF n
<1> QED BY <1>16, <1>17, <1>18, <1>19, <1>20, <1>21, <1>22, <1>23 DEF Turned
(* A task is at one step at a time. *)
LEMMA Apart == ASSUME NEW t \in Tasks, NEW l, At(t, l), NEW m, m # l PROVE ~At(t, m)
BY DEF At

(* An error path is a sequence of steps. *)
LEMMA CleanupTyped ==
  ASSUME NEW t \in Tasks PROVE Cleanup(t) \in Seq(Steps)
<1>1. /\ <<>> \in Seq(Steps) /\ <<"unlock">> \in Seq(Steps) /\ <<"unlock", "unref">> \in Seq(Steps)
      /\ MkfsError \in Seq(Steps)
  BY DEF Steps, MkfsError
<1> QED BY <1>1 DEF Cleanup, RefsError, RequestError

(* So is what a step leaves of a call. *)
LEMMA PopTyped ==
  ASSUME TypeOK, NEW t \in Tasks, NEW l, At(t, l), Fail(t) \/ \E more \in Seq(Steps) : First(t, more)
  PROVE  /\ todo' \in [Tasks -> Seq(Steps)] /\ res' \in [Tasks -> {"ok", "fail"}]
         /\ \A u \in Tasks \ {t} : todo'[u] = todo[u]
<1>1. todo[t] \in Seq(Steps) /\ todo[t] # <<>> /\ Tail(todo[t]) \in Seq(Steps)
  BY EmptyCons DEF TypeOK, At
<1>2. CASE Fail(t)
  BY <1>2, CleanupTyped DEF Fail, TypeOK
<1>3. ASSUME NEW more \in Seq(Steps), First(t, more)
      PROVE  /\ todo' \in [Tasks -> Seq(Steps)] /\ res' \in [Tasks -> {"ok", "fail"}]
             /\ \A u \in Tasks \ {t} : todo'[u] = todo[u]
  <2>1. more \o Tail(todo[t]) \in Seq(Steps)
    BY <1>1, ConcatProperties
  <2> QED BY <1>3, <2>1 DEF First, TypeOK
<1> QED BY <1>2, <1>3

(* The short lists of steps that the actions put in front. *)
LEMMA StepLists ==
  /\ <<>> \in Seq(Steps) /\ <<"read">> \in Seq(Steps) /\ <<"copyin">> \in Seq(Steps)
  /\ <<"write">> \in Seq(Steps) /\ <<"copyout">> \in Seq(Steps)
BY DEF Steps

(* The fields other than those of the loops *)
LEMMA ControlTyped ==
  ASSUME Typed, Control, NEW t \in Tasks, Begin(t) \/ Step(t)
  PROVE  TypeOK' /\ geo' = geo /\ \A u \in Tasks \ {t} : todo'[u] = todo[u]
<1>1. refs' \in Nat /\ TypeOK
  BY ReferringStep DEF Typed, Control
<1>2. ASSUME NEW l, At(t, l), Fail(t) \/ (\E more \in Seq(Steps) : First(t, more)),
             op' = op, geo' = geo, freed' \in BOOLEAN, UNCHANGED lock
      PROVE  TypeOK' /\ geo' = geo /\ \A u \in Tasks \ {t} : todo'[u] = todo[u]
  BY <1>1, <1>2, PopTyped DEF TypeOK, lock, Calls, Program
<1>3. Go(t) => \E more \in Seq(Steps) : First(t, more)
  BY StepLists DEF Go
<1> USE <1>1, StepLists
<1>4. CASE Begin(t)
  <2>1. PICK o \in Calls : op' = [op EXCEPT ![t] = o] /\ todo' = [todo EXCEPT ![t] = Program[o]]
    BY <1>4 DEF Begin, Calls
  <2>2. Program[o] \in Seq(Steps)
    BY Programs
  <2>3. op' \in [Tasks -> Calls \cup {"none"}]
    BY <2>1 DEF TypeOK
  <2>4. todo' \in [Tasks -> Seq(Steps)] /\ \A u \in Tasks \ {t} : todo'[u] = todo[u]
    BY <2>1, <2>2 DEF TypeOK
  <2> QED BY <1>4, <2>3, <2>4 DEF Begin, TypeOK, lock, Calls
<1>5. CASE Return(t)
  BY <1>5 DEF Return, TypeOK, lock
<1>6. CASE Lock(t)
  <2>1. At(t, "lock") /\ Go(t) /\ owner' = t /\ depth' = depth + 1
        /\ op' = op /\ geo' = geo /\ freed' = freed
    BY <1>6 DEF Lock
  <2> QED BY <1>3, <2>1, PopTyped DEF TypeOK
<1>7. CASE Unlock(t)
  <2>1. /\ At(t, "unlock") /\ Go(t) /\ owner = t /\ owner' \in {t, None} /\ depth' = depth - 1
        /\ op' = op /\ geo' = geo /\ freed' = freed
    BY <1>7 DEF Unlock
  <2>2. depth' \in Nat
    BY <2>1, TaskAssumption DEF Control, Mutex, TypeOK
  <2> QED BY <1>3, <2>1, <2>2, PopTyped DEF TypeOK
<1>8. CASE Open(t)
  BY <1>2, <1>3, <1>8 DEF Open, TypeOK
<1>9. CASE Unref(t)
  BY <1>2, <1>3, <1>9 DEF Unref, TypeOK
<1>10. CASE CheckFormat(t) \/ CheckParameters(t)
  BY <1>2, <1>3, <1>10 DEF CheckFormat, CheckParameters, TypeOK
<1>11. CASE CheckRefs(t)
  BY <1>2, <1>3, <1>11 DEF CheckRefs, TypeOK
<1>12. CASE Free(t)
  BY <1>2, <1>3, <1>12 DEF Free, TypeOK
<1>13. CASE BeginIo(t)
  <2>1. Fail(t) \/ \E more \in Seq(Steps) : First(t, more)
    BY <1>3, <1>13 DEF BeginIo
  <2> QED BY <1>2, <1>13, <2>1 DEF BeginIo, TypeOK
<1>14. CASE CopyIn(t)
  BY <1>2, <1>14 DEF CopyIn, TypeOK
<1>15. ASSUME NEW again \in {"read", "copyin"}, NextTurn(t, again)
       PROVE  \E more \in Seq(Steps) : First(t, more)
  <2>1. <<again>> \in Seq(Steps)
    BY <1>15
  <2> QED BY <1>15, <2>1 DEF NextTurn
<1>16. CASE WriteChunk(t)
  <2>1. /\ At(t, "write") /\ op' = op /\ geo' = geo /\ freed' = freed /\ UNCHANGED lock
        /\ (NextTurn(t, "copyin") \/ Fail(t))
    BY <1>16 DEF WriteChunk, BreakOff
  <2> QED BY <1>2, <1>15, <2>1 DEF TypeOK
<1>17. CASE ReadChunk(t)
  <2>1. /\ At(t, "read") /\ op' = op /\ geo' = geo /\ freed' = freed /\ UNCHANGED lock
        /\ (First(t, <<"copyout">>) \/ Fail(t))
    BY <1>17 DEF ReadChunk, BreakOff
  <2> QED BY <1>2, <2>1 DEF TypeOK
<1>18. CASE CopyOut(t)
  <2>1. /\ At(t, "copyout") /\ op' = op /\ geo' = geo /\ freed' = freed /\ UNCHANGED lock
        /\ NextTurn(t, "read")
    BY <1>18 DEF CopyOut
  <2> QED BY <1>2, <1>15, <2>1 DEF TypeOK
<1> QED BY <1>4, <1>5, <1>6, <1>7, <1>8, <1>9, <1>10, <1>11, <1>12, <1>13, <1>14, <1>16, <1>17, <1>18 DEF Step

(* What a step leaves of the card and of the requests *)
DataTyped ==
  /\ buf' \in [1 .. Bufs -> Block] /\ media' \in [0 .. Sectors - 1 -> Block]
  /\ io' \in [Tasks -> Requests]

(* A step that ends no turn of a loop and begins none *)
LEMMA QuietServed ==
  ASSUME Typed, Served, UNCHANGED geo, NEW t \in Tasks, media' = media, buf' = buf, ~InLoop(t)',
         \A u \in Tasks \ {t} : io'[u] = io[u] /\ todo'[u] = todo[u],
         io' \in [Tasks -> Requests], ~io'[t].on
  PROVE  DataTyped /\ Served'
<1>1. Served'
  BY OthersServed
<1>2. DataTyped
  BY DEF DataTyped, Typed
<1> QED BY <1>1, <1>2

(* A call's step outside of the loops *)
LEMMA PopServed ==
  ASSUME Typed, Control, Served, Control', UNCHANGED geo, NEW t \in Tasks, NEW l, At(t, l),
         l \notin LoopSteps,
         Go(t) \/ Fail(t), UNCHANGED <<media, buf, io>>,
         \A u \in Tasks \ {t} : todo'[u] = todo[u]
  PROVE  DataTyped /\ Served'
<1>1. ~InLoop(t) /\ ~io[t].on
  BY DEF InLoop, At, Served
<1>2. ~InLoop(t)'
  <2>1. CASE Go(t)
    <3>1. todo[t] # <<>> /\ todo'[t] = Tail(todo[t])
      BY <2>1, GoPops DEF At, Typed
    <3> QED BY <3>1, NotLoopAfter DEF InLoop, Control
  <2>2. CASE Fail(t)
    <3>1. GivingUp(t)'
      BY <2>2 DEF Fail, Typed, TypeOK, Control, Placed
    <3> QED BY <3>1, GivingUpNotInLoop
  <2> QED BY <2>1, <2>2
<1> QED BY <1>1, <1>2, QuietServed DEF Typed

(* Every step keeps Control, the setup, and the other tasks' calls. *)
LEMMA ControlStep ==
  ASSUME Typed, Control, NEW t \in Tasks, Begin(t) \/ Step(t)
  PROVE  Control' /\ geo' = geo /\ \A u \in Tasks \ {t} : todo'[u] = todo[u]
BY PlacedStep, ExcludedStep, ReferringStep, ControlTyped DEF Typed, Control

(* A request is accepted. *)
LEMMA AcceptServed ==
  ASSUME Typed, Control, Served, Control', NEW t \in Tasks, BeginIo(t),
         \A u \in Tasks \ {t} : todo'[u] = todo[u], UNCHANGED geo
  PROVE  DataTyped /\ Served'
<1>1. At(t, "io") /\ UNCHANGED <<media, buf>> /\ ~InLoop(t) /\ ~io[t].on /\ "io" \notin LoopSteps
  BY DEF BeginIo, device, InLoop, At, LoopSteps, Served
<1>2. PICK r \in Load.requests :
          CASE Refused(r) -> Fail(t) /\ UNCHANGED io
            [] ~Refused(r) /\ r.cnt = 0 -> Go(t) /\ UNCHANGED io
            [] OTHER ->
                 /\ First(t, <<IF r.kind = "read" THEN "read" ELSE "copyin">>)
                 /\ io' = [io EXCEPT ![t] = [on |-> TRUE, kind |-> r.kind, from |-> r.from,
                              cnt |-> r.cnt, pos |-> 0, alias |-> r.alias,
                              data |-> Data(r), ok |-> FALSE]]
  BY DEF BeginIo
<1>3. CASE Refused(r) \/ r.cnt = 0
  <2>1. (Go(t) \/ Fail(t)) /\ UNCHANGED io
    BY <1>2, <1>3
  <2> QED BY <1>1, <2>1, PopServed
<1>4. CASE ~Refused(r) /\ r.cnt # 0
  <2> DEFINE new == [on |-> TRUE, kind |-> r.kind, from |-> r.from, cnt |-> r.cnt, pos |-> 0,
                     alias |-> r.alias, data |-> Data(r), ok |-> FALSE]
             x == IF r.kind = "read" THEN "read" ELSE "copyin"
  <2>1. First(t, <<x>>) /\ io' = [io EXCEPT ![t] = new]
    BY <1>2, <1>4
  <2>2. /\ Bufs \in Nat \ {0} /\ Sectors \in Nat
        /\ r.kind \in {"read", "write"} /\ r.from \in Nat /\ r.cnt \in Nat \ {0} /\ r.alias \in BOOLEAN
        /\ r.tag \in Origins
    BY <1>4, Sizes DEF Typed
  <2>3. r.from + r.cnt <= Sectors /\ (r.alias => r.cnt <= Bufs)
    BY <1>4, <2>2 DEF Refused, RangeError, Sectors
  <2>4. /\ Data(r) \in Seq(Block) /\ Len(Data(r)) = (IF r.kind = "write" THEN r.cnt ELSE 0)
        /\ r.kind = "write" /\ r.alias => \A i \in 1 .. r.cnt : Data(r)[i] = buf[i]
    <3>1. CASE r.kind = "read"
      <4>1. Data(r) = <<>>
        BY <3>1 DEF Data
      <4> QED BY <3>1, <4>1
    <3>2. CASE r.kind = "write" /\ r.alias
      <4>1. Data(r) = [i \in 1 .. r.cnt |-> buf[i]]
        <5>1. Data(r) = SubSeq(buf, 1, r.cnt)
          BY <3>2 DEF Data
        <5>2. \A s, n : n \in Nat => SubSeq(s, 1, n) = [i \in 1 .. n |-> s[i]]
          BY DEF SubSeq
        <5> QED BY <2>2, <5>1, <5>2
      <4>2. \A i \in 1 .. r.cnt : buf[i] \in Block
        BY <2>2, <2>3, <3>2 DEF Typed
      <4>3. [i \in 1 .. r.cnt |-> buf[i]] \in [1 .. r.cnt -> Block]
        BY <4>2
      <4> HIDE DEF x
      <4> QED BY <2>2, <3>2, <4>1, <4>3
    <3>3. CASE r.kind = "write" /\ ~r.alias
      <4>1. Data(r) = [i \in 1 .. r.cnt |-> <<r.tag, i>>]
        BY <3>3 DEF Data
      <4>2. [i \in 1 .. r.cnt |-> <<r.tag, i>>] \in [1 .. r.cnt -> Block]
        BY <2>2 DEF Block
      <4> QED BY <2>2, <3>3, <4>1, <4>2
    <3> QED BY <2>2, <3>1, <3>2, <3>3
  <2>5. new \in Requests
    BY <2>2, <2>4 DEF Requests
  <2>6. /\ new.on /\ new.kind = r.kind /\ new.from = r.from /\ new.cnt = r.cnt /\ new.pos = 0
        /\ new.alias = r.alias /\ new.data = Data(r)
    OBVIOUS
  <2> HIDE DEF new
  <2>7. io' \in [Tasks -> Requests] /\ io'[t] = new /\ \A u \in Tasks \ {t} : io'[u] = io[u]
    BY <2>1, <2>5 DEF Typed
  <2>8. todo'[t] # <<>> /\ Head(todo'[t]) = x
    <3>1. todo[t] # <<>> /\ todo[t] \in Seq(Steps) /\ Tail(todo[t]) \in Seq(Steps)
      BY <1>1, EmptyCons DEF At, Typed, TypeOK
    <3>2. todo'[t] = <<x>> \o Tail(todo[t]) /\ x \in Steps
      BY <2>1 DEF First, Typed, TypeOK, Steps
    <3> HIDE DEF x
    <3> QED BY <3>1, <3>2, ConsStep
  <2>9. /\ InLoop(t)' /\ ~At(t, "write")' /\ ~At(t, "copyout")'
        /\ (r.kind = "read" => At(t, "read")') /\ (r.kind # "read" => At(t, "copyin")')
        /\ (At(t, "copyin")' => r.kind = "write")
    BY <2>2, <2>8 DEF InLoop, At, LoopSteps
  <2>10. (io'[t].alias => Chunk(t)' = r.cnt) /\ Sectors' = Sectors /\ Bufs' = Bufs
    BY <2>2, <2>3, <2>6, <2>7 DEF Chunk, Bufs, Sectors
  <2> HIDE DEF x
  <2>11. Good(t)'
    <3> DEFINE d == Data(r)
    <3>1. /\ Len(d) = (IF r.kind = "write" THEN r.cnt ELSE 0)
          /\ r.kind = "write" /\ r.alias => \A i \in 1 .. r.cnt : d[i] = buf[i]
      BY <2>4
    <3> HIDE DEF d
    <3>2. /\ io'[t].kind = r.kind /\ io'[t].from = r.from /\ io'[t].cnt = r.cnt /\ io'[t].pos = 0
          /\ io'[t].alias = r.alias /\ io'[t].data = d
      BY <2>6, <2>7 DEF d
    <3>3. (At(t, "copyin")' /\ r.alias => \A i \in 1 .. Chunk(t)' : buf'[i] = d[0 + i])
      <4> SUFFICES ASSUME At(t, "copyin")', r.alias, NEW i \in 1 .. r.cnt PROVE buf'[i] = d[0 + i]
        BY <2>10, <3>2
      <4>1. buf' = buf /\ r.kind = "write" /\ 0 + i = i
        BY <1>1, <2>2, <2>9
      <4> QED BY <3>1, <4>1
    <3> QED BY <2>2, <2>3, <2>9, <2>10, <3>1, <3>2, <3>3 DEF Good
  <2>12. Served'
    BY <1>1, <2>6, <2>7, <2>9, <2>11, OthersServed
  <2>13. DataTyped
    BY <1>1, <2>7 DEF DataTyped, Typed
  <2> QED BY <2>12, <2>13
<1> QED BY <1>3, <1>4

(* memcpy into the transfer buffer *)
LEMMA CopyInServed ==
  ASSUME Typed, Control, Served, Control', NEW t \in Tasks, CopyIn(t),
         \A u \in Tasks \ {t} : todo'[u] = todo[u], UNCHANGED geo
  PROVE  DataTyped /\ Served'
<1> DEFINE r == io[t]
           n == Chunk(t)
<1>1. At(t, "copyin") /\ UNCHANGED <<media, io>> /\ InLoop(t) /\ r.on /\ Good(t)
  BY DEF CopyIn, InLoop, At, LoopSteps, Served
<1>2. /\ r.kind = "write" /\ r.pos < r.cnt /\ r.pos \in Nat /\ r.cnt \in Nat /\ r.from \in Nat
      /\ r.data \in Seq(Block) /\ Len(r.data) = r.cnt
  BY <1>1, Apart DEF Good, Typed, Requests
<1>3. n \in 1 .. Bufs /\ r.pos + n <= r.cnt /\ Bufs \in Nat
  BY <1>1, <1>2, Chunks, Sizes DEF Typed, Good
<1>4. buf' = [i \in 1 .. Bufs |-> IF r.alias \/ i > n THEN buf[i] ELSE r.data[r.pos + i]]
  BY DEF CopyIn, Copied, Typed
<1>5. \A i \in 1 .. n : r.data[r.pos + i] \in Block
  <2> SUFFICES ASSUME NEW i \in 1 .. n PROVE r.data[r.pos + i] \in Block
    OBVIOUS
  <2>1. r.pos + i \in 1 .. Len(r.data)
    BY <1>2, <1>3
  <2> HIDE DEF r
  <2> QED BY <1>2, <2>1
<1>6. buf' \in [1 .. Bufs -> Block]
  <2> SUFFICES ASSUME NEW i \in 1 .. Bufs
               PROVE (IF r.alias \/ i > n THEN buf[i] ELSE r.data[r.pos + i]) \in Block
    BY <1>4
  <2>1. buf[i] \in Block
    BY DEF Typed
  <2>2. ~(i > n) => i \in 1 .. n
    BY <1>3
  <2> HIDE DEF r, n
  <2> QED BY <1>5, <2>1, <2>2
<1>7. \A i \in 1 .. n : buf'[i] = r.data[r.pos + i]
  <2> SUFFICES ASSUME NEW i \in 1 .. n PROVE buf'[i] = r.data[r.pos + i]
    OBVIOUS
  <2>1. i \in 1 .. Bufs /\ ~(i > n)
    BY <1>3
  <2>2. r.alias => buf[i] = r.data[r.pos + i]
    BY <1>1 DEF Good
  <2> HIDE DEF r, n
  <2> QED BY <1>4, <2>1, <2>2
<1>8. todo'[t] # <<>> /\ Head(todo'[t]) = "write"
  <2>1. todo[t] \in Seq(Steps) /\ Tail(todo[t]) \in Seq(Steps)
    BY <1>1, EmptyCons DEF At, Typed, TypeOK
  <2>2. todo'[t] = <<"write">> \o Tail(todo[t]) /\ "write" \in Steps
    BY DEF CopyIn, First, Typed, TypeOK, Steps
  <2> QED BY <2>1, <2>2, ConsStep
<1>9. /\ InLoop(t)' /\ ~At(t, "copyin")' /\ ~At(t, "copyout")' /\ At(t, "write")'
  BY <1>8 DEF InLoop, At, LoopSteps
<1>10. Chunk(t)' = n /\ Sectors' = Sectors /\ Bufs' = Bufs
  BY <1>1 DEF Chunk, Bufs, Sectors
<1>11. Good(t)'
  BY <1>1, <1>2, <1>7, <1>9, <1>10 DEF Good
<1>12. \A u \in Tasks \ {t} : ~InLoop(u)
  BY <1>1, OneInLoop DEF Typed, Control
<1>13. Served'
  BY <1>1, <1>9, <1>11, <1>12, OthersServed
<1>14. DataTyped
  BY <1>1, <1>6 DEF DataTyped, Typed
<1> QED BY <1>13, <1>14

(* A request in its loop *)
LEMMA InRequest ==
  ASSUME Typed, Control, Served, NEW t \in Tasks, NEW l \in LoopSteps, At(t, l)
  PROVE  /\ InLoop(t) /\ io[t].on /\ Good(t)
         /\ io[t].pos < io[t].cnt /\ io[t].pos \in Nat /\ io[t].cnt \in Nat /\ io[t].from \in Nat
         /\ io[t].from + io[t].cnt <= Sectors /\ Sectors \in Nat /\ Bufs \in Nat
         /\ Chunk(t) \in 1 .. Bufs /\ io[t].pos + Chunk(t) <= io[t].cnt
         /\ Sector(t) = io[t].from + io[t].pos
         /\ (\A u \in Tasks \ {t} : ~InLoop(u))
         /\ l \in {"write", "copyin"} => io[t].kind = "write"
         /\ l \in {"read", "copyout"} => io[t].kind = "read"
<1>1. InLoop(t) /\ io[t].on /\ Good(t)
  BY DEF InLoop, At, LoopSteps, Served
<1>2. \A m : m # l => ~At(t, m)
  BY Apart
<1>3. /\ io[t].pos < io[t].cnt /\ io[t].pos \in Nat /\ io[t].cnt \in Nat /\ io[t].from \in Nat
      /\ io[t].from + io[t].cnt <= Sectors
      /\ l \in {"write", "copyin"} => io[t].kind = "write"
      /\ l \in {"read", "copyout"} => io[t].kind = "read"
  BY <1>1, <1>2 DEF Good, Typed, Requests
<1>4. /\ Sectors \in Nat /\ Bufs \in Nat /\ Chunk(t) \in 1 .. Bufs /\ io[t].pos + Chunk(t) <= io[t].cnt
      /\ Sector(t) = io[t].from + io[t].pos
  BY <1>3, Chunks, Sizes DEF Typed
<1>5. \A u \in Tasks \ {t} : ~InLoop(u)
  BY <1>1, OneInLoop DEF Typed, Control
<1> QED BY <1>1, <1>3, <1>4, <1>5

(* Sectors of the chunk reach the card. *)
LEMMA Stored ==
  ASSUME Typed, Control, Served, NEW t \in Tasks, At(t, "write"),
         NEW bs \in SUBSET ChunkSectors(t), Store(t, bs), UNCHANGED geo
  PROVE  /\ media' \in [0 .. Sectors - 1 -> Block]
         /\ \A b \in 0 .. Sectors - 1 : media'[b] = IF b \in bs THEN buf[b - Sector(t) + 1] ELSE media[b]
<1>1. /\ io[t].pos < io[t].cnt /\ io[t].pos \in Nat /\ io[t].cnt \in Nat /\ io[t].from \in Nat
      /\ io[t].from + io[t].cnt <= Sectors /\ Sectors \in Nat /\ Bufs \in Nat
      /\ Chunk(t) \in 1 .. Bufs /\ io[t].pos + Chunk(t) <= io[t].cnt
      /\ Sector(t) = io[t].from + io[t].pos
  BY InRequest DEF LoopSteps
<1>2. \A b \in bs : b - Sector(t) + 1 \in 1 .. Bufs
  <2> SUFFICES ASSUME NEW b \in bs PROVE b - Sector(t) + 1 \in 1 .. Bufs
    OBVIOUS
  <2>1. b \in Sector(t) .. Sector(t) + Chunk(t) - 1
    BY DEF ChunkSectors
  <2> QED BY <1>1, <2>1
<1>3. media \in [0 .. Sectors - 1 -> Block] /\ buf \in [1 .. Bufs -> Block]
  BY DEF Typed
<1>4. media' = [b \in 0 .. Sectors - 1 |-> IF b \in bs THEN buf[b - Sector(t) + 1] ELSE media[b]]
  BY <1>3 DEF Store
<1>5. \A b \in 0 .. Sectors - 1 : (IF b \in bs THEN buf[b - Sector(t) + 1] ELSE media[b]) \in Block
  BY <1>2, <1>3
<1> QED BY <1>4, <1>5

(* A request ends with an error. *)
LEMMA Stopped ==
  ASSUME Typed, Control, Served, Control', NEW t \in Tasks, BreakOff(t)
  PROVE  /\ io' \in [Tasks -> Requests] /\ ~io'[t].on /\ ~io'[t].ok /\ ~InLoop(t)' /\ res'[t] = "fail"
         /\ (\A u \in Tasks \ {t} : io'[u] = io[u])
         /\ io'[t].from = io[t].from /\ io'[t].data = io[t].data
<1>1. GivingUp(t)' /\ res'[t] = "fail"
  BY DEF BreakOff, Fail, Typed, TypeOK, Control, Placed
<1>2. io' \in [Tasks -> Requests] /\ ~io'[t].on /\ ~io'[t].ok /\ (\A u \in Tasks \ {t} : io'[u] = io[u])
      /\ io'[t].from = io[t].from /\ io'[t].data = io[t].data
  <2> DEFINE new == [io[t] EXCEPT !.on = FALSE, !.ok = FALSE]
  <2>1. io \in [Tasks -> Requests] /\ io[t] \in Requests
    BY DEF Typed
  <2>2. new \in Requests /\ ~new.on /\ ~new.ok /\ new.from = io[t].from /\ new.data = io[t].data
    BY <2>1 DEF Requests
  <2>3. io' = [io EXCEPT ![t] = new]
    BY <2>1 DEF BreakOff
  <2> HIDE DEF new
  <2> QED BY <2>1, <2>2, <2>3
<1> QED BY <1>1, <1>2, GivingUpNotInLoop

(* The blocks of a chunk lie behind those of the turns before, on the card. *)
LEMMA ChunkPlaces ==
  ASSUME NEW f \in Nat, NEW p \in Nat, NEW n \in Nat, NEW c \in Nat, NEW m \in Nat,
         f + c <= m, p + n <= c
  PROVE  /\ \A i \in 1 .. p : f + i - 1 \in 0 .. m - 1 /\ f + i - 1 \notin f + p .. f + p + n - 1
         /\ \A i \in 1 .. n : /\ f + p + i - 1 \in 0 .. m - 1 /\ f + p + i - 1 \in f + p .. f + p + n - 1
                            /\ f + p + i - 1 - (f + p) + 1 = i
OBVIOUS

(* A chunk is written, and the turn is over. *)
LEMMA WriteTurn ==
  ASSUME Typed, Control, Served, NEW t \in Tasks, At(t, "write"),
         Store(t, ChunkSectors(t)), NextTurn(t, "copyin"), UNCHANGED <<geo, buf>>
  PROVE  Turned(t)
<1>1. /\ InLoop(t) /\ io[t].on /\ Good(t)
      /\ io[t].pos < io[t].cnt /\ io[t].pos \in Nat /\ io[t].cnt \in Nat /\ io[t].from \in Nat
      /\ io[t].from + io[t].cnt <= Sectors /\ Sectors \in Nat /\ Bufs \in Nat
      /\ Chunk(t) \in 1 .. Bufs /\ io[t].pos + Chunk(t) <= io[t].cnt
      /\ Sector(t) = io[t].from + io[t].pos
      /\ io[t].kind = "write"
  BY InRequest DEF LoopSteps
<1>2. \A b \in 0 .. Sectors - 1 :
         media'[b] = IF b \in ChunkSectors(t) THEN buf[b - Sector(t) + 1] ELSE media[b]
  BY Stored
<1>3. /\ \A i \in 1 .. io[t].pos : io[t].from + i - 1 \in 0 .. Sectors - 1 /\ io[t].from + i - 1 \notin ChunkSectors(t)
      /\ \A i \in 1 .. Chunk(t) : /\ Sector(t) + i - 1 \in 0 .. Sectors - 1
                                 /\ Sector(t) + i - 1 \in ChunkSectors(t)
                                 /\ Sector(t) + i - 1 - Sector(t) + 1 = i
  <2> DEFINE f == io[t].from
             p == io[t].pos
             n == Chunk(t)
             c == io[t].cnt
             m == Sectors
  <2>1. f \in Nat /\ p \in Nat /\ n \in Nat /\ c \in Nat /\ m \in Nat /\ f + c <= m /\ p + n <= c
        /\ Sector(t) = f + p /\ ChunkSectors(t) = Sector(t) .. Sector(t) + n - 1
    BY <1>1 DEF ChunkSectors
  <2> HIDE DEF f, p, n, c, m
  <2>2. /\ \A i \in 1 .. p : f + i - 1 \in 0 .. m - 1 /\ f + i - 1 \notin f + p .. f + p + n - 1
        /\ \A i \in 1 .. n : /\ f + p + i - 1 \in 0 .. m - 1 /\ f + p + i - 1 \in f + p .. f + p + n - 1
                            /\ f + p + i - 1 - (f + p) + 1 = i
    BY <2>1, ChunkPlaces
  <2> QED BY <2>1, <2>2 DEF f, p, n, c, m
<1>4. \A i \in 1 .. io[t].pos : media'[io[t].from + i - 1] = io[t].data[i]
  <2> SUFFICES ASSUME NEW i \in 1 .. io[t].pos PROVE media'[io[t].from + i - 1] = io[t].data[i]
    OBVIOUS
  <2>1. media[io[t].from + i - 1] = io[t].data[i]
    BY <1>1 DEF Good
  <2>2. io[t].from + i - 1 \in 0 .. Sectors - 1 /\ io[t].from + i - 1 \notin ChunkSectors(t)
    BY <1>3
  <2> QED BY <1>2, <2>1, <2>2
<1>5. \A i \in 1 .. Chunk(t) : /\ media'[io[t].from + io[t].pos + i - 1] = buf[i]
                               /\ io[t].kind = "write" => io[t].data[io[t].pos + i] = buf[i]
  <2> SUFFICES ASSUME NEW i \in 1 .. Chunk(t)
               PROVE  media'[io[t].from + io[t].pos + i - 1] = buf[i] /\ io[t].data[io[t].pos + i] = buf[i]
    OBVIOUS
  <2>1. io[t].data[io[t].pos + i] = buf[i]
    BY <1>1 DEF Good
  <2> DEFINE b == Sector(t) + i - 1
  <2>4. Sector(t) + i - 1 \in 0 .. Sectors - 1 /\ Sector(t) + i - 1 \in ChunkSectors(t)
    BY <1>3
  <2>5. Sector(t) \in Nat
    BY <1>1
  <2>2. b \in 0 .. Sectors - 1 /\ b \in ChunkSectors(t) /\ b - Sector(t) + 1 = i
    BY <2>4, <2>5
  <2> HIDE DEF b
  <2>3. media'[b] = buf[i]
    BY <1>2, <2>2
  <2> QED BY <1>1, <2>1, <2>3 DEF b
<1>6. "copyin" \in LoopSteps /\ Placed
  BY DEF LoopSteps, Control
<1> QED BY <1>1, <1>4, <1>5, <1>6, TurnOver

(* A chunk is copied out, and the turn is over. *)
LEMMA CopyOutTurn ==
  ASSUME Typed, Control, Served, NEW t \in Tasks, CopyOut(t)
  PROVE  Turned(t)
<1>1. At(t, "copyout") /\ media' = media /\ geo' = geo /\ buf' = buf /\ NextTurn(t, "read")
  BY DEF CopyOut, device
<1>2. io[t].on /\ Good(t) /\ io[t].kind = "read"
  BY <1>1, InRequest DEF LoopSteps
<1>3. /\ \A i \in 1 .. io[t].pos : media'[io[t].from + i - 1] = io[t].data[i]
      /\ \A i \in 1 .. Chunk(t) : media'[io[t].from + io[t].pos + i - 1] = buf[i]
  BY <1>1, <1>2 DEF Good
<1>4. "read" \in LoopSteps /\ Placed
  BY DEF LoopSteps, Control
<1> QED BY <1>1, <1>2, <1>3, <1>4, TurnOver

(* WriteChunk, whether the lower write succeeds or stops halfway. *)
LEMMA WriteServed ==
  ASSUME Typed, Control, Served, Control', NEW t \in Tasks, WriteChunk(t),
         \A u \in Tasks \ {t} : todo'[u] = todo[u], UNCHANGED geo
  PROVE  DataTyped /\ Served'
<1>1. At(t, "write") /\ buf' = buf
  BY DEF WriteChunk
<1>2. InLoop(t) /\ \A u \in Tasks \ {t} : ~InLoop(u)
  BY <1>1, InRequest DEF LoopSteps
<1>3. CASE Store(t, ChunkSectors(t)) /\ NextTurn(t, "copyin")
  <2>1. /\ media' \in [0 .. Sectors - 1 -> Block]
    BY <1>1, <1>3, Stored
  <2>2. /\ io' \in [Tasks -> Requests] /\ (io'[t].on <=> InLoop(t)')
        /\ (io'[t].on => Good(t)')
        /\ \A u \in Tasks \ {t} : io'[u] = io[u]
    BY <1>1, <1>3, WriteTurn DEF Turned
  <2>3. Served'
    BY <1>2, <2>2, OthersServed
  <2> QED BY <1>1, <2>1, <2>2, <2>3 DEF DataTyped, Typed
<1>4. ASSUME NEW bs \in SUBSET ChunkSectors(t), Store(t, bs), BreakOff(t)
      PROVE  DataTyped /\ Served'
  <2>1. /\ media' \in [0 .. Sectors - 1 -> Block]
    BY <1>1, <1>4, Stored
  <2>2. /\ io' \in [Tasks -> Requests] /\ ~io'[t].on /\ ~InLoop(t)'
        /\ (\A u \in Tasks \ {t} : io'[u] = io[u])
    BY <1>4, Stopped
  <2>3. Served'
    BY <1>2, <2>2, OthersServed
  <2> QED BY <1>1, <2>1, <2>2, <2>3 DEF DataTyped, Typed
<1> QED BY <1>3, <1>4 DEF WriteChunk

(* ReadChunk, whether the lower read succeeds or not. *)
LEMMA ReadServed ==
  ASSUME Typed, Control, Served, Control', NEW t \in Tasks, ReadChunk(t),
         \A u \in Tasks \ {t} : todo'[u] = todo[u], UNCHANGED geo
  PROVE  DataTyped /\ Served'
<1>1. At(t, "read") /\ media' = media
  BY DEF ReadChunk
<1>2. /\ InLoop(t) /\ io[t].on /\ Good(t)
      /\ io[t].pos < io[t].cnt /\ io[t].pos \in Nat /\ io[t].cnt \in Nat /\ io[t].from \in Nat
      /\ io[t].from + io[t].cnt <= Sectors /\ Sectors \in Nat /\ Bufs \in Nat
      /\ Chunk(t) \in 1 .. Bufs /\ io[t].pos + Chunk(t) <= io[t].cnt
      /\ Sector(t) = io[t].from + io[t].pos
      /\ (\A u \in Tasks \ {t} : ~InLoop(u))
      /\ io[t].kind = "read"
  BY <1>1, InRequest DEF LoopSteps
<1>3. buf \in [1 .. Bufs -> Block] /\ DOMAIN buf = 1 .. Bufs /\ media \in [0 .. Sectors - 1 -> Block]
      /\ io \in [Tasks -> Requests] /\ todo[t] \in Seq(Steps)
  BY DEF Typed, TypeOK
<1>4. CASE /\ buf' = [i \in DOMAIN buf |-> IF i > Chunk(t) THEN buf[i] ELSE media[Sector(t) + i - 1]]
           /\ First(t, <<"copyout">>) /\ io' = io
  <2>1. \A i \in 1 .. Bufs : ~(i > Chunk(t)) => Sector(t) + i - 1 \in 0 .. Sectors - 1
    BY <1>2
  <2>2. buf' \in [1 .. Bufs -> Block]
    <3>1. \A i \in 1 .. Bufs : (IF i > Chunk(t) THEN buf[i] ELSE media[Sector(t) + i - 1]) \in Block
      BY <1>3, <2>1
    <3> QED BY <1>3, <1>4, <3>1
  <2>3. \A i \in 1 .. Chunk(t) : buf'[i] = media[Sector(t) + i - 1]
    <3>1. \A i \in 1 .. Chunk(t) : i \in 1 .. Bufs /\ ~(i > Chunk(t))
      BY <1>2
    <3> QED BY <1>3, <1>4, <3>1
  <2>4. todo'[t] # <<>> /\ Head(todo'[t]) = "copyout"
    <3>1. Tail(todo[t]) \in Seq(Steps)
      BY <1>1, <1>3, EmptyCons DEF At
    <3>2. todo'[t] = <<"copyout">> \o Tail(todo[t]) /\ "copyout" \in Steps
      BY <1>4 DEF First, Typed, TypeOK, Steps
    <3> QED BY <3>1, <3>2, ConsStep
  <2>5. /\ InLoop(t)' /\ ~At(t, "copyin")' /\ ~At(t, "write")' /\ At(t, "copyout")'
    BY <2>4 DEF InLoop, At, LoopSteps
  <2>6. Chunk(t)' = Chunk(t) /\ Sectors' = Sectors /\ Bufs' = Bufs
    BY <1>4 DEF Chunk, Bufs, Sectors
  <2>7. Good(t)'
    BY <1>1, <1>2, <1>4, <2>3, <2>5, <2>6 DEF Good
  <2>8. Served'
    BY <1>2, <1>4, <2>5, <2>7, OthersServed
  <2> QED BY <1>1, <1>3, <1>4, <2>2, <2>8 DEF DataTyped
<1>5. CASE /\ buf' = [i \in DOMAIN buf |-> IF i > Chunk(t) THEN buf[i] ELSE <<"torn", i>>]
           /\ BreakOff(t)
  <2>1. buf' \in [1 .. Bufs -> Block]
    <3>1. \A i \in 1 .. Bufs : <<"torn", i>> \in Block
      BY DEF Block, Origins
    <3> QED BY <1>3, <1>5, <3>1
  <2>2. /\ io' \in [Tasks -> Requests] /\ ~io'[t].on /\ ~InLoop(t)'
        /\ (\A u \in Tasks \ {t} : io'[u] = io[u])
    BY <1>5, Stopped
  <2>3. Served'
    BY <1>2, <2>2, OthersServed
  <2> QED BY <1>1, <1>3, <2>1, <2>2, <2>3 DEF DataTyped
<1> QED BY <1>4, <1>5 DEF ReadChunk

(* CopyOut: the destination has what the blocks hold. *)
LEMMA CopyOutServed ==
  ASSUME Typed, Control, Served, Control', NEW t \in Tasks, CopyOut(t),
         \A u \in Tasks \ {t} : todo'[u] = todo[u], UNCHANGED geo
  PROVE  DataTyped /\ Served'
<1>1. At(t, "copyout") /\ media' = media /\ buf' = buf
  BY DEF CopyOut, device
<1>2. \A u \in Tasks \ {t} : ~InLoop(u)
  BY <1>1, InRequest DEF LoopSteps
<1>3. /\ io' \in [Tasks -> Requests] /\ (io'[t].on <=> InLoop(t)')
      /\ (io'[t].on => Good(t)')
      /\ \A u \in Tasks \ {t} : io'[u] = io[u]
  BY CopyOutTurn DEF Turned
<1>4. Served'
  BY <1>2, <1>3, OthersServed
<1>5. DataTyped
  BY <1>1, <1>3 DEF DataTyped, Typed
<1> QED BY <1>4, <1>5

(* A call begins with no request. *)
LEMMA BeginServed ==
  ASSUME Typed, Control, Served, NEW t \in Tasks, Begin(t),
         \A u \in Tasks \ {t} : todo'[u] = todo[u], UNCHANGED geo
  PROVE  DataTyped /\ Served'
<1>1. PICK o \in Calls : todo' = [todo EXCEPT ![t] = Program[o]]
  BY DEF Begin, Calls
<1>2. UNCHANGED <<media, buf>> /\ io' = [io EXCEPT ![t] = NoIo]
  BY DEF Begin, device
<1>3. ~InLoop(t)'
  <2>1. 1 \in 1 .. Len(Program[o])
    BY Programs
  <2>2. Program[o] = Left(o, 1) /\ Head(Left(o, 1)) = Program[o][1] /\ Program[o][1] \notin LoopSteps
    BY <2>1, LeftSteps, LeftEnds, Depths
  <2>3. todo'[t] = Program[o]
    BY <1>1 DEF Typed, TypeOK
  <2> QED BY <2>2, <2>3 DEF InLoop
<1>4. NoIo \in Requests /\ ~NoIo.on
  <2>1. <<>> \in Seq(Block)
    OBVIOUS
  <2> QED BY <2>1 DEF NoIo, Requests
<1>5. io' \in [Tasks -> Requests] /\ ~io'[t].on /\ \A u \in Tasks \ {t} : io'[u] = io[u]
  BY <1>2, <1>4 DEF Typed
<1> QED BY <1>2, <1>3, <1>5, QuietServed

(* Every step keeps the types, and what the requests rely on. *)
LEMMA ServedStep ==
  ASSUME Typed, Control, Served, NEW t \in Tasks, Begin(t) \/ Step(t)
  PROVE  Typed' /\ Control' /\ Served'
<1>1. Control' /\ geo' = geo /\ \A u \in Tasks \ {t} : todo'[u] = todo[u]
  BY ControlStep
<1>2. DataTyped /\ Served'
  <2>1. ASSUME NEW l, At(t, l), l \notin LoopSteps, Go(t) \/ Fail(t), UNCHANGED <<media, buf, io>>
        PROVE  DataTyped /\ Served'
    BY <1>1, <2>1, PopServed
  <2>2. CASE Begin(t)
    BY <1>1, <2>2, BeginServed
  <2>3. CASE Return(t)
    <3>1. UNCHANGED <<media, buf, io>> /\ ~InLoop(t) /\ ~InLoop(t)' /\ ~io[t].on
      BY <2>3 DEF Return, device, InLoop, Served
    <3> QED BY <1>1, <3>1, QuietServed DEF Typed
  <2>4. CASE Lock(t)
    BY <2>1, <2>4 DEF Lock, device, LoopSteps
  <2>5. CASE Unlock(t)
    BY <2>1, <2>5 DEF Unlock, device, LoopSteps
  <2>6. CASE Open(t)
    BY <2>1, <2>6 DEF Open, device, LoopSteps
  <2>7. CASE Unref(t)
    BY <2>1, <2>7 DEF Unref, device, LoopSteps
  <2>8. CASE CheckFormat(t) \/ CheckParameters(t)
    BY <2>1, <2>8 DEF CheckFormat, CheckParameters, device, LoopSteps
  <2>9. CASE CheckRefs(t)
    BY <2>1, <2>9 DEF CheckRefs, device, LoopSteps
  <2>10. CASE Free(t)
    BY <2>1, <2>10 DEF Free, device, LoopSteps
  <2>11. CASE BeginIo(t)
    BY <1>1, <2>11, AcceptServed
  <2>12. CASE CopyIn(t)
    BY <1>1, <2>12, CopyInServed
  <2>13. CASE WriteChunk(t)
    BY <1>1, <2>13, WriteServed
  <2>14. CASE ReadChunk(t)
    BY <1>1, <2>14, ReadServed
  <2>15. CASE CopyOut(t)
    BY <1>1, <2>15, CopyOutServed
  <2> QED BY <2>2, <2>3, <2>4, <2>5, <2>6, <2>7, <2>8, <2>9, <2>10, <2>11, <2>12, <2>13, <2>14, <2>15 DEF Step
<1>3. Typed'
  <2>1. TypeOK' /\ geo' = geo
    BY ControlTyped
  <2>2. Bufs' = Bufs /\ Sectors' = Sectors
    BY <2>1 DEF Bufs, Sectors
  <2> QED BY <1>2, <2>1, <2>2 DEF Typed, DataTyped
<1> QED BY <1>1, <1>2, <1>3
-----------------------------------------------------------------------------
(* Destroying the adapter. *)

(* lwext4_port_sdmmc_destroy, step by step. *)
LEMMA DestroyLeft ==
  /\ "destroy" \in Calls /\ Len(Program["destroy"]) = 4
  /\ Program["destroy"][1] = "lock" /\ Program["destroy"][2] = "refs"
  /\ Program["destroy"][3] = "unlock" /\ Program["destroy"][4] = "free"
  /\ Left("destroy", 1) = <<"lock", "refs", "unlock", "free">>
  /\ Left("destroy", 2) = <<"refs", "unlock", "free">>
  /\ Left("destroy", 3) = <<"unlock", "free">>
  /\ Left("destroy", 4) = <<"free">> /\ Left("destroy", 5) = <<>>
<1>1. /\ "destroy" \in Calls /\ Len(Program["destroy"]) = 4
      /\ Program["destroy"] = <<"lock", "refs", "unlock", "free">>
      /\ Program["destroy"][1] = "lock" /\ Program["destroy"][2] = "refs"
      /\ Program["destroy"][3] = "unlock" /\ Program["destroy"][4] = "free"
  BY DEF Calls, Program
<1>2. Left("destroy", 1) = <<"lock", "refs", "unlock", "free">> /\ Left("destroy", 4 + 1) = <<>>
  BY <1>1, LeftEnds
<1>3. \A k \in 1 .. 4 : Tail(Left("destroy", k)) = Left("destroy", k + 1)
  BY <1>1, LeftSteps
<1>4. /\ Tail(<<"lock", "refs", "unlock", "free">>) = <<"refs", "unlock", "free">>
      /\ Tail(<<"refs", "unlock", "free">>) = <<"unlock", "free">>
      /\ Tail(<<"unlock", "free">>) = <<"free">>
  OBVIOUS
<1>5. /\ Tail(Left("destroy", 1)) = Left("destroy", 2) /\ Tail(Left("destroy", 2)) = Left("destroy", 3)
      /\ Tail(Left("destroy", 3)) = Left("destroy", 4)
  BY <1>3
<1>6. 4 + 1 = 5
  OBVIOUS
<1> QED BY <1>1, <1>2, <1>4, <1>5, <1>6

(* The places of destroy, and its error path *)
LEMMA DestroyPlace ==
  ASSUME Placed, NEW t \in Tasks, op[t] = "destroy", res[t] = "ok", NEW l, At(t, l)
  PROVE  \/ l = "lock" /\ todo[t] = Program["destroy"] /\ Tail(todo[t]) = <<"refs", "unlock", "free">>
         \/ /\ l = "refs" /\ todo[t] = <<"refs", "unlock", "free">>
            /\ Tail(todo[t]) = <<"unlock", "free">>
         \/ l = "unlock" /\ todo[t] = <<"unlock", "free">> /\ Tail(todo[t]) = <<"free">>
         \/ l = "free" /\ todo[t] = <<"free">> /\ Tail(todo[t]) = <<>> /\ Held(t) = 0
<1>1. OnCourse(t)
  BY DEF Placed
<1>2. l \notin LoopSteps
  <2>1. ASSUME InLoop(t) PROVE FALSE
    <3>1. PICK k \in 1 .. Len(Program["destroy"]) : Program["destroy"][k] = "io"
      BY <1>1, <2>1, LoopPlace
    <3> QED BY <3>1, DestroyLeft
  <2> QED BY <2>1 DEF InLoop, At
<1>3. PICK k \in 1 .. Len(Program["destroy"]) :
          /\ Program["destroy"][k] = l /\ Held(t) = Depth["destroy"][k]
          /\ todo[t] = Left("destroy", k) /\ Tail(todo[t]) = Left("destroy", k + 1)
  BY <1>1, <1>2, OnPlace
<1>4. Len(Program["destroy"]) = 4
  BY DestroyLeft
<1>5. k \in {1, 2, 3, 4}
  BY <1>3, <1>4
<1>6. /\ Depth["destroy"][4] = 0 /\ Left("destroy", 1) = Program["destroy"]
      /\ Left("destroy", 1 + 1) = Left("destroy", 2) /\ Left("destroy", 2 + 1) = Left("destroy", 3)
      /\ Left("destroy", 3 + 1) = Left("destroy", 4) /\ Left("destroy", 4 + 1) = Left("destroy", 5)
  BY LeftEnds, DestroyLeft DEF Depth
<1> QED BY <1>3, <1>5, <1>6, DestroyLeft, Zenon

(* While an adapter is destroyed nobody else takes a step. *)
LEMMA DestroyedAlone ==
  ASSUME Typed, Control, NEW t \in Tasks, Begin(t) \/ Step(t), NEW u \in Tasks \ {t}
  PROVE  op[u] # "destroy"
<1> SUFFICES ASSUME op[u] = "destroy" PROVE FALSE
  OBVIOUS
<1>1. op[t] = "none"
  BY DEF Control, Excluded, Alone
<1>2. todo[t] = <<>>
  BY <1>1, EmptyPlace DEF Control
<1>3. \A l : ~At(t, l)
  BY <1>2 DEF At
<1>4. ~Step(t)
  BY <1>1, <1>3 DEF Step, Return, Lock, Unlock, Open, Unref, CheckFormat, CheckParameters, CheckRefs, Free,
                    BeginIo, CopyIn, WriteChunk, ReadChunk, CopyOut
<1>5. ~Begin(t)
  BY DEF Begin, MayBegin, Alone
<1> QED BY <1>4, <1>5

(* Each step of a call is one action. *)
LEMMA StepAt ==
  ASSUME NEW t \in Tasks, Step(t), NEW l, At(t, l)
  PROVE  /\ l = "lock" => Lock(t)
         /\ l = "unlock" => Unlock(t)
         /\ l = "refs" => CheckRefs(t)
         /\ l = "free" => Free(t)
<1>1. \A m : m # l => ~At(t, m)
  BY Apart
<1>2. todo[t] # <<>>
  BY DEF At
<1> QED BY <1>1, <1>2 DEF Step, Return, Lock, Unlock, Open, Unref, CheckFormat, CheckParameters, CheckRefs, Free,
                          BeginIo, CopyIn, WriteChunk, ReadChunk, CopyOut

(* Nobody loses a call's name, result or program to another. *)
LEMMA OthersCalls ==
  ASSUME Typed, Control, NEW t \in Tasks, Begin(t) \/ Step(t)
  PROVE  /\ \A u \in Tasks \ {t} : op'[u] = op[u] /\ res'[u] = res[u] /\ todo'[u] = todo[u]
         /\ Begin(t) \/ Return(t) \/ op' = op
         /\ Begin(t) \/ res' = res \/ Fail(t)
<1>1. op \in [Tasks -> DOMAIN Program \cup {"none"}] /\ res \in [Tasks -> {"ok", "fail"}]
      /\ \A u \in Tasks \ {t} : todo'[u] = todo[u]
  BY ControlTyped DEF Typed, TypeOK, Calls
<1>2. Begin(t) \/ Return(t) \/ op' = op
  BY DEF Step, Lock, Unlock, Open, Unref, CheckFormat, CheckParameters, CheckRefs, Free,
         BeginIo, CopyIn, WriteChunk, ReadChunk, CopyOut
<1>3. \A u \in Tasks \ {t} : op'[u] = op[u]
  BY <1>1, <1>2 DEF Begin, Return
<1>4. (\A u \in Tasks \ {t} : res'[u] = res[u]) /\ (Begin(t) \/ res' = res \/ Fail(t))
  <2>1. Begin(t) \/ res' = res \/ Fail(t)
    BY DEF Step, Return, Lock, Unlock, Open, Unref, CheckFormat, CheckParameters, CheckRefs, Free, 
           BeginIo, CopyIn, WriteChunk, ReadChunk, CopyOut, Go, First, NextTurn, BreakOff
  <2> QED BY <1>1, <2>1 DEF Begin, Fail
<1> QED BY <1>1, <1>2, <1>3, <1>4

(* destroy keeps what it has checked until it frees the adapter. *)
LEMMA EndingStep ==
  ASSUME Typed, Control, Ending, NEW t \in Tasks, Begin(t) \/ Step(t)
  PROVE  Ending'
<1> DEFINE A(s) == s \in {<<"unlock", "free">>, <<"free">>}
<1>1. \A u \in Tasks \ {t} : op'[u] # "destroy"
  BY DestroyedAlone, OthersCalls
<1>2. SUFFICES ASSUME op'[t] = "destroy", res'[t] = "ok" PROVE A(todo'[t]) => refs' = 0
  BY <1>1 DEF Ending
<1>3. /\ Head(<<"unlock", "free">>) = "unlock" /\ Head(<<"free">>) = "free"
      /\ <<>> # <<"unlock", "free">> /\ <<>> # <<"free">>
      /\ Head(<<"refs", "unlock", "free">>) = "refs"
  OBVIOUS
<1>4. CASE Begin(t)
  <2>1. PICK o \in Calls : op' = [op EXCEPT ![t] = o] /\ todo' = [todo EXCEPT ![t] = Program[o]]
    BY <1>4 DEF Begin, Calls
  <2>2. o = "destroy" /\ todo'[t] = Program["destroy"]
    BY <1>2, <2>1 DEF Typed, TypeOK
  <2>3. Head(Program["destroy"]) = "lock"
    BY DEF Program
  <2> QED BY <1>3, <2>2, <2>3
<1>5. CASE Return(t)
  BY <1>2, <1>5 DEF Return, Typed, TypeOK
<1>6. CASE Step(t) /\ ~Return(t)
  <2>1. PICK l : At(t, l)
    BY <1>6 DEF Step, Lock, Unlock, Open, Unref, CheckFormat, CheckParameters, CheckRefs, Free,
                BeginIo, CopyIn, WriteChunk, ReadChunk, CopyOut
  <2>2. op' = op
    BY <1>6, OthersCalls DEF Begin, At, Step, Lock, Unlock, Open, Unref, CheckFormat, CheckParameters, CheckRefs, Free,
                BeginIo, CopyIn, WriteChunk, ReadChunk, CopyOut
  <2>3. op[t] = "destroy"
    BY <1>2, <2>2
  <2>4. res' = res /\ res[t] = "ok" /\ ~Fail(t)
    <3>1. ~Begin(t)
      BY <2>3 DEF Begin
    <3>2. ~Fail(t)
      BY <1>2 DEF Fail, Typed, TypeOK
    <3> QED BY <1>2, <3>1, <3>2, OthersCalls
  <2>5. Go(t) => todo'[t] = Tail(todo[t])
    BY <2>1, GoPops DEF Typed
  <2>6. Step(t) /\ Placed
    BY <1>6 DEF Control
  <2>7. CASE l = "lock"
    <3>1. Tail(todo[t]) = <<"refs", "unlock", "free">>
      BY <2>1, <2>3, <2>4, <2>6, <2>7, DestroyPlace
    <3>2. Go(t)
      BY <2>1, <2>6, <2>7, StepAt DEF Lock
    <3>3. Head(todo'[t]) = "refs"
      BY <1>3, <2>5, <3>1, <3>2
    <3> QED BY <1>3, <3>3
  <2>8. CASE l = "refs"
    BY <2>1, <2>4, <2>6, <2>8, StepAt DEF CheckRefs
  <2>9. CASE l = "unlock"
    <3>1. todo[t] = <<"unlock", "free">>
      BY <2>1, <2>3, <2>4, <2>6, <2>9, DestroyPlace
    <3>2. refs = 0
      BY <2>3, <2>4, <3>1 DEF Ending
    <3>3. refs' = refs
      BY <2>1, <2>6, <2>9, StepAt DEF Unlock
    <3> QED BY <3>2, <3>3
  <2>10. CASE l = "free"
    <3>1. Tail(todo[t]) = <<>>
      BY <2>1, <2>3, <2>4, <2>6, <2>10, DestroyPlace
    <3>2. Go(t)
      BY <2>1, <2>6, <2>10, StepAt DEF Free
    <3> QED BY <1>3, <2>5, <3>1, <3>2
  <2>11. l \in {"lock", "refs", "unlock", "free"}
    BY <2>1, <2>3, <2>4, <2>6, DestroyPlace
  <2> QED BY <2>7, <2>8, <2>9, <2>10, <2>11
<1> QED BY <1>4, <1>5, <1>6

(* Only destroy frees. *)
LEMMA FreeCalls ==
  ASSUME NEW o \in Calls, NEW k \in 1 .. Len(Program[o]), Program[o][k] = "free" PROVE o = "destroy"
<1>1. CASE o = "io"
  BY <1>1 DEF Program
<1>2. CASE o = "sync"
  BY <1>2 DEF Program
<1>3. CASE o = "mount"
  BY <1>3 DEF Program
<1>4. CASE o = "unmount"
  BY <1>4 DEF Program
<1>5. CASE o = "format"
  BY <1>5 DEF Program
<1> QED BY <1>1, <1>2, <1>3, <1>4, <1>5, CallNames

(* The adapter is freed when nothing refers to it. *)
LEMMA FreedStep ==
  ASSUME Typed, Control, Ending, FreedClean, NEW t \in Tasks, Begin(t) \/ Step(t)
  PROVE  FreedClean'
<1>1. CASE freed
  <2>1. \A l : ~At(t, l)
    BY <1>1 DEF FreedClean, At
  <2>2. Return(t)
    BY <1>1, <2>1 DEF Begin, Step, Lock, Unlock, Open, Unref, CheckFormat, CheckParameters, CheckRefs, Free,
                      BeginIo, CopyIn, WriteChunk, ReadChunk, CopyOut
  <2> QED BY <1>1, <2>2 DEF Return, FreedClean, lock
<1>2. CASE ~freed /\ freed'
  <2>1. Free(t)
    BY <1>2 DEF Begin, Step, Return, Lock, Unlock, Open, Unref, CheckFormat, CheckParameters, CheckRefs,
                BeginIo, CopyIn, WriteChunk, ReadChunk, CopyOut
  <2>2. At(t, "free") /\ res[t] = "ok" /\ OnCourse(t)
    BY <2>1, NotGivingUp DEF Free, Control
  <2>3. op[t] = "destroy"
    <3>1. PICK k \in 1 .. Len(Program[op[t]]) : op[t] \in Calls /\ Program[op[t]][k] = "free"
      BY <2>2, OnPlace DEF LoopSteps
    <3> QED BY <3>1, CallNames, FreeCalls
  <2>4. todo[t] = <<"free">> /\ Tail(todo[t]) = <<>> /\ Held(t) = 0
    BY <2>2, <2>3, DestroyPlace DEF Control
  <2>5. refs = 0
    BY <2>2, <2>3, <2>4 DEF Ending
  <2>6. \A u \in Tasks \ {t} : Held(u) = 0 /\ todo[u] = <<>>
    <3>1. \A u \in Tasks \ {t} : op[u] = "none"
      BY <2>3 DEF Control, Excluded, Alone
    <3> QED BY <3>1, EmptyPlace DEF Control
  <2>7. owner = None
    BY <2>4, <2>6, TaskAssumption DEF Held, Control, Mutex, Typed, TypeOK
  <2>8. \A u \in Tasks : todo'[u] = <<>>
    BY <2>1, <2>2, <2>4, <2>6, GoPops DEF Free, Typed
  <2> QED BY <2>1, <2>5, <2>7, <2>8 DEF Free, FreedClean, lock
<1>3. CASE ~freed'
  BY <1>3 DEF FreedClean
<1> QED BY <1>1, <1>2, <1>3

-----------------------------------------------------------------------------
(* The theorems. *)

(* create returns an adapter of which the invariant holds. *)
LEMMA IInvInit == Init => IInv
<1> SUFFICES ASSUME Init PROVE IInv
  OBVIOUS
<1>1. /\ geo \in Setups /\ Creatable(geo.card, geo.config)
      /\ freed = FALSE /\ owner = None /\ depth = 0 /\ refs = 0
      /\ buf = [i \in 1 .. Bufs |-> <<"empty", i>>]
      /\ media = [b \in 0 .. Sectors - 1 |-> <<"old", b>>]
  BY DEF Init, Sectors
<1>2. /\ op = [t \in Tasks |-> "none"] /\ todo = [t \in Tasks |-> <<>>] /\ res = [t \in Tasks |-> "ok"]
      /\ io = [t \in Tasks |-> NoIo]
  BY DEF Init
<1>3. NoIo \in Requests /\ ~NoIo.on /\ NoIo.kind = "none"
  <2>1. <<>> \in Seq(Block)
    OBVIOUS
  <2> QED BY <2>1 DEF NoIo, Requests
<1>4. Bufs \in Nat /\ Sectors \in Nat
  BY <1>1, Sizes
<1>5. buf \in [1 .. Bufs -> Block] /\ media \in [0 .. Sectors - 1 -> Block]
  BY <1>1, <1>4 DEF Block, Origins
<1>6. Typed
  <2>1. <<>> \in Seq(Steps)
    OBVIOUS
  <2> QED BY <1>1, <1>2, <1>3, <1>5, <2>1 DEF Typed, TypeOK
<1>7. Placed
  <2>1. \A t \in Tasks : Held(t) = 0
    BY <1>1, TaskAssumption DEF Held
  <2> QED BY <1>2, <2>1 DEF Placed, OnCourse
<1>8. Mutex /\ Excluded
  BY <1>1, <1>2 DEF Mutex, Excluded, Alone, Serial
<1>9. Referring
  BY <1>2 DEF Referring
<1>10. Served
  BY <1>2, <1>3 DEF Served, InLoop
<1>12. Ending
  BY <1>2 DEF Ending
<1>13. FreedClean
  BY <1>1 DEF FreedClean
<1> QED BY <1>6, <1>7, <1>8, <1>9, <1>10, <1>12, <1>13 DEF IInv, Control

(* Every step of the adapter keeps the invariant. *)
LEMMA IInvStep == IInv /\ [Next]_vars => IInv'
<1> SUFFICES ASSUME IInv, [Next]_vars PROVE IInv'
  OBVIOUS
<1>1. CASE UNCHANGED vars
  <2>1. /\ geo' = geo /\ freed' = freed /\ owner' = owner /\ depth' = depth /\ refs' = refs
        /\ buf' = buf /\ media' = media /\ op' = op
        /\ todo' = todo /\ res' = res /\ io' = io
    BY <1>1 DEF vars
  <2>2. Typed'
    BY <2>1 DEF IInv, Typed, TypeOK, Bufs, Sectors
  <2>3. Placed'
    BY <2>1 DEF IInv, Control, Placed, OnCourse, GivingUp, Held
  <2>4. Mutex' /\ Excluded' /\ Referring'
    BY <2>1 DEF IInv, Control, Mutex, Excluded, Referring
  <2>5. \A t \in Tasks : Good(t) => Good(t)'
    BY <2>1 DEF Good, At, Chunk, Bufs, Sectors
  <2>6. Served'
    BY <2>1, <2>5 DEF IInv, Served, InLoop
  <2>7. Ending' /\ FreedClean'
    BY <2>1 DEF IInv, Ending, FreedClean
  <2> QED BY <2>2, <2>3, <2>4, <2>6, <2>7 DEF IInv, Control
<1>2. ASSUME NEW t \in Tasks, Begin(t) \/ Step(t) PROVE IInv'
  <2>1. Typed' /\ Control' /\ Served'
    BY <1>2, ServedStep DEF IInv
  <2>2. Ending' /\ FreedClean'
    BY <1>2, EndingStep, FreedStep DEF IInv
  <2> QED BY <2>1, <2>2 DEF IInv
<1> QED BY <1>1, <1>2 DEF Next

(* The mutex taken and given as each call says, requests served by one task
   at a time, and destroy after its look at the count: the invariant that the
   theorems below follow from. *)
THEOREM Inductive == Spec => []IInv
BY IInvInit, IInvStep, PTL DEF Spec

(* Type correctness of the adapter, whatever the card, the configuration and
   the calls. *)
THEOREM TypeCorrect == Spec => []TypeOK
<1>1. IInv => TypeOK
  BY DEF IInv, Typed
<1> QED BY <1>1, Inductive, PTL

(* destroy frees an adapter that nothing refers to, whose mutex is free and
   on which no call is being made: lwext4_port_sdmmc_destroy. *)
THEOREM FreedIsClean == Spec => []FreedClean
<1>1. IInv => FreedClean
  BY DEF IInv
<1> QED BY <1>1, Inductive, PTL

(* Blocks compare as their sizes in bytes do. *)
LEMMA Scaled ==
  ASSUME NEW a \in Nat, NEW b \in Nat, a <= b, NEW s \in Nat
  PROVE  a * s \in Nat /\ b * s \in Nat /\ a * s <= b * s /\ (a > 0 /\ s > 0 => a * s > 0)
<1>1. a * s \in Nat /\ b * s \in Nat /\ (b - a) * s \in Nat
  OBVIOUS
<1>2. b * s = a * s + (b - a) * s
  OBVIOUS
<1> QED BY <1>1, <1>2

(* As many blocks as fit into m bytes have at most m bytes. *)
LEMMA Whole ==
  ASSUME NEW n \in Nat, NEW b \in Nat \ {0}, NEW m \in Nat, n <= m \div b
  PROVE  n * b <= m
<1>1. m \div b \in Nat /\ m = b * (m \div b) + (m % b) /\ m % b \in Nat
  OBVIOUS
<1>2. n * b <= (m \div b) * b
  BY <1>1, Scaled
<1> QED BY <1>1, <1>2

(* Every read and write of the card that sdmmc_read and sdmmc_write make is for
   sectors of the card, narrowed to the right number, and fits into the buffer. *)
THEOREM SectorContractKept == Spec => []SectorContract
<1>1. IInv => SectorContract
  <2> SUFFICES ASSUME IInv, NEW t \in Tasks, NEW l \in {"read", "write"}, At(t, l)
               PROVE  /\ ChunkSectors(t) \subseteq DOMAIN media
                      /\ Sector(t) = io[t].from + io[t].pos
                      /\ Chunk(t) \in 1 .. Bufs /\ Bufs * geo.config.pbs <= SizeMax
    BY DEF SectorContract
  <2> DEFINE f == Sector(t)
             n == Chunk(t)
  <2>1. /\ f = io[t].from + io[t].pos /\ io[t].from \in Nat /\ io[t].pos \in Nat
        /\ io[t].cnt \in Nat
        /\ io[t].from + io[t].cnt <= Sectors /\ Sectors \in Nat /\ Bufs \in Nat
        /\ n \in 1 .. Bufs /\ io[t].pos + n <= io[t].cnt
    BY InRequest DEF IInv, LoopSteps
  <2>2. Bufs \in Nat \ {0} /\ geo.config.pbs \in Nat \ {0} /\ Bufs <= SizeMax \div geo.config.pbs
    BY Sizes DEF IInv, Typed
  <2>3. Bufs * geo.config.pbs <= SizeMax
    BY <2>2, Whole, SizeAssumption
  <2>4. ChunkSectors(t) = f .. f + n - 1 /\ DOMAIN media = 0 .. Sectors - 1
    BY DEF ChunkSectors, IInv, Typed
  <2> HIDE DEF f, n
  <2>5. f .. f + n - 1 \subseteq 0 .. Sectors - 1
    BY <2>1
  <2> QED BY <2>1, <2>3, <2>4, <2>5 DEF f, n
<1> QED BY <1>1, Inductive, PTL

-----------------------------------------------------------------------------
(* The adapter implements the block device. *)

(* What lwext4 sees of the requests, before and after a step. *)
LEMMA ServingIs ==
  /\ \A t \in Tasks : /\ serving[t].kind = (IF io[t].on THEN io[t].kind ELSE "none")
                      /\ serving[t].from = io[t].from /\ serving[t].data = io[t].data
                      /\ serving[t].ok = io[t].ok
  /\ \A t \in Tasks : /\ serving'[t].kind = (IF io'[t].on THEN io'[t].kind ELSE "none")
                      /\ serving'[t].from = io'[t].from /\ serving'[t].data = io'[t].data
                      /\ serving'[t].ok = io'[t].ok
  /\ \A t \in Tasks : io'[t] = io[t] => serving'[t] = serving[t]
BY DEF serving

(* A step that lwext4 sees nothing of *)
LEMMA Unseen ==
  ASSUME media' = media, io' = io PROVE UNCHANGED Device!vars
BY DEF Device!vars, serving

(* A request, or a call without one, is accepted. *)
LEMMA DeviceAccepts ==
  ASSUME NEW t \in Tasks, ~io[t].on, media' = media, io'[t].kind \in {"none", "read", "write"},
         \A u \in Tasks \ {t} : io'[u] = io[u]
  PROVE  Device!Next
<1>1. Device!Accept(t)
  BY ServingIs DEF Device!Accept, Device!Others
<1> QED BY <1>1 DEF Device!Next

(* A turn or an error of a request *)
LEMMA DeviceWorks ==
  ASSUME NEW t \in Tasks, io[t].on, io[t].kind \in {"read", "write"}, io'[t].from = io[t].from,
         io[t].kind = "write" => io'[t].data = io[t].data,
         io'[t].on => io'[t].kind = io[t].kind,
         DOMAIN media' = DOMAIN media,
         \A b \in DOMAIN media :
            \/ media'[b] = media[b]
            \/ /\ io[t].kind = "write" /\ b \in io[t].from .. io[t].from + Len(io[t].data) - 1
               /\ media'[b] = io[t].data[b - io[t].from + 1],
         \A u \in Tasks \ {t} : io'[u] = io[u],
         ~io'[t].on /\ io'[t].ok =>
            \A i \in 1 .. Len(io'[t].data) : media'[io'[t].from + i - 1] = io'[t].data[i]
  PROVE  Device!Next
<1>1. Device!Working(t)
  BY ServingIs DEF Device!Working, Device!Others
<1>2. CASE io'[t].on
  BY <1>1, <1>2, ServingIs DEF Device!Next, Device!Serve
<1>3. CASE ~io'[t].on
  <2>1. Device!Answer(t)
    BY <1>1, <1>3, ServingIs DEF Device!Answer
  <2> QED BY <2>1 DEF Device!Next
<1> QED BY <1>2, <1>3

(* What is stored is the request's data. *)
LEMMA StoredData ==
  ASSUME Typed, Control, Served, NEW t \in Tasks, At(t, "write"),
         NEW bs \in SUBSET ChunkSectors(t), Store(t, bs), UNCHANGED geo
  PROVE  /\ DOMAIN media' = DOMAIN media
         /\ \A b \in DOMAIN media :
               \/ media'[b] = media[b]
               \/ /\ b \in io[t].from .. io[t].from + Len(io[t].data) - 1
                  /\ media'[b] = io[t].data[b - io[t].from + 1]
<1>1. /\ Good(t) /\ io[t].pos \in Nat /\ io[t].cnt \in Nat /\ io[t].from \in Nat
      /\ Chunk(t) \in 1 .. Bufs /\ io[t].pos + Chunk(t) <= io[t].cnt /\ Bufs \in Nat
      /\ Sector(t) = io[t].from + io[t].pos
      /\ io[t].kind = "write"
  BY InRequest DEF LoopSteps
<1>2. /\ media' \in [0 .. Sectors - 1 -> Block] /\ media \in [0 .. Sectors - 1 -> Block]
      /\ \A b \in 0 .. Sectors - 1 : media'[b] = IF b \in bs THEN buf[b - Sector(t) + 1] ELSE media[b]
  BY Stored DEF Typed
<1>3. /\ Len(io[t].data) = io[t].cnt
      /\ \A i \in 1 .. Chunk(t) : buf[i] = io[t].data[io[t].pos + i]
  BY <1>1 DEF Good
<1>4. ASSUME NEW b \in bs
      PROVE  /\ b \in io[t].from .. io[t].from + Len(io[t].data) - 1
             /\ buf[b - Sector(t) + 1] = io[t].data[b - io[t].from + 1]
  <2> DEFINE i == b - Sector(t) + 1
  <2>1. b \in Sector(t) .. Sector(t) + Chunk(t) - 1
    BY DEF ChunkSectors
  <2>2. /\ i \in 1 .. Chunk(t) /\ b - io[t].from + 1 = io[t].pos + i
        /\ b \in io[t].from .. io[t].from + io[t].cnt - 1
    BY <1>1, <2>1
  <2> HIDE DEF i
  <2>3. buf[i] = io[t].data[b - io[t].from + 1]
    BY <1>3, <2>2
  <2> QED BY <1>3, <2>2, <2>3 DEF i
<1> QED BY <1>2, <1>4

(* A chunk that is written, wholly or in part, is a step of the device. *)
LEMMA DeviceWrites ==
  ASSUME Typed, Control, Served, Control', NEW t \in Tasks, WriteChunk(t)
  PROVE  Device!Next
<1>1. At(t, "write") /\ UNCHANGED <<geo, buf>>
  BY DEF WriteChunk
<1>2. io[t].on /\ io[t].kind = "write"
  BY <1>1, InRequest DEF LoopSteps
<1>3. CASE Store(t, ChunkSectors(t)) /\ NextTurn(t, "copyin")
  <2>1. /\ io'[t].from = io[t].from /\ io'[t].data = io[t].data /\ io'[t].kind = io[t].kind
        /\ Len(io'[t].data) = io[t].cnt
        /\ \A i \in 1 .. io'[t].pos : media'[io[t].from + i - 1] = io'[t].data[i]
        /\ (io'[t].ok => io'[t].pos = io[t].cnt)
        /\ \A u \in Tasks \ {t} : io'[u] = io[u]
    BY <1>1, <1>2, <1>3, WriteTurn DEF Turned
  <2>2. /\ DOMAIN media' = DOMAIN media
        /\ \A b \in DOMAIN media :
              \/ media'[b] = media[b]
              \/ /\ b \in io[t].from .. io[t].from + Len(io[t].data) - 1
                 /\ media'[b] = io[t].data[b - io[t].from + 1]
    BY <1>1, <1>3, StoredData
  <2> QED BY <1>2, <2>1, <2>2, DeviceWorks
<1>4. ASSUME NEW bs \in SUBSET ChunkSectors(t), Store(t, bs), BreakOff(t)
      PROVE  Device!Next
  <2>1. /\ ~io'[t].on /\ ~io'[t].ok /\ io'[t].from = io[t].from /\ io'[t].data = io[t].data
        /\ \A u \in Tasks \ {t} : io'[u] = io[u]
    BY <1>4, Stopped
  <2>2. /\ DOMAIN media' = DOMAIN media
        /\ \A b \in DOMAIN media :
              \/ media'[b] = media[b]
              \/ /\ b \in io[t].from .. io[t].from + Len(io[t].data) - 1
                 /\ media'[b] = io[t].data[b - io[t].from + 1]
    BY <1>1, <1>4, StoredData
  <2> QED BY <1>2, <2>1, <2>2, DeviceWorks
<1> QED BY <1>3, <1>4 DEF WriteChunk

(* A chunk that is read is none, and a read that fails is an answer. *)
LEMMA DeviceReads ==
  ASSUME Typed, Control, Served, Control', NEW t \in Tasks, ReadChunk(t)
  PROVE  Device!Next \/ UNCHANGED Device!vars
<1>1. At(t, "read") /\ media' = media
  BY DEF ReadChunk
<1>2. io[t].on /\ io[t].kind = "read"
  BY <1>1, InRequest DEF LoopSteps
<1>3. CASE io' = io
  BY <1>1, <1>3, Unseen
<1>4. CASE BreakOff(t)
  <2>1. /\ ~io'[t].on /\ ~io'[t].ok /\ io'[t].from = io[t].from /\ io'[t].data = io[t].data
        /\ \A u \in Tasks \ {t} : io'[u] = io[u]
    BY <1>4, Stopped
  <2> QED BY <1>1, <1>2, <2>1, DeviceWorks
<1> QED BY <1>3, <1>4 DEF ReadChunk

(* A chunk that is copied out is a step of the device. *)
LEMMA DeviceCopies ==
  ASSUME Typed, Control, Served, NEW t \in Tasks, CopyOut(t)
  PROVE  Device!Next
<1>1. At(t, "copyout") /\ media' = media
  BY DEF CopyOut, device
<1>2. io[t].on /\ io[t].kind = "read"
  BY <1>1, InRequest DEF LoopSteps
<1>3. /\ io'[t].from = io[t].from /\ io'[t].kind = io[t].kind
      /\ Len(io'[t].data) = io'[t].pos
      /\ \A i \in 1 .. io'[t].pos : media'[io[t].from + i - 1] = io'[t].data[i]
      /\ \A u \in Tasks \ {t} : io'[u] = io[u]
  BY <1>2, CopyOutTurn DEF Turned
<1> QED BY <1>1, <1>2, <1>3, DeviceWorks

(* Every step of the adapter is one of the device, or is not seen. *)
LEMMA DeviceStep ==
  ASSUME Typed, Control, Served, Typed', Control', NEW t \in Tasks, Begin(t) \/ Step(t)
  PROVE  Device!Next \/ UNCHANGED Device!vars
<1>1. CASE Begin(t)
  <2>1. ~io[t].on
    <3>1. todo[t] = <<>>
      BY <1>1, EmptyPlace DEF Begin, Control
    <3> QED BY <3>1 DEF Served, InLoop
  <2>2. /\ media' = media /\ io'[t].kind = "none" /\ \A u \in Tasks \ {t} : io'[u] = io[u]
    BY <1>1 DEF Begin, device, NoIo, Typed
  <2> QED BY <2>1, <2>2, DeviceAccepts
<1>2. CASE BeginIo(t)
  <2>1. ~io[t].on /\ media' = media
    BY <1>2 DEF BeginIo, device, Served, InLoop, At, LoopSteps
  <2>2. io'[t].kind \in {"none", "read", "write"} /\ \A u \in Tasks \ {t} : io'[u] = io[u]
    <3>1. io' \in [Tasks -> Requests]
      BY DEF Typed
    <3>2. io' = io \/ \E new : io' = [io EXCEPT ![t] = new]
      <4>1. PICK r \in Load.requests :
                CASE Refused(r) -> Fail(t) /\ UNCHANGED io
                  [] ~Refused(r) /\ r.cnt = 0 -> Go(t) /\ UNCHANGED io
                  [] OTHER ->
                       /\ First(t, <<IF r.kind = "read" THEN "read" ELSE "copyin">>)
                       /\ io' = [io EXCEPT ![t] = [on |-> TRUE, kind |-> r.kind, from |-> r.from,
                                    cnt |-> r.cnt, pos |-> 0, alias |-> r.alias,
                                    data |-> Data(r), ok |-> FALSE]]
        BY <1>2 DEF BeginIo
      <4>2. CASE Refused(r) \/ r.cnt = 0
        BY <4>1, <4>2
      <4>3. CASE ~Refused(r) /\ r.cnt # 0
        BY <4>1, <4>3
      <4> QED BY <4>2, <4>3
    <3> QED BY <3>1, <3>2 DEF Typed, Requests
  <2> QED BY <2>1, <2>2, DeviceAccepts
<1>4. CASE WriteChunk(t)
  BY <1>4, DeviceWrites
<1>5. CASE ReadChunk(t)
  BY <1>5, DeviceReads
<1>6. CASE CopyOut(t)
  BY <1>6, DeviceCopies
<1>7. CASE CopyIn(t)
  BY <1>7, Unseen DEF CopyIn
<1>8. CASE Return(t) \/ Lock(t) \/ Unlock(t) \/ Open(t) \/ Unref(t) \/ CheckFormat(t) \/ CheckParameters(t) \/ CheckRefs(t) \/ Free(t)
  <2>1. media' = media /\ io' = io
    BY <1>8 DEF Return, Lock, Unlock, Open, Unref, CheckFormat, CheckParameters, CheckRefs, Free, device
  <2> QED BY <2>1, Unseen
<1> QED BY <1>1, <1>2, <1>4, <1>5, <1>6, <1>7, <1>8 DEF Step

(* The chunked loops over one shared transfer buffer, under one mutex, with
   card operations that fail after any part, are a block device: an answer is
   what the blocks hold at the moment it is given, and nothing but a served
   write changes a block. *)
THEOREM DeviceImplemented == Spec => ImplementsDevice
<1>1. Init => Device!Init
  <2> SUFFICES ASSUME Init PROVE \A t \in Tasks : serving[t].kind = "none"
    BY DEF Device!Init
  <2>1. \A t \in Tasks : ~io[t].on
    BY DEF Init, NoIo
  <2> QED BY <2>1, ServingIs
<1>2. IInv /\ IInv' /\ [Next]_vars => [Device!Next]_(Device!vars)
  <2> SUFFICES ASSUME IInv, IInv', [Next]_vars PROVE Device!Next \/ UNCHANGED Device!vars
    OBVIOUS
  <2>1. CASE UNCHANGED vars
    BY <2>1, Unseen DEF vars
  <2>2. ASSUME NEW t \in Tasks, Begin(t) \/ Step(t) PROVE Device!Next \/ UNCHANGED Device!vars
    BY <2>2, DeviceStep DEF IInv
  <2> QED BY <2>1, <2>2 DEF Next
<1> QED BY <1>1, <1>2, Inductive, PTL DEF Spec, ImplementsDevice, Device!Spec
=============================================================================
