---------------------------- MODULE MCSdmmcAdapter ----------------------------
(* Instances of SdmmcAdapter for TLC. *)
EXTENDS SdmmcAdapter

CONSTANTS t1, t2

TwoTasks == {t1, t2}

(* A card of three sectors of two bytes; a buffer of one and of two *)
Shared == [card : {[capacity |-> 3, size |-> 2]}, config : [pbs : {2}, tbb : {1, 2}],
           load : {"torn"}]

(* Cards and configurations of every kind *)
AnyCard == [card : [capacity : 0 .. 4, size : 0 .. 4], config : [pbs : 1 .. 4, tbb : 0 .. 3],
            load : {"any"}]

SharedAndAny == Shared \cup AnyCard

Req(k, f, n, a, g) == [kind |-> k, from |-> f, cnt |-> n, alias |-> a, tag |-> g]

(* Three calls with requests that need two turns or use the transfer buffer;
   and one with a request up to and past the end of the card *)
TornOrAny ==
    [torn |-> [calls |-> 3, faults |-> 1,
               requests |-> {Req("write", 0, 3, FALSE, "a"), Req("write", 1, 2, TRUE, "-"),
                             Req("read", 0, 3, FALSE, "-")}],
     any |-> [calls |-> 1, faults |-> 0,
              requests |-> {Req(k, f, n, a, "a") : k \in {"read", "write"}, f \in 0 .. 5,
                                                  n \in 0 .. 5, a \in BOOLEAN}]]
=============================================================================
