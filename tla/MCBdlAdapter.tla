----------------------------- MODULE MCBdlAdapter -----------------------------
(* Instances of BdlAdapter for TLC. *)
EXTENDS BdlAdapter, TLC

CONSTANTS t1, t2

TwoTasks == {t1, t2}
Symmetry == Permutations(TwoTasks)

(* A device of two blocks of two bytes, lazy or synced after every write *)
Device2 == [disk |-> 4, rs |-> 1, ws |-> 2, ro |-> FALSE, canWrite |-> TRUE, canSync |-> TRUE]
Lazy == [pbs |-> 2, tbb |-> 1, ro |-> FALSE, saw |-> FALSE, rewrite |-> TRUE]
Shared == [lower : {Device2}, config : {Lazy, [Lazy EXCEPT !.saw = TRUE]}, load : {"torn"}]

(* Devices and configurations of every kind *)
AnyDevice ==
    [lower : [disk : {0, 6, 8, 12}, rs : {0, 1, 2, 3}, ws : {0, 2, 4}, ro : BOOLEAN,
              canWrite : BOOLEAN, canSync : {TRUE}],
     config : [pbs : {2, 3, 4}, tbb : {0, 2, 3}, ro : BOOLEAN, saw : {FALSE}, rewrite : BOOLEAN],
     load : {"any"}]

SharedAndAny == Shared \cup AnyDevice

Req(k, f, n, a, g) == [kind |-> k, from |-> f, cnt |-> n, alias |-> a, tag |-> g]

(* Three calls with requests that need two turns or use the transfer buffer;
   and one with a request up to and past the end of the disk *)
TornOrAny ==
    [torn |-> [calls |-> 3, faults |-> 2,
               requests |-> {Req("write", 0, 2, FALSE, "a"), Req("write", 0, 1, FALSE, "b"),
                             Req("write", 1, 1, TRUE, "-"), Req("read", 0, 2, FALSE, "-")}],
     any |-> [calls |-> 1, faults |-> 0,
              requests |-> {Req(k, f, n, a, "a") : k \in {"read", "write"}, f \in 0 .. 6,
                                                  n \in 0 .. 6, a \in BOOLEAN}]]
=============================================================================
