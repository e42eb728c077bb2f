------------------------------ MODULE MCVfsFile ------------------------------
(* Instances of VfsFile for TLC. *)
EXTENDS VfsFile

Mode(a, app, c, x, t) == [acc |-> a, append |-> app, creat |-> c, excl |-> x, trunc |-> t]

ReadWrite == Mode("rw", FALSE, FALSE, FALSE, FALSE)
ReadOnly == Mode("r", FALSE, FALSE, FALSE, FALSE)
Appending == Mode("w", TRUE, TRUE, FALSE, FALSE)
Truncating == Mode("rw", FALSE, TRUE, FALSE, TRUE)
Exclusive == Mode("w", FALSE, TRUE, TRUE, FALSE)

AllModes == {ReadWrite, ReadOnly, Appending, Truncating, Exclusive}

(* Two files, of one name each; two handles are open on the first. *)
Start(m) ==
    [name |-> [n \in Names |-> IF n = "a" THEN 1 ELSE None],
     content |-> [i \in Inodes |-> IF i = 1 THEN <<9, 9>> ELSE None],
     path |-> "a", modes |-> m]

Open2 == {Start([h \in Fds |-> IF h = 1 THEN m ELSE n]) : m \in {ReadWrite, Appending}, n \in {ReadWrite, ReadOnly}}
=============================================================================
