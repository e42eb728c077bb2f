------------------------------ MODULE MCVfsMount ------------------------------
(* Instances of VfsMount for TLC. *)
EXTENDS VfsMount, TLC

(* One prefix and mount point; and a prefix below it that competes for the same
   mount point. *)
OneConf == {[base |-> 1, mount |-> "m1"]}
ClashingConfs == OneConf \cup {[base |-> 2, mount |-> "m1"]}

Symmetry == Permutations(Tasks) \cup Permutations(Ctxs)
===============================================================================
