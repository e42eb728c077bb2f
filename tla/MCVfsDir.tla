------------------------------- MODULE MCVfsDir -------------------------------
(* An instance of VfsDir for TLC: the constants are in MCVfsDir.cfg. *)
EXTENDS VfsDir
=============================================================================
