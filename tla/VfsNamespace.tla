----------------------------- MODULE VfsNamespace -----------------------------
(***************************************************************************)
(* The path operations of port/esp_lwext4.c that change the directory      *)
(* tree: rename, link, unlink, mkdir, rmdir and utime, each as the         *)
(* sequence of lwext4 operations that it is made of (FileTree).            *)
(*                                                                         *)
(* A call runs under the context's lock (VfsMount), so one runs at a time. *)
(* Every lwext4 operation is a transaction of its own and may fail; the    *)
(* power may go off between any two, so what is said of every state of a   *)
(* call is said of what a power loss leaves.                               *)
(***************************************************************************)
EXTENDS FileTree

CONSTANTS Trees,        \* trees that may be mounted
          Calls,        \* calls: records [call, a, b, val], where b is the second
                        \* path and val the mode or the times
          TimeMax,      \* UINT32_MAX
          MaxCalls,     \* bound: calls made
          MaxFaults,    \* bound: lwext4 operations that fail
          ScanFaults    \* TRUE: reading a directory may fail as well

(* Where each call begins, once its arguments are checked *)
FirstStep ==
    [rename |-> "rename", link |-> "link", unlink |-> "exist", mkdir |-> "exist",
     rmdir |-> "scan", utime |-> "atime"]

ASSUME TimeAssumption == TimeMax \in Nat
ASSUME BoundAssumption == MaxCalls \in Nat /\ MaxFaults \in Nat
ASSUME MountAssumption ==
    \A t \in Trees : t \in TreeType /\ WellFormed(t)
                    /\ \A i \in Inodes : {t.atime[i], t.mtime[i]} \subseteq 0 .. TimeMax
ASSUME CallAssumption ==
    \A c \in Calls : /\ c.call \in DOMAIN FirstStep /\ c.a \in Path /\ c.b \in Path
                     /\ c.call = "mkdir" => c.val \in Modes
                     /\ c.call = "utime" => c.val \in Nat

VARIABLES tree,
          readOnly,     \* the context's flag
          op,           \* the call and the step it is at: [call, a, b, val, at, res, hit],
                        \* where hit says that an operation of it has failed
          before,       \* the tree at its beginning
          calls, faults

vars == <<tree, readOnly, op, before, calls, faults>>

NoCall == [call |-> "none", a |-> <<>>, b |-> <<>>, val |-> None, at |-> "idle",
           res |-> "ok", hit |-> FALSE]

Init ==
    /\ tree \in Trees /\ readOnly \in BOOLEAN
    /\ op = NoCall /\ before = tree
    /\ calls = 0 /\ faults = 0

-----------------------------------------------------------------------------
(* Paths. *)

HasDotComponent(path) == \E i \in DOMAIN path : path[i] \in {Dot, DotDot}

(* Mutant of Deeper: ".." counted like a name. *)
DeeperNoUp(depth, n) == IF n = Dot THEN depth ELSE depth + 1
Deeper(depth, n) ==
    CASE n = Dot -> depth
      [] n = DotDot -> IF depth = 0 THEN 0 ELSE depth - 1
      [] OTHER -> depth + 1
PathDepths(path) ==
    LET depth[k \in 0 .. Len(path)] == IF k = 0 THEN 0 ELSE Deeper(depth[k - 1], path[k])
    IN  depth
PathIsMountRoot(path) == PathDepths(path)[Len(path)] = 0

(* What ext4_frename makes of a source that ends in a dot component, and is
   not the root, is not modelled. *)
ModelledCalls == {c \in Calls : c.call = "rename" => PathIsMountRoot(c.a) \/ Last(c.a) \in Names}

StrictDescendant(parent, child) == IsStrictPrefix(parent, child)

-----------------------------------------------------------------------------
(* Control. *)

At(l) == op.at = l
Done(e) == op' = [op EXCEPT !.at = "done", !.res = e]
Goto(l) == op' = [op EXCEPT !.at = l]

(* The call ends with the outcome r of an lwext4 operation, or goes on at l. *)
Then(r, l) ==
    /\ tree' = r.tree
    /\ IF r.err = "ok" THEN Goto(l) ELSE Done(r.err)
Ends(r) == tree' = r.tree /\ Done(r.err)

Quiet == UNCHANGED <<readOnly, before, calls, faults>>

Permitted(c) == ~readOnly

(* lwext4's times are uint32_t.  Mutant of TooLate: any time is passed on. *)
TooLateNever(c) == FALSE
TooLate(c) == c.call = "utime" /\ c.val > TimeMax

Begin ==
    /\ At("idle") /\ calls < MaxCalls
    /\ \E c \in ModelledCalls :
          LET busy == \/ c.call = "rename" /\ (PathIsMountRoot(c.a) \/ PathIsMountRoot(c.b))
                      \/ c.call = "rmdir" /\ PathIsMountRoot(c.a)
              refused == CASE ~Permitted(c) -> "EROFS"
                           [] Permitted(c) /\ busy -> "EBUSY"
                           [] Permitted(c) /\ TooLate(c) -> "EOVERFLOW"
                           [] OTHER -> "ok"
          IN  op' = [call |-> c.call, a |-> c.a, b |-> c.b, val |-> c.val, hit |-> FALSE,
                     at |-> IF refused = "ok" THEN FirstStep[c.call] ELSE "done",
                     res |-> refused]
    /\ before' = tree
    /\ calls' = calls + 1
    /\ UNCHANGED <<tree, readOnly, faults>>

Return ==
    /\ At("done")
    /\ op' = NoCall /\ before' = tree
    /\ UNCHANGED <<tree, readOnly, calls, faults>>

-----------------------------------------------------------------------------
(* rename_locked *)

Rename ==
    /\ At("rename")
    /\ LET r == Frename(tree, op.a, op.b)
       IN  IF r.err = "EEXIST" THEN Goto("compare") /\ UNCHANGED tree ELSE Ends(r)
    /\ Quiet

(* Mutant of Unreplaceable: no look at the ancestry of the two paths. *)
UnreplaceableAnywhere(s) == FALSE
Unreplaceable(s) ==
    IsDir(tree, s) /\ (HasDotComponent(op.a) \/ HasDotComponent(op.b) \/ StrictDescendant(op.a, op.b))

(* Mutant of SameFile: the two names are compared, not their inodes. *)
SameName(s, d) == op.a = op.b
SameFile(s, d) == s = d

(* path_info_locked of both, and what is decided from it *)
Compare ==
    /\ At("compare")
    /\ LET s == Walk(tree, op.a)
           d == Walk(tree, op.b)
       IN  CASE SameFile(s, d) -> Done("ok")
             [] ~SameFile(s, d) /\ IsDir(tree, s) # IsDir(tree, d) ->
                   Done(IF IsDir(tree, s) THEN "ENOTDIR" ELSE "EISDIR")
             [] ~SameFile(s, d) /\ IsDir(tree, s) = IsDir(tree, d) /\ Unreplaceable(s) -> Done("EINVAL")
             [] OTHER -> Goto(IF IsDir(tree, d) THEN "scan" ELSE "remove")
    /\ UNCHANGED tree /\ Quiet

Target == IF op.call = "rename" THEN op.b ELSE op.a

(* directory_is_empty_locked, for rename and rmdir.  ext4_dir_entry_next has
   no way to report that it could not read: it returns no entry. *)
Scan ==
    /\ At("scan")
    /\ LET d == Walk(tree, Target)
       IN  \/ /\ op' = [op EXCEPT !.at = IF ~IsDir(tree, d) \/ ~IsEmpty(tree, d) THEN "done" ELSE "remove",
                                  !.res = CASE ~IsDir(tree, d) -> "ENOENT"
                                            [] IsDir(tree, d) /\ ~IsEmpty(tree, d) -> "ENOTEMPTY"
                                            [] OTHER -> "ok"]
              /\ UNCHANGED faults
           \/ /\ ScanFaults /\ faults < MaxFaults /\ IsDir(tree, d)
              /\ Goto("remove")
              /\ faults' = faults + 1
    /\ UNCHANGED <<tree, readOnly, before, calls>>

RemoveTarget ==
    /\ At("remove")
    /\ LET r == IF IsDir(tree, Walk(tree, Target)) /\ op.call # "unlink" THEN DirRm(tree, Target)
                ELSE Fremove(tree, Target)
       IN  IF op.call = "rename" THEN Then(r, "again") ELSE Ends(r)
    /\ Quiet

RenameAgain ==
    /\ At("again")
    /\ Ends(Frename(tree, op.a, op.b))
    /\ Quiet

-----------------------------------------------------------------------------
(* The other calls. *)

Link ==
    /\ At("link")
    /\ Ends(Flink(tree, op.a, op.b))
    /\ Quiet

(* ext4_inode_exist, of a directory for unlink *)
Exist ==
    /\ At("exist")
    /\ LET i == Walk(tree, op.a)
       IN  CASE op.call = "unlink" -> IF IsDir(tree, i) THEN Done("EISDIR") ELSE Goto("remove")
             [] op.call = "mkdir" -> IF i # None THEN Done("EEXIST") ELSE Goto("make")
    /\ UNCHANGED tree /\ Quiet

MakeDir ==
    /\ At("make")
    /\ Then(DirMk(tree, op.a), "mode")
    /\ Quiet

ModeSet ==
    /\ At("mode")
    /\ Ends(SetAttribute(tree, op.a, "mode", op.val))
    /\ Quiet

AtimeSet ==
    /\ At("atime")
    /\ Then(SetAttribute(tree, op.a, "atime", op.val), "mtime")
    /\ Quiet

MtimeSet ==
    /\ At("mtime")
    /\ Ends(SetAttribute(tree, op.a, "mtime", op.val))
    /\ Quiet

(* An lwext4 operation fails and its transaction is undone.  unlink takes a
   failure to look for a directory for the answer that there is none. *)
OperationFails ==
    /\ ~At("idle") /\ ~At("done") /\ faults < MaxFaults
    /\ faults' = faults + 1
    /\ op' = IF op.call = "unlink" /\ At("exist") THEN [op EXCEPT !.at = "remove", !.hit = TRUE]
             ELSE [op EXCEPT !.at = "done", !.res = "EIO", !.hit = TRUE]
    /\ UNCHANGED <<tree, readOnly, before, calls>>

Next ==
    \/ Begin \/ Return \/ Rename \/ Compare \/ Scan \/ RemoveTarget \/ RenameAgain
    \/ Link \/ Exist \/ MakeDir \/ ModeSet \/ AtimeSet \/ MtimeSet \/ OperationFails

Spec == Init /\ [][Next]_vars

-----------------------------------------------------------------------------
(* What POSIX says of the calls, from the tree before. *)

From == Walk(before, op.a)
To == Walk(before, op.b)

May ==
    CASE op.call = "rename" ->
            /\ From \notin {None, Root} /\ To # Root /\ IsDir(before, DirOf(before, op.b))
            /\ To # From => /\ From \notin Above(before, DirOf(before, op.b))
                            /\ To # None => /\ IsDir(before, From) = IsDir(before, To)
                                            /\ IsDir(before, To) => IsEmpty(before, To)
      [] op.call = "link" -> /\ From # None /\ ~IsDir(before, From)
                             /\ To = None /\ IsDir(before, DirOf(before, op.b))
      [] op.call = "unlink" -> From # None /\ ~IsDir(before, From)
      [] op.call = "rmdir" -> IsDir(before, From) /\ IsEmpty(before, From) /\ From # Root
      [] op.call = "mkdir" -> /\ From = None /\ IsDir(before, DirOf(before, op.a))
                              /\ \E i \in Inodes : before.kind[i] = "free"
      [] op.call = "utime" -> From # None /\ op.val <= TimeMax

(* The name that path stands for is gone from the tree before, and with its
   last link the inode. *)
Unnamed(path) ==
    LET i == Walk(before, path)
    IN  IF Cardinality(Links(before, i)) = 1 THEN Free(before, {i})
        ELSE SetEntry(before, DirOf(before, path), Last(path), None)

Effect ==
    CASE op.call = "rename" ->
            IF From = To THEN before
            ELSE LET cleared == IF To = None THEN before ELSE Unnamed(op.b)
                     moved == SetEntry(cleared, DirOf(before, op.b), Last(op.b), From)
                 IN  SetEntry(moved, DirOf(before, op.a), Last(op.a), None)
      [] op.call = "link" -> SetEntry(before, DirOf(before, op.b), Last(op.b), From)
      [] op.call \in {"unlink", "rmdir"} -> Unnamed(op.a)
      [] op.call = "mkdir" -> SetAttribute(DirMk(before, op.a).tree, op.a, "mode", op.val).tree
      [] op.call = "utime" -> [before EXCEPT !.atime[From] = op.val, !.mtime[From] = op.val]

(* What a call may leave that was cut short *)
HalfDone ==
    {before} \cup
    CASE op.call = "rename" /\ May /\ To # None -> {Unnamed(op.b)}
      [] op.call = "mkdir" /\ May -> {DirMk(before, op.a).tree}
      [] op.call = "utime" /\ May -> {[before EXCEPT !.atime[From] = op.val]}
      [] OTHER -> {}

-----------------------------------------------------------------------------
(* Type invariant; the tree is well formed at every step, and times fit. *)
TypeOK ==
    /\ WellFormed(tree)
    /\ \A i \in Inodes : {tree.atime[i], tree.mtime[i]} \subseteq 0 .. TimeMax
    /\ readOnly \in BOOLEAN /\ faults \in 0 .. MaxFaults /\ calls \in 0 .. MaxCalls
    /\ op.at \in {"idle", "done", "rename", "compare", "scan", "remove", "again", "link",
                  "exist", "make", "mode", "atime", "mtime"}

(* A call that reports success did exactly what POSIX says, and the calls
   refuse, without an I/O error, only what POSIX refuses: rename's emulation
   of replacement included, for files with several links, for the same file
   under two names, and for directories above each other.  (Directories are
   not replaced under paths with dots.) *)
PosixOutcome ==
    At("done") /\ op.res # "EROFS" =>
        /\ op.res = "ok" => May /\ tree = Effect
        /\ op.res # "ok" /\ ~op.hit /\ ~HasDotComponent(op.a) /\ ~HasDotComponent(op.b) =>
              ~May /\ tree = before

(* At every step, after every failure and at every power loss the tree is the
   old one, the finished one, or the one that is half done: only a rename
   whose target POSIX would replace loses that target, and never the source
   (comment at esp_lwext4.c:912). *)
OnlyHalfDone ==
    /\ ~At("idle") => tree \in HalfDone \cup IF May THEN {Effect} ELSE {}
    /\ At("done") /\ op.res # "ok" => tree \in HalfDone

(* The lexical test of path_is_mount_root agrees with where the path leads:
   rename and rmdir refuse the root, by whatever path, and nothing else, as
   busy. *)
RootIsBusy ==
    At("done") /\ op.res # "EROFS" =>
        /\ (op.call = "rmdir" /\ From = Root) => op.res = "EBUSY"
        /\ (op.call = "rename" /\ From = Root) => op.res = "EBUSY"
        /\ (op.call = "rename" /\ To = Root) => op.res = "EBUSY"
        /\ op.res = "EBUSY" => \/ From \in {None, Root}
                               \/ op.call = "rename" /\ To \in {None, Root}

(* "POSIX rmdir() remains non-recursive" (README.md), and so does the removal
   of rename's target: a step frees at most one inode. *)
NotRecursive ==
    [][ op.call \in {"rmdir", "rename"} =>
           Cardinality({i \in Inodes : tree.kind[i] # "free" /\ tree'.kind[i] = "free"}) <= 1 ]_vars
=============================================================================
