------------------------------- MODULE FileTree -------------------------------
(***************************************************************************)
(* Directory trees, and the operations on them that port/esp_lwext4.c      *)
(* takes from lwext4.  lwext4 is external: each operation is one journal   *)
(* transaction that happens or not, and is known from how it is used.      *)
(*                                                                         *)
(* A tree t is a record: t.kind[i] is "free", "dir" or "file", t.ent[d][n] *)
(* the inode that name n of directory d stands for, or None; t.mode[i],    *)
(* t.atime[i] and t.mtime[i] are an inode's attributes.  A path is a       *)
(* sequence of components below the mount point.                           *)
(***************************************************************************)
EXTENDS Integers, Sequences, SequencesExt

CONSTANTS Inodes, Root, Names, None

ASSUME TreeAssumption ==
    Root \in Inodes /\ None \notin Inodes /\ IsFiniteSet(Inodes) /\ IsFiniteSet(Names)

(* A directory's entries for itself and its parent, which are no names *)
Dot == "."
DotDot == ".."
ASSUME NameAssumption == Dot \notin Names /\ DotDot \notin Names

Path == Seq(Names \cup {Dot, DotDot})

(* The mode that ext4_dir_mk gives a directory, and the one that was asked for *)
Modes == {"default", "asked"}

TreeType ==
    [kind : [Inodes -> {"free", "dir", "file"}],
     ent : [Inodes -> [Names -> {None} \cup Inodes]],
     mode : [Inodes -> Modes], atime : [Inodes -> Int], mtime : [Inodes -> Int]]

IsDir(t, i) == i # None /\ t.kind[i] = "dir"
Dirs(t) == {i \in Inodes : IsDir(t, i)}

ParentOf(t, d) ==
    IF d = Root THEN Root ELSE CHOOSE p \in Inodes : \E n \in Names : t.ent[p][n] = d

Entry(t, d, n) ==
    CASE ~IsDir(t, d) -> None
      [] IsDir(t, d) /\ n = Dot -> d
      [] IsDir(t, d) /\ n = DotDot -> ParentOf(t, d)
      [] OTHER -> t.ent[d][n]

(* Where path leads, component by component *)
Trail(t, path) ==
    LET at[k \in 0 .. Len(path)] == IF k = 0 THEN Root ELSE Entry(t, at[k - 1], path[k])
    IN  at

Walk(t, path) == Trail(t, path)[Len(path)]

(* The directory that holds, or would hold, the last component of path *)
DirOf(t, path) == IF path = <<>> THEN None ELSE Walk(t, Front(path))

(* Directory i and all directories above it: those in every set that has i, and
   the parent of each of its directories *)
Above(t, i) ==
    {j \in Dirs(t) : \A S \in SUBSET Dirs(t) :
        i \in S /\ (\A k \in S : ParentOf(t, k) \in S) => j \in S}

Links(t, i) == {l \in Inodes \X Names : t.ent[l[1]][l[2]] = i}
IsEmpty(t, d) == \A n \in Names : t.ent[d][n] = None

(* Directory d and what is below it: the files with no link elsewhere *)
Subtree(t, d) ==
    LET dirs == {i \in Dirs(t) : d \in Above(t, i)}
    IN  dirs \cup {i \in Inodes : t.kind[i] = "file" /\ \A l \in Links(t, i) : l[1] \in dirs}

(* t with inodes is freed, with their entries and those that refer to them *)
Free(t, is) ==
    [t EXCEPT !.kind = [i \in Inodes |-> IF i \in is THEN "free" ELSE @[i]],
              !.ent = [d \in Inodes |-> [n \in Names |->
                         IF d \in is \/ @[d][n] \in is THEN None ELSE @[d][n]]]]

SetEntry(t, d, n, i) == [t EXCEPT !.ent[d][n] = i]

Refuse(t, e) == [err |-> e, tree |-> t]
Accept(t) == [err |-> "ok", tree |-> t]

(* ext4_frename: one transaction, never replaces *)
Frename(t, a, b) ==
    LET s == Walk(t, a)
        q == DirOf(t, b)
    IN  CASE s = None \/ ~IsDir(t, q) -> Refuse(t, "ENOENT")
          [] s # None /\ IsDir(t, q) /\ Walk(t, b) # None -> Refuse(t, "EEXIST")
          [] s # None /\ IsDir(t, q) /\ Walk(t, b) = None /\ s \in Above(t, q) -> Refuse(t, "EINVAL")
          [] OTHER -> Accept(SetEntry(SetEntry(t, DirOf(t, a), Last(a), None), q, Last(b), s))

(* ext4_fremove: the inode is freed with its last link *)
Fremove(t, a) ==
    LET i == Walk(t, a) IN
    CASE i = None -> Refuse(t, "ENOENT")
      [] IsDir(t, i) -> Refuse(t, "EISDIR")
      [] OTHER -> Accept(IF Cardinality(Links(t, i)) = 1 THEN Free(t, {i})
                         ELSE SetEntry(t, DirOf(t, a), Last(a), None))

(* ext4_dir_rm removes a directory with everything in it. *)
DirRm(t, a) ==
    IF IsDir(t, Walk(t, a)) THEN Accept(Free(t, Subtree(t, Walk(t, a)))) ELSE Refuse(t, "ENOENT")

Make(t, a, kind) ==
    LET q == DirOf(t, a)
        i == CHOOSE j \in Inodes : t.kind[j] = "free"
    IN  CASE ~IsDir(t, q) -> Refuse(t, "ENOENT")
          [] IsDir(t, q) /\ \A j \in Inodes : t.kind[j] # "free" -> Refuse(t, "ENOSPC")
          [] OTHER -> Accept([SetEntry(t, q, Last(a), i) EXCEPT
                                !.kind[i] = kind, !.mode[i] = "default",
                                !.atime[i] = 0, !.mtime[i] = 0])

(* ext4_dir_mk of a name that does not exist *)
DirMk(t, a) == Make(t, a, "dir")

(* ext4_flink *)
Flink(t, a, b) ==
    LET i == Walk(t, a)
        q == DirOf(t, b)
    IN  CASE i = None \/ ~IsDir(t, q) -> Refuse(t, "ENOENT")
          [] i # None /\ IsDir(t, q) /\ IsDir(t, i) -> Refuse(t, "EINVAL")
          [] i # None /\ IsDir(t, q) /\ ~IsDir(t, i) /\ Walk(t, b) # None -> Refuse(t, "EEXIST")
          [] OTHER -> Accept(SetEntry(t, q, Last(b), i))

(* ext4_mode_set, ext4_atime_set, ext4_mtime_set *)
SetAttribute(t, a, field, value) ==
    LET i == Walk(t, a) IN
    IF i = None THEN Refuse(t, "ENOENT")
    ELSE Accept(CASE field = "mode" -> [t EXCEPT !.mode[i] = value]
                  [] field = "atime" -> [t EXCEPT !.atime[i] = value]
                  [] field = "mtime" -> [t EXCEPT !.mtime[i] = value])

EmptyTree ==
    [kind |-> [i \in Inodes |-> IF i = Root THEN "dir" ELSE "free"],
     ent |-> [d \in Inodes |-> [n \in Names |-> None]],
     mode |-> [i \in Inodes |-> "default"],
     atime |-> [i \in Inodes |-> 0],
     mtime |-> [i \in Inodes |-> 0]]

(* Every inode in use is reached from the root, and every directory by one
   name. *)
WellFormed(t) ==
    /\ IsDir(t, Root)
    /\ \A d \in Inodes, n \in Names :
          t.ent[d][n] # None => IsDir(t, d) /\ t.kind[t.ent[d][n]] # "free" /\ t.ent[d][n] # Root
    /\ \A i \in Inodes \ {Root} :
          /\ t.kind[i] # "free" => Links(t, i) # {}
          /\ t.kind[i] = "dir" => Cardinality(Links(t, i)) = 1 /\ Root \in Above(t, i)
=============================================================================
