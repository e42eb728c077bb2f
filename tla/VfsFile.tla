------------------------------- MODULE VfsFile -------------------------------
(***************************************************************************)
(* The file calls of port/esp_lwext4.c: open, close, read, write, lseek,   *)
(* pread, pwrite, ftruncate and truncate, on several handles of a file,    *)
(* while files are renamed.                                                *)
(*                                                                         *)
(* Calls run under the context's lock (VfsMount), so one runs at a time;   *)
(* its steps are the lwext4 operations it makes, each of which may fail.   *)
(* lwext4 is external.  Its ext4_file keeps the offset and a copy of the   *)
(* file's size, which reading, writing and truncating renew, and opens,    *)
(* seeks and tells do not; it cannot seek beyond that size, and truncation *)
(* only shrinks.                                                           *)
(***************************************************************************)
EXTENDS Integers, Sequences

CONSTANTS Fds,        \* slots of the file table
          Tmp,        \* the handle of truncate, not in the table
          Inodes, Names, None,
          Modes,      \* ways to open: [acc, append, creat, excl, trunc], acc "r", "w", "rw"
          Mounted,    \* initial states: [name, content, modes], modes[h] of the handles
                      \* that are open on the first name, or None
          Sizes,      \* byte counts passed to read, write, pread and pwrite
          Offsets,    \* offsets and lengths passed in
          GrowBuffer, \* grow_buffer_size
          MaxCalls,   \* bound: calls made
          MaxFaults   \* bound: lwext4 operations that fail

ASSUME FdAssumption == Fds \subseteq Nat /\ Tmp \notin Fds /\ None \notin Fds /\ None \notin Inodes /\ None \notin Names
ASSUME SizeAssumption == GrowBuffer \in Nat \ {0} /\ Sizes \subseteq Nat /\ Offsets \subseteq Nat
ASSUME ModeAssumption ==
    Modes \subseteq [acc : {"r", "w", "rw"}, append : BOOLEAN, creat : BOOLEAN, excl : BOOLEAN,
                    trunc : BOOLEAN]
ASSUME MountAssumption ==
    \A s \in Mounted :
       /\ s.name \in [Names -> {None} \cup Inodes] /\ s.content \in [Inodes -> {None} \cup Seq(Int)]
       /\ \A n \in Names : s.name[n] # None => s.content[s.name[n]] \in Seq(Int)
       /\ s.path \in Names /\ s.name[s.path] # None /\ s.modes \in [Fds -> {None} \cup Modes]

Handles == Fds \cup {Tmp}

VARIABLES name,     \* name[n]: the inode that n stands for, or None
          content,  \* content[i]: the bytes of file i, or None
          file,     \* file[h]: None or [ino, path, acc, append, fsize, fpos]
          op,       \* the call: [call, h, n, off, at, orig, cur, goal, res, data, hit]
          before,   \* [content, file] at its beginning
          calls, faults

vars == <<name, content, file, op, before, calls, faults>>

NoCall == [call |-> "none", h |-> None, n |-> 0, off |-> 0, at |-> "idle", orig |-> 0,
           cur |-> 0, goal |-> 0, res |-> "ok", data |-> <<>>, hit |-> FALSE]

Opened(i, n, m, size) ==
    [ino |-> i, path |-> n, acc |-> m.acc, append |-> m.append, fsize |-> size,
     fpos |-> IF m.append THEN size ELSE 0]

Init ==
    /\ \E s \in Mounted :
          /\ name = s.name /\ content = s.content
          /\ file = [h \in Handles |->
                       IF h = Tmp \/ s.modes[h] = None THEN None
                       ELSE Opened(s.name[s.path], s.path, s.modes[h], Len(s.content[s.name[s.path]]))]
    /\ op = NoCall
    /\ before = [content |-> content, file |-> file]
    /\ calls = 0 /\ faults = 0

-----------------------------------------------------------------------------
(* Bytes. *)

Junk == -1  \* a byte that nobody wrote there

Garbage == [i \in 1 .. op.n |-> Junk]

Least(a, b) == IF a < b THEN a ELSE b

Zeros(n) == [i \in 1 .. n |-> 0]

(* Bytes b with d written at position pos, after a gap that reads as gap *)
Overlay(b, pos, d, gap) ==
    [i \in 1 .. IF Len(b) > pos + Len(d) THEN Len(b) ELSE pos + Len(d) |->
        IF i > pos /\ i <= pos + Len(d) THEN d[i - pos] ELSE IF i <= Len(b) THEN b[i] ELSE gap]

Bytes(b, pos, n) == SubSeq(b, pos + 1, Least(pos + n, Len(b)))

(* The call that is made as the k-th writes k's. *)
Data == [i \in 1 .. op.n |-> calls]

-----------------------------------------------------------------------------
(* Control. *)

At(l) == op.at = l
F == file[op.h]
Size == Len(content[F.ino])

Goto(l) == op' = [op EXCEPT !.at = l]
Done(e) == op' = [op EXCEPT !.at = "done", !.res = e]

Begin(o) ==
    /\ At("idle") /\ calls < MaxCalls
    /\ op' = o /\ before' = [content |-> content, file |-> file]
    /\ calls' = calls + 1
    /\ UNCHANGED <<name, content, file, faults>>

Call(c, h, n, off, l) ==
    [NoCall EXCEPT !.call = c, !.h = h, !.n = n, !.off = off, !.at = l, !.goal = off]

Answer(o, e) == [o EXCEPT !.at = "done", !.res = e]

Return ==
    /\ At("done")
    /\ op' = NoCall
    /\ UNCHANGED <<name, content, file, before, calls, faults>>

Quiet == UNCHANGED <<name, before, calls, faults>>

(* A failure of an lwext4 operation is left to the scheduler of faults. *)
Fault == faults < MaxFaults /\ faults' = faults + 1 /\ UNCHANGED <<name, before, calls>>

-----------------------------------------------------------------------------
(* The calls up to their first lwext4 operation. *)

Readable(h) == file[h].acc # "w"
Writable(h) == file[h].acc # "r"

BeginWrite ==
    \E h \in Fds, n \in Sizes :
        LET o == Call("write", h, n, 0, IF file[h].append THEN "append" ELSE "put")
        IN  file[h] # None /\ Begin(IF Writable(h) THEN o ELSE Answer(o, "EBADF"))

BeginRead ==
    \E h \in Fds, n \in Sizes :
        LET o == Call("read", h, n, 0, "get")
        IN  file[h] # None /\ Begin(IF Readable(h) THEN o ELSE Answer(o, "EBADF"))

(* positioned_io *)
BeginPositioned ==
    \E h \in Fds, n \in Sizes, off \in Offsets, c \in {"pread", "pwrite"} :
        /\ file[h] # None
        /\ LET o == [Call(c, h, n, off, IF n = 0 THEN "restore" ELSE "size")
                       EXCEPT !.orig = file[h].fpos]
           IN  Begin(IF (c = "pread" /\ Readable(h)) \/ (c = "pwrite" /\ Writable(h)) THEN o
                     ELSE Answer(o, "EBADF"))

BeginFtruncate ==
    \E h \in Fds, len \in Offsets :
        LET o == Call("ftruncate", h, 0, len, "resize")
        IN  file[h] # None /\ Begin(IF Writable(h) THEN o ELSE Answer(o, "EBADF"))

(* ext4_fseek of file f *)
Seekable(f, pos) == pos >= 0 /\ pos <= f.fsize

(* seek_locked: off counts forward, or back from the end *)
Lseek ==
    \E h \in Fds, off \in Offsets, w \in {"set", "cur", "end"} :
        /\ file[h] # None /\ At("idle") /\ calls < MaxCalls
        /\ LET f == file[h]
               pos == CASE w = "set" -> off [] w = "cur" -> f.fpos + off [] w = "end" -> f.fsize - off
           IN  /\ op' = Answer(Call("lseek", h, pos, off, "done"), IF Seekable(f, pos) THEN "ok" ELSE "EINVAL")
               /\ file' = IF Seekable(f, pos) THEN [file EXCEPT ![h].fpos = pos] ELSE file
        /\ before' = [content |-> content, file |-> file]
        /\ calls' = calls + 1
        /\ UNCHANGED <<name, content, faults>>

-----------------------------------------------------------------------------
(* open, close and truncate by path; a call at "enter" looks for its file.  *)

FreeFd == {h \in Fds : file[h] = None}

(* A file of this name, made or found and truncated by ext4_fopen2 *)
Fopen(h, n, m) ==
    LET found == name[n] # None
        i == IF found THEN name[n] ELSE CHOOSE j \in Inodes : content[j] = None
        bytes == IF found /\ ~m.trunc THEN content[i] ELSE <<>>
    IN  /\ found \/ (m.creat /\ \E j \in Inodes : content[j] = None)
        /\ name' = [name EXCEPT ![n] = i]
        /\ content' = [content EXCEPT ![i] = bytes]
        /\ file' = [file EXCEPT ![h] = Opened(i, n, m, Len(bytes))]

(* The lowest free slot is taken. *)
Open ==
    /\ At("idle") /\ calls < MaxCalls /\ FreeFd # {}
    /\ \E n \in Names, m \in Modes :
          LET h == CHOOSE k \in FreeFd : \A j \in FreeFd : k <= j
          IN  /\ m.creat /\ m.excl => name[n] = None
              /\ Fopen(h, n, m)
              /\ op' = Answer(Call("open", h, 0, 0, "done"), "ok")
              /\ before' = [content |-> content', file |-> file']
    /\ calls' = calls + 1
    /\ UNCHANGED faults

Close ==
    /\ At("idle")
    /\ \E h \in Fds : file[h] # None /\ file' = [file EXCEPT ![h] = None]
    /\ UNCHANGED <<name, content, op, before, calls, faults>>

TruncateMode == [acc |-> "rw", append |-> FALSE, creat |-> FALSE, excl |-> FALSE, trunc |-> FALSE]

Truncate ==
    /\ At("idle") /\ calls < MaxCalls
    /\ \E n \in Names, len \in Offsets :
          /\ Fopen(Tmp, n, TruncateMode)
          /\ op' = Call("truncate", Tmp, 0, len, "resize")
    /\ before' = [content |-> content, file |-> file']
    /\ calls' = calls + 1
    /\ UNCHANGED faults

(* truncate closes its handle, whatever came of the resizing. *)
CloseTmp ==
    /\ At("closetmp")
    /\ file' = [file EXCEPT ![Tmp] = None]
    /\ Done(op.res)
    /\ UNCHANGED content /\ Quiet

(* The rename of an open file, and of others over each other's old names
   (VfsNamespace).  The application replaces or unlinks no open file. *)
Rename ==
    /\ At("idle") /\ calls < MaxCalls
    /\ \E n, m \in Names :
          /\ name[n] # None /\ name[m] = None
          /\ name' = [name EXCEPT ![m] = name[n], ![n] = None]
    /\ calls' = calls + 1
    /\ UNCHANGED <<content, file, op, before, faults>>

-----------------------------------------------------------------------------
(* current_file_size_locked: the file is looked up by the path it was opened
   with. *)

(* Mutant of SizeError: the inode that is found is not compared. *)
SizeErrorNoInode(f) == IF name[f.path] = None THEN "ENOENT" ELSE "ok"
SizeError(f) ==
    CASE name[f.path] = None -> "ENOENT"
      [] name[f.path] \notin {f.ino, None} -> "ESTALE"
      [] OTHER -> "ok"
CurrentSize(f) == Len(content[name[f.path]])

(* Mutant of AppendPosition: the size that the handle remembers. *)
AppendPositionCached(f) == f.fsize
AppendPosition(f) == CurrentSize(f)

(* seek_to_current_end_locked *)
SeekToCurrentEnd ==
    /\ At("append")
    /\ IF SizeError(F) = "ok"
       THEN /\ Goto("put")
            /\ file' = [file EXCEPT ![op.h].fsize = AppendPosition(F),
                                    ![op.h].fpos = AppendPosition(F)]
       ELSE Done(SizeError(F)) /\ UNCHANGED file
    /\ UNCHANGED content /\ Quiet

(* A read that begins at or beyond the end returns nothing, and seeks nowhere.
   Mutant of Beyond: it is left to lwext4, which refuses to seek there. *)
BeyondNever == FALSE
Beyond == op.call = "pread" /\ op.off >= CurrentSize(F)

(* positioned_io goes on after its look at the size. *)
PositionedSize ==
    /\ At("size")
    /\ op' = [op EXCEPT
                !.res = SizeError(F),
                !.at = IF SizeError(F) # "ok" THEN "restore"
                       ELSE CASE Beyond -> "restore"
                              [] op.call = "pwrite" /\ op.off > CurrentSize(F) -> "resize"
                              [] OTHER -> "seek"]
    /\ UNCHANGED <<content, file>> /\ Quiet

PositionedSeek ==
    /\ At("seek")
    /\ IF Seekable(F, op.off)
       THEN /\ Goto(IF op.call = "pwrite" THEN "put" ELSE "get")
            /\ file' = [file EXCEPT ![op.h].fpos = op.off]
       ELSE op' = [op EXCEPT !.at = "restore", !.res = "EINVAL"] /\ UNCHANGED file
    /\ UNCHANGED content /\ Quiet

(* After the transfer.  Mutant of RestoreTo: only if it succeeded. *)
RestoreToIfOk == IF op.res = "ok" THEN op.orig ELSE F.fpos
RestoreTo == op.orig

PositionedRestore ==
    /\ At("restore")
    /\ IF Seekable(F, RestoreTo)
       THEN file' = [file EXCEPT ![op.h].fpos = RestoreTo] /\ Done(op.res)
       ELSE UNCHANGED file /\ Done(IF op.res = "ok" THEN "EINVAL" ELSE op.res)
    /\ UNCHANGED content /\ Quiet

-----------------------------------------------------------------------------
(* Reading and writing at the offset. *)

Positioned == op.call \in {"pread", "pwrite"}

Transferred(e, d) ==
    op' = [op EXCEPT !.at = IF Positioned THEN "restore" ELSE "done", !.res = e, !.data = d]

(* The size is renewed by every transfer of at least one byte. *)
Renewed(n) == IF op.n = 0 /\ ~At("grow") THEN F.fsize ELSE n

(* ext4_fread; past the end of a file that was shrunk it may find anything. *)
Get ==
    /\ At("get")
    /\ \E d \in IF F.fpos <= Size THEN {Bytes(content[F.ino], F.fpos, op.n)} ELSE {<<>>, Garbage} :
          /\ Transferred("ok", d)
          /\ file' = [file EXCEPT ![op.h].fsize = Renewed(Size), ![op.h].fpos = @ + Len(d)]
    /\ UNCHANGED content /\ Quiet

(* ext4_fwrite stores d at the offset; what lies between the end of a file
   that was shrunk and the offset may be anything. *)
Fwrite(d) ==
    \E gap \in IF F.fpos <= Size THEN {0} ELSE {0, Junk} :
        LET b == IF d = <<>> THEN content[F.ino] ELSE Overlay(content[F.ino], F.fpos, d, gap)
        IN  /\ content' = [content EXCEPT ![F.ino] = b]
            /\ file' = [file EXCEPT ![op.h].fsize = Renewed(Len(b)), ![op.h].fpos = @ + Len(d)]

Put ==
    /\ At("put")
    /\ Fwrite(Data) /\ Transferred("ok", Data)
    /\ Quiet

(* A write that fails, or stops early for want of space *)
PutPart ==
    /\ At("put") /\ Fault
    /\ \E k \in 0 .. op.n, e \in {"ok", "EIO"} :
          LET d == SubSeq(Data, 1, k)
          IN  /\ e = "ok" => k < op.n
              /\ Fwrite(d)
              /\ op' = [op EXCEPT !.at = IF Positioned THEN "restore" ELSE "done",
                                  !.res = e, !.data = d, !.hit = TRUE]

-----------------------------------------------------------------------------
(* resize_file_locked *)

(* It is over: truncate and ftruncate return, pwrite goes on if it can. *)
Resized(e) ==
    op' = [op EXCEPT !.res = e,
                     !.at = CASE op.call = "truncate" -> "closetmp"
                              [] op.call = "ftruncate" -> "done"
                              [] OTHER -> IF e = "ok" THEN "seek" ELSE "restore"]

(* ext4_ftruncate; whether it moves an offset past the new end is lwext4's. *)
Ftruncate(len) ==
    \E pos \in {F.fpos, Least(F.fpos, len)} :
        /\ content' = [content EXCEPT ![F.ino] = Bytes(@, 0, len)]
        /\ file' = [file EXCEPT ![op.h].fsize = Least(Size, len), ![op.h].fpos = pos]

(* Mutant of GrowFrom: growth begins at the offset. *)
GrowFromOffset(f) == f.fpos
GrowFrom(f) == CurrentSize(f)

Resize ==
    /\ At("resize")
    /\ CASE SizeError(F) # "ok" -> Resized(SizeError(F)) /\ UNCHANGED <<content, file>>
         [] SizeError(F) = "ok" /\ op.goal <= CurrentSize(F) -> Resized("ok") /\ Ftruncate(op.goal)
         [] OTHER ->
              /\ op' = [op EXCEPT !.at = "grow", !.orig = F.fpos, !.cur = CurrentSize(F)]
              /\ file' = [file EXCEPT ![op.h].fsize = CurrentSize(F), ![op.h].fpos = GrowFrom(F)]
              /\ UNCHANGED content
    /\ Quiet

(* One turn of the loop that writes zeros; it ends at the goal. *)
Grow ==
    /\ At("grow") /\ op.cur < op.goal
    /\ LET n == Least(GrowBuffer, op.goal - op.cur)
       IN  /\ Fwrite(Zeros(n))
           /\ op' = [op EXCEPT !.cur = @ + n]
    /\ Quiet

GrowPart ==
    /\ At("grow") /\ op.cur < op.goal /\ Fault
    /\ LET n == Least(GrowBuffer, op.goal - op.cur)
       IN  \E k \in 0 .. n, e \in {"ok", "EIO"} :
              /\ e = "ok" => k < n
              /\ Fwrite(Zeros(k))
              /\ op' = [op EXCEPT !.cur = @ + k, !.hit = TRUE,
                                  !.res = IF e = "ok" /\ k > 0 THEN "ok" ELSE "EIO",
                                  !.at = IF e = "ok" /\ k > 0 THEN "grow" ELSE "growrestore"]

GrowRestore ==
    /\ At("growrestore") \/ (At("grow") /\ op.cur >= op.goal)
    /\ LET e == IF op.res = "ok" /\ ~Seekable(F, op.orig) THEN "EINVAL" ELSE op.res
       IN  Resized(e)
    /\ file' = IF Seekable(F, op.orig) THEN [file EXCEPT ![op.h].fpos = op.orig] ELSE file
    /\ UNCHANGED content /\ Quiet

(* Looking up the path, reading or truncating fails. *)
OperationFails ==
    /\ At("append") \/ At("size") \/ At("get") \/ At("resize")
    /\ Fault
    /\ op' = [op EXCEPT !.hit = TRUE, !.res = "EIO",
                        !.at = CASE op.call = "truncate" -> "closetmp"
                                 [] Positioned -> "restore"
                                 [] OTHER -> "done"]
    /\ \/ UNCHANGED <<content, file>>
       \/ At("resize") /\ SizeError(F) = "ok" /\ op.goal < CurrentSize(F) /\ Ftruncate(op.goal)

Next ==
    \/ BeginWrite \/ BeginRead \/ BeginPositioned \/ BeginFtruncate \/ Lseek
    \/ Open \/ Close \/ Truncate \/ CloseTmp \/ Rename \/ Return
    \/ SeekToCurrentEnd \/ PositionedSize \/ PositionedSeek \/ PositionedRestore
    \/ Get \/ Put \/ PutPart \/ Resize \/ Grow \/ GrowPart \/ GrowRestore \/ OperationFails

Spec == Init /\ [][Next]_vars

-----------------------------------------------------------------------------
(* Properties. *)

(* The type of every variable. *)
FileType == [ino : Inodes, path : Names, acc : {"r", "w", "rw"}, append : BOOLEAN,
             fsize : Nat, fpos : Nat]
TypeOK ==
    /\ \A n \in Names : name[n] \in Inodes \cup {None}
    /\ \A i \in Inodes : content[i] = None \/ content[i] \in Seq(Int)
    /\ \A h \in Handles : file[h] = None \/ file[h] \in FileType
    /\ op.at \in {"idle", "append", "size", "seek", "get", "put", "resize", "grow",
                  "growrestore", "restore", "closetmp", "done"}
    /\ op.at # "idle" => op.h \in Handles
    /\ file[Tmp] # None => op.call = "truncate"

Ended == At("done") /\ op.call # "open"
Handle == before.file[op.h]           \* as it was when the call began
Old == before.content[Handle.ino]
New == content[Handle.ino]
OldOffset == Handle.fpos
Within == OldOffset <= Len(Old)       \* no other handle has shrunk the file below it

(* A write through an O_APPEND handle that succeeds puts its bytes at the
   end that the file has now, whatever other handles wrote, cut off or
   renamed since it was opened (seek_to_current_end_locked). *)
AppendsAtEnd ==
    Ended /\ op.call = "write" /\ op.res = "ok" /\ Handle.append => New = Old \o op.data

(* What POSIX promises of a call that succeeds: reads return the bytes of
   the file, writes store theirs at the offset of the handle or the call,
   lengths are as asked, and the bytes in between are zeros (positioned_io,
   resize_file_locked). *)
Promised ==
    CASE op.call = "pread" -> New = Old /\ op.data = Bytes(Old, op.off, op.n)
      [] op.call = "read" -> New = Old /\ (Within => op.data = Bytes(Old, OldOffset, op.n))
      [] op.call = "pwrite" -> New = IF op.n = 0 THEN Old ELSE Overlay(Old, op.off, op.data, 0)
      [] op.call = "write" /\ ~Handle.append /\ Within -> New = Overlay(Old, OldOffset, op.data, 0)
      [] op.call \in {"ftruncate", "truncate"} ->
            New = [i \in 1 .. op.off |-> IF i <= Len(Old) THEN Old[i] ELSE 0]
      [] OTHER -> TRUE
PosixOutcome == Ended /\ op.res = "ok" => Promised

(* A positioned transfer, and the growth of a file, leave the offset of the
   handle where it was, though they seek, and also when they fail half-way; only
   if the handle's size does not reach the offset any more, they may lose it,
   and then they fail (positioned_io, resize_file_locked). *)
PositionedKeepsOffset ==
    /\ Ended
    /\ op.call \in {"pread", "pwrite"} \/ (op.call = "ftruncate" /\ op.off > Len(Old))
    => F.fpos = OldOffset \/ (op.res # "ok" /\ OldOffset > F.fsize)

(* Where a call may change bytes; those are 1 + the offset on. *)
Target ==
    CASE op.call = "pwrite" -> op.off + 1 .. op.off + op.n
      [] op.call = "write" -> LET from == IF Handle.append THEN Len(Old) ELSE OldOffset
                              IN  from + 1 .. from + op.n
      [] OTHER -> {}

(* At every step of a call, failed or not, no other file has changed, and of
   its own file the bytes that the call does not name are as before, gone
   because it shortens the file, or zeros behind the old end. *)
OthersUnchanged == \A i \in Inodes \ {Handle.ino} : content[i] = before.content[i]
NamedBytes ==
    /\ \A j \in (1 .. Len(New)) \ Target : j <= Len(Old) => New[j] = Old[j]
    /\ \A j \in (1 .. Len(New)) \ Target : j > Len(Old) /\ Within => New[j] = 0
    /\ Len(New) < Len(Old) => op.call \in {"ftruncate", "truncate"} /\ Len(New) = op.off
OnlyNamedBytesChange == ~At("idle") /\ op.call # "open" => OthersUnchanged /\ NamedBytes

(* The path of the handle leads to its file no more. *)
Renamed == name[Handle.path] # Handle.ino

(* The handle remembers another size, or stands beyond the end. *)
Stale == Handle.fsize # Len(Old) \/ ~Within

(* No call fails without a reason: an lwext4 operation failed, the handle
   does not allow it, the file was renamed, or another handle changed the
   size (current_file_size_locked, ext4_fseek). *)
Explained ==
    CASE op.res \in {"ENOENT", "ESTALE"} -> Renamed
      [] op.res = "EBADF" -> Handle.acc # "rw"
      [] OTHER -> op.call = "lseek" \/ Stale
FailureExplained == Ended /\ op.res # "ok" /\ ~op.hit => Explained
=============================================================================
