---------------------------- MODULE VfsFileProofs ----------------------------
(***************************************************************************)
(* Proofs about VfsFile, for any number of handles, files and bytes, and   *)
(* any number of calls and failing operations.                             *)
(*                                                                         *)
(* A call moves from place to place (op.at).  What its file holds there is *)
(* what it held at the beginning, or that made longer with zeros, and the  *)
(* offset and size in the handle are told by the place (Placed).  From the *)
(* last places on, the outcome is what the properties say (Settled).       *)
(***************************************************************************)
EXTENDS VfsFile, SequenceTheorems, WellFoundedInduction, TLAPS

-----------------------------------------------------------------------------
(* The inductive invariant. *)

Calls == {"none", "open", "write", "read", "pread", "pwrite", "ftruncate", "truncate", "lseek"}
Places == {"idle", "append", "size", "seek", "get", "put", "resize", "grow",
           "growrestore", "restore", "closetmp", "done"}
Results == {"ok", "EBADF", "EINVAL", "EIO", "ENOENT", "ESTALE"}

OpType == [call : Calls, h : Handles \cup {None}, n : Int, off : Nat, at : Places, orig : Nat,
           cur : Nat, goal : Nat, res : Results, data : Seq(Int), hit : BOOLEAN]

(* Every name and every handle leads to a file. *)
Typed ==
    /\ name \in [Names -> {None} \cup Inodes]
    /\ content \in [Inodes -> {None} \cup Seq(Int)]
    /\ file \in [Handles -> {None} \cup FileType]
    /\ op \in OpType
    /\ op.call \notin {"none", "lseek"} => op.n \in Nat
    /\ op.at # "idle" => op.h \in Handles
    /\ calls \in Nat
    /\ \A n \in Names : name[n] # None => content[name[n]] \in Seq(Int)
    /\ \A h \in Handles : file[h] # None => content[file[h].ino] \in Seq(Int)
    /\ file[Tmp] # None => op.call = "truncate" /\ op.at \notin {"idle", "done"}

(* A handle is what it was, but for its size and offset. *)
SameHandle(f) ==
    /\ f \in FileType /\ f.ino = Handle.ino /\ f.path = Handle.path
    /\ f.acc = Handle.acc /\ f.append = Handle.append

(* A call is about one file, on which only the call's own bytes have changed. *)
Busy == op.at # "idle" /\ op.call # "open"
Running ==
    Busy =>
        /\ op.h \in Handles /\ Handle \in FileType /\ Old \in Seq(Int) /\ New \in Seq(Int)
        /\ op.h = Tmp => op.call = "truncate"
        /\ op.call # "none" /\ (op.at # "done" => op.call # "lseek" /\ SameHandle(F))
        /\ OthersUnchanged /\ NamedBytes

(* b, made n long with zeros if it is shorter *)
Padded(b, n) == Overlay(b, n, <<>>, 0)

(* The size in the handle is the file's, or it is still what it was. *)
Sized == F.fsize = Len(New) \/ (F.fsize = Handle.fsize /\ New = Old)

Unmoved == New = Old /\ F = Handle

AppendPlace == op.call = "write" /\ Handle.append /\ Unmoved
SizePlace == Positioned /\ op.n > 0 /\ op.orig = OldOffset /\ op.goal = op.off /\ Unmoved /\ op.data = <<>>
ResizePlace ==
    /\ op.call \in {"pwrite", "ftruncate", "truncate"} /\ op.goal = op.off /\ Unmoved
    /\ op.call = "pwrite" =>
          op.n > 0 /\ op.orig = OldOffset /\ op.off > Len(Old) /\ name[Handle.path] = Handle.ino
Growing ==
    /\ op.call \in {"pwrite", "ftruncate", "truncate"} /\ op.goal = op.off
    /\ Len(Old) <= op.cur /\ op.cur <= op.goal /\ Len(Old) < op.goal
    /\ New = Padded(Old, op.cur) /\ F.fsize = op.cur /\ op.orig = OldOffset
    /\ op.call = "pwrite" => op.n > 0
GrowPlace == Growing /\ F.fpos = op.cur
GrowRestorePlace == Growing /\ op.res # "ok" /\ op.hit
SeekPlace ==
    /\ Positioned /\ op.n > 0 /\ op.orig = OldOffset /\ Sized
    /\ op.call = "pread" => New = Old /\ op.off < Len(Old)
    /\ op.call = "pwrite" => New = Padded(Old, op.off)
PutPlace ==
    /\ op.call \in {"write", "pwrite"}
    /\ op.call = "write" => New = Old /\ F.fpos = (IF Handle.append THEN Len(Old) ELSE OldOffset)
    /\ op.call = "pwrite" => /\ New = Padded(Old, op.off) /\ F.fpos = op.off
                             /\ op.n > 0 /\ op.orig = OldOffset /\ Sized
GetPlace ==
    /\ op.call \in {"read", "pread"} /\ New = Old
    /\ op.call = "read" => F.fpos = OldOffset
    /\ op.call = "pread" => F.fpos = op.off /\ op.off < Len(Old) /\ op.orig = OldOffset /\ Sized
RestorePlace == Positioned /\ op.orig = OldOffset /\ Sized

(* What holds of a call at each of its places *)
Placed ==
    /\ op.at = "append" => AppendPlace
    /\ op.at = "size" => SizePlace
    /\ op.at = "resize" => ResizePlace
    /\ op.at = "grow" => GrowPlace
    /\ op.at = "growrestore" => GrowRestorePlace
    /\ op.at = "seek" => SeekPlace
    /\ op.at = "put" => PutPlace
    /\ op.at = "get" => GetPlace
    /\ op.at = "restore" => RestorePlace
    /\ op.at = "closetmp" => op.call = "truncate"
    /\ op.at \notin {"idle", "restore", "closetmp", "done", "growrestore"} => op.res = "ok"

(* The outcome is decided. *)
Outcome ==
    /\ op.res = "ok" => Promised
    /\ op.call = "write" /\ op.res = "ok" /\ Handle.append => New = Old \o op.data
    /\ op.res # "ok" /\ ~op.hit => Explained
Settled == Busy /\ op.at \in {"restore", "closetmp", "done"} => Outcome

IInv == Typed /\ Running /\ Placed /\ Settled /\ PositionedKeepsOffset

-----------------------------------------------------------------------------
(* Bytes. *)

(* What is written over what *)
LEMMA OverlayIs ==
  ASSUME NEW b \in Seq(Int), NEW pos \in Nat, NEW d \in Seq(Int), NEW gap \in Int
  PROVE  LET o == Overlay(b, pos, d, gap)
             n == IF Len(b) > pos + Len(d) THEN Len(b) ELSE pos + Len(d)
         IN  /\ o \in Seq(Int) /\ Len(o) = n /\ n \in Nat
             /\ \A i \in 1 .. n : o[i] = IF i > pos /\ i <= pos + Len(d) THEN d[i - pos]
                                         ELSE IF i <= Len(b) THEN b[i] ELSE gap
<1> DEFINE n == IF Len(b) > pos + Len(d) THEN Len(b) ELSE pos + Len(d)
           v(i) == IF i > pos /\ i <= pos + Len(d) THEN d[i - pos] ELSE IF i <= Len(b) THEN b[i] ELSE gap
<1>1. n \in Nat /\ Len(b) \in Nat /\ Len(d) \in Nat
  OBVIOUS
<1>2. \A i \in 1 .. n : v(i) \in Int
  <2>1. \A i \in 1 .. Len(b) : b[i] \in Int
    OBVIOUS
  <2>2. \A i \in 1 .. Len(d) : d[i] \in Int
    OBVIOUS
  <2>3. \A i \in 1 .. n : i > pos /\ i <= pos + Len(d) => i - pos \in 1 .. Len(d)
    BY <1>1
  <2>4. \A i \in 1 .. n : i <= Len(b) => i \in 1 .. Len(b)
    BY <1>1
  <2> QED BY <2>1, <2>2, <2>3, <2>4
<1>3. Overlay(b, pos, d, gap) = [i \in 1 .. n |-> v(i)]
  BY DEF Overlay
<1> HIDE DEF n, v
<1>4. [i \in 1 .. n |-> v(i)] \in Seq(Int) /\ Len([i \in 1 .. n |-> v(i)]) = n
  BY <1>1, <1>2
<1>5. \A i \in 1 .. n : [j \in 1 .. n |-> v(j)][i] = v(i)
  OBVIOUS
<1>6. /\ Overlay(b, pos, d, gap) \in Seq(Int) /\ Len(Overlay(b, pos, d, gap)) = n
      /\ \A i \in 1 .. n : Overlay(b, pos, d, gap)[i] = v(i)
  BY <1>3, <1>4, <1>5
<1> QED BY <1>1, <1>6 DEF n, v

(* Files that are made longer *)
LEMMA PaddedIs ==
  ASSUME NEW b \in Seq(Int), NEW n \in Nat
  PROVE  /\ Padded(b, n) \in Seq(Int) /\ Len(Padded(b, n)) \in Nat /\ Len(b) \in Nat
         /\ Len(Padded(b, n)) = (IF Len(b) > n THEN Len(b) ELSE n)
         /\ \A i \in 1 .. Len(Padded(b, n)) : Padded(b, n)[i] = IF i <= Len(b) THEN b[i] ELSE 0
<1>1. <<>> \in Seq(Int) /\ Len(<<>>) = 0 /\ 0 \in Int /\ Len(b) \in Nat
  OBVIOUS
<1> DEFINE o == Padded(b, n)
           m == IF Len(b) > n THEN Len(b) ELSE n
<1>2. /\ o \in Seq(Int) /\ Len(o) = m /\ m \in Nat
      /\ \A i \in 1 .. m : o[i] = IF i <= Len(b) THEN b[i] ELSE 0
  <2>1. PICK d \in Seq(Int) : d = <<>> /\ Len(d) = 0
    BY <1>1
  <2>2. /\ Overlay(b, n, d, 0) \in Seq(Int)
        /\ Len(Overlay(b, n, d, 0)) = (IF Len(b) > n + Len(d) THEN Len(b) ELSE n + Len(d))
        /\ \A i \in 1 .. Len(Overlay(b, n, d, 0)) :
              Overlay(b, n, d, 0)[i] = IF i > n /\ i <= n + Len(d) THEN d[i - n]
                                       ELSE IF i <= Len(b) THEN b[i] ELSE 0
    BY <1>1, OverlayIs
  <2>3. o = Overlay(b, n, d, 0)
    BY <2>1 DEF Padded
  <2> HIDE DEF o
  <2>4. Len(o) = m /\ m \in Nat
    BY <1>1, <2>1, <2>2, <2>3
  <2>5. ASSUME NEW i \in 1 .. m PROVE o[i] = IF i <= Len(b) THEN b[i] ELSE 0
    <3>1. ~(i > n /\ i <= n + Len(d))
      BY <1>1, <2>1
    <3> QED BY <2>2, <2>3, <2>4, <3>1
  <2> QED BY <2>2, <2>3, <2>4, <2>5
<1> QED BY <1>1, <1>2

(* A file that is long enough stays as it is. *)
LEMMA PaddedSame ==
  ASSUME NEW b \in Seq(Int), NEW n \in Nat, n <= Len(b) PROVE Padded(b, n) = b
<1>1. /\ Padded(b, n) \in Seq(Int) /\ Len(Padded(b, n)) = Len(b) /\ Len(b) \in Nat
      /\ \A i \in 1 .. Len(Padded(b, n)) : Padded(b, n)[i] = IF i <= Len(b) THEN b[i] ELSE 0
  BY PaddedIs
<1>2. \A i \in 1 .. Len(b) : Padded(b, n)[i] = b[i]
  BY <1>1
<1> QED BY <1>1, <1>2, SeqEqual

(* Writing at the end appends. *)
LEMMA OverlayAtEnd ==
  ASSUME NEW b \in Seq(Int), NEW d \in Seq(Int) PROVE Overlay(b, Len(b), d, 0) = b \o d
<1> DEFINE o == Overlay(b, Len(b), d, 0)
           c == b \o d
<1>1. Len(b) \in Nat /\ Len(d) \in Nat
  OBVIOUS
<1>2. /\ o \in Seq(Int) /\ Len(o) = Len(b) + Len(d)
      /\ \A i \in 1 .. Len(b) + Len(d) : o[i] = IF i <= Len(b) THEN b[i] ELSE d[i - Len(b)]
  <2> DEFINE n == IF Len(b) > Len(b) + Len(d) THEN Len(b) ELSE Len(b) + Len(d)
  <2>1. /\ o \in Seq(Int) /\ Len(o) = n
        /\ \A i \in 1 .. n : o[i] = IF i > Len(b) /\ i <= Len(b) + Len(d) THEN d[i - Len(b)]
                                    ELSE IF i <= Len(b) THEN b[i] ELSE 0
    BY <1>1, OverlayIs
  <2>2. n = Len(b) + Len(d)
    BY <1>1
  <2> HIDE DEF n, o
  <2> QED BY <1>1, <2>1, <2>2
<1>3. /\ c \in Seq(Int) /\ Len(c) = Len(b) + Len(d)
      /\ \A i \in 1 .. Len(b) + Len(d) : c[i] = IF i <= Len(b) THEN b[i] ELSE d[i - Len(b)]
  BY ConcatProperties
<1> HIDE DEF o, c
<1>4. o = c
  BY <1>2, <1>3, SeqEqual
<1> QED BY <1>4 DEF o, c

(* The gap before what is written is the growth that would have come first. *)
LEMMA OverlayPadded ==
  ASSUME NEW b \in Seq(Int), NEW n \in Nat, NEW d \in Seq(Int)
  PROVE  Overlay(Padded(b, n), n, d, 0) = Overlay(b, n, d, 0)
<1> DEFINE p == Padded(b, n)
           o == Overlay(p, n, d, 0)
           c == Overlay(b, n, d, 0)
           m == IF Len(b) > n + Len(d) THEN Len(b) ELSE n + Len(d)
<1>1. Len(b) \in Nat /\ Len(d) \in Nat /\ 0 \in Int
  OBVIOUS
<1>2. /\ p \in Seq(Int) /\ Len(p) = (IF Len(b) > n THEN Len(b) ELSE n)
      /\ \A i \in 1 .. Len(p) : p[i] = IF i <= Len(b) THEN b[i] ELSE 0
  BY PaddedIs
<1> HIDE DEF p
<1>3. /\ o \in Seq(Int) /\ Len(o) = (IF Len(p) > n + Len(d) THEN Len(p) ELSE n + Len(d))
      /\ \A i \in 1 .. Len(o) : o[i] = IF i > n /\ i <= n + Len(d) THEN d[i - n]
                                       ELSE IF i <= Len(p) THEN p[i] ELSE 0
  BY <1>1, <1>2, OverlayIs
<1>4. /\ c \in Seq(Int) /\ Len(c) = m
      /\ \A i \in 1 .. Len(c) : c[i] = IF i > n /\ i <= n + Len(d) THEN d[i - n]
                                       ELSE IF i <= Len(b) THEN b[i] ELSE 0
  BY <1>1, OverlayIs
<1> HIDE DEF o, c
<1>5. Len(o) = Len(c)
  BY <1>1, <1>2, <1>3, <1>4
<1>6. \A i \in 1 .. Len(c) : o[i] = c[i]
  <2> SUFFICES ASSUME NEW i \in 1 .. Len(c) PROVE o[i] = c[i]
    OBVIOUS
  <2>1. i \in Nat /\ i > 0 /\ i <= m /\ m \in Nat
    BY <1>1, <1>4
  <2>2. CASE i > n /\ i <= n + Len(d)
    BY <1>3, <1>4, <1>5, <2>2
  <2>3. CASE ~(i > n /\ i <= n + Len(d)) /\ i <= Len(p)
    <3>1. p[i] = IF i <= Len(b) THEN b[i] ELSE 0
      BY <1>1, <1>2, <2>1, <2>3
    <3> QED BY <1>3, <1>4, <1>5, <2>3, <3>1
  <2>4. CASE ~(i > n /\ i <= n + Len(d)) /\ ~(i <= Len(p))
    <3>1. ~(i <= Len(b))
      BY <1>1, <1>2, <2>1, <2>4
    <3> QED BY <1>3, <1>4, <1>5, <2>4, <3>1
  <2> QED BY <2>2, <2>3, <2>4
<1>7. o = c
  BY <1>3, <1>4, <1>5, <1>6, SeqEqual
<1> QED BY <1>7 DEF o, c, p

(* A file grows as far as one turn after the other would make it. *)
LEMMA PaddedFurther ==
  ASSUME NEW b \in Seq(Int), NEW n \in Nat, Len(b) <= n, NEW k \in Nat, NEW d \in Seq(Int), Len(d) = k,
         \A i \in 1 .. k : d[i] = 0
  PROVE  Overlay(Padded(b, n), n, d, 0) = Padded(b, n + k)
<1> DEFINE c == Overlay(b, n, d, 0)
           p == Padded(b, n + k)
<1>1. Overlay(Padded(b, n), n, d, 0) = c
  BY OverlayPadded
<1>2. Len(b) \in Nat /\ 0 \in Int /\ n + k \in Nat
  OBVIOUS
<1>3. /\ c \in Seq(Int) /\ Len(c) = n + k
      /\ \A i \in 1 .. Len(c) : c[i] = IF i <= Len(b) THEN b[i] ELSE 0
  <2> DEFINE m == IF Len(b) > n + Len(d) THEN Len(b) ELSE n + Len(d)
  <2>1. /\ c \in Seq(Int) /\ Len(c) = m
        /\ \A i \in 1 .. Len(c) : c[i] = IF i > n /\ i <= n + Len(d) THEN d[i - n]
                                         ELSE IF i <= Len(b) THEN b[i] ELSE 0
    BY <1>2, OverlayIs
  <2>2. m = n + k
    BY <1>2
  <2> HIDE DEF m, c
  <2>3. ASSUME NEW i \in 1 .. n + k PROVE c[i] = IF i <= Len(b) THEN b[i] ELSE 0
    <3>1. i > n => i - n \in 1 .. k /\ ~(i <= Len(b))
      BY <1>2
    <3>2. i > n => d[i - n] = 0
      BY <3>1
    <3> QED BY <1>2, <2>1, <2>2, <3>1, <3>2
  <2> QED BY <2>1, <2>2, <2>3
<1>4. /\ p \in Seq(Int) /\ Len(p) = n + k
      /\ \A i \in 1 .. Len(p) : p[i] = IF i <= Len(b) THEN b[i] ELSE 0
  <2>1. /\ p \in Seq(Int) /\ Len(p) = (IF Len(b) > n + k THEN Len(b) ELSE n + k)
        /\ \A i \in 1 .. Len(p) : p[i] = IF i <= Len(b) THEN b[i] ELSE 0
    BY <1>2, PaddedIs
  <2> HIDE DEF p
  <2> QED BY <1>2, <2>1
<1> HIDE DEF c, p
<1>5. c = p
  BY <1>3, <1>4, SeqEqual
<1> QED BY <1>1, <1>5 DEF p

(* Bytes cuts a piece out. *)
LEMMA BytesIs ==
  ASSUME NEW b \in Seq(Int), NEW pos \in Nat, NEW n \in Nat
  PROVE  /\ Bytes(b, pos, n) \in Seq(Int) /\ Len(b) \in Nat
         /\ pos <= Len(b) => Len(Bytes(b, pos, n)) = Least(pos + n, Len(b)) - pos
         /\ \A i \in 1 .. Len(Bytes(b, pos, n)) : Bytes(b, pos, n)[i] = b[pos + i]
         /\ (n = 0 \/ pos >= Len(b)) => Bytes(b, pos, n) = <<>>
<1> DEFINE e == Least(pos + n, Len(b))
<1>1. Len(b) \in Nat /\ e \in Nat /\ e <= Len(b) /\ e <= pos + n /\ (e = Len(b) \/ e = pos + n)
  BY DEF Least
<1> HIDE DEF e
<1>2. Bytes(b, pos, n) = SubSeq(b, pos + 1, e)
  BY DEF Bytes, e
<1>3. \A i \in pos + 1 .. e : b[i] \in Int
  <2>1. \A i \in 1 .. Len(b) : b[i] \in Int
    OBVIOUS
  <2> QED BY <1>1, <2>1
<1>4. /\ SubSeq(b, pos + 1, e) \in Seq(Int)
      /\ Len(SubSeq(b, pos + 1, e)) = (IF pos + 1 <= e THEN e - (pos + 1) + 1 ELSE 0)
      /\ \A i \in 1 .. e - (pos + 1) + 1 : SubSeq(b, pos + 1, e)[i] = b[pos + 1 + i - 1]
  BY <1>1, <1>3, SubSeqProperties
<1> DEFINE s == SubSeq(b, pos + 1, e)
<1> HIDE DEF s
<1>5. /\ s \in Seq(Int) /\ Len(s) = (IF pos + 1 <= e THEN e - (pos + 1) + 1 ELSE 0)
      /\ \A i \in 1 .. e - (pos + 1) + 1 : s[i] = b[pos + 1 + i - 1]
  BY <1>4 DEF s
<1>6. ASSUME NEW i \in 1 .. Len(s) PROVE s[i] = b[pos + i]
  <2>1. i \in 1 .. e - (pos + 1) + 1 /\ pos + 1 + i - 1 = pos + i
    BY <1>1, <1>5
  <2> QED BY <1>5, <2>1
<1>7. pos <= Len(b) => Len(s) = e - pos
  BY <1>1, <1>5
<1>8. (n = 0 \/ pos >= Len(b)) => s = <<>>
  <2>1. (n = 0 \/ pos >= Len(b)) => Len(s) = 0
    BY <1>1, <1>5
  <2> QED BY <1>5, <2>1, EmptySeq
<1> QED BY <1>1, <1>2, <1>5, <1>6, <1>7, <1>8 DEF s, e

-----------------------------------------------------------------------------
(* Which bytes a call keeps, said of the file's bytes b and what they were. *)

Keeps(b, old, named, within, cut) ==
    /\ \A j \in (1 .. Len(b)) \ named : j <= Len(old) => b[j] = old[j]
    /\ \A j \in (1 .. Len(b)) \ named : j > Len(old) /\ within => b[j] = 0
    /\ Len(b) < Len(old) => cut

(* A file that is made longer keeps its bytes. *)
LEMMA PaddedKeeps ==
  ASSUME NEW b \in Seq(Int), NEW n \in Nat, NEW named, NEW within, NEW cut
  PROVE  Keeps(Padded(b, n), b, named, within, cut)
<1> DEFINE p == Padded(b, n)
<1>1. /\ p \in Seq(Int) /\ Len(p) = (IF Len(b) > n THEN Len(b) ELSE n) /\ Len(b) \in Nat
      /\ \A i \in 1 .. Len(p) : p[i] = IF i <= Len(b) THEN b[i] ELSE 0
  BY PaddedIs
<1> HIDE DEF p
<1>2. ~(Len(p) < Len(b))
  BY <1>1
<1>3. \A j \in 1 .. Len(p) : /\ j <= Len(b) => p[j] = b[j]
                             /\ j > Len(b) => p[j] = 0
  BY <1>1
<1>4. Keeps(p, b, named, within, cut)
  BY <1>2, <1>3 DEF Keeps
<1> QED BY <1>4 DEF p

(* So does one that is left alone, *)
LEMMA SameKeeps ==
  ASSUME NEW b \in Seq(Int), NEW named, NEW within, NEW cut
  PROVE  Keeps(b, b, named, within, cut)
BY DEF Keeps

(* and what is left of one that is cut off, *)
LEMMA CutKeeps ==
  ASSUME NEW b \in Seq(Int), NEW n \in Nat, NEW named, NEW within
  PROVE  /\ Keeps(Bytes(b, 0, n), b, named, within, n < Len(b) /\ Len(Bytes(b, 0, n)) = n)
         /\ n <= Len(b) => Bytes(b, 0, n) = [i \in 1 .. n |-> IF i <= Len(b) THEN b[i] ELSE 0]
         /\ Len(Bytes(b, 0, n)) = Least(Len(b), n)
<1> DEFINE s == Bytes(b, 0, n)
<1>1. /\ s \in Seq(Int) /\ Len(b) \in Nat /\ Len(s) = Least(0 + n, Len(b)) - 0
      /\ \A i \in 1 .. Len(s) : s[i] = b[0 + i]
  BY BytesIs
<1> HIDE DEF s
<1>2. Len(s) = (IF n < Len(b) THEN n ELSE Len(b)) /\ \A i \in 1 .. Len(s) : s[i] = b[i]
  BY <1>1 DEF Least
<1>3. Keeps(s, b, named, within, n < Len(b) /\ Len(s) = n)
  BY <1>1, <1>2 DEF Keeps
<1>4. ASSUME n <= Len(b) PROVE s = [i \in 1 .. n |-> IF i <= Len(b) THEN b[i] ELSE 0]
  <2>1. Len(s) = n
    BY <1>1, <1>2, <1>4
  <2>2. s = [i \in 1 .. n |-> s[i]]
    BY <1>1, <2>1
  <2>3. \A i \in 1 .. n : s[i] = IF i <= Len(b) THEN b[i] ELSE 0
    BY <1>1, <1>2, <1>4, <2>1
  <2> QED BY <2>2, <2>3
<1>5. Len(s) = Least(Len(b), n)
  BY <1>1, <1>2 DEF Least
<1> QED BY <1>3, <1>4, <1>5 DEF s

(* and one on which something is written, not beyond the end unless another
   handle has moved the end. *)
LEMMA OverlayKeeps ==
  ASSUME NEW b \in Seq(Int), NEW pos \in Nat, NEW d \in Seq(Int), NEW gap \in Int,
         NEW n \in Nat, Len(d) <= n, NEW within \in BOOLEAN, NEW cut,
         pos <= Len(b) \/ ~within
  PROVE  Keeps(Overlay(b, pos, d, gap), b, pos + 1 .. pos + n, within, cut)
<1> DEFINE o == Overlay(b, pos, d, gap)
<1>1. Len(b) \in Nat /\ Len(d) \in Nat
  OBVIOUS
<1>2. /\ o \in Seq(Int) /\ Len(o) = (IF Len(b) > pos + Len(d) THEN Len(b) ELSE pos + Len(d))
      /\ \A i \in 1 .. Len(o) : o[i] = IF i > pos /\ i <= pos + Len(d) THEN d[i - pos]
                                       ELSE IF i <= Len(b) THEN b[i] ELSE gap
  BY OverlayIs
<1> HIDE DEF o
<1>3. ~(Len(o) < Len(b))
  BY <1>1, <1>2
<1>4. ASSUME NEW j \in (1 .. Len(o)) \ (pos + 1 .. pos + n)
      PROVE  (j <= Len(b) => o[j] = b[j]) /\ (j > Len(b) /\ within => o[j] = 0)
  <2>1. ~(j > pos /\ j <= pos + Len(d))
    BY <1>1
  <2>2. j \in 1 .. Len(o) /\ Len(o) \in Nat
    BY <1>1, <1>2
  <2>3. j > Len(b) => j <= pos
    BY <1>1, <1>2, <2>1, <2>2
  <2> QED BY <1>1, <1>2, <2>1, <2>2, <2>3
<1>5. Keeps(o, b, pos + 1 .. pos + n, within, cut)
  BY <1>3, <1>4 DEF Keeps
<1> QED BY <1>5 DEF o

(* A growth before it does no harm. *)
LEMMA OverlayPaddedKeeps ==
  ASSUME NEW b \in Seq(Int), NEW pos \in Nat, NEW d \in Seq(Int),
         NEW n \in Nat, Len(d) <= n, NEW within \in BOOLEAN, NEW cut
  PROVE  Keeps(Overlay(b, pos, d, 0), b, pos + 1 .. pos + n, within, cut)
<1> DEFINE o == Overlay(b, pos, d, 0)
<1>1. Len(b) \in Nat /\ Len(d) \in Nat /\ 0 \in Int
  OBVIOUS
<1>2. /\ o \in Seq(Int) /\ Len(o) = (IF Len(b) > pos + Len(d) THEN Len(b) ELSE pos + Len(d))
      /\ \A i \in 1 .. Len(o) : o[i] = IF i > pos /\ i <= pos + Len(d) THEN d[i - pos]
                                       ELSE IF i <= Len(b) THEN b[i] ELSE 0
  BY <1>1, OverlayIs
<1> HIDE DEF o
<1>3. ~(Len(o) < Len(b))
  BY <1>1, <1>2
<1>4. ASSUME NEW j \in (1 .. Len(o)) \ (pos + 1 .. pos + n)
      PROVE  (j <= Len(b) => o[j] = b[j]) /\ (j > Len(b) /\ within => o[j] = 0)
  <2>1. ~(j > pos /\ j <= pos + Len(d)) /\ j \in 1 .. Len(o)
    BY <1>1
  <2> QED BY <1>1, <1>2, <2>1
<1>5. Keeps(o, b, pos + 1 .. pos + n, within, cut)
  BY <1>3, <1>4 DEF Keeps
<1> QED BY <1>5 DEF o

-----------------------------------------------------------------------------
(* Steps of a call. *)

(* The handle has this size and offset now, *)
Moved(size, pos) ==
    /\ file' \in [Handles -> {None} \cup FileType] /\ file'[op.h] \in FileType
    /\ file'[op.h].ino = F.ino /\ file'[op.h].path = F.path
    /\ file'[op.h].acc = F.acc /\ file'[op.h].append = F.append
    /\ file'[op.h].fsize = size /\ file'[op.h].fpos = pos
    /\ \A h \in Handles \ {op.h} : file'[h] = file[h]

(* and the file these bytes. *)
Stored(b) ==
    /\ content' \in [Inodes -> {None} \cup Seq(Int)] /\ content'[F.ino] = b
    /\ \A i \in Inodes \ {F.ino} : content'[i] = content[i]

(* The call goes on. *)
SameCall ==
    /\ op'.call = op.call /\ op'.h = op.h /\ op'.n = op.n /\ op'.off = op.off
    /\ before' = before

(* How the code's assignments move a handle *)
LEMMA Moving ==
  ASSUME Typed, op.h \in Handles, F \in FileType, NEW size \in Nat, NEW pos \in Nat
  PROVE  /\ file' = [file EXCEPT ![op.h].fsize = size, ![op.h].fpos = pos] => Moved(size, pos)
         /\ file' = [file EXCEPT ![op.h].fpos = pos] => Moved(F.fsize, pos)
         /\ file' = file => Moved(F.fsize, F.fpos)
<1>1. file \in [Handles -> {None} \cup FileType]
  BY DEF Typed
<1>2. ASSUME NEW f \in FileType, file' = [file EXCEPT ![op.h] = f],
             f.ino = F.ino, f.path = F.path, f.acc = F.acc, f.append = F.append
      PROVE  Moved(f.fsize, f.fpos)
  <2>1. file' \in [Handles -> {None} \cup FileType] /\ file'[op.h] = f
        /\ \A h \in Handles \ {op.h} : file'[h] = file[h]
    BY <1>1, <1>2
  <2> QED BY <1>2, <2>1 DEF Moved
<1>3. ASSUME file' = [file EXCEPT ![op.h].fsize = size, ![op.h].fpos = pos] PROVE Moved(size, pos)
  <2> DEFINE f == [F EXCEPT !.fsize = size, !.fpos = pos]
  <2>1. /\ f \in FileType /\ f.ino = F.ino /\ f.path = F.path /\ f.acc = F.acc
        /\ f.append = F.append /\ f.fsize = size /\ f.fpos = pos
    BY DEF FileType
  <2>2. file' = [file EXCEPT ![op.h] = f]
    BY <1>1, <1>3 DEF F
  <2> HIDE DEF f
  <2> QED BY <1>2, <2>1, <2>2
<1>4. ASSUME file' = [file EXCEPT ![op.h].fpos = pos] PROVE Moved(F.fsize, pos)
  <2> DEFINE f == [F EXCEPT !.fpos = pos]
  <2>1. /\ f \in FileType /\ f.ino = F.ino /\ f.path = F.path /\ f.acc = F.acc
        /\ f.append = F.append /\ f.fsize = F.fsize /\ f.fpos = pos
    BY DEF FileType
  <2>2. file' = [file EXCEPT ![op.h] = f]
    BY <1>1, <1>4 DEF F
  <2> HIDE DEF f
  <2> QED BY <1>2, <2>1, <2>2
<1>5. ASSUME file' = file PROVE Moved(F.fsize, F.fpos)
  BY <1>1, <1>5 DEF Moved, F
<1> QED BY <1>3, <1>4, <1>5

(* How they store bytes *)
LEMMA Storing ==
  ASSUME Typed, F \in FileType, content[F.ino] \in Seq(Int), NEW b \in Seq(Int)
  PROVE  /\ content' = [content EXCEPT ![F.ino] = b] => Stored(b)
         /\ content' = content => Stored(content[F.ino])
<1>1. F.ino \in Inodes /\ content \in [Inodes -> {None} \cup Seq(Int)]
  BY DEF FileType, Typed
<1>2. ASSUME content' = [content EXCEPT ![F.ino] = b] PROVE Stored(b)
  BY <1>1, <1>2 DEF Stored
<1>3. ASSUME content' = content PROVE Stored(content[F.ino])
  BY <1>1, <1>3 DEF Stored
<1> QED BY <1>2, <1>3

(* What a step of a call leads to *)
Follows(b, size, pos) ==
    /\ Typed' /\ Running' /\ Busy'
    /\ Handle' = Handle /\ Old' = Old /\ New' = b /\ OldOffset' = OldOffset
    /\ Within' = Within /\ Renamed' = Renamed /\ Stale' = Stale
    /\ F'.fsize = size /\ F'.fpos = pos

(* A step of a call is about the same file, and leaves the others. *)
LEMMA Goes ==
  ASSUME Typed, Running, Busy, op.at # "done", SameCall, op' \in OpType, name' = name, calls' = calls,
         op'.at # "idle", op.call = "truncate" => op'.at # "done",
         NEW size \in Nat, NEW pos \in Nat, Moved(size, pos),
         NEW b \in Seq(Int), Stored(b),
         Keeps(b, Old, Target, Within, op.call \in {"ftruncate", "truncate"} /\ Len(b) = op.off)
  PROVE  Follows(b, size, pos)
<1>1. /\ op.h \in Handles /\ Handle \in FileType /\ Old \in Seq(Int) /\ New \in Seq(Int)
      /\ op.h = Tmp => op.call = "truncate"
      /\ op.call # "none" /\ op.call # "lseek" /\ SameHandle(F) /\ OthersUnchanged
  BY DEF Running
<1>2. /\ Handle' = Handle /\ Old' = Old /\ OldOffset' = OldOffset /\ Within' = Within
      /\ Target' = Target
  BY DEF SameCall, Handle, Old, OldOffset, Within, Target
<1>3. F.ino = Handle.ino /\ Handle.ino \in Inodes
  BY <1>1 DEF SameHandle, FileType
<1>4. New' = b /\ F' = file'[op.h] /\ F'.fsize = size /\ F'.fpos = pos
  BY <1>2, <1>3 DEF New, F, Moved, Stored, SameCall
<1>5. SameHandle(F)'
  BY <1>1, <1>2, <1>4 DEF SameHandle, Moved
<1>6. OthersUnchanged'
  BY <1>1, <1>2, <1>3 DEF OthersUnchanged, Stored, SameCall
<1>7. NamedBytes'
  BY <1>2, <1>4 DEF NamedBytes, Keeps, SameCall
<1>8. Running' /\ Busy'
  BY <1>1, <1>2, <1>4, <1>5, <1>6, <1>7 DEF Running, Busy, SameCall
<1>9. Typed'
  <2>1. \A n \in Names : name'[n] # None => content'[name'[n]] \in Seq(Int)
    BY <1>3 DEF Typed, Stored
  <2>2. \A h \in Handles : file'[h] # None => content'[file'[h].ino] \in Seq(Int)
    <3> SUFFICES ASSUME NEW h \in Handles, file'[h] # None PROVE content'[file'[h].ino] \in Seq(Int)
      OBVIOUS
    <3>1. CASE h = op.h
      BY <3>1 DEF Moved, Stored
    <3>2. CASE h # op.h
      <4>1. file'[h] = file[h] /\ content[file[h].ino] \in Seq(Int) /\ file[h] \in FileType
        BY <3>2 DEF Typed, Moved
      <4>2. file[h].ino \in Inodes
        BY <4>1 DEF FileType
      <4> QED BY <4>1, <4>2 DEF Stored
    <3> QED BY <3>1, <3>2
  <2>3. /\ op'.call \notin {"none", "lseek"} => op'.n \in Nat
        /\ op'.at # "idle" => op'.h \in Handles
    BY <1>1 DEF Typed, SameCall
  <2>4. file'[Tmp] # None => op'.call = "truncate" /\ op'.at \notin {"idle", "done"}
    <3>1. CASE op.call = "truncate"
      BY <3>1 DEF SameCall
    <3>2. CASE op.call # "truncate"
      <4>1. file[Tmp] = None /\ Tmp \in Handles
        BY <3>2 DEF Typed, Handles
      <4>2. CASE op.h = Tmp
        BY <1>1, <3>2, <4>2
      <4>3. CASE op.h # Tmp
        BY <4>1, <4>3 DEF Moved
      <4> QED BY <4>2, <4>3
    <3> QED BY <3>1, <3>2
  <2> QED BY <2>1, <2>2, <2>3, <2>4 DEF Typed, Moved, Stored
<1> QED BY <1>1, <1>2, <1>4, <1>8, <1>9 DEF Follows, SameCall, Renamed, Stale, F

(* What is known of the call in progress *)
LEMMA InCall ==
  ASSUME Typed, Running, Busy, op.at # "done"
  PROVE  /\ op.h \in Handles /\ F \in FileType /\ Handle \in FileType
         /\ F.ino = Handle.ino /\ F.path = Handle.path /\ F.acc = Handle.acc /\ F.append = Handle.append
         /\ F.ino \in Inodes /\ F.path \in Names /\ F.fsize \in Nat /\ F.fpos \in Nat
         /\ Handle.fsize \in Nat /\ OldOffset \in Nat /\ OldOffset = Handle.fpos
         /\ content[F.ino] = New /\ Size = Len(New) /\ New \in Seq(Int) /\ Old \in Seq(Int)
         /\ Len(New) \in Nat /\ Len(Old) \in Nat
         /\ op \in OpType /\ op.n \in Nat /\ op.off \in Nat /\ op.orig \in Nat /\ op.cur \in Nat
         /\ op.goal \in Nat
<1>1. /\ op.h \in Handles /\ Handle \in FileType /\ Old \in Seq(Int) /\ New \in Seq(Int)
      /\ op.call # "none" /\ op.call # "lseek" /\ SameHandle(F)
  BY DEF Running
<1>2. /\ F \in FileType /\ F.ino = Handle.ino /\ F.path = Handle.path /\ F.acc = Handle.acc
      /\ F.append = Handle.append
  BY <1>1 DEF SameHandle
<1>3. /\ F.ino \in Inodes /\ F.path \in Names /\ F.fsize \in Nat /\ F.fpos \in Nat
      /\ Handle.fsize \in Nat /\ Handle.fpos \in Nat
  BY <1>1, <1>2 DEF FileType
<1>4. /\ op \in OpType /\ op.n \in Nat /\ op.off \in Nat /\ op.orig \in Nat /\ op.cur \in Nat
      /\ op.goal \in Nat
  BY <1>1 DEF Typed, OpType
<1>5. content[F.ino] = New /\ Size = Len(New)
  BY <1>2 DEF New, Size
<1>6. Len(New) \in Nat /\ Len(Old) \in Nat
  BY <1>1
<1> QED BY <1>1, <1>2, <1>3, <1>4, <1>5, <1>6 DEF OldOffset

(* Looking the file up by its path *)
LEMMA Found ==
  ASSUME Typed, Running, Busy, op.at # "done"
  PROVE  /\ SizeError(F) \in {"ok", "ENOENT", "ESTALE"}
         /\ SizeError(F) = "ok" => CurrentSize(F) = Len(New) /\ name[Handle.path] = Handle.ino
         /\ SizeError(F) # "ok" => Renamed
<1>1. F.ino = Handle.ino /\ F.path = Handle.path /\ F.ino \in Inodes /\ content[F.ino] = New
  BY InCall
<1>2. SizeError(F) = IF name[F.path] = None THEN "ENOENT"
                     ELSE IF name[F.path] \notin {F.ino, None} THEN "ESTALE" ELSE "ok"
  BY DEF SizeError
<1>3. F.ino # None
  BY <1>1, FdAssumption
<1>4. SizeError(F) = "ok" <=> name[F.path] = F.ino
  BY <1>2, <1>3
<1> QED BY <1>1, <1>2, <1>4 DEF CurrentSize, Renamed

(* Each call's bytes are kept as the invariant says. *)
LEMMA NewKeeps ==
  ASSUME Typed, Running, Busy
  PROVE  Keeps(New, Old, Target, Within, op.call \in {"ftruncate", "truncate"} /\ Len(New) = op.off)
BY DEF Running, NamedBytes, Keeps

(* A step that touches no bytes *)
LEMMA Steps ==
  ASSUME Typed, Running, Busy, op.at # "done", SameCall, op' \in OpType, name' = name, calls' = calls,
         op'.at # "idle", op.call = "truncate" => op'.at # "done",
         NEW size \in Nat, NEW pos \in Nat, Moved(size, pos), content' = content
  PROVE  Follows(New, size, pos)
<1>1. F \in FileType /\ content[F.ino] = New /\ New \in Seq(Int)
  BY InCall
<1>2. Stored(New)
  BY <1>1, Storing
<1> QED BY <1>1, <1>2, NewKeeps, Goes

-----------------------------------------------------------------------------
(* The steps of the calls, one after the other. *)

(* The look at the current end, before an append *)
LEMMA AtAppend ==
  ASSUME IInv, SeekToCurrentEnd PROVE IInv'
<1> USE DEF At
<1>1. Typed /\ Running /\ Busy /\ op.at = "append" /\ AppendPlace /\ op.res = "ok"
  BY DEF IInv, SeekToCurrentEnd, Placed, Busy, AppendPlace
<1>2. /\ op.h \in Handles /\ F \in FileType /\ op \in OpType /\ Len(New) \in Nat
      /\ F.fsize \in Nat /\ F.fpos \in Nat
  BY <1>1, InCall
<1>3. content' = content /\ name' = name /\ before' = before /\ calls' = calls
  BY DEF SeekToCurrentEnd, Quiet
<1>4. New = Old /\ op.call = "write" /\ Handle.append
  BY <1>1 DEF AppendPlace, Unmoved
<1>5. CASE SizeError(F) = "ok"
  <2>1. op' = [op EXCEPT !.at = "put"] /\ CurrentSize(F) = Len(New)
        /\ file' = [file EXCEPT ![op.h].fsize = Len(New), ![op.h].fpos = Len(New)]
    BY <1>1, <1>5, Found DEF SeekToCurrentEnd, Goto, AppendPosition
  <2>2. op' \in OpType /\ SameCall /\ op'.at = "put" /\ op'.res = "ok"
    BY <1>1, <1>2, <1>3, <2>1 DEF OpType, Places, SameCall
  <2>3. Follows(New, Len(New), Len(New))
    BY <1>1, <1>2, <1>3, <1>4, <2>1, <2>2, Moving, Steps
  <2>4. PutPlace'
    BY <1>4, <2>2, <2>3 DEF PutPlace, Follows, SameCall
  <2> QED BY <2>2, <2>3, <2>4 DEF IInv, Placed, Settled, PositionedKeepsOffset, Follows, Ended
<1>6. CASE SizeError(F) # "ok"
  <2>1. op' = [op EXCEPT !.at = "done", !.res = SizeError(F)] /\ file' = file
    BY <1>6 DEF SeekToCurrentEnd, Done
  <2>2. SizeError(F) \in {"ENOENT", "ESTALE"} /\ Renamed
    BY <1>1, <1>6, Found
  <2>3. /\ op' \in OpType /\ SameCall /\ op'.at = "done" /\ op'.res \in {"ENOENT", "ESTALE"}
    BY <1>1, <1>2, <1>3, <2>1, <2>2 DEF OpType, Places, SameCall, Results
  <2>4. Follows(New, F.fsize, F.fpos)
    BY <1>1, <1>2, <1>3, <1>4, <2>1, <2>3, Moving, Steps
  <2>5. Outcome'
    BY <2>2, <2>3, <2>4 DEF Outcome, Explained, Follows
  <2>6. PositionedKeepsOffset'
    BY <1>4, <2>3 DEF PositionedKeepsOffset, SameCall
  <2> QED BY <2>3, <2>4, <2>5, <2>6 DEF IInv, Placed, Settled, Follows
<1> QED BY <1>5, <1>6

(* positioned_io's look at the size *)
LEMMA AtSize ==
  ASSUME IInv, PositionedSize PROVE IInv'
<1> USE DEF At
<1>1. Typed /\ Running /\ Busy /\ op.at = "size" /\ SizePlace /\ op.res = "ok"
  BY DEF IInv, PositionedSize, Placed, Busy, SizePlace, Positioned
<1>2. /\ op.h \in Handles /\ F \in FileType /\ op \in OpType /\ Len(New) \in Nat /\ New \in Seq(Int)
      /\ F.fsize \in Nat /\ F.fpos \in Nat /\ op.off \in Nat /\ op.n \in Nat
  BY <1>1, InCall
<1>3. content' = content /\ name' = name /\ before' = before /\ calls' = calls /\ file' = file
  BY DEF PositionedSize, Quiet
<1>4. /\ New = Old /\ F = Handle /\ op.call \in {"pread", "pwrite"} /\ op.n > 0
      /\ op.orig = OldOffset /\ op.goal = op.off /\ op.data = <<>>
  BY <1>1 DEF SizePlace, Unmoved, Positioned
<1>5. SizeError(F) \in Results /\ (SizeError(F) # "ok" => SizeError(F) \in {"ENOENT", "ESTALE"} /\ Renamed)
      /\ (SizeError(F) = "ok" => CurrentSize(F) = Len(New) /\ name[Handle.path] = Handle.ino)
  BY <1>1, Found DEF Results
<1>6. ASSUME NEW l \in {"restore", "resize", "seek"},
             op' = [op EXCEPT !.res = SizeError(F), !.at = l]
      PROVE  /\ op' \in OpType /\ SameCall /\ op'.at = l /\ op'.res = SizeError(F)
             /\ op'.orig = op.orig /\ op'.goal = op.goal /\ op'.data = op.data
             /\ Follows(New, F.fsize, F.fpos) /\ F' = F
  <2>1. /\ op' \in OpType /\ SameCall /\ op'.at = l /\ op'.res = SizeError(F)
        /\ op'.orig = op.orig /\ op'.goal = op.goal /\ op'.data = op.data
    BY <1>2, <1>3, <1>5, <1>6 DEF OpType, Places, SameCall
  <2>2. Moved(F.fsize, F.fpos)
    BY <1>1, <1>2, <1>3, Moving
  <2>3. Follows(New, F.fsize, F.fpos)
    BY <1>1, <1>2, <1>3, <1>4, <2>1, <2>2, Steps
  <2> QED BY <1>3, <2>1, <2>3 DEF F, SameCall
<1>7. CASE SizeError(F) # "ok" \/ Beyond
  <2>1. op' = [op EXCEPT !.res = SizeError(F), !.at = "restore"]
    <3>1. CASE SizeError(F) # "ok"
      BY <3>1 DEF PositionedSize
    <3>2. CASE SizeError(F) = "ok"
      <4>1. Beyond /\ op.call # "pwrite"
        BY <1>7, <3>2 DEF Beyond
      <4> QED BY <3>2, <4>1 DEF PositionedSize
    <3> QED BY <3>1, <3>2
  <2>2. /\ op' \in OpType /\ SameCall /\ op'.at = "restore" /\ op'.res = SizeError(F)
        /\ op'.orig = op.orig /\ op'.data = op.data
        /\ Follows(New, F.fsize, F.fpos) /\ F' = F
    BY <1>6, <2>1
  <2>3. RestorePlace'
    BY <1>4, <2>2 DEF RestorePlace, Follows, SameCall, Sized, Positioned
  <2>4. Outcome'
    <3>1. CASE SizeError(F) # "ok"
      BY <1>4, <1>5, <2>2, <3>1 DEF Outcome, Explained, Follows, SameCall
    <3>2. CASE SizeError(F) = "ok"
      <4>1. op.call = "pread" /\ op.off >= Len(Old)
        BY <1>4, <1>5, <1>7, <3>2 DEF Beyond
      <4>2. Bytes(Old, op.off, op.n) = <<>>
        BY <1>2, <1>4, <4>1, BytesIs
      <4>3. Promised'
        BY <1>4, <2>2, <4>1, <4>2 DEF Promised, Follows, SameCall
      <4> QED BY <1>4, <2>2, <3>2, <4>3 DEF Outcome, SameCall
    <3> QED BY <3>1, <3>2
  <2> QED BY <2>2, <2>3, <2>4 DEF IInv, Placed, Settled, PositionedKeepsOffset, Follows, Ended
<1>8. CASE SizeError(F) = "ok" /\ ~Beyond /\ op.call = "pwrite" /\ op.off > CurrentSize(F)
  <2>1. op' = [op EXCEPT !.res = SizeError(F), !.at = "resize"]
    BY <1>8 DEF PositionedSize
  <2>2. /\ op' \in OpType /\ SameCall /\ op'.at = "resize" /\ op'.res = SizeError(F)
        /\ op'.orig = op.orig /\ op'.goal = op.goal
        /\ Follows(New, F.fsize, F.fpos) /\ F' = F
    BY <1>6, <2>1
  <2>3. ResizePlace'
    BY <1>3, <1>4, <1>5, <1>8, <2>2 DEF ResizePlace, Unmoved, Follows, SameCall
  <2> QED BY <1>8, <2>2, <2>3 DEF IInv, Placed, Settled, PositionedKeepsOffset, Follows, Ended
<1>9. CASE SizeError(F) = "ok" /\ ~Beyond /\ ~(op.call = "pwrite" /\ op.off > CurrentSize(F))
  <2>1. op' = [op EXCEPT !.res = SizeError(F), !.at = "seek"]
    BY <1>9 DEF PositionedSize
  <2>2. /\ op' \in OpType /\ SameCall /\ op'.at = "seek" /\ op'.res = SizeError(F)
        /\ op'.orig = op.orig /\ op'.goal = op.goal
        /\ Follows(New, F.fsize, F.fpos) /\ F' = F
    BY <1>6, <2>1
  <2>3. op.call = "pread" => op.off < Len(Old)
    BY <1>2, <1>4, <1>5, <1>9 DEF Beyond
  <2>4. op.call = "pwrite" => Old = Padded(Old, op.off)
    BY <1>2, <1>4, <1>5, <1>9, PaddedSame
  <2>5. SeekPlace'
    BY <1>4, <2>2, <2>3, <2>4 DEF SeekPlace, Follows, SameCall, Sized, Positioned, Padded
  <2> QED BY <1>9, <2>2, <2>5 DEF IInv, Placed, Settled, PositionedKeepsOffset, Follows, Ended
<1> QED BY <1>7, <1>8, <1>9

(* Its seek, which fails only if the handle's size is not the file's *)
LEMMA AtSeek ==
  ASSUME IInv, PositionedSeek PROVE IInv'
<1> USE DEF At
<1>1. Typed /\ Running /\ Busy /\ op.at = "seek" /\ SeekPlace /\ op.res = "ok"
  BY DEF IInv, PositionedSeek, Placed, Busy, SeekPlace, Positioned
<1>2. /\ op.h \in Handles /\ F \in FileType /\ op \in OpType /\ Len(New) \in Nat /\ Old \in Seq(Int)
      /\ F.fsize \in Nat /\ F.fpos \in Nat /\ op.off \in Nat /\ Len(Old) \in Nat /\ Handle.fsize \in Nat
  BY <1>1, InCall
<1>3. content' = content /\ name' = name /\ before' = before /\ calls' = calls
  BY DEF PositionedSeek, Quiet
<1>4. /\ op.call \in {"pread", "pwrite"} /\ op.n > 0 /\ op.orig = OldOffset
      /\ (F.fsize = Len(New) \/ (F.fsize = Handle.fsize /\ New = Old))
      /\ (op.call = "pread" => New = Old /\ op.off < Len(Old))
      /\ (op.call = "pwrite" => New = Padded(Old, op.off))
  BY <1>1 DEF SeekPlace, Sized, Positioned
<1>5. CASE Seekable(F, op.off)
  <2> DEFINE l == IF op.call = "pwrite" THEN "put" ELSE "get"
  <2>1. op' = [op EXCEPT !.at = l] /\ file' = [file EXCEPT ![op.h].fpos = op.off]
    BY <1>5 DEF PositionedSeek, Goto
  <2>2. l \in {"put", "get"} /\ (l = "put" => op.call = "pwrite") /\ (l = "get" => op.call = "pread")
    BY <1>4
  <2> HIDE DEF l
  <2>3. op' \in OpType /\ SameCall /\ op'.at = l /\ op'.res = "ok" /\ op'.orig = op.orig
    BY <1>1, <1>2, <1>3, <2>1, <2>2 DEF OpType, Places, SameCall
  <2>4. Follows(New, F.fsize, op.off)
    <3>1. Moved(F.fsize, op.off)
      BY <1>1, <1>2, <2>1, Moving
    <3> QED BY <1>1, <1>2, <1>3, <1>4, <2>2, <2>3, <3>1, Steps
  <2>5. Sized'
    BY <1>4, <2>4 DEF Sized, Follows
  <2>6. l = "put" => PutPlace'
    BY <1>4, <2>2, <2>3, <2>4, <2>5 DEF PutPlace, Follows, SameCall, Padded
  <2>7. l = "get" => GetPlace'
    BY <1>4, <2>2, <2>3, <2>4, <2>5 DEF GetPlace, Follows, SameCall
  <2> QED BY <2>2, <2>3, <2>4, <2>6, <2>7 DEF IInv, Placed, Settled, PositionedKeepsOffset, Follows, Ended
<1>6. CASE ~Seekable(F, op.off)
  <2>1. op' = [op EXCEPT !.at = "restore", !.res = "EINVAL"] /\ file' = file
    BY <1>6 DEF PositionedSeek
  <2>2. /\ op' \in OpType /\ SameCall /\ op'.at = "restore" /\ op'.res = "EINVAL"
        /\ op'.orig = op.orig
    BY <1>2, <1>3, <2>1 DEF OpType, Places, SameCall, Results
  <2>3. Follows(New, F.fsize, F.fpos)
    <3>1. Moved(F.fsize, F.fpos)
      BY <1>1, <1>2, <2>1, Moving
    <3> QED BY <1>1, <1>2, <1>3, <1>4, <2>2, <3>1, Steps
  <2>4. RestorePlace'
    BY <1>4, <2>2, <2>3 DEF RestorePlace, Sized, Follows, SameCall, Positioned
  <2>5. Handle.fsize # Len(Old)
    <3>1. op.off > F.fsize
      BY <1>2, <1>6 DEF Seekable
    <3>2. op.call = "pwrite" => Len(New) >= op.off
      BY <1>2, <1>4, PaddedIs
    <3> QED BY <1>2, <1>4, <3>1, <3>2
  <2>6. Outcome'
    BY <2>2, <2>3, <2>5 DEF Outcome, Explained, Follows, Stale
  <2> QED BY <2>2, <2>3, <2>4, <2>6 DEF IInv, Placed, Settled, PositionedKeepsOffset, Follows, Ended
<1> QED BY <1>5, <1>6

(* An outcome stays what it is while the call ends. *)
LEMMA SameOutcome ==
  ASSUME Outcome, New' = New, Old' = Old, Handle' = Handle, OldOffset' = OldOffset, Within' = Within,
         Renamed' = Renamed, Stale' = Stale, SameCall,
         op'.res = op.res, op'.data = op.data, op'.hit = op.hit
  PROVE  Outcome'
<1>1. Promised' <=> Promised
  BY DEF Promised, SameCall
<1>2. Explained' <=> Explained
  BY DEF Explained, SameCall
<1>3. New' = New /\ Old' = Old /\ Handle' = Handle /\ op'.call = op.call
  BY DEF SameCall
<1> QED BY <1>1, <1>2, <1>3 DEF Outcome

(* Its return to the offset, which fails only if that is beyond the end *)
LEMMA AtRestore ==
  ASSUME IInv, PositionedRestore PROVE IInv'
<1> USE DEF At
<1>1. Typed /\ Running /\ Busy /\ op.at = "restore" /\ RestorePlace /\ Outcome
  BY DEF IInv, PositionedRestore, Placed, Settled, Busy, RestorePlace, Positioned
<1>2. /\ op.h \in Handles /\ F \in FileType /\ op \in OpType /\ Len(New) \in Nat
      /\ F.fsize \in Nat /\ F.fpos \in Nat /\ op.orig \in Nat /\ Len(Old) \in Nat /\ Handle.fsize \in Nat
      /\ OldOffset \in Nat
  BY <1>1, InCall
<1>3. content' = content /\ name' = name /\ before' = before /\ calls' = calls
  BY DEF PositionedRestore, Quiet
<1>4. /\ op.call \in {"pread", "pwrite"} /\ op.orig = OldOffset
      /\ (F.fsize = Len(New) \/ (F.fsize = Handle.fsize /\ New = Old))
  BY <1>1 DEF RestorePlace, Sized, Positioned
<1>5. CASE Seekable(F, op.orig)
  <2>1. /\ op' = [op EXCEPT !.at = "done", !.res = op.res]
        /\ file' = [file EXCEPT ![op.h].fpos = op.orig]
    BY <1>5 DEF PositionedRestore, Done, RestoreTo
  <2>2. /\ op' \in OpType /\ SameCall /\ op'.at = "done" /\ op'.res = op.res
        /\ op'.data = op.data /\ op'.hit = op.hit
    BY <1>2, <1>3, <2>1 DEF OpType, Places, SameCall
  <2>3. Follows(New, F.fsize, op.orig)
    <3>1. Moved(F.fsize, op.orig)
      BY <1>1, <1>2, <2>1, Moving
    <3> QED BY <1>1, <1>2, <1>3, <1>4, <2>2, <3>1, Steps
  <2>4. Outcome'
    BY <1>1, <2>2, <2>3, SameOutcome DEF Follows
  <2>5. PositionedKeepsOffset'
    BY <1>4, <2>3 DEF PositionedKeepsOffset, Follows
  <2> QED BY <2>2, <2>3, <2>4, <2>5 DEF IInv, Placed, Settled, Follows
<1>6. CASE ~Seekable(F, op.orig)
  <2> DEFINE e == IF op.res = "ok" THEN "EINVAL" ELSE op.res
  <2>1. op' = [op EXCEPT !.at = "done", !.res = e] /\ file' = file
    BY <1>6 DEF PositionedRestore, Done, RestoreTo
  <2>2. e \in Results /\ e # "ok" /\ (op.res = "ok" => e = "EINVAL") /\ (op.res # "ok" => e = op.res)
    BY <1>2 DEF OpType, Results
  <2> HIDE DEF e
  <2>3. /\ op' \in OpType /\ SameCall /\ op'.at = "done" /\ op'.res = e
        /\ op'.data = op.data /\ op'.hit = op.hit
    BY <1>2, <1>3, <2>1, <2>2 DEF OpType, Places, SameCall
  <2>4. Follows(New, F.fsize, F.fpos)
    <3>1. Moved(F.fsize, F.fpos)
      BY <1>1, <1>2, <2>1, Moving
    <3> QED BY <1>1, <1>2, <1>3, <1>4, <2>3, <3>1, Steps
  <2>5. Outcome'
    <3>1. CASE op.res # "ok"
      BY <1>1, <2>2, <2>3, <2>4, <3>1, SameOutcome DEF Follows
    <3>2. CASE op.res = "ok"
      <4>1. OldOffset > F.fsize
        BY <1>2, <1>4, <1>6 DEF Seekable
      <4>2. ~(Len(New) < Len(Old))
        BY <1>1, <1>4 DEF Running, NamedBytes
      <4>3. Stale
        BY <1>2, <1>4, <4>1, <4>2 DEF Stale, Within
      <4> QED BY <2>2, <2>3, <2>4, <3>2, <4>3 DEF Outcome, Explained, Follows
    <3> QED BY <3>1, <3>2
  <2>6. OldOffset > F.fsize
    BY <1>2, <1>4, <1>6 DEF Seekable
  <2>7. PositionedKeepsOffset'
    BY <2>2, <2>3, <2>4, <2>6 DEF PositionedKeepsOffset, Follows
  <2> QED BY <2>3, <2>4, <2>5, <2>7 DEF IInv, Placed, Settled, Follows
<1> QED BY <1>5, <1>6

(* A read *)
LEMMA AtGet ==
  ASSUME IInv, Get PROVE IInv'
<1> USE DEF At
<1>1. Typed /\ Running /\ Busy /\ op.at = "get" /\ GetPlace /\ op.res = "ok"
  BY DEF IInv, Get, Placed, Busy, GetPlace
<1>2. /\ op.h \in Handles /\ F \in FileType /\ op \in OpType /\ Len(New) \in Nat /\ New \in Seq(Int)
      /\ F.fsize \in Nat /\ F.fpos \in Nat /\ op.off \in Nat /\ op.n \in Nat
      /\ content[F.ino] = New /\ Size = Len(New) /\ OldOffset \in Nat
  BY <1>1, InCall
<1>3. content' = content /\ name' = name /\ before' = before /\ calls' = calls
  BY DEF Get, Quiet
<1>4. /\ op.call \in {"read", "pread"} /\ New = Old
      /\ op.call = "read" => F.fpos = OldOffset
      /\ op.call = "pread" => F.fpos = op.off /\ op.off < Len(Old) /\ op.orig = OldOffset /\ Sized
  BY <1>1 DEF GetPlace
<1>5. PICK d \in IF F.fpos <= Size THEN {Bytes(content[F.ino], F.fpos, op.n)} ELSE {<<>>, Garbage} :
           /\ Transferred("ok", d)
           /\ file' = [file EXCEPT ![op.h].fsize = Renewed(Size), ![op.h].fpos = @ + Len(d)]
  BY DEF Get
<1>6. d \in Seq(Int) /\ (F.fpos <= Len(New) => d = Bytes(New, F.fpos, op.n))
  <2>1. Bytes(New, F.fpos, op.n) \in Seq(Int)
    BY <1>2, BytesIs
  <2>2. Garbage \in Seq(Int)
    BY <1>2 DEF Garbage, Junk
  <2>3. <<>> \in Seq(Int)
    OBVIOUS
  <2> QED BY <1>2, <1>5, <2>1, <2>2, <2>3
<1> DEFINE l == IF Positioned THEN "restore" ELSE "done"
<1>7. l \in {"restore", "done"} /\ (l = "restore" <=> op.call = "pread")
  BY <1>4 DEF Positioned
<1>8. op' = [op EXCEPT !.at = l, !.res = "ok", !.data = d]
  BY <1>5 DEF Transferred
<1> HIDE DEF l
<1>9. /\ op' \in OpType /\ SameCall /\ op'.at = l /\ op'.res = "ok" /\ op'.data = d
      /\ op'.orig = op.orig
  BY <1>2, <1>3, <1>6, <1>7, <1>8 DEF OpType, Places, SameCall, Results
<1>10. PICK size \in Nat : size = Renewed(Size) /\ (size = F.fsize \/ size = Len(New))
  BY <1>2 DEF Renewed
<1>11. Follows(New, size, F.fpos + Len(d))
  <2>1. Len(d) \in Nat /\ F.fpos + Len(d) \in Nat
    BY <1>2, <1>6
  <2>2. file' = [file EXCEPT ![op.h].fsize = size, ![op.h].fpos = F.fpos + Len(d)]
    BY <1>1, <1>2, <1>5, <1>10 DEF F, Typed
  <2>3. Moved(size, F.fpos + Len(d))
    BY <1>1, <1>2, <2>1, <2>2, Moving
  <2> QED BY <1>1, <1>2, <1>3, <1>4, <1>7, <1>9, <2>1, <2>3, Steps
<1>12. Outcome'
  <2>1. op.call = "pread" => d = Bytes(Old, op.off, op.n)
    BY <1>2, <1>4, <1>6
  <2>2. op.call = "read" /\ Within => d = Bytes(Old, OldOffset, op.n)
    BY <1>2, <1>4, <1>6 DEF Within
  <2>3. Promised'
    BY <1>4, <1>9, <1>11, <2>1, <2>2 DEF Promised, Follows, SameCall
  <2> QED BY <1>4, <1>9, <2>3 DEF Outcome, SameCall
<1>13. l = "restore" => RestorePlace'
  BY <1>4, <1>7, <1>9, <1>10, <1>11 DEF RestorePlace, Positioned, Sized, Follows, SameCall
<1>14. l = "done" => PositionedKeepsOffset'
  BY <1>4, <1>7, <1>9 DEF PositionedKeepsOffset, SameCall
<1>15. Placed'
  BY <1>7, <1>9, <1>13 DEF Placed
<1>16. PositionedKeepsOffset'
  BY <1>7, <1>9, <1>14 DEF PositionedKeepsOffset, Ended
<1> QED BY <1>7, <1>9, <1>11, <1>12, <1>15, <1>16 DEF IInv, Settled, Follows

(* What ext4_fwrite leaves in the handle and the file *)
LEMMA Writing ==
  ASSUME Typed, op.h \in Handles, F \in FileType, content[F.ino] \in Seq(Int),
         NEW d \in Seq(Int), Fwrite(d)
  PROVE  \E gap \in {0, Junk}, b \in Seq(Int), size \in Nat :
            /\ b = IF d = <<>> THEN content[F.ino] ELSE Overlay(content[F.ino], F.fpos, d, gap)
            /\ F.fpos <= Size => gap = 0
            /\ Stored(b) /\ Moved(size, F.fpos + Len(d))
            /\ size = Len(b) \/ (op.n = 0 /\ op.at # "grow" /\ size = F.fsize)
<1>1. PICK gap \in IF F.fpos <= Size THEN {0} ELSE {0, Junk} :
        LET b == IF d = <<>> THEN content[F.ino] ELSE Overlay(content[F.ino], F.fpos, d, gap)
        IN  /\ content' = [content EXCEPT ![F.ino] = b]
            /\ file' = [file EXCEPT ![op.h].fsize = Renewed(Len(b)), ![op.h].fpos = @ + Len(d)]
  BY DEF Fwrite
<1> DEFINE b == IF d = <<>> THEN content[F.ino] ELSE Overlay(content[F.ino], F.fpos, d, gap)
<1>2. F.fpos \in Nat /\ F.fsize \in Nat
  BY DEF FileType
<1>3. gap \in {0, Junk} /\ gap \in Int /\ (F.fpos <= Size => gap = 0)
  BY <1>1 DEF Junk
<1>4. b \in Seq(Int)
  BY <1>2, <1>3, OverlayIs
<1>5. content' = [content EXCEPT ![F.ino] = b]
  BY <1>1
<1>6. file' = [file EXCEPT ![op.h].fsize = Renewed(Len(b)), ![op.h].fpos = @ + Len(d)]
  BY <1>1
<1>7. b = IF d = <<>> THEN content[F.ino] ELSE Overlay(content[F.ino], F.fpos, d, gap)
  OBVIOUS
<1> HIDE DEF b
<1>8. Len(b) \in Nat /\ Len(d) \in Nat /\ F.fpos + Len(d) \in Nat
  BY <1>2, <1>4
<1>9. PICK size \in Nat : /\ size = Renewed(Len(b))
                          /\ size = Len(b) \/ (op.n = 0 /\ op.at # "grow" /\ size = F.fsize)
  BY <1>2, <1>8 DEF Renewed, At
<1>10. Stored(b)
  BY <1>4, <1>5, Storing
<1>11. file' = [file EXCEPT ![op.h].fsize = size, ![op.h].fpos = F.fpos + Len(d)]
  BY <1>6, <1>9 DEF F, Typed
<1>12. Moved(size, F.fpos + Len(d))
  BY <1>8, <1>11, Moving
<1> QED BY <1>3, <1>4, <1>7, <1>9, <1>10, <1>12

(* What a write's bytes come to, all or some of them *)
LEMMA Wrote ==
  ASSUME IInv, op.at = "put", NEW d \in Seq(Int), Len(d) <= op.n, Fwrite(d)
  PROVE  \E b \in Seq(Int), size \in Nat :
            /\ Stored(b) /\ Moved(size, F.fpos + Len(d))
            /\ Keeps(b, Old, Target, Within, op.call \in {"ftruncate", "truncate"} /\ Len(b) = op.off)
            /\ op.call = "pwrite" => b = Overlay(Old, op.off, d, 0) /\ size = Len(b)
            /\ op.call = "write" /\ Handle.append => b = Old \o d
            /\ op.call = "write" /\ ~Handle.append /\ Within => b = Overlay(Old, OldOffset, d, 0)
<1>1. Typed /\ Running /\ Busy /\ PutPlace
  BY DEF IInv, Placed, Busy, PutPlace
<1>2. /\ op.h \in Handles /\ F \in FileType /\ Len(New) \in Nat /\ New \in Seq(Int) /\ Old \in Seq(Int)
      /\ F.fpos \in Nat /\ op.off \in Nat /\ op.n \in Nat /\ Len(Old) \in Nat
      /\ content[F.ino] = New /\ Size = Len(New) /\ OldOffset \in Nat /\ Handle \in FileType
  BY <1>1, InCall
<1>3. PICK gap \in {0, Junk}, b \in Seq(Int), size \in Nat :
            /\ b = IF d = <<>> THEN New ELSE Overlay(New, F.fpos, d, gap)
            /\ F.fpos <= Len(New) => gap = 0
            /\ Stored(b) /\ Moved(size, F.fpos + Len(d))
            /\ size = Len(b) \/ (op.n = 0 /\ op.at # "grow" /\ size = F.fsize)
  BY <1>1, <1>2, Writing
<1> DEFINE cut == op.call \in {"ftruncate", "truncate"} /\ Len(b) = op.off
<1>4. Within \in BOOLEAN /\ Len(d) \in Nat /\ gap \in Int
  BY DEF Within, Junk
<1>5. CASE op.call = "pwrite"
  <2>1. New = Padded(Old, op.off) /\ F.fpos = op.off /\ op.n > 0
    BY <1>1, <1>5 DEF PutPlace
  <2>2. op.off <= Len(New)
    BY <1>2, <2>1, PaddedIs
  <2>3. b = Overlay(Old, op.off, d, 0)
    <3>1. CASE d = <<>>
      BY <1>3, <2>1, <3>1 DEF Padded
    <3>2. CASE d # <<>>
      BY <1>2, <1>3, <2>1, <2>2, <3>2, OverlayPadded
    <3> QED BY <3>1, <3>2
  <2>4. Target = op.off + 1 .. op.off + op.n
    BY <1>5 DEF Target
  <2>5. Keeps(Overlay(Old, op.off, d, 0), Old, op.off + 1 .. op.off + op.n, Within, cut)
    BY <1>2, <1>4, OverlayPaddedKeeps
  <2> QED BY <1>2, <1>3, <1>5, <2>1, <2>3, <2>4, <2>5
<1>6. CASE op.call = "write" /\ Handle.append
  <2>1. New = Old /\ F.fpos = Len(Old)
    BY <1>1, <1>6 DEF PutPlace
  <2>2. Overlay(Old, Len(Old), d, 0) = Old \o d
    BY <1>2, OverlayAtEnd
  <2>3. b = Old \o d
    <3>1. CASE d = <<>>
      BY <1>2, <1>3, <2>1, <3>1
    <3>2. CASE d # <<>>
      BY <1>2, <1>3, <2>1, <2>2, <3>2
    <3> QED BY <3>1, <3>2
  <2>4. Target = Len(Old) + 1 .. Len(Old) + op.n
    BY <1>6 DEF Target
  <2>5. Keeps(Overlay(Old, Len(Old), d, 0), Old, Len(Old) + 1 .. Len(Old) + op.n, Within, cut)
    BY <1>2, <1>4, OverlayPaddedKeeps
  <2>6. Keeps(b, Old, Target, Within, cut)
    BY <2>2, <2>3, <2>4, <2>5
  <2> QED BY <1>3, <1>6, <2>3, <2>6
<1>7. CASE op.call = "write" /\ ~Handle.append
  <2>1. New = Old /\ F.fpos = OldOffset
    BY <1>1, <1>7 DEF PutPlace
  <2>2. Target = OldOffset + 1 .. OldOffset + op.n
    BY <1>7 DEF Target
  <2>3. Within => b = Overlay(Old, OldOffset, d, 0)
    <3> SUFFICES ASSUME Within PROVE b = Overlay(Old, OldOffset, d, 0)
      OBVIOUS
    <3>1. OldOffset <= Len(Old)
      BY DEF Within
    <3>2. CASE d = <<>>
      BY <1>2, <1>3, <2>1, <3>1, <3>2, PaddedSame DEF Padded
    <3>3. CASE d # <<>>
      BY <1>2, <1>3, <2>1, <3>1, <3>3
    <3> QED BY <3>2, <3>3
  <2>4. Keeps(b, Old, Target, Within, cut)
    <3>1. CASE d = <<>>
      <4>1. Keeps(Old, Old, Target, Within, cut)
        BY <1>2, SameKeeps
      <4> QED BY <1>3, <2>1, <3>1, <4>1
    <3>2. CASE d # <<>>
      <4>1. OldOffset <= Len(Old) \/ ~Within
        BY DEF Within
      <4>2. Keeps(Overlay(Old, OldOffset, d, gap), Old, OldOffset + 1 .. OldOffset + op.n, Within, cut)
        BY <1>2, <1>4, <4>1, OverlayKeeps
      <4> QED BY <1>3, <2>1, <2>2, <3>2, <4>2
    <3> QED BY <3>1, <3>2
  <2> QED BY <1>3, <1>7, <2>3, <2>4
<1>8. op.call \in {"write", "pwrite"}
  BY <1>1 DEF PutPlace
<1> QED BY <1>5, <1>6, <1>7, <1>8

(* A write ends with the bytes it has written. *)
LEMMA Written ==
  ASSUME IInv, op.at = "put", NEW d \in Seq(Int), Len(d) <= op.n, Fwrite(d),
         NEW e \in {"ok", "EIO"}, NEW hit \in BOOLEAN, e = "EIO" => hit,
         op' = [op EXCEPT !.at = IF Positioned THEN "restore" ELSE "done",
                          !.res = e, !.data = d, !.hit = hit],
         name' = name, before' = before, calls' = calls
  PROVE  IInv'
<1>1. Typed /\ Running /\ Busy /\ PutPlace
  BY DEF IInv, Placed, Busy, PutPlace
<1>2. /\ op.h \in Handles /\ F \in FileType /\ op \in OpType
      /\ F.fpos \in Nat /\ op.off \in Nat /\ op.n \in Nat
  BY <1>1, InCall
<1>3. /\ op.call \in {"write", "pwrite"}
      /\ op.call = "pwrite" => op.n > 0 /\ op.orig = OldOffset
  BY <1>1 DEF PutPlace
<1>4. PICK b \in Seq(Int), size \in Nat :
            /\ Stored(b) /\ Moved(size, F.fpos + Len(d))
            /\ Keeps(b, Old, Target, Within, op.call \in {"ftruncate", "truncate"} /\ Len(b) = op.off)
            /\ op.call = "pwrite" => b = Overlay(Old, op.off, d, 0) /\ size = Len(b)
            /\ op.call = "write" /\ Handle.append => b = Old \o d
            /\ op.call = "write" /\ ~Handle.append /\ Within => b = Overlay(Old, OldOffset, d, 0)
  BY Wrote
<1> DEFINE l == IF Positioned THEN "restore" ELSE "done"
<1>5. l \in {"restore", "done"} /\ (l = "restore" <=> op.call = "pwrite")
  BY <1>3 DEF Positioned
<1>6. op' = [op EXCEPT !.at = l, !.res = e, !.data = d, !.hit = hit]
  OBVIOUS
<1> HIDE DEF l
<1>7. /\ op' \in OpType /\ SameCall /\ op'.at = l /\ op'.res = e /\ op'.data = d
      /\ op'.orig = op.orig /\ op'.hit = hit
  BY <1>2, <1>5, <1>6 DEF OpType, Places, SameCall, Results
<1>8. Follows(b, size, F.fpos + Len(d))
  <2>1. F.fpos + Len(d) \in Nat
    BY <1>2
  <2> QED BY <1>1, <1>3, <1>4, <1>5, <1>7, <2>1, Goes
<1>9. Outcome'
  <2>1. Promised'
    BY <1>3, <1>4, <1>7, <1>8 DEF Promised, Follows, SameCall
  <2>2. (op.call = "write" /\ Handle.append => New = Old \o op.data)'
    BY <1>4, <1>7, <1>8 DEF Follows, SameCall
  <2> QED BY <1>7, <2>1, <2>2 DEF Outcome
<1>10. l = "restore" => RestorePlace'
  BY <1>3, <1>4, <1>5, <1>7, <1>8 DEF RestorePlace, Positioned, Sized, Follows, SameCall
<1>11. Placed'
  BY <1>5, <1>7, <1>10 DEF Placed
<1>12. PositionedKeepsOffset'
  BY <1>3, <1>5, <1>7 DEF PositionedKeepsOffset, Ended, At, SameCall
<1> QED BY <1>5, <1>7, <1>8, <1>9, <1>11, <1>12 DEF IInv, Settled, Follows

(* Both ways in which a write ends *)
LEMMA AtPut ==
  ASSUME IInv, Put \/ PutPart PROVE IInv'
<1>1. op.at = "put" /\ Typed /\ Running /\ Busy
  BY DEF IInv, Put, PutPart, Placed, Busy, PutPlace, At
<1>2. op.n \in Nat /\ op \in OpType /\ calls \in Int
  BY <1>1, InCall DEF Typed
<1>3. Data \in Seq(Int) /\ Len(Data) = op.n
  BY <1>2 DEF Data
<1>4. CASE Put
  <2>1. op' = [op EXCEPT !.at = IF Positioned THEN "restore" ELSE "done",
                         !.res = "ok", !.data = Data, !.hit = op.hit]
    BY <1>2, <1>4 DEF Put, Transferred, OpType
  <2>2. op.hit \in BOOLEAN /\ Len(Data) <= op.n
    BY <1>2, <1>3 DEF OpType
  <2> QED BY <1>1, <1>3, <1>4, <2>1, <2>2, Written DEF Put, Quiet
<1>5. CASE PutPart
  <2>1. PICK k \in 0 .. op.n, e \in {"ok", "EIO"} :
          LET d == SubSeq(Data, 1, k)
          IN  /\ Fwrite(d)
              /\ op' = [op EXCEPT !.at = IF Positioned THEN "restore" ELSE "done",
                                  !.res = e, !.data = d, !.hit = TRUE]
    BY <1>5 DEF PutPart
  <2>2. SubSeq(Data, 1, k) \in Seq(Int) /\ Len(SubSeq(Data, 1, k)) <= op.n
    <3>1. k \in Nat /\ k <= op.n /\ \A i \in 1 .. k : Data[i] \in Int
      BY <1>2, <1>3 DEF Data
    <3>2. SubSeq(Data, 1, k) \in Seq(Int) /\ Len(SubSeq(Data, 1, k)) = (IF 1 <= k THEN k - 1 + 1 ELSE 0)
      BY <3>1, SubSeqProperties
    <3> QED BY <1>2, <3>1, <3>2
  <2> QED BY <1>1, <1>5, <2>1, <2>2, Written DEF PutPart, Fault
<1> QED BY <1>4, <1>5

(* How ext4_ftruncate cuts a file off *)
LEMMA Cutting ==
  ASSUME Typed, Running, Busy, op.at # "done", NEW n \in Nat, Ftruncate(n)
  PROVE  \E size, pos \in Nat :
            /\ Moved(size, pos) /\ Stored(Bytes(New, 0, n)) /\ Bytes(New, 0, n) \in Seq(Int)
<1>1. /\ op.h \in Handles /\ F \in FileType /\ F.fpos \in Nat /\ New \in Seq(Int) /\ Len(New) \in Nat
      /\ content[F.ino] = New /\ Size = Len(New) /\ F.ino \in Inodes
  BY InCall
<1>2. PICK pos \in {F.fpos, Least(F.fpos, n)} :
        /\ content' = [content EXCEPT ![F.ino] = Bytes(@, 0, n)]
        /\ file' = [file EXCEPT ![op.h].fsize = Least(Size, n), ![op.h].fpos = pos]
  BY DEF Ftruncate
<1>3. pos \in Nat /\ Least(Size, n) \in Nat /\ Bytes(New, 0, n) \in Seq(Int)
  BY <1>1, <1>2, BytesIs DEF Least
<1>4. content' = [content EXCEPT ![F.ino] = Bytes(New, 0, n)]
  BY <1>1, <1>2 DEF Typed
<1>5. Stored(Bytes(New, 0, n))
  BY <1>1, <1>3, <1>4, Storing
<1>6. Moved(Least(Size, n), pos)
  BY <1>1, <1>2, <1>3, Moving
<1> QED BY <1>3, <1>5, <1>6

(* A file that is cut off where the call says keeps the bytes before. *)
LEMMA CutHere ==
  ASSUME Old \in Seq(Int), op.off \in Nat, op.call \in {"ftruncate", "truncate"}
  PROVE  Keeps(Bytes(Old, 0, op.off), Old, Target, Within,
               op.call \in {"ftruncate", "truncate"} /\ Len(Bytes(Old, 0, op.off)) = op.off)
<1>1. Keeps(Bytes(Old, 0, op.off), Old, Target, Within,
            op.off < Len(Old) /\ Len(Bytes(Old, 0, op.off)) = op.off)
  BY CutKeeps
<1> QED BY <1>1 DEF Keeps

(* The lengths that resize_file_locked has to deal with *)
LEMMA AtResize ==
  ASSUME IInv, Resize PROVE IInv'
<1> USE DEF At
<1>1. Typed /\ Running /\ Busy /\ op.at = "resize" /\ ResizePlace /\ op.res = "ok"
  BY DEF IInv, Resize, Placed, Busy, ResizePlace
<1>2. /\ op.h \in Handles /\ F \in FileType /\ op \in OpType /\ Len(New) \in Nat /\ New \in Seq(Int)
      /\ F.fsize \in Nat /\ F.fpos \in Nat /\ op.off \in Nat /\ op.n \in Nat /\ OldOffset = Handle.fpos
  BY <1>1, InCall
<1>3. name' = name /\ before' = before /\ calls' = calls
  BY DEF Resize, Quiet
<1>4. /\ op.call \in {"pwrite", "ftruncate", "truncate"} /\ op.goal = op.off /\ New = Old /\ F = Handle
      /\ op.call = "pwrite" => op.n > 0 /\ op.orig = OldOffset /\ op.off > Len(Old)
  BY <1>1 DEF ResizePlace, Unmoved
<1>5. SizeError(F) \in Results /\ (SizeError(F) # "ok" => SizeError(F) \in {"ENOENT", "ESTALE"} /\ Renamed)
      /\ (SizeError(F) = "ok" => CurrentSize(F) = Len(New))
  BY <1>1, Found DEF Results
<1>6. CASE SizeError(F) # "ok"
  <2>1. Resized(SizeError(F)) /\ content' = content /\ file' = file
    BY <1>6 DEF Resize
  <2>2. PICK l \in {"closetmp", "done", "restore"} :
          /\ op' = [op EXCEPT !.res = SizeError(F), !.at = l]
          /\ l = "closetmp" <=> op.call = "truncate"
          /\ l = "done" <=> op.call = "ftruncate"
    BY <1>4, <1>6, <2>1 DEF Resized
  <2>3. /\ op' \in OpType /\ SameCall /\ op'.at = l /\ op'.res = SizeError(F)
        /\ op'.orig = op.orig
    BY <1>2, <1>3, <1>5, <2>2 DEF OpType, Places, SameCall
  <2>4. Follows(New, F.fsize, F.fpos)
    <3>1. Moved(F.fsize, F.fpos)
      BY <1>1, <1>2, <2>1, Moving
    <3> QED BY <1>1, <1>2, <1>3, <1>4, <2>1, <2>2, <2>3, <3>1, Steps
  <2>5. Outcome'
    BY <1>5, <1>6, <2>3, <2>4 DEF Outcome, Explained, Follows
  <2>6. l = "restore" => RestorePlace'
    BY <1>4, <2>2, <2>3, <2>4 DEF RestorePlace, Positioned, Sized, Follows, SameCall
  <2>7. Placed'
    BY <2>2, <2>3, <2>6 DEF Placed, SameCall
  <2>8. F.fpos = OldOffset
    BY <1>2, <1>4
  <2>9. PositionedKeepsOffset'
    BY <2>4, <2>8 DEF PositionedKeepsOffset, Follows
  <2> QED BY <2>3, <2>4, <2>5, <2>7, <2>9 DEF IInv, Settled, Follows
<1>7. CASE SizeError(F) = "ok" /\ op.goal <= CurrentSize(F)
  <2>1. Resized("ok") /\ Ftruncate(op.off)
    BY <1>4, <1>7 DEF Resize
  <2>2. op.call \in {"ftruncate", "truncate"} /\ op.off <= Len(Old)
    BY <1>2, <1>4, <1>5, <1>7
  <2>3. PICK l \in {"closetmp", "done"} :
          /\ op' = [op EXCEPT !.res = "ok", !.at = l]
          /\ l = "closetmp" <=> op.call = "truncate"
          /\ l = "done" <=> op.call = "ftruncate"
    BY <2>1, <2>2 DEF Resized
  <2>4. op' \in OpType /\ SameCall /\ op'.at = l /\ op'.res = "ok"
    BY <1>2, <1>3, <2>3 DEF OpType, Places, SameCall, Results
  <2>5. PICK size, pos \in Nat : /\ Moved(size, pos) /\ Stored(Bytes(Old, 0, op.off))
                                 /\ Bytes(Old, 0, op.off) \in Seq(Int)
    BY <1>1, <1>2, <1>4, <2>1, Cutting
  <2>6. Follows(Bytes(Old, 0, op.off), size, pos)
    BY <1>1, <1>2, <1>3, <1>4, <2>2, <2>3, <2>4, <2>5, CutHere, Goes
  <2>7. Bytes(Old, 0, op.off) = [i \in 1 .. op.off |-> IF i <= Len(Old) THEN Old[i] ELSE 0]
    BY <1>2, <1>4, <2>2, CutKeeps
  <2>8. Promised'
    BY <2>2, <2>4, <2>6, <2>7 DEF Promised, Follows, SameCall
  <2>9. Outcome'
    BY <2>2, <2>4, <2>8 DEF Outcome, SameCall
  <2>10. PositionedKeepsOffset'
    BY <1>2, <1>4, <2>2, <2>4, <2>6 DEF PositionedKeepsOffset, Follows, SameCall
  <2>11. Placed'
    BY <2>3, <2>4 DEF Placed, SameCall
  <2> QED BY <2>3, <2>4, <2>6, <2>9, <2>10, <2>11 DEF IInv, Settled, Follows
<1>8. CASE SizeError(F) = "ok" /\ ~(op.goal <= CurrentSize(F))
  <2>1. /\ op' = [op EXCEPT !.at = "grow", !.orig = F.fpos, !.cur = Len(New)]
        /\ file' = [file EXCEPT ![op.h].fsize = Len(New), ![op.h].fpos = Len(New)]
        /\ content' = content
    BY <1>5, <1>8 DEF Resize, GrowFrom
  <2>2. /\ op' \in OpType /\ SameCall /\ op'.at = "grow" /\ op'.res = "ok" /\ op'.goal = op.goal
        /\ op'.orig = OldOffset /\ op'.cur = Len(Old)
    BY <1>1, <1>2, <1>3, <1>4, <2>1 DEF OpType, Places, SameCall
  <2>3. Follows(New, Len(New), Len(New))
    <3>1. Moved(Len(New), Len(New))
      BY <1>1, <1>2, <2>1, Moving
    <3> QED BY <1>1, <1>2, <1>3, <2>1, <2>2, <3>1, Steps
  <2>4. Old = Padded(Old, Len(Old)) /\ Len(Old) <= Len(Old)
    BY <1>2, <1>4, PaddedSame
  <2>5. Len(Old) < op.goal
    BY <1>2, <1>4, <1>5, <1>8
  <2>6. (New = Padded(Old, op.cur))'
    BY <1>4, <2>2, <2>3, <2>4 DEF Padded, Follows
  <2>7. GrowPlace'
    <3>1. /\ op'.call \in {"pwrite", "ftruncate", "truncate"} /\ op'.goal = op'.off
          /\ op'.call = "pwrite" => op'.n > 0
      BY <1>4, <2>2 DEF SameCall
    <3>2. /\ Old' = Old /\ OldOffset' = OldOffset
          /\ F'.fsize = op'.cur /\ F'.fpos = op'.cur /\ op'.orig = OldOffset'
      BY <1>4, <2>2, <2>3 DEF Follows
    <3>3. Len(Old') <= op'.cur /\ op'.cur <= op'.goal /\ Len(Old') < op'.goal
      BY <1>2, <1>4, <2>2, <2>4, <2>5, <3>2
    <3> QED BY <2>6, <3>1, <3>2, <3>3 DEF GrowPlace, Growing
  <2> QED BY <2>2, <2>3, <2>7 DEF IInv, Placed, Settled, PositionedKeepsOffset, Follows, Ended
<1> QED BY <1>6, <1>7, <1>8

(* A turn of the growing, or some of it *)
LEMMA Grew ==
  ASSUME IInv, op.at = "grow", NEW k \in Nat, op.cur + k <= op.goal, Fwrite(Zeros(k))
  PROVE  /\ Stored(Padded(Old, op.cur + k)) /\ Padded(Old, op.cur + k) \in Seq(Int)
         /\ Moved(op.cur + k, op.cur + k)
         /\ Keeps(Padded(Old, op.cur + k), Old, Target, Within,
                  op.call \in {"ftruncate", "truncate"} /\ Len(Padded(Old, op.cur + k)) = op.off)
<1>1. Typed /\ Running /\ Busy /\ GrowPlace
  BY DEF IInv, Placed, Busy, GrowPlace, Growing
<1>2. /\ op.h \in Handles /\ F \in FileType /\ New \in Seq(Int) /\ Old \in Seq(Int)
      /\ op.cur \in Nat /\ op.goal \in Nat /\ Len(Old) \in Nat
      /\ content[F.ino] = New /\ Size = Len(New)
  BY <1>1, InCall
<1>3. New = Padded(Old, op.cur) /\ F.fpos = op.cur /\ Len(Old) <= op.cur
  BY <1>1 DEF GrowPlace, Growing
<1>4. Len(New) = op.cur
  BY <1>2, <1>3, PaddedIs
<1>5. Zeros(k) \in Seq(Int) /\ Len(Zeros(k)) = k /\ \A i \in 1 .. k : Zeros(k)[i] = 0
  BY DEF Zeros
<1>6. PICK gap \in {0, Junk}, b \in Seq(Int), size \in Nat :
            /\ b = IF Zeros(k) = <<>> THEN New ELSE Overlay(New, F.fpos, Zeros(k), gap)
            /\ F.fpos <= Len(New) => gap = 0
            /\ Stored(b) /\ Moved(size, F.fpos + Len(Zeros(k))) /\ size = Len(b)
  <2>1. \E gap \in {0, Junk}, b \in Seq(Int), size \in Nat :
            /\ b = IF Zeros(k) = <<>> THEN content[F.ino] ELSE Overlay(content[F.ino], F.fpos, Zeros(k), gap)
            /\ F.fpos <= Size => gap = 0
            /\ Stored(b) /\ Moved(size, F.fpos + Len(Zeros(k)))
            /\ size = Len(b) \/ (op.n = 0 /\ op.at # "grow" /\ size = F.fsize)
    BY <1>1, <1>2, <1>5, Writing
  <2> QED BY <1>2, <2>1
<1>7. b = Padded(Old, op.cur + k)
  <2>1. CASE Zeros(k) = <<>>
    <3>1. k = 0
      BY <1>5, <2>1
    <3> QED BY <1>2, <1>3, <1>6, <2>1, <3>1
  <2>2. CASE Zeros(k) # <<>>
    <3>1. b = Overlay(Padded(Old, op.cur), op.cur, Zeros(k), 0)
      BY <1>2, <1>3, <1>4, <1>6, <2>2
    <3> QED BY <1>2, <1>3, <1>5, <3>1, PaddedFurther
  <2> QED BY <2>1, <2>2
<1>8. op.cur + k \in Nat /\ Len(Padded(Old, op.cur + k)) = op.cur + k
  <2>1. PICK m \in Nat : m = op.cur + k /\ Len(Old) <= m
    BY <1>2, <1>3
  <2>2. Len(Padded(Old, m)) = m
    BY <1>2, <2>1, PaddedIs
  <2> QED BY <2>1, <2>2
<1>9. Keeps(Padded(Old, op.cur + k), Old, Target, Within,
            op.call \in {"ftruncate", "truncate"} /\ Len(Padded(Old, op.cur + k)) = op.off)
  BY <1>2, <1>8, PaddedKeeps
<1> QED BY <1>3, <1>5, <1>6, <1>7, <1>8, <1>9

(* The call goes on growing, or gives up, with as many more bytes. *)
LEMMA Grows ==
  ASSUME IInv, op.at = "grow", NEW k \in Nat, op.cur + k <= op.goal, Fwrite(Zeros(k)),
         NEW l \in {"grow", "growrestore"}, NEW hit \in BOOLEAN,
         op' = [op EXCEPT !.cur = op.cur + k, !.hit = hit,
                          !.res = IF l = "grow" THEN "ok" ELSE "EIO", !.at = l],
         l = "growrestore" => hit, name' = name, before' = before, calls' = calls
  PROVE  IInv'
<1>1. Typed /\ Running /\ Busy /\ GrowPlace
  BY DEF IInv, Placed, Busy, GrowPlace, Growing
<1>2. /\ op \in OpType /\ op.cur \in Nat /\ op.goal \in Nat /\ Len(Old) \in Nat /\ op.cur + k \in Nat
  BY <1>1, InCall
<1>3. /\ op' \in OpType /\ SameCall /\ op'.at = l /\ op'.goal = op.goal /\ op'.orig = op.orig
      /\ op'.cur = op.cur + k /\ op'.hit = hit /\ op'.res = IF l = "grow" THEN "ok" ELSE "EIO"
  BY <1>2 DEF OpType, Places, SameCall, Results
<1>4. Follows(Padded(Old, op.cur + k), op.cur + k, op.cur + k)
  <2>1. /\ Stored(Padded(Old, op.cur + k)) /\ Padded(Old, op.cur + k) \in Seq(Int)
        /\ Moved(op.cur + k, op.cur + k)
        /\ Keeps(Padded(Old, op.cur + k), Old, Target, Within,
                 op.call \in {"ftruncate", "truncate"} /\ Len(Padded(Old, op.cur + k)) = op.off)
    BY Grew
  <2> QED BY <1>1, <1>2, <1>3, <2>1, Goes
<1>5. (New = Padded(Old, op.cur))'
  BY <1>3, <1>4 DEF Padded, Follows
<1>6. Growing' /\ F'.fpos = op'.cur
  BY <1>1, <1>2, <1>3, <1>4, <1>5 DEF GrowPlace, Growing, Follows, SameCall
<1>7. Placed'
  BY <1>3, <1>6 DEF Placed, GrowPlace, GrowRestorePlace
<1> QED BY <1>3, <1>4, <1>7 DEF IInv, Settled, PositionedKeepsOffset, Follows, Ended, At

(* Both ways in which a turn of the loop ends *)
LEMMA AtGrow ==
  ASSUME IInv, Grow \/ GrowPart PROVE IInv'
<1> DEFINE n == Least(GrowBuffer, op.goal - op.cur)
<1>1. op.at = "grow" /\ op.cur < op.goal /\ Typed /\ Running /\ Busy /\ op.res = "ok"
  BY DEF IInv, Grow, GrowPart, Placed, Busy, GrowPlace, Growing, At
<1>2. op.cur \in Nat /\ op.goal \in Nat /\ op \in OpType
  BY <1>1, InCall
<1>3. n \in Nat /\ op.cur + n <= op.goal
  BY <1>1, <1>2, SizeAssumption DEF Least
<1>4. CASE Grow
  <2>1. Fwrite(Zeros(n)) /\ op' = [op EXCEPT !.cur = @ + n] /\ Quiet
    BY <1>4 DEF Grow
  <2> HIDE DEF n
  <2>2. op' = [op EXCEPT !.cur = op.cur + n, !.hit = op.hit,
                         !.res = IF "grow" = "grow" THEN "ok" ELSE "EIO", !.at = "grow"]
    BY <1>1, <1>2, <2>1 DEF OpType
  <2> QED BY <1>1, <1>2, <1>3, <2>1, <2>2, Grows DEF Quiet, OpType
<1>5. CASE GrowPart
  <2>1. PICK k \in 0 .. n, e \in {"ok", "EIO"} :
              /\ Fwrite(Zeros(k))
              /\ op' = [op EXCEPT !.cur = @ + k, !.hit = TRUE,
                                  !.res = IF e = "ok" /\ k > 0 THEN "ok" ELSE "EIO",
                                  !.at = IF e = "ok" /\ k > 0 THEN "grow" ELSE "growrestore"]
    BY <1>5 DEF GrowPart
  <2>2. k \in Nat /\ op.cur + k <= op.goal
    BY <1>2, <1>3
  <2>3. CASE e = "ok" /\ k > 0
    <3>1. op' = [op EXCEPT !.cur = op.cur + k, !.hit = TRUE,
                           !.res = IF "grow" = "grow" THEN "ok" ELSE "EIO", !.at = "grow"]
      BY <2>1, <2>3, <1>2 DEF OpType
    <3> QED BY <1>1, <1>5, <2>1, <2>2, <3>1, Grows DEF GrowPart, Fault
  <2>4. CASE ~(e = "ok" /\ k > 0)
    <3>1. op' = [op EXCEPT !.cur = op.cur + k, !.hit = TRUE,
                           !.res = IF "growrestore" = "grow" THEN "ok" ELSE "EIO", !.at = "growrestore"]
      BY <2>1, <2>4, <1>2 DEF OpType
    <3> QED BY <1>1, <1>5, <2>1, <2>2, <3>1, Grows DEF GrowPart, Fault
  <2> QED BY <2>3, <2>4
<1> QED BY <1>4, <1>5

(* The end of the growing: the offset is set back, and the call goes on. *)
LEMMA AtGrowRestore ==
  ASSUME IInv, GrowRestore PROVE IInv'
<1> USE DEF At
<1>1. /\ Typed /\ Running /\ Busy /\ op.at # "done" /\ Growing
      /\ op.res = "ok" => op.cur = op.goal
      /\ op.res # "ok" => op.hit
  <2>1. CASE op.at = "growrestore"
    BY <2>1 DEF IInv, Placed, GrowRestorePlace, Growing, Busy
  <2>2. CASE op.at = "grow" /\ op.cur >= op.goal
    <3>1. Typed /\ Running /\ Busy /\ op.at # "done" /\ Growing /\ op.res = "ok"
      BY <2>2 DEF IInv, Placed, GrowPlace, Growing, Busy
    <3>2. op.cur \in Nat /\ op.goal \in Nat
      BY <3>1, InCall
    <3> QED BY <2>2, <3>1, <3>2 DEF Growing
  <2> QED BY <2>1, <2>2 DEF GrowRestore
<1>2. /\ op.h \in Handles /\ F \in FileType /\ op \in OpType /\ New \in Seq(Int) /\ Old \in Seq(Int)
      /\ F.fsize \in Nat /\ F.fpos \in Nat /\ op.orig \in Nat /\ op.cur \in Nat /\ op.goal \in Nat
      /\ op.off \in Nat /\ Len(Old) \in Nat /\ OldOffset \in Nat
  BY <1>1, InCall
<1>3. name' = name /\ before' = before /\ calls' = calls /\ content' = content
  BY DEF GrowRestore, Quiet
<1>4. /\ op.call \in {"pwrite", "ftruncate", "truncate"} /\ op.goal = op.off
      /\ Len(Old) <= op.cur /\ op.cur <= op.goal /\ Len(Old) < op.goal
      /\ New = Padded(Old, op.cur) /\ F.fsize = op.cur /\ op.orig = OldOffset
      /\ op.call = "pwrite" => op.n > 0
  BY <1>1 DEF Growing
<1>5. Len(New) = op.cur
  BY <1>2, <1>4, PaddedIs
<1> DEFINE e == IF op.res = "ok" /\ ~Seekable(F, op.orig) THEN "EINVAL" ELSE op.res
<1>6. Resized(e)
  BY DEF GrowRestore
<1>7. /\ e \in Results /\ (e = "ok" => op.res = "ok" /\ Seekable(F, op.orig))
      /\ (e # "ok" => op.hit \/ ~Seekable(F, op.orig))
      /\ (e # "ok" => e = "EINVAL" \/ op.hit)
  BY <1>1, <1>2 DEF OpType, Results
<1> HIDE DEF e
<1>8. PICK l \in {"closetmp", "done", "seek", "restore"} :
          /\ op' = [op EXCEPT !.res = e, !.at = l]
          /\ l = "closetmp" <=> op.call = "truncate"
          /\ l = "done" <=> op.call = "ftruncate"
          /\ l = "seek" <=> op.call = "pwrite" /\ e = "ok"
  <2>1. CASE op.call = "pwrite"
    <3>1. op' = [op EXCEPT !.res = e, !.at = IF e = "ok" THEN "seek" ELSE "restore"]
      BY <1>6, <2>1 DEF Resized
    <3> QED BY <2>1, <3>1
  <2>2. CASE op.call \in {"ftruncate", "truncate"}
    BY <1>6, <2>2 DEF Resized
  <2> QED BY <1>4, <2>1, <2>2
<1>9. /\ op' \in OpType /\ SameCall /\ op'.at = l /\ op'.res = e /\ op'.orig = op.orig /\ op'.hit = op.hit
  BY <1>2, <1>3, <1>7, <1>8 DEF OpType, Places, SameCall
<1>10. PICK pos \in Nat : /\ Moved(F.fsize, pos)
                          /\ Seekable(F, op.orig) => pos = op.orig
  <2>1. CASE Seekable(F, op.orig)
    <3>1. file' = [file EXCEPT ![op.h].fpos = op.orig]
      BY <2>1 DEF GrowRestore
    <3> QED BY <1>1, <1>2, <3>1, Moving
  <2>2. CASE ~Seekable(F, op.orig)
    <3>1. file' = file
      BY <2>2 DEF GrowRestore
    <3> QED BY <1>1, <1>2, <2>2, <3>1, Moving
  <2> QED BY <2>1, <2>2
<1>11. Follows(New, F.fsize, pos)
  BY <1>1, <1>2, <1>3, <1>4, <1>8, <1>9, <1>10, Steps
<1>12. e # "ok" => Outcome'
  <2> SUFFICES ASSUME e # "ok" PROVE Outcome'
    OBVIOUS
  <2>1. CASE op.hit
    BY <1>9, <2>1 DEF Outcome
  <2>2. CASE ~op.hit
    <3>1. ~Seekable(F, op.orig) /\ e = "EINVAL"
      BY <1>7, <2>2
    <3>2. OldOffset > Len(Old)
      BY <1>2, <1>4, <3>1 DEF Seekable
    <3>3. Stale
      BY <1>2, <3>2 DEF Stale, Within
    <3> QED BY <1>9, <1>11, <3>1, <3>3 DEF Outcome, Explained, Follows
  <2> QED BY <2>1, <2>2
<1>13. ASSUME e = "ok" PROVE New = Padded(Old, op.off) /\ op.cur = op.off /\ pos = OldOffset
  BY <1>1, <1>4, <1>7, <1>10, <1>13
<1>14. e = "ok" /\ op.call # "pwrite" => Outcome'
  <2> SUFFICES ASSUME e = "ok", op.call # "pwrite" PROVE Outcome'
    OBVIOUS
  <2>1. New = Padded(Old, op.off) /\ Len(New) = op.off /\ op.call \in {"ftruncate", "truncate"}
    BY <1>4, <1>5, <1>13
  <2>2. New = [i \in 1 .. op.off |-> IF i <= Len(Old) THEN Old[i] ELSE 0]
    <3>1. \A i \in 1 .. Len(Padded(Old, op.off)) : Padded(Old, op.off)[i] = IF i <= Len(Old) THEN Old[i] ELSE 0
      BY <1>2, PaddedIs
    <3>2. \A i \in 1 .. op.off : New[i] = IF i <= Len(Old) THEN Old[i] ELSE 0
      BY <2>1, <3>1
    <3>3. New = [i \in 1 .. op.off |-> New[i]]
      <4>1. New \in Seq(Int) /\ Len(New) = op.off
        BY <1>2, <2>1
      <4> QED BY <4>1
    <3> QED BY <3>2, <3>3
  <2>3. Promised'
    BY <1>9, <1>11, <2>1, <2>2 DEF Promised, Follows, SameCall
  <2> QED BY <1>9, <2>1, <2>3 DEF Outcome, SameCall
<1>15. l = "restore" => RestorePlace'
  BY <1>4, <1>5, <1>8, <1>9, <1>11 DEF RestorePlace, Positioned, Sized, Follows, SameCall
<1>16. l = "seek" => SeekPlace'
  <2> SUFFICES ASSUME l = "seek" PROVE SeekPlace'
    OBVIOUS
  <2>1. op.call = "pwrite" /\ op.n > 0 /\ New = Padded(Old, op.off)
    BY <1>4, <1>8, <1>13
  <2>2. (New = Padded(Old, op.off))'
    BY <1>9, <1>11, <2>1 DEF Padded, Follows, SameCall
  <2> QED BY <1>4, <1>5, <1>9, <1>11, <2>1, <2>2 DEF SeekPlace, Positioned, Sized, Follows, SameCall
<1>17. Placed'
  BY <1>8, <1>9, <1>15, <1>16 DEF Placed, SameCall
<1>18. PositionedKeepsOffset'
  <2>1. CASE Seekable(F, op.orig)
    <3>1. pos = OldOffset
      BY <1>4, <1>10, <2>1
    <3> QED BY <1>11, <3>1 DEF PositionedKeepsOffset, Follows
  <2>2. CASE ~Seekable(F, op.orig)
    <3>1. OldOffset > F.fsize
      BY <1>2, <1>4, <2>2 DEF Seekable
    <3>2. op'.res # "ok"
      BY <1>7, <1>9, <2>2
    <3> QED BY <1>11, <3>1, <3>2 DEF PositionedKeepsOffset, Follows
  <2> QED BY <2>1, <2>2
<1>19. l # "seek" => Outcome'
  BY <1>8, <1>12, <1>14
<1> QED BY <1>9, <1>11, <1>17, <1>18, <1>19 DEF IInv, Settled, Follows

(* An operation that fails ends the call, or the part before its return to
   the offset. *)
LEMMA AtFailure ==
  ASSUME IInv, OperationFails PROVE IInv'
<1> USE DEF At
<1>1. Typed /\ Running /\ Busy /\ op.at \in {"append", "size", "get", "resize"} /\ Placed
  BY DEF IInv, OperationFails, Placed, Busy, AppendPlace, SizePlace, GetPlace, ResizePlace, Positioned
<1>2. /\ op.h \in Handles /\ F \in FileType /\ op \in OpType /\ New \in Seq(Int) /\ Old \in Seq(Int)
      /\ F.fsize \in Nat /\ F.fpos \in Nat /\ op.off \in Nat /\ op.goal \in Nat /\ Len(Old) \in Nat
  BY <1>1, InCall
<1>3. name' = name /\ before' = before /\ calls' = calls
  BY DEF OperationFails, Fault
<1>4. /\ op.call = "truncate" => op.at = "resize"
      /\ Positioned => op.orig = OldOffset /\ Sized
      /\ op.call = "ftruncate" => op.at = "resize" /\ F.fpos = OldOffset
      /\ op.at = "resize" => /\ op.call \in {"pwrite", "ftruncate", "truncate"} /\ op.goal = op.off
                             /\ New = Old /\ (op.call = "pwrite" => op.off > Len(Old))
  BY <1>1 DEF Placed, AppendPlace, SizePlace, GetPlace, ResizePlace, Unmoved, Sized, Positioned, OldOffset
<1>5. PICK l \in {"closetmp", "restore", "done"} :
          /\ op' = [op EXCEPT !.hit = TRUE, !.res = "EIO", !.at = l]
          /\ l = "closetmp" <=> op.call = "truncate"
          /\ l = "restore" <=> Positioned
  <2>1. CASE op.call = "truncate"
    <3>1. ~Positioned
      BY <2>1 DEF Positioned
    <3> QED BY <2>1, <3>1 DEF OperationFails
  <2>2. CASE op.call # "truncate" /\ Positioned
    BY <2>2 DEF OperationFails
  <2>3. CASE op.call # "truncate" /\ ~Positioned
    BY <2>3 DEF OperationFails
  <2> QED BY <2>1, <2>2, <2>3
<1>6. /\ op' \in OpType /\ SameCall /\ op'.at = l /\ op'.res = "EIO" /\ op'.orig = op.orig /\ op'.hit
      /\ op'.hit = TRUE
  BY <1>2, <1>3, <1>5 DEF OpType, Places, SameCall, Results
<1>7. \E b \in Seq(Int), size \in Nat, pos \in Nat :
         /\ Follows(b, size, pos)
         /\ Positioned => b = New /\ size = F.fsize
         /\ op.call = "ftruncate" /\ op.off > Len(Old) => pos = OldOffset
  <2>1. CASE content' = content /\ file' = file
    <3>1. Moved(F.fsize, F.fpos)
      BY <1>1, <1>2, <2>1, Moving
    <3>2. Follows(New, F.fsize, F.fpos)
      BY <1>1, <1>2, <1>3, <1>5, <1>6, <2>1, <3>1, Steps
    <3> QED BY <1>2, <1>4, <3>2
  <2>2. CASE op.at = "resize" /\ SizeError(F) = "ok" /\ op.goal < CurrentSize(F) /\ Ftruncate(op.goal)
    <3>1. CurrentSize(F) = Len(Old)
      BY <1>1, <1>4, <2>2, Found
    <3>2. op.call \in {"ftruncate", "truncate"} /\ ~Positioned /\ Ftruncate(op.off) /\ New = Old
          /\ op.off < Len(Old)
      BY <1>2, <1>4, <2>2, <3>1 DEF Positioned
    <3>3. PICK size, pos \in Nat : /\ Moved(size, pos) /\ Stored(Bytes(Old, 0, op.off))
                                   /\ Bytes(Old, 0, op.off) \in Seq(Int)
      BY <1>1, <1>2, <3>2, Cutting
    <3>4. Follows(Bytes(Old, 0, op.off), size, pos)
      BY <1>1, <1>2, <1>3, <1>5, <1>6, <3>2, <3>3, CutHere, Goes
    <3> QED BY <1>2, <3>2, <3>3, <3>4
  <2> QED BY <2>1, <2>2 DEF OperationFails
<1>8. PICK b \in Seq(Int), size \in Nat, pos \in Nat :
         /\ Follows(b, size, pos)
         /\ Positioned => b = New /\ size = F.fsize
         /\ op.call = "ftruncate" /\ op.off > Len(Old) => pos = OldOffset
  BY <1>7
<1>9. Positioned' <=> Positioned
  BY <1>6 DEF Positioned, SameCall
<1>10. l = "restore" => RestorePlace'
  BY <1>4, <1>5, <1>6, <1>8, <1>9 DEF RestorePlace, Sized, Follows
<1>11. Placed'
  BY <1>5, <1>6, <1>10 DEF Placed, SameCall
<1>12. Outcome'
  BY <1>6 DEF Outcome
<1>13. PositionedKeepsOffset'
  <2>1. Ended' => ~Positioned
    BY <1>5, <1>6 DEF Ended
  <2>2. Len(Old') = Len(Old) /\ op'.off = op.off /\ op'.call = op.call
    BY <1>6, <1>8 DEF Follows, SameCall
  <2> QED BY <1>8, <2>1, <2>2 DEF PositionedKeepsOffset, Positioned, Follows
<1> QED BY <1>6, <1>8, <1>11, <1>12, <1>13 DEF IInv, Settled, Follows

(* truncate closes its handle, and the outcome stays. *)
LEMMA AtClosing ==
  ASSUME IInv, CloseTmp PROVE IInv'
<1> USE DEF At
<1>1. Typed /\ Running /\ Busy /\ op.at = "closetmp" /\ op.call = "truncate" /\ Outcome
  BY DEF IInv, CloseTmp, Placed, Settled, Busy
<1>2. op \in OpType /\ op.n \in Nat
  BY <1>1, InCall
<1>3. /\ name' = name /\ before' = before /\ calls' = calls /\ content' = content
      /\ file' = [file EXCEPT ![Tmp] = None] /\ op' = [op EXCEPT !.at = "done", !.res = op.res]
  BY DEF CloseTmp, Quiet, Done
<1>4. /\ op' \in OpType /\ SameCall /\ op'.at = "done" /\ op'.res = op.res /\ op'.data = op.data
      /\ op'.hit = op.hit
  BY <1>2, <1>3 DEF OpType, Places, SameCall
<1>5. /\ Handle' = Handle /\ Old' = Old /\ New' = New /\ OldOffset' = OldOffset /\ Within' = Within
      /\ Target' = Target /\ Renamed' = Renamed /\ Stale' = Stale
  BY <1>3, <1>4 DEF SameCall, Handle, Old, New, OldOffset, Within, Target, Renamed, Stale
<1>6. Outcome'
  BY <1>1, <1>4, <1>5, SameOutcome
<1>7. OthersUnchanged' /\ NamedBytes'
  BY <1>1, <1>3, <1>4, <1>5 DEF Running, OthersUnchanged, NamedBytes, SameCall
<1>8. Running' /\ Busy'
  BY <1>1, <1>4, <1>5, <1>7 DEF Running, Busy, SameCall
<1>9. Typed'
  <2>1. /\ file' \in [Handles -> {None} \cup FileType] /\ file'[Tmp] = None
        /\ \A h \in Handles : file'[h] # None => file'[h] = file[h]
    BY <1>1, <1>3 DEF Typed, Handles
  <2> QED BY <1>1, <1>2, <1>3, <1>4, <2>1 DEF Typed, SameCall
<1>10. PositionedKeepsOffset'
  BY <1>1, <1>4 DEF PositionedKeepsOffset, SameCall
<1> QED BY <1>4, <1>6, <1>8, <1>9, <1>10 DEF IInv, Placed, Settled

-----------------------------------------------------------------------------
(* Between the calls. *)

(* Between calls only the types matter. *)
LEMMA Between ==
  ASSUME Typed', op'.at = "idle" PROVE IInv'
BY DEF IInv, Running, Busy, Placed, Settled, PositionedKeepsOffset, Ended, At

(* Nothing has been called. *)
LEMMA NoCallIs ==
  NoCall \in OpType /\ NoCall.at = "idle" /\ NoCall.call = "none"
<1>1. <<>> \in Seq(Int)
  OBVIOUS
<1> QED BY <1>1 DEF NoCall, OpType, Calls, Places, Results

(* The end of a call *)
LEMMA AtReturn ==
  ASSUME IInv, Return PROVE IInv'
<1>1. Typed /\ file[Tmp] = None
  BY DEF IInv, Return, At, Typed
<1>2. op' = NoCall /\ name' = name /\ content' = content /\ file' = file /\ calls' = calls
  BY DEF Return
<1>3. Typed' /\ op'.at = "idle"
  BY <1>1, <1>2, NoCallIs DEF Typed
<1> QED BY <1>3, Between

(* close *)
LEMMA AtClose ==
  ASSUME IInv, Close PROVE IInv'
<1>1. Typed /\ op.at = "idle" /\ op' = op /\ name' = name /\ content' = content /\ calls' = calls
  BY DEF IInv, Close, At
<1>2. PICK h \in Fds : file' = [file EXCEPT ![h] = None]
  BY DEF Close
<1>3. /\ file' \in [Handles -> {None} \cup FileType] /\ file'[Tmp] = file[Tmp]
      /\ \A k \in Handles : file'[k] # None => file'[k] = file[k]
  BY <1>1, <1>2, FdAssumption DEF Typed, Handles
<1>4. Typed'
  BY <1>1, <1>3 DEF Typed
<1> QED BY <1>1, <1>4, Between

(* rename *)
LEMMA AtRename ==
  ASSUME IInv, Rename PROVE IInv'
<1>1. Typed /\ op.at = "idle" /\ op' = op /\ content' = content /\ file' = file /\ calls \in Nat
      /\ calls' = calls + 1
  BY DEF IInv, Rename, At, Typed
<1>2. PICK n \in Names, m \in Names :
        name[n] # None /\ name' = [name EXCEPT ![m] = name[n], ![n] = None]
  BY DEF Rename
<1>3. /\ name' \in [Names -> {None} \cup Inodes]
      /\ \A k \in Names : name'[k] = None \/ name'[k] = name[k] \/ name'[k] = name[n]
  BY <1>1, <1>2 DEF Typed
<1>4. \A k \in Names : name'[k] # None => content'[name'[k]] \in Seq(Int)
  BY <1>1, <1>2, <1>3 DEF Typed
<1>5. calls' \in Nat
  BY <1>1
<1> QED BY <1>1, <1>3, <1>4, <1>5, Between DEF Typed

(* A call on a handle begins with its file as it is. *)
LEMMA Started ==
  ASSUME IInv, op.at = "idle", NEW h \in Fds, file[h] # None,
         op' \in OpType, op'.h = h, op'.call \notin {"none", "open"}, op'.at # "idle",
         op'.call # "lseek" => op'.n \in Nat,
         op'.at # "done" => op'.call # "lseek" /\ file' = file,
         before' = [content |-> content, file |-> file], name' = name, content' = content,
         calls' = calls + 1, file' \in [Handles -> {None} \cup FileType], file'[Tmp] = file[Tmp],
         \A k \in Handles : file'[k] # None => file[k] # None /\ file'[k].ino = file[k].ino
  PROVE  /\ Typed' /\ Running' /\ Busy'
         /\ Handle' = file[h] /\ New' = Old' /\ OldOffset' = file[h].fpos
         /\ (op'.at # "done" => F' = Handle') /\ Old' \in Seq(Int)
<1>1. Typed /\ h \in Handles /\ h # Tmp /\ file[h] \in FileType
  BY FdAssumption DEF IInv, Typed, Handles
<1>2. file[h].ino \in Inodes /\ content[file[h].ino] \in Seq(Int)
  BY <1>1 DEF Typed, FileType
<1>3. Handle' = file[h] /\ New' = Old' /\ OldOffset' = file[h].fpos /\ Old' = content[file[h].ino]
      /\ (op'.at # "done" => F' = Handle')
  BY DEF Handle, New, Old, OldOffset, F
<1>4. OthersUnchanged'
  BY DEF OthersUnchanged
<1>5. NamedBytes'
  <2>1. Keeps(New', Old', Target', Within', op'.call \in {"ftruncate", "truncate"} /\ Len(New') = op'.off)
    BY <1>2, <1>3, SameKeeps
  <2> QED BY <2>1 DEF NamedBytes, Keeps
<1>6. Busy'
  BY DEF Busy
<1>7. op'.at # "done" => SameHandle(F)'
  BY <1>1, <1>3 DEF SameHandle
<1>8. Running'
  BY <1>1, <1>2, <1>3, <1>4, <1>5, <1>7 DEF Running
<1>9. Typed'
  <2>1. file[Tmp] = None /\ calls' \in Nat
    BY <1>1 DEF Typed
  <2>2. \A k \in Handles : file'[k] # None => content'[file'[k].ino] \in Seq(Int)
    BY <1>1 DEF Typed
  <2> QED BY <1>1, <2>1, <2>2 DEF Typed
<1> QED BY <1>2, <1>3, <1>6, <1>8, <1>9

(* One that the handle does not allow ends at once. *)
LEMMA Refused ==
  ASSUME Typed', Running', Busy', op'.at = "done", op'.res = "EBADF", Handle'.acc # "rw",
         F' = Handle'
  PROVE  IInv'
<1>1. Outcome'
  BY DEF Outcome, Explained
<1>2. PositionedKeepsOffset'
  BY DEF PositionedKeepsOffset, OldOffset
<1> QED BY <1>1, <1>2 DEF IInv, Placed, Settled

(* No bytes *)
LEMMA NoBytes == <<>> \in Seq(Int)
OBVIOUS

(* What a call is that is over at once *)
LEMMA AnswerIs ==
  ASSUME NEW o \in OpType, NEW e \in Results
  PROVE  LET a == Answer(o, e)
         IN  /\ a \in OpType /\ a.call = o.call /\ a.h = o.h /\ a.n = o.n /\ a.at = "done" /\ a.res = e
BY DEF Answer, OpType, Places

(* Beginning to write *)
LEMMA AtBeginWrite ==
  ASSUME IInv, BeginWrite PROVE IInv'
<1> USE DEF At
<1>1. PICK h \in Fds, n \in Sizes :
        LET o == Call("write", h, n, 0, IF file[h].append THEN "append" ELSE "put")
        IN  file[h] # None /\ Begin(IF Writable(h) THEN o ELSE Answer(o, "EBADF"))
  BY DEF BeginWrite
<1> DEFINE l == IF file[h].append THEN "append" ELSE "put"
           o == Call("write", h, n, 0, l)
<1>2. l \in {"append", "put"} /\ (l = "append" <=> file[h].append)
  OBVIOUS
<1>3. file[h] # None /\ Begin(IF Writable(h) THEN o ELSE Answer(o, "EBADF"))
  BY <1>1
<1>4. h \in Handles /\ n \in Nat
  BY SizeAssumption DEF Handles
<1> HIDE DEF l
<1>5. /\ o \in OpType /\ o.call = "write" /\ o.h = h /\ o.n = n /\ o.at = l /\ o.res = "ok"
  <2>1. "write" \in Calls /\ l \in Places /\ n \in Int /\ 0 \in Nat
    BY <1>2, <1>4 DEF Calls, Places
  <2> QED BY <1>4, <2>1, NoBytes DEF Call, NoCall, OpType, Results, Calls, Places
<1> HIDE DEF o
<1>6. /\ o \in OpType /\ o.call = "write" /\ o.h = h /\ o.n = n /\ o.at = l /\ o.res = "ok"
      /\ Answer(o, "EBADF") \in OpType /\ Answer(o, "EBADF").call = "write"
      /\ Answer(o, "EBADF").h = h /\ Answer(o, "EBADF").n = n
      /\ Answer(o, "EBADF").at = "done" /\ Answer(o, "EBADF").res = "EBADF"
  BY <1>5, AnswerIs DEF Results
<1>7. /\ op.at = "idle" /\ before' = [content |-> content, file |-> file] /\ name' = name
      /\ content' = content /\ file' = file /\ calls' = calls + 1
      /\ op' = IF Writable(h) THEN o ELSE Answer(o, "EBADF")
      /\ file \in [Handles -> {None} \cup FileType]
  BY <1>3 DEF Begin, IInv, Typed
<1>8. op' \in OpType /\ op'.h = h /\ op'.call = "write" /\ op'.n \in Nat /\ op'.at # "idle"
  BY <1>2, <1>4, <1>6, <1>7
<1>9. /\ Typed' /\ Running' /\ Busy'
      /\ Handle' = file[h] /\ New' = Old' /\ OldOffset' = file[h].fpos
      /\ (op'.at # "done" => F' = Handle')
  BY <1>3, <1>7, <1>8, Started
<1>10. CASE Writable(h)
  <2>1. op'.at = l /\ op'.res = "ok"
    BY <1>6, <1>7, <1>10
  <2>2. F' = Handle'
    BY <1>2, <1>9, <2>1
  <2>3. l = "append" => AppendPlace'
    BY <1>2, <1>8, <1>9, <2>2 DEF AppendPlace, Unmoved
  <2>4. l = "put" => PutPlace'
    BY <1>2, <1>8, <1>9, <2>2 DEF PutPlace
  <2> QED BY <1>2, <1>9, <2>1, <2>3, <2>4 DEF IInv, Placed, Settled, PositionedKeepsOffset, Ended
<1>11. CASE ~Writable(h)
  <2>1. F' = Handle'
    BY <1>7, <1>8, <1>9 DEF F
  <2> QED BY <1>6, <1>7, <1>9, <1>11, <2>1, Refused DEF Writable
<1> QED BY <1>10, <1>11

(* Beginning to read *)
LEMMA AtBeginRead ==
  ASSUME IInv, BeginRead PROVE IInv'
<1> USE DEF At
<1>1. PICK h \in Fds, n \in Sizes :
        LET o == Call("read", h, n, 0, "get")
        IN  file[h] # None /\ Begin(IF Readable(h) THEN o ELSE Answer(o, "EBADF"))
  BY DEF BeginRead
<1> DEFINE o == Call("read", h, n, 0, "get")
<1>2. file[h] # None /\ Begin(IF Readable(h) THEN o ELSE Answer(o, "EBADF"))
  BY <1>1
<1>3. h \in Handles /\ n \in Nat
  BY SizeAssumption DEF Handles
<1>4. /\ o \in OpType /\ o.call = "read" /\ o.h = h /\ o.n = n /\ o.at = "get" /\ o.res = "ok"
  <2>1. "read" \in Calls /\ "get" \in Places /\ n \in Int /\ 0 \in Nat
    BY <1>3 DEF Calls, Places
  <2> QED BY <1>3, <2>1, NoBytes DEF Call, NoCall, OpType, Results, Calls, Places
<1> HIDE DEF o
<1>5. /\ o \in OpType /\ o.call = "read" /\ o.h = h /\ o.n = n /\ o.at = "get" /\ o.res = "ok"
      /\ Answer(o, "EBADF") \in OpType /\ Answer(o, "EBADF").call = "read"
      /\ Answer(o, "EBADF").h = h /\ Answer(o, "EBADF").n = n
      /\ Answer(o, "EBADF").at = "done" /\ Answer(o, "EBADF").res = "EBADF"
  BY <1>4, AnswerIs DEF Results
<1>6. /\ op.at = "idle" /\ before' = [content |-> content, file |-> file] /\ name' = name
      /\ content' = content /\ file' = file /\ calls' = calls + 1
      /\ op' = IF Readable(h) THEN o ELSE Answer(o, "EBADF")
      /\ file \in [Handles -> {None} \cup FileType]
  BY <1>2 DEF Begin, IInv, Typed
<1>7. op' \in OpType /\ op'.h = h /\ op'.call = "read" /\ op'.n \in Nat /\ op'.at # "idle"
  BY <1>3, <1>5, <1>6
<1>8. /\ Typed' /\ Running' /\ Busy'
      /\ Handle' = file[h] /\ New' = Old' /\ OldOffset' = file[h].fpos
      /\ (op'.at # "done" => F' = Handle')
  BY <1>2, <1>6, <1>7, Started
<1>9. CASE Readable(h)
  <2>1. op'.at = "get" /\ op'.res = "ok"
    BY <1>5, <1>6, <1>9
  <2>2. GetPlace'
    BY <1>7, <1>8, <2>1 DEF GetPlace, OldOffset
  <2> QED BY <1>8, <2>1, <2>2 DEF IInv, Placed, Settled, PositionedKeepsOffset, Ended
<1>10. CASE ~Readable(h)
  <2>1. F' = Handle'
    BY <1>6, <1>7, <1>8 DEF F
  <2> QED BY <1>5, <1>6, <1>8, <1>10, <2>1, Refused DEF Readable
<1> QED BY <1>9, <1>10

(* Beginning a positioned transfer, which is over at once if it is of no bytes *)
LEMMA AtBeginPositioned ==
  ASSUME IInv, BeginPositioned PROVE IInv'
<1> USE DEF At
<1>1. PICK h \in Fds, n \in Sizes, off \in Offsets, c \in {"pread", "pwrite"} :
        /\ file[h] # None
        /\ LET o == [Call(c, h, n, off, IF n = 0 THEN "restore" ELSE "size")
                       EXCEPT !.orig = file[h].fpos]
           IN  Begin(IF (c = "pread" /\ Readable(h)) \/ (c = "pwrite" /\ Writable(h)) THEN o
                     ELSE Answer(o, "EBADF"))
  BY DEF BeginPositioned
<1> DEFINE l == IF n = 0 THEN "restore" ELSE "size"
           p == Call(c, h, n, off, l)
           o == [p EXCEPT !.orig = file[h].fpos]
           may == (c = "pread" /\ Readable(h)) \/ (c = "pwrite" /\ Writable(h))
<1>2. l \in {"restore", "size"} /\ (l = "restore" <=> n = 0)
  OBVIOUS
<1>3. file[h] # None /\ Begin(IF may THEN o ELSE Answer(o, "EBADF"))
  BY <1>1
<1>4. h \in Handles /\ n \in Nat /\ off \in Nat /\ c \in Calls
  BY SizeAssumption DEF Handles, Calls
<1>5. file[h] \in FileType /\ file[h].fpos \in Nat
  BY <1>3, <1>4 DEF IInv, Typed, FileType
<1>6. may => (c = "pread" /\ Readable(h)) \/ (c = "pwrite" /\ Writable(h))
  OBVIOUS
<1>7. ~may => ~Readable(h) \/ ~Writable(h)
  OBVIOUS
<1> HIDE DEF l, may
<1>8. /\ p \in OpType /\ p.call = c /\ p.h = h /\ p.n = n /\ p.off = off /\ p.at = l
      /\ p.goal = off /\ p.res = "ok" /\ p.data = <<>>
  <2>1. l \in Places /\ n \in Int
    BY <1>2, <1>4 DEF Places
  <2> QED BY <1>4, <2>1, NoBytes DEF Call, NoCall, OpType, Results, Calls, Places
<1> HIDE DEF p
<1>9. /\ o \in OpType /\ o.call = c /\ o.h = h /\ o.n = n /\ o.off = off /\ o.at = l
      /\ o.goal = off /\ o.res = "ok" /\ o.data = <<>> /\ o.orig = file[h].fpos
  BY <1>5, <1>8 DEF OpType
<1>10. /\ Answer(o, "EBADF") \in OpType /\ Answer(o, "EBADF").call = c
       /\ Answer(o, "EBADF").h = h /\ Answer(o, "EBADF").n = n
       /\ Answer(o, "EBADF").at = "done" /\ Answer(o, "EBADF").res = "EBADF"
  BY <1>9, AnswerIs DEF Results
<1> HIDE DEF o
<1>11. /\ op.at = "idle" /\ before' = [content |-> content, file |-> file] /\ name' = name
       /\ content' = content /\ file' = file /\ calls' = calls + 1
       /\ op' = IF may THEN o ELSE Answer(o, "EBADF")
       /\ file \in [Handles -> {None} \cup FileType]
  BY <1>3 DEF Begin, IInv, Typed
<1>12. op' \in OpType /\ op'.h = h /\ op'.call = c /\ op'.n = n /\ op'.at # "idle"
  BY <1>2, <1>9, <1>10, <1>11
<1>13. /\ Typed' /\ Running' /\ Busy'
       /\ Handle' = file[h] /\ New' = Old' /\ OldOffset' = file[h].fpos
       /\ (op'.at # "done" => F' = Handle') /\ Old' \in Seq(Int)
  BY <1>3, <1>4, <1>11, <1>12, Started
<1>14. CASE may
  <2>1. op' = o
    BY <1>11, <1>14
  <2>2. F' = Handle'
    BY <1>2, <1>9, <1>13, <2>1
  <2>3. ASSUME l = "size" PROVE SizePlace'
    <3>1. n > 0
      BY <1>2, <1>4, <2>3
    <3> QED BY <1>4, <1>9, <1>13, <2>1, <2>2, <3>1 DEF SizePlace, Unmoved, Positioned
  <2>4. ASSUME l = "restore" PROVE RestorePlace' /\ Outcome'
    <3>1. RestorePlace'
      BY <1>9, <1>13, <2>1, <2>2 DEF RestorePlace, Sized, Positioned
    <3>2. n = 0
      BY <1>2, <2>4
    <3>3. Bytes(Old', off, 0) = <<>>
      BY <1>4, <1>13, BytesIs
    <3>4. Promised'
      BY <1>9, <1>13, <2>1, <3>2, <3>3 DEF Promised, Bytes
    <3>5. Outcome'
      BY <1>9, <2>1, <3>4 DEF Outcome
    <3> QED BY <3>1, <3>5
  <2>5. Placed'
    BY <1>2, <1>9, <2>1, <2>3, <2>4 DEF Placed
  <2> QED BY <1>2, <1>9, <1>13, <2>1, <2>4, <2>5 DEF IInv, Settled, PositionedKeepsOffset, Ended
<1>15. CASE ~may
  <2>1. F' = Handle'
    BY <1>11, <1>12, <1>13 DEF F
  <2> QED BY <1>7, <1>10, <1>11, <1>13, <1>15, <2>1, Refused DEF Readable, Writable
<1> QED BY <1>14, <1>15

(* Beginning to change a length *)
LEMMA AtBeginFtruncate ==
  ASSUME IInv, BeginFtruncate PROVE IInv'
<1> USE DEF At
<1>1. PICK h \in Fds, len \in Offsets :
        LET o == Call("ftruncate", h, 0, len, "resize")
        IN  file[h] # None /\ Begin(IF Writable(h) THEN o ELSE Answer(o, "EBADF"))
  BY DEF BeginFtruncate
<1> DEFINE o == Call("ftruncate", h, 0, len, "resize")
<1>2. file[h] # None /\ Begin(IF Writable(h) THEN o ELSE Answer(o, "EBADF"))
  BY <1>1
<1>3. h \in Handles /\ len \in Nat
  BY SizeAssumption DEF Handles
<1>4. /\ o \in OpType /\ o.call = "ftruncate" /\ o.h = h /\ o.n = 0 /\ o.at = "resize" /\ o.res = "ok"
       /\ o.goal = len /\ o.off = len
  <2>1. "ftruncate" \in Calls /\ "resize" \in Places /\ 0 \in Int
    BY DEF Calls, Places
  <2> QED BY <1>3, <2>1, NoBytes DEF Call, NoCall, OpType, Results, Calls, Places
<1> HIDE DEF o
<1>5. /\ o \in OpType /\ o.call = "ftruncate" /\ o.h = h /\ o.n = 0 /\ o.at = "resize" /\ o.res = "ok"
      /\ o.goal = len /\ o.off = len
      /\ Answer(o, "EBADF") \in OpType /\ Answer(o, "EBADF").call = "ftruncate"
      /\ Answer(o, "EBADF").h = h /\ Answer(o, "EBADF").n = 0
      /\ Answer(o, "EBADF").at = "done" /\ Answer(o, "EBADF").res = "EBADF"
  BY <1>4, AnswerIs DEF Results
<1>6. /\ op.at = "idle" /\ before' = [content |-> content, file |-> file] /\ name' = name
      /\ content' = content /\ file' = file /\ calls' = calls + 1
      /\ op' = IF Writable(h) THEN o ELSE Answer(o, "EBADF")
      /\ file \in [Handles -> {None} \cup FileType]
  BY <1>2 DEF Begin, IInv, Typed
<1>7. op' \in OpType /\ op'.h = h /\ op'.call = "ftruncate" /\ op'.n \in Nat /\ op'.at # "idle"
  BY <1>5, <1>6
<1>8. /\ Typed' /\ Running' /\ Busy'
      /\ Handle' = file[h] /\ New' = Old' /\ OldOffset' = file[h].fpos
      /\ (op'.at # "done" => F' = Handle')
  BY <1>2, <1>6, <1>7, Started
<1>9. CASE Writable(h)
  <2>1. op' = o
    BY <1>6, <1>9
  <2>2. ResizePlace'
    BY <1>5, <1>8, <2>1 DEF ResizePlace, Unmoved
  <2> QED BY <1>5, <1>8, <2>1, <2>2 DEF IInv, Placed, Settled, PositionedKeepsOffset, Ended
<1>10. CASE ~Writable(h)
  <2>1. F' = Handle'
    BY <1>6, <1>7, <1>8 DEF F
  <2> QED BY <1>5, <1>6, <1>8, <1>10, <2>1, Refused DEF Writable
<1> QED BY <1>9, <1>10

(* lseek is over at once. *)
LEMMA AtLseek ==
  ASSUME IInv, Lseek PROVE IInv'
<1>1. PICK h \in Fds, off \in Offsets, w \in {"set", "cur", "end"} :
        /\ file[h] # None /\ At("idle") /\ calls < MaxCalls
        /\ LET f == file[h]
               pos == CASE w = "set" -> off [] w = "cur" -> f.fpos + off [] w = "end" -> f.fsize - off
           IN  /\ op' = Answer(Call("lseek", h, pos, off, "done"), IF Seekable(f, pos) THEN "ok" ELSE "EINVAL")
               /\ file' = IF Seekable(f, pos) THEN [file EXCEPT ![h].fpos = pos] ELSE file
        /\ before' = [content |-> content, file |-> file]
        /\ calls' = calls + 1
        /\ UNCHANGED <<name, content, faults>>
  BY Zenon DEF Lseek
<1>2. h \in Handles /\ off \in Nat /\ file[h] \in FileType /\ file \in [Handles -> {None} \cup FileType]
  BY <1>1, SizeAssumption DEF Handles, IInv, Typed
<1>3. file[h].fpos \in Nat /\ file[h].fsize \in Nat
  BY <1>2 DEF FileType
<1> DEFINE at == CASE w = "set" -> off [] w = "cur" -> file[h].fpos + off [] w = "end" -> file[h].fsize - off
<1>4. at \in Int
  <2>1. CASE w = "set"
    BY <1>2, <2>1
  <2>2. CASE w = "cur"
    BY <1>2, <1>3, <2>2
  <2>3. CASE w = "end"
    BY <1>2, <1>3, <2>3
  <2> QED BY <2>1, <2>2, <2>3
<1>5. PICK pos \in Int, e \in {"ok", "EINVAL"} :
        /\ op' = Answer(Call("lseek", h, pos, off, "done"), e)
        /\ file' = IF Seekable(file[h], pos) THEN [file EXCEPT ![h].fpos = pos] ELSE file
  <2>1. /\ op' = Answer(Call("lseek", h, at, off, "done"), IF Seekable(file[h], at) THEN "ok" ELSE "EINVAL")
        /\ file' = IF Seekable(file[h], at) THEN [file EXCEPT ![h].fpos = at] ELSE file
    BY <1>1
  <2> HIDE DEF at
  <2> QED BY <1>4, <2>1
<1>6. op' \in OpType /\ op'.call = "lseek" /\ op'.h = h /\ op'.at = "done" /\ op'.res \in {"ok", "EINVAL"}
  <2>1. "lseek" \in Calls /\ "done" \in Places /\ e \in Results
    BY DEF Calls, Places, Results
  <2>2. Call("lseek", h, pos, off, "done") \in OpType /\ Call("lseek", h, pos, off, "done").call = "lseek"
        /\ Call("lseek", h, pos, off, "done").h = h
    BY <1>2, <2>1, NoBytes DEF Call, NoCall, OpType, Results, Calls, Places
  <2> QED BY <1>5, <2>1, <2>2, AnswerIs
<1>7. /\ file' \in [Handles -> {None} \cup FileType] /\ file'[Tmp] = file[Tmp]
      /\ \A k \in Handles : file'[k] # None => file[k] # None /\ file'[k].ino = file[k].ino
  <2>1. CASE Seekable(file[h], pos)
    <3> DEFINE f == [file[h] EXCEPT !.fpos = pos]
    <3>1. pos \in Nat
      BY <2>1 DEF Seekable
    <3>2. f \in FileType /\ f.ino = file[h].ino
      BY <1>2, <3>1 DEF FileType
    <3>3. file' = [file EXCEPT ![h] = f]
      BY <1>2, <1>5, <2>1
    <3> HIDE DEF f
    <3>4. h # Tmp
      BY FdAssumption
    <3> QED BY <1>1, <1>2, <3>2, <3>3, <3>4 DEF Handles
  <2>2. CASE ~Seekable(file[h], pos)
    BY <1>2, <1>5, <2>2
  <2> QED BY <2>1, <2>2
<1>8. /\ op.at = "idle" /\ before' = [content |-> content, file |-> file] /\ name' = name
      /\ content' = content /\ calls' = calls + 1
  BY DEF Lseek, At
<1>9. Typed' /\ Running' /\ Busy'
  BY <1>1, <1>6, <1>7, <1>8, Started
<1>10. Outcome'
  BY <1>6 DEF Outcome, Promised, Explained
<1> QED BY <1>6, <1>9, <1>10 DEF IInv, Placed, Settled, PositionedKeepsOffset

-----------------------------------------------------------------------------
(* Opening files. *)

(* A set of numbers that is not empty has a least one. *)
LEMMA Lowest ==
  ASSUME NEW S \in SUBSET Nat, S # {} PROVE \E n \in S : \A m \in S : n <= m
<1>1. PICK n \in S : \A m \in S : ~(<<m, n>> \in OpToRel(<, Nat))
  BY NatLessThanWellFounded, WFMin
<1>2. ASSUME NEW m \in S PROVE n <= m
  <2>1. m < n => <<m, n>> \in OpToRel(<, Nat)
    BY DEF OpToRel
  <2>2. m \in Nat /\ n \in Nat /\ ~(m < n)
    BY <1>1, <2>1
  <2> QED BY <2>2
<1> QED BY <1>2

(* Ways to open, truncate's among them *)
ModeType == [acc : {"r", "w", "rw"}, append : BOOLEAN, creat : BOOLEAN, excl : BOOLEAN, trunc : BOOLEAN]

(* What ext4_fopen2 leaves *)
LEMMA Opens ==
  ASSUME Typed, NEW h \in Handles, NEW n \in Names, NEW m \in ModeType, Fopen(h, n, m)
  PROVE  /\ name' \in [Names -> {None} \cup Inodes]
         /\ content' \in [Inodes -> {None} \cup Seq(Int)]
         /\ file' \in [Handles -> {None} \cup FileType]
         /\ \A k \in Names : name'[k] # None => content'[name'[k]] \in Seq(Int)
         /\ \A k \in Handles : file'[k] # None => content'[file'[k].ino] \in Seq(Int)
         /\ file'[h] \in FileType /\ content'[file'[h].ino] \in Seq(Int)
         /\ \A k \in Handles \ {h} : file'[k] = file[k]
         /\ ~m.creat /\ ~m.trunc => content' = content
<1> DEFINE found == name[n] # None
           i == IF found THEN name[n] ELSE CHOOSE j \in Inodes : content[j] = None
           bytes == IF found /\ ~m.trunc THEN content[i] ELSE <<>>
<1>1. /\ found \/ (m.creat /\ \E j \in Inodes : content[j] = None)
      /\ name' = [name EXCEPT ![n] = i]
      /\ content' = [content EXCEPT ![i] = bytes]
      /\ file' = [file EXCEPT ![h] = Opened(i, n, m, Len(bytes))]
  BY DEF Fopen
<1>2. /\ name \in [Names -> {None} \cup Inodes] /\ content \in [Inodes -> {None} \cup Seq(Int)]
      /\ file \in [Handles -> {None} \cup FileType]
      /\ \A k \in Names : name[k] # None => content[name[k]] \in Seq(Int)
      /\ \A k \in Handles : file[k] # None => content[file[k].ino] \in Seq(Int)
  BY DEF Typed
<1>3. i \in Inodes
  BY <1>1, <1>2
<1>4. bytes \in Seq(Int)
  <2>1. <<>> \in Seq(Int)
    OBVIOUS
  <2>2. found => content[i] \in Seq(Int)
    BY <1>2
  <2> QED BY <2>1, <2>2
<1>5. ~m.creat /\ ~m.trunc => bytes = content[i]
  BY <1>1
<1> DEFINE f == Opened(i, n, m, Len(bytes))
<1>6. file' = [file EXCEPT ![h] = f]
  BY <1>1
<1> HIDE DEF found, i, bytes
<1>7. f \in FileType /\ f.ino = i
  <2>1. Len(bytes) \in Nat /\ 0 \in Nat
    BY <1>4
  <2> QED BY <1>3, <2>1 DEF Opened, FileType, ModeType
<1> HIDE DEF f
<1>8. name' \in [Names -> {None} \cup Inodes] /\ \A k \in Names : name'[k] = IF k = n THEN i ELSE name[k]
  BY <1>1, <1>2, <1>3
<1>9. /\ content' \in [Inodes -> {None} \cup Seq(Int)] /\ content'[i] = bytes
      /\ \A j \in Inodes \ {i} : content'[j] = content[j]
  BY <1>1, <1>2, <1>3, <1>4
<1>10. /\ file' \in [Handles -> {None} \cup FileType] /\ file'[h] = f
      /\ \A k \in Handles \ {h} : file'[k] = file[k]
  BY <1>2, <1>6, <1>7
<1>11. ASSUME NEW k \in Names, name'[k] # None PROVE content'[name'[k]] \in Seq(Int)
  <2>1. CASE name'[k] = i
    BY <1>4, <1>9, <2>1
  <2>2. CASE name'[k] # i
    BY <1>2, <1>8, <1>9, <1>11, <2>2
  <2> QED BY <2>1, <2>2
<1>12. ASSUME NEW k \in Handles, file'[k] # None PROVE content'[file'[k].ino] \in Seq(Int)
  <2>1. CASE file'[k].ino = i
    BY <1>4, <1>9, <2>1
  <2>2. CASE file'[k].ino # i
    <3>1. file'[k] = file[k] /\ file[k] \in FileType
      BY <1>2, <1>7, <1>10, <1>12, <2>2
    <3>2. file[k].ino \in Inodes
      BY <3>1 DEF FileType
    <3> QED BY <1>2, <1>9, <1>12, <2>2, <3>1, <3>2
  <2> QED BY <2>1, <2>2
<1>13. ~m.creat /\ ~m.trunc => content' = content
  BY <1>1, <1>2, <1>3, <1>5
<1> QED BY <1>4, <1>7, <1>8, <1>9, <1>10, <1>11, <1>12, <1>13

(* open is over at once. *)
LEMMA AtOpen ==
  ASSUME IInv, Open PROVE IInv'
<1>1. PICK n \in Names, m \in Modes :
          LET h == CHOOSE k \in FreeFd : \A j \in FreeFd : k <= j
          IN  /\ m.creat /\ m.excl => name[n] = None
              /\ Fopen(h, n, m)
              /\ op' = Answer(Call("open", h, 0, 0, "done"), "ok")
              /\ before' = [content |-> content', file |-> file']
  BY DEF Open
<1>2. PICK h \in FreeFd : Fopen(h, n, m) /\ op' = Answer(Call("open", h, 0, 0, "done"), "ok")
  <2>1. FreeFd \in SUBSET Nat /\ FreeFd # {}
    BY FdAssumption DEF Open, FreeFd
  <2>2. \E k \in FreeFd : \A j \in FreeFd : k <= j
    BY <2>1, Lowest
  <2>3. (CHOOSE k \in FreeFd : \A j \in FreeFd : k <= j) \in FreeFd
    BY <2>2
  <2> QED BY <1>1, <2>3
<1>3. h \in Handles /\ h # Tmp /\ Tmp \in Handles
  BY FdAssumption DEF FreeFd, Handles
<1>4. op' \in OpType /\ op'.call = "open" /\ op'.n = 0 /\ op'.h = h /\ op'.at = "done" /\ op'.res = "ok"
  <2>1. "open" \in Calls /\ "done" \in Places /\ "ok" \in Results /\ 0 \in Nat /\ 0 \in Int
    BY DEF Calls, Places, Results
  <2> DEFINE o == Call("open", h, 0, 0, "done")
  <2>2. o \in OpType /\ o.call = "open" /\ o.h = h /\ o.n = 0
    BY <1>3, <2>1, NoBytes DEF Call, NoCall, OpType, Results, Calls, Places
  <2> HIDE DEF o
  <2>3. op' = Answer(o, "ok")
    BY <1>2 DEF o
  <2> QED BY <2>1, <2>2, <2>3, AnswerIs
<1>5. Typed /\ op.at = "idle" /\ calls \in Nat /\ calls' = calls + 1 /\ file[Tmp] = None
  BY DEF IInv, Open, At, Typed
<1>6. m \in ModeType
  BY ModeAssumption DEF ModeType
<1>7. /\ name' \in [Names -> {None} \cup Inodes]
      /\ content' \in [Inodes -> {None} \cup Seq(Int)]
      /\ file' \in [Handles -> {None} \cup FileType]
      /\ \A k \in Names : name'[k] # None => content'[name'[k]] \in Seq(Int)
      /\ \A k \in Handles : file'[k] # None => content'[file'[k].ino] \in Seq(Int)
      /\ \A k \in Handles \ {h} : file'[k] = file[k]
  BY <1>2, <1>3, <1>5, <1>6, Opens
<1>8. file'[Tmp] = None /\ calls' \in Nat
  BY <1>3, <1>5, <1>7
<1>9. Typed'
  BY <1>3, <1>4, <1>7, <1>8 DEF Typed
<1> QED BY <1>4, <1>9 DEF IInv, Running, Busy, Placed, Settled, PositionedKeepsOffset, Ended, At

(* truncate opens the file first. *)
LEMMA AtTruncate ==
  ASSUME IInv, Truncate PROVE IInv'
<1>1. PICK n \in Names, len \in Offsets :
          /\ Fopen(Tmp, n, TruncateMode)
          /\ op' = Call("truncate", Tmp, 0, len, "resize")
  BY DEF Truncate
<1>2. Tmp \in Handles /\ len \in Nat /\ TruncateMode \in ModeType
  BY SizeAssumption DEF Handles, TruncateMode, ModeType
<1>3. /\ op' \in OpType /\ op'.call = "truncate" /\ op'.h = Tmp /\ op'.n = 0 /\ op'.at = "resize"
      /\ op'.res = "ok" /\ op'.off = len /\ op'.goal = len
  <2>1. "truncate" \in Calls /\ "resize" \in Places /\ 0 \in Int
    BY DEF Calls, Places
  <2> QED BY <1>1, <1>2, <2>1, NoBytes DEF Call, NoCall, OpType, Results, Calls, Places
<1>4. Typed /\ calls \in Nat /\ calls' = calls + 1 /\ before' = [content |-> content, file |-> file']
  BY DEF IInv, Truncate, Typed
<1>5. /\ name' \in [Names -> {None} \cup Inodes]
      /\ content' \in [Inodes -> {None} \cup Seq(Int)]
      /\ file' \in [Handles -> {None} \cup FileType]
      /\ \A k \in Names : name'[k] # None => content'[name'[k]] \in Seq(Int)
      /\ \A k \in Handles : file'[k] # None => content'[file'[k].ino] \in Seq(Int)
      /\ file'[Tmp] \in FileType /\ content'[file'[Tmp].ino] \in Seq(Int)
      /\ content' = content
  <2>1. ~TruncateMode.creat /\ ~TruncateMode.trunc
    BY DEF TruncateMode
  <2> QED BY <1>1, <1>2, <1>4, <2>1, Opens
<1>6. Typed'
  <2>1. calls' \in Nat
    BY <1>4
  <2> QED BY <1>2, <1>3, <1>5, <2>1 DEF Typed
<1>7. Handle' = file'[Tmp] /\ New' = content'[file'[Tmp].ino] /\ Old' = New' /\ F' = Handle'
  BY <1>3, <1>4, <1>5 DEF Handle, New, Old, F
<1>8. OthersUnchanged'
  BY <1>4, <1>5 DEF OthersUnchanged
<1>9. NamedBytes'
  <2>1. Keeps(New', Old', Target', Within', op'.call \in {"ftruncate", "truncate"} /\ Len(New') = op'.off)
    BY <1>5, <1>7, SameKeeps
  <2> QED BY <2>1 DEF NamedBytes, Keeps
<1>10. Running' /\ Busy'
  <2>1. SameHandle(F)'
    BY <1>5, <1>7 DEF SameHandle
  <2> QED BY <1>2, <1>3, <1>5, <1>7, <1>8, <1>9, <2>1 DEF Running, Busy
<1>11. ResizePlace'
  BY <1>3, <1>7 DEF ResizePlace, Unmoved
<1> QED BY <1>3, <1>6, <1>10, <1>11 DEF IInv, Placed, Settled, PositionedKeepsOffset, Ended, At

-----------------------------------------------------------------------------
(* The theorems. *)

(* The invariant holds at first, *)
LEMMA Starts ==
  ASSUME Init PROVE IInv
<1>1. PICK s \in Mounted :
          /\ name = s.name /\ content = s.content
          /\ file = [h \in Handles |->
                       IF h = Tmp \/ s.modes[h] = None THEN None
                       ELSE Opened(s.name[s.path], s.path, s.modes[h], Len(s.content[s.name[s.path]]))]
  BY DEF Init
<1>2. /\ s.name \in [Names -> {None} \cup Inodes] /\ s.content \in [Inodes -> {None} \cup Seq(Int)]
      /\ \A n \in Names : s.name[n] # None => s.content[s.name[n]] \in Seq(Int)
      /\ s.path \in Names /\ s.name[s.path] # None /\ s.modes \in [Fds -> {None} \cup Modes]
  BY MountAssumption
<1>3. op = NoCall /\ calls = 0
  BY DEF Init
<1> DEFINE i == s.name[s.path]
           f(h) == Opened(i, s.path, s.modes[h], Len(s.content[i]))
<1>4. i \in Inodes /\ s.content[i] \in Seq(Int) /\ Len(s.content[i]) \in Nat
  BY <1>2
<1>5. ASSUME NEW h \in Handles, file[h] # None PROVE file[h] \in FileType /\ file[h].ino = i /\ h # Tmp
  <2>1. h # Tmp /\ s.modes[h] # None /\ file[h] = f(h)
    BY <1>1, <1>5
  <2>2. s.modes[h] \in [acc : {"r", "w", "rw"}, append : BOOLEAN, creat : BOOLEAN, excl : BOOLEAN,
                        trunc : BOOLEAN]
    BY <1>2, <2>1, ModeAssumption DEF Handles
  <2> HIDE DEF i
  <2> QED BY <1>2, <1>4, <2>1, <2>2 DEF Opened, FileType
<1>6. file \in [Handles -> {None} \cup FileType]
  <2>1. \A h \in Handles : file[h] \in {None} \cup FileType
    BY <1>5
  <2> QED BY <1>1, <2>1
<1>7. file[Tmp] = None
  BY <1>1 DEF Handles
<1>8. Typed
  BY <1>1, <1>2, <1>3, <1>4, <1>5, <1>6, <1>7, NoCallIs DEF Typed
<1> QED BY <1>3, <1>8, NoCallIs DEF IInv, Running, Busy, Placed, Settled, PositionedKeepsOffset, Ended, At

(* and every step keeps it. *)
LEMMA Keeping ==
  ASSUME IInv, [Next]_vars PROVE IInv'
<1>1. CASE UNCHANGED vars
  <2>1. /\ name' = name /\ content' = content /\ file' = file /\ op' = op /\ before' = before
        /\ calls' = calls
    BY <1>1 DEF vars
  <2>2. /\ Handle' = Handle /\ Old' = Old /\ New' = New /\ F' = F
        /\ OldOffset' = OldOffset /\ (Within' <=> Within) /\ Target' = Target
    BY <2>1 DEF Handle, Old, New, F, OldOffset, Within, Target
  <2>3. (Typed' <=> Typed) /\ (Running' <=> Running)
    BY <2>1, <2>2 DEF Typed, Running, Busy, SameHandle, OthersUnchanged, NamedBytes
  <2>4. (Sized' <=> Sized) /\ (Unmoved' <=> Unmoved) /\ (Positioned' <=> Positioned)
    BY <2>1, <2>2 DEF Sized, Unmoved, Positioned
  <2>5. /\ (AppendPlace' <=> AppendPlace) /\ (SizePlace' <=> SizePlace)
        /\ (ResizePlace' <=> ResizePlace) /\ (Growing' <=> Growing)
        /\ (SeekPlace' <=> SeekPlace) /\ (PutPlace' <=> PutPlace)
        /\ (GetPlace' <=> GetPlace) /\ (RestorePlace' <=> RestorePlace)
    BY <2>1, <2>2, <2>4 DEF AppendPlace, SizePlace, ResizePlace, Growing, SeekPlace, PutPlace,
       GetPlace, RestorePlace, Padded
  <2>6. Placed' <=> Placed
    BY <2>1, <2>2, <2>5 DEF Placed, GrowPlace, GrowRestorePlace
  <2>7. (Promised' <=> Promised) /\ (Explained' <=> Explained)
    BY <2>1, <2>2 DEF Promised, Explained, Renamed, Stale
  <2>8. Settled' <=> Settled
    BY <2>1, <2>2, <2>7 DEF Settled, Outcome, Busy
  <2>9. PositionedKeepsOffset' <=> PositionedKeepsOffset
    BY <2>1, <2>2 DEF PositionedKeepsOffset, Ended, At
  <2> QED BY <2>3, <2>6, <2>8, <2>9 DEF IInv
<1>2. CASE Next
  BY <1>2, AtBeginWrite, AtBeginRead, AtBeginPositioned, AtBeginFtruncate, AtLseek, AtOpen, AtClose,
     AtTruncate, AtClosing, AtRename, AtReturn, AtAppend, AtSize, AtSeek, AtRestore, AtGet, AtPut,
     AtResize, AtGrow, AtGrowRestore, AtFailure DEF Next
<1> QED BY <1>1, <1>2

(* What the properties say is part of it. *)
LEMMA Suffices ==
  ASSUME IInv
  PROVE  /\ TypeOK /\ AppendsAtEnd /\ PosixOutcome /\ PositionedKeepsOffset
         /\ OnlyNamedBytesChange /\ FailureExplained
<1> USE DEF At
<1>1. TypeOK
  BY DEF IInv, Typed, TypeOK, OpType, Places
<1>2. Ended => Outcome
  BY DEF IInv, Settled, Busy, Ended
<1>3. AppendsAtEnd
  BY <1>2 DEF AppendsAtEnd, Outcome
<1>4. PosixOutcome
  BY <1>2 DEF PosixOutcome, Outcome
<1>5. FailureExplained
  BY <1>2 DEF FailureExplained, Outcome
<1>6. OnlyNamedBytesChange
  BY DEF IInv, Running, Busy, OnlyNamedBytesChange
<1> QED BY <1>1, <1>3, <1>4, <1>5, <1>6 DEF IInv

(* At every place of every call the file holds what the place says, and
   from the last places on the outcome stands. *)
THEOREM Inductive == Spec => []IInv
<1>1. Init => IInv
  BY Starts
<1>2. IInv /\ [Next]_vars => IInv'
  BY Keeping
<1> QED BY <1>1, <1>2, PTL DEF Spec

(* Every variable keeps its type. *)
THEOREM TypeCorrect == Spec => []TypeOK
<1>1. IInv => TypeOK
  BY Suffices
<1> QED BY <1>1, Inductive, PTL

(* A write in append mode ends at the end that the file has, whatever other
   handles did to it and however stale the size in the handle is
   (seek_to_current_end_locked). *)
THEOREM Appends == Spec => []AppendsAtEnd
<1>1. IInv => AppendsAtEnd
  BY Suffices
<1> QED BY <1>1, Inductive, PTL

(* What a call that succeeds has read, written or set is what POSIX says,
   for every number of bytes and every size of the buffer of zeros
   (positioned_io, resize_file_locked). *)
THEOREM DoesAsPosix == Spec => []PosixOutcome
<1>1. IInv => PosixOutcome
  BY Suffices
<1> QED BY <1>1, Inductive, PTL

(* Positioned transfers and growth give the offset back, failed or not, unless
   the handle's size does not reach it any more (positioned_io,
   resize_file_locked). *)
THEOREM KeepsOffset == Spec => []PositionedKeepsOffset
<1>1. IInv => PositionedKeepsOffset
  BY Suffices
<1> QED BY <1>1, Inductive, PTL

(* Whatever fails on the way, a call changes the bytes it names and no
   others (write_fd, positioned_io, resize_file_locked). *)
THEOREM ChangesNoOthers == Spec => []OnlyNamedBytesChange
<1>1. IInv => OnlyNamedBytesChange
  BY Suffices
<1> QED BY <1>1, Inductive, PTL

(* A call that fails though no operation below it did has a reason that the
   code means to report (current_file_size_locked). *)
THEOREM FailsForReason == Spec => []FailureExplained
<1>1. IInv => FailureExplained
  BY Suffices
<1> QED BY <1>1, Inductive, PTL
=============================================================================
