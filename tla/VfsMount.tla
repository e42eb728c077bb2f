------------------------------- MODULE VfsMount -------------------------------
(***************************************************************************)
(* The locks, the list of registered file systems and the lifetime of      *)
(* their contexts in port/esp_lwext4.c.                                     *)
(*                                                                         *)
(* Tasks call esp_vfs_lwext4_register, _unregister and _rmdir_recurse, and *)
(* make VFS calls (open, close, opendir, ...) which ESP-IDF dispatches to  *)
(* a context.  There are two kinds of mutex: s_contexts_lock, created by   *)
(* whoever needs it first, over the list s_contexts; and one in each       *)
(* context over its file table.  The order is s_contexts_lock, then a      *)
(* context's lock.                                                         *)
(*                                                                         *)
(* A step runs up to the next point where another task can see a           *)
(* difference.  ESP-IDF's table of mounted file systems (vfs) and          *)
(* FreeRTOS mutexes are external, as are lwext4's own calls, of which only *)
(* success or failure matters here.                                        *)
(***************************************************************************)
EXTENDS Integers, FiniteSets

CONSTANTS Tasks,
          Ctxs,      \* context objects; each is allocated at most once
          Confs,     \* registrations asked for: records [base, mount]; a base
                     \* path is the length of a prefix of one long path
          MaxFiles,  \* size of a context's file table
          Dirs,      \* directory handles a context may have open at a time
          None,
          Quiesced   \* TRUE: the application makes no VFS call on a prefix
                     \* while it unregisters it

ASSUME NoneAssumption == None \notin Tasks \cup Ctxs
ASSUME ConfAssumption == \A k \in Confs : k.base \in Nat
ASSUME SizeAssumption == MaxFiles \in Nat \ {0} /\ IsFiniteSet(Dirs)
ASSUME QuiescedAssumption == Quiesced \in BOOLEAN

Slots == 0 .. MaxFiles - 1

VARIABLES
    global,     \* s_contexts_lock: the task whose mutex it became, or None
    globalOwner,\* globalOwner[h]: who holds the mutex made by task h
    handle,     \* handle[t]: what contexts_lock_get returned to t
    state,      \* state[c]: "unused", "private", "live" or "freed"
    conf,       \* conf[c]: base path and mount point of c
    list,       \* s_contexts
    vfs,        \* contexts in ESP-IDF's table
    owner,      \* owner[c]: who holds c->lock
    used,       \* used[c]: slots of c->files that are in use
    openFiles,  \* c->open_files
    openDirs,   \* c->open_dirs
    dirs,       \* dirs[c]: directory handles the application holds
    pc, op,     \* where each task is, and in which call
    arg,        \* arg[t]: the base path, slot or directory handle passed in
    my          \* my[t]: the context the call works on

vars == <<global, globalOwner, handle, state, conf, list, vfs, owner, used,
          openFiles, openDirs, dirs, pc, op, arg, my>>

globalLock == <<global, globalOwner, handle>>
registry == <<state, conf, list, vfs>>
tables == <<used, openFiles, openDirs, dirs>>
call == <<op, arg, my>>

Bases == {k.base : k \in Confs}

(* Tasks between taking and giving s_contexts_lock, and between taking and
   giving the lock of context my[t]. *)
GlobalPcs == {"r_check", "r_link", "r_give", "u_find", "u_take", "u_check", "u_unlink",
              "u_give", "u_giveglobal", "u_refuse", "x_find", "x_take", "x_giveglobal",
              "giveglobal"}
CtxPcs == {"u_check", "u_unlink", "u_give", "u_refuse", "x_giveglobal", "x_check", "x_remove",
           "v_body", "v_file", "v_open", "give"}

(* In a VFS call, from its dispatch to its return *)
InCall(t) == op[t] \in {"open", "close", "file", "opendir", "closedir", "path"}
InUnregister(t) == op[t] = "unregister"

Init ==
    /\ global = None
    /\ globalOwner = [t \in Tasks |-> None]
    /\ handle = [t \in Tasks |-> None]
    /\ state = [c \in Ctxs |-> "unused"]
    /\ conf = [c \in Ctxs |-> None]
    /\ list = {} /\ vfs = {}
    /\ owner = [c \in Ctxs |-> None]
    /\ used = [c \in Ctxs |-> {}]
    /\ openFiles = [c \in Ctxs |-> 0]
    /\ openDirs = [c \in Ctxs |-> 0]
    /\ dirs = [c \in Ctxs |-> {}]
    /\ pc = [t \in Tasks |-> "idle"]
    /\ op = [t \in Tasks |-> "none"]
    /\ arg = [t \in Tasks |-> None]
    /\ my = [t \in Tasks |-> None]

-----------------------------------------------------------------------------
Goto(t, from, to) == pc[t] = from /\ pc' = [pc EXCEPT ![t] = to]

(* The call returns to the application. *)
Return(t, from) ==
    /\ Goto(t, from, "idle")
    /\ op' = [op EXCEPT ![t] = "none"]
    /\ arg' = [arg EXCEPT ![t] = None]
    /\ my' = [my EXCEPT ![t] = None]

Begin(t, to, o, a, c) ==
    /\ Goto(t, "idle", to)
    /\ op' = [op EXCEPT ![t] = o]
    /\ arg' = [arg EXCEPT ![t] = a]
    /\ my' = [my EXCEPT ![t] = c]

-----------------------------------------------------------------------------
(* The calls. *)

(* register allocates a context nobody else knows before it takes the lock. *)
Register(t) ==
    /\ \E c \in Ctxs, k \in Confs :
          /\ state[c] = "unused"
          /\ Begin(t, "l_get", "register", None, c)
          /\ state' = [state EXCEPT ![c] = "private"]
          /\ conf' = [conf EXCEPT ![c] = k]
    /\ UNCHANGED <<globalLock, list, vfs, owner, tables>>

Unregister(t) ==
    /\ \E b \in Bases :
          /\ Quiesced => \A u \in Tasks : InCall(u) => conf[my[u]].base # b
          /\ Begin(t, "l_get", "unregister", b, None)
    /\ UNCHANGED <<globalLock, registry, owner, tables>>

RmdirRecurse(t) ==
    /\ \E b \in Bases : Begin(t, "l_get", "rmdir", b, None)
    /\ UNCHANGED <<globalLock, registry, owner, tables>>

(* ESP-IDF finds the context in its table and calls the adapter with it. *)
MayCall(c) ==
    /\ c \in vfs
    /\ Quiesced => \A u \in Tasks : InUnregister(u) => arg[u] # conf[c].base

CallPath(t) ==
    /\ \E c \in Ctxs, o \in {"open", "opendir", "path"} :
          MayCall(c) /\ Begin(t, "v_take", o, None, c)
    /\ UNCHANGED <<globalLock, registry, owner, tables>>

CallFile(t) ==
    /\ \E c \in Ctxs, s \in Slots, o \in {"close", "file"} :
          MayCall(c) /\ Begin(t, "v_take", o, s, c)
    /\ UNCHANGED <<globalLock, registry, owner, tables>>

(* Task t is closing directory handle d of context c. *)
Closing(t, c, d) ==
    pc[t] \in {"v_take", "v_body"} /\ op[t] = "closedir" /\ my[t] = c /\ arg[t] = d

(* The application closes a directory handle from one task only. *)
CallClosedir(t) ==
    /\ \E c \in Ctxs : \E d \in dirs[c] :
          /\ MayCall(c)
          /\ \A u \in Tasks : ~ Closing(u, c, d)
          /\ Begin(t, "v_take", "closedir", d, c)
    /\ UNCHANGED <<globalLock, registry, owner, tables>>

-----------------------------------------------------------------------------
(* contexts_lock_get and the take that follows it *)

LockGet(t) ==
    /\ IF global # None
       THEN Goto(t, "l_get", "l_take") /\ handle' = [handle EXCEPT ![t] = global]
       ELSE Goto(t, "l_get", "l_make") /\ UNCHANGED handle
    /\ UNCHANGED <<global, globalOwner, registry, owner, tables, call>>

(* Mutant: the critical section does not look again. *)
LockMakeBlind(t) ==
    /\ Goto(t, "l_make", "l_take")
    /\ global' = t
    /\ handle' = [handle EXCEPT ![t] = t]
    /\ UNCHANGED <<globalOwner, registry, owner, tables, call>>

(* A candidate mutex is made outside the critical section; inside it the
   first candidate wins and the others are deleted. *)
LockMake(t) ==
    LET winner == IF global = None THEN t ELSE global
    IN  /\ Goto(t, "l_make", "l_take")
        /\ global' = winner
        /\ handle' = [handle EXCEPT ![t] = winner]
        /\ UNCHANGED <<globalOwner, registry, owner, tables, call>>

(* ... or there is no memory for it, and register frees its context. *)
LockNoMemory(t) ==
    /\ Return(t, "l_make")
    /\ state' = IF op[t] = "register" THEN [state EXCEPT ![my[t]] = "freed"] ELSE state
    /\ UNCHANGED <<globalLock, conf, list, vfs, owner, tables>>

LockTake(t) ==
    /\ Goto(t, "l_take", CASE op[t] = "register" -> "r_check"
                           [] op[t] = "unregister" -> "u_find"
                           [] OTHER -> "x_find")
    /\ globalOwner[handle[t]] = None
    /\ globalOwner' = [globalOwner EXCEPT ![handle[t]] = t]
    /\ UNCHANGED <<global, handle, registry, owner, tables, call>>

GiveGlobal(t) == globalOwner' = [globalOwner EXCEPT ![handle[t]] = None]

TakeCtx(t, c) == owner[c] = None /\ owner' = [owner EXCEPT ![c] = t]
GiveCtx(t) == owner' = [owner EXCEPT ![my[t]] = None]

(* The return paths that only have s_contexts_lock to give *)
ReturnGlobal(t) ==
    /\ Return(t, "giveglobal")
    /\ GiveGlobal(t)
    /\ UNCHANGED <<global, handle, registry, owner, tables>>

-----------------------------------------------------------------------------
(* esp_vfs_lwext4_register, under s_contexts_lock *)

(* Mutant: a mount point may be registered twice. *)
ClashBase(c, d) == conf[c].base = conf[d].base

Clash(c, d) == conf[c].base = conf[d].base \/ conf[c].mount = conf[d].mount

(* Mutant: this error path forgets to give the lock. *)
RegisterFailsLocked(t) ==
    /\ Return(t, "r_check")
    /\ state' = [state EXCEPT ![my[t]] = "freed"]
    /\ UNCHANGED <<globalLock, conf, list, vfs, owner, tables>>

(* The prefix or mount point is registered already, or ESP-IDF refuses: the
   lock is given and the context freed. *)
RegisterFails(t) ==
    /\ Return(t, "r_check")
    /\ GiveGlobal(t)
    /\ state' = [state EXCEPT ![my[t]] = "freed"]
    /\ UNCHANGED <<global, handle, conf, list, vfs, owner, tables>>

(* esp_vfs_register_fs: from here on calls are dispatched to the context. *)
RegisterVfs(t) ==
    /\ Goto(t, "r_check", "r_link")
    /\ \A d \in list : ~ Clash(my[t], d)
    /\ vfs' = vfs \cup {my[t]}
    /\ state' = [state EXCEPT ![my[t]] = "live"]
    /\ UNCHANGED <<globalLock, conf, list, owner, tables, call>>

RegisterLink(t) ==
    /\ Goto(t, "r_link", "giveglobal")
    /\ list' = list \cup {my[t]}
    /\ UNCHANGED <<globalLock, state, conf, vfs, owner, tables, call>>

-----------------------------------------------------------------------------
(* esp_vfs_lwext4_unregister *)

(* The search of s_contexts for one of the matching contexts S *)
Find(t, S, to) ==
    \/ /\ \E c \in S : my' = [my EXCEPT ![t] = c]
       /\ pc' = [pc EXCEPT ![t] = to]
    \/ /\ S = {} /\ UNCHANGED my
       /\ pc' = [pc EXCEPT ![t] = "giveglobal"]

UnregisterFind(t) ==
    /\ pc[t] = "u_find"
    /\ Find(t, {c \in list : conf[c].base = arg[t]}, "u_take")
    /\ UNCHANGED <<globalLock, registry, owner, tables, op, arg>>

UnregisterTake(t) ==
    /\ Goto(t, "u_take", "u_check") /\ TakeCtx(t, my[t])
    /\ UNCHANGED <<globalLock, registry, tables, call>>

(* Open handles, or ESP-IDF refuses *)
UnregisterRefuse(t) ==
    /\ Goto(t, "u_check", "u_refuse")
    /\ UNCHANGED <<globalLock, registry, owner, tables, call>>

(* Mutant: directories are not looked at. *)
UnregisterVfsFiles(t) ==
    /\ Goto(t, "u_check", "u_unlink")
    /\ openFiles[my[t]] = 0
    /\ vfs' = vfs \ {my[t]}
    /\ UNCHANGED <<globalLock, state, conf, list, owner, tables, call>>

UnregisterVfs(t) ==
    /\ Goto(t, "u_check", "u_unlink")
    /\ openFiles[my[t]] = 0 /\ openDirs[my[t]] = 0
    /\ vfs' = vfs \ {my[t]}
    /\ UNCHANGED <<globalLock, state, conf, list, owner, tables, call>>

(* Mutant: the context stays in s_contexts. *)
UnregisterNoUnlink(t) ==
    /\ Goto(t, "u_unlink", "u_give")
    /\ UNCHANGED <<globalLock, registry, owner, tables, call>>

UnregisterUnlink(t) ==
    /\ Goto(t, "u_unlink", "u_give")
    /\ list' = list \ {my[t]}
    /\ UNCHANGED <<globalLock, state, conf, vfs, owner, tables, call>>

UnregisterGive(t) ==
    /\ \/ Goto(t, "u_give", "u_giveglobal")
       \/ Goto(t, "u_refuse", "giveglobal")
    /\ GiveCtx(t)
    /\ UNCHANGED <<globalLock, registry, tables, call>>

UnregisterGiveGlobal(t) ==
    /\ Goto(t, "u_giveglobal", "u_free") /\ GiveGlobal(t)
    /\ UNCHANGED <<global, handle, registry, owner, tables, call>>

(* context_free, after both locks were given *)
UnregisterFree(t) ==
    /\ Return(t, "u_free")
    /\ state' = [state EXCEPT ![my[t]] = "freed"]
    /\ UNCHANGED <<globalLock, conf, list, vfs, owner, tables>>

-----------------------------------------------------------------------------
(* esp_vfs_lwext4_rmdir_recurse takes the context's lock before it gives
   s_contexts_lock. *)

(* the registered base path that is the longest prefix of the path *)
LongestPrefix(path) ==
    LET match == {c \in list : conf[c].base <= path}
    IN  {c \in match : \A d \in match : conf[d].base <= conf[c].base}

RmdirFind(t) ==
    /\ pc[t] = "x_find" /\ Find(t, LongestPrefix(arg[t]), "x_take")
    /\ UNCHANGED <<globalLock, registry, owner, tables, op, arg>>

RmdirTake(t) ==
    /\ Goto(t, "x_take", "x_giveglobal") /\ TakeCtx(t, my[t])
    /\ UNCHANGED <<globalLock, registry, tables, call>>

RmdirGiveGlobal(t) ==
    /\ Goto(t, "x_giveglobal", "x_check") /\ GiveGlobal(t)
    /\ UNCHANGED <<global, handle, registry, owner, tables, call>>

(* Mutant: directories are not looked at. *)
RmdirCheckFiles(t) ==
    /\ \/ Goto(t, "x_check", "x_remove") /\ openFiles[my[t]] = 0
       \/ Goto(t, "x_check", "give")
    /\ UNCHANGED <<globalLock, registry, owner, tables, call>>

(* It refuses while anything is open; a bad path or a read-only mount is
   refused here too. *)
RmdirCheck(t) ==
    /\ \/ /\ Goto(t, "x_check", "x_remove")
          /\ openFiles[my[t]] = 0 /\ openDirs[my[t]] = 0
       \/ Goto(t, "x_check", "give")
    /\ UNCHANGED <<globalLock, registry, owner, tables, call>>

(* ext4_dir_rm *)
RmdirRemove(t) ==
    /\ Goto(t, "x_remove", "give")
    /\ UNCHANGED <<globalLock, registry, owner, tables, call>>

-----------------------------------------------------------------------------
(* VFS calls on a context *)

CallTake(t) ==
    /\ Goto(t, "v_take", "v_body") /\ TakeCtx(t, my[t])
    /\ UNCHANGED <<globalLock, registry, tables, call>>

Body(t, o) == pc[t] = "v_body" /\ op[t] = o

(* Mutants: the search runs one slot too far; it does not look at used *)
FreeSlotsBeyond(c) == {s \in 0 .. MaxFiles : s \notin used[c] /\ 0 .. s - 1 \subseteq used[c]}
FreeSlotsAny(c) == Slots

(* The first free slot, if there is one *)
FreeSlots(c) == {s \in Slots : s \notin used[c] /\ 0 .. s - 1 \subseteq used[c]}

(* open picks the first free slot; with none it fails (EMFILE), as it does
   when the path exists as a directory, or must not exist and does *)
OpenPick(t) ==
    /\ Body(t, "open")
    /\ \/ \E s \in FreeSlots(my[t]) :
             /\ Goto(t, "v_body", "v_open")
             /\ arg' = [arg EXCEPT ![t] = s]
       \/ Goto(t, "v_body", "give") /\ UNCHANGED arg
    /\ UNCHANGED <<globalLock, registry, owner, tables, op, my>>

(* ext4_fopen2 succeeded (or not) *)
OpenDone(t) ==
    /\ Goto(t, "v_open", "give")
    /\ \/ /\ used' = [used EXCEPT ![my[t]] = @ \cup {arg[t]}]
          /\ openFiles' = [openFiles EXCEPT ![my[t]] = @ + 1]
       \/ UNCHANGED <<used, openFiles>>
    /\ UNCHANGED <<globalLock, registry, owner, openDirs, dirs, call>>

(* Mutant: the count goes down although ext4_fclose failed. *)
CloseFileCounts(t) ==
    /\ Body(t, "close") /\ Goto(t, "v_body", "give")
    /\ arg[t] \in used[my[t]]
    /\ used' \in {used, [used EXCEPT ![my[t]] = @ \ {arg[t]}]}
    /\ openFiles' = [openFiles EXCEPT ![my[t]] = @ - 1]
    /\ UNCHANGED <<globalLock, registry, owner, openDirs, dirs, call>>

(* close: a slot that is not open is EBADF; ext4_fclose may fail, and the
   slot stays open *)
CloseFile(t) ==
    /\ Body(t, "close") /\ Goto(t, "v_body", "give")
    /\ \/ /\ arg[t] \in used[my[t]]
          /\ used' = [used EXCEPT ![my[t]] = @ \ {arg[t]}]
          /\ openFiles' = [openFiles EXCEPT ![my[t]] = @ - 1]
       \/ UNCHANGED <<used, openFiles>>
    /\ UNCHANGED <<globalLock, registry, owner, openDirs, dirs, call>>

(* read, write, lseek, fsync, ...: file_get, then work on the slot *)
FileGet(t) ==
    /\ Body(t, "file")
    /\ Goto(t, "v_body", IF arg[t] \in used[my[t]] THEN "v_file" ELSE "give")
    /\ UNCHANGED <<globalLock, registry, owner, tables, call>>

FileUse(t) ==
    /\ Goto(t, "v_file", "give")
    /\ UNCHANGED <<globalLock, registry, owner, tables, call>>

(* ext4_dir_open makes a handle the application does not have yet. *)
OpenDir(t) ==
    /\ Body(t, "opendir") /\ Goto(t, "v_body", "give")
    /\ \/ \E d \in Dirs \ dirs[my[t]] :
             /\ dirs' = [dirs EXCEPT ![my[t]] = @ \cup {d}]
             /\ openDirs' = [openDirs EXCEPT ![my[t]] = @ + 1]
       \/ UNCHANGED <<dirs, openDirs>>
    /\ UNCHANGED <<globalLock, registry, owner, used, openFiles, call>>

(* A failing ext4_dir_close leaves the handle with the application. *)
CloseDir(t) ==
    /\ Body(t, "closedir") /\ Goto(t, "v_body", "give")
    /\ \/ /\ dirs' = [dirs EXCEPT ![my[t]] = @ \ {arg[t]}]
          /\ openDirs' = [openDirs EXCEPT ![my[t]] = @ - 1]
       \/ UNCHANGED <<dirs, openDirs>>
    /\ UNCHANGED <<globalLock, registry, owner, used, openFiles, call>>

(* stat, rename, mkdir, ...: nothing of the context's state changes *)
PathCall(t) ==
    /\ Body(t, "path") /\ Goto(t, "v_body", "give")
    /\ UNCHANGED <<globalLock, registry, owner, tables, call>>

ReturnCtx(t) ==
    /\ Return(t, "give") /\ GiveCtx(t)
    /\ UNCHANGED <<globalLock, registry, tables>>

-----------------------------------------------------------------------------
Start(t) ==
    \/ Register(t) \/ Unregister(t) \/ RmdirRecurse(t)
    \/ CallPath(t) \/ CallFile(t) \/ CallClosedir(t)

(* Steps that wait for a mutex *)
Wait(t) == LockTake(t) \/ UnregisterTake(t) \/ RmdirTake(t) \/ CallTake(t)

Run(t) ==
    \/ LockGet(t) \/ LockMake(t) \/ LockNoMemory(t) \/ ReturnGlobal(t)
    \/ RegisterFails(t) \/ RegisterVfs(t) \/ RegisterLink(t)
    \/ UnregisterFind(t) \/ UnregisterRefuse(t) \/ UnregisterVfs(t) \/ UnregisterUnlink(t)
    \/ UnregisterGive(t) \/ UnregisterGiveGlobal(t) \/ UnregisterFree(t)
    \/ RmdirFind(t) \/ RmdirGiveGlobal(t) \/ RmdirCheck(t) \/ RmdirRemove(t)
    \/ OpenPick(t) \/ OpenDone(t) \/ CloseFile(t) \/ FileGet(t) \/ FileUse(t)
    \/ OpenDir(t) \/ CloseDir(t) \/ PathCall(t) \/ ReturnCtx(t)

Next == \E t \in Tasks : Start(t) \/ Wait(t) \/ Run(t)

Spec == Init /\ [][Next]_vars

(* A task that is not blocked runs; a FreeRTOS mutex goes to the longest
   waiting of the tasks with the highest priority, so with tasks of equal
   priority a waiter is not passed over for ever. *)
FairSpec == Spec /\ \A t \in Tasks : WF_vars(Run(t)) /\ SF_vars(Wait(t))

-----------------------------------------------------------------------------
Pcs == GlobalPcs \cup CtxPcs \cup {"idle", "l_get", "l_make", "l_take", "u_free", "v_take"}

Ops == {"none", "register", "unregister", "rmdir", "open", "close", "file", "opendir",
        "closedir", "path"}

(* Every variable keeps its type. *)
TypeOK ==
    /\ global \in Tasks \cup {None}
    /\ globalOwner \in [Tasks -> Tasks \cup {None}]
    /\ handle \in [Tasks -> Tasks \cup {None}]
    /\ state \in [Ctxs -> {"unused", "private", "live", "freed"}]
    /\ conf \in [Ctxs -> Confs \cup {None}]
    /\ list \subseteq Ctxs /\ vfs \subseteq Ctxs
    /\ owner \in [Ctxs -> Tasks \cup {None}]
    /\ used \in [Ctxs -> SUBSET Slots]
    /\ openFiles \in [Ctxs -> Int] /\ openDirs \in [Ctxs -> Int]
    /\ dirs \in [Ctxs -> SUBSET Dirs]
    /\ pc \in [Tasks -> Pcs] /\ op \in [Tasks -> Ops]
    /\ arg \in [Tasks -> Bases \cup Slots \cup Dirs \cup {None}]
    /\ my \in [Tasks -> Ctxs \cup {None}]

(* However many tasks race to create s_contexts_lock, at most one is inside
   its critical section, and at most one inside each context's. *)
MutualExclusion ==
    \A t, u \in Tasks :
        /\ (pc[t] \in GlobalPcs /\ pc[u] \in GlobalPcs) => t = u
        /\ (pc[t] \in CtxPcs /\ pc[u] \in CtxPcs /\ my[t] = my[u]) => t = u

(* open_files and open_dirs, on which unregister and rmdir_recurse decide, are
   exactly the open slots and the handles the application has, whatever calls
   failed half-way. *)
CountsExact ==
    \A c \in Ctxs : /\ openFiles[c] = Cardinality(used[c])
                    /\ openDirs[c] = Cardinality(dirs[c])

(* No call works on a context that was freed, and neither s_contexts nor
   ESP-IDF's table leads to one, when the application does not call into a
   prefix it is unregistering. *)
NoUseAfterFree ==
    /\ \A t \in Tasks : my[t] # None => state[my[t]] \in {"private", "live"}
    /\ \A c \in list \cup vfs : state[c] = "live"

(* No two registered contexts share a base path or a mount point, and outside
   the critical section s_contexts is what ESP-IDF dispatches to. *)
RegistryConsistent ==
    /\ \A c, d \in list : c # d => /\ conf[c].base # conf[d].base
                                  /\ conf[c].mount # conf[d].mount
    /\ (\A t \in Tasks : pc[t] \notin GlobalPcs) => list = vfs

(* A file slot found in use stays so until the call is done with it, and the
   slot an open fills is not given to a second open meanwhile. *)
SlotsStable ==
    \A t \in Tasks : /\ pc[t] = "v_file" => arg[t] \in used[my[t]]
                     /\ pc[t] = "v_open" => arg[t] \notin used[my[t]]

(* While rmdir_recurse removes a tree nothing is open on that mount, although
   it gave s_contexts_lock before. *)
RemovesAlone ==
    \A t \in Tasks : pc[t] = "x_remove" => used[my[t]] = {} /\ dirs[my[t]] = {}

(* esp_lwext4.h: "Unregistration fails while files or directories opened
   through this VFS instance remain open." *)
UnregistersClosed ==
    [][\A c \in Ctxs : (state[c] = "live" /\ state'[c] = "freed") =>
                           used[c] = {} /\ dirs[c] = {}]_vars

(* Every call returns: taking a context's lock under s_contexts_lock never
   closes a cycle of waiting tasks. *)
EveryCallReturns == \A t \in Tasks : (pc[t] # "idle") ~> (pc[t] = "idle")
-----------------------------------------------------------------------------
(* The inductive invariant behind these properties, by named parts. *)

Waiting == {"l_get", "l_make", "l_take"}
UnregisterPcs == {"u_find", "u_take", "u_check", "u_unlink", "u_give", "u_giveglobal", "u_free",
                  "u_refuse"}
RmdirPcs == {"x_find", "x_take", "x_giveglobal", "x_check", "x_remove"}
CallPcs == {"v_take", "v_body", "v_file", "v_open"}

(* Which call a task is in tells where it can be, and whether it has a
   context. *)
RolesKept ==
    \A t \in Tasks :
        /\ op[t] = "none" => pc[t] = "idle" /\ my[t] = None
        /\ op[t] = "register" =>
              pc[t] \in Waiting \cup {"r_check", "r_link", "giveglobal"} /\ my[t] \in Ctxs
        /\ op[t] = "unregister" => pc[t] \in Waiting \cup UnregisterPcs \cup {"giveglobal"}
        /\ op[t] = "rmdir" => pc[t] \in Waiting \cup RmdirPcs \cup {"giveglobal", "give"}
        /\ InCall(t) => pc[t] \in CallPcs \cup {"give"} /\ my[t] \in Ctxs
        /\ pc[t] \in {"r_check", "r_link"} => op[t] = "register"
        /\ pc[t] \in UnregisterPcs => op[t] = "unregister"
        /\ pc[t] \in RmdirPcs => op[t] = "rmdir"
        /\ pc[t] \in CallPcs => InCall(t)
        /\ pc[t] \in (UnregisterPcs \cup RmdirPcs \cup {"give"}) \ {"u_find", "x_find"} =>
              my[t] \in Ctxs
        /\ pc[t] \in Waiting \cup {"u_find", "x_find"} => op[t] = "register" \/ my[t] = None
        /\ pc[t] = "v_open" => arg[t] \in Slots

(* There is one registry lock, and being between take and give is owning. *)
LocksHeld ==
    \A t \in Tasks :
        /\ handle[t] # None => handle[t] = global
        /\ pc[t] \in GlobalPcs \cup {"l_take"} => handle[t] \in Tasks
        /\ pc[t] \in GlobalPcs => globalOwner[global] = t
        /\ pc[t] \in CtxPcs => owner[my[t]] = t

(* A directory handle being closed is held, and by one closing task. *)
ClosingHeld ==
    \A t, u \in Tasks :
        Closing(t, my[t], arg[t]) => /\ arg[t] \in dirs[my[t]]
                                     /\ Closing(u, my[t], arg[t]) => t = u

(* A context that unregister has taken out of ESP-IDF's table is empty and no
   other task works on it; one that register has not put there is nobody
   else's either. *)
Leaving == {"u_unlink", "u_give", "u_giveglobal", "u_free"}

LifetimesKept ==
    /\ \A t \in Tasks :
          /\ (op[t] = "register" /\ pc[t] \in Waiting \cup {"r_check"}) => state[my[t]] = "private"
          /\ pc[t] = "r_link" => state[my[t]] = "live"
          /\ pc[t] \in {"u_take", "u_check", "u_refuse", "u_unlink"} => my[t] \in list
          /\ pc[t] \in UnregisterPcs \ {"u_find"} => conf[my[t]].base = arg[t]
          /\ pc[t] \in Leaving => my[t] \notin vfs /\ used[my[t]] = {} /\ dirs[my[t]] = {}
          /\ pc[t] \in Leaving \ {"u_unlink"} => my[t] \notin list
          /\ InCall(t) => state[my[t]] = "live"
    /\ \A t, u \in Tasks :
          /\ my[t] \in Ctxs /\ my[t] = my[u] /\ (state[my[t]] = "private" \/ pc[t] \in Leaving)
             => t = u
          /\ Quiesced /\ InCall(u) /\ InUnregister(t) => conf[my[u]].base # arg[t]

(* s_contexts and ESP-IDF's table differ by the context that the holder of the
   registry lock is adding or taking out, and nothing else. *)
RegistryKept ==
    /\ \A c, d \in list : c # d => ~ Clash(c, d)
    /\ \A c \in vfs \ list : \E t \in Tasks : pc[t] = "r_link" /\ my[t] = c
    /\ \A c \in list \ vfs : \E t \in Tasks : pc[t] = "u_unlink" /\ my[t] = c
    /\ \A t \in Tasks :
          /\ pc[t] = "r_link" => my[t] \in vfs /\ \A d \in list : ~ Clash(my[t], d)
          /\ pc[t] = "u_unlink" => my[t] \in list \ vfs

Inductive ==
    /\ TypeOK /\ RolesKept /\ LocksHeld
    /\ CountsExact /\ SlotsStable /\ RemovesAlone /\ ClosingHeld
    /\ NoUseAfterFree /\ LifetimesKept /\ RegistryKept
===============================================================================
