---------------------------- MODULE VfsMountProofs ----------------------------
(***************************************************************************)
(* Proofs about VfsMount, for any number of tasks, contexts and slots.     *)
(*                                                                         *)
(* Inductive (in VfsMount) is shown to be preserved part by part: one      *)
(* lemma per conjunct, one step per action.  Core, the part that does not  *)
(* depend on what the application does, gives the exclusion, counting and  *)
(* file table theorems; the lifetime theorems assume Quiesced.             *)
(***************************************************************************)
EXTENDS VfsMount, FiniteSetTheorems, TLAPS

(* Every action keeps the types; that my[t] is a context where the action
   updates that context comes from RolesKept. *)
LEMMA TypeStep == TypeOK /\ RolesKept /\ [Next]_vars => TypeOK'
<1>1. ASSUME TypeOK /\ RolesKept,
             NEW t \in Tasks, Start(t) \/ Wait(t) \/ Run(t)
      PROVE  TypeOK'
  <2> USE <1>1 DEF Goto, Return, Begin, Body,
               globalLock, registry, tables, call,
               TypeOK, RolesKept, Pcs, GlobalPcs, CtxPcs, Ops, Bases, Waiting, UnregisterPcs, RmdirPcs, CallPcs, InCall
  <2>1. CASE Register(t)
    BY <2>1 DEF Register
  <2>2. CASE Unregister(t)
    BY <2>2 DEF Unregister
  <2>3. CASE RmdirRecurse(t)
    BY <2>3 DEF RmdirRecurse
  <2>4. CASE CallPath(t)
    BY <2>4 DEF CallPath
  <2>5. CASE CallFile(t)
    BY <2>5 DEF CallFile
  <2>6. CASE CallClosedir(t)
    BY <2>6 DEF CallClosedir
  <2>7. CASE LockTake(t)
    BY <2>7 DEF LockTake
  <2>8. CASE UnregisterTake(t)
    BY <2>8 DEF UnregisterTake, TakeCtx
  <2>9. CASE RmdirTake(t)
    BY <2>9 DEF RmdirTake, TakeCtx
  <2>10. CASE CallTake(t)
    BY <2>10 DEF CallTake, TakeCtx
  <2>11. CASE LockGet(t)
    BY <2>11 DEF LockGet
  <2>12. CASE LockMake(t)
    BY <2>12 DEF LockMake
  <2>13. CASE LockNoMemory(t)
    BY <2>13 DEF LockNoMemory
  <2>14. CASE ReturnGlobal(t)
    BY <2>14 DEF ReturnGlobal, GiveGlobal
  <2>15. CASE RegisterFails(t)
    BY <2>15 DEF RegisterFails, GiveGlobal
  <2>16. CASE RegisterVfs(t)
    BY <2>16 DEF RegisterVfs
  <2>17. CASE RegisterLink(t)
    BY <2>17 DEF RegisterLink
  <2>18. CASE UnregisterFind(t)
    BY <2>18 DEF UnregisterFind, Find
  <2>19. CASE UnregisterRefuse(t)
    BY <2>19 DEF UnregisterRefuse
  <2>20. CASE UnregisterVfs(t)
    BY <2>20 DEF UnregisterVfs
  <2>21. CASE UnregisterUnlink(t)
    BY <2>21 DEF UnregisterUnlink
  <2>22. CASE UnregisterGive(t)
    BY <2>22 DEF UnregisterGive, GiveCtx
  <2>23. CASE UnregisterGiveGlobal(t)
    BY <2>23 DEF UnregisterGiveGlobal, GiveGlobal
  <2>24. CASE UnregisterFree(t)
    BY <2>24 DEF UnregisterFree
  <2>25. CASE RmdirFind(t)
    BY <2>25 DEF RmdirFind, Find, LongestPrefix
  <2>26. CASE RmdirGiveGlobal(t)
    BY <2>26 DEF RmdirGiveGlobal, GiveGlobal
  <2>27. CASE RmdirCheck(t)
    BY <2>27 DEF RmdirCheck
  <2>28. CASE RmdirRemove(t)
    BY <2>28 DEF RmdirRemove
  <2>29. CASE OpenPick(t)
    BY <2>29 DEF OpenPick, FreeSlots
  <2>30. CASE OpenDone(t)
    BY <2>30 DEF OpenDone
  <2>31. CASE CloseFile(t)
    BY <2>31 DEF CloseFile
  <2>32. CASE FileGet(t)
    BY <2>32 DEF FileGet
  <2>33. CASE FileUse(t)
    BY <2>33 DEF FileUse
  <2>34. CASE OpenDir(t)
    BY <2>34 DEF OpenDir
  <2>35. CASE CloseDir(t)
    BY <2>35 DEF CloseDir
  <2>36. CASE PathCall(t)
    BY <2>36 DEF PathCall
  <2>37. CASE ReturnCtx(t)
    BY <2>37 DEF ReturnCtx, GiveCtx
  <2> QED BY <2>1, <2>2, <2>3, <2>4, <2>5, <2>6, <2>7, <2>8, <2>9, <2>10, <2>11, <2>12, <2>13, <2>14, <2>15, <2>16, <2>17, <2>18, <2>19, <2>20, <2>21, <2>22, <2>23, <2>24, <2>25, <2>26, <2>27, <2>28, <2>29, <2>30, <2>31, <2>32, <2>33, <2>34, <2>35, <2>36, <2>37 DEF Start, Wait, Run
<1>2. CASE UNCHANGED vars
  BY <1>2 DEF TypeOK, RolesKept, Pcs, GlobalPcs, CtxPcs, Ops, Bases, Waiting, UnregisterPcs, RmdirPcs, CallPcs, InCall, vars
<1> QED BY <1>1, <1>2 DEF Next

(* Every action leaves its task where its call may be. *)
LEMMA RolesStep == TypeOK /\ RolesKept /\ [Next]_vars => RolesKept'
<1>1. ASSUME TypeOK /\ RolesKept,
             NEW t \in Tasks, Start(t) \/ Wait(t) \/ Run(t)
      PROVE  RolesKept'
  <2> USE <1>1, NoneAssumption DEF Goto, Return, Begin, Body,
               globalLock, registry, tables, call,
               TypeOK, RolesKept, InCall, Waiting, UnregisterPcs, RmdirPcs, CallPcs
  <2>1. CASE Register(t)
    BY <2>1 DEF Register
  <2>2. CASE Unregister(t)
    BY <2>2 DEF Unregister
  <2>3. CASE RmdirRecurse(t)
    BY <2>3 DEF RmdirRecurse
  <2>4. CASE CallPath(t)
    BY <2>4 DEF CallPath
  <2>5. CASE CallFile(t)
    BY <2>5 DEF CallFile
  <2>6. CASE CallClosedir(t)
    BY <2>6 DEF CallClosedir
  <2>7. CASE LockTake(t)
    BY <2>7 DEF LockTake, Ops
  <2>8. CASE UnregisterTake(t)
    BY <2>8 DEF UnregisterTake, TakeCtx
  <2>9. CASE RmdirTake(t)
    BY <2>9 DEF RmdirTake, TakeCtx
  <2>10. CASE CallTake(t)
    BY <2>10 DEF CallTake, TakeCtx
  <2>11. CASE LockGet(t)
    BY <2>11 DEF LockGet
  <2>12. CASE LockMake(t)
    BY <2>12 DEF LockMake
  <2>13. CASE LockNoMemory(t)
    BY <2>13 DEF LockNoMemory
  <2>14. CASE ReturnGlobal(t)
    BY <2>14 DEF ReturnGlobal, GiveGlobal
  <2>15. CASE RegisterFails(t)
    BY <2>15 DEF RegisterFails, GiveGlobal
  <2>16. CASE RegisterVfs(t)
    BY <2>16 DEF RegisterVfs
  <2>17. CASE RegisterLink(t)
    BY <2>17 DEF RegisterLink
  <2>18. CASE UnregisterFind(t)
    BY <2>18 DEF UnregisterFind, Find
  <2>19. CASE UnregisterRefuse(t)
    BY <2>19 DEF UnregisterRefuse
  <2>20. CASE UnregisterVfs(t)
    BY <2>20 DEF UnregisterVfs
  <2>21. CASE UnregisterUnlink(t)
    BY <2>21 DEF UnregisterUnlink
  <2>22. CASE UnregisterGive(t)
    BY <2>22 DEF UnregisterGive, GiveCtx
  <2>23. CASE UnregisterGiveGlobal(t)
    BY <2>23 DEF UnregisterGiveGlobal, GiveGlobal
  <2>24. CASE UnregisterFree(t)
    BY <2>24 DEF UnregisterFree
  <2>25. CASE RmdirFind(t)
    BY <2>25 DEF RmdirFind, Find, LongestPrefix
  <2>26. CASE RmdirGiveGlobal(t)
    BY <2>26 DEF RmdirGiveGlobal, GiveGlobal
  <2>27. CASE RmdirCheck(t)
    BY <2>27 DEF RmdirCheck
  <2>28. CASE RmdirRemove(t)
    BY <2>28 DEF RmdirRemove
  <2>29. CASE OpenPick(t)
    BY <2>29 DEF OpenPick, FreeSlots
  <2>30. CASE OpenDone(t)
    BY <2>30 DEF OpenDone
  <2>31. CASE CloseFile(t)
    BY <2>31 DEF CloseFile
  <2>32. CASE FileGet(t)
    BY <2>32 DEF FileGet
  <2>33. CASE FileUse(t)
    BY <2>33 DEF FileUse
  <2>34. CASE OpenDir(t)
    BY <2>34 DEF OpenDir
  <2>35. CASE CloseDir(t)
    BY <2>35 DEF CloseDir
  <2>36. CASE PathCall(t)
    BY <2>36 DEF PathCall
  <2>37. CASE ReturnCtx(t)
    BY <2>37 DEF ReturnCtx, GiveCtx
  <2> QED BY <2>1, <2>2, <2>3, <2>4, <2>5, <2>6, <2>7, <2>8, <2>9, <2>10, <2>11, <2>12, <2>13, <2>14, <2>15, <2>16, <2>17, <2>18, <2>19, <2>20, <2>21, <2>22, <2>23, <2>24, <2>25, <2>26, <2>27, <2>28, <2>29, <2>30, <2>31, <2>32, <2>33, <2>34, <2>35, <2>36, <2>37 DEF Start, Wait, Run
<1>2. CASE UNCHANGED vars
  BY <1>2 DEF TypeOK, RolesKept, InCall, Waiting, UnregisterPcs, RmdirPcs, CallPcs, vars
<1> QED BY <1>1, <1>2 DEF Next

(* Taking and giving the locks keeps LocksHeld; the handle a task takes is
   always the one mutex that won the race in contexts_lock_get. *)
LEMMA LockStep == TypeOK /\ RolesKept /\ LocksHeld /\ [Next]_vars => LocksHeld'
<1>1. ASSUME TypeOK /\ RolesKept /\ LocksHeld,
             NEW t \in Tasks, Start(t) \/ Wait(t) \/ Run(t)
      PROVE  LocksHeld'
  <2> USE <1>1, NoneAssumption DEF Goto, Return, Begin, Body,
               globalLock, registry, tables, call,
               TypeOK, LocksHeld, RolesKept, GlobalPcs, CtxPcs, InCall, Waiting, UnregisterPcs, RmdirPcs, CallPcs
  <2>1. CASE Register(t)
    BY <2>1 DEF Register
  <2>2. CASE Unregister(t)
    BY <2>2 DEF Unregister
  <2>3. CASE RmdirRecurse(t)
    BY <2>3 DEF RmdirRecurse
  <2>4. CASE CallPath(t)
    BY <2>4 DEF CallPath
  <2>5. CASE CallFile(t)
    BY <2>5 DEF CallFile
  <2>6. CASE CallClosedir(t)
    BY <2>6 DEF CallClosedir
  <2>7. CASE LockTake(t)
    <3>1. handle[t] = global /\ global \in Tasks
      BY <2>7, NoneAssumption DEF LockTake
    <3>2. \A u \in Tasks : pc[u] \notin GlobalPcs
      BY <2>7, <3>1, NoneAssumption DEF LockTake
    <3> QED BY <2>7, <3>1, <3>2 DEF LockTake
  <2>8. CASE UnregisterTake(t)
    BY <2>8 DEF UnregisterTake, TakeCtx
  <2>9. CASE RmdirTake(t)
    BY <2>9 DEF RmdirTake, TakeCtx
  <2>10. CASE CallTake(t)
    BY <2>10 DEF CallTake, TakeCtx
  <2>11. CASE LockGet(t)
    BY <2>11 DEF LockGet
  <2>12. CASE LockMake(t)
    BY <2>12 DEF LockMake
  <2>13. CASE LockNoMemory(t)
    BY <2>13 DEF LockNoMemory
  <2>14. CASE ReturnGlobal(t)
    BY <2>14 DEF ReturnGlobal, GiveGlobal
  <2>15. CASE RegisterFails(t)
    BY <2>15 DEF RegisterFails, GiveGlobal
  <2>16. CASE RegisterVfs(t)
    BY <2>16 DEF RegisterVfs
  <2>17. CASE RegisterLink(t)
    BY <2>17 DEF RegisterLink
  <2>18. CASE UnregisterFind(t)
    BY <2>18 DEF UnregisterFind, Find
  <2>19. CASE UnregisterRefuse(t)
    BY <2>19 DEF UnregisterRefuse
  <2>20. CASE UnregisterVfs(t)
    BY <2>20 DEF UnregisterVfs
  <2>21. CASE UnregisterUnlink(t)
    BY <2>21 DEF UnregisterUnlink
  <2>22. CASE UnregisterGive(t)
    BY <2>22 DEF UnregisterGive, GiveCtx
  <2>23. CASE UnregisterGiveGlobal(t)
    BY <2>23 DEF UnregisterGiveGlobal, GiveGlobal
  <2>24. CASE UnregisterFree(t)
    BY <2>24 DEF UnregisterFree
  <2>25. CASE RmdirFind(t)
    BY <2>25 DEF RmdirFind, Find, LongestPrefix
  <2>26. CASE RmdirGiveGlobal(t)
    BY <2>26 DEF RmdirGiveGlobal, GiveGlobal
  <2>27. CASE RmdirCheck(t)
    BY <2>27 DEF RmdirCheck
  <2>28. CASE RmdirRemove(t)
    BY <2>28 DEF RmdirRemove
  <2>29. CASE OpenPick(t)
    BY <2>29 DEF OpenPick, FreeSlots
  <2>30. CASE OpenDone(t)
    BY <2>30 DEF OpenDone
  <2>31. CASE CloseFile(t)
    BY <2>31 DEF CloseFile
  <2>32. CASE FileGet(t)
    BY <2>32 DEF FileGet
  <2>33. CASE FileUse(t)
    BY <2>33 DEF FileUse
  <2>34. CASE OpenDir(t)
    BY <2>34 DEF OpenDir
  <2>35. CASE CloseDir(t)
    BY <2>35 DEF CloseDir
  <2>36. CASE PathCall(t)
    BY <2>36 DEF PathCall
  <2>37. CASE ReturnCtx(t)
    BY <2>37 DEF ReturnCtx, GiveCtx
  <2> QED BY <2>1, <2>2, <2>3, <2>4, <2>5, <2>6, <2>7, <2>8, <2>9, <2>10, <2>11, <2>12, <2>13, <2>14, <2>15, <2>16, <2>17, <2>18, <2>19, <2>20, <2>21, <2>22, <2>23, <2>24, <2>25, <2>26, <2>27, <2>28, <2>29, <2>30, <2>31, <2>32, <2>33, <2>34, <2>35, <2>36, <2>37 DEF Start, Wait, Run
<1>2. CASE UNCHANGED vars
  BY <1>2 DEF TypeOK, LocksHeld, RolesKept, GlobalPcs, CtxPcs, InCall, Waiting, UnregisterPcs, RmdirPcs, CallPcs, vars
<1> QED BY <1>1, <1>2 DEF Next

(* Owning a lock excludes: the two locks have one owner each. *)
LEMMA LocksExclude == TypeOK /\ RolesKept /\ LocksHeld => MutualExclusion
  BY NoneAssumption DEF TypeOK, RolesKept, LocksHeld, MutualExclusion

(* The file table and the set of directory handles are finite. *)
LEMMA TablesFinite ==
  ASSUME TypeOK PROVE \A c \in Ctxs : IsFiniteSet(used[c]) /\ IsFiniteSet(dirs[c])
<1>1. IsFiniteSet(Slots)
  BY SizeAssumption, FS_Interval DEF Slots
<1> QED BY <1>1, SizeAssumption, FS_Subset DEF TypeOK

(* The counters follow the file table and the directory handles. *)
LEMMA CountsStep ==
  TypeOK /\ RolesKept /\ CountsExact /\ SlotsStable /\ ClosingHeld /\ [Next]_vars
  => CountsExact'
<1>1. ASSUME TypeOK /\ RolesKept /\ CountsExact /\ SlotsStable /\ ClosingHeld,
             NEW t \in Tasks, Start(t) \/ Wait(t) \/ Run(t)
      PROVE  CountsExact'
  <2> USE <1>1 DEF Goto, Return, Begin, Body,
               globalLock, registry, tables, call,
               TypeOK, RolesKept, CountsExact, InCall, CallPcs
  <2>1. CASE Register(t)
    BY <2>1 DEF Register
  <2>2. CASE Unregister(t)
    BY <2>2 DEF Unregister
  <2>3. CASE RmdirRecurse(t)
    BY <2>3 DEF RmdirRecurse
  <2>4. CASE CallPath(t)
    BY <2>4 DEF CallPath
  <2>5. CASE CallFile(t)
    BY <2>5 DEF CallFile
  <2>6. CASE CallClosedir(t)
    BY <2>6 DEF CallClosedir
  <2>7. CASE LockTake(t)
    BY <2>7 DEF LockTake
  <2>8. CASE UnregisterTake(t)
    BY <2>8 DEF UnregisterTake, TakeCtx
  <2>9. CASE RmdirTake(t)
    BY <2>9 DEF RmdirTake, TakeCtx
  <2>10. CASE CallTake(t)
    BY <2>10 DEF CallTake, TakeCtx
  <2>11. CASE LockGet(t)
    BY <2>11 DEF LockGet
  <2>12. CASE LockMake(t)
    BY <2>12 DEF LockMake
  <2>13. CASE LockNoMemory(t)
    BY <2>13 DEF LockNoMemory
  <2>14. CASE ReturnGlobal(t)
    BY <2>14 DEF ReturnGlobal, GiveGlobal
  <2>15. CASE RegisterFails(t)
    BY <2>15 DEF RegisterFails, GiveGlobal
  <2>16. CASE RegisterVfs(t)
    BY <2>16 DEF RegisterVfs
  <2>17. CASE RegisterLink(t)
    BY <2>17 DEF RegisterLink
  <2>18. CASE UnregisterFind(t)
    BY <2>18 DEF UnregisterFind, Find
  <2>19. CASE UnregisterRefuse(t)
    BY <2>19 DEF UnregisterRefuse
  <2>20. CASE UnregisterVfs(t)
    BY <2>20 DEF UnregisterVfs
  <2>21. CASE UnregisterUnlink(t)
    BY <2>21 DEF UnregisterUnlink
  <2>22. CASE UnregisterGive(t)
    BY <2>22 DEF UnregisterGive, GiveCtx
  <2>23. CASE UnregisterGiveGlobal(t)
    BY <2>23 DEF UnregisterGiveGlobal, GiveGlobal
  <2>24. CASE UnregisterFree(t)
    BY <2>24 DEF UnregisterFree
  <2>25. CASE RmdirFind(t)
    BY <2>25 DEF RmdirFind, Find, LongestPrefix
  <2>26. CASE RmdirGiveGlobal(t)
    BY <2>26 DEF RmdirGiveGlobal, GiveGlobal
  <2>27. CASE RmdirCheck(t)
    BY <2>27 DEF RmdirCheck
  <2>28. CASE RmdirRemove(t)
    BY <2>28 DEF RmdirRemove
  <2>29. CASE OpenPick(t)
    BY <2>29 DEF OpenPick, FreeSlots
  <2>30. CASE OpenDone(t)
    <3>1. my[t] \in Ctxs /\ arg[t] \notin used[my[t]]
      BY <2>30 DEF OpenDone, SlotsStable
    <3>2. Cardinality(used[my[t]] \cup {arg[t]}) = Cardinality(used[my[t]]) + 1
      BY <3>1, TablesFinite, FS_AddElement
    <3>3. CASE /\ used' = [used EXCEPT ![my[t]] = @ \cup {arg[t]}]
               /\ openFiles' = [openFiles EXCEPT ![my[t]] = @ + 1]
      BY <2>30, <3>1, <3>2, <3>3 DEF OpenDone
    <3>4. CASE UNCHANGED <<used, openFiles>>
      BY <2>30, <3>4 DEF OpenDone
    <3> QED BY <2>30, <3>3, <3>4 DEF OpenDone
  <2>31. CASE CloseFile(t)
    <3>1. my[t] \in Ctxs
      BY <2>31 DEF CloseFile
    <3>2. arg[t] \in used[my[t]] =>
             Cardinality(used[my[t]] \ {arg[t]}) = Cardinality(used[my[t]]) - 1
      BY <3>1, TablesFinite, FS_RemoveElement
    <3>3. CASE /\ arg[t] \in used[my[t]]
               /\ used' = [used EXCEPT ![my[t]] = @ \ {arg[t]}]
               /\ openFiles' = [openFiles EXCEPT ![my[t]] = @ - 1]
      BY <2>31, <3>1, <3>2, <3>3 DEF CloseFile
    <3>4. CASE UNCHANGED <<used, openFiles>>
      BY <2>31, <3>4 DEF CloseFile
    <3> QED BY <2>31, <3>3, <3>4 DEF CloseFile
  <2>32. CASE FileGet(t)
    BY <2>32 DEF FileGet
  <2>33. CASE FileUse(t)
    BY <2>33 DEF FileUse
  <2>34. CASE OpenDir(t)
    <3>1. my[t] \in Ctxs
      BY <2>34 DEF OpenDir
    <3>2. \A d \in Dirs \ dirs[my[t]] :
             Cardinality(dirs[my[t]] \cup {d}) = Cardinality(dirs[my[t]]) + 1
      BY <3>1, TablesFinite, FS_AddElement
    <3> QED BY <2>34, <3>1, <3>2 DEF OpenDir
  <2>35. CASE CloseDir(t)
    <3>1. my[t] \in Ctxs /\ arg[t] \in dirs[my[t]]
      BY <2>35 DEF CloseDir, ClosingHeld, Closing
    <3>2. Cardinality(dirs[my[t]] \ {arg[t]}) = Cardinality(dirs[my[t]]) - 1
      <4> HIDE DEF TypeOK, RolesKept, CountsExact, tables, registry, globalLock, call
      <4>1. IsFiniteSet(dirs[my[t]])
        BY <3>1, TablesFinite
      <4> QED BY <3>1, <4>1, FS_RemoveElement
    <3>3. CASE /\ dirs' = [dirs EXCEPT ![my[t]] = @ \ {arg[t]}]
               /\ openDirs' = [openDirs EXCEPT ![my[t]] = @ - 1]
      BY <2>35, <3>1, <3>2, <3>3 DEF CloseDir
    <3>4. CASE UNCHANGED <<dirs, openDirs>>
      BY <2>35, <3>4 DEF CloseDir
    <3> QED BY <2>35, <3>3, <3>4 DEF CloseDir
  <2>36. CASE PathCall(t)
    BY <2>36 DEF PathCall
  <2>37. CASE ReturnCtx(t)
    BY <2>37 DEF ReturnCtx, GiveCtx
  <2> QED BY <2>1, <2>2, <2>3, <2>4, <2>5, <2>6, <2>7, <2>8, <2>9, <2>10, <2>11, <2>12, <2>13, <2>14, <2>15, <2>16, <2>17, <2>18, <2>19, <2>20, <2>21, <2>22, <2>23, <2>24, <2>25, <2>26, <2>27, <2>28, <2>29, <2>30, <2>31, <2>32, <2>33, <2>34, <2>35, <2>36, <2>37 DEF Start, Wait, Run
<1>2. CASE UNCHANGED vars
  BY <1>2 DEF TypeOK, RolesKept, CountsExact, InCall, CallPcs, vars
<1> QED BY <1>1, <1>2 DEF Next

(* A slot in use by a call changes only under the lock the call holds. *)
LEMMA SlotsStep ==
  TypeOK /\ RolesKept /\ MutualExclusion /\ SlotsStable /\ [Next]_vars
  => SlotsStable'
<1>1. ASSUME TypeOK /\ RolesKept /\ MutualExclusion /\ SlotsStable,
             NEW t \in Tasks, Start(t) \/ Wait(t) \/ Run(t)
      PROVE  SlotsStable'
  <2> USE <1>1 DEF Goto, Return, Begin, Body,
               globalLock, registry, tables, call,
               TypeOK, RolesKept, MutualExclusion, SlotsStable, InCall, CtxPcs, CallPcs
  <2>1. CASE Register(t)
    BY <2>1 DEF Register
  <2>2. CASE Unregister(t)
    BY <2>2 DEF Unregister
  <2>3. CASE RmdirRecurse(t)
    BY <2>3 DEF RmdirRecurse
  <2>4. CASE CallPath(t)
    BY <2>4 DEF CallPath
  <2>5. CASE CallFile(t)
    BY <2>5 DEF CallFile
  <2>6. CASE CallClosedir(t)
    BY <2>6 DEF CallClosedir
  <2>7. CASE LockTake(t)
    BY <2>7 DEF LockTake
  <2>8. CASE UnregisterTake(t)
    BY <2>8 DEF UnregisterTake, TakeCtx
  <2>9. CASE RmdirTake(t)
    BY <2>9 DEF RmdirTake, TakeCtx
  <2>10. CASE CallTake(t)
    BY <2>10 DEF CallTake, TakeCtx
  <2>11. CASE LockGet(t)
    BY <2>11 DEF LockGet
  <2>12. CASE LockMake(t)
    BY <2>12 DEF LockMake
  <2>13. CASE LockNoMemory(t)
    BY <2>13 DEF LockNoMemory
  <2>14. CASE ReturnGlobal(t)
    BY <2>14 DEF ReturnGlobal, GiveGlobal
  <2>15. CASE RegisterFails(t)
    BY <2>15 DEF RegisterFails, GiveGlobal
  <2>16. CASE RegisterVfs(t)
    BY <2>16 DEF RegisterVfs
  <2>17. CASE RegisterLink(t)
    BY <2>17 DEF RegisterLink
  <2>18. CASE UnregisterFind(t)
    BY <2>18 DEF UnregisterFind, Find
  <2>19. CASE UnregisterRefuse(t)
    BY <2>19 DEF UnregisterRefuse
  <2>20. CASE UnregisterVfs(t)
    BY <2>20 DEF UnregisterVfs
  <2>21. CASE UnregisterUnlink(t)
    BY <2>21 DEF UnregisterUnlink
  <2>22. CASE UnregisterGive(t)
    BY <2>22 DEF UnregisterGive, GiveCtx
  <2>23. CASE UnregisterGiveGlobal(t)
    BY <2>23 DEF UnregisterGiveGlobal, GiveGlobal
  <2>24. CASE UnregisterFree(t)
    BY <2>24 DEF UnregisterFree
  <2>25. CASE RmdirFind(t)
    BY <2>25 DEF RmdirFind, Find, LongestPrefix
  <2>26. CASE RmdirGiveGlobal(t)
    BY <2>26 DEF RmdirGiveGlobal, GiveGlobal
  <2>27. CASE RmdirCheck(t)
    BY <2>27 DEF RmdirCheck
  <2>28. CASE RmdirRemove(t)
    BY <2>28 DEF RmdirRemove
  <2>29. CASE OpenPick(t)
    BY <2>29 DEF OpenPick, FreeSlots
  <2>30. CASE OpenDone(t)
    BY <2>30 DEF OpenDone
  <2>31. CASE CloseFile(t)
    BY <2>31 DEF CloseFile
  <2>32. CASE FileGet(t)
    BY <2>32 DEF FileGet
  <2>33. CASE FileUse(t)
    BY <2>33 DEF FileUse
  <2>34. CASE OpenDir(t)
    BY <2>34 DEF OpenDir
  <2>35. CASE CloseDir(t)
    BY <2>35 DEF CloseDir
  <2>36. CASE PathCall(t)
    BY <2>36 DEF PathCall
  <2>37. CASE ReturnCtx(t)
    BY <2>37 DEF ReturnCtx, GiveCtx
  <2> QED BY <2>1, <2>2, <2>3, <2>4, <2>5, <2>6, <2>7, <2>8, <2>9, <2>10, <2>11, <2>12, <2>13, <2>14, <2>15, <2>16, <2>17, <2>18, <2>19, <2>20, <2>21, <2>22, <2>23, <2>24, <2>25, <2>26, <2>27, <2>28, <2>29, <2>30, <2>31, <2>32, <2>33, <2>34, <2>35, <2>36, <2>37 DEF Start, Wait, Run
<1>2. CASE UNCHANGED vars
  BY <1>2 DEF TypeOK, RolesKept, MutualExclusion, SlotsStable, InCall, CtxPcs, CallPcs, vars
<1> QED BY <1>1, <1>2 DEF Next

(* A directory handle stays with the one task that closes it. *)
LEMMA ClosingStep == TypeOK /\ RolesKept /\ ClosingHeld /\ [Next]_vars => ClosingHeld'
<1>1. ASSUME TypeOK /\ RolesKept /\ ClosingHeld,
             NEW t \in Tasks, Start(t) \/ Wait(t) \/ Run(t)
      PROVE  ClosingHeld'
  <2> USE <1>1 DEF Goto, Return, Begin, Body,
               globalLock, registry, tables, call,
               TypeOK, RolesKept, ClosingHeld, Closing, InCall, CallPcs
  <2>1. CASE Register(t)
    BY <2>1 DEF Register
  <2>2. CASE Unregister(t)
    BY <2>2 DEF Unregister
  <2>3. CASE RmdirRecurse(t)
    BY <2>3 DEF RmdirRecurse
  <2>4. CASE CallPath(t)
    BY <2>4 DEF CallPath
  <2>5. CASE CallFile(t)
    BY <2>5 DEF CallFile
  <2>6. CASE CallClosedir(t)
    BY <2>6 DEF CallClosedir
  <2>7. CASE LockTake(t)
    BY <2>7 DEF LockTake
  <2>8. CASE UnregisterTake(t)
    BY <2>8 DEF UnregisterTake, TakeCtx
  <2>9. CASE RmdirTake(t)
    BY <2>9 DEF RmdirTake, TakeCtx
  <2>10. CASE CallTake(t)
    BY <2>10 DEF CallTake, TakeCtx
  <2>11. CASE LockGet(t)
    BY <2>11 DEF LockGet
  <2>12. CASE LockMake(t)
    BY <2>12 DEF LockMake
  <2>13. CASE LockNoMemory(t)
    BY <2>13 DEF LockNoMemory
  <2>14. CASE ReturnGlobal(t)
    BY <2>14 DEF ReturnGlobal, GiveGlobal
  <2>15. CASE RegisterFails(t)
    BY <2>15 DEF RegisterFails, GiveGlobal
  <2>16. CASE RegisterVfs(t)
    BY <2>16 DEF RegisterVfs
  <2>17. CASE RegisterLink(t)
    BY <2>17 DEF RegisterLink
  <2>18. CASE UnregisterFind(t)
    BY <2>18 DEF UnregisterFind, Find
  <2>19. CASE UnregisterRefuse(t)
    BY <2>19 DEF UnregisterRefuse
  <2>20. CASE UnregisterVfs(t)
    BY <2>20 DEF UnregisterVfs
  <2>21. CASE UnregisterUnlink(t)
    BY <2>21 DEF UnregisterUnlink
  <2>22. CASE UnregisterGive(t)
    BY <2>22 DEF UnregisterGive, GiveCtx
  <2>23. CASE UnregisterGiveGlobal(t)
    BY <2>23 DEF UnregisterGiveGlobal, GiveGlobal
  <2>24. CASE UnregisterFree(t)
    BY <2>24 DEF UnregisterFree
  <2>25. CASE RmdirFind(t)
    BY <2>25 DEF RmdirFind, Find, LongestPrefix
  <2>26. CASE RmdirGiveGlobal(t)
    BY <2>26 DEF RmdirGiveGlobal, GiveGlobal
  <2>27. CASE RmdirCheck(t)
    BY <2>27 DEF RmdirCheck
  <2>28. CASE RmdirRemove(t)
    BY <2>28 DEF RmdirRemove
  <2>29. CASE OpenPick(t)
    BY <2>29 DEF OpenPick, FreeSlots
  <2>30. CASE OpenDone(t)
    BY <2>30 DEF OpenDone
  <2>31. CASE CloseFile(t)
    BY <2>31 DEF CloseFile
  <2>32. CASE FileGet(t)
    BY <2>32 DEF FileGet
  <2>33. CASE FileUse(t)
    BY <2>33 DEF FileUse
  <2>34. CASE OpenDir(t)
    BY <2>34 DEF OpenDir
  <2>35. CASE CloseDir(t)
    BY <2>35 DEF CloseDir
  <2>36. CASE PathCall(t)
    BY <2>36 DEF PathCall
  <2>37. CASE ReturnCtx(t)
    BY <2>37 DEF ReturnCtx, GiveCtx
  <2> QED BY <2>1, <2>2, <2>3, <2>4, <2>5, <2>6, <2>7, <2>8, <2>9, <2>10, <2>11, <2>12, <2>13, <2>14, <2>15, <2>16, <2>17, <2>18, <2>19, <2>20, <2>21, <2>22, <2>23, <2>24, <2>25, <2>26, <2>27, <2>28, <2>29, <2>30, <2>31, <2>32, <2>33, <2>34, <2>35, <2>36, <2>37 DEF Start, Wait, Run
<1>2. CASE UNCHANGED vars
  BY <1>2 DEF TypeOK, RolesKept, ClosingHeld, Closing, InCall, CallPcs, vars
<1> QED BY <1>1, <1>2 DEF Next

(* While rmdir_recurse holds the context's lock nothing is opened. *)
LEMMA RemovesStep ==
  TypeOK /\ RolesKept /\ MutualExclusion /\ CountsExact /\ RemovesAlone /\ [Next]_vars
  => RemovesAlone'
<1>1. ASSUME TypeOK /\ RolesKept /\ MutualExclusion /\ CountsExact /\ RemovesAlone,
             NEW t \in Tasks, Start(t) \/ Wait(t) \/ Run(t)
      PROVE  RemovesAlone'
  <2> USE <1>1 DEF Goto, Return, Begin, Body,
               globalLock, registry, tables, call,
               TypeOK, RolesKept, RemovesAlone, MutualExclusion, InCall, CallPcs, CtxPcs, RmdirPcs
  <2>1. CASE Register(t)
    BY <2>1 DEF Register
  <2>2. CASE Unregister(t)
    BY <2>2 DEF Unregister
  <2>3. CASE RmdirRecurse(t)
    BY <2>3 DEF RmdirRecurse
  <2>4. CASE CallPath(t)
    BY <2>4 DEF CallPath
  <2>5. CASE CallFile(t)
    BY <2>5 DEF CallFile
  <2>6. CASE CallClosedir(t)
    BY <2>6 DEF CallClosedir
  <2>7. CASE LockTake(t)
    BY <2>7 DEF LockTake
  <2>8. CASE UnregisterTake(t)
    BY <2>8 DEF UnregisterTake, TakeCtx
  <2>9. CASE RmdirTake(t)
    BY <2>9 DEF RmdirTake, TakeCtx
  <2>10. CASE CallTake(t)
    BY <2>10 DEF CallTake, TakeCtx
  <2>11. CASE LockGet(t)
    BY <2>11 DEF LockGet
  <2>12. CASE LockMake(t)
    BY <2>12 DEF LockMake
  <2>13. CASE LockNoMemory(t)
    BY <2>13 DEF LockNoMemory
  <2>14. CASE ReturnGlobal(t)
    BY <2>14 DEF ReturnGlobal, GiveGlobal
  <2>15. CASE RegisterFails(t)
    BY <2>15 DEF RegisterFails, GiveGlobal
  <2>16. CASE RegisterVfs(t)
    BY <2>16 DEF RegisterVfs
  <2>17. CASE RegisterLink(t)
    BY <2>17 DEF RegisterLink
  <2>18. CASE UnregisterFind(t)
    BY <2>18 DEF UnregisterFind, Find
  <2>19. CASE UnregisterRefuse(t)
    BY <2>19 DEF UnregisterRefuse
  <2>20. CASE UnregisterVfs(t)
    BY <2>20 DEF UnregisterVfs
  <2>21. CASE UnregisterUnlink(t)
    BY <2>21 DEF UnregisterUnlink
  <2>22. CASE UnregisterGive(t)
    BY <2>22 DEF UnregisterGive, GiveCtx
  <2>23. CASE UnregisterGiveGlobal(t)
    BY <2>23 DEF UnregisterGiveGlobal, GiveGlobal
  <2>24. CASE UnregisterFree(t)
    BY <2>24 DEF UnregisterFree
  <2>25. CASE RmdirFind(t)
    BY <2>25 DEF RmdirFind, Find, LongestPrefix
  <2>26. CASE RmdirGiveGlobal(t)
    BY <2>26 DEF RmdirGiveGlobal, GiveGlobal
  <2>27. CASE RmdirCheck(t)
    BY <2>27, FS_EmptySet, TablesFinite DEF RmdirCheck, CountsExact
  <2>28. CASE RmdirRemove(t)
    BY <2>28 DEF RmdirRemove
  <2>29. CASE OpenPick(t)
    BY <2>29 DEF OpenPick, FreeSlots
  <2>30. CASE OpenDone(t)
    BY <2>30 DEF OpenDone
  <2>31. CASE CloseFile(t)
    BY <2>31 DEF CloseFile
  <2>32. CASE FileGet(t)
    BY <2>32 DEF FileGet
  <2>33. CASE FileUse(t)
    BY <2>33 DEF FileUse
  <2>34. CASE OpenDir(t)
    BY <2>34 DEF OpenDir
  <2>35. CASE CloseDir(t)
    BY <2>35 DEF CloseDir
  <2>36. CASE PathCall(t)
    BY <2>36 DEF PathCall
  <2>37. CASE ReturnCtx(t)
    BY <2>37 DEF ReturnCtx, GiveCtx
  <2> QED BY <2>1, <2>2, <2>3, <2>4, <2>5, <2>6, <2>7, <2>8, <2>9, <2>10, <2>11, <2>12, <2>13, <2>14, <2>15, <2>16, <2>17, <2>18, <2>19, <2>20, <2>21, <2>22, <2>23, <2>24, <2>25, <2>26, <2>27, <2>28, <2>29, <2>30, <2>31, <2>32, <2>33, <2>34, <2>35, <2>36, <2>37 DEF Start, Wait, Run
<1>2. CASE UNCHANGED vars
  BY <1>2 DEF TypeOK, RolesKept, RemovesAlone, MutualExclusion, InCall, CallPcs, CtxPcs, RmdirPcs, vars
<1> QED BY <1>1, <1>2 DEF Next

(* When unregister has both locks no other task has its context: rmdir_recurse
   would hold one of the locks, and calls are ruled out by Quiesced. *)
LEMMA UnregisterAlone ==
  ASSUME Quiesced, TypeOK, RolesKept, MutualExclusion, LifetimesKept,
         NEW t \in Tasks, pc[t] = "u_check", NEW u \in Tasks, my[u] = my[t]
  PROVE  u = t
<1> USE NoneAssumption DEF RolesKept, UnregisterPcs
<1>1. op[t] = "unregister" /\ my[t] \in Ctxs
  OBVIOUS
<1>2. CASE pc[u] \in GlobalPcs \cup CtxPcs
  BY <1>1, <1>2 DEF MutualExclusion, GlobalPcs, CtxPcs
<1>3. CASE InCall(u)
  BY <1>1, <1>3 DEF LifetimesKept, InUnregister
<1>4. CASE op[u] = "register" /\ pc[u] \in Waiting
  BY <1>1, <1>4 DEF LifetimesKept
<1>5. CASE pc[u] = "u_free"
  BY <1>1, <1>5 DEF LifetimesKept, Leaving
<1>6. CASE pc[u] \in {"idle"} \cup Waiting /\ op[u] # "register" /\ ~ InCall(u)
  BY <1>1, <1>6 DEF TypeOK, Ops, InCall, Waiting, RmdirPcs
<1>7. pc[u] \in GlobalPcs \cup CtxPcs \cup {"u_free", "idle"} \cup Waiting \/ InCall(u)
  BY DEF TypeOK, Ops, InCall, RmdirPcs, Waiting, GlobalPcs, CtxPcs
<1>8. op[u] = "register" => pc[u] # "idle"
  BY DEF Waiting
<1> QED BY <1>2, <1>3, <1>4, <1>5, <1>6, <1>7, <1>8

(* A context is freed only by the one task that still has it. *)
LEMMA NoUseStep ==
  Quiesced /\ TypeOK /\ RolesKept /\ LifetimesKept /\ NoUseAfterFree /\ [Next]_vars
  => NoUseAfterFree'
<1>1. ASSUME Quiesced /\ TypeOK /\ RolesKept /\ LifetimesKept /\ NoUseAfterFree,
             NEW t \in Tasks, Start(t) \/ Wait(t) \/ Run(t)
      PROVE  NoUseAfterFree'
  <2> USE <1>1, NoneAssumption DEF Goto, Return, Begin, Body,
               globalLock, registry, tables, call,
               TypeOK, RolesKept, NoUseAfterFree, LifetimesKept, InCall, Leaving, Waiting, UnregisterPcs, RmdirPcs, CallPcs
  <2>1. CASE Register(t)
    BY <2>1 DEF Register
  <2>2. CASE Unregister(t)
    BY <2>2 DEF Unregister
  <2>3. CASE RmdirRecurse(t)
    BY <2>3 DEF RmdirRecurse
  <2>4. CASE CallPath(t)
    BY <2>4 DEF CallPath, MayCall
  <2>5. CASE CallFile(t)
    BY <2>5 DEF CallFile, MayCall
  <2>6. CASE CallClosedir(t)
    BY <2>6 DEF CallClosedir, MayCall
  <2>7. CASE LockTake(t)
    BY <2>7 DEF LockTake
  <2>8. CASE UnregisterTake(t)
    BY <2>8 DEF UnregisterTake, TakeCtx
  <2>9. CASE RmdirTake(t)
    BY <2>9 DEF RmdirTake, TakeCtx
  <2>10. CASE CallTake(t)
    BY <2>10 DEF CallTake, TakeCtx
  <2>11. CASE LockGet(t)
    BY <2>11 DEF LockGet
  <2>12. CASE LockMake(t)
    BY <2>12 DEF LockMake
  <2>13. CASE LockNoMemory(t)
    BY <2>13 DEF LockNoMemory
  <2>14. CASE ReturnGlobal(t)
    BY <2>14 DEF ReturnGlobal, GiveGlobal
  <2>15. CASE RegisterFails(t)
    BY <2>15 DEF RegisterFails, GiveGlobal
  <2>16. CASE RegisterVfs(t)
    BY <2>16 DEF RegisterVfs
  <2>17. CASE RegisterLink(t)
    BY <2>17 DEF RegisterLink
  <2>18. CASE UnregisterFind(t)
    BY <2>18 DEF UnregisterFind, Find
  <2>19. CASE UnregisterRefuse(t)
    BY <2>19 DEF UnregisterRefuse
  <2>20. CASE UnregisterVfs(t)
    BY <2>20 DEF UnregisterVfs
  <2>21. CASE UnregisterUnlink(t)
    BY <2>21 DEF UnregisterUnlink
  <2>22. CASE UnregisterGive(t)
    BY <2>22 DEF UnregisterGive, GiveCtx
  <2>23. CASE UnregisterGiveGlobal(t)
    BY <2>23 DEF UnregisterGiveGlobal, GiveGlobal
  <2>24. CASE UnregisterFree(t)
    BY <2>24 DEF UnregisterFree
  <2>25. CASE RmdirFind(t)
    BY <2>25 DEF RmdirFind, Find, LongestPrefix
  <2>26. CASE RmdirGiveGlobal(t)
    BY <2>26 DEF RmdirGiveGlobal, GiveGlobal
  <2>27. CASE RmdirCheck(t)
    BY <2>27 DEF RmdirCheck
  <2>28. CASE RmdirRemove(t)
    BY <2>28 DEF RmdirRemove
  <2>29. CASE OpenPick(t)
    BY <2>29 DEF OpenPick, FreeSlots
  <2>30. CASE OpenDone(t)
    BY <2>30 DEF OpenDone
  <2>31. CASE CloseFile(t)
    BY <2>31 DEF CloseFile
  <2>32. CASE FileGet(t)
    BY <2>32 DEF FileGet
  <2>33. CASE FileUse(t)
    BY <2>33 DEF FileUse
  <2>34. CASE OpenDir(t)
    BY <2>34 DEF OpenDir
  <2>35. CASE CloseDir(t)
    BY <2>35 DEF CloseDir
  <2>36. CASE PathCall(t)
    BY <2>36 DEF PathCall
  <2>37. CASE ReturnCtx(t)
    BY <2>37 DEF ReturnCtx, GiveCtx
  <2> QED BY <2>1, <2>2, <2>3, <2>4, <2>5, <2>6, <2>7, <2>8, <2>9, <2>10, <2>11, <2>12, <2>13, <2>14, <2>15, <2>16, <2>17, <2>18, <2>19, <2>20, <2>21, <2>22, <2>23, <2>24, <2>25, <2>26, <2>27, <2>28, <2>29, <2>30, <2>31, <2>32, <2>33, <2>34, <2>35, <2>36, <2>37 DEF Start, Wait, Run
<1>2. CASE UNCHANGED vars
  BY <1>2 DEF TypeOK, RolesKept, NoUseAfterFree, LifetimesKept, InCall, Leaving, Waiting, UnregisterPcs, RmdirPcs, CallPcs, vars
<1> QED BY <1>1, <1>2 DEF Next

(* What unregister and register know of their context stays true. *)
LEMMA LifetimesStep ==
  Quiesced /\ TypeOK /\ RolesKept /\ MutualExclusion /\ CountsExact /\ NoUseAfterFree /\
  LifetimesKept /\ [Next]_vars
  => LifetimesKept'
<1>1. ASSUME Quiesced /\ TypeOK /\ RolesKept /\ MutualExclusion /\ CountsExact /\ NoUseAfterFree /\ LifetimesKept,
             NEW t \in Tasks, Start(t) \/ Wait(t) \/ Run(t)
      PROVE  LifetimesKept'
  <2> USE <1>1, NoneAssumption DEF Goto, Return, Begin, Body,
               globalLock, registry, tables, call,
               TypeOK, RolesKept, NoUseAfterFree, LifetimesKept, InCall, InUnregister, Leaving,
               Waiting, UnregisterPcs, RmdirPcs, CallPcs
  <2>1. CASE Register(t)
    BY <2>1 DEF Register
  <2>2. CASE Unregister(t)
    BY <2>2 DEF Unregister
  <2>3. CASE RmdirRecurse(t)
    BY <2>3 DEF RmdirRecurse
  <2>4. CASE CallPath(t)
    BY <2>4 DEF CallPath, MayCall
  <2>5. CASE CallFile(t)
    BY <2>5 DEF CallFile, MayCall
  <2>6. CASE CallClosedir(t)
    BY <2>6 DEF CallClosedir, MayCall
  <2>7. CASE LockTake(t)
    BY <2>7 DEF LockTake
  <2>8. CASE UnregisterTake(t)
    BY <2>8 DEF UnregisterTake, TakeCtx
  <2>9. CASE RmdirTake(t)
    BY <2>9 DEF RmdirTake, TakeCtx
  <2>10. CASE CallTake(t)
    BY <2>10 DEF CallTake, TakeCtx
  <2>11. CASE LockGet(t)
    BY <2>11 DEF LockGet
  <2>12. CASE LockMake(t)
    BY <2>12 DEF LockMake
  <2>13. CASE LockNoMemory(t)
    BY <2>13 DEF LockNoMemory
  <2>14. CASE ReturnGlobal(t)
    BY <2>14 DEF ReturnGlobal, GiveGlobal
  <2>15. CASE RegisterFails(t)
    BY <2>15 DEF RegisterFails, GiveGlobal
  <2>16. CASE RegisterVfs(t)
    BY <2>16 DEF RegisterVfs
  <2>17. CASE RegisterLink(t)
    BY <2>17 DEF RegisterLink
  <2>18. CASE UnregisterFind(t)
    BY <2>18 DEF UnregisterFind, Find, MutualExclusion, GlobalPcs
  <2>19. CASE UnregisterRefuse(t)
    BY <2>19 DEF UnregisterRefuse
  <2>20. CASE UnregisterVfs(t)
    <3>1. pc[t] = "u_check" /\ my[t] \in Ctxs
      BY <2>20 DEF UnregisterVfs
    <3>2. \A u \in Tasks : my[u] = my[t] => u = t
      BY <3>1, UnregisterAlone
    <3>3. used[my[t]] = {} /\ dirs[my[t]] = {}
      BY <2>20, <3>1, TablesFinite, FS_EmptySet DEF UnregisterVfs, CountsExact
    <3> QED BY <2>20, <3>1, <3>2, <3>3 DEF UnregisterVfs
  <2>21. CASE UnregisterUnlink(t)
    BY <2>21 DEF UnregisterUnlink
  <2>22. CASE UnregisterGive(t)
    BY <2>22 DEF UnregisterGive, GiveCtx
  <2>23. CASE UnregisterGiveGlobal(t)
    BY <2>23 DEF UnregisterGiveGlobal, GiveGlobal
  <2>24. CASE UnregisterFree(t)
    BY <2>24 DEF UnregisterFree
  <2>25. CASE RmdirFind(t)
    BY <2>25 DEF RmdirFind, Find, LongestPrefix, MutualExclusion, GlobalPcs
  <2>26. CASE RmdirGiveGlobal(t)
    BY <2>26 DEF RmdirGiveGlobal, GiveGlobal
  <2>27. CASE RmdirCheck(t)
    BY <2>27 DEF RmdirCheck
  <2>28. CASE RmdirRemove(t)
    BY <2>28 DEF RmdirRemove
  <2>29. CASE OpenPick(t)
    BY <2>29 DEF OpenPick, FreeSlots
  <2>30. CASE OpenDone(t)
    BY <2>30 DEF OpenDone
  <2>31. CASE CloseFile(t)
    BY <2>31 DEF CloseFile
  <2>32. CASE FileGet(t)
    BY <2>32 DEF FileGet
  <2>33. CASE FileUse(t)
    BY <2>33 DEF FileUse
  <2>34. CASE OpenDir(t)
    BY <2>34 DEF OpenDir
  <2>35. CASE CloseDir(t)
    BY <2>35 DEF CloseDir
  <2>36. CASE PathCall(t)
    BY <2>36 DEF PathCall
  <2>37. CASE ReturnCtx(t)
    BY <2>37 DEF ReturnCtx, GiveCtx
  <2> QED BY <2>1, <2>2, <2>3, <2>4, <2>5, <2>6, <2>7, <2>8, <2>9, <2>10, <2>11, <2>12, <2>13, <2>14, <2>15, <2>16, <2>17, <2>18, <2>19, <2>20, <2>21, <2>22, <2>23, <2>24, <2>25, <2>26, <2>27, <2>28, <2>29, <2>30, <2>31, <2>32, <2>33, <2>34, <2>35, <2>36, <2>37 DEF Start, Wait, Run
<1>2. CASE UNCHANGED vars
  BY <1>2 DEF TypeOK, RolesKept, NoUseAfterFree, LifetimesKept, InCall, InUnregister, Leaving,
               Waiting, UnregisterPcs, RmdirPcs, CallPcs, vars
<1> QED BY <1>1, <1>2 DEF Next

(* s_contexts and ESP-IDF's table move together. *)
LEMMA RegistryStep ==
  TypeOK /\ RolesKept /\ MutualExclusion /\ NoUseAfterFree /\ LifetimesKept /\
  RegistryKept /\ [Next]_vars
  => RegistryKept'
<1>1. ASSUME TypeOK /\ RolesKept /\ MutualExclusion /\ NoUseAfterFree /\ LifetimesKept /\ RegistryKept,
             NEW t \in Tasks, Start(t) \/ Wait(t) \/ Run(t)
      PROVE  RegistryKept'
  <2> USE <1>1, NoneAssumption DEF Goto, Return, Begin, Body,
               globalLock, registry, tables, call,
               TypeOK, RolesKept, MutualExclusion, NoUseAfterFree, RegistryKept, Clash, InCall, GlobalPcs, Waiting, UnregisterPcs, RmdirPcs, CallPcs
  <2>1. CASE Register(t)
    BY <2>1 DEF Register
  <2>2. CASE Unregister(t)
    BY <2>2 DEF Unregister
  <2>3. CASE RmdirRecurse(t)
    BY <2>3 DEF RmdirRecurse
  <2>4. CASE CallPath(t)
    BY <2>4 DEF CallPath
  <2>5. CASE CallFile(t)
    BY <2>5 DEF CallFile
  <2>6. CASE CallClosedir(t)
    BY <2>6 DEF CallClosedir
  <2>7. CASE LockTake(t)
    BY <2>7 DEF LockTake
  <2>8. CASE UnregisterTake(t)
    BY <2>8 DEF UnregisterTake, TakeCtx
  <2>9. CASE RmdirTake(t)
    BY <2>9 DEF RmdirTake, TakeCtx
  <2>10. CASE CallTake(t)
    BY <2>10 DEF CallTake, TakeCtx
  <2>11. CASE LockGet(t)
    BY <2>11 DEF LockGet
  <2>12. CASE LockMake(t)
    BY <2>12 DEF LockMake
  <2>13. CASE LockNoMemory(t)
    BY <2>13 DEF LockNoMemory
  <2>14. CASE ReturnGlobal(t)
    BY <2>14 DEF ReturnGlobal, GiveGlobal
  <2>15. CASE RegisterFails(t)
    BY <2>15 DEF RegisterFails, GiveGlobal
  <2>16. CASE RegisterVfs(t)
    BY <2>16 DEF RegisterVfs
  <2>17. CASE RegisterLink(t)
    BY <2>17 DEF RegisterLink
  <2>18. CASE UnregisterFind(t)
    BY <2>18 DEF UnregisterFind, Find
  <2>19. CASE UnregisterRefuse(t)
    BY <2>19 DEF UnregisterRefuse
  <2>20. CASE UnregisterVfs(t)
    BY <2>20 DEF UnregisterVfs, LifetimesKept
  <2>21. CASE UnregisterUnlink(t)
    BY <2>21 DEF UnregisterUnlink
  <2>22. CASE UnregisterGive(t)
    BY <2>22 DEF UnregisterGive, GiveCtx
  <2>23. CASE UnregisterGiveGlobal(t)
    BY <2>23 DEF UnregisterGiveGlobal, GiveGlobal
  <2>24. CASE UnregisterFree(t)
    BY <2>24 DEF UnregisterFree
  <2>25. CASE RmdirFind(t)
    BY <2>25 DEF RmdirFind, Find, LongestPrefix
  <2>26. CASE RmdirGiveGlobal(t)
    BY <2>26 DEF RmdirGiveGlobal, GiveGlobal
  <2>27. CASE RmdirCheck(t)
    BY <2>27 DEF RmdirCheck
  <2>28. CASE RmdirRemove(t)
    BY <2>28 DEF RmdirRemove
  <2>29. CASE OpenPick(t)
    BY <2>29 DEF OpenPick, FreeSlots
  <2>30. CASE OpenDone(t)
    BY <2>30 DEF OpenDone
  <2>31. CASE CloseFile(t)
    BY <2>31 DEF CloseFile
  <2>32. CASE FileGet(t)
    BY <2>32 DEF FileGet
  <2>33. CASE FileUse(t)
    BY <2>33 DEF FileUse
  <2>34. CASE OpenDir(t)
    BY <2>34 DEF OpenDir
  <2>35. CASE CloseDir(t)
    BY <2>35 DEF CloseDir
  <2>36. CASE PathCall(t)
    BY <2>36 DEF PathCall
  <2>37. CASE ReturnCtx(t)
    BY <2>37 DEF ReturnCtx, GiveCtx
  <2> QED BY <2>1, <2>2, <2>3, <2>4, <2>5, <2>6, <2>7, <2>8, <2>9, <2>10, <2>11, <2>12, <2>13, <2>14, <2>15, <2>16, <2>17, <2>18, <2>19, <2>20, <2>21, <2>22, <2>23, <2>24, <2>25, <2>26, <2>27, <2>28, <2>29, <2>30, <2>31, <2>32, <2>33, <2>34, <2>35, <2>36, <2>37 DEF Start, Wait, Run
<1>2. CASE UNCHANGED vars
  BY <1>2 DEF TypeOK, RolesKept, MutualExclusion, NoUseAfterFree, RegistryKept, Clash, InCall, GlobalPcs, Waiting, UnregisterPcs, RmdirPcs, CallPcs, vars
<1> QED BY <1>1, <1>2 DEF Next
-----------------------------------------------------------------------------
(* The part of the invariant that holds whatever the application does *)
Core ==
    /\ TypeOK /\ RolesKept /\ LocksHeld
    /\ CountsExact /\ SlotsStable /\ RemovesAlone /\ ClosingHeld

(* Core is inductive. *)
LEMMA CoreHolds == Spec => []Core
<1>1. Init => Core
  BY NoneAssumption, FS_EmptySet
     DEF Init, Core, TypeOK, RolesKept, LocksHeld, CountsExact, SlotsStable, RemovesAlone,
         ClosingHeld, Closing, InCall, Pcs, GlobalPcs, CtxPcs, Ops, Waiting, UnregisterPcs,
         RmdirPcs, CallPcs
<1>2. Core /\ [Next]_vars => Core'
  BY TypeStep, RolesStep, LockStep, LocksExclude, CountsStep, SlotsStep, ClosingStep,
     RemovesStep DEF Core
<1> QED BY <1>1, <1>2, PTL DEF Spec

(* Every variable keeps its type. *)
THEOREM TypeCorrect == Spec => []TypeOK
<1>1. Core => TypeOK
  BY DEF Core
<1> QED BY <1>1, CoreHolds, PTL

(* s_contexts_lock and the contexts' locks exclude, whichever task's candidate
   became s_contexts_lock. *)
THEOREM MutualExclusionHolds == Spec => []MutualExclusion
<1>1. Core => MutualExclusion
  BY LocksExclude DEF Core
<1> QED BY <1>1, CoreHolds, PTL

(* open_files and open_dirs count exactly what is open. *)
THEOREM CountsAreExact == Spec => []CountsExact
<1>1. Core => CountsExact
  BY DEF Core
<1> QED BY <1>1, CoreHolds, PTL

(* No slot is closed under a read or write, or filled by two opens. *)
THEOREM SlotsAreStable == Spec => []SlotsStable
<1>1. Core => SlotsStable
  BY DEF Core
<1> QED BY <1>1, CoreHolds, PTL

(* rmdir_recurse removes a tree only while nothing is open on the mount. *)
THEOREM RemovesOnlyAlone == Spec => []RemovesAlone
<1>1. Core => RemovesAlone
  BY DEF Core
<1> QED BY <1>1, CoreHolds, PTL

(* The whole invariant is inductive when the application leaves a prefix
   alone while it unregisters it. *)
LEMMA InductiveHolds == ASSUME Quiesced PROVE Spec => []Inductive
<1>1. Init => Inductive
  BY NoneAssumption, FS_EmptySet
     DEF Init, Inductive, TypeOK, RolesKept, LocksHeld, CountsExact, SlotsStable, RemovesAlone,
         ClosingHeld, Closing, InCall, Pcs, GlobalPcs, CtxPcs, Ops, Waiting, UnregisterPcs,
         RmdirPcs, CallPcs, NoUseAfterFree, LifetimesKept, RegistryKept, Leaving, InUnregister
<1>2. Inductive /\ [Next]_vars => Inductive'
  BY TypeStep, RolesStep, LockStep, LocksExclude, CountsStep, SlotsStep, ClosingStep,
     RemovesStep, NoUseStep, LifetimesStep, RegistryStep DEF Inductive
<1> QED BY <1>1, <1>2, PTL DEF Spec

(* No call, and neither s_contexts nor ESP-IDF's table, reaches a freed
   context. *)
THEOREM NeverUsedAfterFree == ASSUME Quiesced PROVE Spec => []NoUseAfterFree
<1>1. Inductive => NoUseAfterFree
  BY DEF Inductive
<1> QED BY <1>1, InductiveHolds, PTL

(* Outside the registry's critical section s_contexts is ESP-IDF's table, and
   no two registrations clash. *)
THEOREM RegistryIsConsistent == ASSUME Quiesced PROVE Spec => []RegistryConsistent
<1>1. Inductive => RegistryConsistent
  <2> SUFFICES ASSUME Inductive PROVE RegistryConsistent
    OBVIOUS
  <2>1. ASSUME NEW c \in list, NEW d \in list, c # d
        PROVE  conf[c].base # conf[d].base /\ conf[c].mount # conf[d].mount
    BY <2>1 DEF Inductive, RegistryKept, Clash
  <2>2. (\A t \in Tasks : pc[t] \notin GlobalPcs) => list = vfs
    BY DEF Inductive, RegistryKept, GlobalPcs
  <2> QED BY <2>1, <2>2 DEF RegistryConsistent
<1> QED BY <1>1, InductiveHolds, PTL

(* A context goes away only when nothing is open through it. *)
THEOREM UnregistersOnlyClosed == ASSUME Quiesced PROVE Spec => UnregistersClosed
<1>1. Inductive /\ [Next]_vars =>
        [\A c \in Ctxs : (state[c] = "live" /\ state'[c] = "freed") =>
                            used[c] = {} /\ dirs[c] = {}]_vars
  <2>1. ASSUME Inductive, NEW t \in Tasks, Start(t) \/ Wait(t) \/ Run(t),
               NEW c \in Ctxs, state[c] = "live", state'[c] = "freed"
        PROVE  used[c] = {} /\ dirs[c] = {}
    <3> USE <2>1 DEF registry
    <3>1. state' # state
      OBVIOUS
    <3>2. ~ Wait(t)
      BY <3>1 DEF Wait, LockTake, UnregisterTake, RmdirTake, CallTake
    <3>3. CASE Start(t)
      BY <3>1, <3>3 DEF Start, Register, Unregister, RmdirRecurse, CallPath, CallFile,
         CallClosedir, Inductive, TypeOK
    <3>4. CASE LockNoMemory(t)
      BY <3>4 DEF LockNoMemory, Return, Goto, Inductive, TypeOK, LifetimesKept, Waiting
    <3>5. CASE RegisterFails(t)
      BY <3>5 DEF RegisterFails, Return, Goto, Inductive, TypeOK, LifetimesKept, RolesKept
    <3>6. CASE RegisterVfs(t)
      BY <3>6 DEF RegisterVfs, Inductive, TypeOK
    <3>7. CASE UnregisterFree(t)
      BY <3>7 DEF UnregisterFree, Return, Goto, Inductive, TypeOK, LifetimesKept, Leaving
    <3>8. Run(t) => \/ LockNoMemory(t) \/ RegisterFails(t) \/ RegisterVfs(t)
                    \/ UnregisterFree(t)
      BY <3>1 DEF Run, LockGet, LockMake, ReturnGlobal, RegisterLink, UnregisterFind,
         UnregisterRefuse, UnregisterVfs, UnregisterUnlink, UnregisterGive,
         UnregisterGiveGlobal, RmdirFind, RmdirGiveGlobal, RmdirCheck, RmdirRemove, OpenPick,
         OpenDone, CloseFile, FileGet, FileUse, OpenDir, CloseDir, PathCall, ReturnCtx
    <3> QED BY <3>2, <3>3, <3>4, <3>5, <3>6, <3>7, <3>8
  <2> QED BY <2>1 DEF Next
<1> QED BY <1>1, InductiveHolds, PTL DEF Spec, UnregistersClosed
===============================================================================
