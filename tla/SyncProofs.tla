----------------------------- MODULE SyncProofs -----------------------------
(***************************************************************************)
(* Proofs about the mutex and the wait group, for any set of threads, any  *)
(* depth of nested locks and any counter.                                  *)
(***************************************************************************)
EXTENDS Sync, TLAPS

LEMMA InitInv ==
    ASSUME Init
    PROVE  SyncInv
BY SyncAssumption
   DEF Init, SyncInv, TypeOK, OwnerInv, Pending, FlagInv, GroupInv, AnswerInv

-----------------------------------------------------------------------------
(***************************************************************************)
(* Lock and unlock.                                                        *)
(***************************************************************************)
LEMMA LockStep ==
    ASSUME SyncInv, NEW t \in Threads, Lock(t)
    PROVE  SyncInv'
<1>1. TypeOK'
  BY SyncAssumption DEF SyncInv, TypeOK, OwnerInv, Pending,
     Lock, Goto, Ready, mutexVars, groupVars
<1>2. OwnerInv'
  BY SyncAssumption DEF SyncInv, TypeOK, OwnerInv, Pending,
     Lock, Goto, Ready, mutexVars, groupVars
<1>3. FlagInv'
  BY SyncAssumption DEF SyncInv, TypeOK, OwnerInv, FlagInv,
     Lock, Goto, Ready, mutexVars, groupVars
<1>4. GroupInv'
  BY SyncAssumption DEF SyncInv, TypeOK, OwnerInv, GroupInv,
     Lock, Goto, Ready, mutexVars, groupVars
<1>5. AnswerInv'
  BY SyncAssumption DEF SyncInv, TypeOK, AnswerInv,
     Lock, Goto, Ready, mutexVars, groupVars
<1> QED BY <1>1, <1>2, <1>3, <1>4, <1>5 DEF SyncInv

LEMMA LockAcquireStep ==
    ASSUME SyncInv, NEW t \in Threads, LockAcquire(t)
    PROVE  SyncInv'
<1>1. TypeOK'
  BY SyncAssumption DEF SyncInv, TypeOK, OwnerInv, Pending,
     LockAcquire, Obtainable, Obtain, Goto, Ready, mutexVars, groupVars
<1>2. OwnerInv'
  BY SyncAssumption DEF SyncInv, TypeOK, OwnerInv, Pending,
     LockAcquire, Obtainable, Obtain, Goto, Ready, mutexVars, groupVars
<1>3. FlagInv'
  BY SyncAssumption DEF SyncInv, TypeOK, OwnerInv, FlagInv,
     LockAcquire, Obtainable, Obtain, Goto, Ready, mutexVars, groupVars
<1>4. GroupInv'
  BY SyncAssumption DEF SyncInv, TypeOK, OwnerInv, GroupInv,
     LockAcquire, Obtainable, Obtain, Goto, Ready, mutexVars, groupVars
<1>5. AnswerInv'
  BY SyncAssumption DEF SyncInv, TypeOK, AnswerInv,
     LockAcquire, Obtainable, Obtain, Goto, Ready, mutexVars, groupVars
<1> QED BY <1>1, <1>2, <1>3, <1>4, <1>5 DEF SyncInv

LEMMA SetFlagStep ==
    ASSUME SyncInv, NEW t \in Threads, SetFlag(t)
    PROVE  SyncInv'
<1>1. TypeOK'
  BY SyncAssumption DEF SyncInv, TypeOK, OwnerInv, Pending,
     SetFlag, Goto, Ready, mutexVars, groupVars
<1>2. OwnerInv'
  BY SyncAssumption DEF SyncInv, TypeOK, OwnerInv, Pending,
     SetFlag, Goto, Ready, mutexVars, groupVars
<1>3. FlagInv'
  BY SyncAssumption DEF SyncInv, TypeOK, OwnerInv, FlagInv,
     SetFlag, Goto, Ready, mutexVars, groupVars
<1>4. GroupInv'
  BY SyncAssumption DEF SyncInv, TypeOK, OwnerInv, GroupInv,
     SetFlag, Goto, Ready, mutexVars, groupVars
<1>5. AnswerInv'
  BY SyncAssumption DEF SyncInv, TypeOK, AnswerInv,
     SetFlag, Goto, Ready, mutexVars, groupVars
<1> QED BY <1>1, <1>2, <1>3, <1>4, <1>5 DEF SyncInv

LEMMA UnlockStep ==
    ASSUME SyncInv, NEW t \in Threads, Unlock(t)
    PROVE  SyncInv'
<1>1. TypeOK'
  BY SyncAssumption DEF SyncInv, TypeOK, OwnerInv, Pending,
     Unlock, Goto, Ready, mutexVars, groupVars
<1>2. OwnerInv'
  BY SyncAssumption DEF SyncInv, TypeOK, OwnerInv, Pending,
     Unlock, Goto, Ready, mutexVars, groupVars
<1>3. FlagInv'
  BY SyncAssumption DEF SyncInv, TypeOK, OwnerInv, FlagInv,
     Unlock, Goto, Ready, mutexVars, groupVars
<1>4. GroupInv'
  BY SyncAssumption DEF SyncInv, TypeOK, OwnerInv, GroupInv,
     Unlock, Goto, Ready, mutexVars, groupVars
<1>5. AnswerInv'
  BY SyncAssumption DEF SyncInv, TypeOK, AnswerInv,
     Unlock, Goto, Ready, mutexVars, groupVars
<1> QED BY <1>1, <1>2, <1>3, <1>4, <1>5 DEF SyncInv

LEMMA UnlockReleaseStep ==
    ASSUME SyncInv, NEW t \in Threads, UnlockRelease(t)
    PROVE  SyncInv'
<1>1. TypeOK'
  BY SyncAssumption DEF SyncInv, TypeOK, OwnerInv, Pending,
     UnlockRelease, GiveBack, Goto, Ready, mutexVars, groupVars
<1>2. OwnerInv'
  BY SyncAssumption DEF SyncInv, TypeOK, OwnerInv, Pending,
     UnlockRelease, GiveBack, Goto, Ready, mutexVars, groupVars
<1>3. FlagInv'
  BY SyncAssumption DEF SyncInv, TypeOK, OwnerInv, FlagInv,
     UnlockRelease, GiveBack, Goto, Ready, mutexVars, groupVars
<1>4. GroupInv'
  BY SyncAssumption DEF SyncInv, TypeOK, OwnerInv, GroupInv,
     UnlockRelease, GiveBack, Goto, Ready, mutexVars, groupVars
<1>5. AnswerInv'
  BY SyncAssumption DEF SyncInv, TypeOK, AnswerInv,
     UnlockRelease, GiveBack, Goto, Ready, mutexVars, groupVars
<1> QED BY <1>1, <1>2, <1>3, <1>4, <1>5 DEF SyncInv

-----------------------------------------------------------------------------
(***************************************************************************)
(* try_lock and isLocked.                                                  *)
(***************************************************************************)
LEMMA TryFlagStep ==
    ASSUME SyncInv, NEW t \in Threads, TryFlag(t)
    PROVE  SyncInv'
<1>1. TypeOK'
  BY SyncAssumption DEF SyncInv, TypeOK, OwnerInv, Pending,
     TryFlag, Return, Goto, Ready, mutexVars, groupVars
<1>2. OwnerInv'
  BY SyncAssumption DEF SyncInv, TypeOK, OwnerInv, Pending,
     TryFlag, Return, Goto, Ready, mutexVars, groupVars
<1>3. FlagInv'
  BY SyncAssumption DEF SyncInv, TypeOK, OwnerInv, FlagInv,
     TryFlag, Return, Goto, Ready, mutexVars, groupVars
<1>4. GroupInv'
  BY SyncAssumption DEF SyncInv, TypeOK, OwnerInv, GroupInv,
     TryFlag, Return, Goto, Ready, mutexVars, groupVars
<1>5. AnswerInv'
  BY SyncAssumption DEF SyncInv, TypeOK, AnswerInv,
     TryFlag, Return, Goto, Ready, mutexVars, groupVars
<1> QED BY <1>1, <1>2, <1>3, <1>4, <1>5 DEF SyncInv

LEMMA TryAcquireStep ==
    ASSUME SyncInv, NEW t \in Threads, TryAcquire(t)
    PROVE  SyncInv'
<1>1. TypeOK'
  BY SyncAssumption DEF SyncInv, TypeOK, OwnerInv, Pending,
     TryAcquire, Obtainable, Obtain, Return, Goto, Ready, mutexVars, groupVars
<1>2. OwnerInv'
  BY SyncAssumption DEF SyncInv, TypeOK, OwnerInv, Pending,
     TryAcquire, Obtainable, Obtain, Return, Goto, Ready, mutexVars, groupVars
<1>3. FlagInv'
  BY SyncAssumption DEF SyncInv, TypeOK, OwnerInv, FlagInv,
     TryAcquire, Obtainable, Obtain, Return, Goto, Ready, mutexVars, groupVars
<1>4. GroupInv'
  BY SyncAssumption DEF SyncInv, TypeOK, OwnerInv, GroupInv,
     TryAcquire, Obtainable, Obtain, Return, Goto, Ready, mutexVars, groupVars
<1>5. AnswerInv'
  BY SyncAssumption DEF SyncInv, TypeOK, AnswerInv,
     TryAcquire, Obtainable, Obtain, Return, Goto, Ready, mutexVars, groupVars
<1> QED BY <1>1, <1>2, <1>3, <1>4, <1>5 DEF SyncInv

LEMMA IsLockedStep ==
    ASSUME SyncInv, NEW t \in Threads, IsLocked(t)
    PROVE  SyncInv'
<1>1. TypeOK'
  BY SyncAssumption DEF SyncInv, TypeOK, OwnerInv, Pending,
     IsLocked, Return, Goto, Ready, mutexVars, groupVars
<1>2. OwnerInv'
  BY SyncAssumption DEF SyncInv, TypeOK, OwnerInv, Pending,
     IsLocked, Return, Goto, Ready, mutexVars, groupVars
<1>3. FlagInv'
  BY SyncAssumption DEF SyncInv, TypeOK, OwnerInv, FlagInv,
     IsLocked, Return, Goto, Ready, mutexVars, groupVars
<1>4. GroupInv'
  BY SyncAssumption DEF SyncInv, TypeOK, OwnerInv, GroupInv,
     IsLocked, Return, Goto, Ready, mutexVars, groupVars
<1>5. AnswerInv'
  BY SyncAssumption DEF SyncInv, TypeOK, AnswerInv,
     IsLocked, Return, Goto, Ready, mutexVars, groupVars
<1> QED BY <1>1, <1>2, <1>3, <1>4, <1>5 DEF SyncInv

LEMMA UseAnswerStep ==
    ASSUME SyncInv, NEW t \in Threads, UseAnswer(t)
    PROVE  SyncInv'
<1>1. TypeOK'
  BY SyncAssumption DEF SyncInv, TypeOK, OwnerInv, Pending,
     UseAnswer, Return, Goto, Ready, mutexVars, groupVars
<1>2. OwnerInv'
  BY SyncAssumption DEF SyncInv, TypeOK, OwnerInv, Pending,
     UseAnswer, Return, Goto, Ready, mutexVars, groupVars
<1>3. FlagInv'
  BY SyncAssumption DEF SyncInv, TypeOK, OwnerInv, FlagInv,
     UseAnswer, Return, Goto, Ready, mutexVars, groupVars
<1>4. GroupInv'
  BY SyncAssumption DEF SyncInv, TypeOK, OwnerInv, GroupInv,
     UseAnswer, Return, Goto, Ready, mutexVars, groupVars
<1>5. AnswerInv'
  BY SyncAssumption DEF SyncInv, TypeOK, AnswerInv,
     UseAnswer, Return, Goto, Ready, mutexVars, groupVars
<1> QED BY <1>1, <1>2, <1>3, <1>4, <1>5 DEF SyncInv

-----------------------------------------------------------------------------
(***************************************************************************)
(* The wait group.                                                         *)
(***************************************************************************)
LEMMA LoadCountStep ==
    ASSUME SyncInv, NEW t \in Threads, LoadCount(t)
    PROVE  SyncInv'
<1>1. TypeOK'
  BY SyncAssumption DEF SyncInv, TypeOK, OwnerInv, Pending,
     LoadCount, Goto, Ready, mutexVars, groupVars
<1>2. OwnerInv'
  BY SyncAssumption DEF SyncInv, TypeOK, OwnerInv, Pending,
     LoadCount, Goto, Ready, mutexVars, groupVars
<1>3. FlagInv'
  BY SyncAssumption DEF SyncInv, TypeOK, OwnerInv, FlagInv,
     LoadCount, Goto, Ready, mutexVars, groupVars
<1>4. GroupInv'
  BY SyncAssumption DEF SyncInv, TypeOK, OwnerInv, GroupInv,
     LoadCount, Goto, Ready, mutexVars, groupVars
<1>5. AnswerInv'
  BY SyncAssumption DEF SyncInv, TypeOK, AnswerInv,
     LoadCount, Goto, Ready, mutexVars, groupVars
<1> QED BY <1>1, <1>2, <1>3, <1>4, <1>5 DEF SyncInv

LEMMA StoreCountStep ==
    ASSUME SyncInv, NEW t \in Threads, StoreCount(t)
    PROVE  SyncInv'
<1>1. TypeOK'
  BY SyncAssumption DEF SyncInv, TypeOK, OwnerInv, Pending,
     StoreCount, Goto, Ready, mutexVars, groupVars
<1>2. OwnerInv'
  BY SyncAssumption DEF SyncInv, TypeOK, OwnerInv, Pending,
     StoreCount, Goto, Ready, mutexVars, groupVars
<1>3. FlagInv'
  BY SyncAssumption DEF SyncInv, TypeOK, OwnerInv, FlagInv,
     StoreCount, Goto, Ready, mutexVars, groupVars
<1>4. GroupInv'
  BY SyncAssumption DEF SyncInv, TypeOK, OwnerInv, GroupInv,
     StoreCount, Goto, Ready, mutexVars, groupVars
<1>5. AnswerInv'
  BY SyncAssumption DEF SyncInv, TypeOK, AnswerInv,
     StoreCount, Goto, Ready, mutexVars, groupVars
<1> QED BY <1>1, <1>2, <1>3, <1>4, <1>5 DEF SyncInv

-----------------------------------------------------------------------------
(***************************************************************************)
(* The theorems.                                                           *)
(***************************************************************************)
LEMMA StepInv ==
    ASSUME SyncInv, [Next]_vars
    PROVE  SyncInv'
<1>1. CASE UNCHANGED vars
  BY <1>1 DEF vars, SyncInv, TypeOK, OwnerInv, Pending, FlagInv,
     GroupInv, AnswerInv
<1>2. CASE Next
  <2> PICK t \in Threads :
          \/ Step(t)
          \/ Lock(t) \/ Unlock(t) \/ TryFlag(t) \/ IsLocked(t) \/ UseAnswer(t)
          \/ LoadCount(t)
    BY <1>2 DEF Next
  <2>1. CASE Lock(t)
    BY <2>1, LockStep
  <2>2. CASE LockAcquire(t)
    BY <2>2, LockAcquireStep
  <2>3. CASE SetFlag(t)
    BY <2>3, SetFlagStep
  <2>4. CASE Unlock(t)
    BY <2>4, UnlockStep
  <2>5. CASE UnlockRelease(t)
    BY <2>5, UnlockReleaseStep
  <2>6. CASE TryFlag(t)
    BY <2>6, TryFlagStep
  <2>7. CASE TryAcquire(t)
    BY <2>7, TryAcquireStep
  <2>8. CASE IsLocked(t)
    BY <2>8, IsLockedStep
  <2>9. CASE UseAnswer(t)
    BY <2>9, UseAnswerStep
  <2>10. CASE LoadCount(t)
    BY <2>10, LoadCountStep
  <2>11. CASE StoreCount(t)
    BY <2>11, StoreCountStep
  <2> QED BY <2>1, <2>2, <2>3, <2>4, <2>5, <2>6, <2>7, <2>8, <2>9, <2>10, <2>11 DEF Step
<1> QED BY <1>1, <1>2

THEOREM Invariance == Spec => []SyncInv
<1>1. Init => SyncInv
  BY InitInv
<1>2. SyncInv /\ [Next]_vars => SyncInv'
  BY StepInv
<1> QED BY <1>1, <1>2, PTL DEF Spec

(* Every variable has its type, and a mutex without an owner is not locked. *)
THEOREM TypeCorrect == Spec => []TypeOK
<1>1. SyncInv => TypeOK
  BY DEF SyncInv
<1> QED BY <1>1, Invariance, PTL

(* Two threads are never inside the mutex at the same time. *)
THEOREM OneInside == Spec => []MutualExclusion
<1>1. SyncInv => MutualExclusion
  BY DEF SyncInv, OwnerInv, MutualExclusion
<1> QED BY <1>1, Invariance, PTL

(* A wait group used inside the mutex only never loses an update. *)
THEOREM NoLostUpdate ==
    ASSUME Guarded
    PROVE  Spec => []CounterExact
<1>1. SyncInv => CounterExact
  BY DEF SyncInv, GroupInv, CounterExact
<1> QED BY <1>1, Invariance, PTL

LEMMA MutexStep ==
    ASSUME SyncInv, [Next]_vars
    PROVE  [M!Next]_(M!vars)
<1> USE SyncAssumption DEF M!vars
<1>1. CASE UNCHANGED vars
  BY <1>1 DEF vars
<1>2. CASE Next
  <2> PICK t \in Threads :
          \/ Step(t)
          \/ Lock(t) \/ Unlock(t) \/ TryFlag(t) \/ IsLocked(t) \/ UseAnswer(t)
          \/ LoadCount(t)
    BY <1>2 DEF Next
  <2>0. (M!Lock(t) \/ M!Unlock(t) \/ M!SayTaken(t) \/ M!SayFree(t) \/ M!Forget(t))
        => M!Next
    BY DEF M!Next
  <2>1. CASE \/ Lock(t) \/ SetFlag(t) \/ Unlock(t)
             \/ LoadCount(t) \/ StoreCount(t)
    BY <2>1 DEF Lock, SetFlag, Unlock, LoadCount, StoreCount,
       mutexVars
  <2>2. CASE LockAcquire(t)
    <3>1. M!Lock(t)
      BY <2>2 DEF LockAcquire, Obtainable, Obtain, M!Lock
    <3> QED BY <2>0, <3>1
  <2>3. CASE UnlockRelease(t)
    <3>1. CASE owner = t
      <4>1. M!Unlock(t)
        BY <2>3, <3>1 DEF UnlockRelease, GiveBack, M!Unlock
      <4> QED BY <2>0, <4>1
    <3>2. CASE owner # t
      BY <2>3, <3>2 DEF UnlockRelease, GiveBack
    <3> QED BY <3>1, <3>2
  <2>4. CASE TryFlag(t)
    <3>1. CASE flag # 0
      <4>1. owner # NoThread
        BY <3>1 DEF SyncInv, TypeOK, FlagInv
      <4>2. M!SayTaken(t)
        BY <2>4, <3>1, <4>1 DEF TryFlag, Ready, Return, M!SayTaken
      <4> QED BY <2>0, <4>2
    <3>2. CASE flag = 0
      BY <2>4, <3>2 DEF TryFlag
    <3> QED BY <3>1, <3>2
  <2>5. CASE TryAcquire(t)
    <3>1. CASE Obtainable(t)
      <4>1. M!Lock(t)
        BY <2>5, <3>1 DEF TryAcquire, Obtainable, Obtain, M!Lock
      <4> QED BY <2>0, <4>1
    <3>2. CASE ~ Obtainable(t)
      <4>1. answer[t] = "none"
        BY <2>5 DEF SyncInv, AnswerInv, TryAcquire
      <4>2. M!SayTaken(t)
        BY <2>5, <3>2, <4>1 DEF TryAcquire, Obtainable, Return, M!SayTaken
      <4> QED BY <2>0, <4>2
    <3> QED BY <3>1, <3>2
  <2>6. CASE IsLocked(t)
    <3>1. CASE flag # 0
      <4>1. owner # NoThread
        BY <3>1 DEF SyncInv, TypeOK, FlagInv
      <4>2. M!SayTaken(t)
        BY <2>6, <3>1, <4>1 DEF IsLocked, Ready, Return, M!SayTaken
      <4> QED BY <2>0, <4>2
    <3>2. CASE flag = 0
      <4>1. M!SayFree(t)
        BY <2>6, <3>2 DEF IsLocked, Ready, Return, M!SayFree
      <4> QED BY <2>0, <4>1
    <3> QED BY <3>1, <3>2
  <2>7. CASE UseAnswer(t)
    <3>1. M!Forget(t)
      BY <2>7 DEF UseAnswer, Return, M!Forget
    <3> QED BY <2>0, <3>1
  <2> QED BY <2>1, <2>2, <2>3, <2>4, <2>5, <2>6, <2>7 DEF Step
<1> QED BY <1>1, <1>2

(* The emitted mutex is a mutex: nested locks, nobody else inside, and       *)
(* try_lock refuses only while a thread holds it.                            *)
THEOREM EmittedMutexIsMutex == Spec => RefinesMutex
<1>1. Init => M!Init
  BY DEF Init, M!Init
<1>2. SyncInv /\ [Next]_vars => [M!Next]_(M!vars)
  BY MutexStep
<1> QED BY <1>1, <1>2, Invariance, PTL DEF Spec, M!Spec, RefinesMutex
=============================================================================
