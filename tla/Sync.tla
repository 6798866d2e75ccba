-------------------------------- MODULE Sync --------------------------------
(* The code ConcurrencyCodeGen emits for a mutex and for a wait group, one   *)
(* action per instruction other threads can see.  A mutex is a recursive     *)
(* mutex of the system and a flag word beside it; a wait group is a counter  *)
(* that is loaded and stored like any other word.                            *)
EXTENDS Integers

CONSTANTS
    Threads,
    NoThread,
    Guarded,     \* TRUE if threads use the wait group inside the mutex only
    MaxDepth,    \* bound: how often a thread locks the mutex it holds
    MaxDue       \* bound: how far the counter moves from 0

ASSUME SyncAssumption ==
    /\ NoThread \notin Threads
    /\ Guarded \in BOOLEAN
    /\ MaxDepth \in Nat /\ MaxDue \in Nat

VARIABLES
    owner, depth,    \* the system's mutex: its owner and its lock count
    flag,            \* the flag word, slot 1 of the mutex
    answer,          \* what try_lock or isLocked returned, until it is used
    inside,          \* the locks each thread got and has not given back
    counter,         \* the word of the wait group
    seen, delta,     \* what a thread loaded of it and what it adds
    due,             \* the additions minus the dones that returned
    pc

vars == <<owner, depth, flag, answer, inside, counter, seen, delta, due, pc>>

mutexVars == <<owner, depth, flag, answer, inside>>
groupVars == <<counter, seen, delta, due>>

Init ==
    /\ owner = NoThread /\ depth = 0
    /\ flag = 0
    /\ answer = [t \in Threads |-> "none"]
    /\ inside = [t \in Threads |-> 0]
    /\ counter = 0 /\ due = 0
    /\ seen = [t \in Threads |-> 0]
    /\ delta = [t \in Threads |-> 0]
    /\ pc = [t \in Threads |-> "idle"]

Goto(t, l) == pc' = [pc EXCEPT ![t] = l]

Ready(t) == pc[t] = "idle" /\ answer[t] = "none"

Return(t, a) == answer' = [answer EXCEPT ![t] = a]

-----------------------------------------------------------------------------
(* The system's recursive mutex. *)

(* A bug: a mutex its owner cannot lock again. *)
ObtainableOnce(t) == owner = NoThread

Obtainable(t) == owner \in {NoThread, t}

Obtain(t) == owner' = t /\ depth' = depth + 1

(* A bug: one release is enough, however often the mutex was locked. *)
GiveBackAll(t) ==
    IF owner = t
    THEN depth' = depth - 1 /\ owner' = NoThread
    ELSE UNCHANGED <<owner, depth>>

(* Releasing a mutex of another thread is an error that is not looked at.    *)
GiveBack(t) ==
    IF owner = t
    THEN /\ depth' = depth - 1
         /\ owner' = IF depth = 1 THEN NoThread ELSE t
    ELSE UNCHANGED <<owner, depth>>

-----------------------------------------------------------------------------
(* emitAsyncMutexLock. *)

Lock(t) ==
    /\ Ready(t) /\ inside[t] < MaxDepth
    /\ Goto(t, "lock")
    /\ UNCHANGED <<mutexVars, groupVars>>

(* A bug: the lock does not wait. *)
LockAcquireBlind(t) ==
    /\ pc[t] = "lock"
    /\ Obtain(t)
    /\ Goto(t, "locked")
    /\ UNCHANGED <<flag, answer, inside, groupVars>>

LockAcquire(t) ==
    /\ pc[t] = "lock"
    /\ Obtainable(t)
    /\ Obtain(t)
    /\ Goto(t, "locked")
    /\ UNCHANGED <<flag, answer, inside, groupVars>>

SetFlag(t) ==
    /\ pc[t] = "locked"
    /\ flag' = 1
    /\ inside' = [inside EXCEPT ![t] = @ + 1]
    /\ Goto(t, "idle")
    /\ UNCHANGED <<owner, depth, answer, groupVars>>

(* A bug: the flag goes on saying that the mutex is held. *)
UnlockKeepsFlag(t) ==
    /\ Ready(t)
    /\ inside' = [inside EXCEPT ![t] = IF @ > 0 THEN @ - 1 ELSE 0]
    /\ Goto(t, "unlock")
    /\ UNCHANGED <<owner, depth, flag, answer, groupVars>>

(* emitAsyncMutexUnlock: the flag is cleared before the mutex is released.   *)
Unlock(t) ==
    /\ Ready(t)
    /\ flag' = 0
    /\ inside' = [inside EXCEPT ![t] = IF @ > 0 THEN @ - 1 ELSE 0]
    /\ Goto(t, "unlock")
    /\ UNCHANGED <<owner, depth, answer, groupVars>>

UnlockRelease(t) ==
    /\ pc[t] = "unlock"
    /\ GiveBack(t)
    /\ Goto(t, "idle")
    /\ UNCHANGED <<flag, answer, inside, groupVars>>

(* emitAsyncMutexTryLock: the flag first, then the mutex. *)
TryFlag(t) ==
    /\ Ready(t) /\ inside[t] < MaxDepth
    /\ IF flag # 0
       THEN Return(t, "taken") /\ UNCHANGED pc
       ELSE Goto(t, "try") /\ UNCHANGED answer
    /\ UNCHANGED <<owner, depth, flag, inside, groupVars>>

(* A bug: what the mutex answers is not looked at. *)
TryAcquireBlind(t) ==
    /\ pc[t] = "try"
    /\ IF Obtainable(t) THEN Obtain(t) ELSE UNCHANGED <<owner, depth>>
    /\ Goto(t, "locked")
    /\ UNCHANGED <<flag, answer, inside, groupVars>>

TryAcquire(t) ==
    /\ pc[t] = "try"
    /\ IF Obtainable(t)
       THEN Obtain(t) /\ Goto(t, "locked") /\ UNCHANGED answer
       ELSE Return(t, "taken") /\ Goto(t, "idle") /\ UNCHANGED <<owner, depth>>
    /\ UNCHANGED <<flag, inside, groupVars>>

(* emitAsyncMutexIsLocked. *)
IsLocked(t) ==
    /\ Ready(t)
    /\ Return(t, IF flag # 0 THEN "taken" ELSE "free")
    /\ UNCHANGED <<owner, depth, flag, inside, groupVars, pc>>

UseAnswer(t) ==
    /\ answer[t] # "none"
    /\ Return(t, "none")
    /\ UNCHANGED <<owner, depth, flag, inside, groupVars, pc>>

-----------------------------------------------------------------------------
(* emitAsyncWgAdd of 1 and emitAsyncWgDone: a load, then a store. *)

LoadCount(t) ==
    /\ Ready(t)
    /\ Guarded => inside[t] > 0
    /\ \E d \in {1, -1} :
          /\ due + d \in -MaxDue .. MaxDue
          /\ delta' = [delta EXCEPT ![t] = d]
    /\ seen' = [seen EXCEPT ![t] = counter]
    /\ Goto(t, "store")
    /\ UNCHANGED <<mutexVars, counter, due>>

StoreCount(t) ==
    /\ pc[t] = "store"
    /\ counter' = seen[t] + delta[t]
    /\ due' = due + delta[t]
    /\ seen' = [seen EXCEPT ![t] = 0]
    /\ delta' = [delta EXCEPT ![t] = 0]
    /\ Goto(t, "idle")
    /\ UNCHANGED mutexVars

-----------------------------------------------------------------------------
(* The steps of the operations under way. *)
Step(t) ==
    \/ LockAcquire(t) \/ SetFlag(t) \/ UnlockRelease(t) \/ TryAcquire(t)
    \/ StoreCount(t)

Next ==
    \E t \in Threads :
        \/ Step(t)
        \/ Lock(t) \/ Unlock(t) \/ TryFlag(t) \/ IsLocked(t) \/ UseAnswer(t)
        \/ LoadCount(t)

Spec == Init /\ [][Next]_vars

(* A thread that is inside an operation is scheduled again. *)
FairSpec == Spec /\ \A t \in Threads : WF_vars(Step(t))

-----------------------------------------------------------------------------
TypeOK ==
    /\ owner \in Threads \cup {NoThread}
    /\ depth \in Nat
    /\ owner = NoThread <=> depth = 0
    /\ flag \in {0, 1}
    /\ answer \in [Threads -> {"none", "taken", "free"}]
    /\ inside \in [Threads -> Nat]
    /\ counter \in Int /\ due \in Int
    /\ seen \in [Threads -> Int]
    /\ delta \in [Threads -> Int]
    /\ pc \in [Threads -> {"idle", "lock", "locked", "unlock", "try", "store"}]

(* The lock or unlock of t that the system's mutex counts and t does not.   *)
Pending(t) == IF pc[t] \in {"locked", "unlock"} THEN 1 ELSE 0

(* The system's mutex counts what its owner got and has not given back.      *)
OwnerInv ==
    \A t \in Threads :
        /\ owner = t => depth = inside[t] + Pending(t)
        /\ inside[t] > 0 => owner = t
        /\ pc[t] = "locked" => owner = t

(* The flag is up only while a thread owns the mutex and is not about to     *)
(* release it.                                                               *)
FlagInv == flag = 1 => owner # NoThread /\ pc[owner] # "unlock"

(* The thread between the load and the store of the counter is inside the    *)
(* mutex, and what it loaded is still there.                                 *)
GroupInv ==
    Guarded =>
        /\ counter = due
        /\ \A t \in Threads :
              pc[t] = "store" => inside[t] > 0 /\ seen[t] = counter

(* A thread inside an operation has used the answer of its last question.    *)
AnswerInv == \A t \in Threads : pc[t] # "idle" => answer[t] = "none"

(* What the mutex counts, what the flag word may say and what a thread has  *)
(* loaded of the counter fit together, wherever the threads are between the *)
(* two words; unlocking what one does not hold disturbs none of it.         *)
SyncInv == TypeOK /\ OwnerInv /\ FlagInv /\ GroupInv /\ AnswerInv

(* The thread whose last lock or try_lock returned success is alone. *)
MutualExclusion ==
    \A t, u \in Threads : inside[t] > 0 /\ inside[u] > 0 => t = u

(* Used inside the mutex, the wait group loses no addition and no done: its  *)
(* counter is what it should be, whichever threads fail to take the mutex.   *)
CounterExact == counter = due

(* The flag word and the system's mutex together are a mutex: one holder at  *)
(* a time, and try_lock fails or isLocked says yes only while it is held.    *)
M == INSTANCE AbstractMutex WITH holder <- owner, count <- depth

RefinesMutex == M!Spec

(* The mutex is recursive so that a nested lock does not wait for itself.    *)
NestedLockReturns ==
    \A t \in Threads : (pc[t] = "lock" /\ inside[t] > 0) ~> pc[t] # "lock"
=============================================================================
