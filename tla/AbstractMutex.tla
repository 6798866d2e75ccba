--------------------------- MODULE AbstractMutex ---------------------------
(* What a program may rely on when it uses a mutex of the language: one      *)
(* thread at a time holds it, a thread that holds it may lock it again, and  *)
(* it is said to be taken only while some thread holds it.                   *)
EXTENDS Naturals

CONSTANTS Threads, NoThread

VARIABLES
    holder,    \* the thread that holds the mutex, or NoThread
    count,     \* how often it locked the mutex
    answer     \* what the last question of each thread returned

vars == <<holder, count, answer>>

Init ==
    /\ holder = NoThread
    /\ count = 0
    /\ answer = [t \in Threads |-> "none"]

Lock(t) ==
    /\ holder \in {NoThread, t}
    /\ holder' = t
    /\ count' = count + 1
    /\ UNCHANGED answer

Unlock(t) ==
    /\ holder = t
    /\ holder' = IF count = 1 THEN NoThread ELSE t
    /\ count' = count - 1
    /\ UNCHANGED answer

(* A try_lock that fails, or an isLocked that says yes. *)
SayTaken(t) ==
    /\ answer[t] = "none"
    /\ holder # NoThread
    /\ answer' = [answer EXCEPT ![t] = "taken"]
    /\ UNCHANGED <<holder, count>>

(* An isLocked that says no is a hint only. *)
SayFree(t) ==
    /\ answer[t] = "none"
    /\ answer' = [answer EXCEPT ![t] = "free"]
    /\ UNCHANGED <<holder, count>>

Forget(t) ==
    /\ answer[t] # "none"
    /\ answer' = [answer EXCEPT ![t] = "none"]
    /\ UNCHANGED <<holder, count>>

Next ==
    \E t \in Threads : Lock(t) \/ Unlock(t) \/ SayTaken(t) \/ SayFree(t) \/ Forget(t)

Spec == Init /\ [][Next]_vars
=============================================================================
