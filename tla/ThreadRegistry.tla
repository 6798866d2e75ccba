--------------------------- MODULE ThreadRegistry ---------------------------
(***************************************************************************)
(* The registry of live threads of the compiled program, as the embedded   *)
(* runtime keeps it on POSIX (src/tools/compiler/runtime/                  *)
(* sad_embedded_runtime.c): spawn registers the handle of a new thread,    *)
(* join and wait_all claim a handle out of the registry before they wait   *)
(* for its thread, so that no handle is joined or freed twice.             *)
(*                                                                         *)
(* A handle is the address of a malloc'd pthread_t.  malloc may hand a     *)
(* freed address out again, and a program may keep an old one: the claim   *)
(* compares addresses only.  What runs under the registry lock is one      *)
(* step; creating a thread, registering it, claiming a handle, and freeing *)
(* it after the wait are separate ones.  A spawn that fails changes        *)
(* nothing and is left out.  When the main thread exits the process ends.  *)
(*                                                                         *)
(* claimer and due are history variables: which thread claimed the handle  *)
(* of a thread, and the threads that the call a thread is in has to wait   *)
(* for.                                                                    *)
(***************************************************************************)
EXTENDS Naturals, Sequences

CONSTANTS Threads,     (* every thread that can ever exist             *)
          Main,        (* the one that is there from the start         *)
          Joiners,     (* the threads whose code calls join or wait_all *)
          Handles,     (* the addresses malloc has for a pthread_t     *)
          NoThread, NoHandle,
          InitialCap   (* SAD_RT_THREAD_REGISTRY_INITIAL_CAP           *)

ASSUME RegistryAssumption ==
    /\ Main \in Threads /\ Joiners \subseteq Threads
    /\ NoThread \notin Threads /\ NoHandle \notin Handles
    /\ InitialCap \in Nat \ {0}

VARIABLES registry,    (* g_sadThreadRegistry, its first Count entries          *)
          cap,         (* g_sadThreadRegistryCap                                *)
          growFailed,  (* g_sadThreadRegistryGrowFailed                         *)
          thread,      (* what a handle points to; NoThread if it is free       *)
          life,        (* per thread: not there, running its body, finished     *)
          gone,        (* per thread: joined or detached, not joinable any more *)
          ticket,      (* per thread: the handle its spawn returned             *)
          pc, arg,     (* per thread: where in the runtime, with which handle   *)
          claimer, due

vars == <<registry, cap, growFailed, thread, life, gone, ticket, pc, arg, claimer, due>>

Registered == {registry[i] : i \in 1 .. Len(registry)}

Init == /\ registry = <<>> /\ cap = 0 /\ growFailed = FALSE
        /\ thread = [h \in Handles |-> NoThread]
        /\ life = [t \in Threads |-> IF t = Main THEN "run" ELSE "none"]
        /\ gone = [t \in Threads |-> FALSE]
        /\ ticket = [t \in Threads |-> NoHandle]
        /\ pc = [t \in Threads |-> "body"]
        /\ arg = [t \in Threads |-> NoHandle]
        /\ claimer = [t \in Threads |-> NoThread]
        /\ due = [t \in Threads |-> {}]

(* t is alive and at l. *)
At(t, l) == life[t] = "run" /\ pc[t] = l

(* t goes on at l, holding the handle h. *)
Goto(t, l, h) == /\ pc' = [pc EXCEPT ![t] = l]
                 /\ arg' = [arg EXCEPT ![t] = h]

-----------------------------------------------------------------------------
(* pthread_create has started u; its handle is not registered yet. *)
Spawn(t, u, h) ==
    /\ At(t, "body")
    /\ life[u] = "none"
    /\ thread[h] = NoThread
    /\ thread' = [thread EXCEPT ![h] = u]
    /\ life' = [life EXCEPT ![u] = "run"]
    /\ Goto(t, "add", h)
    /\ UNCHANGED <<registry, cap, growFailed, gone, ticket, claimer, due>>

Full == Len(registry) >= cap

Returned(t) ==
    /\ ticket' = [ticket EXCEPT ![thread[arg[t]]] = arg[t]]
    /\ Goto(t, "body", NoHandle)

(* Mutant: a full registry drops the handle and says nothing.              *)
RegistryAddFixed(t) ==
    /\ At(t, "add")
    /\ registry' = IF Len(registry) < InitialCap THEN Append(registry, arg[t]) ELSE registry
    /\ cap' = InitialCap
    /\ Returned(t)
    /\ UNCHANGED <<growFailed, thread, life, gone, claimer, due>>

(* realloc to twice the size, which may fail; then spawn returns the handle. *)
RegistryAdd(t) ==
    /\ At(t, "add")
    /\ \/ ~Full /\ UNCHANGED <<cap, growFailed>>
       \/ Full /\ cap' = (IF cap > 0 THEN 2 * cap ELSE InitialCap) /\ UNCHANGED growFailed
       \/ Full /\ growFailed' = TRUE /\ UNCHANGED cap
    /\ registry' = IF Len(registry) < cap' THEN Append(registry, arg[t]) ELSE registry
    /\ Returned(t)
    /\ UNCHANGED <<thread, life, gone, claimer, due>>

-----------------------------------------------------------------------------
(* The calls.  A program may pass any handle it was ever given.             *)
BeginJoin(t, u) ==
    /\ At(t, "body")
    /\ ticket[u] # NoHandle
    /\ Goto(t, "join", ticket[u])
    /\ due' = [due EXCEPT ![t] = {u}]
    /\ UNCHANGED <<registry, cap, growFailed, thread, life, gone, ticket, claimer>>

BeginJoinAll(t) ==
    /\ At(t, "body")
    /\ Goto(t, "all", NoHandle)
    /\ due' = [due EXCEPT ![t] = {thread[h] : h \in Registered}]
    /\ UNCHANGED <<registry, cap, growFailed, thread, life, gone, ticket, claimer>>

(* The call of t is over. *)
Return(t) == /\ Goto(t, "body", NoHandle)
             /\ due' = [due EXCEPT ![t] = {}]

(* t owns the handle h from now on, and goes to wait for its thread. *)
Own(t, h, l) == /\ claimer' = [claimer EXCEPT ![thread[h]] = t]
                /\ Goto(t, l, h)
                /\ UNCHANGED due

(* The last entry takes the place of entry i. *)
SwapRemove(i) ==
    [k \in 1 .. Len(registry) - 1 |-> IF k = i THEN registry[Len(registry)] ELSE registry[k]]

(* Mutants: the entry stays; the count is lowered without the swap.         *)
ClaimKeeps(t) ==
    /\ At(t, "join")
    /\ \/ arg[t] \in Registered /\ Own(t, arg[t], "wait")
       \/ arg[t] \notin Registered /\ Return(t) /\ UNCHANGED claimer
    /\ UNCHANGED <<registry, cap, growFailed, thread, life, gone, ticket>>

ClaimNoSwap(t) ==
    /\ At(t, "join")
    /\ \/ \E i \in 1 .. Len(registry) :
             /\ registry[i] = arg[t]
             /\ registry' = SubSeq(registry, 1, Len(registry) - 1)
             /\ Own(t, arg[t], "wait")
       \/ arg[t] \notin Registered /\ Return(t) /\ UNCHANGED <<registry, claimer>>
    /\ UNCHANGED <<cap, growFailed, thread, life, gone, ticket>>

(* Only the call that takes the handle out of the registry waits. *)
Claim(t) ==
    /\ At(t, "join")
    /\ \/ \E i \in 1 .. Len(registry) :
             /\ registry[i] = arg[t]
             /\ \A j \in 1 .. i - 1 : registry[j] # arg[t]
             /\ registry' = SwapRemove(i)
             /\ Own(t, arg[t], "wait")
       \/ arg[t] \notin Registered /\ Return(t) /\ UNCHANGED <<registry, claimer>>
    /\ UNCHANGED <<cap, growFailed, thread, life, gone, ticket>>

(* Mutant: the last entry is read, but the count is not lowered. *)
PopKeeps(t) ==
    /\ At(t, "all")
    /\ \/ /\ registry # <<>>
          /\ Own(t, registry[Len(registry)], "all_wait")
       \/ registry = <<>> /\ Return(t) /\ UNCHANGED claimer
    /\ UNCHANGED <<registry, cap, growFailed, thread, life, gone, ticket>>

(* wait_all takes the last entry until there is none. *)
Pop(t) ==
    /\ At(t, "all")
    /\ \/ /\ registry # <<>>
          /\ registry' = SubSeq(registry, 1, Len(registry) - 1)
          /\ Own(t, registry[Len(registry)], "all_wait")
       \/ registry = <<>> /\ Return(t) /\ UNCHANGED <<registry, claimer>>
    /\ UNCHANGED <<cap, growFailed, thread, life, gone, ticket>>

(* t waits with a claimed handle; it waits for u. *)
Waiting(t) == pc[t] \in {"wait", "all_wait"}
WaitsFor(t, u) == Waiting(t) /\ thread[arg[t]] = u

(* pthread_join or pthread_detach is over: join returns, wait_all goes on,  *)
(* and the handle is freed.                                                 *)
FreeClaimed(t) ==
    /\ \/ At(t, "wait") /\ Return(t)
       \/ At(t, "all_wait") /\ Goto(t, "all", NoHandle) /\ UNCHANGED due
    /\ thread' = [thread EXCEPT ![arg[t]] = NoThread]
    /\ UNCHANGED <<registry, cap, growFailed, life, ticket, claimer>>

(* Mutant: the calling thread's own handle is waited for like any other. *)
JoinClaimedSelf(t) ==
    /\ FreeClaimed(t)
    /\ LET u == thread[arg[t]] IN
          /\ u \in Threads
          /\ life[u] = "exited"
          /\ gone' = [gone EXCEPT ![u] = TRUE]

(* pthread_join comes back when the thread has finished; the calling        *)
(* thread's own handle is detached instead.                                 *)
JoinClaimed(t) ==
    /\ FreeClaimed(t)
    /\ LET u == thread[arg[t]] IN
          /\ u \in Threads
          /\ u = t \/ life[u] = "exited"
          /\ gone' = [gone EXCEPT ![u] = TRUE]

(* pthread_join may refuse to wait for a thread that waits for the caller   *)
(* (EDEADLK).  Its result is not looked at: the call goes on as if the      *)
(* thread had finished, which stays unjoined, without a handle.             *)
JoinRefused(t) ==
    /\ FreeClaimed(t)
    /\ \E u \in Threads \ {t} : WaitsFor(t, u) /\ WaitsFor(u, t)
    /\ UNCHANGED gone

(* The body of the thread is over. *)
Exit(t) ==
    /\ At(t, "body")
    /\ life' = [life EXCEPT ![t] = "exited"]
    /\ UNCHANGED <<registry, cap, growFailed, thread, gone, ticket, pc, arg, claimer, due>>

-----------------------------------------------------------------------------
(* The steps of the runtime that a thread inside it takes. *)
RuntimeStep(t) == RegistryAdd(t) \/ Claim(t) \/ Pop(t) \/ JoinClaimed(t)

Next ==
    /\ life[Main] = "run"
    /\ \E t \in Threads :
          \/ \E u \in Threads, h \in Handles : Spawn(t, u, h)
          \/ t \in Joiners /\ (BeginJoinAll(t) \/ \E u \in Threads : BeginJoin(t, u))
          \/ RuntimeStep(t)
          \/ JoinRefused(t)
          \/ Exit(t)

Spec == Init /\ [][Next]_vars

(* The OS schedules every thread, and the body of a spawned thread ends,    *)
(* however many calls it makes before (of one that runs for ever, a join    *)
(* rightly never returns): strong fairness, for Exit is not enabled inside  *)
(* the calls.  Nothing obliges pthread_join to refuse.                      *)
Fairness ==
    \A t \in Threads :
        /\ WF_vars(life[Main] = "run" /\ RuntimeStep(t))
        /\ t # Main => SF_vars(life[Main] = "run" /\ Exit(t))

FairSpec == Spec /\ Fairness

-----------------------------------------------------------------------------
(* Properties.                                                              *)

(* t is in the runtime with a handle that is its alone. *)
Holding(t) == pc[t] \in {"add", "wait", "all_wait"}

TypeOK ==
    /\ registry \in Seq(Handles) /\ cap \in Nat /\ Len(registry) <= cap
    /\ growFailed \in BOOLEAN
    /\ thread \in [Handles -> Threads \cup {NoThread}]
    /\ life \in [Threads -> {"none", "run", "exited"}]
    /\ gone \in [Threads -> BOOLEAN]
    /\ ticket \in [Threads -> Handles \cup {NoHandle}]
    /\ pc \in [Threads -> {"body", "add", "join", "wait", "all", "all_wait"}]
    /\ arg \in [Threads -> Handles \cup {NoHandle}]
    /\ claimer \in [Threads -> Threads \cup {NoThread}]
    /\ due \in [Threads -> SUBSET Threads]

(* Every handle has one owner: the registry, which has it once, or a thread *)
(* inside the runtime; and an owned handle points to a joinable thread.     *)
OwnerInv ==
    /\ \A i, j \in 1 .. Len(registry) : registry[i] = registry[j] => i = j
    /\ \A h \in Registered : thread[h] \in Threads /\ claimer[thread[h]] = NoThread
    /\ \A t \in Threads : Holding(t) =>
          /\ arg[t] \in Handles \ Registered
          /\ thread[arg[t]] \in Threads
          /\ claimer[thread[arg[t]]] = IF Waiting(t) THEN t ELSE NoThread
    /\ \A s, t \in Threads : Holding(s) /\ Holding(t) /\ arg[s] = arg[t] => s = t
    /\ \A h \in Handles : thread[h] \in Threads =>
          ~gone[thread[h]] /\ life[thread[h]] # "none"
    /\ \A g, h \in Handles : thread[g] \in Threads /\ thread[g] = thread[h] => g = h

(* A thread that never ran has left no trace, and a spawn under way has not *)
(* given its handle out.                                                    *)
BirthInv ==
    /\ \A u \in Threads : life[u] = "none" =>
          pc[u] = "body" /\ claimer[u] = NoThread /\ ticket[u] = NoHandle /\ ~gone[u]
    /\ \A t \in Threads : pc[t] = "add" => ticket[thread[arg[t]]] = NoHandle

(* Who claimed a thread that still runs is waiting for it, unless it was    *)
(* refused because that thread waits for it.                                *)
ClaimInv ==
    \A t, u \in Threads : claimer[u] = t /\ t # u =>
        life[u] = "exited" \/ WaitsFor(t, u) \/ WaitsFor(u, t) \/ life[t] = "exited"

(* Unless the registry failed to grow, the handle a program got is in the   *)
(* registry, for that thread, until somebody claims it.                     *)
TicketInv ==
    /\ \A u \in Threads : ticket[u] # NoHandle /\ claimer[u] = NoThread /\ ~growFailed =>
          ticket[u] \in Registered /\ thread[ticket[u]] = u
    /\ \A h \in Registered : ticket[thread[h]] = h

(* What a call has to wait for. *)
DueInv ==
    /\ \A t, u \in Threads : u \in due[t] => ticket[u] # NoHandle
    /\ \A t, u \in Threads : pc[t] = "join" /\ u \in due[t] => arg[t] = ticket[u]
    /\ \A t, u \in Threads : pc[t] = "wait" /\ u \in due[t] =>
          claimer[u] # NoThread \/ growFailed

(* The inductive invariant. *)
RegistryInv == TypeOK /\ OwnerInv /\ BirthInv /\ ClaimInv /\ TicketInv /\ DueInv

(* No thread is joined or detached twice and no handle freed twice: two     *)
(* calls never wait with one handle, and theirs is the handle of a thread   *)
(* that can still be joined.                                                *)
NoDoubleJoin ==
    \A t \in Threads : Waiting(t) =>
        /\ thread[arg[t]] \in Threads /\ ~gone[thread[arg[t]]]
        /\ \A s \in Threads \ {t} : Waiting(s) => arg[s] # arg[t]

(* A handle is in reach of a join until it is freed, unless the runtime has *)
(* reported that the registry could not grow.                               *)
NoLeak ==
    growFailed \/ \A h \in Handles : thread[h] \in Threads =>
        h \in Registered \/ \E t \in Threads : Holding(t) /\ arg[t] = h

(* When a join or a wait_all comes back, a thread it was to wait for has    *)
(* finished, or waits for the caller itself, or another call claimed it     *)
(* first, or it was never registered.                                       *)
ReturnMeansDone ==
    [][\A t \in Threads : pc[t] \notin {"body", "add"} /\ pc'[t] = "body" =>
          \A u \in due[t] \ {t} :
              \/ life[u] = "exited"
              \/ WaitsFor(u, t)
              \/ claimer[u] \in Threads \ {t}
              \/ growFailed /\ claimer[u] = NoThread]_vars

(* t cannot go on unless pthread_join refuses somebody: it is one of a set  *)
(* of threads each of which waits for another of the set, or waits, over    *)
(* others, for one of them.                                                 *)
Deadlocked(t) ==
    \E S \in SUBSET Threads :
        t \in S /\ \A s \in S : \E u \in S \ {s} : WaitsFor(s, u)

(* Liveness, under FairSpec: every call comes back, although it finds the   *)
(* calling thread's own handle in the registry, and whichever handles       *)
(* others take from it; only a circle of threads that wait for one another  *)
(* may hold it up for ever.                                                 *)
CallsReturn ==
    \A t \in Joiners :
        (pc[t] \in {"join", "wait", "all", "all_wait"})
            ~> (pc[t] = "body" \/ Deadlocked(t) \/ life[Main] # "run")

=============================================================================
