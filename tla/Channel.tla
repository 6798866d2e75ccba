------------------------------ MODULE Channel ------------------------------
(***************************************************************************)
(* The channel of the compiled language, as the code generator emits it    *)
(* (src/compiler/src/backend/llvm/builders/directives/channels_ops.cpp): a *)
(* ring of value slots, an atomic element count, a head that belongs to    *)
(* the one consumer, a tail guarded by the producers' spin lock, and an    *)
(* atomic closed flag.  Threads are the real OS threads of a go statement. *)
(*                                                                         *)
(* Every access to a shared word is a step of its own.  The count, the     *)
(* closed flag and the lock are atomics, loaded with acquire and changed   *)
(* with release (the lock is taken with acquire); head, tail and the slots *)
(* are plain words that the lock and the count keep in order.  So the      *)
(* interleavings of the steps are the executions.  The registers of the    *)
(* emitted code are the variables reg, chead and cval.  A value slot and   *)
(* its type tag are one slot.                                              *)
(*                                                                         *)
(* late is a history variable: the channel was closed when the call began. *)
(***************************************************************************)
EXTENDS Naturals, Sequences

CONSTANTS Producers,   (* the threads that send                              *)
          Values,      (* what is sent                                       *)
          Null,        (* kSadNullSentinel, the answer when there is no value *)
          Capacity,    (* word 0: the number of slots                        *)
          MaxTimeout   (* the longest timeout of a timed receive, in ms      *)

ASSUME ChannelAssumption == /\ Capacity \in Nat \ {0}
                            /\ MaxTimeout \in Nat

VARIABLES count,       (* word 1: the number of elements                     *)
          head,        (* word 2: the slot the consumer reads next           *)
          tail,        (* word 3: the slot a producer writes next            *)
          closed,      (* word 4                                             *)
          sendLock,    (* word 5: the producers' spin lock is taken          *)
          data,        (* words 6 and up: the slots                          *)
          pc, kind, val, reg, res, late,             (* per producer         *)
          cpc, ckind, loop, left, chead, cval, got   (* of the consumer      *)

ring == <<count, head, tail, closed, sendLock, data>>
prod == <<pc, kind, val, reg, res, late>>
cons == <<cpc, ckind, loop, left, chead, cval, got>>
vars == <<ring, prod, cons>>

SendKinds == {"send", "try"}
RecvKinds == {"recv", "try", "timed"}

Slots == 0 .. Capacity - 1
Succ(i) == (i + 1) % Capacity

(* emitAsyncCreateChannel zeroes the whole block; Null stands for the zero. *)
Init == /\ count = 0 /\ head = 0 /\ tail = 0
        /\ closed = FALSE /\ sendLock = FALSE
        /\ data = [i \in Slots |-> Null]
        /\ pc = [p \in Producers |-> "idle"]
        /\ kind = [p \in Producers |-> "send"]
        /\ val = [p \in Producers |-> Null]
        /\ reg = [p \in Producers |-> 0]
        /\ res = [p \in Producers |-> "pending"]
        /\ late = [p \in Producers |-> FALSE]
        /\ cpc = "idle" /\ ckind = "recv" /\ loop = FALSE /\ left = 0
        /\ chead = 0 /\ cval = Null /\ got = Null

-----------------------------------------------------------------------------
(* The producers.                                                          *)

Goto(p, l) == pc' = [pc EXCEPT ![p] = l]

BeginSend(p, k, v) ==
    /\ pc[p] = "idle"
    /\ Goto(p, "lock")
    /\ kind' = [kind EXCEPT ![p] = k]
    /\ val' = [val EXCEPT ![p] = v]
    /\ late' = [late EXCEPT ![p] = closed]
    /\ UNCHANGED <<ring, reg, res, cons>>

(* Mutant: the old value of the exchange is not looked at. *)
TakeLockUntested(p) ==
    /\ pc[p] = "lock"
    /\ sendLock' = TRUE
    /\ Goto(p, IF kind[p] = "send" THEN "chk_closed" ELSE "try_space")
    /\ UNCHANGED <<count, head, tail, closed, data, kind, val, reg, res, late, cons>>

(* The exchange that finds the lock free; one that does not changes nothing. *)
TakeLock(p) ==
    /\ pc[p] = "lock"
    /\ ~sendLock
    /\ sendLock' = TRUE
    /\ Goto(p, IF kind[p] = "send" THEN "chk_closed" ELSE "try_space")
    /\ UNCHANGED <<count, head, tail, closed, data, kind, val, reg, res, late, cons>>

(* Mutants: the closed word is not looked at; a refused call keeps the lock. *)
CheckClosedNever(p, here, next) ==
    /\ pc[p] = here
    /\ Goto(p, next)
    /\ UNCHANGED <<ring, kind, val, reg, res, late, cons>>

CheckClosedLeaky(p, here, next) ==
    /\ pc[p] = here
    /\ Goto(p, IF closed THEN "idle" ELSE next)
    /\ UNCHANGED <<ring, kind, val, reg, res, late, cons>>

(* The closed word decides whether the call goes on. *)
CheckClosed(p, here, next) ==
    /\ pc[p] = here
    /\ IF closed THEN Goto(p, "unlock") /\ res' = [res EXCEPT ![p] = "refused"]
                 ELSE Goto(p, next) /\ UNCHANGED res
    /\ UNCHANGED <<ring, kind, val, reg, late, cons>>

(* Mutant: a full ring still has room for one. *)
SendCheckSpaceOffByOne(p) ==
    /\ pc[p] = "chk_space"
    /\ Goto(p, IF count <= Capacity THEN "load_tail" ELSE "unlock_sleep")
    /\ UNCHANGED <<ring, kind, val, reg, res, late, cons>>

SendCheckSpace(p) ==
    /\ pc[p] = "chk_space"
    /\ Goto(p, IF count < Capacity THEN "load_tail" ELSE "unlock_sleep")
    /\ UNCHANGED <<ring, kind, val, reg, res, late, cons>>

(* A full ring settles the answer; the load of closed that follows cannot   *)
(* change it.                                                               *)
TryCheckSpace(p) ==
    /\ pc[p] = "try_space"
    /\ IF count < Capacity
         THEN Goto(p, "try_closed") /\ UNCHANGED res
         ELSE Goto(p, "unlock") /\ res' = [res EXCEPT ![p] = "refused"]
    /\ UNCHANGED <<ring, kind, val, reg, late, cons>>

LoadTail(p) ==
    /\ pc[p] = "load_tail"
    /\ reg' = [reg EXCEPT ![p] = tail]
    /\ Goto(p, "store")
    /\ UNCHANGED <<ring, kind, val, res, late, cons>>

StoreSlot(p) ==
    /\ pc[p] = "store"
    /\ data' = [data EXCEPT ![reg[p]] = val[p]]
    /\ Goto(p, "bump_tail")
    /\ UNCHANGED <<count, head, tail, closed, sendLock, kind, val, reg, res, late, cons>>

BumpTail(p) ==
    /\ pc[p] = "bump_tail"
    /\ tail' = Succ(reg[p])
    /\ Goto(p, "publish")
    /\ UNCHANGED <<count, head, closed, sendLock, data, kind, val, reg, res, late, cons>>

Publish(p) ==
    /\ pc[p] = "publish"
    /\ count' = count + 1
    /\ res' = [res EXCEPT ![p] = "accepted"]
    /\ Goto(p, "unlock")
    /\ UNCHANGED <<head, tail, closed, sendLock, data, kind, val, reg, late, cons>>

UnlockSleep(p) ==
    /\ pc[p] = "unlock_sleep"
    /\ sendLock' = FALSE
    /\ Goto(p, "sleep")
    /\ UNCHANGED <<count, head, tail, closed, data, kind, val, reg, res, late, cons>>

(* The lock is given back and the call returns; its registers die. *)
UnlockDone(p) ==
    /\ pc[p] = "unlock"
    /\ sendLock' = FALSE
    /\ Goto(p, "idle")
    /\ kind' = [kind EXCEPT ![p] = "send"]
    /\ val' = [val EXCEPT ![p] = Null]
    /\ reg' = [reg EXCEPT ![p] = 0]
    /\ res' = [res EXCEPT ![p] = "pending"]
    /\ late' = [late EXCEPT ![p] = FALSE]
    /\ UNCHANGED <<count, head, tail, closed, data, cons>>

Sleep(p) ==
    /\ pc[p] = "sleep"
    /\ Goto(p, "lock")
    /\ UNCHANGED <<ring, kind, val, reg, res, late, cons>>

Enqueue(p) == LoadTail(p) \/ StoreSlot(p) \/ BumpTail(p) \/ Publish(p)

(* The blocking send. *)
Send(p) ==
    \/ CheckClosed(p, "chk_closed", "chk_space")
    \/ SendCheckSpace(p)
    \/ UnlockSleep(p)
    \/ Sleep(p)

(* The non-blocking send, and send_timeout, which is lowered to it. *)
TrySend(p) ==
    \/ TryCheckSpace(p)
    \/ CheckClosed(p, "try_closed", "load_tail")

ProducerStep(p) ==
    TakeLock(p) \/ Send(p) \/ TrySend(p) \/ Enqueue(p) \/ UnlockDone(p)

(* close is one store, by whichever thread calls it; it takes no lock. *)
Close ==
    /\ closed' = TRUE
    /\ UNCHANGED <<count, head, tail, sendLock, data, prod, cons>>

-----------------------------------------------------------------------------
(* The consumer.                                                           *)

BeginRecv(k, ms) ==
    /\ cpc = "idle"
    /\ cpc' = "wait"
    /\ ckind' = k
    /\ left' = IF k = "timed" THEN ms ELSE 0
    /\ UNCHANGED <<ring, prod, loop, chead, cval, got>>

(* The receive returns v; its registers die. *)
Answer(v) ==
    /\ got' = v
    /\ cpc' = IF loop THEN "body" ELSE "idle"
    /\ ckind' = "recv" /\ left' = 0 /\ chead' = 0 /\ cval' = Null

Proceed(l) == cpc' = l /\ UNCHANGED <<ckind, left, chead, cval, got>>

(* The load of count that opens every receive. *)
WaitData ==
    /\ cpc = "wait"
    /\ \/ count > 0 /\ Proceed("load_head")
       \/ count = 0 /\ ckind # "try" /\ Proceed("chk_closed")
       \/ count = 0 /\ ckind = "try" /\ Answer(Null)
    /\ UNCHANGED <<ring, prod, loop>>

(* Mutant: the receive does not look at closed. *)
RecvCheckClosedNever ==
    /\ cpc = "chk_closed"
    /\ Proceed(IF ckind = "timed" THEN "chk_time" ELSE "sleep")
    /\ UNCHANGED <<ring, prod, loop>>

RecvCheckClosed ==
    /\ cpc = "chk_closed"
    /\ IF closed THEN Answer(Null)
                 ELSE Proceed(IF ckind = "timed" THEN "chk_time" ELSE "sleep")
    /\ UNCHANGED <<ring, prod, loop>>

CheckTime ==
    /\ cpc = "chk_time"
    /\ IF left = 0 THEN Answer(Null) ELSE Proceed("sleep")
    /\ UNCHANGED <<ring, prod, loop>>

(* Mutants: the millisecond is not counted; the count is not loaded again. *)
RecvSleepUncounted ==
    /\ cpc = "sleep"
    /\ cpc' = "wait"
    /\ UNCHANGED <<ring, prod, ckind, loop, left, chead, cval, got>>

RecvSleepStale ==
    /\ cpc = "sleep"
    /\ cpc' = "chk_closed"
    /\ left' = IF ckind = "timed" THEN left - 1 ELSE left
    /\ UNCHANGED <<ring, prod, ckind, loop, chead, cval, got>>

RecvSleep ==
    /\ cpc = "sleep"
    /\ cpc' = "wait"
    /\ left' = IF ckind = "timed" THEN left - 1 ELSE left
    /\ UNCHANGED <<ring, prod, ckind, loop, chead, cval, got>>

LoadHead ==
    /\ cpc = "load_head"
    /\ chead' = head
    /\ cpc' = "load_slot"
    /\ UNCHANGED <<ring, prod, ckind, loop, left, cval, got>>

LoadSlot ==
    /\ cpc = "load_slot"
    /\ cval' = data[chead]
    /\ cpc' = "bump_head"
    /\ UNCHANGED <<ring, prod, ckind, loop, left, chead, got>>

BumpHead ==
    /\ cpc = "bump_head"
    /\ head' = Succ(chead)
    /\ cpc' = "take"
    /\ UNCHANGED <<count, tail, closed, sendLock, data, prod, ckind, loop, left, chead, cval, got>>

Take ==
    /\ cpc = "take"
    /\ count' = count - 1
    /\ Answer(cval)
    /\ UNCHANGED <<head, tail, closed, sendLock, data, prod, loop>>

Dequeue == LoadHead \/ LoadSlot \/ BumpHead \/ Take

(* for x in channel: HAS_DATA, else IS_CLOSED leaves, else round again. *)
BeginLoop ==
    /\ cpc = "idle"
    /\ loop' = TRUE
    /\ cpc' = "cond"
    /\ UNCHANGED <<ring, prod, ckind, left, chead, cval, got>>

(* Mutant: a closed channel is taken for one with data. *)
LoopHasDataOrClosed ==
    /\ cpc = "cond"
    /\ IF count > 0 \/ closed THEN cpc' = "wait" /\ ckind' = "recv"
                    ELSE cpc' = "loop_closed" /\ UNCHANGED ckind
    /\ UNCHANGED <<ring, prod, loop, left, chead, cval, got>>

LoopHasData ==
    /\ cpc = "cond"
    /\ IF count > 0 THEN cpc' = "wait" /\ ckind' = "recv"
                    ELSE cpc' = "loop_closed" /\ UNCHANGED ckind
    /\ UNCHANGED <<ring, prod, loop, left, chead, cval, got>>

LoopIsClosed ==
    /\ cpc = "loop_closed"
    /\ IF closed THEN cpc' = "idle" /\ loop' = FALSE
                 ELSE cpc' = "cond" /\ UNCHANGED loop
    /\ UNCHANGED <<ring, prod, ckind, left, chead, cval, got>>

(* The loop body has run; it may leave the loop by a break. *)
LoopBody ==
    /\ cpc = "body"
    /\ \/ cpc' = "cond" /\ UNCHANGED loop
       \/ cpc' = "idle" /\ loop' = FALSE
    /\ UNCHANGED <<ring, prod, ckind, left, chead, cval, got>>

Recv == WaitData \/ RecvCheckClosed \/ CheckTime \/ RecvSleep \/ Dequeue
ChannelLoop == LoopHasData \/ LoopIsClosed \/ LoopBody
ConsumerStep == Recv \/ ChannelLoop

-----------------------------------------------------------------------------
Next ==
    \/ \E p \in Producers :
          \/ \E k \in SendKinds, v \in Values : BeginSend(p, k, v)
          \/ ProducerStep(p)
    \/ \E k \in RecvKinds, ms \in 0 .. MaxTimeout : BeginRecv(k, ms)
    \/ BeginLoop
    \/ ConsumerStep
    \/ Close

Spec == Init /\ [][Next]_vars

(* A thread that is inside a call keeps running: the OS schedules it. Which *)
(* of several spinning producers gets the lock is left open, and nobody is  *)
(* obliged to call anything.                                                *)
Fairness == /\ \A p \in Producers : WF_vars(ProducerStep(p))
            /\ WF_vars(ConsumerStep)

FairSpec == Spec /\ Fairness

-----------------------------------------------------------------------------
(* Properties.                                                             *)

(* The emitted send holds the lock from the exchange to the unlocking store. *)
InCS(p) == pc[p] \notin {"idle", "lock", "sleep"}

(* Where the oldest element lies: until the count is lowered the element    *)
(* being received still occupies the slot the consumer loaded it from.      *)
Oldest == IF cpc = "take" THEN chead ELSE head

(* The slot k places after slot i, going round the ring; k is at most       *)
(* Capacity.                                                                *)
Ahead(i, k) == IF i + k < Capacity THEN i + k ELSE i + k - Capacity

TypeOK ==
    /\ count \in 0 .. Capacity
    /\ head \in Slots /\ tail \in Slots
    /\ closed \in BOOLEAN /\ sendLock \in BOOLEAN
    /\ data \in [Slots -> Values \cup {Null}]
    /\ pc \in [Producers -> {"idle", "lock", "chk_closed", "chk_space", "try_space",
                             "try_closed", "load_tail", "store", "bump_tail",
                             "publish", "unlock", "unlock_sleep", "sleep"}]
    /\ kind \in [Producers -> SendKinds]
    /\ val \in [Producers -> Values \cup {Null}]
    /\ reg \in [Producers -> Slots]
    /\ res \in [Producers -> {"pending", "accepted", "refused"}]
    /\ late \in [Producers -> BOOLEAN]
    /\ cpc \in {"idle", "wait", "chk_closed", "chk_time", "sleep", "load_head",
                "load_slot", "bump_head", "take", "body", "cond", "loop_closed"}
    /\ ckind \in RecvKinds /\ loop \in BOOLEAN /\ left \in 0 .. MaxTimeout
    /\ chead \in Slots
    /\ cval \in Values \cup {Null} /\ got \in Values \cup {Null}

(* Producers exclude each other, and only a producer inside holds the lock. *)
LockInv ==
    /\ \A p \in Producers : InCS(p) => sendLock
    /\ \A p, q \in Producers : InCS(p) /\ InCS(q) => p = q
    /\ sendLock => \E p \in Producers : InCS(p)

(* The free slots start at the tail, whatever the two sides are in the      *)
(* middle of.                                                               *)
RingInv ==
    /\ \A p \in Producers :
         /\ pc[p] \in {"try_closed", "load_tail", "store", "bump_tail", "publish"}
               => count < Capacity
         /\ pc[p] \in {"store", "bump_tail", "publish"}
               => reg[p] = Ahead(Oldest, count)
         /\ pc[p] \in {"bump_tail", "publish"} => data[reg[p]] = val[p]
         /\ pc[p] = "publish" => tail = Ahead(Oldest, count + 1)
    /\ (\A p \in Producers : pc[p] # "publish") => tail = Ahead(Oldest, count)
    /\ cpc \in {"load_head", "load_slot", "bump_head", "take"} => count > 0
    /\ cpc \in {"load_slot", "bump_head"} => chead = head
    /\ cpc \in {"bump_head", "take"} => cval = data[chead]
    /\ cpc = "take" => head = Ahead(chead, 1)

(* How far a call has come agrees with what it has decided. *)
CallInv ==
    /\ \A p \in Producers :
        /\ (pc[p] = "unlock") <=> (res[p] # "pending")
        /\ late[p] => closed
        /\ pc[p] # "idle" => val[p] \in Values
        /\ pc[p] \in {"chk_space", "unlock_sleep", "load_tail", "store", "bump_tail",
                       "publish"} => ~late[p]
        /\ pc[p] \in {"chk_closed", "chk_space", "unlock_sleep", "sleep"}
              => kind[p] = "send"
        /\ pc[p] \in {"try_space", "try_closed"} => kind[p] = "try"
    /\ cpc = "sleep" /\ ckind = "timed" => left > 0
    /\ cpc = "chk_time" => ckind = "timed"
    /\ cpc = "idle" => ~loop
    /\ cpc \in {"cond", "loop_closed", "body"} => loop

(* The consumer alone lowers the count, so what HAS_DATA saw is still there *)
(* when the body of a channel loop receives: it never gets the sentinel.    *)
LoopRecvFindsData ==
    /\ loop /\ cpc = "wait" => count > 0 /\ ckind = "recv"
    /\ loop => cpc \notin {"chk_closed", "chk_time", "sleep"}

(* The inductive invariant. *)
ChannelInv == TypeOK /\ LockInv /\ RingInv /\ CallInv

(* A producer never writes the slot the consumer is reading, although the   *)
(* consumer takes no lock: the count alone keeps them apart.                *)
NoSlotRace ==
    \A p \in Producers :
        pc[p] = "store" /\ cpc = "load_slot" => reg[p] # chead

(* The ring implements the bounded closable queue: a send takes effect when *)
(* it publishes, a receive when it lowers the count.                        *)
Queue == [k \in 1 .. count |-> data[Ahead(Oldest, k - 1)]]

Fifo == INSTANCE FifoChannel WITH
    queue <- Queue,
    req   <- [p \in Producers |-> IF pc[p] = "idle" THEN "idle" ELSE res[p]],
    rcv   <- IF cpc \in {"idle", "body", "cond", "loop_closed"} THEN "idle"
             ELSE IF cpc \in {"chk_closed", "chk_time"} THEN "empty" ELSE "waiting"

RefinesFifo == Fifo!Spec

(* What the comment on the emitted receive says: it answers with the        *)
(* sentinel when the channel is closed and empty.                           *)
NullMeansClosedAndEmpty ==
    [][cpc = "chk_closed" /\ ckind = "recv" /\ cpc' # "sleep" /\ cpc' # cpc
          => closed /\ count = 0]_vars

(* Liveness, under FairSpec.                                               *)

(* Every path through a send gives the lock back. *)
LockReleased == sendLock ~> ~sendLock

(* close wakes a receiver that is blocked on an empty channel. *)
CloseWakesReceiver == (closed /\ cpc \in {"wait", "chk_closed", "sleep"}) ~> cpc \in {"idle", "body"}

(* A receive with a timeout comes back, whatever the producers do. *)
TimedRecvReturns == (cpc # "idle" /\ ~loop /\ ckind = "timed") ~> cpc = "idle"

(* A receiver that found the channel empty gets the value a producer then   *)
(* publishes: polling loses no wake-up.                                     *)
PublishedIsReceived == (count > 0 /\ cpc = "sleep" /\ ckind = "recv") ~> (cpc = "take")

=============================================================================
