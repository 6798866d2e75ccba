--------------------------- MODULE ChannelProofs ---------------------------
(***************************************************************************)
(* Proofs about the channel, for every set of producers, every set of      *)
(* values and every capacity.                                              *)
(***************************************************************************)
EXTENDS Channel, SequenceTheorems, TLAPS

(* The emitted remainder is one step round the ring. *)
LEMMA SuccIsAhead ==
    ASSUME NEW i \in Slots
    PROVE  Succ(i) = Ahead(i, 1) /\ Succ(i) \in Slots
<1> DEFINE C == Capacity
<1>1. C \in Nat /\ C >= 1 /\ i \in Nat /\ i < C
  BY ChannelAssumption DEF Slots
<1> HIDE DEF C
<1>2. CASE i + 1 < C
  <2>1. (i + 1) % C = i + 1
    BY <1>1, <1>2, SMTT(30)
  <2> QED
    BY <2>1, <1>1, <1>2 DEF Succ, Ahead, C, Slots
<1>3. CASE i + 1 = C
  <2>1. (i + 1) % C = 0
    BY <1>1, <1>3, SMTT(30)
  <2> QED
    BY <2>1, <1>1, <1>3 DEF Succ, Ahead, C, Slots
<1> QED
  BY <1>1, <1>2, <1>3

(* Steps round the ring add up, stay on it, and do not come back too early. *)
LEMMA AheadAdds ==
    ASSUME NEW i \in Slots, NEW k \in Nat, k < Capacity
    PROVE  /\ Ahead(i, k) \in Slots
           /\ Ahead(Ahead(i, 1), k) = Ahead(i, k + 1)
           /\ Ahead(Ahead(i, k), 1) = Ahead(i, k + 1)
           /\ Ahead(i, k) = i => k = 0
  BY ChannelAssumption DEF Ahead, Slots

-----------------------------------------------------------------------------
(* A channel is created empty, open and unlocked. *)
LEMMA InitInv == Init => ChannelInv
<1> SUFFICES ASSUME Init PROVE ChannelInv
  OBVIOUS
<1> USE ChannelAssumption DEF Init
<1>1. TypeOK
  <2>1. 0 \in Slots /\ 0 \in 0 .. Capacity /\ 0 \in 0 .. MaxTimeout
    BY DEF Slots
  <2>2. /\ kind \in [Producers -> SendKinds] /\ reg \in [Producers -> Slots]
        /\ val \in [Producers -> Values \cup {Null}] /\ late \in [Producers -> BOOLEAN]
        /\ data \in [Slots -> Values \cup {Null}]
    BY <2>1, Zenon DEF SendKinds
  <2> QED
    BY <2>1, <2>2 DEF TypeOK, RecvKinds
<1>2. LockInv
  BY DEF LockInv, InCS
<1>3. RingInv
  BY DEF RingInv, Ahead, Oldest
<1>4. CallInv
  BY DEF CallInv
<1> QED
  BY <1>1, <1>2, <1>3, <1>4 DEF ChannelInv

(* The emitted indices stay in the ring and the count in 0 .. Capacity. *)
LEMMA TypeStep == ChannelInv /\ [Next]_vars => TypeOK'
<1> SUFFICES ASSUME ChannelInv, [Next]_vars PROVE TypeOK'
  OBVIOUS
<1> USE ChannelAssumption DEF ChannelInv, TypeOK, SendKinds, RecvKinds, Goto, ring, prod, cons
<1>1. ASSUME NEW p \in Producers, NEW k \in SendKinds, NEW v \in Values, BeginSend(p, k, v)
      PROVE  TypeOK'
  BY <1>1 DEF BeginSend
<1>2. ASSUME NEW p \in Producers, ProducerStep(p)
      PROVE  TypeOK'
  <2>1. CASE TakeLock(p)
    BY <2>1 DEF TakeLock
  <2>2. CASE Send(p)
    <3>1. CASE CheckClosed(p, "chk_closed", "chk_space")
      BY <3>1 DEF CheckClosed
    <3>2. CASE SendCheckSpace(p) \/ UnlockSleep(p) \/ Sleep(p)
      BY ZenonT(60), <3>2 DEF SendCheckSpace, UnlockSleep, Sleep
    <3> QED
      BY <2>2, <3>1, <3>2 DEF Send
  <2>3. CASE TrySend(p)
    BY <2>3 DEF TrySend, TryCheckSpace, CheckClosed
  <2>4. CASE LoadTail(p)
    BY <2>4 DEF LoadTail
  <2>5. CASE StoreSlot(p)
    BY <2>5 DEF StoreSlot
  <2>6. CASE BumpTail(p)
    BY <2>6, SuccIsAhead DEF BumpTail
  <2>7. CASE Publish(p)
    BY <2>7 DEF Publish, RingInv
  <2>8. CASE UnlockDone(p)
    <3>1. 0 \in Slots
      BY DEF Slots
    <3>2. /\ pc' \in [Producers -> {"idle", "lock", "chk_closed", "chk_space", "try_space",
                                   "try_closed", "load_tail", "store", "bump_tail",
                                   "publish", "unlock", "unlock_sleep", "sleep"}]
          /\ kind' \in [Producers -> SendKinds]
      BY <2>8 DEF UnlockDone
    <3>3. /\ val' \in [Producers -> Values \cup {Null}]
          /\ reg' \in [Producers -> Slots]
      BY <2>8, <3>1 DEF UnlockDone
    <3>4. /\ late' \in [Producers -> BOOLEAN]
          /\ res' \in [Producers -> {"pending", "accepted", "refused"}]
      BY <2>8 DEF UnlockDone
    <3> QED
      BY ZenonT(60), <2>8, <3>2, <3>3, <3>4 DEF UnlockDone
  <2> QED
    BY <1>2, <2>1, <2>2, <2>3, <2>4, <2>5, <2>6, <2>7, <2>8 DEF ProducerStep, Enqueue
<1>3. ASSUME NEW k \in RecvKinds, NEW ms \in 0 .. MaxTimeout, BeginRecv(k, ms)
      PROVE  TypeOK'
  BY <1>3 DEF BeginRecv
<1>4. CASE ConsumerStep
  <2>1. CASE WaitData
    BY <2>1 DEF WaitData, Answer, Proceed, Slots
  <2>2. CASE RecvCheckClosed \/ CheckTime
    BY <2>2 DEF RecvCheckClosed, CheckTime, Answer, Proceed, Slots
  <2>3. CASE RecvSleep
    BY <2>3 DEF RecvSleep, CallInv
  <2>4. CASE LoadHead \/ LoadSlot
    BY <2>4 DEF LoadHead, LoadSlot
  <2>5. CASE BumpHead
    BY <2>5, SuccIsAhead DEF BumpHead
  <2>6. CASE Take
    BY <2>6 DEF Take, Answer, RingInv, Slots
  <2>7. CASE ChannelLoop
    BY <2>7 DEF ChannelLoop, LoopHasData, LoopIsClosed, LoopBody
  <2> QED
    BY <1>4, <2>1, <2>2, <2>3, <2>4, <2>5, <2>6, <2>7 DEF ConsumerStep, Recv, Dequeue
<1>5. CASE BeginLoop \/ Close
  BY ZenonT(60), <1>5 DEF BeginLoop, Close
<1>6. CASE UNCHANGED vars
  BY <1>6 DEF vars
<1> QED
  BY <1>1, <1>2, <1>3, <1>4, <1>5, <1>6 DEF Next

(* The lock: who is inside is decided by pc alone.                          *)
LEMMA LockStep == ChannelInv /\ [Next]_vars => LockInv'
<1> SUFFICES ASSUME ChannelInv, [Next]_vars PROVE LockInv'
  OBVIOUS
<1> USE DEF ChannelInv, TypeOK, LockInv, InCS, ring, prod, cons
<1>1. ASSUME NEW p \in Producers, NEW k \in SendKinds, NEW v \in Values, BeginSend(p, k, v)
      PROVE  LockInv'
  BY <1>1 DEF BeginSend, Goto
<1>2. ASSUME NEW p \in Producers, ProducerStep(p)
      PROVE  LockInv'
  <2>1. CASE TakeLock(p)
    BY <2>1 DEF TakeLock, Goto
  <2>2. CASE Send(p)
    BY <2>2 DEF Send, CheckClosed, SendCheckSpace, UnlockSleep, Sleep, Goto
  <2>3. CASE TrySend(p)
    BY <2>3 DEF TrySend, TryCheckSpace, CheckClosed, Goto
  <2>4. CASE Enqueue(p)
    BY <2>4 DEF Enqueue, LoadTail, StoreSlot, BumpTail, Publish, Goto
  <2>5. CASE UnlockDone(p)
    BY <2>5 DEF UnlockDone, Goto
  <2> QED
    BY <1>2, <2>1, <2>2, <2>3, <2>4, <2>5 DEF ProducerStep
<1>3. CASE UNCHANGED <<sendLock, pc>>
  BY <1>3
<1> QED
  <2>1. ConsumerStep \/ BeginLoop \/ Close => UNCHANGED <<sendLock, pc>>
    BY DEF ConsumerStep, Recv, Dequeue, ChannelLoop, WaitData, RecvCheckClosed, CheckTime,
           RecvSleep, LoadHead, LoadSlot, BumpHead, Take, LoopHasData, LoopIsClosed, LoopBody,
           BeginLoop, Close
  <2>2. ASSUME NEW k \in RecvKinds, NEW ms \in 0 .. MaxTimeout, BeginRecv(k, ms)
        PROVE  UNCHANGED <<sendLock, pc>>
    BY <2>2 DEF BeginRecv
  <2> QED
    BY <1>1, <1>2, <1>3, <2>1, <2>2 DEF Next, vars

(* How far a call has come: a producer's part is about pc, res, late, val   *)
(* and kind, the consumer's about cpc, ckind and left.                      *)
LEMMA CallStep == ChannelInv /\ [Next]_vars => CallInv'
<1> SUFFICES ASSUME ChannelInv, [Next]_vars PROVE CallInv'
  OBVIOUS
<1> USE DEF ChannelInv, TypeOK, CallInv, ring, prod, cons, SendKinds, RecvKinds
<1>1. ASSUME NEW p \in Producers, NEW k \in SendKinds, NEW v \in Values, BeginSend(p, k, v)
      PROVE  CallInv'
  <2>1. /\ pc'[p] = "lock" /\ kind'[p] = k /\ val'[p] = v /\ late'[p] = closed
        /\ res'[p] = "pending"
        /\ \A q \in Producers \ {p} : /\ pc'[q] = pc[q] /\ kind'[q] = kind[q]
                                     /\ val'[q] = val[q] /\ late'[q] = late[q]
                                     /\ res'[q] = res[q]
    BY <1>1 DEF BeginSend, Goto
  <2> QED
    BY <1>1, <2>1 DEF BeginSend
<1>2. ASSUME NEW p \in Producers, ProducerStep(p)
      PROVE  CallInv'
  <2>1. CASE TakeLock(p)
    BY <2>1 DEF TakeLock, Goto
  <2>2. CASE Send(p)
    BY <2>2 DEF Send, CheckClosed, SendCheckSpace, UnlockSleep, Sleep, Goto
  <2>3. CASE TrySend(p)
    BY <2>3 DEF TrySend, TryCheckSpace, CheckClosed, Goto
  <2>4. CASE Enqueue(p)
    BY <2>4 DEF Enqueue, LoadTail, StoreSlot, BumpTail, Publish, Goto
  <2>5. CASE UnlockDone(p)
    BY <2>5 DEF UnlockDone, Goto
  <2> QED
    BY <1>2, <2>1, <2>2, <2>3, <2>4, <2>5 DEF ProducerStep
<1>3. ASSUME NEW k \in RecvKinds, NEW ms \in 0 .. MaxTimeout, BeginRecv(k, ms)
      PROVE  CallInv'
  BY <1>3 DEF BeginRecv
<1>4. CASE Recv
  BY <1>4 DEF Recv, Dequeue, WaitData, RecvCheckClosed, CheckTime, RecvSleep, LoadHead, LoadSlot,
              BumpHead, Take, Answer, Proceed
<1>5. CASE ChannelLoop \/ BeginLoop
  BY <1>5 DEF ChannelLoop, LoopHasData, LoopIsClosed, LoopBody, BeginLoop
<1>6. CASE Close
  BY <1>6 DEF Close
<1>7. CASE UNCHANGED vars
  BY <1>7 DEF vars
<1> QED
  BY <1>1, <1>2, <1>3, <1>4, <1>5, <1>6, <1>7 DEF Next, ConsumerStep

-----------------------------------------------------------------------------
(* The ring.  A producer changes it only inside the lock, so no other       *)
(* producer is in the middle of anything.                                   *)
LEMMA RingProducer ==
    ASSUME ChannelInv, NEW p \in Producers, ProducerStep(p)
    PROVE  RingInv'
<1> USE ChannelAssumption DEF ChannelInv, TypeOK, Goto, ring, prod, cons, Oldest
<1>1. \A q \in Producers \ {p} : InCS(p) => pc[q] \in {"idle", "lock", "sleep"}
  BY DEF LockInv, InCS
<1>2. Oldest \in Slots /\ count \in Nat
  OBVIOUS
<1>3. CASE TakeLock(p) \/ UnlockSleep(p) \/ Sleep(p) \/ CheckClosed(p, "chk_closed", "chk_space")
  BY <1>3 DEF TakeLock, UnlockSleep, Sleep, CheckClosed, RingInv
<1>4. CASE CheckClosed(p, "try_closed", "load_tail")
  BY <1>4 DEF CheckClosed, RingInv
<1>5. CASE SendCheckSpace(p) \/ TryCheckSpace(p)
  BY <1>5 DEF SendCheckSpace, TryCheckSpace, RingInv
<1>6. CASE LoadTail(p)
  <2>1. tail = Ahead(Oldest, count)
    BY <1>1, <1>6 DEF LoadTail, InCS, RingInv
  <2> QED
    BY <1>6, <2>1 DEF LoadTail, RingInv
<1>7. CASE StoreSlot(p)
  <2>1. reg[p] = Ahead(Oldest, count) /\ count < Capacity
    BY <1>7 DEF StoreSlot, RingInv
  <2>2. cpc \in {"bump_head", "take"} => chead = Oldest /\ count # 0
    BY DEF RingInv
  <2>3. cpc \in {"bump_head", "take"} => data'[chead] = data[chead]
    BY <1>7, <1>2, <2>1, <2>2, AheadAdds DEF StoreSlot
  <2> QED
    BY <1>7, <1>1, <2>3 DEF StoreSlot, RingInv, InCS
<1>8. CASE BumpTail(p)
  <2>1. reg[p] = Ahead(Oldest, count) /\ count < Capacity
    BY <1>8 DEF BumpTail, RingInv
  <2>2. tail' = Ahead(Oldest, count + 1)
    BY <1>8, <1>2, <2>1, AheadAdds, SuccIsAhead DEF BumpTail
  <2> QED
    BY <1>8, <1>1, <2>2 DEF BumpTail, RingInv, InCS
<1>9. CASE Publish(p)
  <2>1. tail = Ahead(Oldest, count + 1)
    BY <1>9 DEF Publish, RingInv
  <2> QED
    BY <1>9, <1>1, <2>1 DEF Publish, RingInv, InCS
<1>10. CASE UnlockDone(p)
  BY <1>10, <1>1 DEF UnlockDone, RingInv, InCS
<1> QED
  BY <1>3, <1>4, <1>5, <1>6, <1>7, <1>8, <1>9, <1>10
     DEF ProducerStep, Send, TrySend, Enqueue

(* The consumer moves the oldest element on when it lowers the count.       *)
LEMMA RingConsumer ==
    ASSUME ChannelInv, ConsumerStep
    PROVE  RingInv'
<1> USE ChannelAssumption DEF ChannelInv, TypeOK, ring, prod, cons, Oldest, RingInv
<1>1. CASE WaitData
  BY <1>1 DEF WaitData, Proceed, Answer
<1>2. CASE RecvCheckClosed \/ CheckTime \/ RecvSleep
  BY <1>2 DEF RecvCheckClosed, CheckTime, RecvSleep, Proceed, Answer
<1>3. CASE LoadHead \/ LoadSlot
  BY <1>3 DEF LoadHead, LoadSlot
<1>4. CASE BumpHead
  BY <1>4, SuccIsAhead DEF BumpHead
<1>5. CASE Take
  <2>1. count > 0 /\ head = Ahead(chead, 1) /\ chead \in Slots
    BY <1>5 DEF Take
  <2>2. /\ count - 1 \in Nat /\ count - 1 < Capacity
        /\ Ahead(head, count - 1) = Ahead(chead, count)
    BY <2>1, AheadAdds
  <2>3. count < Capacity => Ahead(head, count) = Ahead(chead, count + 1)
    BY <2>1, AheadAdds
  <2>4. count' = count - 1 /\ Oldest' = head /\ Oldest = chead
    BY <1>5 DEF Take, Answer
  <2> QED
    BY <1>5, <2>1, <2>2, <2>3, <2>4 DEF Take, Answer
<1>6. CASE ChannelLoop
  BY <1>6 DEF ChannelLoop, LoopHasData, LoopIsClosed, LoopBody
<1> QED
  BY <1>1, <1>2, <1>3, <1>4, <1>5, <1>6 DEF ConsumerStep, Recv, Dequeue

(* The two sides of the ring together. *)
LEMMA RingStep == ChannelInv /\ [Next]_vars => RingInv'
<1> SUFFICES ASSUME ChannelInv, [Next]_vars PROVE RingInv'
  OBVIOUS
<1> USE DEF ChannelInv, TypeOK, RingInv, Oldest, ring, prod, cons
<1>1. ASSUME NEW p \in Producers, NEW k \in SendKinds, NEW v \in Values, BeginSend(p, k, v)
      PROVE  RingInv'
  BY <1>1 DEF BeginSend, Goto
<1>2. ASSUME NEW k \in RecvKinds, NEW ms \in 0 .. MaxTimeout, BeginRecv(k, ms)
      PROVE  RingInv'
  BY <1>2 DEF BeginRecv
<1>3. CASE BeginLoop \/ Close
  BY <1>3 DEF BeginLoop, Close
<1>4. CASE UNCHANGED vars
  BY <1>4 DEF vars
<1> QED
  BY <1>1, <1>2, <1>3, <1>4, RingProducer, RingConsumer DEF Next

(* ChannelInv is inductive: the spin lock, the ring's free slots and the    *)
(* progress of every call agree in every reachable state of the channel.    *)
THEOREM Invariance == Spec => []ChannelInv
<1>1. ChannelInv /\ [Next]_vars => ChannelInv'
  BY TypeStep, LockStep, RingStep, CallStep DEF ChannelInv
<1> QED
  BY InitInv, <1>1, PTL DEF Spec

(* The count of the emitted code never leaves 0 .. Capacity and no index it *)
(* computes leaves the ring, whatever the producers and the consumer do.    *)
THEOREM TypeCorrect == Spec => []TypeOK
<1>1. ChannelInv => TypeOK
  BY DEF ChannelInv
<1> QED
  BY <1>1, Invariance, PTL

(* The producer inside writes Capacity places or less past the oldest       *)
(* element, and never on it.                                                *)
THEOREM SlotRaceFree == Spec => []NoSlotRace
<1>1. ChannelInv => NoSlotRace
  <2> SUFFICES ASSUME ChannelInv, NEW p \in Producers, pc[p] = "store", cpc = "load_slot"
               PROVE  reg[p] # chead
    BY DEF NoSlotRace
  <2>1. /\ count \in Nat /\ count < Capacity /\ count # 0 /\ chead \in Slots
        /\ reg[p] = Ahead(chead, count)
    BY DEF ChannelInv, TypeOK, RingInv, Oldest
  <2> QED
    BY <2>1, AheadAdds
<1> QED
  BY <1>1, Invariance, PTL

(* Only the consumer lowers the count, and in a channel loop it waits for   *)
(* data only right after it saw some.                                       *)
THEOREM LoopNeverBlocks == Spec => []LoopRecvFindsData
<1>1. Init => LoopRecvFindsData
  BY DEF Init, LoopRecvFindsData
<1>2. ChannelInv /\ LoopRecvFindsData /\ [Next]_vars => LoopRecvFindsData'
  <2> SUFFICES ASSUME ChannelInv, LoopRecvFindsData, [Next]_vars
               PROVE  LoopRecvFindsData'
    OBVIOUS
  <2> USE DEF ChannelInv, TypeOK, LoopRecvFindsData, ring, prod, cons
  <2>1. CASE \E p \in Producers :
               \/ \E k \in SendKinds, v \in Values : BeginSend(p, k, v)
               \/ ProducerStep(p)
    <3>1. count' \in {count, count + 1} /\ UNCHANGED cons
      BY <2>1 DEF BeginSend, ProducerStep, TakeLock, Send, TrySend, Enqueue, UnlockDone,
                  CheckClosed, SendCheckSpace, UnlockSleep, Sleep, TryCheckSpace, LoadTail,
                  StoreSlot, BumpTail, Publish
    <3> QED
      BY <3>1
  <2>2. CASE \E k \in RecvKinds, ms \in 0 .. MaxTimeout : BeginRecv(k, ms)
    BY <2>2 DEF BeginRecv, CallInv
  <2>3. CASE BeginLoop \/ Close \/ UNCHANGED vars
    BY <2>3 DEF BeginLoop, Close, vars
  <2>4. CASE ConsumerStep
    BY <2>4 DEF CallInv, ConsumerStep, Recv, Dequeue, WaitData, RecvCheckClosed, CheckTime, RecvSleep,
                LoadHead, LoadSlot, BumpHead, Take, Answer, Proceed, ChannelLoop, LoopHasData,
                LoopIsClosed, LoopBody
  <2> QED
    BY <2>1, <2>2, <2>3, <2>4 DEF Next
<1> QED
  BY <1>1, <1>2, Invariance, PTL DEF Spec

-----------------------------------------------------------------------------
(* The ring implements the queue.  First the queue as a sequence.           *)
LEMMA RingIsSeq ==
    ASSUME NEW n \in 0 .. Capacity, NEW d \in [Slots -> Values \cup {Null}], NEW i \in Slots
    PROVE  LET q == [k \in 1 .. n |-> d[Ahead(i, k - 1)]]
           IN  /\ q \in Seq(Values \cup {Null}) /\ Len(q) = n
               /\ \A k \in 1 .. n : q[k] = d[Ahead(i, k - 1)]
<1>1. \A k \in 1 .. n : Ahead(i, k - 1) \in Slots
  BY AheadAdds, ChannelAssumption
<1> DEFINE q == [k \in 1 .. n |-> d[Ahead(i, k - 1)]]
<1>2. n \in Nat /\ q \in [1 .. n -> Values \cup {Null}]
  BY <1>1, ChannelAssumption
<1> QED
  BY <1>2

(* The elements in the ring, oldest first. *)
LEMMA QueueIsSeq ==
    TypeOK => /\ Queue \in Seq(Values \cup {Null}) /\ Len(Queue) = count
              /\ \A k \in 1 .. count : Queue[k] = data[Ahead(Oldest, k - 1)]
  BY RingIsSeq DEF TypeOK, Queue, Oldest

(* Where nothing the queue is read from has changed, it has not changed.    *)
LEMMA QueueFrame ==
    ASSUME UNCHANGED <<count, data>>, Oldest' = Oldest
    PROVE  Queue' = Queue
  BY DEF Queue, Ahead

(* A new channel is an empty queue. *)
LEMMA RefinesInit == Init => Fifo!Init
  BY ChannelAssumption DEF Init, Fifo!Init, Queue

(* A producer's step is a step of the queue or leaves it alone: only the    *)
(* increment of the count and the refusals show.                            *)
LEMMA RefinesProducer ==
    ASSUME ChannelInv, NEW p \in Producers, ProducerStep(p)
    PROVE  \/ Fifo!Accept(p) \/ Fifo!Refuse(p) \/ Fifo!Return(p)
           \/ UNCHANGED Fifo!vars
<1> DEFINE Req(q) == IF pc[q] = "idle" THEN "idle" ELSE res[q]
<1> USE ChannelAssumption DEF Goto, ring, prod, cons
<1>1. TypeOK /\ TypeOK'
  BY TypeStep DEF ChannelInv, Next
<1>2. Len(Queue) = count /\ count \in 0 .. Capacity
  BY <1>1, QueueIsSeq DEF TypeOK
<1>3. Oldest' = Oldest
  BY DEF Oldest, ProducerStep, TakeLock, Send, TrySend, Enqueue, UnlockDone, CheckClosed,
         SendCheckSpace, UnlockSleep, Sleep, TryCheckSpace, LoadTail, StoreSlot, BumpTail, Publish
<1>4. ASSUME UNCHANGED <<count, data, closed, kind, val, late, res, cons>>, pc[p] # "idle",
             NEW l, Goto(p, l), l # "idle"
      PROVE  UNCHANGED Fifo!vars
  <2>1. \A q \in Producers : Req(q)' = Req(q)
    BY <1>4, <1>1 DEF TypeOK
  <2> QED
    BY <1>4, <1>3, <2>1, QueueFrame DEF Fifo!vars
<1>5. CASE TakeLock(p) \/ UnlockSleep(p) \/ Sleep(p) \/ SendCheckSpace(p) \/ LoadTail(p) \/ BumpTail(p)
  BY <1>5, <1>4 DEF TakeLock, UnlockSleep, Sleep, SendCheckSpace, LoadTail, BumpTail
<1>6. ASSUME UNCHANGED <<ring, kind, val, late, cons>>, pc[p] \notin {"idle", "unlock"},
             Goto(p, "unlock"), res' = [res EXCEPT ![p] = "refused"],
             closed \/ (kind[p] = "try" /\ count = Capacity)
      PROVE  Fifo!Refuse(p)
  <2>1. Queue' = Queue
    BY <1>6, <1>3, QueueFrame
  <2>2. Req(p) = "pending"
    BY <1>6 DEF ChannelInv, CallInv
  <2>3. [q \in Producers |-> Req(q)'] = [[q \in Producers |-> Req(q)] EXCEPT ![p] = "refused"]
    BY <1>6, <1>1 DEF TypeOK
  <2> QED
    BY <1>6, <1>2, <2>1, <2>2, <2>3 DEF Fifo!Refuse
<1>7. ASSUME NEW here \in {"chk_closed", "try_closed"}, NEW next \in {"chk_space", "load_tail"},
             CheckClosed(p, here, next)
      PROVE  Fifo!Refuse(p) \/ UNCHANGED Fifo!vars
  <2>1. CASE closed
    BY <1>7, <1>6, <2>1 DEF CheckClosed
  <2>2. CASE ~closed
    BY <1>7, <1>4, <2>2 DEF CheckClosed
  <2> QED
    BY <2>1, <2>2
<1>8. CASE TryCheckSpace(p)
  <2>1. kind[p] = "try"
    BY <1>8 DEF TryCheckSpace, ChannelInv, CallInv
  <2> QED
    BY <1>8, <1>2, <1>4, <1>6, <2>1 DEF TryCheckSpace
<1>9. CASE StoreSlot(p)
  <2>1. /\ reg[p] = Ahead(Oldest, count) /\ count < Capacity /\ Oldest \in Slots
        /\ count \in Nat
    BY <1>9 DEF StoreSlot, ChannelInv, RingInv, TypeOK, Oldest
  <2>2. \A k \in 1 .. count : Ahead(Oldest, k - 1) # reg[p] /\ Ahead(Oldest, k - 1) \in Slots
    BY <2>1 DEF Ahead, Slots
  <2>3. \A k \in 1 .. count : data'[Ahead(Oldest, k - 1)] = data[Ahead(Oldest, k - 1)]
    BY <1>9, <1>1, <2>2 DEF StoreSlot, TypeOK
  <2>4. Queue' = Queue
    BY <1>9, <1>3, <2>3 DEF StoreSlot, Queue, Ahead
  <2>5. \A q \in Producers : Req(q)' = Req(q)
    BY <1>9, <1>1 DEF StoreSlot, TypeOK
  <2> QED
    BY <1>9, <2>4, <2>5 DEF StoreSlot, Fifo!vars
<1>10. CASE Publish(p)
  <2>1. data[Ahead(Oldest, count)] = val[p] /\ count < Capacity /\ ~late[p]
    BY <1>10 DEF Publish, ChannelInv, RingInv, CallInv
  <2>2. Queue' = Append(Queue, val[p])
    <3>1. val[p] \in Values \cup {Null}
      BY <1>1 DEF TypeOK
    <3>2. /\ Queue' \in Seq(Values \cup {Null}) /\ Len(Queue') = count + 1
          /\ \A k \in 1 .. count + 1 : Queue'[k] = data[Ahead(Oldest, k - 1)]
      <4>1. Queue' \in Seq(Values \cup {Null}) /\ Len(Queue') = count'
            /\ \A k \in 1 .. count' : Queue'[k] = data'[Ahead(Oldest', k - 1)]
        <5>1. /\ count' \in 0 .. Capacity /\ data' \in [Slots -> Values \cup {Null}]
              /\ Oldest' \in Slots
          BY <1>1 DEF TypeOK, Oldest
        <5> QED
          BY <5>1, RingIsSeq DEF Queue
      <4> QED
        BY <4>1, <1>10, <1>3 DEF Publish
    <3>3. /\ Append(Queue, val[p]) \in Seq(Values \cup {Null})
          /\ Len(Append(Queue, val[p])) = count + 1
          /\ \A k \in 1 .. count : Append(Queue, val[p])[k] = Queue[k]
          /\ Append(Queue, val[p])[count + 1] = val[p]
      <4>1. Queue \in Seq(Values \cup {Null}) /\ Len(Queue) = count /\ count \in Nat
        BY <1>1, <1>2, QueueIsSeq
      <4> HIDE DEF Queue
      <4> QED
        BY <3>1, <4>1, AppendProperties
    <3>4. \A k \in 1 .. count + 1 : Queue'[k] = Append(Queue, val[p])[k]
      BY <1>1, <1>2, <2>1, <3>2, <3>3, QueueIsSeq
    <3> QED
      BY <3>2, <3>3, <3>4, SeqEqual
  <2>3. Req(p) = "pending"
    BY <1>10 DEF Publish, ChannelInv, CallInv
  <2>4. [q \in Producers |-> Req(q)'] = [[q \in Producers |-> Req(q)] EXCEPT ![p] = "accepted"]
    BY <1>10, <1>1 DEF Publish, TypeOK
  <2> QED
    BY <1>10, <1>2, <2>1, <2>2, <2>3, <2>4 DEF Publish, Fifo!Accept
<1>11. CASE UnlockDone(p)
  <2>1. Queue' = Queue
    BY <1>11, <1>3, QueueFrame DEF UnlockDone
  <2>2. Req(p) \in {"accepted", "refused"}
    BY <1>11, <1>1 DEF UnlockDone, ChannelInv, CallInv, TypeOK
  <2>3. [q \in Producers |-> Req(q)'] = [[q \in Producers |-> Req(q)] EXCEPT ![p] = "idle"]
    BY <1>11, <1>1 DEF UnlockDone, TypeOK
  <2> QED
    BY <1>11, <2>1, <2>2, <2>3 DEF UnlockDone, Fifo!Return
<1> QED
  BY <1>5, <1>7, <1>8, <1>9, <1>10, <1>11 DEF ProducerStep, Send, TrySend, Enqueue

(* A consumer's step likewise: only its reads of count and closed and the   *)
(* decrement of the count show.                                             *)
LEMMA RefinesConsumer ==
    ASSUME ChannelInv, ConsumerStep
    PROVE  \/ \E k \in Fifo!RecvKinds : Fifo!Receive(k)
           \/ Fifo!Deliver \/ Fifo!FindEmpty \/ Fifo!WaitAgain \/ Fifo!GiveUp
           \/ UNCHANGED Fifo!vars
<1> USE ChannelAssumption DEF ring, prod, cons
<1>1. TypeOK /\ TypeOK'
  BY TypeStep DEF ChannelInv, Next
<1>2. /\ Queue \in Seq(Values \cup {Null}) /\ Len(Queue) = count /\ count \in Nat
      /\ Queue = <<>> <=> count = 0
      /\ Oldest \in Slots
  <2>1. Queue \in Seq(Values \cup {Null}) /\ Len(Queue) = count /\ count \in Nat
    BY <1>1, QueueIsSeq DEF TypeOK
  <2> HIDE DEF Queue
  <2> QED
    BY <1>1, <2>1, EmptySeq DEF TypeOK, Oldest
<1>3. ASSUME UNCHANGED <<ring, prod>>, cpc # "take", cpc' # "take"
      PROVE  Queue' = Queue /\ UNCHANGED prod
  BY <1>3, QueueFrame DEF Oldest
<1>4. CASE WaitData
  <2>1. CASE count > 0
    BY <1>4, <1>3, <2>1 DEF WaitData, Proceed, Fifo!vars
  <2>2. CASE count = 0 /\ ckind # "try"
    BY <1>4, <1>3, <1>2, <2>2 DEF WaitData, Proceed, Fifo!FindEmpty
  <2>3. CASE count = 0 /\ ckind = "try"
    BY <1>4, <1>3, <1>2, <2>3 DEF WaitData, Answer, Fifo!GiveUp
  <2> QED
    BY <1>4, <2>1, <2>2, <2>3 DEF WaitData
<1>5. CASE RecvCheckClosed
  <2>1. CASE closed
    BY <1>5, <1>3, <2>1 DEF RecvCheckClosed, Answer, Fifo!GiveUp
  <2>2. CASE ~closed /\ ckind = "timed"
    BY <1>5, <1>3, <2>2 DEF RecvCheckClosed, Proceed, Fifo!vars
  <2>3. CASE ~closed /\ ckind # "timed"
    BY <1>5, <1>3, <2>3 DEF RecvCheckClosed, Proceed, Fifo!WaitAgain
  <2> QED
    BY <2>1, <2>2, <2>3
<1>6. CASE CheckTime
  <2>1. CASE left = 0
    BY <1>6, <1>3, <2>1 DEF CheckTime, Answer, ChannelInv, CallInv, Fifo!GiveUp
  <2>2. CASE left # 0
    BY <1>6, <1>3, <2>2 DEF CheckTime, Proceed, Fifo!WaitAgain
  <2> QED
    BY <2>1, <2>2
<1>7. CASE RecvSleep \/ LoadHead \/ LoadSlot
  BY <1>7, <1>3 DEF RecvSleep, LoadHead, LoadSlot, Fifo!vars
<1>8. CASE BumpHead
  <2>1. Queue' = Queue
    BY <1>8, QueueFrame DEF BumpHead, Oldest, ChannelInv, RingInv
  <2> QED
    BY <1>8, <2>1 DEF BumpHead, Fifo!vars
<1>9. CASE Take
  <2>1. /\ count > 0 /\ cval = data[Oldest] /\ Oldest = chead /\ Oldest' = head
        /\ head = Ahead(chead, 1) /\ count' = count - 1 /\ data' = data /\ chead \in Slots
        /\ count =< Capacity
    BY <1>9, <1>1 DEF Take, Answer, Oldest, ChannelInv, RingInv, TypeOK
  <2>2. Head(Queue) = cval
    <3>1. Queue[1] = data[Ahead(Oldest, 0)] /\ Ahead(Oldest, 0) = Oldest
      BY <1>1, <1>2, <2>1, QueueIsSeq DEF Ahead, Slots
    <3> QED
      BY <1>2, <2>1, <3>1
  <2>3. Queue' = Tail(Queue)
    <3>1. /\ Queue' \in Seq(Values \cup {Null}) /\ Len(Queue') = count - 1
          /\ \A k \in 1 .. count - 1 : Queue'[k] = data[Ahead(head, k - 1)]
      <4>1. /\ count' \in 0 .. Capacity /\ data' \in [Slots -> Values \cup {Null}]
            /\ Oldest' \in Slots
        BY <1>1 DEF TypeOK, Oldest
      <4> QED
        BY ZenonT(60), <4>1, <2>1, RingIsSeq DEF Queue
    <3>2. /\ Tail(Queue) \in Seq(Values \cup {Null}) /\ Len(Tail(Queue)) = count - 1
          /\ \A k \in 1 .. count - 1 : Tail(Queue)[k] = Queue[k + 1]
      <4> HIDE DEF Queue
      <4> QED
        BY <1>2, <2>1, HeadTailProperties
    <3>3. \A k \in 1 .. count - 1 : Queue'[k] = Tail(Queue)[k]
      <4> SUFFICES ASSUME NEW k \in 1 .. count - 1
                   PROVE  Queue'[k] = Tail(Queue)[k]
        OBVIOUS
      <4>1. Ahead(head, k - 1) = Ahead(chead, k)
        BY <1>2, <2>1, AheadAdds
      <4>2. Queue[k + 1] = data[Ahead(chead, k)]
        BY <1>1, <1>2, <2>1, QueueIsSeq
      <4> QED
        BY <3>1, <3>2, <4>1, <4>2
    <3> QED
      BY <3>1, <3>2, <3>3, SeqEqual
  <2> QED
    BY <1>9, <1>2, <2>1, <2>2, <2>3 DEF Take, Answer, Fifo!Deliver
<1>10. CASE ChannelLoop
  <2>1. CASE LoopHasData /\ count > 0
    <3>1. Fifo!Receive("recv")
      BY <1>3, <2>1 DEF LoopHasData, Fifo!Receive
    <3> QED
      BY <3>1 DEF Fifo!RecvKinds
  <2>2. CASE LoopHasData /\ ~(count > 0)
    BY <1>3, <2>2 DEF LoopHasData, Fifo!vars
  <2>3. CASE LoopIsClosed \/ LoopBody
    BY <1>3, <2>3 DEF LoopIsClosed, LoopBody, Fifo!vars
  <2> QED
    BY <1>10, <2>1, <2>2, <2>3 DEF ChannelLoop
<1> QED
  BY <1>4, <1>5, <1>6, <1>7, <1>8, <1>9, <1>10 DEF ConsumerStep, Recv, Dequeue

(* Every behaviour of the emitted ring is one of the bounded closable FIFO  *)
(* queue: no value is lost, duplicated or reordered once it was accepted.   *)
THEOREM Refinement == Spec => RefinesFifo
<1>1. ChannelInv /\ [Next]_vars => [Fifo!Next]_Fifo!vars
  <2> SUFFICES ASSUME ChannelInv, [Next]_vars
               PROVE  Fifo!Next \/ UNCHANGED Fifo!vars
    OBVIOUS
  <2> USE DEF ring, prod, cons
  <2>1. ASSUME NEW p \in Producers, NEW k \in SendKinds, NEW v \in Values, BeginSend(p, k, v)
        PROVE  Fifo!Next
    <3>1. Queue' = Queue
      BY <2>1, QueueFrame DEF BeginSend, Oldest
    <3>2. res[p] = "pending"
      BY <2>1 DEF BeginSend, ChannelInv, CallInv
    <3>3. [q \in Producers |-> IF pc[q] = "idle" THEN "idle" ELSE res[q]]'
             = [[q \in Producers |-> IF pc[q] = "idle" THEN "idle" ELSE res[q]]
                   EXCEPT ![p] = "pending"]
      BY <2>1, <3>2 DEF BeginSend, Goto, ChannelInv, TypeOK
    <3>4. Fifo!Call(p, k, v)
      BY <2>1, <3>1, <3>3 DEF BeginSend, Fifo!Call
    <3> QED
      BY <3>4 DEF Fifo!Next, Fifo!SendKinds, SendKinds
  <2>2. ASSUME NEW p \in Producers, ProducerStep(p)
        PROVE  Fifo!Next \/ UNCHANGED Fifo!vars
    BY <2>2, RefinesProducer DEF Fifo!Next
  <2>3. ASSUME NEW k \in RecvKinds, NEW ms \in 0 .. MaxTimeout, BeginRecv(k, ms)
        PROVE  Fifo!Next
    <3>1. Queue' = Queue
      BY <2>3, QueueFrame DEF BeginRecv, Oldest
    <3>2. Fifo!Receive(k)
      BY <2>3, <3>1 DEF BeginRecv, Fifo!Receive
    <3> QED
      BY <3>2 DEF Fifo!Next, Fifo!RecvKinds, RecvKinds
  <2>4. CASE ConsumerStep
    BY <2>4, RefinesConsumer DEF Fifo!Next
  <2>5. CASE BeginLoop
    <3>1. Queue' = Queue
      BY <2>5, QueueFrame DEF BeginLoop, Oldest
    <3> QED
      BY <2>5, <3>1 DEF BeginLoop, Fifo!vars
  <2>6. CASE Close
    <3>1. Queue' = Queue
      BY <2>6, QueueFrame DEF Close, Oldest
    <3>2. Fifo!Close
      BY <2>6, <3>1 DEF Close, Fifo!Close
    <3> QED
      BY <3>2 DEF Fifo!Next
  <2>7. CASE UNCHANGED vars
    <3>1. Queue' = Queue
      BY <2>7, QueueFrame DEF vars, Oldest
    <3> QED
      BY <2>7, <3>1 DEF vars, Fifo!vars
  <2> QED
    BY <2>1, <2>2, <2>3, <2>4, <2>5, <2>6, <2>7 DEF Next
<1> QED
  BY RefinesInit, <1>1, Invariance, PTL DEF Spec, RefinesFifo, Fifo!Spec
=============================================================================
