------------------------- MODULE UIEventLoopProofs -------------------------
(***************************************************************************)
(* Proofs about the command queue and the event loop, for every set of     *)
(* senders, every number of commands and every share of a frame.           *)
(***************************************************************************)
EXTENDS UIEventLoop, SequenceTheorems, TLAPS

(* What appending adds to the elements of a sequence. *)
LEMMA AppendAdds ==
    ASSUME NEW S, NEW q \in Seq(S), NEW e \in S
    PROVE  /\ Append(q, e) \in Seq(S)
           /\ Len(Append(q, e)) = Len(q) + 1
           /\ Range(Append(q, e)) = Range(q) \cup {e}
<1>1. <<e>> \in Seq(S) /\ Len(<<e>>) = 1 /\ <<e>>[1] = e
  OBVIOUS
<1>2. Range(<<e>>) = {e}
  <2>1. Range(<<e>>) = {<<e>>[i] : i \in 1 .. 1}
    BY <1>1, RangeEquality
  <2> QED
    BY <1>1, <2>1
<1>3. Append(q, e) = q \o <<e>>
  BY AppendIsConcat
<1>4. Range(q \o <<e>>) = Range(q) \cup Range(<<e>>)
  BY ZenonT(60), <1>1, RangeConcatenation
<1> QED
  BY <1>2, <1>3, <1>4, AppendProperties

(* A sequence that is not empty is its head and its tail. *)
LEMMA HeadAndTail ==
    ASSUME NEW S, NEW q \in Seq(S), q # <<>>
    PROVE  /\ Head(q) \in S /\ Tail(q) \in Seq(S)
           /\ q = <<Head(q)>> \o Tail(q)
           /\ Len(Tail(q)) = Len(q) - 1 /\ Len(q) \in Nat \ {0}
           /\ Range(q) = {Head(q)} \cup Range(Tail(q))
<1> DEFINE h == <<Head(q)>>
<1>1. /\ Head(q) \in S /\ Tail(q) \in Seq(S)
      /\ Len(Tail(q)) = Len(q) - 1
      /\ \A i \in 1 .. Len(Tail(q)) : Tail(q)[i] = q[i + 1]
  BY HeadTailProperties
<1>2. Len(q) \in Nat \ {0} /\ Head(q) = q[1]
  BY EmptySeq, LenProperties
<1>3. h \in Seq(S) /\ Len(h) = 1 /\ h[1] = q[1]
  BY <1>1, <1>2
<1>4. /\ h \o Tail(q) \in Seq(S)
      /\ Len(h \o Tail(q)) = Len(h) + Len(Tail(q))
      /\ \A i \in 1 .. Len(h) + Len(Tail(q)) :
             (h \o Tail(q))[i] = IF i <= Len(h) THEN h[i] ELSE Tail(q)[i - Len(h)]
  BY <1>1, <1>3, ConcatProperties
<1>5. q = h \o Tail(q)
  <2>1. Len(q) = Len(h \o Tail(q))
    BY <1>1, <1>2, <1>3, <1>4
  <2>2. ASSUME NEW i \in 1 .. Len(q) PROVE q[i] = (h \o Tail(q))[i]
    <3>1. CASE i = 1
      BY <1>2, <1>3, <1>4, <2>1, <3>1
    <3>2. CASE i > 1
      <4>1. i - 1 \in 1 .. Len(Tail(q)) /\ i - 1 + 1 = i
        BY <1>1, <1>2, <3>2
      <4> QED
        BY <1>1, <1>2, <1>3, <1>4, <2>1, <3>2, <4>1
    <3> QED
      BY <1>2, <3>1, <3>2
  <2> QED
    BY <1>4, <2>1, <2>2, SeqEqual
<1>6. Range(h \o Tail(q)) = Range(h) \cup Range(Tail(q))
  BY ZenonT(60), <1>1, <1>3, RangeConcatenation
<1>7. Range(h) = {Head(q)}
  <2>1. Range(h) = {h[i] : i \in 1 .. 1}
    BY <1>3, RangeEquality
  <2> QED
    BY <1>2, <1>3, <2>1
<1> QED
  BY <1>1, <1>2, <1>5, <1>6, <1>7

(* The types of the four places of a command, one by one. *)
LEMMA Places ==
    TypeOK <=>
    /\ sent \in Seq([kind : Kinds, urgent : BOOLEAN]) /\ Len(sent) <= MaxCmds
    /\ write \in Seq(1 .. Len(sent)) /\ batch \in Seq(1 .. Len(sent))
    /\ executed \in Seq(1 .. Len(sent)) /\ dropped \in Seq(1 .. Len(sent))
    /\ pending \in Nat
    /\ running \in BOOLEAN /\ dirty \in BOOLEAN
    /\ upc \in {"out", "start", "top", "events", "drain", "reset", "process",
                "requeue_add", "paint", "pace", "wait", "blocked"}
    /\ left \in 0 .. MaxPerFrame /\ left <= Len(batch)
    /\ spc \in [Senders -> {"idle", "add", "add_notify", "notify"}]
    /\ shown \in BOOLEAN /\ requeued \in BOOLEAN /\ asked \in BOOLEAN
  BY Zenon DEF TypeOK

-----------------------------------------------------------------------------
LEMMA InitInv == Init => UIInv
<1> SUFFICES ASSUME Init PROVE UIInv
  OBVIOUS
<1> USE LoopAssumption DEF Init
<1>1. \A S : <<>> \in Seq(S) /\ Len(<<>>) = 0 /\ Range(<<>>) = {}
  <2> TAKE S
  <2>1. <<>> \in Seq(S) /\ Len(<<>>) = 0
    BY EmptySeq
  <2>2. Range(<<>>) = {<<>>[i] : i \in 1 .. Len(<<>>)}
    BY <2>1, RangeEquality
  <2> QED
    BY <2>1, <2>2
<1>2. TypeOK
  <2>1. spc \in [Senders -> {"idle", "add", "add_notify", "notify"}]
    OBVIOUS
  <2>2. \A q \in {write, batch, executed, dropped} : q \in Seq(1 .. Len(sent))
    BY <1>1
  <2>3. sent \in Seq([kind : Kinds, urgent : BOOLEAN]) /\ Len(sent) <= MaxCmds
    BY <1>1
  <2>4. left \in 0 .. MaxPerFrame /\ left <= Len(batch)
    BY <1>1
  <2> QED
    BY <2>1, <2>2, <2>3, <2>4 DEF TypeOK
<1>3. LoopInv
  BY DEF LoopInv
<1>4. NothingLost
  BY <1>1 DEF NothingLost
<1>5. InOrder
  <2>1. executed \o batch \o write = <<>>
    <3>1. <<>> \in Seq(Nat)
      BY <1>1
    <3> QED
      BY <3>1, ConcatEmptySeq
  <2>2. [n \in 1 .. Len(sent) |-> n] = <<>>
    BY <1>1
  <2> QED
    BY <2>1, <2>2 DEF InOrder
<1>6. NoLostWakeup
  BY DEF NoLostWakeup
<1> QED
  BY <1>2, <1>3, <1>4, <1>5, <1>6 DEF UIInv

(* A step that leaves the commands where they are keeps them all. *)
LEMMA CommandsStay ==
    ASSUME NothingLost, InOrder,
           UNCHANGED <<sent, write, batch, executed, dropped>>,
           requeued => requeued'
    PROVE  NothingLost' /\ InOrder'
  BY DEF NothingLost, InOrder

(* A step of the UI thread that does not end in the blocked wait, or that   *)
(* changes neither the wait nor the queue nor a sender.                     *)
LEMMA WakeupStays ==
    ASSUME NoLostWakeup,
           (UNCHANGED <<spc, write, sent>> /\ upc' = upc) \/ upc' # "blocked"
    PROVE  NoLostWakeup'
  BY DEF NoLostWakeup

-----------------------------------------------------------------------------
(* A sender's push: the new command goes to the end of the queue, and a     *)
(* notification it is to have is on its way.                                *)
LEMMA PushInv ==
    ASSUME UIInv, NEW s \in Senders, NEW k \in Kinds, NEW urgent \in BOOLEAN,
           Push(s, k, urgent)
    PROVE  UIInv'
<1> DEFINE c == [kind |-> k, urgent |-> urgent]
<1> DEFINE C == [kind : Kinds, urgent : BOOLEAN]
<1> DEFINE n == Len(sent)
<1> DEFINE S == 1 .. n + 1
<1>1. TypeOK /\ LoopInv /\ NothingLost /\ InOrder /\ NoLostWakeup
  BY DEF UIInv
<1>2. /\ sent' = Append(sent, c) /\ write' = Append(write, Len(sent')) /\ n < MaxCmds
      /\ spc[s] = "idle"
      /\ spc' = [spc EXCEPT ![s] = IF urgent THEN "add_notify" ELSE "add"]
      /\ UNCHANGED <<pending, running, batch, left, dirty, upc>>
      /\ UNCHANGED <<executed, dropped, shown, requeued, asked>>
  BY DEF Push, Sender, frame
<1>3. /\ sent \in Seq(C) /\ n <= MaxCmds
      /\ write \in Seq(1 .. n) /\ batch \in Seq(1 .. n)
      /\ executed \in Seq(1 .. n) /\ dropped \in Seq(1 .. n)
      /\ spc \in [Senders -> {"idle", "add", "add_notify", "notify"}]
  BY <1>1, Places
<1>4. n \in Nat /\ MaxCmds \in Nat /\ c \in C
  BY <1>3, LenProperties, LoopAssumption
<1>5. /\ sent' \in Seq(C) /\ Len(sent') = n + 1
      /\ \A i \in 1 .. n : sent'[i] = sent[i]
      /\ sent'[n + 1] = c
  BY <1>2, <1>3, <1>4, AppendProperties
<1>6. write \in Seq(S) /\ batch \in Seq(S) /\ executed \in Seq(S) /\ dropped \in Seq(S)
  <2>1. 1 .. n \subseteq S
    BY <1>4
  <2> QED
    BY <1>3, <2>1, SeqMonotonic
<1>7. n + 1 \in S
  BY <1>4
<1>8. /\ write' \in Seq(S) /\ write' = write \o <<n + 1>>
      /\ Len(write') = Len(write) + 1
      /\ Range(write') = Range(write) \cup {n + 1}
  BY <1>2, <1>5, <1>6, <1>7, AppendAdds, AppendIsConcat
<1>9. TypeOK'
  <2>1. spc' \in [Senders -> {"idle", "add", "add_notify", "notify"}]
    BY <1>2, <1>3
  <2>2. write' \in Seq(1 .. Len(sent')) /\ Len(sent') <= MaxCmds
    BY <1>2, <1>4, <1>5, <1>8
  <2>3. /\ batch' \in Seq(1 .. Len(sent')) /\ executed' \in Seq(1 .. Len(sent'))
        /\ dropped' \in Seq(1 .. Len(sent'))
    BY <1>2, <1>5, <1>6
  <2>4. \A q \in {write', batch', executed', dropped'} : q \in Seq(1 .. Len(sent'))
    BY <2>2, <2>3
  <2> QED
    BY <1>1, <1>2, <1>5, <2>1, <2>2, <2>4 DEF TypeOK
<1>10. LoopInv'
  BY <1>1, <1>2 DEF LoopInv
<1>11. NothingLost'
  <2>1. /\ Len(executed) \in Nat /\ Len(dropped) \in Nat
        /\ Len(batch) \in Nat /\ Len(write) \in Nat
    BY <1>3, LenProperties
  <2>2. Len(executed') + Len(dropped') + Len(batch') + Len(write') = Len(sent')
    <3>1. Len(executed) + Len(dropped) + Len(batch) + Len(write) = n
      BY <1>1 DEF NothingLost
    <3>2. Len(executed') = Len(executed) /\ Len(dropped') = Len(dropped) /\ Len(batch') = Len(batch)
      BY <1>2
    <3>3. Len(write') = Len(write) + 1 /\ Len(sent') = n + 1
      BY <1>5, <1>8
    <3> QED
      BY SMTT(30), <2>1, <3>1, <3>2, <3>3
  <2>3. Range(executed') \cup Range(dropped') \cup Range(batch') \cup Range(write')
          = (1 .. n) \cup {n + 1}
    BY <1>1, <1>2, <1>8 DEF NothingLost
  <2>4. (1 .. n) \cup {n + 1} = 1 .. Len(sent')
    BY <1>4, <1>5
  <2> QED
    BY <2>2, <2>3, <2>4 DEF NothingLost
<1>12. InOrder'
  <2> SUFFICES ASSUME ~requeued, dropped = <<>>
               PROVE  executed \o batch \o write' = [i \in S |-> i]
    BY <1>2, <1>5 DEF InOrder
  <2> DEFINE q == executed \o batch \o write
  <2> DEFINE id == [i \in 1 .. n |-> i]
  <2> DEFINE id1 == [i \in S |-> i]
  <2>1. q = id
    BY <1>1 DEF InOrder
  <2>2. executed \o batch \in Seq(S) /\ <<n + 1>> \in Seq(S)
    BY <1>6, <1>7, ConcatProperties
  <2>3. executed \o batch \o write' = q \o <<n + 1>>
    BY <1>6, <1>8, <2>2, ConcatAssociative
  <2>4. id \in Seq(S) /\ Len(id) = n /\ id1 \in Seq(S) /\ Len(id1) = n + 1
    BY <1>4, IsASeq
  <2>5. Append(id, n + 1) = q \o <<n + 1>>
    BY <1>7, <2>1, <2>4, AppendIsConcat
  <2>6. /\ Append(id, n + 1) \in Seq(S) /\ Len(Append(id, n + 1)) = n + 1
        /\ \A i \in 1 .. n : Append(id, n + 1)[i] = id[i]
        /\ Append(id, n + 1)[n + 1] = n + 1
    BY <1>7, <2>4, AppendProperties
  <2>7. ASSUME NEW i \in 1 .. n + 1 PROVE Append(id, n + 1)[i] = id1[i]
    BY <1>4, <2>6
  <2>8. Append(id, n + 1) = id1
    BY <2>4, <2>6, <2>7, SeqEqual
  <2> QED
    BY <2>3, <2>5, <2>8
<1>13. NoLostWakeup'
  <2> SUFFICES ASSUME upc = "blocked", NEW m \in Range(write'), sent'[m].urgent
               PROVE  \E t \in Senders : spc'[t] \in {"add_notify", "notify"}
    BY <1>2 DEF NoLostWakeup
  <2>1. CASE m = n + 1
    BY <1>2, <1>3, <1>5, <2>1
  <2>2. CASE m \in Range(write)
    <3>1. m \in 1 .. n
      BY <1>3, <2>2, RangeOfSeq
    <3>2. PICK t \in Senders : spc[t] \in {"add_notify", "notify"}
      BY <1>1, <1>5, <2>2, <3>1 DEF NoLostWakeup
    <3> QED
      BY <1>2, <1>3, <3>2
  <2> QED
    BY <1>8, <2>1, <2>2
<1> QED
  BY <1>9, <1>10, <1>11, <1>12, <1>13 DEF UIInv

(* The steps of the senders that leave the queue alone. *)
LEMMA SenderInv ==
    ASSUME UIInv, NEW s \in Senders, AddCount(s) \/ Notify(s) \/ Stop(s)
    PROVE  UIInv'
<1>1. TypeOK /\ LoopInv /\ NothingLost /\ InOrder /\ NoLostWakeup
  BY DEF UIInv
<1>2. UNCHANGED <<sent, write, batch, left, dirty, executed, dropped, shown, requeued>>
  BY DEF AddCount, Notify, Stop, frame, queue, history
<1>3. NothingLost' /\ InOrder'
  BY <1>1, <1>2, CommandsStay
<1>4. CASE AddCount(s)
  <2>1. UNCHANGED <<running, upc, asked>> /\ pending' = pending + 1
    BY <1>4 DEF AddCount, history
  <2>2. \/ spc[s] = "add" /\ spc' = [spc EXCEPT ![s] = "idle"]
        \/ spc[s] = "add_notify" /\ spc' = [spc EXCEPT ![s] = "notify"]
    BY <1>4 DEF AddCount, Sender
  <2>3. TypeOK'
    <3>1. pending' \in Nat
      BY <1>1, <2>1, Places
    <3>2. spc' \in [Senders -> {"idle", "add", "add_notify", "notify"}]
      BY <1>1, <2>2, Places
    <3> QED
      BY <1>1, <1>2, <2>1, <3>1, <3>2 DEF TypeOK
  <2>4. LoopInv'
    BY <1>1, <1>2, <2>1 DEF LoopInv
  <2>5. NoLostWakeup'
    BY <1>1, <1>2, <2>1, <2>2 DEF NoLostWakeup, TypeOK
  <2> QED
    BY <1>3, <2>3, <2>4, <2>5 DEF UIInv
<1>5. CASE Notify(s)
  <2>1. /\ upc' = IF upc = "blocked" THEN "wait" ELSE upc
        /\ UNCHANGED <<running, pending, asked>>
        /\ spc' = [spc EXCEPT ![s] = "idle"]
    BY <1>5 DEF Notify, Sender, queue, history
  <2>2. TypeOK'
    BY <1>1, <1>2, <2>1 DEF TypeOK
  <2>3. LoopInv'
    BY <1>1, <1>2, <2>1 DEF LoopInv
  <2>4. NoLostWakeup'
    BY <2>1 DEF NoLostWakeup
  <2> QED
    BY <1>3, <2>2, <2>3, <2>4 DEF UIInv
<1>6. CASE Stop(s)
  <2>1. /\ UNCHANGED <<upc, pending>>
        /\ running' = FALSE /\ asked' = (upc # "out")
        /\ spc[s] = "idle" /\ spc' = [spc EXCEPT ![s] = "notify"]
    BY <1>6 DEF Stop, Sender, queue
  <2>2. TypeOK'
    BY <1>1, <1>2, <2>1 DEF TypeOK
  <2>3. LoopInv'
    BY <1>1, <1>2, <2>1 DEF LoopInv
  <2>4. NoLostWakeup'
    BY <1>1, <1>2, <2>1 DEF NoLostWakeup, TypeOK
  <2> QED
    BY <1>3, <2>2, <2>3, <2>4 DEF UIInv
<1> QED
  BY <1>4, <1>5, <1>6

(* The steps of the loop that move no command. *)
LEMMA ControlInv ==
    ASSUME UIInv,
           \/ BeginRun \/ SetRunning \/ CheckRunning \/ SystemEvents
           \/ RequeueAdd \/ Pace \/ Wait \/ Timeout
    PROVE  UIInv'
<1>1. TypeOK /\ LoopInv /\ NothingLost /\ InOrder /\ NoLostWakeup
  BY DEF UIInv
<1>2. /\ UNCHANGED <<sent, write, batch, left, dirty, executed, dropped, shown, requeued, spc>>
      /\ upc \in {"process", "requeue_add"} => upc = "requeue_add" /\ upc' = "process"
      /\ upc \notin {"reset", "paint"}
      /\ upc' \in {"out", "start", "top", "events", "drain", "process", "pace", "wait", "blocked"}
      /\ upc' = "blocked" => write = <<>>
      /\ pending' = pending \/ pending' = pending + 1
      /\ running' = running \/ running' = TRUE \/ running' = FALSE
      /\ asked' = asked \/ asked' = FALSE
  BY DEF BeginRun, SetRunning, CheckRunning, SystemEvents, RequeueAdd, Pace, Wait, Timeout,
         Step, frame, queue, history
<1>3. NothingLost' /\ InOrder'
  BY <1>1, <1>2, CommandsStay
<1>4. TypeOK'
  <2>1. pending' \in Nat
    BY <1>1, <1>2, Places
  <2>2. running' \in BOOLEAN /\ asked' \in BOOLEAN
    BY <1>1, <1>2, Places
  <2> QED
    BY <1>1, <1>2, <2>1, <2>2 DEF TypeOK
<1>5. LoopInv'
  BY <1>1, <1>2 DEF LoopInv
<1>6. NoLostWakeup'
  <2> SUFFICES ASSUME upc' = "blocked" PROVE Range(write') = {}
    BY DEF NoLostWakeup
  <2>1. write' = <<>>
    BY <1>2
  <2>2. Range(<<>>) = {<<>>[i] : i \in 1 .. Len(<<>>)}
    BY EmptySeq, RangeEquality
  <2> QED
    BY <2>1, <2>2, EmptySeq
<1> QED
  BY <1>3, <1>4, <1>5, <1>6 DEF UIInv

(* Counting the share of a frame, ending a batch, painting. *)
LEMMA FrameInv ==
    ASSUME UIInv, ResetCount \/ EndBatch \/ Paint
    PROVE  UIInv'
<1>1. TypeOK /\ LoopInv /\ NothingLost /\ InOrder /\ NoLostWakeup
  BY DEF UIInv
<1>2. /\ UNCHANGED <<sent, write, batch, executed, dropped, requeued, spc, running, asked>>
      /\ upc' \in {"process", "paint", "pace"}
  BY DEF ResetCount, EndBatch, Paint, Step, queue, history
<1>3. NothingLost' /\ InOrder'
  BY <1>1, <1>2, CommandsStay
<1>4. NoLostWakeup'
  BY <1>2 DEF NoLostWakeup
<1>5. Len(batch) \in Nat /\ (batch = <<>> <=> Len(batch) = 0)
  BY <1>1, Places, EmptySeq, LenProperties
<1>6. CASE ResetCount
  <2>1. /\ upc = "reset" /\ upc' = (IF batch = <<>> THEN "paint" ELSE "process")
        /\ pending' = 0 /\ UNCHANGED <<dirty, shown>>
        /\ left' = IF Len(batch) <= MaxPerFrame THEN Len(batch) ELSE MaxPerFrame
    BY <1>6 DEF ResetCount, Share, Step, history
  <2>2. left' \in 0 .. MaxPerFrame /\ left' <= Len(batch)
    BY <1>5, <2>1, LoopAssumption
  <2>3. TypeOK'
    BY <1>1, <1>2, <2>1, <2>2 DEF TypeOK
  <2>4. LoopInv'
    BY <1>1, <1>2, <1>5, <2>1, <2>2 DEF LoopInv
  <2> QED
    BY <1>3, <1>4, <2>3, <2>4 DEF UIInv
<1>7. CASE EndBatch
  <2>1. /\ left = 0 /\ batch = <<>> /\ upc' = "paint" /\ dirty' = TRUE
        /\ UNCHANGED <<left, pending, shown>>
    BY <1>7 DEF EndBatch, Step, queue, history
  <2>2. TypeOK'
    BY <1>1, <1>2, <2>1 DEF TypeOK
  <2>3. LoopInv'
    BY <1>1, <1>2, <2>1 DEF LoopInv
  <2> QED
    BY <1>3, <1>4, <2>2, <2>3 DEF UIInv
<1>8. CASE Paint
  <2>1. /\ upc = "paint" /\ upc' = "pace" /\ UNCHANGED <<left, pending>>
        /\ \/ dirty' = FALSE /\ shown' = TRUE
           \/ ~dirty /\ UNCHANGED <<dirty, shown>>
    BY <1>8 DEF Paint, Step, queue
  <2>2. TypeOK'
    BY <1>1, <1>2, <2>1 DEF TypeOK
  <2>3. LoopInv'
    BY <1>1, <1>2, <2>1 DEF LoopInv
  <2> QED
    BY <1>3, <1>4, <2>2, <2>3 DEF UIInv
<1> QED
  BY <1>6, <1>7, <1>8

-----------------------------------------------------------------------------
(* What is known of the commands in hand before a step that moves some.     *)
LEMMA BeforeMove ==
    ASSUME UIInv
    PROVE  /\ TypeOK /\ LoopInv /\ NothingLost /\ InOrder /\ NoLostWakeup
           /\ write \in Seq(1 .. Len(sent)) /\ batch \in Seq(1 .. Len(sent))
           /\ executed \in Seq(1 .. Len(sent)) /\ dropped \in Seq(1 .. Len(sent))
           /\ Len(executed) \in Nat /\ Len(dropped) \in Nat
           /\ Len(batch) \in Nat /\ Len(write) \in Nat
           /\ left \in 0 .. MaxPerFrame /\ left <= Len(batch) /\ left \in Nat
<1>1. TypeOK /\ LoopInv /\ NothingLost /\ InOrder /\ NoLostWakeup
  BY DEF UIInv
<1>2. /\ write \in Seq(1 .. Len(sent)) /\ batch \in Seq(1 .. Len(sent))
      /\ executed \in Seq(1 .. Len(sent)) /\ dropped \in Seq(1 .. Len(sent))
      /\ left \in 0 .. MaxPerFrame /\ left <= Len(batch)
  BY <1>1, Places
<1>3. left \in Nat
  BY <1>2, LoopAssumption
<1> QED
  BY <1>1, <1>2, <1>3, LenProperties

LEMMA NoCommands ==
    ASSUME NEW S
    PROVE  <<>> \in Seq(S) /\ Len(<<>>) = 0 /\ Range(<<>>) = {}
<1>1. <<>> \in Seq(S) /\ Len(<<>>) = 0
  BY EmptySeq
<1>2. Range(<<>>) = {<<>>[i] : i \in 1 .. Len(<<>>)}
  BY <1>1, RangeEquality
<1> QED
  BY <1>1, <1>2

(* Taking the first command of the batch and putting it after those         *)
(* executed leaves the two together as they were.                           *)
LEMMA HeadMoves ==
    ASSUME NEW S, NEW e \in Seq(S), NEW b \in Seq(S), b # <<>>
    PROVE  Append(e, Head(b)) \o Tail(b) = e \o b
<1>1. Head(b) \in S /\ Tail(b) \in Seq(S) /\ b = <<Head(b)>> \o Tail(b)
  BY HeadAndTail
<1>2. Append(e, Head(b)) = e \o <<Head(b)>>
  BY <1>1, AppendIsConcat
<1>3. <<Head(b)>> \in Seq(S)
  BY <1>1
<1> QED
  BY <1>1, <1>2, <1>3, ConcatAssociative

(* The swap: the batch was empty, and what waits becomes the batch. *)
LEMMA SwapInv ==
    ASSUME UIInv, Swap
    PROVE  UIInv'
<1> DEFINE S == 1 .. Len(sent)
<1>1. /\ upc = "drain" /\ upc' = "reset" /\ batch' = write /\ write' = <<>>
      /\ UNCHANGED <<pending, running, left, dirty, spc>>
      /\ UNCHANGED <<sent, executed, dropped, shown, requeued, asked>>
  BY DEF Swap, Step, history
<1>2. batch = <<>> /\ left = 0
  BY <1>1, BeforeMove DEF LoopInv
<1>3. <<>> \in Seq(S) /\ Len(<<>>) = 0 /\ Range(<<>>) = {}
  BY NoCommands
<1>4. TypeOK'
  <2>1. left' \in 0 .. MaxPerFrame /\ left' <= Len(batch')
    BY <1>1, <1>2, BeforeMove
  <2>2. \A q \in {write', batch', executed', dropped'} : q \in Seq(1 .. Len(sent'))
    BY <1>1, <1>3, BeforeMove
  <2> QED
    BY <1>1, <2>1, <2>2, BeforeMove DEF TypeOK
<1>5. LoopInv'
  BY <1>1, <1>2, BeforeMove DEF LoopInv
<1>6. NothingLost'
  <2>1. Len(executed') + Len(dropped') + Len(batch') + Len(write') = Len(sent')
    BY <1>1, <1>2, <1>3, BeforeMove DEF NothingLost
  <2>2. Range(executed') \cup Range(dropped') \cup Range(batch') \cup Range(write')
          = 1 .. Len(sent')
    BY <1>1, <1>2, <1>3, BeforeMove DEF NothingLost
  <2> QED
    BY <2>1, <2>2 DEF NothingLost
<1>7. InOrder'
  <2>1. executed \o <<>> = executed /\ executed \o write \in Seq(S)
    BY BeforeMove, ConcatEmptySeq, ConcatProperties
  <2>2. executed \o write \o <<>> = executed \o write
    BY <2>1, ConcatEmptySeq
  <2> QED
    BY <1>1, <1>2, <2>1, <2>2, BeforeMove DEF InOrder
<1>8. NoLostWakeup'
  BY <1>1 DEF NoLostWakeup
<1> QED
  BY <1>4, <1>5, <1>6, <1>7, <1>8 DEF UIInv

(* An edit: the first command of the batch is executed. *)
LEMMA ExecuteInv ==
    ASSUME UIInv, Execute
    PROVE  UIInv'
<1> DEFINE S == 1 .. Len(sent)
<1>1. /\ upc = "process" /\ left > 0
      /\ executed' = Append(executed, Head(batch)) /\ batch' = Tail(batch)
      /\ left' = left - 1 /\ shown' = FALSE
      /\ UNCHANGED <<write, pending, running, dirty, upc, spc>>
      /\ UNCHANGED <<sent, dropped, requeued, asked>>
  BY DEF Execute, Facing, queue
<1>2. batch # <<>>
  BY <1>1, BeforeMove, EmptySeq
<1>3. /\ Head(batch) \in S /\ batch' \in Seq(S)
      /\ Len(batch') = Len(batch) - 1
      /\ Range(batch) = {Head(batch)} \cup Range(batch')
  BY <1>1, <1>2, BeforeMove, HeadAndTail
<1>4. /\ executed' \in Seq(S) /\ Len(executed') = Len(executed) + 1
      /\ Range(executed') = Range(executed) \cup {Head(batch)}
  <2> DEFINE h == Head(batch)
  <2>1. executed \in Seq(S) /\ h \in S
    BY <1>3, BeforeMove
  <2>2. /\ Append(executed, h) \in Seq(S) /\ Len(Append(executed, h)) = Len(executed) + 1
        /\ Range(Append(executed, h)) = Range(executed) \cup {h}
    BY <2>1, AppendAdds
  <2> QED
    BY <1>1, <2>2 DEF h
<1>5. TypeOK'
  <2>1. left' \in 0 .. MaxPerFrame /\ left' <= Len(batch')
    BY <1>1, <1>3, BeforeMove, LoopAssumption
  <2>2. \A q \in {write', batch', executed', dropped'} : q \in Seq(1 .. Len(sent'))
    BY <1>1, <1>3, <1>4, BeforeMove
  <2> QED
    BY <1>1, <2>1, <2>2, BeforeMove DEF TypeOK
<1>6. LoopInv'
  BY <1>1 DEF LoopInv
<1>7. NothingLost'
  <2>1. Len(executed') + Len(dropped') + Len(batch') + Len(write') = Len(sent')
    <3>1. Len(executed) + Len(dropped) + Len(batch) + Len(write) = Len(sent)
      BY BeforeMove DEF NothingLost
    <3>2. Len(executed') = Len(executed) + 1 /\ Len(batch') = Len(batch) - 1
      BY <1>3, <1>4
    <3>3. Len(dropped') = Len(dropped) /\ Len(write') = Len(write) /\ Len(sent') = Len(sent)
      BY <1>1
    <3> QED
      BY <3>1, <3>2, <3>3, BeforeMove
  <2>2. Range(executed') \cup Range(dropped') \cup Range(batch') \cup Range(write')
          = 1 .. Len(sent')
    BY <1>1, <1>3, <1>4, BeforeMove DEF NothingLost
  <2> QED
    BY <2>1, <2>2 DEF NothingLost
<1>8. InOrder'
  <2>1. executed' \o batch' = executed \o batch
    BY <1>1, <1>2, BeforeMove, HeadMoves
  <2> QED
    BY <1>1, <2>1, BeforeMove DEF InOrder
<1>9. NoLostWakeup'
  BY <1>1 DEF NoLostWakeup
<1> QED
  BY <1>5, <1>6, <1>7, <1>8, <1>9 DEF UIInv

(* A shutdown: it counts as executed, the rest of the batch is thrown away. *)
LEMMA ShutdownInv ==
    ASSUME UIInv, Shutdown
    PROVE  UIInv'
<1> DEFINE S == 1 .. Len(sent)
<1> DEFINE h == Head(batch)
<1> DEFINE t == Tail(batch)
<1>1. /\ upc = "process" /\ left > 0 /\ upc' = "paint"
      /\ executed' = Append(executed, h) /\ dropped' = dropped \o t
      /\ batch' = <<>> /\ left' = 0 /\ running' = FALSE /\ dirty' = TRUE
      /\ UNCHANGED <<write, pending, spc>>
      /\ UNCHANGED <<sent, shown, requeued, asked>>
  BY DEF Shutdown, Facing, queue
<1>2. batch # <<>>
  BY <1>1, BeforeMove, EmptySeq
<1>3. /\ h \in S /\ t \in Seq(S)
      /\ Len(t) = Len(batch) - 1
      /\ Range(batch) = {h} \cup Range(t)
  BY <1>2, BeforeMove, HeadAndTail
<1>4. <<>> \in Seq(S) /\ Len(<<>>) = 0 /\ Range(<<>>) = {}
  BY NoCommands
<1> HIDE DEF h, t
<1>5. /\ executed' \in Seq(S) /\ Len(executed') = Len(executed) + 1
      /\ Range(executed') = Range(executed) \cup {h}
  <2>1. executed \in Seq(S)
    BY BeforeMove
  <2> QED
    BY SMTT(30), <1>1, <1>3, <2>1, AppendAdds
<1>6. /\ dropped' \in Seq(S) /\ Len(dropped') = Len(dropped) + Len(t)
      /\ Range(dropped') = Range(dropped) \cup Range(t)
  <2>1. dropped \in Seq(S)
    BY BeforeMove
  <2> QED
    BY ZenonT(60), <1>1, <1>3, <2>1, ConcatProperties, RangeConcatenation
<1>7. TypeOK'
  <2>1. left' \in 0 .. MaxPerFrame /\ left' <= Len(batch')
    BY <1>1, <1>4, LoopAssumption
  <2>2. \A q \in {write', batch', executed', dropped'} : q \in Seq(1 .. Len(sent'))
    BY <1>1, <1>4, <1>5, <1>6, BeforeMove
  <2> QED
    BY <1>1, <2>1, <2>2, BeforeMove DEF TypeOK
<1>8. LoopInv'
  BY <1>1 DEF LoopInv
<1>9. NothingLost'
  <2>1. Len(executed') + Len(dropped') + Len(batch') + Len(write') = Len(sent')
    <3>1. Len(executed) + Len(dropped) + Len(batch) + Len(write) = Len(sent)
      BY BeforeMove DEF NothingLost
    <3>2. /\ Len(executed') = Len(executed) + 1 /\ Len(dropped') = Len(dropped) + Len(t)
          /\ Len(t) = Len(batch) - 1 /\ Len(batch') = 0
      BY <1>1, <1>3, <1>4, <1>5, <1>6
    <3>3. Len(write') = Len(write) /\ Len(sent') = Len(sent)
      BY <1>1
    <3>4. /\ Len(executed) \in Nat /\ Len(dropped) \in Nat
          /\ Len(batch) \in Nat /\ Len(write) \in Nat
      BY BeforeMove
    <3> QED
      BY <3>1, <3>2, <3>3, <3>4
  <2>2. Range(executed') \cup Range(dropped') \cup Range(batch') \cup Range(write')
          = 1 .. Len(sent')
    <3>1. Range(executed) \cup Range(dropped) \cup Range(batch) \cup Range(write) = S
      BY BeforeMove DEF NothingLost
    <3>2. Range(write') = Range(write) /\ Range(batch') = {} /\ 1 .. Len(sent') = S
      BY <1>1, <1>4
    <3> QED
      BY <1>3, <1>5, <1>6, <3>1, <3>2
  <2> QED
    BY <2>1, <2>2 DEF NothingLost
<1>10. InOrder'
  <2> SUFFICES ASSUME ~requeued, dropped' = <<>>
               PROVE  executed' \o batch' \o write = [n \in S |-> n]
    BY <1>1 DEF InOrder
  <2>1. dropped = <<>> /\ t = <<>>
    <3>1. dropped \in Seq(S)
      BY BeforeMove
    <3>2. Len(dropped) = 0 /\ Len(t) = 0
      <4>1. Len(dropped \o t) = Len(dropped) + Len(t)
        BY <1>3, <3>1, ConcatProperties
      <4>2. Len(dropped) \in Nat /\ Len(t) \in Nat
        BY <1>3, <3>1, LenProperties
      <4> QED
        BY <1>1, <1>4, <4>1, <4>2
    <3> QED
      BY <1>3, <3>1, <3>2, EmptySeq
  <2>2. executed' \o batch' = executed \o batch
    <3>1. Append(executed, h) \o t = executed \o batch
      BY <1>2, BeforeMove, HeadMoves DEF h, t
    <3> QED
      BY <1>1, <2>1, <3>1
  <2> QED
    BY <2>1, <2>2, BeforeMove DEF InOrder
<1>11. NoLostWakeup'
  BY <1>1 DEF NoLostWakeup
<1> QED
  BY <1>7, <1>8, <1>9, <1>10, <1>11 DEF UIInv

(* What a full frame leaves over goes back to the queue. *)
LEMMA RequeueInv ==
    ASSUME UIInv, Requeue
    PROVE  UIInv'
<1> DEFINE S == 1 .. Len(sent)
<1> DEFINE h == Head(batch)
<1>1. /\ left = 0 /\ batch # <<>> /\ upc = "process" /\ upc' = "requeue_add"
      /\ write' = Append(write, h) /\ batch' = Tail(batch)
      /\ requeued' = TRUE
      /\ UNCHANGED <<pending, running, left, dirty, spc>>
      /\ UNCHANGED <<sent, executed, dropped, shown, asked>>
  BY DEF Requeue
<1>2. /\ h \in S /\ batch' \in Seq(S)
      /\ Len(batch') = Len(batch) - 1
      /\ Range(batch) = {h} \cup Range(batch')
      /\ Len(batch) \in Nat \ {0}
  BY <1>1, BeforeMove, HeadAndTail
<1>3. /\ write' \in Seq(S) /\ Len(write') = Len(write) + 1
      /\ Range(write') = Range(write) \cup {h}
  <2>1. write \in Seq(S)
    BY BeforeMove
  <2> QED
    BY <1>1, <1>2, <2>1, AppendAdds
<1> HIDE DEF h
<1>4. TypeOK'
  <2>1. left' \in 0 .. MaxPerFrame /\ left' <= Len(batch')
    BY <1>1, <1>2, BeforeMove
  <2>2. \A q \in {write', batch', executed', dropped'} : q \in Seq(1 .. Len(sent'))
    BY <1>1, <1>2, <1>3, BeforeMove
  <2> QED
    BY <1>1, <2>1, <2>2, BeforeMove DEF TypeOK
<1>5. LoopInv'
  BY <1>1, BeforeMove DEF LoopInv
<1>6. NothingLost'
  <2>1. Len(executed') + Len(dropped') + Len(batch') + Len(write') = Len(sent')
    <3>1. Len(executed) + Len(dropped) + Len(batch) + Len(write) = Len(sent)
      BY BeforeMove DEF NothingLost
    <3>2. Len(write') = Len(write) + 1 /\ Len(batch') = Len(batch) - 1
      BY <1>2, <1>3
    <3>3. /\ Len(dropped') = Len(dropped) /\ Len(executed') = Len(executed)
          /\ Len(sent') = Len(sent)
      BY <1>1
    <3> QED
      BY <3>1, <3>2, <3>3, BeforeMove
  <2>2. Range(executed') \cup Range(dropped') \cup Range(batch') \cup Range(write')
          = 1 .. Len(sent')
    BY <1>1, <1>2, <1>3, BeforeMove DEF NothingLost
  <2> QED
    BY <2>1, <2>2 DEF NothingLost
<1>7. InOrder'
  BY <1>1 DEF InOrder
<1>8. NoLostWakeup'
  BY <1>1 DEF NoLostWakeup
<1> QED
  BY <1>4, <1>5, <1>6, <1>7, <1>8 DEF UIInv

-----------------------------------------------------------------------------
(* The inductive invariant holds of every step. *)
LEMMA NextInv == UIInv /\ [Next]_vars => UIInv'
<1> SUFFICES ASSUME UIInv, [Next]_vars PROVE UIInv'
  OBVIOUS
<1>1. ASSUME NEW s \in Senders, NEW k \in Kinds, NEW urgent \in BOOLEAN, Push(s, k, urgent)
      PROVE  UIInv'
  BY <1>1, PushInv
<1>2. ASSUME NEW s \in Senders, Stop(s) \/ SenderStep(s) PROVE UIInv'
  BY <1>2, SenderInv DEF SenderStep
<1>3. CASE BeginRun \/ Timeout
  BY <1>3, ControlInv
<1>4. CASE LoopStep
  <2>1. CASE SetRunning \/ CheckRunning \/ Pace \/ Wait
    BY <2>1, ControlInv
  <2>2. CASE Tick
    BY <2>2, ControlInv, FrameInv, SwapInv, ExecuteInv, ShutdownInv, RequeueInv DEF Tick
  <2> QED
    BY <1>4, <2>1, <2>2 DEF LoopStep
<1>5. CASE UNCHANGED vars
  <2>1. /\ UNCHANGED <<write, pending, running, batch, left, dirty, upc, spc>>
        /\ UNCHANGED <<sent, executed, dropped, shown, requeued, asked>>
    BY <1>5 DEF vars, queue, frame, history
  <2> QED
    BY <2>1 DEF UIInv, TypeOK, LoopInv, NothingLost, InOrder, NoLostWakeup
<1> QED
  BY <1>1, <1>2, <1>3, <1>4, <1>5 DEF Next

(* The invariant is one of the specification: whatever the senders and the  *)
(* loop do, the commands are where it says.                                 *)
THEOREM Invariance == Spec => []UIInv
  BY InitInv, NextInv, PTL DEF Spec

(* Every variable keeps its range; a frame's share never exceeds its batch. *)
THEOREM TypeCorrect == Spec => []TypeOK
<1>1. UIInv => TypeOK
  BY DEF UIInv
<1> QED
  BY <1>1, Invariance, PTL

(* push, drain, processCommands and the re-queueing lose no command and     *)
(* execute none twice.                                                      *)
THEOREM NoCommandLost == Spec => []NothingLost
<1>1. UIInv => NothingLost
  BY DEF UIInv
<1> QED
  BY <1>1, Invariance, PTL

(* The swap of the buffers and the order of push keep the commands in the   *)
(* order of sending, as long as no frame overflows.                         *)
THEOREM OrderKept == Spec => []InOrder
<1>1. UIInv => InOrder
  BY DEF UIInv
<1> QED
  BY <1>1, Invariance, PTL

(* What was executed is painted before the loop sleeps or returns: every    *)
(* path from an execution to the wait goes through a dirty paint.           *)
THEOREM PaintedBeforeSleep == Spec => []ShownBeforeSleep
<1>1. UIInv => ShownBeforeSleep
  BY DEF UIInv, LoopInv, ShownBeforeSleep
<1> QED
  BY <1>1, Invariance, PTL

(* A loop asleep with an announced command has its notification to come:    *)
(* the look at the buffer and the sleep are one step under the lock.        *)
THEOREM WakeupsKept == Spec => []NoLostWakeup
<1>1. UIInv => NoLostWakeup
  BY DEF UIInv
<1> QED
  BY <1>1, Invariance, PTL

=============================================================================
