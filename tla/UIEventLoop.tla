---------------------------- MODULE UIEventLoop ----------------------------
(***************************************************************************)
(* The way from the threads that run the program to the thread that owns   *)
(* the widget tree: the double-buffered command queue                      *)
(* (src/features/graphics/core/src/command_queue.cpp) and the event loop   *)
(* that drains it once per frame (ui_event_loop.cpp).                      *)
(*                                                                         *)
(* A command is its place in the order of sending; its kind is an edit or  *)
(* a shutdown.  What a lock covers is one step, and so is every access to  *)
(* an atomic; the widget tree is the sequence of the commands executed.    *)
(* The read buffer is empty outside drain, so swapping the buffers empties *)
(* the write buffer.  A handler that itself pushes or stops does what a    *)
(* sender does between two steps of the loop.  A paint callback is set.    *)
(* The commands are bounded by MaxCmds.                                    *)
(*                                                                         *)
(* sent, executed, dropped, shown, requeued and asked are history          *)
(* variables: the commands in the order of sending, in that of execution,  *)
(* those a shutdown threw away; everything executed has been painted; a    *)
(* frame has ended with commands left over; stop was called since run was. *)
(***************************************************************************)
EXTENDS Naturals, Sequences, FiniteSets, Functions

CONSTANTS Senders,        (* the threads that push commands or call stop    *)
          MaxCmds,        (* the bound on the commands sent                 *)
          MaxPerFrame,    (* config_.maxCommandsPerFrame                    *)
          DirtyTracking   (* config_.dirtyTracking                          *)

ASSUME LoopAssumption == /\ MaxCmds \in Nat
                         /\ MaxPerFrame \in Nat \ {0}
                         /\ DirtyTracking \in BOOLEAN

VARIABLES write,      (* writeBuffer_                                        *)
          pending,    (* pendingCount_                                       *)
          running,    (* running_                                            *)
          dirty,      (* dirty_                                              *)
          upc,        (* where the UI thread is                              *)
          batch,      (* what is left of the batch drained                   *)
          left,       (* how many of it this frame may still execute         *)
          spc,        (* per sender: where it is in push, notify or stop     *)
          sent, executed, dropped, shown, requeued, asked

queue == <<write, pending>>
frame == <<batch, left, dirty>>
history == <<sent, executed, dropped, shown, requeued, asked>>
vars == <<queue, running, frame, upc, spc, history>>

Kinds == {"edit", "shutdown"}

Init == /\ write = <<>> /\ pending = 0
        /\ running = FALSE /\ dirty = TRUE
        /\ upc = "out" /\ batch = <<>> /\ left = 0
        /\ spc = [s \in Senders |-> "idle"]
        /\ sent = <<>> /\ executed = <<>> /\ dropped = <<>>
        /\ shown = TRUE /\ requeued = FALSE /\ asked = FALSE

-----------------------------------------------------------------------------
(* The senders.                                                            *)

Sender(s, from, to) == spc[s] = from /\ spc' = [spc EXCEPT ![s] = to]

(* Mutant: a new command goes to the front. *)
PushFront(s, k, urgent) ==
    /\ Len(sent) < MaxCmds
    /\ Sender(s, "idle", IF urgent THEN "add_notify" ELSE "add")
    /\ sent' = Append(sent, [kind |-> k, urgent |-> urgent])
    /\ write' = <<Len(sent')>> \o write
    /\ UNCHANGED <<pending, running, frame, upc, executed, dropped, shown, requeued, asked>>

(* push appends under the lock and counts outside it.  A sender that wants  *)
(* the command looked at now notifies afterwards.                           *)
Push(s, k, urgent) ==
    /\ Len(sent) < MaxCmds
    /\ Sender(s, "idle", IF urgent THEN "add_notify" ELSE "add")
    /\ sent' = Append(sent, [kind |-> k, urgent |-> urgent])
    /\ write' = Append(write, Len(sent'))
    /\ UNCHANGED <<pending, running, frame, upc, executed, dropped, shown, requeued, asked>>

AddCount(s) ==
    /\ Sender(s, "add", "idle") \/ Sender(s, "add_notify", "notify")
    /\ pending' = pending + 1
    /\ UNCHANGED <<write, running, frame, upc, history>>

(* notify_one: a loop that is blocked looks at its predicate again.         *)
Notify(s) ==
    /\ Sender(s, "notify", "idle")
    /\ upc' = IF upc = "blocked" THEN "wait" ELSE upc
    /\ UNCHANGED <<queue, running, frame, history>>

(* stop, from any thread: it ends with a notification. *)
Stop(s) ==
    /\ Sender(s, "idle", "notify")
    /\ running' = FALSE
    /\ asked' = (upc # "out")
    /\ UNCHANGED <<queue, frame, upc, sent, executed, dropped, shown, requeued>>

-----------------------------------------------------------------------------
(* The UI thread.                                                          *)

Step(from, to) == upc = from /\ upc' = to

BeginRun ==
    /\ Step("out", "start")
    /\ asked' = FALSE
    /\ UNCHANGED <<queue, running, frame, spc, sent, executed, dropped, shown, requeued>>

SetRunning ==
    /\ Step("start", "top")
    /\ running' = TRUE
    /\ UNCHANGED <<queue, frame, spc, history>>

CheckRunning ==
    /\ Step("top", IF running THEN "events" ELSE "out")
    /\ UNCHANGED <<queue, running, frame, spc, history>>

(* The callback for system events may ask for the end: the rest of the      *)
(* frame is left out.                                                       *)
SystemEvents ==
    /\ \/ Step("events", "drain") /\ UNCHANGED running
       \/ Step("events", "pace") /\ running' = FALSE
    /\ UNCHANGED <<queue, frame, spc, history>>

(* Mutant: the buffer handed over is not emptied. *)
SwapKeeps ==
    /\ Step("drain", "reset")
    /\ batch' = write
    /\ UNCHANGED <<queue, running, left, dirty, spc, history>>

Swap ==
    /\ Step("drain", "reset")
    /\ batch' = write
    /\ write' = <<>>
    /\ UNCHANGED <<pending, running, left, dirty, spc, history>>

(* What one frame executes of its batch. *)
Share == IF Len(batch) <= MaxPerFrame THEN Len(batch) ELSE MaxPerFrame

(* The count of an empty buffer, set after the lock is given back: drain    *)
(* ends with it, and hands the batch over.                                  *)
ResetCount ==
    /\ Step("reset", IF batch = <<>> THEN "paint" ELSE "process")
    /\ pending' = 0
    /\ left' = Share
    /\ UNCHANGED <<write, running, batch, dirty, spc, history>>

(* The next command this frame executes is of kind k. *)
Facing(k) == upc = "process" /\ left > 0 /\ sent[Head(batch)].kind = k

Execute ==
    /\ Facing("edit")
    /\ executed' = Append(executed, Head(batch))
    /\ batch' = Tail(batch)
    /\ left' = left - 1
    /\ shown' = FALSE
    /\ UNCHANGED <<queue, running, dirty, upc, spc, sent, dropped, requeued, asked>>

(* Mutant: the shutdown leaves processCommands as if nothing were executed. *)
ShutdownUnpainted ==
    /\ Facing("shutdown")
    /\ upc' = "paint"
    /\ running' = FALSE
    /\ executed' = Append(executed, Head(batch))
    /\ dropped' = dropped \o Tail(batch)
    /\ batch' = <<>> /\ left' = 0
    /\ UNCHANGED <<queue, dirty, spc, sent, shown, requeued, asked>>

(* A shutdown stops the loop and throws the rest of the batch away. *)
Shutdown ==
    /\ Facing("shutdown")
    /\ upc' = "paint"
    /\ running' = FALSE
    /\ executed' = Append(executed, Head(batch))
    /\ dropped' = dropped \o Tail(batch)
    /\ batch' = <<>> /\ left' = 0
    /\ dirty' = TRUE
    /\ UNCHANGED <<queue, spc, sent, shown, requeued, asked>>

(* Mutant: what a frame could not execute is forgotten. *)
RequeueNothing ==
    /\ upc = "process" /\ left = 0 /\ batch # <<>>
    /\ upc' = "requeue_add"
    /\ batch' = Tail(batch)
    /\ requeued' = TRUE
    /\ UNCHANGED <<queue, running, left, dirty, spc, sent, executed, dropped, shown, asked>>

(* What is left over when the frame has had its share is pushed again. *)
Requeue ==
    /\ upc = "process" /\ left = 0 /\ batch # <<>>
    /\ upc' = "requeue_add"
    /\ write' = Append(write, Head(batch))
    /\ batch' = Tail(batch)
    /\ requeued' = TRUE
    /\ UNCHANGED <<pending, running, left, dirty, spc, sent, executed, dropped, shown, asked>>

RequeueAdd ==
    /\ Step("requeue_add", "process")
    /\ pending' = pending + 1
    /\ UNCHANGED <<write, running, frame, spc, history>>

(* Mutant: a frame that executed its share does not say so to the paint. *)
EndBatchClean ==
    /\ left = 0 /\ batch = <<>>
    /\ Step("process", "paint")
    /\ UNCHANGED <<queue, running, frame, spc, history>>

EndBatch ==
    /\ left = 0 /\ batch = <<>>
    /\ Step("process", "paint")
    /\ dirty' = TRUE
    /\ UNCHANGED <<queue, running, batch, left, spc, history>>

Paint ==
    /\ Step("paint", "pace")
    /\ IF ~DirtyTracking \/ dirty
         THEN dirty' = FALSE /\ shown' = TRUE
         ELSE UNCHANGED <<dirty, shown>>
    /\ UNCHANGED <<queue, running, batch, left, spc, sent, executed, dropped, requeued, asked>>

(* The loop waits if there is time left in the frame. *)
Pace ==
    /\ Step("pace", "wait") \/ Step("pace", "top")
    /\ UNCHANGED <<queue, running, frame, spc, history>>

(* Mutant: the wait begins without a look at the buffer. *)
WaitBlind ==
    /\ Step("wait", "blocked")
    /\ UNCHANGED <<queue, running, frame, spc, history>>

(* wait_for looks at its predicate under the lock and blocks in one step.   *)
Wait ==
    /\ Step("wait", IF write # <<>> THEN "top" ELSE "blocked")
    /\ UNCHANGED <<queue, running, frame, spc, history>>

(* Mutant: the wait has no time limit. *)
TimeoutNever ==
    /\ Step("blocked", "top")
    /\ write # <<>>
    /\ UNCHANGED <<queue, running, frame, spc, history>>

Timeout ==
    /\ Step("blocked", "top")
    /\ UNCHANGED <<queue, running, frame, spc, history>>

-----------------------------------------------------------------------------
Tick == \/ SystemEvents \/ Swap \/ ResetCount \/ Execute \/ Shutdown
        \/ Requeue \/ RequeueAdd \/ EndBatch \/ Paint

LoopStep == SetRunning \/ CheckRunning \/ Tick \/ Pace \/ Wait

SenderStep(s) == AddCount(s) \/ Notify(s)

Next ==
    \/ \E s \in Senders :
          \/ \E k \in Kinds, urgent \in BOOLEAN : Push(s, k, urgent)
          \/ Stop(s)
          \/ SenderStep(s)
    \/ BeginRun
    \/ LoopStep
    \/ Timeout

Spec == Init /\ [][Next]_vars

(* The OS schedules the threads.  A wait ends at a fixed point in time,     *)
(* however often it is notified before: strong fairness.  Nobody has to     *)
(* send, to stop, or to call run.                                           *)
Fairness == /\ \A s \in Senders : WF_vars(SenderStep(s))
            /\ WF_vars(LoopStep)
            /\ SF_vars(Timeout)

FairSpec == Spec /\ Fairness

-----------------------------------------------------------------------------
(* Properties.                                                             *)

TypeOK ==
    /\ sent \in Seq([kind : Kinds, urgent : BOOLEAN]) /\ Len(sent) <= MaxCmds
    /\ \A q \in {write, batch, executed, dropped} : q \in Seq(1 .. Len(sent))
    /\ pending \in Nat
    /\ running \in BOOLEAN /\ dirty \in BOOLEAN
    /\ upc \in {"out", "start", "top", "events", "drain", "reset", "process",
                "requeue_add", "paint", "pace", "wait", "blocked"}
    /\ left \in 0 .. MaxPerFrame /\ left <= Len(batch)
    /\ spc \in [Senders -> {"idle", "add", "add_notify", "notify"}]
    /\ shown \in BOOLEAN /\ requeued \in BOOLEAN /\ asked \in BOOLEAN

(* Every command sent is in one place: waiting in the queue, in the batch   *)
(* of the frame, executed, or thrown away by a shutdown.  No two drains get *)
(* one command, and none falls between the buffers.                         *)
NothingLost ==
    /\ Len(executed) + Len(dropped) + Len(batch) + Len(write) = Len(sent)
    /\ Range(executed) \cup Range(dropped) \cup Range(batch) \cup Range(write)
         = 1 .. Len(sent)

(* Until a frame had to leave commands over, or a shutdown threw some away, *)
(* the commands are executed in the order in which they were sent.          *)
InOrder ==
    ~requeued /\ dropped = <<>> => executed \o batch \o write = [n \in 1 .. Len(sent) |-> n]

(* What the header of the commands promises: they are executed in the order *)
(* in which they were sent, always.                                         *)
FifoOrder == \A i, j \in 1 .. Len(executed) : i < j => executed[i] < executed[j]

(* The loop never sleeps on, nor begins another frame or returns, with an   *)
(* executed command that is not on the screen, the commands before a        *)
(* shutdown included.                                                       *)
ShownBeforeSleep == upc \in {"out", "top", "wait", "blocked"} => shown

(* A loop that is blocked while a command somebody notified it of lies in   *)
(* the queue has a notification coming: no wake-up falls between the look   *)
(* at the buffer and the sleep.                                             *)
NoLostWakeup ==
    upc = "blocked" /\ (\E n \in Range(write) : sent[n].urgent)
        => \E s \in Senders : spc[s] \in {"add_notify", "notify"}

(* Where the UI thread can be with commands in hand, with a share of the    *)
(* frame left, or with executed commands that are not painted: there the    *)
(* tree is marked dirty before the paint.                                   *)
LoopInv ==
    /\ batch # <<>> => upc \in {"reset", "process", "requeue_add"}
    /\ left > 0 => upc = "process"
    /\ ~shown => upc \in {"process", "requeue_add"} \/ (upc = "paint" /\ dirty)

(* The inductive invariant.                                                 *)
UIInv == TypeOK /\ LoopInv /\ NothingLost /\ InOrder /\ NoLostWakeup

(* Liveness, under FairSpec.                                                *)

(* Once the flag is down the loop returns, whoever lowered it: the time     *)
(* limit of the wait sees to it, for a stop puts nothing into the queue     *)
(* that the woken loop looks at.                                            *)
StopEnds == (~running /\ upc \notin {"out", "start"}) ~> (upc = "out")

(* A command in the queue of a running loop is executed, however often a    *)
(* full frame puts it back, or the loop ends.                               *)
EveryCommandRuns ==
    \A n \in 1 .. MaxCmds :
        (n \in Range(write) /\ upc # "out")
            ~> (n \in Range(executed) \cup Range(dropped) \/ upc = "out")

(* What the headers say of run and stop: run goes on until stop is called,  *)
(* and stop may be called from any thread.                                  *)
StopIsHeeded == asked ~> (upc = "out")

=============================================================================
