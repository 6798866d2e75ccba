---------------------------- MODULE FifoChannel ----------------------------
(***************************************************************************)
(* What a channel promises its users: a bounded first-in first-out queue   *)
(* that can be closed.  One call is one atomic effect here; the ring       *)
(* buffer, the counters and the send lock of the emitted code are hidden.  *)
(*                                                                         *)
(*  - a send that was called on a closed channel never enqueues;           *)
(*  - a blocking send is refused only by a close, a non-blocking one also  *)
(*    by a full queue;                                                     *)
(*  - values leave in the order they entered, each exactly once;           *)
(*  - a receive returns nothing only if the queue was empty during the     *)
(*    call, and a blocking one only if the channel is closed besides.      *)
(***************************************************************************)
EXTENDS Naturals, Sequences

CONSTANTS Producers,  (* the threads that send                        *)
          Values,     (* what is sent                                 *)
          Null,       (* the answer of a receive that has no value    *)
          Capacity    (* the most values the queue holds              *)

VARIABLES queue,      (* the values sent and not yet received         *)
          closed,     (* the channel has been closed                  *)
          req,        (* per producer: how far its send has come      *)
          kind,       (* per producer: blocking or not                *)
          val,        (* per producer: the value it sends             *)
          late,       (* per producer: it called a closed channel     *)
          rcv,        (* how far the consumer's receive has come      *)
          ckind,      (* the consumer's kind of receive               *)
          got         (* the answer of the last receive               *)

vars == <<queue, closed, req, kind, val, late, rcv, ckind, got>>

SendKinds == {"send", "try"}
RecvKinds == {"recv", "try", "timed"}

Init == /\ queue = <<>>
        /\ closed = FALSE
        /\ req = [p \in Producers |-> "idle"]
        /\ kind = [p \in Producers |-> "send"]
        /\ val = [p \in Producers |-> Null]
        /\ late = [p \in Producers |-> FALSE]
        /\ rcv = "idle"
        /\ ckind = "recv"
        /\ got = Null

-----------------------------------------------------------------------------
Call(p, k, v) ==
    /\ req[p] = "idle"
    /\ req' = [req EXCEPT ![p] = "pending"]
    /\ kind' = [kind EXCEPT ![p] = k]
    /\ val' = [val EXCEPT ![p] = v]
    /\ late' = [late EXCEPT ![p] = closed]
    /\ UNCHANGED <<queue, closed, rcv, ckind, got>>

Accept(p) ==
    /\ req[p] = "pending"
    /\ ~late[p]
    /\ Len(queue) < Capacity
    /\ queue' = Append(queue, val[p])
    /\ req' = [req EXCEPT ![p] = "accepted"]
    /\ UNCHANGED <<closed, kind, val, late, rcv, ckind, got>>

Refuse(p) ==
    /\ req[p] = "pending"
    /\ \/ closed
       \/ kind[p] = "try" /\ Len(queue) = Capacity
    /\ req' = [req EXCEPT ![p] = "refused"]
    /\ UNCHANGED <<queue, closed, kind, val, late, rcv, ckind, got>>

Return(p) ==
    /\ req[p] \in {"accepted", "refused"}
    /\ req' = [req EXCEPT ![p] = "idle"]
    /\ kind' = [kind EXCEPT ![p] = "send"]
    /\ val' = [val EXCEPT ![p] = Null]
    /\ late' = [late EXCEPT ![p] = FALSE]
    /\ UNCHANGED <<queue, closed, rcv, ckind, got>>

Close ==
    /\ closed' = TRUE
    /\ UNCHANGED <<queue, req, kind, val, late, rcv, ckind, got>>

-----------------------------------------------------------------------------
Receive(k) ==
    /\ rcv = "idle"
    /\ rcv' = "waiting"
    /\ ckind' = k
    /\ UNCHANGED <<queue, closed, req, kind, val, late, got>>

Deliver ==
    /\ rcv = "waiting"
    /\ queue # <<>>
    /\ got' = Head(queue)
    /\ queue' = Tail(queue)
    /\ rcv' = "idle"
    /\ ckind' = "recv"
    /\ UNCHANGED <<closed, req, kind, val, late>>

FindEmpty ==
    /\ rcv = "waiting"
    /\ queue = <<>>
    /\ rcv' = "empty"
    /\ UNCHANGED <<queue, closed, req, kind, val, late, ckind, got>>

WaitAgain ==
    /\ rcv = "empty"
    /\ rcv' = "waiting"
    /\ UNCHANGED <<queue, closed, req, kind, val, late, ckind, got>>

GiveUp ==
    /\ \/ rcv = "waiting" /\ queue = <<>> /\ ckind = "try"
       \/ rcv = "empty" /\ (closed \/ ckind = "timed")
    /\ got' = Null
    /\ rcv' = "idle"
    /\ ckind' = "recv"
    /\ UNCHANGED <<queue, closed, req, kind, val, late>>

-----------------------------------------------------------------------------
Next ==
    \/ \E p \in Producers :
          \/ \E k \in SendKinds, v \in Values : Call(p, k, v)
          \/ Accept(p) \/ Refuse(p) \/ Return(p)
    \/ \E k \in RecvKinds : Receive(k)
    \/ Close \/ Deliver \/ FindEmpty \/ WaitAgain \/ GiveUp

Spec == Init /\ [][Next]_vars

=============================================================================
