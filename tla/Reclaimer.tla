----------------------------- MODULE Reclaimer ------------------------------
(***************************************************************************)
(* What a full collection promises its caller: while it is under way       *)
(* nothing changes, and its last step gives back exactly the tracked       *)
(* objects that no root leads to, none if there is no root to start from.  *)
(***************************************************************************)
EXTENDS ManagedHeap

VARIABLE collecting

vars == <<heap, refs, tracked, roots, pin, emitted, paused, collecting>>

Garbage == IF Roots = {} THEN {} ELSE tracked \ Reachable

Call == ~collecting /\ ~paused /\ collecting' /\ UNCHANGED heapVars

Reclaim ==
    /\ collecting /\ ~collecting'
    /\ heap' = heap \ Garbage
    /\ tracked' = tracked \ Garbage
    /\ refs' = [a \in Addr |-> IF a \in Garbage THEN {} ELSE refs[a]]
    /\ UNCHANGED rootVars

Next == \/ Call
        \/ Reclaim
        \/ ~collecting /\ Mutate /\ UNCHANGED collecting

Spec == HeapInit /\ ~collecting /\ [][Next]_vars
=============================================================================
