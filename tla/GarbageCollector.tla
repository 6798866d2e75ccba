-------------------------- MODULE GarbageCollector --------------------------
(***************************************************************************)
(* A full collection of src/shared/memory_gc/src/engine/                   *)
(* garbage_collector.cpp: mark from the roots with a worklist, then sweep. *)
(* The collector holds its lock throughout and runs on the thread that     *)
(* asked for it, so the program does nothing until it is over; the loop of *)
(* the mark phase is a step per entry of the worklist.                     *)
(*                                                                         *)
(* The worklist is a set: a second entry for an address is dropped when it *)
(* comes up, and the order does not matter.  Finding the words of an object *)
(* by its visitor or by reading its memory comes to the same: refs.        *)
(***************************************************************************)
EXTENDS ManagedHeap

VARIABLES phase,     (* where the collecting thread is  *)
          marked,    (* the objects whose bit is set    *)
          worklist

markVars == <<phase, marked, worklist>>
vars == <<heap, refs, tracked, roots, pin, emitted, paused, phase, marked, worklist>>

Init == HeapInit /\ phase = "idle" /\ marked = {} /\ worklist = {}

-----------------------------------------------------------------------------
(* Mutant: without any root nothing is marked.                             *)
StartMarkEmpty ==
    /\ phase = "idle"
    /\ ~paused /\ tracked # {}
    /\ phase' = "mark"
    /\ marked' = {}
    /\ worklist' = Roots
    /\ UNCHANGED heapVars

(* collect, up to the loop of markFromRootsLocked.  Without any root every *)
(* object counts as alive.                                                 *)
StartMark ==
    /\ phase = "idle"
    /\ ~paused /\ tracked # {}
    /\ phase' = "mark"
    /\ marked' = IF Roots = {} THEN tracked ELSE {}
    /\ worklist' = Roots
    /\ UNCHANGED heapVars

(* Mutants: the children get their mark when they are pushed, and are not   *)
(* looked into when they come up; an object that has its mark is looked     *)
(* into again.                                                             *)
MarkEarly(cur) ==
    /\ phase = "mark" /\ cur \in worklist
    /\ IF cur \in tracked \ marked
         THEN /\ marked' = marked \cup {cur} \cup (refs[cur] \cap tracked)
              /\ worklist' = (worklist \ {cur}) \cup (refs[cur] \cap (tracked \ marked))
         ELSE worklist' = worklist \ {cur} /\ UNCHANGED marked
    /\ UNCHANGED <<heapVars, phase>>

MarkAgain(cur) ==
    /\ phase = "mark" /\ cur \in worklist
    /\ marked' = IF cur \in tracked THEN marked \cup {cur} ELSE marked
    /\ worklist' = IF cur \in tracked THEN (worklist \ {cur}) \cup (refs[cur] \cap tracked)
                                      ELSE worklist \ {cur}
    /\ UNCHANGED <<heapVars, phase>>

(* The loop takes cur off the worklist.                                    *)
Mark(cur) ==
    /\ phase = "mark" /\ cur \in worklist
    /\ IF cur \in tracked \ marked
         THEN /\ marked' = marked \cup {cur}
              /\ worklist' = (worklist \ {cur}) \cup (refs[cur] \cap (tracked \ marked'))
         ELSE worklist' = worklist \ {cur} /\ UNCHANGED marked
    /\ UNCHANGED <<heapVars, phase>>

(* sweepUnmarkedLocked: free what has no mark, and drop its entry.         *)
Sweep ==
    /\ phase = "mark" /\ worklist = {}
    /\ heap' = heap \ (tracked \ marked)
    /\ refs' = [a \in Addr |-> IF a \in tracked \ marked THEN {} ELSE refs[a]]
    /\ tracked' = tracked \cap marked
    /\ phase' = "idle" /\ marked' = {}
    /\ UNCHANGED <<rootVars, worklist>>

Collect == StartMark \/ (\E cur \in Addr : Mark(cur)) \/ Sweep

Next == \/ phase = "idle" /\ Mutate /\ UNCHANGED markVars
        \/ Collect

Spec == Init /\ [][Next]_vars

(* A collection that has begun runs to its end: it is a call.              *)
FairSpec == Spec /\ WF_vars(phase = "mark" /\ Collect)

-----------------------------------------------------------------------------
(* Every variable stays in its range. *)
TypeOK ==
    /\ heap \subseteq Addr /\ tracked \subseteq Addr
    /\ refs \in [Addr -> SUBSET Addr]
    /\ roots \in [Addr -> Nat]
    /\ pin \in [Pins -> Addr \cup {Null}]
    /\ emitted \subseteq Addr
    /\ paused \in BOOLEAN
    /\ phase \in {"idle", "mark"}
    /\ marked \subseteq Addr /\ worklist \subseteq Addr

(* roots_ lists an address once for every handle that points to it, after   *)
(* any sequence of copies, moves, assignments and destructions: no handle's *)
(* root outlives it, and no handle loses its root to another one.           *)
RootPerPin == \A a \in Addr : roots[a] = Cardinality({p \in Pins : pin[p] = a})

(* The table lists allocated memory only, whatever was reallocated, freed  *)
(* or swept: the sweep never frees an address for the second time.         *)
TrackedIsAllocated == tracked \subseteq heap

(* In the mark phase: without a root all is marked; with one, the marked   *)
(* objects and the worklist are reached from the roots, hold the roots, and *)
(* what a marked object refers to is marked or still in the worklist.      *)
MarkInv ==
    phase = "mark" =>
        /\ Roots = {} => marked = tracked /\ worklist = {}
        /\ Roots # {} => marked \subseteq Reachable /\ worklist \cap tracked \subseteq Reachable
        /\ Roots \cap tracked \subseteq marked \cup worklist
        /\ \A a \in marked : refs[a] \cap tracked \subseteq marked \cup worklist

CollectorInv == TypeOK /\ RootPerPin /\ TrackedIsAllocated /\ ~(phase = "mark" /\ paused) /\ MarkInv

(* A mark phase and its sweep give back exactly the garbage, never an      *)
(* object that a root leads to: they implement the Reclaimer, which does    *)
(* it in one step.                                                         *)
R == INSTANCE Reclaimer WITH collecting <- (phase = "mark")
ReclaimsGarbage == R!Spec

(* A Pin "guarantees the pointee stays alive for the lifetime of the Pin"   *)
(* (pin.h:17-18), in terms of the handles and not of roots_: a collection   *)
(* frees nothing that a handle leads to, over any chain of tracked objects, *)
(* whatever copies, moves and assignments brought the handle there.        *)
PinLeadsTo(a) ==
    \A S \in SUBSET Addr :
        /\ \A p \in Pins : pin[p] # Null => pin[p] \in S
        /\ \A b \in S \cap tracked : refs[b] \subseteq S
        => a \in S
PinsKeepAlive ==
    [][phase = "mark" => \A a \in heap \ heap' : ~PinLeadsTo(a)]_vars

(* A collection that has begun ends, cyclic references or not.             *)
CollectReturns == phase = "mark" ~> phase = "idle"
=============================================================================
