---------------------------- MODULE ManagedHeap -----------------------------
(***************************************************************************)
(* The heap the garbage collector manages, as a program sees it: memory    *)
(* the run-time functions of src/compiler/src/backend/llvm/llvm_runtime.cpp *)
(* allocate, move and free, the collector's table of tracked objects, and  *)
(* the collector's roots, which the handles of src/shared/types/include/   *)
(* pin.h add and remove.                                                   *)
(*                                                                         *)
(* refs[a] is the set of addresses the words of the object at a hold: a    *)
(* word that is no address of an object means nothing to anyone.  The      *)
(* object table is kept as a set (GarbageCollector) or in the order of the *)
(* vector (IncrementalCollector), roots_ as the number of times it lists   *)
(* an address.                                                             *)
(***************************************************************************)
EXTENDS Integers, FiniteSets

CONSTANTS Addr,       (* what malloc can return                      *)
          Null,       (* nullptr                                     *)
          Pins,       (* the Pin<T> handles that can be alive        *)
          Contents,   (* bound: what the words of an object can hold *)
          Emissions   (* bound: what the root providers can emit     *)

ASSUME HeapAssumption ==
    /\ Null \notin Addr /\ IsFiniteSet(Pins)
    /\ Contents \subseteq SUBSET Addr /\ Emissions \subseteq SUBSET Addr

VARIABLES heap,     (* the allocated addresses                        *)
          refs,     (* the addresses in the words of each object      *)
          tracked,  (* objects_                                       *)
          roots,    (* roots_                                         *)
          pin,      (* what each handle points to                     *)
          emitted,  (* what the registered root providers would emit  *)
          paused    (* paused_                                        *)

objectVars == <<heap, refs, tracked>>
rootVars == <<roots, pin, emitted, paused>>
heapVars == <<heap, refs, tracked, roots, pin, emitted, paused>>

HeapInit == /\ heap = {} /\ tracked = {}
            /\ refs = [a \in Addr |-> {}]
            /\ roots = [a \in Addr |-> 0]
            /\ pin = [p \in Pins |-> Null]
            /\ emitted = {}
            /\ paused = FALSE

-----------------------------------------------------------------------------
(* sad_llvm_alloc.  malloc does not clear the memory: its words are        *)
(* whatever was there.                                                     *)
Alloc(a, words) ==
    /\ a \notin heap
    /\ heap' = heap \cup {a}
    /\ refs' = [refs EXCEPT ![a] = words]
    /\ tracked' = tracked \cup {a}
    /\ UNCHANGED rootVars

(* sad_llvm_malloc: memory the collector does not know of.                 *)
Malloc(a, words) ==
    /\ a \notin heap
    /\ heap' = heap \cup {a}
    /\ refs' = [refs EXCEPT ![a] = words]
    /\ UNCHANGED <<tracked, rootVars>>

(* Mutant: the table keeps the address the object moved away from.         *)
ReallocUnnoticed(a, b, words) ==
    /\ a \in heap
    /\ b = a \/ b \notin heap
    /\ words \subseteq refs[a] \/ refs[a] \subseteq words
    /\ heap' = (heap \ {a}) \cup {b}
    /\ refs' = [[refs EXCEPT ![a] = {}] EXCEPT ![b] = words]
    /\ UNCHANGED <<tracked, rootVars>>

(* sad_llvm_realloc of the object at a, which may stay or move to b.  A    *)
(* smaller one loses words, a larger one gains some that nobody wrote.  The *)
(* entry of a tracked object moves with it; roots_ is left as it is.       *)
Realloc(a, b, words) ==
    /\ a \in heap
    /\ b = a \/ b \notin heap
    /\ words \subseteq refs[a] \/ refs[a] \subseteq words
    /\ heap' = (heap \ {a}) \cup {b}
    /\ refs' = [[refs EXCEPT ![a] = {}] EXCEPT ![b] = words]
    /\ tracked' = IF a \in tracked THEN (tracked \ {a}) \cup {b} ELSE tracked
    /\ UNCHANGED rootVars

(* sad_llvm_free.                                                          *)
Free(a) ==
    /\ a \in heap
    /\ heap' = heap \ {a}
    /\ refs' = [refs EXCEPT ![a] = {}]
    /\ tracked' = tracked \ {a}
    /\ UNCHANGED rootVars

(* sad_llvm_gc_register of memory that is not tracked yet.  registerObject *)
(* does not look: registering an object twice is left to the caller.       *)
RegisterObject(a) ==
    /\ a \in heap \ tracked
    /\ tracked' = tracked \cup {a}
    /\ UNCHANGED <<heap, refs, rootVars>>

(* sad_llvm_gc_unregister.                                                 *)
UnregisterObject(a) ==
    /\ tracked' = tracked \ {a}
    /\ UNCHANGED <<heap, refs, rootVars>>

(* The program writes the words of an object.                              *)
Store(a, words) ==
    /\ a \in heap
    /\ words \subseteq heap
    /\ refs' = [refs EXCEPT ![a] = words]
    /\ UNCHANGED <<heap, tracked, rootVars>>

-----------------------------------------------------------------------------
(* addRoot, and removeRoot, which removes one entry.  Both ignore nullptr.  *)
AddRoot(r, a) == IF a = Null THEN r ELSE [r EXCEPT ![a] = @ + 1]
RemoveRoot(r, a) == IF a = Null \/ r[a] = 0 THEN r ELSE [r EXCEPT ![a] = @ - 1]

(* The handle p is copied from q: constructed, if it was empty.            *)
PinCopy(p, q) ==
    /\ p # q
    /\ roots' = AddRoot(RemoveRoot(roots, pin[p]), pin[q])
    /\ pin' = [pin EXCEPT ![p] = pin[q]]
    /\ UNCHANGED <<objectVars, emitted, paused>>

(* Mutant: the handle that was moved from still points to the object.      *)
PinMoveShared(p, q) ==
    /\ p # q
    /\ roots' = RemoveRoot(roots, pin[p])
    /\ pin' = [pin EXCEPT ![p] = pin[q]]
    /\ UNCHANGED <<objectVars, emitted, paused>>

(* The handle q is moved into p, and is empty afterwards.                  *)
PinMove(p, q) ==
    /\ p # q
    /\ roots' = RemoveRoot(roots, pin[p])
    /\ pin' = [pin EXCEPT ![p] = pin[q], ![q] = Null]
    /\ UNCHANGED <<objectVars, emitted, paused>>

(* A pointer is assigned to p: from an empty handle the constructor, with  *)
(* nullptr reset() or the destructor.                                      *)
PinAssign(p, raw) ==
    /\ pin[p] # raw
    /\ roots' = AddRoot(RemoveRoot(roots, pin[p]), raw)
    /\ pin' = [pin EXCEPT ![p] = raw]
    /\ UNCHANGED <<objectVars, emitted, paused>>

(* addRootProvider, removeRootProvider, or a change of the variables that  *)
(* a provider reads.                                                       *)
Provide(S) ==
    /\ emitted' = S
    /\ UNCHANGED <<objectVars, roots, pin, paused>>

(* pause and resume.                                                       *)
Pause(on) ==
    /\ paused' = on
    /\ UNCHANGED <<objectVars, roots, pin, emitted>>

(* What the program does between two collections.                          *)
Mutate ==
    \/ \E a \in Addr : Free(a) \/ RegisterObject(a) \/ UnregisterObject(a)
    \/ \E a \in Addr, words \in Contents :
          \/ Alloc(a, words) \/ Malloc(a, words) \/ Store(a, words)
          \/ \E b \in Addr : Realloc(a, b, words)
    \/ \E p, q \in Pins : PinCopy(p, q) \/ PinMove(p, q)
    \/ \E p \in Pins, raw \in heap \cup {Null} : PinAssign(p, raw)
    \/ \E S \in Emissions : S \subseteq heap /\ Provide(S)
    \/ \E on \in BOOLEAN : Pause(on)

-----------------------------------------------------------------------------
(* What a mark phase starts from.                                          *)
Roots == {a \in Addr : roots[a] > 0} \cup emitted

(* The tracked objects that every set holding the roots, and whatever the  *)
(* words of its tracked members hold, has to hold: those a program can     *)
(* reach without leaving the tracked objects.                              *)
Closed(S) == Roots \subseteq S /\ \A a \in S \cap tracked : refs[a] \subseteq S
Reachable == {a \in tracked : \A S \in SUBSET Addr : Closed(S) => a \in S}
=============================================================================
