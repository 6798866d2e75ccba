------------------------ MODULE IncrementalCollector ------------------------
(***************************************************************************)
(* collectIncremental of src/shared/memory_gc/src/engine/                  *)
(* garbage_collector.cpp, a collection cut into calls between which the    *)
(* program runs.  The marks are kept by place in the object table, so the  *)
(* table is the vector here.  References between objects are left out: the *)
(* incremental mark phase reads none.                                      *)
(*                                                                         *)
(* A call does one step; a call with more steps is so many calls with      *)
(* nothing between them.  Reading the mark of a place the mark list does   *)
(* not have is undefined: it may be found set or not.                      *)
(***************************************************************************)
EXTENDS Integers, Sequences, SequencesExt

CONSTANTS Addr

VARIABLES heap,        (* the allocated addresses                      *)
          objects,     (* objects_                                     *)
          roots,       (* the addresses roots_ lists                   *)
          incMarked, incIndex, incPhase

vars == <<heap, objects, roots, incMarked, incIndex, incPhase>>
incVars == <<incMarked, incIndex, incPhase>>

Init == /\ heap = {} /\ objects = <<>> /\ roots = {}
        /\ incMarked = <<>> /\ incIndex = 0 /\ incPhase = 0

(* sad_llvm_alloc. *)
Alloc(a) ==
    /\ a \notin heap
    /\ heap' = heap \cup {a}
    /\ objects' = Append(objects, a)
    /\ UNCHANGED <<roots, incVars>>

(* sad_llvm_free; a program does not free what it pins.  The marks stay    *)
(* where they are when the objects behind a move up.                       *)
Free(a) ==
    /\ a \in heap \ roots
    /\ heap' = heap \ {a}
    /\ objects' = SelectSeq(objects, LAMBDA o : o # a)
    /\ UNCHANGED <<roots, incVars>>

(* addRoot and removeRoot, by a Pin. *)
Pin(a) == a \in heap /\ roots' = roots \cup {a} /\ UNCHANGED <<heap, objects, incVars>>
Unpin(a) == roots' = roots \ {a} /\ UNCHANGED <<heap, objects, incVars>>

-----------------------------------------------------------------------------
(* A step of phase 0 marks the object at incIndex_, whatever refers to it.  *)
IncMark ==
    LET fresh == IF incIndex = 0 THEN [k \in DOMAIN objects |-> FALSE] ELSE incMarked
        end == IF incIndex < Len(objects) THEN incIndex + 1 ELSE Len(objects)
    IN  /\ incPhase = 0
        /\ incMarked' = [k \in DOMAIN fresh |-> fresh[k] \/ (incIndex < k /\ k <= end)]
        /\ incPhase' = IF end = Len(objects) THEN 1 ELSE 0
        /\ incIndex' = IF end = Len(objects) THEN 0 ELSE end
        /\ UNCHANGED <<heap, objects, roots>>

(* The values incMarked_[k] can be found to have. *)
MarkAt(k) == IF k \in DOMAIN incMarked THEN {incMarked[k]} ELSE BOOLEAN

(* A step of phase 1 frees the object at incIndex_ if it has no mark, and   *)
(* ends the cycle at the end of the table.                                 *)
IncSweep ==
    /\ incPhase = 1
    /\ \E found \in IF incIndex < Len(objects) THEN MarkAt(incIndex + 1) ELSE {TRUE} :
         LET k == incIndex + 1
             left == IF found THEN objects ELSE RemoveAt(objects, k)
             next == IF found /\ k <= Len(objects) THEN k ELSE incIndex
             done == next >= Len(left)
         IN  /\ objects' = left
             /\ heap' = IF found THEN heap ELSE heap \ {objects[k]}
             /\ incMarked' = IF done THEN <<>>
                             ELSE IF found \/ k > Len(incMarked) THEN incMarked
                             ELSE RemoveAt(incMarked, k)
             /\ incIndex' = IF done THEN 0 ELSE next
             /\ incPhase' = IF done THEN 0 ELSE 1
    /\ UNCHANGED roots

Next == \/ \E a \in Addr : Alloc(a) \/ Free(a) \/ Pin(a) \/ Unpin(a)
        \/ IncMark \/ IncSweep

Spec == Init /\ [][Next]_vars

-----------------------------------------------------------------------------
(* An object stays alive as long as it is pinned.  pin.h:16-18 promises     *)
(* that a Pin "Guarantees the pointee stays alive for the lifetime of the   *)
(* Pin".                                                                   *)
PinnedStaysAlive == roots \subseteq heap
=============================================================================
