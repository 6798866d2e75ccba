------------------------------ MODULE SmartPtr ------------------------------
(* Rc, Arc and Weak of compiler/include/runtime/smart_ptr.h.  Any number of  *)
(* strong and weak pointers share control blocks; every atomic instruction   *)
(* on a block is a step.  A pointer is a variable or a member of the object  *)
(* some block manages: the destructor of the object releases its members     *)
(* while the release that runs it is still under way.                        *)
EXTENDS Naturals, FiniteSets

CONSTANTS
    Strongs,   \* the Rc and Arc objects
    Weaks,     \* the Weak objects
    Blocks,    \* the control blocks
    Home,      \* the block whose object a pointer is a member of, or Null
    Shared,    \* the pointers different threads may use at the same time
    Null

Handles == Strongs \cup Weaks

ASSUME SmartPtrAssumption ==
    /\ IsFiniteSet(Handles)
    /\ Strongs \cap Weaks = {}
    /\ Null \notin Handles \cup Blocks
    /\ Home \in [Handles -> Blocks \cup {Null}]
    /\ Shared \subseteq Handles

VARIABLES
    strong,    \* strongCount of each block
    weak,      \* weakCount of each block
    object,    \* "free": no block; "live": it manages data; "dead": data is null
    ptr,       \* control_ of each pointer
    src,       \* the operand of an operation under way, or Null
    pc         \* the next step of the operation that writes a pointer

vars == <<strong, weak, object, ptr, src, pc>>

Init ==
    /\ strong = [b \in Blocks |-> 0]
    /\ weak = [b \in Blocks |-> 0]
    /\ object = [b \in Blocks |-> "free"]
    /\ ptr = [h \in Handles |-> Null]
    /\ src = [h \in Handles |-> Null]
    /\ pc = [h \in Handles |-> "idle"]

(* The pointers of the operations under way. *)
Busy == {h \in Handles : pc[h] # "idle"}
        \cup {src[h] : h \in {g \in Handles : src[g] # Null}}

(* An operation on H starts when no other one uses H; beside operations      *)
(* under way it starts only if threads share all the pointers concerned.     *)
Start(H) ==
    /\ H \cap Busy = {}
    /\ Busy = {} \/ H \cup Busy \subseteq Shared

(* A member is reached through a strong pointer to its object. *)
Reach(h) ==
    Home[h] = Null \/ \E g \in Strongs : pc[g] = "idle" /\ ptr[g] = Home[h]

Alike(h, s) == h \in Strongs <=> s \in Strongs

(* create, makeInPlace. *)
Create(h, b) ==
    /\ h \in Strongs /\ ptr[h] = Null /\ object[b] = "free"
    /\ Start({h}) /\ Reach(h)
    /\ object' = [object EXCEPT ![b] = "live"]
    /\ strong' = [strong EXCEPT ![b] = 1]
    /\ weak' = [weak EXCEPT ![b] = 0]
    /\ ptr' = [ptr EXCEPT ![h] = b]
    /\ UNCHANGED <<src, pc>>

(* incrementStrong or incrementWeak. *)
Increment(h, b) ==
    /\ strong' = IF h \in Strongs THEN [strong EXCEPT ![b] = @ + 1] ELSE strong
    /\ weak' = IF h \in Weaks THEN [weak EXCEPT ![b] = @ + 1] ELSE weak

(* Copy constructors, clone, fromRc, fromArc. *)
Copy(h, s) ==
    /\ h \in Weaks \/ s \in Strongs
    /\ h # s /\ ptr[h] = Null /\ ptr[s] # Null
    /\ Start({h, s}) /\ Reach(h) /\ Reach(s)
    /\ Increment(h, ptr[s])
    /\ ptr' = [ptr EXCEPT ![h] = ptr[s]]
    /\ UNCHANGED <<object, src, pc>>

(* Move constructors. *)
Move(h, s) ==
    /\ Alike(h, s) /\ h # s /\ ptr[h] = Null /\ ptr[s] # Null
    /\ Start({h, s}) /\ Reach(h) /\ Reach(s)
    /\ ptr' = [ptr EXCEPT ![h] = ptr[s], ![s] = Null]
    /\ UNCHANGED <<strong, weak, object, src, pc>>

(* A bug: the object is not asked whether it is alive. *)
UpgradeUnasked(h, w) ==
    /\ h \in Strongs /\ w \in Weaks /\ ptr[h] = Null /\ ptr[w] # Null
    /\ Start({h, w}) /\ Reach(h) /\ Reach(w)
    /\ pc' = [pc EXCEPT ![h] = "upgrade"]
    /\ src' = [src EXCEPT ![h] = w]
    /\ UNCHANGED <<strong, weak, object, ptr>>

(* upgradeToRc, upgradeToArc: isAlive holds; if not, the result is empty.    *)
Upgrade(h, w) ==
    /\ h \in Strongs /\ w \in Weaks /\ ptr[h] = Null /\ ptr[w] # Null
    /\ Start({h, w}) /\ Reach(h) /\ Reach(w)
    /\ strong[ptr[w]] > 0
    /\ pc' = [pc EXCEPT ![h] = "upgrade"]
    /\ src' = [src EXCEPT ![h] = w]
    /\ UNCHANGED <<strong, weak, object, ptr>>

TakeUpgrade(h) ==
    /\ pc[h] = "upgrade"
    /\ strong' = [strong EXCEPT ![ptr[src[h]]] = @ + 1]
    /\ ptr' = [ptr EXCEPT ![h] = ptr[src[h]]]
    /\ src' = [src EXCEPT ![h] = Null]
    /\ pc' = [pc EXCEPT ![h] = "idle"]
    /\ UNCHANGED <<weak, object>>

(* The destructor of a variable; an assignment starts with the same release. *)
Drop(h) ==
    /\ Home[h] = Null /\ ptr[h] # Null
    /\ Start({h})
    /\ pc' = [pc EXCEPT ![h] = "release"]
    /\ UNCHANGED <<strong, weak, object, ptr, src>>

Assign(h, s) ==
    /\ Home[h] = Null /\ Home[s] = Null /\ ptr[h] # Null
    /\ Alike(h, s) /\ h # s
    /\ Start({h, s})
    /\ pc' = [pc EXCEPT ![h] = "release"]
    /\ src' = [src EXCEPT ![h] = s]
    /\ UNCHANGED <<strong, weak, object, ptr>>

(* The end of release: control_ becomes null and an assignment goes on. *)
Leave(h) ==
    /\ ptr' = [ptr EXCEPT ![h] = Null]
    /\ pc' = [pc EXCEPT ![h] = IF src[h] = Null THEN "idle" ELSE "assign"]

(* decrementStrong: the last strong pointer deletes the object. *)
ReleaseStrong(h) ==
    /\ h \in Strongs /\ pc[h] = "release"
    /\ strong' = [strong EXCEPT ![ptr[h]] = @ - 1]
    /\ IF strong[ptr[h]] = 1
       THEN pc' = [pc EXCEPT ![h] = "delete"] /\ UNCHANGED ptr
       ELSE Leave(h)
    /\ UNCHANGED <<weak, object, src>>

Members(b) == {f \in Handles : Home[f] = b}

(* delete control_->data runs the destructors of the members, one by one.    *)
DeleteMember(h, f) ==
    /\ pc[h] = "delete" /\ f \in Members(ptr[h]) /\ ptr[f] # Null
    /\ \A g \in Members(ptr[h]) : pc[g] = "idle"
    /\ pc' = [pc EXCEPT ![f] = "release"]
    /\ UNCHANGED <<strong, weak, object, ptr, src>>

(* The object is gone: control_->data = nullptr. *)
Deleted(h) ==
    /\ pc[h] = "delete"
    /\ \A f \in Members(ptr[h]) : ptr[f] = Null
    /\ object' = [object EXCEPT ![ptr[h]] = "dead"]
    /\ pc' = [pc EXCEPT ![h] = "weakCheck"]
    /\ UNCHANGED <<strong, weak, ptr, src>>

(* A bug: the block goes with the object. *)
CheckWeakNever(h) ==
    /\ pc[h] = "weakCheck"
    /\ pc' = [pc EXCEPT ![h] = "free"]
    /\ UNCHANGED <<strong, weak, object, ptr, src>>

(* A bug: the last strong pointer waits for the weak ones. *)
CheckWeakWaits(h) ==
    /\ pc[h] = "weakCheck" /\ weak[ptr[h]] = 0
    /\ pc' = [pc EXCEPT ![h] = "free"]
    /\ UNCHANGED <<strong, weak, object, ptr, src>>

(* The block goes too if no weak pointer is left. *)
CheckWeak(h) ==
    /\ pc[h] = "weakCheck"
    /\ IF weak[ptr[h]] = 0
       THEN pc' = [pc EXCEPT ![h] = "free"] /\ UNCHANGED ptr
       ELSE Leave(h)
    /\ UNCHANGED <<strong, weak, object, src>>

(* decrementWeak: the last weak pointer looks whether the object lives. *)
ReleaseWeak(h) ==
    /\ h \in Weaks /\ pc[h] = "release"
    /\ weak' = [weak EXCEPT ![ptr[h]] = @ - 1]
    /\ IF weak[ptr[h]] = 1
       THEN pc' = [pc EXCEPT ![h] = "strongCheck"] /\ UNCHANGED ptr
       ELSE Leave(h)
    /\ UNCHANGED <<strong, object, src>>

(* A bug: the block is left to the strong pointers, which are gone. *)
CheckStrongNever(h) ==
    /\ pc[h] = "strongCheck"
    /\ Leave(h)
    /\ UNCHANGED <<strong, weak, object, src>>

CheckStrong(h) ==
    /\ pc[h] = "strongCheck"
    /\ IF strong[ptr[h]] = 0
       THEN pc' = [pc EXCEPT ![h] = "free"] /\ UNCHANGED ptr
       ELSE Leave(h)
    /\ UNCHANGED <<strong, weak, object, src>>

(* delete control_. *)
FreeBlock(h) ==
    /\ pc[h] = "free"
    /\ object' = [object EXCEPT ![ptr[h]] = "free"]
    /\ Leave(h)
    /\ UNCHANGED <<strong, weak, src>>

(* A bug: a copy assignment forgets to count. *)
CopyAssignedUncounted(h) ==
    /\ pc[h] = "assign"
    /\ ptr' = [ptr EXCEPT ![h] = ptr[src[h]]]
    /\ pc' = [pc EXCEPT ![h] = "idle"]
    /\ src' = [src EXCEPT ![h] = Null]
    /\ UNCHANGED <<strong, weak, object>>

(* The second half of a copy assignment. *)
CopyAssigned(h) ==
    /\ pc[h] = "assign"
    /\ ptr' = [ptr EXCEPT ![h] = ptr[src[h]]]
    /\ IF ptr[src[h]] = Null THEN UNCHANGED <<strong, weak>>
                             ELSE Increment(h, ptr[src[h]])
    /\ pc' = [pc EXCEPT ![h] = "idle"]
    /\ src' = [src EXCEPT ![h] = Null]
    /\ UNCHANGED object

(* The second half of a move assignment. *)
MoveAssigned(h) ==
    /\ pc[h] = "assign"
    /\ ptr' = [ptr EXCEPT ![h] = ptr[src[h]], ![src[h]] = Null]
    /\ pc' = [pc EXCEPT ![h] = "idle"]
    /\ src' = [src EXCEPT ![h] = Null]
    /\ UNCHANGED <<strong, weak, object>>

(* The steps of the operations under way. *)
Step(h) ==
    \/ TakeUpgrade(h)
    \/ ReleaseStrong(h)
    \/ \E f \in Handles : DeleteMember(h, f)
    \/ Deleted(h)
    \/ CheckWeak(h)
    \/ ReleaseWeak(h)
    \/ CheckStrong(h)
    \/ FreeBlock(h)
    \/ CopyAssigned(h)
    \/ MoveAssigned(h)

Next ==
    \E h \in Handles :
        \/ \E b \in Blocks : Create(h, b)
        \/ \E s \in Handles : \/ Copy(h, s)
                              \/ Move(h, s)
                              \/ Upgrade(h, s)
                              \/ Assign(h, s)
        \/ Drop(h)
        \/ Step(h)

Spec == Init /\ [][Next]_vars

(* A thread that is inside an operation is scheduled again. *)
FairSpec == Spec /\ \A h \in Handles : WF_vars(Step(h))

-----------------------------------------------------------------------------
(* The counts are natural numbers: none is decremented below zero. *)
TypeOK ==
    /\ strong \in [Blocks -> Nat]
    /\ weak \in [Blocks -> Nat]
    /\ object \in [Blocks -> {"free", "live", "dead"}]
    /\ ptr \in [Handles -> Blocks \cup {Null}]
    /\ src \in [Handles -> Handles \cup {Null}]
    /\ pc \in [Handles -> {"idle", "upgrade", "release", "delete", "weakCheck",
                           "strongCheck", "free", "assign"}]

(* The pointers a count stands for: those not yet decremented. *)
Counted(H, b) ==
    {h \in H : ptr[h] = b /\ pc[h] \in {"idle", "release"}}

(* Each count is the number of pointers of its kind that share the block,    *)
(* whatever operations are under way: what every decision of release rests   *)
(* on.                                                                       *)
CountsMatch ==
    \A b \in Blocks :
        object[b] # "free" =>
            /\ strong[b] = Cardinality(Counted(Strongs, b))
            /\ weak[b] = Cardinality(Counted(Weaks, b))

(* No pointer, idle or in the middle of its release, points to a control     *)
(* block that was deleted: no use after free, no second delete.              *)
NoDangling == \A h \in Handles : ptr[h] # Null => object[ptr[h]] # "free"

(* A strong pointer keeps its object alive: nobody has deleted it or is      *)
(* running its destructor.                                                   *)
StrongKeepsAlive ==
    \A h \in Strongs :
        pc[h] = "idle" /\ ptr[h] # Null =>
            /\ object[ptr[h]] = "live"
            /\ \A g \in Handles :
                  ptr[g] = ptr[h] => pc[g] \notin {"delete", "weakCheck", "free"}

(* An object that lives has a strong pointer, and a block that is kept after *)
(* its object has a pointer that will delete it: neither leaks.              *)
NoLeak ==
    \A b \in Blocks :
        /\ object[b] = "live" => \E h \in Strongs : ptr[h] = b
        /\ object[b] = "dead" => \E h \in Handles : ptr[h] = b

(* Every release ends, however deep the destructors nest. *)
ReleaseEnds == \A h \in Handles : pc[h] = "release" ~> pc[h] = "idle"
=============================================================================
