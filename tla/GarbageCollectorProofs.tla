----------------------- MODULE GarbageCollectorProofs -----------------------
(***************************************************************************)
(* Proofs about the full collection, for every set of addresses, every     *)
(* finite set of handles and every size of an object.                      *)
(***************************************************************************)
EXTENDS GarbageCollector, FiniteSetTheorems, TLAPS

(* The handles that point to a, after f[p] becomes x.                      *)
Holders(f, a) == {p \in Pins : f[p] = a}

Hit(v, a) == IF v = a THEN 1 ELSE 0

LEMMA HoldersFinite ==
    ASSUME NEW f, NEW a
    PROVE  IsFiniteSet(Holders(f, a)) /\ Cardinality(Holders(f, a)) \in Nat
<1>1. Holders(f, a) \subseteq Pins
  BY DEF Holders
<1> QED BY <1>1, FS_Subset, FS_CardinalityType, HeapAssumption

(* When one handle changes from an address to another value, the number of *)
(* handles of every address changes by one for those two at most.          *)
LEMMA OneHandleMoves ==
    ASSUME NEW f \in [Pins -> Addr \cup {Null}], NEW p \in Pins,
           NEW x \in Addr \cup {Null}, NEW a \in Addr
    PROVE  Cardinality(Holders([f EXCEPT ![p] = x], a)) =
             Cardinality(Holders(f, a))
             - Hit(f[p], a) + Hit(x, a)
<1> DEFINE g == [f EXCEPT ![p] = x]
           rest == Holders(f, a) \ {p}
<1> HIDE DEF g
<1>1. IsFiniteSet(rest) /\ Cardinality(rest) \in Nat
  BY HoldersFinite, FS_Subset, FS_CardinalityType
<1>2. Cardinality(Holders(f, a)) = Cardinality(rest) + Hit(f[p], a)
  <2>1. CASE f[p] = a
    <3>1. Holders(f, a) = rest \cup {p} /\ p \notin rest
      BY <2>1 DEF Holders
    <3> QED BY <2>1, <3>1, <1>1, FS_AddElement DEF Hit
  <2>2. CASE f[p] # a
    <3>1. Holders(f, a) = rest
      BY <2>2 DEF Holders
    <3> QED BY <2>2, <3>1, <1>1 DEF Hit
  <2> QED BY <2>1, <2>2
<1>3. Cardinality(Holders(g, a)) = Cardinality(rest) + Hit(x, a)
  <2>1. CASE x = a
    <3>1. Holders(g, a) = rest \cup {p} /\ p \notin rest
      BY <2>1 DEF Holders, g
    <3> QED BY <2>1, <3>1, <1>1, FS_AddElement DEF Hit
  <2>2. CASE x # a
    <3>1. Holders(g, a) = rest
      BY <2>2 DEF Holders, g
    <3> QED BY <2>2, <3>1, <1>1 DEF Hit
  <2> QED BY <2>1, <2>2
<1> QED BY <1>1, <1>2, <1>3 DEF g, Hit

RootsCount(r, f) == \A a \in Addr : r[a] = Cardinality(Holders(f, a))

(* removeRoot of what a handle holds and addRoot of what it will hold, in   *)
(* that order, keep one root per handle.                                   *)
LEMMA RootsFollow ==
    ASSUME NEW f \in [Pins -> Addr \cup {Null}], NEW p \in Pins,
           NEW x \in Addr \cup {Null}, NEW r \in [Addr -> Nat], RootsCount(r, f)
    PROVE  /\ AddRoot(RemoveRoot(r, f[p]), x) \in [Addr -> Nat]
           /\ RootsCount(AddRoot(RemoveRoot(r, f[p]), x), [f EXCEPT ![p] = x])
<1> DEFINE s == RemoveRoot(r, f[p])
<1>1. f[p] \in Addr => r[f[p]] > 0
  <2> SUFFICES ASSUME f[p] \in Addr PROVE r[f[p]] > 0
    OBVIOUS
  <2>1. p \in Holders(f, f[p])
    BY DEF Holders
  <2>2. Cardinality(Holders(f, f[p])) # 0
    BY <2>1, HoldersFinite, FS_EmptySet
  <2> QED BY <2>2, HoldersFinite DEF RootsCount
<1>2. s \in [Addr -> Nat] /\ \A a \in Addr : s[a] = r[a] - Hit(f[p], a)
  BY <1>1, HeapAssumption DEF RemoveRoot, Hit
<1>3. /\ AddRoot(s, x) \in [Addr -> Nat]
      /\ \A a \in Addr : AddRoot(s, x)[a] = s[a] + Hit(x, a)
  BY <1>2, HeapAssumption DEF AddRoot, Hit
<1>4. ASSUME NEW a \in Addr
      PROVE  AddRoot(s, x)[a] = Cardinality(Holders([f EXCEPT ![p] = x], a))
  <2>1. r[a] = Cardinality(Holders(f, a)) /\ r[a] \in Nat
    BY DEF RootsCount
  <2>2. Cardinality(Holders([f EXCEPT ![p] = x], a)) =
          Cardinality(Holders(f, a))
          - Hit(f[p], a) + Hit(x, a)
    BY OneHandleMoves, Zenon
  <2> HIDE DEF s
  <2> QED BY <2>1, <2>2, <1>2, <1>3 DEF Hit
<1> QED BY <1>3, <1>4 DEF RootsCount

(* Adding a root and removing it again changes nothing.                    *)
LEMMA AddThenRemove ==
    ASSUME NEW r \in [Addr -> Nat], NEW y \in Addr \cup {Null}
    PROVE  RemoveRoot(AddRoot(r, y), y) = r
  BY HeapAssumption DEF RemoveRoot, AddRoot

-----------------------------------------------------------------------------
(* What every step of the program keeps. *)
HeapInv == /\ heap \subseteq Addr /\ tracked \subseteq heap
           /\ refs \in [Addr -> SUBSET Addr]
           /\ roots \in [Addr -> Nat]
           /\ pin \in [Pins -> Addr \cup {Null}]
           /\ emitted \subseteq Addr
           /\ paused \in BOOLEAN
           /\ RootsCount(roots, pin)

LEMMA PinStep ==
    ASSUME HeapInv, NEW p \in Pins, NEW q \in Pins, PinCopy(p, q) \/ PinMove(p, q)
    PROVE  HeapInv'
<1> DEFINE f == [pin EXCEPT ![p] = pin[q]]
           r == AddRoot(RemoveRoot(roots, pin[p]), pin[q])
<1>1. UNCHANGED <<heap, tracked, refs, emitted, paused>> /\ p # q
  BY DEF PinCopy, PinMove, objectVars
<1>2. pin[p] \in Addr \cup {Null} /\ pin[q] \in Addr \cup {Null}
  BY DEF HeapInv
<1>3. r \in [Addr -> Nat] /\ RootsCount(r, f)
  BY <1>2, RootsFollow DEF HeapInv
<1>4. f \in [Pins -> Addr \cup {Null}] /\ f[q] = pin[q]
  BY <1>1, <1>2 DEF HeapInv
<1>5. roots' \in [Addr -> Nat] /\ pin' \in [Pins -> Addr \cup {Null}] /\ RootsCount(roots', pin')
  <2>1. CASE PinCopy(p, q)
    BY <2>1, <1>3, <1>4 DEF PinCopy
  <2>2. CASE PinMove(p, q)
    <3> DEFINE s == RemoveRoot(roots, pin[p])
    <3>1. s \in [Addr -> Nat]
      BY <1>2 DEF HeapInv, RemoveRoot
    <3>2. RemoveRoot(r, f[q]) = s
      BY <1>2, <1>4, <3>1, AddThenRemove
    <3>3. AddRoot(RemoveRoot(r, f[q]), Null) = s
      BY <3>2 DEF AddRoot
    <3>4. RootsCount(s, [f EXCEPT ![q] = Null])
      <4> HIDE DEF r, f, s
      <4>1. Null \in Addr \cup {Null}
        OBVIOUS
      <4> QED BY <4>1, <3>3, <1>3, <1>4, RootsFollow
    <3>5. roots' = s /\ pin' = [f EXCEPT ![q] = Null]
      BY <2>2, <1>1 DEF PinMove, HeapInv
    <3> QED BY <3>1, <3>4, <3>5, <1>4
  <2> QED BY <2>1, <2>2
<1> QED BY <1>1, <1>5 DEF HeapInv

LEMMA MutateStep ==
    ASSUME HeapInv, Mutate
    PROVE  HeapInv'
<1> USE HeapAssumption
<1>1. ASSUME NEW a \in Addr, Free(a) \/ RegisterObject(a) \/ UnregisterObject(a)
      PROVE  HeapInv'
  BY <1>1 DEF HeapInv, Free, RegisterObject, UnregisterObject, rootVars
<1>2. ASSUME NEW a \in Addr, NEW words \in Contents,
             Alloc(a, words) \/ Malloc(a, words) \/ Store(a, words)
      PROVE  HeapInv'
  BY <1>2 DEF HeapInv, Alloc, Malloc, Store, rootVars
<1>3. ASSUME NEW a \in Addr, NEW b \in Addr, NEW words \in Contents, Realloc(a, b, words)
      PROVE  HeapInv'
  BY <1>3 DEF HeapInv, Realloc, rootVars
<1>4. ASSUME NEW p \in Pins, NEW q \in Pins, PinCopy(p, q) \/ PinMove(p, q)
      PROVE  HeapInv'
  BY <1>4, PinStep
<1>5. ASSUME NEW p \in Pins, NEW raw \in heap \cup {Null}, PinAssign(p, raw)
      PROVE  HeapInv'
  <2>1. raw \in Addr \cup {Null}
    BY DEF HeapInv
  <2>2. roots' \in [Addr -> Nat] /\ RootsCount(roots', pin')
    BY <1>5, <2>1, RootsFollow DEF HeapInv, PinAssign
  <2> QED BY <1>5, <2>1, <2>2 DEF HeapInv, PinAssign, objectVars
<1>6. ASSUME NEW S \in Emissions, Provide(S)
      PROVE  HeapInv'
  BY <1>6 DEF HeapInv, Provide, objectVars
<1>7. ASSUME NEW on \in BOOLEAN, Pause(on)
      PROVE  HeapInv'
  BY <1>7 DEF HeapInv, Pause, objectVars
<1> QED BY <1>1, <1>2, <1>3, <1>4, <1>5, <1>6, <1>7 DEF Mutate

-----------------------------------------------------------------------------
(* What is marked when the worklist is empty.                              *)
LEMMA MarkedIsReachable ==
    ASSUME CollectorInv, phase = "mark", worklist = {}, Roots # {}
    PROVE  marked = Reachable
<1> DEFINE S == marked \cup (Addr \ tracked)
<1>1. marked \subseteq Reachable /\ marked \subseteq Addr
  BY DEF CollectorInv, MarkInv, TypeOK
<1>2. Roots \subseteq Addr
  BY DEF CollectorInv, TypeOK, Roots
<1>3. Roots \subseteq S
  BY <1>2 DEF CollectorInv, MarkInv
<1>4. ASSUME NEW a \in S \cap tracked PROVE refs[a] \subseteq S
  <2>1. a \in marked /\ a \in Addr
    BY <1>1
  <2>2. refs[a] \cap tracked \subseteq marked /\ refs[a] \subseteq Addr
    BY <2>1 DEF CollectorInv, MarkInv, TypeOK
  <2> QED BY <2>2
<1>5. Closed(S) /\ S \in SUBSET Addr
  BY <1>1, <1>3, <1>4 DEF Closed
<1>6. Reachable \subseteq S /\ Reachable \subseteq tracked
  BY <1>5 DEF Reachable
<1> QED BY <1>1, <1>6

LEMMA InvInit ==
    ASSUME Init
    PROVE  CollectorInv
<1>1. TypeOK /\ TrackedIsAllocated /\ MarkInv /\ phase = "idle"
  BY HeapAssumption DEF Init, HeapInit, TypeOK, TrackedIsAllocated, MarkInv
<1>2. ASSUME NEW a \in Addr PROVE {p \in Pins : pin[p] = a} = {}
  BY HeapAssumption DEF Init, HeapInit
<1>3. RootPerPin
  BY <1>2, FS_EmptySet DEF RootPerPin, Init, HeapInit
<1> QED BY <1>1, <1>3 DEF CollectorInv

LEMMA StartMarkStep ==
    ASSUME CollectorInv, StartMark
    PROVE  CollectorInv'
<1>1. TypeOK' /\ RootPerPin' /\ TrackedIsAllocated' /\ ~paused'
  BY DEF CollectorInv, TypeOK, RootPerPin, TrackedIsAllocated, StartMark, heapVars, Roots
<1>2. Roots' = Roots /\ Reachable' = Reachable /\ UNCHANGED <<refs, tracked>>
  BY DEF StartMark, heapVars, Roots, Reachable, Closed
<1>3. Roots \cap tracked \subseteq Reachable
  BY DEF Reachable, Closed
<1>4. MarkInv'
  BY <1>2, <1>3 DEF StartMark, MarkInv
<1> QED BY <1>1, <1>4 DEF CollectorInv

LEMMA MarkStep ==
    ASSUME CollectorInv, NEW cur \in Addr, Mark(cur)
    PROVE  CollectorInv'
<1>1. TypeOK' /\ RootPerPin' /\ TrackedIsAllocated' /\ ~paused'
  BY DEF CollectorInv, TypeOK, RootPerPin, TrackedIsAllocated, Mark, heapVars
<1>2. Roots' = Roots /\ Reachable' = Reachable /\ UNCHANGED <<refs, tracked>>
  BY DEF Mark, heapVars, Roots, Reachable, Closed
<1>3. MarkInv /\ phase = "mark" /\ phase' = "mark" /\ cur \in worklist
  BY DEF CollectorInv, Mark
<1>4. CASE cur \in tracked \ marked
  <2>1. /\ marked' = marked \cup {cur}
        /\ worklist' = (worklist \ {cur}) \cup (refs[cur] \cap (tracked \ marked'))
    BY <1>4 DEF Mark
  <2>2. Roots # {}
    BY <1>3 DEF MarkInv
  <2>3. cur \in Reachable
    BY <1>3, <1>4, <2>2 DEF MarkInv
  <2>4. refs[cur] \cap tracked \subseteq Reachable
    BY <2>3, <1>4 DEF Reachable, Closed
  <2>5. marked' \subseteq Reachable /\ worklist' \cap tracked \subseteq Reachable
    BY <1>3, <2>1, <2>2, <2>3, <2>4 DEF MarkInv
  <2>6. /\ Roots \cap tracked \subseteq marked' \cup worklist'
        /\ \A a \in marked' : refs[a] \cap tracked \subseteq marked' \cup worklist'
    BY <1>3, <2>1 DEF MarkInv
  <2>7. MarkInv'
    BY <1>2, <2>2, <2>5, <2>6 DEF MarkInv
  <2> QED BY <1>1, <2>7 DEF CollectorInv
<1>5. CASE cur \notin tracked \ marked
  <2>1. marked' = marked /\ worklist' = worklist \ {cur}
    BY <1>5 DEF Mark
  <2>2. MarkInv'
    BY <1>2, <1>3, <1>5, <2>1 DEF MarkInv
  <2> QED BY <1>1, <2>2 DEF CollectorInv
<1> QED BY <1>4, <1>5

LEMMA SweepStep ==
    ASSUME CollectorInv, Sweep
    PROVE  CollectorInv'
  BY DEF CollectorInv, TypeOK, RootPerPin, TrackedIsAllocated, MarkInv, Sweep, rootVars

LEMMA InvStep ==
    ASSUME CollectorInv, [Next]_vars
    PROVE  CollectorInv'
<1>1. CASE phase = "idle" /\ Mutate /\ UNCHANGED markVars
  <2>1. HeapInv
    BY DEF HeapInv, CollectorInv, TypeOK, RootPerPin, TrackedIsAllocated, RootsCount, Holders
  <2>2. HeapInv'
    BY <1>1, <2>1, MutateStep
  <2>3. phase' = "idle" /\ marked' = marked /\ worklist' = worklist
    BY <1>1 DEF markVars
  <2> QED BY <2>2, <2>3
          DEF HeapInv, CollectorInv, TypeOK, RootPerPin, TrackedIsAllocated, RootsCount, Holders, MarkInv
<1>2. CASE Collect
  BY <1>2, StartMarkStep, MarkStep, SweepStep DEF Collect
<1>3. CASE UNCHANGED vars
  BY <1>3 DEF vars, CollectorInv, TypeOK, RootPerPin, TrackedIsAllocated, MarkInv,
              Roots, Reachable, Closed
<1> QED BY <1>1, <1>2, <1>3 DEF Next

(* The roots, the table and the marks agree, whatever the program does and  *)
(* wherever the mark phase is.                                             *)
THEOREM CollectorCorrect == Spec => []CollectorInv
<1>1. Init => CollectorInv
  BY InvInit
<1>2. CollectorInv /\ [Next]_vars => CollectorInv'
  BY InvStep
<1> QED BY <1>1, <1>2, PTL DEF Spec

(* Type correctness. *)
THEOREM TypeCorrect == Spec => []TypeOK
<1>1. CollectorInv => TypeOK
  BY DEF CollectorInv
<1> QED BY <1>1, CollectorCorrect, PTL

(* One root per handle, for ever. *)
THEOREM OneRootPerPin == Spec => []RootPerPin
<1>1. CollectorInv => RootPerPin
  BY DEF CollectorInv
<1> QED BY <1>1, CollectorCorrect, PTL

(* No entry of the table is left behind by its memory. *)
THEOREM NoStaleEntry == Spec => []TrackedIsAllocated
<1>1. CollectorInv => TrackedIsAllocated
  BY DEF CollectorInv
<1> QED BY <1>1, CollectorCorrect, PTL

-----------------------------------------------------------------------------
LEMMA SameMutate ==
    ASSUME Mutate
    PROVE  R!Mutate
<1> USE DEF objectVars, rootVars, R!objectVars, R!rootVars
<1>1. ASSUME NEW a \in Addr, Free(a) \/ RegisterObject(a) \/ UnregisterObject(a)
      PROVE  R!Mutate
  BY <1>1 DEF Free, RegisterObject, UnregisterObject,
              R!Mutate, R!Free, R!RegisterObject, R!UnregisterObject
<1>2. ASSUME NEW a \in Addr, NEW words \in Contents,
             \/ Alloc(a, words) \/ Malloc(a, words) \/ Store(a, words)
             \/ \E b \in Addr : Realloc(a, b, words)
      PROVE  R!Mutate
  <2>1. CASE Alloc(a, words) \/ Malloc(a, words) \/ Store(a, words)
    BY <2>1 DEF Alloc, Malloc, Store, R!Mutate, R!Alloc, R!Malloc, R!Store
  <2>2. CASE \E b \in Addr : Realloc(a, b, words)
    BY <2>2 DEF Realloc, R!Mutate, R!Realloc
  <2> QED BY <1>2, <2>1, <2>2
<1>3. ASSUME NEW p \in Pins, NEW q \in Pins, PinCopy(p, q) \/ PinMove(p, q)
      PROVE  R!Mutate
  BY <1>3 DEF PinCopy, PinMove, AddRoot, RemoveRoot,
              R!Mutate, R!PinCopy, R!PinMove, R!AddRoot, R!RemoveRoot
<1>4. ASSUME NEW p \in Pins, NEW raw \in heap \cup {Null}, PinAssign(p, raw)
      PROVE  R!Mutate
  <2>1. R!PinAssign(p, raw)
    BY <1>4 DEF PinAssign, AddRoot, RemoveRoot, R!PinAssign, R!AddRoot, R!RemoveRoot
  <2> QED BY <2>1 DEF R!Mutate
<1>5. ASSUME NEW S \in Emissions, S \subseteq heap, Provide(S)
      PROVE  R!Mutate
  BY <1>5 DEF Provide, R!Mutate, R!Provide
<1>6. ASSUME NEW on \in BOOLEAN, Pause(on)
      PROVE  R!Mutate
  BY <1>6 DEF Pause, R!Mutate, R!Pause
<1> QED BY <1>1, <1>2, <1>3, <1>4, <1>5, <1>6 DEF Mutate

LEMMA SweepReclaims ==
    ASSUME CollectorInv, Sweep
    PROVE  R!Reclaim
<1>1. R!Roots = Roots /\ R!Reachable = Reachable
  BY DEF Roots, Reachable, Closed, R!Roots, R!Reachable, R!Closed
<1>2. phase = "mark" /\ worklist = {} /\ ~paused
  BY DEF Sweep, CollectorInv
<1>3. R!Garbage = tracked \ marked
  <2>1. CASE Roots = {}
    BY <1>1, <1>2, <2>1 DEF R!Garbage, CollectorInv, MarkInv
  <2>2. CASE Roots # {}
    BY <1>1, <1>2, <2>2, MarkedIsReachable DEF R!Garbage
  <2> QED BY <2>1, <2>2
<1>4. tracked \cap marked = tracked \ (tracked \ marked)
  OBVIOUS
<1> QED BY <1>2, <1>3, <1>4 DEF R!Reclaim, Sweep, rootVars, R!rootVars

(* A full collection gives back exactly the garbage, and while it is under  *)
(* way changes nothing else.                                               *)
THEOREM CollectionReclaimsGarbage == Spec => ReclaimsGarbage
<1>1. Init => R!HeapInit /\ ~(phase = "mark")
  BY DEF Init, HeapInit, R!HeapInit
<1>2. CollectorInv /\ [Next]_vars => [R!Next]_(R!vars)
  <2> SUFFICES ASSUME CollectorInv, [Next]_vars
               PROVE  R!Next \/ UNCHANGED R!vars
    OBVIOUS
  <2>1. CASE phase = "idle" /\ Mutate /\ UNCHANGED markVars
    BY <2>1, SameMutate DEF R!Next, markVars
  <2>2. CASE Collect
    <3>1. CASE StartMark
      BY <3>1 DEF StartMark, heapVars, R!Next, R!Call, R!heapVars
    <3>2. ASSUME NEW cur \in Addr, Mark(cur) PROVE UNCHANGED R!vars
      BY <3>2 DEF Mark, heapVars, R!vars
    <3>3. CASE Sweep
      BY <3>3, SweepReclaims DEF R!Next
    <3> QED BY <2>2, <3>1, <3>2, <3>3 DEF Collect
  <2>3. CASE UNCHANGED vars
    BY <2>3 DEF vars, R!vars
  <2> QED BY <2>1, <2>2, <2>3 DEF Next
<1> QED BY <1>1, <1>2, CollectorCorrect, PTL DEF Spec, ReclaimsGarbage, R!Spec

(* The address a handle points to is a root.                               *)
LEMMA PinnedIsRoot ==
    ASSUME TypeOK, RootPerPin, NEW p \in Pins, pin[p] # Null
    PROVE  pin[p] \in Roots
<1>1. pin[p] \in Addr
  BY DEF TypeOK
<1>2. p \in Holders(pin, pin[p]) /\ roots[pin[p]] = Cardinality(Holders(pin, pin[p]))
  BY <1>1 DEF RootPerPin, Holders
<1>3. roots[pin[p]] > 0
  BY <1>2, HoldersFinite, FS_EmptySet
<1> QED BY <1>1, <1>3 DEF Roots

(* Handles keep alive what they lead to: with one root per handle, whatever *)
(* a sweep frees is outside a set that holds the roots, so all the handles, *)
(* and all that its tracked members refer to.                              *)
THEOREM PinsKeep == Spec => PinsKeepAlive
<1>1. ASSUME CollectorInv, [Next]_vars, phase = "mark", NEW a \in heap \ heap'
      PROVE  ~PinLeadsTo(a)
  <2>1. Sweep
    BY <1>1 DEF Next, Collect, StartMark, Mark, heapVars, vars
  <2>2. a \in R!Garbage
    BY <1>1, <2>1, SweepReclaims DEF R!Reclaim
  <2>3. a \in tracked \ Reachable
    BY <2>2 DEF R!Garbage, R!Reachable, R!Closed, R!Roots, Reachable, Closed, Roots
  <2>4. PICK S \in SUBSET Addr : Closed(S) /\ a \notin S
    BY <2>3 DEF Reachable
  <2>5. \A p \in Pins : pin[p] # Null => pin[p] \in S
    BY <1>1, <2>4, PinnedIsRoot DEF CollectorInv, Closed
  <2> QED BY <2>4, <2>5 DEF PinLeadsTo, Closed
<1>2. CollectorInv /\ [Next]_vars =>
        [phase = "mark" => \A a \in heap \ heap' : ~PinLeadsTo(a)]_vars
  BY <1>1
<1> QED BY <1>2, CollectorCorrect, PTL DEF Spec, PinsKeepAlive
=============================================================================
