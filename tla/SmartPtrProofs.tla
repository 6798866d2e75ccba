--------------------------- MODULE SmartPtrProofs ---------------------------
(***************************************************************************)
(* Proofs about Rc, Arc and Weak, for any number of pointers and blocks,   *)
(* under the condition the header needs: threads share strong pointers     *)
(* only, and no object has a weak member.                                  *)
(***************************************************************************)
EXTENDS SmartPtr, FiniteSetTheorems, TLAPS

Disciplined ==
    /\ Shared \subseteq Strongs
    /\ \A w \in Weaks : Home[w] = Null

Counts(g) == pc[g] \in {"idle", "release"}

(* Where an operation is says what it points to and what it reads. *)
PcInv ==
    \A h \in Handles :
        /\ pc[h] \in {"release", "delete", "weakCheck", "strongCheck", "free"}
           => ptr[h] \in Blocks
        /\ pc[h] \in {"delete", "weakCheck"} => h \in Strongs
        /\ pc[h] = "strongCheck" => h \in Weaks
        /\ pc[h] = "upgrade" =>
              /\ h \in Strongs /\ ptr[h] = Null
              /\ src[h] \in Weaks /\ ptr[src[h]] \in Blocks
              /\ strong[ptr[src[h]]] > 0
        /\ pc[h] = "assign" => src[h] # Null /\ ptr[h] = Null
        /\ pc[h] = "idle" => src[h] = Null

(* The operand of an operation under way is left alone by the others. *)
SrcInv ==
    \A h \in Handles :
        src[h] # Null =>
            /\ src[h] # h
            /\ pc[src[h]] = "idle"
            /\ pc[h] # "upgrade" => Alike(h, src[h]) /\ Home[src[h]] = Null

(* While an operation uses a weak pointer, no other is under way. *)
QuietInv ==
    \A h \in Handles :
        (h \in Weaks /\ pc[h] # "idle") \/ src[h] \in Weaks =>
            \A g \in Handles \ {h} : pc[g] = "idle"

(* A counted strong pointer has a live object. *)
KeptInv ==
    \A h \in Strongs :
        ptr[h] # Null /\ Counts(h) => object[ptr[h]] = "live"

(* The pointer that found the count at one is the last of its kind, and the  *)
(* one that deletes the block is the last of all.                            *)
LastInv ==
    \A h \in Handles :
        /\ pc[h] \in {"delete", "weakCheck"} =>
              \A g \in Strongs \ {h} : ptr[g] # ptr[h]
        /\ pc[h] = "strongCheck" => \A g \in Weaks \ {h} : ptr[g] # ptr[h]
        /\ pc[h] = "free" => \A g \in Handles \ {h} : ptr[g] # ptr[h]
        /\ pc[h] = "delete" => object[ptr[h]] = "live"
        /\ pc[h] \in {"weakCheck", "free"} => object[ptr[h]] = "dead"

SmartInv ==
    /\ TypeOK /\ PcInv /\ SrcInv /\ QuietInv
    /\ NoDangling /\ CountsMatch /\ KeptInv /\ LastInv /\ NoLeak

-----------------------------------------------------------------------------
(***************************************************************************)
(* What an operation may assume when it starts.                            *)
(***************************************************************************)
(* The pointers of H are not in use, and either nothing is under way or no  *)
(* weak pointer is concerned.                                               *)
Available(H) ==
    /\ \A x \in H : pc[x] = "idle" /\ \A g \in Handles : src[g] # x
    /\ \/ \A g \in Handles : pc[g] = "idle" /\ src[g] = Null
       \/ /\ H \subseteq Strongs
          /\ \A g \in Handles : /\ pc[g] # "idle" => g \in Strongs
                                /\ src[g] \notin Weaks

LEMMA StartFacts ==
    ASSUME TypeOK, Disciplined, NEW H \in SUBSET Handles, Start(H)
    PROVE  Available(H)
<1>1. \A x \in H : pc[x] = "idle" /\ \A g \in Handles : src[g] # x
  <2> SUFFICES ASSUME NEW x \in H
               PROVE  pc[x] = "idle" /\ \A g \in Handles : src[g] # x
    OBVIOUS
  <2>1. x \in Handles /\ x \notin Busy /\ x # Null
    BY SmartPtrAssumption DEF Start
  <2> QED BY <2>1 DEF Busy
<1>2. CASE Busy = {}
  <2>1. \A g \in Handles : pc[g] = "idle" /\ src[g] = Null
    BY <1>2 DEF Busy
  <2> QED BY <1>1, <2>1 DEF Available
<1>3. CASE H \cup Busy \subseteq Shared
  <2>1. H \cup Busy \subseteq Strongs
    BY <1>3 DEF Disciplined
  <2>2. ASSUME NEW g \in Handles
        PROVE  (pc[g] # "idle" => g \in Strongs) /\ src[g] \notin Weaks
    <3>1. pc[g] # "idle" => g \in Strongs
      BY <2>1 DEF Busy
    <3>2. src[g] # Null => src[g] \in Strongs
      BY <2>1 DEF Busy
    <3>3. Null \notin Weaks /\ Strongs \cap Weaks = {}
      BY SmartPtrAssumption DEF Handles
    <3> QED BY <3>1, <3>2, <3>3
  <2> QED BY <1>1, <2>1, <2>2 DEF Available
<1> QED BY <1>2, <1>3 DEF Start

-----------------------------------------------------------------------------
(***************************************************************************)
(* Counting: what a step does to the pointers that are counted.            *)
(***************************************************************************)
LEMMA CountedFinite ==
    ASSUME NEW H \in SUBSET Handles, NEW b
    PROVE  /\ IsFiniteSet(Counted(H, b))
           /\ Cardinality(Counted(H, b)) \in Nat
           /\ Counted(H, b) = {} <=> Cardinality(Counted(H, b)) = 0
<1>1. Counted(H, b) \in SUBSET Handles
  BY DEF Counted
<1> QED BY <1>1, FS_Subset, FS_CardinalityType, FS_EmptySet, SmartPtrAssumption

SameFor(g) ==
    \A b \in Blocks :
        (ptr'[g] = b /\ Counts(g)') <=> (ptr[g] = b /\ Counts(g))

LEMMA SameCounts ==
    ASSUME CountsMatch, UNCHANGED <<strong, weak>>,
           \A b \in Blocks : object'[b] # "free" =>
               /\ object[b] # "free"
               /\ \A g \in Handles : (ptr'[g] = b /\ Counts(g)')
                                     <=> (ptr[g] = b /\ Counts(g))
    PROVE  CountsMatch'
<1> SUFFICES ASSUME NEW b \in Blocks, object'[b] # "free"
             PROVE  /\ strong'[b] = Cardinality(Counted(Strongs, b)')
                    /\ weak'[b] = Cardinality(Counted(Weaks, b)')
  BY DEF CountsMatch
<1>1. /\ Counted(Strongs, b)' = Counted(Strongs, b)
      /\ Counted(Weaks, b)' = Counted(Weaks, b)
  BY DEF Counted, Counts, Handles
<1> QED BY <1>1 DEF CountsMatch

LEMMA AddCount ==
    ASSUME TypeOK, CountsMatch, NEW h \in Handles, NEW b \in Blocks,
           object[b] # "free", UNCHANGED object, Increment(h, b),
           ~ Counts(h) \/ ptr[h] = Null,
           Counts(h)', ptr'[h] = b,
           \A g \in Handles \ {h} : SameFor(g)
    PROVE  CountsMatch'
<1> SUFFICES ASSUME NEW c \in Blocks, object[c] # "free"
             PROVE  /\ strong'[c] = Cardinality(Counted(Strongs, c)')
                    /\ weak'[c] = Cardinality(Counted(Weaks, c)')
  BY DEF CountsMatch
<1>1. /\ strong[c] = Cardinality(Counted(Strongs, c))
      /\ weak[c] = Cardinality(Counted(Weaks, c))
  BY DEF CountsMatch
<1>2. ASSUME NEW H \in SUBSET Handles
      PROVE  Cardinality(Counted(H, c)') =
                IF c = b /\ h \in H THEN Cardinality(Counted(H, c)) + 1
                                    ELSE Cardinality(Counted(H, c))
  <2>1. CASE c = b /\ h \in H
    <3>1. Counted(H, c)' = Counted(H, c) \cup {h} /\ h \notin Counted(H, c)
      BY <2>1, SmartPtrAssumption DEF Counted, Counts, SameFor
    <3>2. Cardinality(Counted(H, c) \cup {h}) = Cardinality(Counted(H, c)) + 1
      BY <3>1, CountedFinite, FS_AddElement
    <3> QED BY <2>1, <3>1, <3>2
  <2>2. CASE ~ (c = b /\ h \in H)
    <3>1. Counted(H, c)' = Counted(H, c)
      BY <2>2, SmartPtrAssumption DEF Counted, Counts, SameFor
    <3> QED BY <2>2, <3>1
  <2> QED BY <2>1, <2>2
<1>3. Strongs \in SUBSET Handles /\ Weaks \in SUBSET Handles
  BY DEF Handles
<1>4. strong'[c] = IF c = b /\ h \in Strongs THEN strong[c] + 1 ELSE strong[c]
  BY DEF Increment, TypeOK
<1>5. weak'[c] = IF c = b /\ h \in Weaks THEN weak[c] + 1 ELSE weak[c]
  BY DEF Increment, TypeOK
<1> QED BY <1>1, <1>2, <1>3, <1>4, <1>5

Decrement(h, b) ==
    /\ strong' = IF h \in Strongs THEN [strong EXCEPT ![b] = @ - 1] ELSE strong
    /\ weak' = IF h \in Weaks THEN [weak EXCEPT ![b] = @ - 1] ELSE weak

LEMMA DropCount ==
    ASSUME TypeOK, CountsMatch, NEW h \in Handles, NEW b \in Blocks,
           UNCHANGED object, Decrement(h, b),
           Counts(h), ptr[h] = b,
           ~ Counts(h)' \/ ptr'[h] = Null,
           \A g \in Handles \ {h} : SameFor(g)
    PROVE  CountsMatch'
<1> SUFFICES ASSUME NEW c \in Blocks, object[c] # "free"
             PROVE  /\ strong'[c] = Cardinality(Counted(Strongs, c)')
                    /\ weak'[c] = Cardinality(Counted(Weaks, c)')
  BY DEF CountsMatch
<1>1. /\ strong[c] = Cardinality(Counted(Strongs, c))
      /\ weak[c] = Cardinality(Counted(Weaks, c))
  BY DEF CountsMatch
<1>2. ASSUME NEW H \in SUBSET Handles
      PROVE  Cardinality(Counted(H, c)') =
                IF c = b /\ h \in H THEN Cardinality(Counted(H, c)) - 1
                                    ELSE Cardinality(Counted(H, c))
  <2>1. CASE c = b /\ h \in H
    <3>1. Counted(H, c)' = Counted(H, c) \ {h} /\ h \in Counted(H, c)
      BY <2>1, SmartPtrAssumption DEF Counted, Counts, SameFor
    <3>2. Cardinality(Counted(H, c) \ {h}) = Cardinality(Counted(H, c)) - 1
      BY <3>1, CountedFinite, FS_RemoveElement
    <3> QED BY <2>1, <3>1, <3>2
  <2>2. CASE ~ (c = b /\ h \in H)
    <3>1. Counted(H, c)' = Counted(H, c)
      BY <2>2, SmartPtrAssumption DEF Counted, Counts, SameFor
    <3> QED BY <2>2, <3>1
  <2> QED BY <2>1, <2>2
<1>3. Strongs \in SUBSET Handles /\ Weaks \in SUBSET Handles
  BY DEF Handles
<1>4. strong'[c] = IF c = b /\ h \in Strongs THEN strong[c] - 1 ELSE strong[c]
  BY DEF Decrement, TypeOK
<1>5. weak'[c] = IF c = b /\ h \in Weaks THEN weak[c] - 1 ELSE weak[c]
  BY DEF Decrement, TypeOK
<1> QED BY <1>1, <1>2, <1>3, <1>4, <1>5

(* A pointer that is counted gives its place to another one of its kind.    *)
LEMMA MoveCount ==
    ASSUME TypeOK, CountsMatch, NEW h \in Handles, NEW s \in Handles,
           Alike(h, s), h # s, UNCHANGED <<object, strong, weak>>,
           Counts(s), Counts(s)', Counts(h)',
           ~ Counts(h) \/ ptr[h] = Null,
           ptr'[h] = ptr[s], ptr'[s] = Null,
           \A g \in Handles \ {h, s} : SameFor(g)
    PROVE  CountsMatch'
<1> SUFFICES ASSUME NEW c \in Blocks, object[c] # "free"
             PROVE  /\ strong'[c] = Cardinality(Counted(Strongs, c)')
                    /\ weak'[c] = Cardinality(Counted(Weaks, c)')
  BY DEF CountsMatch
<1>1. /\ strong[c] = Cardinality(Counted(Strongs, c))
      /\ weak[c] = Cardinality(Counted(Weaks, c))
  BY DEF CountsMatch
<1>2. ASSUME NEW H \in SUBSET Handles, h \in H <=> s \in H
      PROVE  Cardinality(Counted(H, c)') = Cardinality(Counted(H, c))
  <2>1. CASE ptr[s] = c /\ h \in H
    <3> DEFINE rest == Counted(H, c) \ {s}
    <3>1. Counted(H, c)' = rest \cup {h} /\ h \notin rest
      BY <1>2, <2>1, SmartPtrAssumption DEF Counted, Counts, SameFor
    <3>2. s \in Counted(H, c)
      BY <1>2, <2>1 DEF Counted, Counts
    <3>3. IsFiniteSet(rest) /\ Cardinality(rest) = Cardinality(Counted(H, c)) - 1
      BY <3>2, CountedFinite, FS_RemoveElement
    <3>4. Cardinality(Counted(H, c)') = Cardinality(rest) + 1
      BY <3>1, <3>3, FS_AddElement
    <3> QED BY <3>3, <3>4, CountedFinite
  <2>2. CASE ~ (ptr[s] = c /\ h \in H)
    <3>1. Counted(H, c)' = Counted(H, c)
      BY <1>2, <2>2, SmartPtrAssumption DEF Counted, Counts, SameFor
    <3> QED BY <3>1
  <2> QED BY <2>1, <2>2
<1>3. /\ Strongs \in SUBSET Handles /\ Weaks \in SUBSET Handles
      /\ h \in Strongs <=> s \in Strongs
      /\ h \in Weaks <=> s \in Weaks
  BY SmartPtrAssumption DEF Handles, Alike
<1> QED BY <1>1, <1>2, <1>3

(* A count of zero means no counted pointer, a count of one means that the  *)
(* counted pointer is the only one.                                         *)
LEMMA ZeroCount ==
    ASSUME NEW H \in SUBSET Handles, NEW b,
           Cardinality(Counted(H, b)) = 0, NEW g \in H
    PROVE  ~ (ptr[g] = b /\ Counts(g))
BY CountedFinite DEF Counted, Counts

LEMMA OneCount ==
    ASSUME NEW H \in SUBSET Handles, NEW b,
           Cardinality(Counted(H, b)) = 1,
           NEW h \in H, ptr[h] = b, Counts(h),
           NEW g \in H \ {h}
    PROVE  ~ (ptr[g] = b /\ Counts(g))
<1>1. PICK x : Counted(H, b) = {x}
  BY CountedFinite, FS_Singleton
<1> QED BY <1>1 DEF Counted, Counts

(* A count of more than one leaves another counted pointer, a positive one  *)
(* means that there is one.                                                 *)
LEMMA MoreCount ==
    ASSUME NEW H \in SUBSET Handles, NEW b, NEW n \in Nat,
           Cardinality(Counted(H, b)) = n, NEW h
    PROVE  /\ n > 0 => \E g \in H : ptr[g] = b /\ Counts(g)
           /\ n > 1 => \E g \in H \ {h} : ptr[g] = b /\ Counts(g)
<1>1. n > 0 => \E g \in H : ptr[g] = b /\ Counts(g)
  <2>1. n > 0 => Counted(H, b) # {}
    BY CountedFinite
  <2> QED BY <2>1 DEF Counted, Counts
<1>2. ASSUME n > 1
      PROVE  \E g \in H \ {h} : ptr[g] = b /\ Counts(g)
  <2>1. /\ IsFiniteSet(Counted(H, b) \ {h})
        /\ \/ Cardinality(Counted(H, b) \ {h}) = n
           \/ Cardinality(Counted(H, b) \ {h}) = n - 1
    BY CountedFinite, FS_RemoveElement
  <2>2. Counted(H, b) \ {h} # {}
    BY <1>2, <2>1, FS_EmptySet
  <2> QED BY <2>2 DEF Counted, Counts
<1> QED BY <1>1, <1>2
(***************************************************************************)
(* The end of a release, pointer by pointer.                               *)
(***************************************************************************)
Left(h) ==
    /\ ptr' \in [Handles -> Blocks \cup {Null}]
    /\ pc' \in [Handles -> {"idle", "upgrade", "release", "delete", "weakCheck",
                            "strongCheck", "free", "assign"}]
    /\ ptr'[h] = Null
    /\ \/ pc'[h] = "idle" /\ src[h] = Null
       \/ pc'[h] = "assign" /\ src[h] # Null
    /\ \A g \in Handles \ {h} : ptr'[g] = ptr[g] /\ pc'[g] = pc[g]

LEMMA LeaveFacts ==
    ASSUME TypeOK, NEW h \in Handles, Leave(h)
    PROVE  Left(h)
BY DEF TypeOK, Leave, Left
-----------------------------------------------------------------------------
(***************************************************************************)
(* The invariant is kept by every action.                                  *)
(***************************************************************************)
(* The start of a release changes no count. *)
LEMMA DropStep ==
    ASSUME SmartInv, Disciplined, NEW h \in Handles, Drop(h)
    PROVE  SmartInv'
<1>0. /\ TypeOK /\ PcInv /\ SrcInv /\ QuietInv /\ NoDangling
      /\ CountsMatch /\ KeptInv /\ LastInv /\ NoLeak
  BY DEF SmartInv
<1>s. Available({h})
  BY <1>0, StartFacts DEF Drop, Handles
<1>1. TypeOK'
  BY <1>0, <1>s, SmartPtrAssumption
     DEF Drop, TypeOK, Handles, Available
<1>2. PcInv'
  BY <1>0, <1>s, SmartPtrAssumption
     DEF Drop, PcInv, TypeOK, Handles, Available
<1>3. SrcInv'
  BY <1>0, <1>s, SmartPtrAssumption
     DEF Drop, SrcInv, PcInv, Alike, TypeOK, Handles, Available
<1>4. QuietInv'
  BY <1>0, <1>s, SmartPtrAssumption
     DEF Drop, QuietInv, PcInv, TypeOK, Handles, Available
<1>5. NoDangling'
  BY <1>0, <1>s, SmartPtrAssumption
     DEF Drop, NoDangling, PcInv, TypeOK, Handles, Available
<1>6. CountsMatch'
  BY <1>0, <1>s, SameCounts, SmartPtrAssumption
     DEF Drop, Available, NoDangling, PcInv, Counts, TypeOK, Handles
<1>7. KeptInv'
  BY <1>0, <1>s, SmartPtrAssumption
     DEF Drop, KeptInv, Counts, PcInv, TypeOK, Handles, Available
<1>8. LastInv'
  BY <1>0, <1>s, SmartPtrAssumption
     DEF Drop, LastInv, PcInv, TypeOK, Handles, Available
<1>9. NoLeak'
  BY <1>0, <1>s, SmartPtrAssumption
     DEF Drop, NoLeak, PcInv, TypeOK, Handles, Available
<1> QED BY <1>1, <1>2, <1>3, <1>4, <1>5, <1>6, <1>7, <1>8, <1>9 DEF SmartInv

(* Neither does the start of an assignment. *)
LEMMA AssignStep ==
    ASSUME SmartInv, Disciplined, NEW h \in Handles, NEW s \in Handles, Assign(h, s)
    PROVE  SmartInv'
<1>0. /\ TypeOK /\ PcInv /\ SrcInv /\ QuietInv /\ NoDangling
      /\ CountsMatch /\ KeptInv /\ LastInv /\ NoLeak
  BY DEF SmartInv
<1>s. Available({h, s})
  BY <1>0, StartFacts DEF Assign, Handles
<1>1. TypeOK'
  BY <1>0, <1>s, SmartPtrAssumption
     DEF Assign, TypeOK, Handles, Available
<1>2. PcInv'
  BY <1>0, <1>s, SmartPtrAssumption
     DEF Assign, PcInv, TypeOK, Handles, Available
<1>3. SrcInv'
  BY <1>0, <1>s, SmartPtrAssumption
     DEF Assign, SrcInv, PcInv, Alike, TypeOK, Handles, Available
<1>4. QuietInv'
  BY <1>0, <1>s, SmartPtrAssumption
     DEF Assign, QuietInv, PcInv, TypeOK, Handles, Available
<1>5. NoDangling'
  BY <1>0, <1>s, SmartPtrAssumption
     DEF Assign, NoDangling, PcInv, TypeOK, Handles, Available
<1>6. CountsMatch'
  BY <1>0, <1>s, SameCounts, SmartPtrAssumption
     DEF Assign, Available, NoDangling, PcInv, Counts, TypeOK, Handles
<1>7. KeptInv'
  BY <1>0, <1>s, SmartPtrAssumption
     DEF Assign, KeptInv, Counts, PcInv, TypeOK, Handles, Available
<1>8. LastInv'
  BY <1>0, <1>s, SmartPtrAssumption
     DEF Assign, LastInv, PcInv, TypeOK, Handles, Available
<1>9. NoLeak'
  BY <1>0, <1>s, SmartPtrAssumption
     DEF Assign, NoLeak, PcInv, TypeOK, Handles, Available
<1> QED BY <1>1, <1>2, <1>3, <1>4, <1>5, <1>6, <1>7, <1>8, <1>9 DEF SmartInv

(* Nor the look at an object that is alive. *)
LEMMA UpgradeStep ==
    ASSUME SmartInv, Disciplined, NEW h \in Handles, NEW s \in Handles, Upgrade(h, s)
    PROVE  SmartInv'
<1>0. /\ TypeOK /\ PcInv /\ SrcInv /\ QuietInv /\ NoDangling
      /\ CountsMatch /\ KeptInv /\ LastInv /\ NoLeak
  BY DEF SmartInv
<1>s. Available({h, s})
  BY <1>0, StartFacts DEF Upgrade, Handles
<1>1. TypeOK'
  BY <1>0, <1>s, SmartPtrAssumption
     DEF Upgrade, TypeOK, Handles, Available
<1>2. PcInv'
  BY <1>0, <1>s, SmartPtrAssumption
     DEF Upgrade, PcInv, TypeOK, Handles, Available
<1>3. SrcInv'
  BY <1>0, <1>s, SmartPtrAssumption
     DEF Upgrade, SrcInv, PcInv, Alike, TypeOK, Handles, Available
<1>4. QuietInv'
  BY <1>0, <1>s, SmartPtrAssumption
     DEF Upgrade, QuietInv, PcInv, TypeOK, Handles, Available
<1>5. NoDangling'
  BY <1>0, <1>s, SmartPtrAssumption
     DEF Upgrade, NoDangling, PcInv, TypeOK, Handles, Available
<1>6. CountsMatch'
  BY <1>0, <1>s, SameCounts, SmartPtrAssumption
     DEF Upgrade, Available, NoDangling, PcInv, Counts, TypeOK, Handles
<1>7. KeptInv'
  BY <1>0, <1>s, SmartPtrAssumption
     DEF Upgrade, KeptInv, Counts, PcInv, TypeOK, Handles, Available
<1>8. LastInv'
  BY <1>0, <1>s, SmartPtrAssumption
     DEF Upgrade, LastInv, PcInv, TypeOK, Handles, Available
<1>9. NoLeak'
  BY <1>0, <1>s, SmartPtrAssumption
     DEF Upgrade, NoLeak, PcInv, TypeOK, Handles, Available
<1> QED BY <1>1, <1>2, <1>3, <1>4, <1>5, <1>6, <1>7, <1>8, <1>9 DEF SmartInv

(* A member's release starts. *)
LEMMA DeleteMemberStep ==
    ASSUME SmartInv, Disciplined, NEW h \in Handles, NEW f \in Handles, DeleteMember(h, f)
    PROVE  SmartInv'
<1>0. /\ TypeOK /\ PcInv /\ SrcInv /\ QuietInv /\ NoDangling
      /\ CountsMatch /\ KeptInv /\ LastInv /\ NoLeak
  BY DEF SmartInv
<1>m. /\ h \in Strongs /\ f \in Strongs /\ f # h
      /\ pc[f] = "idle" /\ ptr[f] \in Blocks /\ Home[f] # Null
      /\ src[f] = Null /\ Null \notin Weaks
  BY <1>0, SmartPtrAssumption
     DEF DeleteMember, Members, PcInv, Disciplined, TypeOK, Handles
<1>w. src[h] \notin Weaks
  BY <1>0, <1>m, SmartPtrAssumption DEF DeleteMember, SrcInv, Alike, Handles
<1>1. TypeOK'
  BY <1>0, <1>m, <1>w, SmartPtrAssumption
     DEF DeleteMember, TypeOK, Handles
<1>2. PcInv'
  BY <1>0, <1>m, <1>w, SmartPtrAssumption
     DEF DeleteMember, PcInv, TypeOK, Handles
<1>3. SrcInv'
  BY <1>0, <1>m, <1>w, SmartPtrAssumption
     DEF DeleteMember, SrcInv, PcInv, Alike, TypeOK, Handles
<1>4. QuietInv'
  BY <1>0, <1>m, <1>w, SmartPtrAssumption
     DEF DeleteMember, QuietInv, PcInv, TypeOK, Handles
<1>5. NoDangling'
  BY <1>0, <1>m, <1>w, SmartPtrAssumption
     DEF DeleteMember, NoDangling, PcInv, TypeOK, Handles
<1>6. CountsMatch'
  BY <1>0, <1>m, <1>w, SameCounts, SmartPtrAssumption
     DEF DeleteMember, Members, NoDangling, PcInv, Counts, TypeOK, Handles
<1>7. KeptInv'
  BY <1>0, <1>m, <1>w, SmartPtrAssumption
     DEF DeleteMember, KeptInv, Counts, PcInv, TypeOK, Handles
<1>8. LastInv'
  BY <1>0, <1>m, <1>w, SmartPtrAssumption
     DEF DeleteMember, LastInv, PcInv, TypeOK, Handles
<1>9. NoLeak'
  BY <1>0, <1>m, <1>w, SmartPtrAssumption
     DEF DeleteMember, NoLeak, PcInv, TypeOK, Handles
<1> QED BY <1>1, <1>2, <1>3, <1>4, <1>5, <1>6, <1>7, <1>8, <1>9 DEF SmartInv

(* The object is gone. *)
LEMMA DeletedStep ==
    ASSUME SmartInv, Disciplined, NEW h \in Handles, Deleted(h)
    PROVE  SmartInv'
<1>0. /\ TypeOK /\ PcInv /\ SrcInv /\ QuietInv /\ NoDangling
      /\ CountsMatch /\ KeptInv /\ LastInv /\ NoLeak
  BY DEF SmartInv
<1>m. /\ h \in Strongs /\ ptr[h] \in Blocks /\ object[ptr[h]] = "live"
      /\ \A g \in Strongs \ {h} : ptr[g] # ptr[h]
  BY <1>0 DEF Deleted, PcInv, LastInv
<1>1. TypeOK'
  BY <1>0, <1>m, SmartPtrAssumption
     DEF Deleted, TypeOK, Handles
<1>2. PcInv'
  BY <1>0, <1>m, SmartPtrAssumption
     DEF Deleted, PcInv, TypeOK, Handles
<1>3. SrcInv'
  BY <1>0, <1>m, SmartPtrAssumption
     DEF Deleted, SrcInv, PcInv, Alike, TypeOK, Handles
<1>4. QuietInv'
  BY <1>0, <1>m, SmartPtrAssumption
     DEF Deleted, QuietInv, PcInv, TypeOK, Handles
<1>5. NoDangling'
  BY <1>0, <1>m, SmartPtrAssumption
     DEF Deleted, NoDangling, PcInv, TypeOK, Handles
<1>6. CountsMatch'
  BY <1>0, <1>m, SameCounts, SmartPtrAssumption
     DEF Deleted, NoDangling, PcInv, Counts, TypeOK, Handles
<1>7. KeptInv'
  BY <1>0, <1>m, SmartPtrAssumption
     DEF Deleted, KeptInv, Counts, PcInv, TypeOK, Handles
<1>8. LastInv'
  BY <1>0, <1>m, SmartPtrAssumption
     DEF Deleted, LastInv, PcInv, TypeOK, Handles
<1>9. NoLeak'
  BY <1>0, <1>m, SmartPtrAssumption
     DEF Deleted, NoLeak, PcInv, TypeOK, Handles
<1> QED BY <1>1, <1>2, <1>3, <1>4, <1>5, <1>6, <1>7, <1>8, <1>9 DEF SmartInv

(* The last strong pointer looks at the weak ones. *)
LEMMA CheckWeakStep ==
    ASSUME SmartInv, Disciplined, NEW h \in Handles, CheckWeak(h)
    PROVE  SmartInv'
<1>0. /\ TypeOK /\ PcInv /\ SrcInv /\ QuietInv /\ NoDangling
      /\ CountsMatch /\ KeptInv /\ LastInv /\ NoLeak
  BY DEF SmartInv
<1>m. h \in Strongs /\ h \notin Weaks /\ ptr[h] \in Blocks
  BY <1>0, SmartPtrAssumption DEF CheckWeak, PcInv, Handles
<1>c. weak[ptr[h]] = Cardinality(Counted(Weaks, ptr[h])) /\ weak[ptr[h]] \in Nat
  BY <1>0, <1>m DEF CheckWeak, CountsMatch, LastInv, TypeOK
<1>z. weak[ptr[h]] = 0 => \A g \in Weaks : ptr[g] # ptr[h]
  BY <1>0, <1>m, <1>c, ZeroCount DEF CheckWeak, QuietInv, Counts, Handles
<1>d. object[ptr[h]] = "dead"
  BY <1>0 DEF CheckWeak, LastInv
<1>p. weak[ptr[h]] # 0 => \E g \in Weaks : ptr[g] = ptr[h]
  BY <1>c, MoreCount DEF Handles
<1>l. IF weak[ptr[h]] = 0
         THEN pc' = [pc EXCEPT ![h] = "free"] /\ UNCHANGED ptr
         ELSE Left(h)
  BY <1>0, LeaveFacts DEF CheckWeak
<1>1. TypeOK'
  BY <1>0, <1>m, <1>c, <1>z, <1>d, <1>p, <1>l, SmartPtrAssumption
     DEF CheckWeak, Left, TypeOK, Handles
<1>2. PcInv'
  BY <1>0, <1>m, <1>c, <1>z, <1>d, <1>p, <1>l, SmartPtrAssumption
     DEF CheckWeak, Left, PcInv, TypeOK, Handles
<1>3. SrcInv'
  BY <1>0, <1>m, <1>c, <1>z, <1>d, <1>p, <1>l, SmartPtrAssumption
     DEF CheckWeak, Left, SrcInv, PcInv, Alike, TypeOK, Handles
<1>4. QuietInv'
  BY <1>0, <1>m, <1>c, <1>z, <1>d, <1>p, <1>l, SmartPtrAssumption
     DEF CheckWeak, Left, QuietInv, PcInv, TypeOK, Handles
<1>5. NoDangling'
  BY <1>0, <1>m, <1>c, <1>z, <1>d, <1>p, <1>l, SmartPtrAssumption
     DEF CheckWeak, Left, NoDangling, PcInv, TypeOK, Handles
<1>6. CountsMatch'
  BY <1>0, <1>m, <1>c, <1>z, <1>d, <1>p, <1>l, SameCounts, SmartPtrAssumption
     DEF CheckWeak, Left, NoDangling, PcInv, Counts, TypeOK, Handles
<1>7. KeptInv'
  BY <1>0, <1>m, <1>c, <1>z, <1>d, <1>p, <1>l, SmartPtrAssumption
     DEF CheckWeak, Left, KeptInv, Counts, PcInv, TypeOK, Handles
<1>8. LastInv'
  BY <1>0, <1>m, <1>c, <1>z, <1>d, <1>p, <1>l, SmartPtrAssumption
     DEF CheckWeak, Left, LastInv, PcInv, TypeOK, Handles
<1>9. NoLeak'
  BY <1>0, <1>m, <1>c, <1>z, <1>d, <1>p, <1>l, SmartPtrAssumption
     DEF CheckWeak, Left, NoLeak, PcInv, TypeOK, Handles
<1> QED BY <1>1, <1>2, <1>3, <1>4, <1>5, <1>6, <1>7, <1>8, <1>9 DEF SmartInv

(* The last weak pointer looks at the strong ones. *)
LEMMA CheckStrongStep ==
    ASSUME SmartInv, Disciplined, NEW h \in Handles, CheckStrong(h)
    PROVE  SmartInv'
<1>0. /\ TypeOK /\ PcInv /\ SrcInv /\ QuietInv /\ NoDangling
      /\ CountsMatch /\ KeptInv /\ LastInv /\ NoLeak
  BY DEF SmartInv
<1>m. /\ h \in Weaks /\ h \notin Strongs /\ ptr[h] \in Blocks
      /\ \A g \in Strongs : pc[g] = "idle"
  BY <1>0, SmartPtrAssumption DEF CheckStrong, PcInv, QuietInv, Handles
<1>c. strong[ptr[h]] = Cardinality(Counted(Strongs, ptr[h])) /\ strong[ptr[h]] \in Nat
  BY <1>0, <1>m, SmartPtrAssumption DEF CountsMatch, NoDangling, TypeOK, Handles
<1>z. strong[ptr[h]] = 0 => \A g \in Strongs : ptr[g] # ptr[h]
  BY <1>m, <1>c, ZeroCount DEF Counts, Handles
<1>p. strong[ptr[h]] # 0 => \E g \in Strongs : ptr[g] = ptr[h] /\ Counts(g)
  <2>1. Strongs \in SUBSET Handles /\ (strong[ptr[h]] # 0 => strong[ptr[h]] > 0)
    BY <1>c DEF Handles
  <2> QED BY <1>c, <2>1, MoreCount
<1>d. strong[ptr[h]] = 0 => object[ptr[h]] = "dead"
  BY <1>0, <1>m, <1>z, SmartPtrAssumption DEF NoDangling, NoLeak, TypeOK, Handles
<1>l. IF strong[ptr[h]] = 0
         THEN pc' = [pc EXCEPT ![h] = "free"] /\ UNCHANGED ptr
         ELSE Left(h)
  BY <1>0, LeaveFacts DEF CheckStrong
<1>1. TypeOK'
  BY <1>0, <1>m, <1>c, <1>z, <1>p, <1>d, <1>l, SmartPtrAssumption
     DEF CheckStrong, Left, TypeOK, Handles
<1>2. PcInv'
  BY <1>0, <1>m, <1>c, <1>z, <1>p, <1>d, <1>l, SmartPtrAssumption
     DEF CheckStrong, Left, PcInv, TypeOK, Handles
<1>3. SrcInv'
  BY <1>0, <1>m, <1>c, <1>z, <1>p, <1>d, <1>l, SmartPtrAssumption
     DEF CheckStrong, Left, SrcInv, PcInv, Alike, TypeOK, Handles
<1>4. QuietInv'
  BY <1>0, <1>m, <1>c, <1>z, <1>p, <1>d, <1>l, SmartPtrAssumption
     DEF CheckStrong, Left, QuietInv, PcInv, TypeOK, Handles
<1>5. NoDangling'
  BY <1>0, <1>m, <1>c, <1>z, <1>p, <1>d, <1>l, SmartPtrAssumption
     DEF CheckStrong, Left, NoDangling, PcInv, TypeOK, Handles
<1>6. CountsMatch'
  BY <1>0, <1>m, <1>c, <1>z, <1>p, <1>d, <1>l, SameCounts, SmartPtrAssumption
     DEF CheckStrong, Left, NoDangling, PcInv, Counts, TypeOK, Handles
<1>7. KeptInv'
  BY <1>0, <1>m, <1>c, <1>z, <1>p, <1>d, <1>l, SmartPtrAssumption
     DEF CheckStrong, Left, KeptInv, Counts, PcInv, TypeOK, Handles
<1>8. LastInv'
  BY <1>0, <1>m, <1>c, <1>z, <1>p, <1>d, <1>l, SmartPtrAssumption
     DEF CheckStrong, Left, LastInv, PcInv, TypeOK, Handles
<1>9. NoLeak'
  BY <1>0, <1>m, <1>c, <1>z, <1>p, <1>d, <1>l, SmartPtrAssumption, SmartPtrAssumption
     DEF CheckStrong, Left, NoLeak, PcInv, TypeOK, Handles
<1> QED BY <1>1, <1>2, <1>3, <1>4, <1>5, <1>6, <1>7, <1>8, <1>9 DEF SmartInv

(* The block is deleted. *)
LEMMA FreeBlockStep ==
    ASSUME SmartInv, Disciplined, NEW h \in Handles, FreeBlock(h)
    PROVE  SmartInv'
<1>0. /\ TypeOK /\ PcInv /\ SrcInv /\ QuietInv /\ NoDangling
      /\ CountsMatch /\ KeptInv /\ LastInv /\ NoLeak
  BY DEF SmartInv
<1>m. ptr[h] \in Blocks /\ \A g \in Handles \ {h} : ptr[g] # ptr[h]
  BY <1>0 DEF FreeBlock, PcInv, LastInv
<1>l. Left(h)
  BY <1>0, LeaveFacts DEF FreeBlock
<1>q. \A g \in Handles : pc[g] # "upgrade"
  BY <1>0 DEF FreeBlock, PcInv, QuietInv
<1>1. TypeOK'
  BY <1>0, <1>m, <1>l, <1>q, SmartPtrAssumption
     DEF FreeBlock, Left, TypeOK, Handles
<1>2. PcInv'
  BY <1>0, <1>m, <1>l, <1>q, SmartPtrAssumption
     DEF FreeBlock, Left, PcInv, TypeOK, Handles
<1>3. SrcInv'
  BY <1>0, <1>m, <1>l, <1>q, SmartPtrAssumption
     DEF FreeBlock, Left, SrcInv, PcInv, Alike, TypeOK, Handles
<1>4. QuietInv'
  BY <1>0, <1>m, <1>l, <1>q, SmartPtrAssumption
     DEF FreeBlock, Left, QuietInv, PcInv, TypeOK, Handles
<1>5. NoDangling'
  BY <1>0, <1>m, <1>l, <1>q, SmartPtrAssumption
     DEF FreeBlock, Left, NoDangling, PcInv, TypeOK, Handles
<1>6. CountsMatch'
  BY <1>0, <1>m, <1>l, <1>q, SameCounts, SmartPtrAssumption
     DEF FreeBlock, Left, LastInv, NoDangling, PcInv, Counts, TypeOK, Handles
<1>7. KeptInv'
  BY <1>0, <1>m, <1>l, <1>q, SmartPtrAssumption
     DEF FreeBlock, Left, KeptInv, Counts, PcInv, TypeOK, Handles
<1>8. LastInv'
  BY <1>0, <1>m, <1>l, <1>q, SmartPtrAssumption
     DEF FreeBlock, Left, LastInv, PcInv, TypeOK, Handles
<1>9. NoLeak'
  BY <1>0, <1>m, <1>l, <1>q, SmartPtrAssumption
     DEF FreeBlock, Left, NoLeak, PcInv, TypeOK, Handles
<1> QED BY <1>1, <1>2, <1>3, <1>4, <1>5, <1>6, <1>7, <1>8, <1>9 DEF SmartInv

(* A block nothing pointed to. *)
LEMMA CreateStep ==
    ASSUME SmartInv, Disciplined, NEW h \in Handles, NEW b \in Blocks, Create(h, b)
    PROVE  SmartInv'
<1>0. /\ TypeOK /\ PcInv /\ SrcInv /\ QuietInv /\ NoDangling
      /\ CountsMatch /\ KeptInv /\ LastInv /\ NoLeak
  BY DEF SmartInv
<1>s. Available({h})
  BY <1>0, StartFacts DEF Create, Handles
<1>m. \A g \in Handles : ptr[g] # b
  BY <1>0, SmartPtrAssumption DEF Create, NoDangling
<1>1. TypeOK'
  BY <1>0, <1>s, <1>m, SmartPtrAssumption
     DEF Create, TypeOK, Handles, Available
<1>2. PcInv'
  BY <1>0, <1>s, <1>m, SmartPtrAssumption
     DEF Create, PcInv, TypeOK, Handles, Available
<1>3. SrcInv'
  BY <1>0, <1>s, <1>m, SmartPtrAssumption
     DEF Create, SrcInv, PcInv, Alike, TypeOK, Handles, Available
<1>4. QuietInv'
  BY <1>0, <1>s, <1>m, SmartPtrAssumption
     DEF Create, QuietInv, PcInv, TypeOK, Handles, Available
<1>5. NoDangling'
  BY <1>0, <1>s, <1>m, SmartPtrAssumption
     DEF Create, NoDangling, PcInv, TypeOK, Handles, Available
<1>6. CountsMatch'
  <2>1. /\ Counted(Strongs, b)' = {h}
        /\ Counted(Weaks, b)' = {}
    BY <1>0, <1>s, <1>m, SmartPtrAssumption
       DEF Create, Available, Counted, NoDangling, TypeOK, Handles
  <2>2. /\ strong'[b] = Cardinality(Counted(Strongs, b)')
        /\ weak'[b] = Cardinality(Counted(Weaks, b)')
    BY <1>0, <2>1, FS_Singleton, FS_EmptySet DEF Create, TypeOK
  <2>3. ASSUME NEW c \in Blocks \ {b}, object'[c] # "free"
        PROVE  /\ strong'[c] = Cardinality(Counted(Strongs, c)')
               /\ weak'[c] = Cardinality(Counted(Weaks, c)')
    <3>1. /\ Counted(Strongs, c)' = Counted(Strongs, c)
          /\ Counted(Weaks, c)' = Counted(Weaks, c)
      BY <1>0, <1>s, <1>m, SmartPtrAssumption DEF Create, Counted, TypeOK, Handles
    <3>2. strong'[c] = strong[c] /\ weak'[c] = weak[c] /\ object[c] # "free"
      BY <1>0, <2>3 DEF Create, TypeOK
    <3> QED BY <1>0, <3>1, <3>2 DEF CountsMatch
  <2> QED BY <2>2, <2>3 DEF CountsMatch
<1>7. KeptInv'
  BY <1>0, <1>s, <1>m, SmartPtrAssumption
     DEF Create, KeptInv, Counts, PcInv, TypeOK, Handles, Available
<1>8. LastInv'
  BY <1>0, <1>s, <1>m, SmartPtrAssumption
     DEF Create, LastInv, PcInv, TypeOK, Handles, Available
<1>9. NoLeak'
  BY <1>0, <1>s, <1>m, SmartPtrAssumption
     DEF Create, NoLeak, PcInv, TypeOK, Handles, Available
<1> QED BY <1>1, <1>2, <1>3, <1>4, <1>5, <1>6, <1>7, <1>8, <1>9 DEF SmartInv

(* A pointer more. *)
LEMMA CopyStep ==
    ASSUME SmartInv, Disciplined, NEW h \in Handles, NEW s \in Handles, Copy(h, s)
    PROVE  SmartInv'
<1>0. /\ TypeOK /\ PcInv /\ SrcInv /\ QuietInv /\ NoDangling
      /\ CountsMatch /\ KeptInv /\ LastInv /\ NoLeak
  BY DEF SmartInv
<1>s. Available({h, s})
  BY <1>0, StartFacts DEF Copy, Handles
<1>m. ptr[s] \in Blocks /\ object[ptr[s]] # "free" /\ Increment(h, ptr[s])
  BY <1>0 DEF Copy, NoDangling, TypeOK
<1>1. TypeOK'
  BY <1>0, <1>s, <1>m, SmartPtrAssumption
     DEF Copy, Increment, TypeOK, Handles, Available
<1>2. PcInv'
  BY <1>0, <1>s, <1>m, SmartPtrAssumption
     DEF Copy, Increment, PcInv, TypeOK, Handles, Available
<1>3. SrcInv'
  BY <1>0, <1>s, <1>m, SmartPtrAssumption
     DEF Copy, Increment, SrcInv, PcInv, Alike, TypeOK, Handles, Available
<1>4. QuietInv'
  BY <1>0, <1>s, <1>m, SmartPtrAssumption
     DEF Copy, Increment, QuietInv, PcInv, TypeOK, Handles, Available
<1>5. NoDangling'
  BY <1>0, <1>s, <1>m, SmartPtrAssumption
     DEF Copy, Increment, NoDangling, PcInv, TypeOK, Handles, Available
<1>6. CountsMatch'
  <2>1. \A g \in Handles \ {h} : SameFor(g)
    BY <1>0, <1>s, <1>m DEF Copy, Available, SameFor, Counts, TypeOK
  <2> QED BY <1>0, <1>s, <1>m, <2>1, AddCount DEF Copy, Available, Counts, Increment, TypeOK
<1>7. KeptInv'
  BY <1>0, <1>s, <1>m, SmartPtrAssumption
     DEF Copy, Increment, KeptInv, Counts, PcInv, TypeOK, Handles, Available
<1>8. LastInv'
  BY <1>0, <1>s, <1>m, SmartPtrAssumption
     DEF Copy, Increment, LastInv, PcInv, TypeOK, Handles, Available
<1>9. NoLeak'
  BY <1>0, <1>s, <1>m, SmartPtrAssumption
     DEF Copy, Increment, NoLeak, PcInv, TypeOK, Handles, Available
<1> QED BY <1>1, <1>2, <1>3, <1>4, <1>5, <1>6, <1>7, <1>8, <1>9 DEF SmartInv

(* A pointer instead of another. *)
LEMMA MoveStep ==
    ASSUME SmartInv, Disciplined, NEW h \in Handles, NEW s \in Handles, Move(h, s)
    PROVE  SmartInv'
<1>0. /\ TypeOK /\ PcInv /\ SrcInv /\ QuietInv /\ NoDangling
      /\ CountsMatch /\ KeptInv /\ LastInv /\ NoLeak
  BY DEF SmartInv
<1>s. Available({h, s})
  BY <1>0, StartFacts DEF Move, Handles
<1>m. /\ ptr[s] \in Blocks /\ ptr'[h] = ptr[s] /\ ptr'[s] = Null
      /\ h \in Strongs <=> s \in Strongs
      /\ h \in Weaks <=> s \in Weaks
      /\ \A g \in Handles \ {h, s} : ptr'[g] = ptr[g]
  BY <1>0, SmartPtrAssumption DEF Move, Alike, TypeOK, Handles
<1>1. TypeOK'
  BY <1>0, <1>s, <1>m, SmartPtrAssumption
     DEF Move, TypeOK, Handles, Available
<1>2. PcInv'
  BY <1>0, <1>s, <1>m, SmartPtrAssumption
     DEF Move, PcInv, TypeOK, Handles, Available
<1>3. SrcInv'
  BY <1>0, <1>s, <1>m, SmartPtrAssumption
     DEF Move, SrcInv, PcInv, Alike, TypeOK, Handles, Available
<1>4. QuietInv'
  BY <1>0, <1>s, <1>m, SmartPtrAssumption
     DEF Move, QuietInv, PcInv, TypeOK, Handles, Available
<1>5. NoDangling'
  BY <1>0, <1>s, <1>m, SmartPtrAssumption
     DEF Move, NoDangling, PcInv, TypeOK, Handles, Available
<1>6. CountsMatch'
  <2>1. \A g \in Handles \ {h, s} : SameFor(g)
    BY <1>0, <1>s, <1>m DEF Move, SameFor, Counts, TypeOK
  <2> QED BY <1>0, <1>s, <1>m, <2>1, MoveCount, SmartPtrAssumption DEF Move, Counts, Available, TypeOK
<1>7. KeptInv'
  BY <1>0, <1>s, <1>m, SmartPtrAssumption
     DEF Move, KeptInv, Counts, PcInv, TypeOK, Handles, Available
<1>8. LastInv'
  BY <1>0, <1>s, <1>m, SmartPtrAssumption
     DEF Move, LastInv, PcInv, TypeOK, Handles, Available
<1>9. NoLeak'
  BY <1>0, <1>s, <1>m, SmartPtrAssumption
     DEF Move, NoLeak, PcInv, TypeOK, Handles, Available
<1> QED BY <1>1, <1>2, <1>3, <1>4, <1>5, <1>6, <1>7, <1>8, <1>9 DEF SmartInv

(* A strong pointer more. *)
LEMMA TakeUpgradeStep ==
    ASSUME SmartInv, Disciplined, NEW h \in Handles, TakeUpgrade(h)
    PROVE  SmartInv'
<1>0. /\ TypeOK /\ PcInv /\ SrcInv /\ QuietInv /\ NoDangling
      /\ CountsMatch /\ KeptInv /\ LastInv /\ NoLeak
  BY DEF SmartInv
<1>m. /\ h \in Strongs /\ h \notin Weaks /\ src[h] \in Weaks
      /\ ptr[h] = Null /\ ptr[src[h]] \in Blocks
      /\ \A g \in Handles \ {h} : pc[g] = "idle" /\ src[g] = Null
  BY <1>0, SmartPtrAssumption DEF TakeUpgrade, PcInv, QuietInv, Handles
<1>f. object[ptr[src[h]]] # "free"
  BY <1>0, <1>m, SmartPtrAssumption DEF NoDangling, TypeOK, Handles
<1>k. object[ptr[src[h]]] = "live"
  <2> DEFINE b == ptr[src[h]]
  <2>1. /\ strong[b] = Cardinality(Counted(Strongs, b))
        /\ strong[b] \in Nat /\ strong[b] > 0
    BY <1>0, <1>m, <1>f DEF TakeUpgrade, PcInv, CountsMatch, TypeOK
  <2>2. PICK g \in Strongs : ptr[g] = b /\ Counts(g)
    BY <2>1, MoreCount DEF Handles
  <2> QED BY <1>0, <1>m, <2>2, SmartPtrAssumption DEF KeptInv, Handles
<1>n. /\ ptr'[h] = ptr[src[h]] /\ pc'[h] = "idle" /\ src'[h] = Null
      /\ \A g \in Handles \ {h} : /\ ptr'[g] = ptr[g] /\ pc'[g] = pc[g]
                                 /\ src'[g] = src[g]
  BY <1>0 DEF TakeUpgrade, TypeOK
<1>1. TypeOK'
  BY <1>0, <1>m, <1>f, <1>k, <1>n, SmartPtrAssumption
     DEF TakeUpgrade, TypeOK, Handles
<1>2. PcInv'
  BY <1>0, <1>m, <1>f, <1>k, <1>n, SmartPtrAssumption
     DEF TakeUpgrade, PcInv, TypeOK, Handles
<1>3. SrcInv'
  BY <1>0, <1>m, <1>f, <1>k, <1>n, SmartPtrAssumption
     DEF TakeUpgrade, SrcInv, PcInv, Alike, TypeOK, Handles
<1>4. QuietInv'
  BY <1>0, <1>m, <1>f, <1>k, <1>n, SmartPtrAssumption
     DEF TakeUpgrade, QuietInv, PcInv, TypeOK, Handles
<1>5. NoDangling'
  BY <1>0, <1>m, <1>f, <1>k, <1>n, SmartPtrAssumption
     DEF TakeUpgrade, NoDangling, PcInv, TypeOK, Handles
<1>6. CountsMatch'
  <2>1. \A g \in Handles \ {h} : SameFor(g)
    BY <1>0, <1>m, <1>f, <1>k, <1>n DEF TakeUpgrade, SameFor, Counts, TypeOK
  <2>2. Increment(h, ptr[src[h]])
    BY <1>0, <1>m, <1>f, <1>k, <1>n, SmartPtrAssumption DEF TakeUpgrade, Increment
  <2> QED BY <1>0, <1>m, <1>f, <1>k, <1>n, <2>1, <2>2, AddCount DEF TakeUpgrade, Counts, TypeOK
<1>7. KeptInv'
  BY <1>0, <1>m, <1>f, <1>k, <1>n, SmartPtrAssumption
     DEF TakeUpgrade, KeptInv, Counts, PcInv, TypeOK, Handles
<1>8. LastInv'
  BY <1>0, <1>m, <1>f, <1>k, <1>n, SmartPtrAssumption
     DEF TakeUpgrade, LastInv, PcInv, TypeOK, Handles
<1>9. NoLeak'
  BY <1>0, <1>m, <1>f, <1>k, <1>n, SmartPtrAssumption
     DEF TakeUpgrade, NoLeak, PcInv, TypeOK, Handles
<1> QED BY <1>1, <1>2, <1>3, <1>4, <1>5, <1>6, <1>7, <1>8, <1>9 DEF SmartInv

(* A strong pointer less. *)
LEMMA ReleaseStrongStep ==
    ASSUME SmartInv, Disciplined, NEW h \in Handles, ReleaseStrong(h)
    PROVE  SmartInv'
<1>0. /\ TypeOK /\ PcInv /\ SrcInv /\ QuietInv /\ NoDangling
      /\ CountsMatch /\ KeptInv /\ LastInv /\ NoLeak
  BY DEF SmartInv
<1>m. /\ h \in Strongs /\ h \notin Weaks /\ ptr[h] \in Blocks /\ pc[h] = "release"
      /\ object[ptr[h]] # "free"
  BY <1>0, SmartPtrAssumption DEF ReleaseStrong, PcInv, NoDangling, Handles
<1>c. /\ strong[ptr[h]] = Cardinality(Counted(Strongs, ptr[h]))
      /\ strong[ptr[h]] \in Nat
  BY <1>0, <1>m DEF CountsMatch, TypeOK
<1>g. strong[ptr[h]] > 0
  BY <1>m, <1>c, ZeroCount DEF Counts, Handles
<1>o. strong[ptr[h]] = 1 => \A g \in Strongs \ {h} : ptr[g] # ptr[h]
  <2> SUFFICES ASSUME strong[ptr[h]] = 1, NEW g \in Strongs \ {h}, ptr[g] = ptr[h]
               PROVE  FALSE
    OBVIOUS
  <2>1. ~ Counts(g)
    BY <1>m, <1>c, OneCount DEF Counts, Handles
  <2> QED BY <1>0, <1>m, <2>1, SmartPtrAssumption
          DEF PcInv, LastInv, QuietInv, Counts, TypeOK, Handles
<1>p. strong[ptr[h]] # 1 => \E g \in Strongs \ {h} : ptr[g] = ptr[h] /\ Counts(g)
  <2>1. Strongs \in SUBSET Handles /\ (strong[ptr[h]] # 1 => strong[ptr[h]] > 1)
    BY <1>c, <1>g DEF Handles
  <2> QED BY <1>c, <2>1, MoreCount
<1>q. \A g \in Handles : pc[g] # "upgrade"
  BY <1>0, <1>m DEF PcInv, QuietInv, Handles
<1>l. IF strong[ptr[h]] = 1
         THEN pc' = [pc EXCEPT ![h] = "delete"] /\ UNCHANGED ptr
         ELSE Left(h)
  BY <1>0, LeaveFacts DEF ReleaseStrong
<1>k. object[ptr[h]] = "live"
  BY <1>0, <1>m, SmartPtrAssumption DEF KeptInv, Counts, TypeOK, Handles
<1>1. TypeOK'
  BY <1>0, <1>m, <1>c, <1>g, <1>o, <1>p, <1>q, <1>l, <1>k, SmartPtrAssumption
     DEF ReleaseStrong, Left, TypeOK, Handles
<1>2. PcInv'
  BY <1>0, <1>m, <1>c, <1>g, <1>o, <1>p, <1>q, <1>l, <1>k, SmartPtrAssumption
     DEF ReleaseStrong, Left, PcInv, TypeOK, Handles
<1>3. SrcInv'
  BY <1>0, <1>m, <1>c, <1>g, <1>o, <1>p, <1>q, <1>l, <1>k, SmartPtrAssumption
     DEF ReleaseStrong, Left, SrcInv, PcInv, Alike, TypeOK, Handles
<1>4. QuietInv'
  BY <1>0, <1>m, <1>c, <1>g, <1>o, <1>p, <1>q, <1>l, <1>k, SmartPtrAssumption
     DEF ReleaseStrong, Left, QuietInv, PcInv, TypeOK, Handles
<1>5. NoDangling'
  BY <1>0, <1>m, <1>c, <1>g, <1>o, <1>p, <1>q, <1>l, <1>k, SmartPtrAssumption
     DEF ReleaseStrong, Left, NoDangling, PcInv, TypeOK, Handles
<1>6. CountsMatch'
  <2>1. \A g \in Handles \ {h} : SameFor(g)
    BY <1>0, <1>m, <1>c, <1>g, <1>o, <1>p, <1>q, <1>l, <1>k DEF ReleaseStrong, Left, SameFor, Counts, TypeOK
  <2>2. Decrement(h, ptr[h])
    BY <1>0, <1>m, <1>c, <1>g, <1>o, <1>p, <1>q, <1>l, <1>k DEF ReleaseStrong, Decrement
  <2>3. ~ Counts(h)' \/ ptr'[h] = Null
    BY <1>0, <1>m, <1>c, <1>g, <1>o, <1>p, <1>q, <1>l, <1>k DEF ReleaseStrong, Left, Counts, TypeOK
  <2> QED BY <1>0, <1>m, <1>c, <1>g, <1>o, <1>p, <1>q, <1>l, <1>k, <2>1, <2>2, <2>3, DropCount DEF ReleaseStrong, Counts, TypeOK
<1>7. KeptInv'
  BY <1>0, <1>m, <1>c, <1>g, <1>o, <1>p, <1>q, <1>l, <1>k, SmartPtrAssumption
     DEF ReleaseStrong, Left, KeptInv, Counts, PcInv, TypeOK, Handles
<1>8. LastInv'
  BY <1>0, <1>m, <1>c, <1>g, <1>o, <1>p, <1>q, <1>l, <1>k, SmartPtrAssumption
     DEF ReleaseStrong, Left, LastInv, PcInv, TypeOK, Handles
<1>9. NoLeak'
  BY <1>0, <1>m, <1>c, <1>g, <1>o, <1>p, <1>q, <1>l, <1>k, SmartPtrAssumption
     DEF ReleaseStrong, Left, NoLeak, PcInv, TypeOK, Handles
<1> QED BY <1>1, <1>2, <1>3, <1>4, <1>5, <1>6, <1>7, <1>8, <1>9 DEF SmartInv

(* A weak pointer less. *)
LEMMA ReleaseWeakStep ==
    ASSUME SmartInv, Disciplined, NEW h \in Handles, ReleaseWeak(h)
    PROVE  SmartInv'
<1>0. /\ TypeOK /\ PcInv /\ SrcInv /\ QuietInv /\ NoDangling
      /\ CountsMatch /\ KeptInv /\ LastInv /\ NoLeak
  BY DEF SmartInv
<1>m. /\ h \in Weaks /\ h \notin Strongs /\ ptr[h] \in Blocks /\ pc[h] = "release"
      /\ object[ptr[h]] # "free"
  BY <1>0, SmartPtrAssumption DEF ReleaseWeak, PcInv, NoDangling, Handles
<1>c. /\ weak[ptr[h]] = Cardinality(Counted(Weaks, ptr[h]))
      /\ weak[ptr[h]] \in Nat
  BY <1>0, <1>m DEF CountsMatch, TypeOK
<1>g. weak[ptr[h]] > 0
  BY <1>m, <1>c, ZeroCount DEF Counts, Handles
<1>o. weak[ptr[h]] = 1 => \A g \in Weaks \ {h} : ptr[g] # ptr[h]
  <2> SUFFICES ASSUME weak[ptr[h]] = 1, NEW g \in Weaks \ {h}, ptr[g] = ptr[h]
               PROVE  FALSE
    OBVIOUS
  <2>1. ~ Counts(g)
    BY <1>m, <1>c, OneCount DEF Counts, Handles
  <2> QED BY <1>0, <1>m, <2>1, SmartPtrAssumption
          DEF PcInv, LastInv, QuietInv, Counts, TypeOK, Handles
<1>p. weak[ptr[h]] # 1 => \E g \in Weaks \ {h} : ptr[g] = ptr[h] /\ Counts(g)
  <2>1. Weaks \in SUBSET Handles /\ (weak[ptr[h]] # 1 => weak[ptr[h]] > 1)
    BY <1>c, <1>g DEF Handles
  <2> QED BY <1>c, <2>1, MoreCount
<1>q. \A g \in Handles : pc[g] # "upgrade"
  BY <1>0, <1>m DEF PcInv, QuietInv, Handles
<1>l. IF weak[ptr[h]] = 1
         THEN pc' = [pc EXCEPT ![h] = "strongCheck"] /\ UNCHANGED ptr
         ELSE Left(h)
  BY <1>0, LeaveFacts DEF ReleaseWeak
<1>1. TypeOK'
  BY <1>0, <1>m, <1>c, <1>g, <1>o, <1>p, <1>q, <1>l, SmartPtrAssumption
     DEF ReleaseWeak, Left, TypeOK, Handles
<1>2. PcInv'
  BY <1>0, <1>m, <1>c, <1>g, <1>o, <1>p, <1>q, <1>l, SmartPtrAssumption
     DEF ReleaseWeak, Left, PcInv, TypeOK, Handles
<1>3. SrcInv'
  BY <1>0, <1>m, <1>c, <1>g, <1>o, <1>p, <1>q, <1>l, SmartPtrAssumption
     DEF ReleaseWeak, Left, SrcInv, PcInv, Alike, TypeOK, Handles
<1>4. QuietInv'
  BY <1>0, <1>m, <1>c, <1>g, <1>o, <1>p, <1>q, <1>l, SmartPtrAssumption
     DEF ReleaseWeak, Left, QuietInv, PcInv, TypeOK, Handles
<1>5. NoDangling'
  BY <1>0, <1>m, <1>c, <1>g, <1>o, <1>p, <1>q, <1>l, SmartPtrAssumption
     DEF ReleaseWeak, Left, NoDangling, PcInv, TypeOK, Handles
<1>6. CountsMatch'
  <2>1. \A g \in Handles \ {h} : SameFor(g)
    BY <1>0, <1>m, <1>c, <1>g, <1>o, <1>p, <1>q, <1>l DEF ReleaseWeak, Left, SameFor, Counts, TypeOK
  <2>2. Decrement(h, ptr[h])
    BY <1>0, <1>m, <1>c, <1>g, <1>o, <1>p, <1>q, <1>l DEF ReleaseWeak, Decrement
  <2>3. ~ Counts(h)' \/ ptr'[h] = Null
    BY <1>0, <1>m, <1>c, <1>g, <1>o, <1>p, <1>q, <1>l DEF ReleaseWeak, Left, Counts, TypeOK
  <2> QED BY <1>0, <1>m, <1>c, <1>g, <1>o, <1>p, <1>q, <1>l, <2>1, <2>2, <2>3, DropCount DEF ReleaseWeak, Counts, TypeOK
<1>7. KeptInv'
  BY <1>0, <1>m, <1>c, <1>g, <1>o, <1>p, <1>q, <1>l, SmartPtrAssumption
     DEF ReleaseWeak, Left, KeptInv, Counts, PcInv, TypeOK, Handles
<1>8. LastInv'
  BY <1>0, <1>m, <1>c, <1>g, <1>o, <1>p, <1>q, <1>l, SmartPtrAssumption
     DEF ReleaseWeak, Left, LastInv, PcInv, TypeOK, Handles
<1>9. NoLeak'
  BY <1>0, <1>m, <1>c, <1>g, <1>o, <1>p, <1>q, <1>l, SmartPtrAssumption
     DEF ReleaseWeak, Left, NoLeak, PcInv, TypeOK, Handles
<1> QED BY <1>1, <1>2, <1>3, <1>4, <1>5, <1>6, <1>7, <1>8, <1>9 DEF SmartInv

(* A pointer more, or an empty one. *)
LEMMA CopyAssignedStep ==
    ASSUME SmartInv, Disciplined, NEW h \in Handles, CopyAssigned(h)
    PROVE  SmartInv'
<1>0. /\ TypeOK /\ PcInv /\ SrcInv /\ QuietInv /\ NoDangling
      /\ CountsMatch /\ KeptInv /\ LastInv /\ NoLeak
  BY DEF SmartInv
<1>m. /\ ptr[h] = Null /\ src[h] \in Handles /\ src[h] # h /\ pc[src[h]] = "idle"
      /\ h \in Strongs <=> src[h] \in Strongs
      /\ h \in Weaks <=> src[h] \in Weaks
  BY <1>0, SmartPtrAssumption DEF CopyAssigned, PcInv, SrcInv, Alike, TypeOK, Handles
<1>n. /\ ptr'[h] = ptr[src[h]] /\ pc'[h] = "idle" /\ src'[h] = Null
      /\ \A g \in Handles \ {h} : /\ ptr'[g] = ptr[g] /\ pc'[g] = pc[g]
                                 /\ src'[g] = src[g]
  BY <1>0 DEF CopyAssigned, TypeOK
<1>1. TypeOK'
  BY <1>0, <1>m, <1>n, SmartPtrAssumption
     DEF CopyAssigned, Increment, TypeOK, Handles
<1>2. PcInv'
  BY <1>0, <1>m, <1>n, SmartPtrAssumption
     DEF CopyAssigned, Increment, PcInv, TypeOK, Handles
<1>3. SrcInv'
  BY <1>0, <1>m, <1>n, SmartPtrAssumption
     DEF CopyAssigned, Increment, SrcInv, PcInv, Alike, TypeOK, Handles
<1>4. QuietInv'
  BY <1>0, <1>m, <1>n, SmartPtrAssumption
     DEF CopyAssigned, Increment, QuietInv, PcInv, TypeOK, Handles
<1>5. NoDangling'
  BY <1>0, <1>m, <1>n, SmartPtrAssumption
     DEF CopyAssigned, Increment, NoDangling, PcInv, TypeOK, Handles
<1>6. CountsMatch'
  <2>1. CASE ptr[src[h]] = Null
    BY <1>0, <1>m, <1>n, <2>1, SameCounts, SmartPtrAssumption DEF CopyAssigned, Counts
  <2>2. CASE ptr[src[h]] # Null
    <3>1. \A g \in Handles \ {h} : SameFor(g)
      BY <1>0, <1>m, <1>n DEF SameFor, Counts
    <3>2. ptr[src[h]] \in Blocks /\ object[ptr[src[h]]] # "free"
      BY <1>0, <1>m, <1>n, <2>2 DEF NoDangling, TypeOK
    <3>3. Increment(h, ptr[src[h]]) /\ UNCHANGED object
      BY <2>2 DEF CopyAssigned
    <3> QED BY <1>0, <1>m, <1>n, <3>1, <3>2, <3>3, AddCount DEF Counts
  <2> QED BY <2>1, <2>2
<1>7. KeptInv'
  BY <1>0, <1>m, <1>n, SmartPtrAssumption
     DEF CopyAssigned, Increment, KeptInv, Counts, PcInv, TypeOK, Handles
<1>8. LastInv'
  BY <1>0, <1>m, <1>n, SmartPtrAssumption
     DEF CopyAssigned, Increment, LastInv, PcInv, TypeOK, Handles
<1>9. NoLeak'
  BY <1>0, <1>m, <1>n, SmartPtrAssumption
     DEF CopyAssigned, Increment, NoLeak, PcInv, TypeOK, Handles
<1> QED BY <1>1, <1>2, <1>3, <1>4, <1>5, <1>6, <1>7, <1>8, <1>9 DEF SmartInv

(* A pointer instead of another. *)
LEMMA MoveAssignedStep ==
    ASSUME SmartInv, Disciplined, NEW h \in Handles, MoveAssigned(h)
    PROVE  SmartInv'
<1>0. /\ TypeOK /\ PcInv /\ SrcInv /\ QuietInv /\ NoDangling
      /\ CountsMatch /\ KeptInv /\ LastInv /\ NoLeak
  BY DEF SmartInv
<1>m. /\ ptr[h] = Null /\ src[h] \in Handles /\ src[h] # h /\ pc[src[h]] = "idle"
      /\ h \in Strongs <=> src[h] \in Strongs
      /\ h \in Weaks <=> src[h] \in Weaks
  BY <1>0, SmartPtrAssumption DEF MoveAssigned, PcInv, SrcInv, Alike, TypeOK, Handles
<1>n. /\ ptr'[h] = ptr[src[h]] /\ ptr'[src[h]] = Null
      /\ pc'[h] = "idle" /\ src'[h] = Null
      /\ \A g \in Handles \ {h} : pc'[g] = pc[g] /\ src'[g] = src[g]
      /\ \A g \in Handles \ {h, src[h]} : ptr'[g] = ptr[g]
  BY <1>0, <1>m DEF MoveAssigned, TypeOK
<1>q. \A g \in Handles : pc[g] # "upgrade"
  BY <1>0 DEF MoveAssigned, PcInv, QuietInv
<1>1. TypeOK'
  BY <1>0, <1>m, <1>n, <1>q, SmartPtrAssumption
     DEF MoveAssigned, TypeOK, Handles
<1>2. PcInv'
  BY <1>0, <1>m, <1>n, <1>q, SmartPtrAssumption
     DEF MoveAssigned, PcInv, TypeOK, Handles
<1>3. SrcInv'
  BY <1>0, <1>m, <1>n, <1>q, SmartPtrAssumption
     DEF MoveAssigned, SrcInv, PcInv, Alike, TypeOK, Handles
<1>4. QuietInv'
  BY <1>0, <1>m, <1>n, <1>q, SmartPtrAssumption
     DEF MoveAssigned, QuietInv, PcInv, TypeOK, Handles
<1>5. NoDangling'
  BY <1>0, <1>m, <1>n, <1>q, SmartPtrAssumption
     DEF MoveAssigned, NoDangling, PcInv, TypeOK, Handles
<1>6. CountsMatch'
  <2>1. \A g \in Handles \ {h, src[h]} : SameFor(g)
    BY <1>0, <1>m, <1>n, <1>q DEF SameFor, Counts
  <2>2. Alike(h, src[h]) /\ UNCHANGED <<object, strong, weak>>
    BY <1>0, <1>m, <1>n, <1>q DEF MoveAssigned, Alike
  <2> QED BY <1>0, <1>m, <1>n, <1>q, <2>1, <2>2, MoveCount DEF Counts
<1>7. KeptInv'
  BY <1>0, <1>m, <1>n, <1>q, SmartPtrAssumption
     DEF MoveAssigned, KeptInv, Counts, PcInv, TypeOK, Handles
<1>8. LastInv'
  BY <1>0, <1>m, <1>n, <1>q, SmartPtrAssumption
     DEF MoveAssigned, LastInv, PcInv, TypeOK, Handles
<1>9. NoLeak'
  BY <1>0, <1>m, <1>n, <1>q, SmartPtrAssumption
     DEF MoveAssigned, NoLeak, PcInv, TypeOK, Handles
<1> QED BY <1>1, <1>2, <1>3, <1>4, <1>5, <1>6, <1>7, <1>8, <1>9 DEF SmartInv

-----------------------------------------------------------------------------
(***************************************************************************)
(* The theorems.                                                           *)
(***************************************************************************)
LEMMA InitInv ==
    ASSUME Init
    PROVE  SmartInv
<1>1. TypeOK /\ PcInv /\ SrcInv /\ QuietInv /\ NoDangling /\ CountsMatch
  BY SmartPtrAssumption
     DEF Init, TypeOK, PcInv, SrcInv, QuietInv, NoDangling, CountsMatch
<1>2. KeptInv /\ LastInv /\ NoLeak
  BY SmartPtrAssumption DEF Init, KeptInv, LastInv, NoLeak, Handles
<1> QED BY <1>1, <1>2 DEF SmartInv

LEMMA StepInv ==
    ASSUME SmartInv, Disciplined, [Next]_vars
    PROVE  SmartInv'
<1>1. CASE UNCHANGED vars
  <2>1. CountsMatch'
    BY <1>1 DEF vars, SmartInv, CountsMatch, Counted
  <2>2. (TypeOK /\ PcInv /\ SrcInv)'
    BY <1>1 DEF vars, SmartInv, TypeOK, PcInv, SrcInv
  <2>3. (QuietInv /\ NoDangling /\ KeptInv)'
    BY <1>1 DEF vars, SmartInv, QuietInv, NoDangling, KeptInv, Counts
  <2>4. (LastInv /\ NoLeak)'
    BY <1>1 DEF vars, SmartInv, LastInv, NoLeak
  <2> QED BY <2>1, <2>2, <2>3, <2>4 DEF SmartInv
<1>2. CASE Next
  <2> PICK h \in Handles :
          \/ \E b \in Blocks : Create(h, b)
          \/ \E s \in Handles : \/ Copy(h, s)
                                \/ Move(h, s)
                                \/ Upgrade(h, s)
                                \/ Assign(h, s)
          \/ Drop(h)
          \/ Step(h)
    BY <1>2 DEF Next
  <2>1. CASE \E b \in Blocks : Create(h, b)
    BY <2>1, CreateStep
  <2>2. CASE \E s \in Handles : Copy(h, s)
    BY <2>2, CopyStep
  <2>3. CASE \E s \in Handles : Move(h, s)
    BY <2>3, MoveStep
  <2>4. CASE \E s \in Handles : Upgrade(h, s)
    BY <2>4, UpgradeStep
  <2>5. CASE \E s \in Handles : Assign(h, s)
    BY <2>5, AssignStep
  <2>6. CASE Drop(h)
    BY <2>6, DropStep
  <2>7. CASE TakeUpgrade(h)
    BY <2>7, TakeUpgradeStep
  <2>8. CASE ReleaseStrong(h)
    BY <2>8, ReleaseStrongStep
  <2>9. CASE \E f \in Handles : DeleteMember(h, f)
    BY <2>9, DeleteMemberStep
  <2>10. CASE Deleted(h)
    BY <2>10, DeletedStep
  <2>11. CASE CheckWeak(h)
    BY <2>11, CheckWeakStep
  <2>12. CASE ReleaseWeak(h)
    BY <2>12, ReleaseWeakStep
  <2>13. CASE CheckStrong(h)
    BY <2>13, CheckStrongStep
  <2>14. CASE FreeBlock(h)
    BY <2>14, FreeBlockStep
  <2>15. CASE CopyAssigned(h)
    BY <2>15, CopyAssignedStep
  <2>16. CASE MoveAssigned(h)
    BY <2>16, MoveAssignedStep
  <2> QED BY <2>1, <2>2, <2>3, <2>4, <2>5, <2>6, <2>7, <2>8, <2>9, <2>10, <2>11, <2>12, <2>13, <2>14, <2>15, <2>16 DEF Step
<1> QED BY <1>1, <1>2

LEMMA Invariant ==
    ASSUME Disciplined
    PROVE  Spec => []SmartInv
<1>1. Init => SmartInv
  BY InitInv
<1>2. SmartInv /\ [Next]_vars => SmartInv'
  BY StepInv
<1> QED BY <1>1, <1>2, PTL DEF Spec

(* No count is ever decremented below zero, and every variable has its type. *)
THEOREM TypeCorrect ==
    ASSUME Disciplined
    PROVE  Spec => []TypeOK
<1>1. SmartInv => TypeOK
  BY DEF SmartInv
<1> QED BY <1>1, Invariant, PTL

(* The strong and the weak count of a block are the numbers of its pointers. *)
THEOREM CountsCorrect ==
    ASSUME Disciplined
    PROVE  Spec => []CountsMatch
<1>1. SmartInv => CountsMatch
  BY DEF SmartInv
<1> QED BY <1>1, Invariant, PTL

(* No pointer points to a control block that was deleted. *)
THEOREM NothingDangles ==
    ASSUME Disciplined
    PROVE  Spec => []NoDangling
<1>1. SmartInv => NoDangling
  BY DEF SmartInv
<1> QED BY <1>1, Invariant, PTL

(* While a strong pointer points to an object, nobody deletes it. *)
THEOREM StrongOwns ==
    ASSUME Disciplined
    PROVE  Spec => []StrongKeepsAlive
<1>1. ASSUME SmartInv
      PROVE  StrongKeepsAlive
  <2> SUFFICES ASSUME NEW h \in Strongs, pc[h] = "idle", ptr[h] # Null
               PROVE  /\ object[ptr[h]] = "live"
                      /\ \A g \in Handles :
                            ptr[g] = ptr[h] =>
                                pc[g] \notin {"delete", "weakCheck", "free"}
    BY DEF StrongKeepsAlive
  <2>1. object[ptr[h]] = "live"
    BY <1>1 DEF SmartInv, KeptInv, Counts
  <2>2. ASSUME NEW g \in Handles, ptr[g] = ptr[h],
               pc[g] \in {"delete", "weakCheck", "free"}
        PROVE  FALSE
    BY <1>1, <2>2 DEF SmartInv, LastInv, Handles
  <2> QED BY <2>1, <2>2
<1> QED BY <1>1, Invariant, PTL

(* No object and no control block is left without a pointer that deletes it. *)
THEOREM NothingLeaks ==
    ASSUME Disciplined
    PROVE  Spec => []NoLeak
<1>1. SmartInv => NoLeak
  BY DEF SmartInv
<1> QED BY <1>1, Invariant, PTL
=============================================================================
