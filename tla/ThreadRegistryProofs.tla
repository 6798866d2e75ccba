------------------------ MODULE ThreadRegistryProofs ------------------------
(***************************************************************************)
(* Proofs about the thread registry, for every set of threads, every set   *)
(* of handles and every initial capacity.                                  *)
(***************************************************************************)
EXTENDS ThreadRegistry, SequenceTheorems, TLAPS

Entries(s) == {s[i] : i \in 1 .. Len(s)}
Distinct(s) == \A i, j \in 1 .. Len(s) : s[i] = s[j] => i = j

(* Adding an entry that is not there yet keeps the entries distinct. *)
LEMMA AppendFacts ==
    ASSUME NEW s \in Seq(Handles), Distinct(s), NEW h \in Handles \ Entries(s)
    PROVE  /\ Append(s, h) \in Seq(Handles) /\ Distinct(Append(s, h))
           /\ Entries(Append(s, h)) = Entries(s) \cup {h}
           /\ Len(Append(s, h)) = Len(s) + 1
  BY DEF Entries, Distinct

(* Moving the last entry to place i removes the entry that was there, and   *)
(* nothing else.                                                            *)
LEMMA SwapFacts ==
    ASSUME NEW s \in Seq(Handles), Distinct(s), NEW i \in 1 .. Len(s)
    PROVE  LET r == [k \in 1 .. Len(s) - 1 |-> IF k = i THEN s[Len(s)] ELSE s[k]]
           IN  /\ r \in Seq(Handles) /\ Distinct(r)
               /\ Entries(r) = Entries(s) \ {s[i]}
               /\ Len(r) = Len(s) - 1
<1> DEFINE n == Len(s)
           r == [k \in 1 .. n - 1 |-> IF k = i THEN s[n] ELSE s[k]]
<1>1. n \in Nat /\ n > 0 /\ n - 1 \in Nat /\ i \in Nat /\ 1 <= i /\ i <= n
  OBVIOUS
<1>2. \A k \in 1 .. n : s[k] \in Handles
  OBVIOUS
<1>3. r \in Seq(Handles) /\ Len(r) = n - 1
  BY <1>1, <1>2, IsASeq
<1>4. \A k \in 1 .. n - 1 : r[k] = IF k = i THEN s[n] ELSE s[k]
  OBVIOUS
<1>5. \A j, k \in 1 .. n : s[j] = s[k] => j = k
  BY DEF Distinct
<1>6. Entries(s) = {s[k] : k \in 1 .. n} /\ Entries(r) = {r[k] : k \in 1 .. n - 1}
  BY <1>3 DEF Entries
<1> HIDE DEF n, r
<1>7. Distinct(r)
  BY <1>1, <1>3, <1>4, <1>5 DEF Distinct
<1>8. \A k \in 1 .. n - 1 : r[k] \in Entries(s) \ {s[i]}
  BY <1>1, <1>4, <1>5, <1>6
<1>9. ASSUME NEW k \in 1 .. n, k # i
      PROVE  s[k] \in Entries(r)
  <2>1. CASE k = n
    <3>1. i \in 1 .. n - 1
      BY <1>1, <1>9, <2>1
    <3>2. r[i] = s[k]
      BY <1>4, <3>1, <2>1
    <3> QED
      BY <1>6, <3>1, <3>2
  <2>2. CASE k # n
    <3>1. k \in 1 .. n - 1
      BY <1>1, <2>2
    <3>2. r[k] = s[k]
      BY <1>4, <1>9, <3>1
    <3> QED
      BY <1>6, <3>1, <3>2
  <2> QED
    BY <2>1, <2>2
<1>10. Entries(r) = Entries(s) \ {s[i]}
  BY <1>6, <1>8, <1>9
<1> QED
  BY <1>3, <1>7, <1>10 DEF n, r

(* Lowering the count removes the last entry, and nothing else. *)
LEMMA LastFacts ==
    ASSUME NEW s \in Seq(Handles), Distinct(s), s # <<>>
    PROVE  /\ SubSeq(s, 1, Len(s) - 1) \in Seq(Handles)
           /\ Distinct(SubSeq(s, 1, Len(s) - 1))
           /\ Entries(SubSeq(s, 1, Len(s) - 1)) = Entries(s) \ {s[Len(s)]}
           /\ Len(SubSeq(s, 1, Len(s) - 1)) = Len(s) - 1
           /\ s[Len(s)] \in Entries(s)
<1> DEFINE r == SubSeq(s, 1, Len(s) - 1)
<1>1. Len(s) \in Nat /\ Len(s) > 0 /\ Len(s) - 1 \in Nat
  OBVIOUS
<1>2. \A k \in 1 .. Len(s) - 1 : s[k] \in Handles
  BY <1>1
<1>3. r \in Seq(Handles)
  BY <1>1, <1>2, SubSeqProperties
<1>4. Len(r) = Len(s) - 1
  <2> DEFINE n == Len(s) - 1
             m == Len(r)
  <2>1. n \in Nat /\ m = IF 1 <= n THEN n - 1 + 1 ELSE 0
    BY <1>1, <1>2, SubSeqProperties
  <2> HIDE DEF n, m
  <2>2. m = n
    BY <2>1
  <2> QED
    BY <2>2 DEF m, n
<1>5. ASSUME NEW k \in 1 .. Len(s) - 1
      PROVE  r[k] = s[k]
  <2>1. r[k] = s[1 + k - 1]
    BY <1>1, <1>2, SubSeqProperties
  <2> QED
    BY <2>1
<1> HIDE DEF r
<1>6. Distinct(r)
  BY <1>1, <1>4, <1>5 DEF Distinct
<1>7. Entries(r) = Entries(s) \ {s[Len(s)]}
  BY <1>1, <1>4, <1>5 DEF Distinct, Entries
<1>8. s[Len(s)] \in Entries(s)
  BY <1>1 DEF Entries
<1> QED
  BY <1>3, <1>4, <1>6, <1>7, <1>8 DEF r

-----------------------------------------------------------------------------
(* Registered and the distinctness of the entries, in the words of the      *)
(* lemmas above.                                                            *)
LEMMA RegisteredFacts ==
    RegistryInv => /\ registry \in Seq(Handles) /\ Distinct(registry)
                   /\ Registered = Entries(registry)
                   /\ Registered \subseteq Handles
<1> SUFFICES ASSUME RegistryInv
             PROVE  /\ registry \in Seq(Handles) /\ Distinct(registry)
                    /\ Registered = Entries(registry)
                    /\ Registered \subseteq Handles
  OBVIOUS
<1>1. registry \in Seq(Handles) /\ Distinct(registry) /\ Registered = Entries(registry)
  BY DEF RegistryInv, TypeOK, OwnerInv, Distinct, Entries, Registered
<1>2. Entries(registry) \subseteq Handles
  BY <1>1 DEF Entries
<1> QED
  BY <1>1, <1>2

(* Before the first spawn the registry is empty and nobody owns a handle. *)
LEMMA InitInv == Init => RegistryInv
<1> SUFFICES ASSUME Init PROVE RegistryInv
  OBVIOUS
<1> USE RegistryAssumption DEF Init
<1>1. TypeOK
  <2>1. registry \in Seq(Handles) /\ cap \in Nat /\ Len(registry) <= cap
    OBVIOUS
  <2>2. /\ growFailed \in BOOLEAN
        /\ thread \in [Handles -> Threads \cup {NoThread}]
        /\ life \in [Threads -> {"none", "run", "exited"}]
        /\ gone \in [Threads -> BOOLEAN]
    BY Zenon
  <2>3. /\ ticket \in [Threads -> Handles \cup {NoHandle}]
        /\ pc \in [Threads -> {"body", "add", "join", "wait", "all", "all_wait"}]
        /\ arg \in [Threads -> Handles \cup {NoHandle}]
        /\ claimer \in [Threads -> Threads \cup {NoThread}]
        /\ due \in [Threads -> SUBSET Threads]
    BY Zenon
  <2> QED
    BY <2>1, <2>2, <2>3 DEF TypeOK
<1>2. OwnerInv
  BY DEF OwnerInv, Registered, Holding
<1>3. BirthInv /\ ClaimInv /\ TicketInv /\ DueInv
  BY DEF BirthInv, ClaimInv, TicketInv, DueInv, Registered
<1> QED
  BY <1>1, <1>2, <1>3 DEF RegistryInv

(* A spawn takes an address that is free and a thread that never ran. *)
LEMMA SpawnStep ==
    ASSUME NEW t \in Threads, NEW u \in Threads, NEW h \in Handles,
           RegistryInv, Spawn(t, u, h)
    PROVE  RegistryInv'
<1> USE RegistryAssumption
<1>1. TypeOK'
  BY DEF RegistryInv, TypeOK, Spawn, Goto
<1>2. /\ Registered' = Registered /\ Registered \subseteq Handles
      /\ pc[t] = "body" /\ life[t] = "run" /\ life[u] = "none" /\ thread[h] = NoThread
      /\ pc' = [pc EXCEPT ![t] = "add"] /\ arg' = [arg EXCEPT ![t] = h]
      /\ thread' = [thread EXCEPT ![h] = u] /\ life' = [life EXCEPT ![u] = "run"]
      /\ UNCHANGED <<registry, growFailed, gone, ticket, claimer, due>>
  BY RegisteredFacts DEF Spawn, Goto, At, Registered
<1>3. /\ t # u /\ pc[u] = "body" /\ claimer[u] = NoThread /\ ticket[u] = NoHandle /\ ~gone[u]
  BY <1>2 DEF RegistryInv, BirthInv
<1>4. h \notin Registered /\ \A g \in Handles : thread[g] # u
  BY <1>2 DEF RegistryInv, OwnerInv
<1>5. /\ \A s \in Threads : Holding(s)' <=> (Holding(s) \/ s = t)
      /\ \A s \in Threads : Waiting(s)' <=> Waiting(s)
      /\ ~Holding(t) /\ ~Waiting(t)
  BY <1>2 DEF RegistryInv, TypeOK, Holding, Waiting
<1>6. \A s \in Threads : Holding(s) => arg[s] # h
  BY <1>2 DEF RegistryInv, OwnerInv
<1> USE <1>1, <1>2, <1>3, <1>4, <1>5, <1>6 DEF RegistryInv, TypeOK
<1>7. OwnerInv'
  BY DEF OwnerInv
<1>8. BirthInv'
  BY DEF BirthInv, OwnerInv, Holding
<1>9. ClaimInv'
  BY DEF ClaimInv, WaitsFor, Holding, Waiting
<1>10. TicketInv'
  BY DEF TicketInv
<1>11. DueInv'
  BY DEF DueInv
<1> QED
  BY <1>7, <1>8, <1>9, <1>10, <1>11

(* A full registry grows or says that it could not. *)
LEMMA AddFacts ==
    ASSUME NEW t \in Threads, RegistryInv, RegistryAdd(t)
    PROVE  /\ registry' \in Seq(Handles) /\ Distinct(registry') /\ Len(registry') <= cap'
           /\ cap' \in Nat /\ growFailed' \in BOOLEAN /\ (growFailed => growFailed')
           /\ \/ Registered' = Registered \cup {arg[t]}
              \/ Registered' = Registered /\ growFailed'
<1> DEFINE h == arg[t]
<1>1. Len(registry) \in Nat /\ cap \in Nat /\ Len(registry) <= cap /\ growFailed \in BOOLEAN
  BY RegisteredFacts DEF RegistryInv, TypeOK
<1>2. h \in Handles \ Registered
  BY DEF RegistryInv, OwnerInv, Holding, RegistryAdd, At
<1>3. /\ cap' \in Nat /\ growFailed' \in BOOLEAN
      /\ growFailed => growFailed'
      /\ growFailed' \/ Len(registry) < cap'
      /\ Len(registry) <= cap'
  <2>1. CASE ~Full /\ UNCHANGED <<cap, growFailed>>
    BY <1>1, <2>1 DEF Full
  <2>2. CASE Full /\ cap' = (IF cap > 0 THEN 2 * cap ELSE InitialCap) /\ UNCHANGED growFailed
    BY <1>1, <2>2, RegistryAssumption DEF Full
  <2>3. CASE Full /\ growFailed' = TRUE /\ UNCHANGED cap
    BY <1>1, <2>3
  <2> QED
    BY <2>1, <2>2, <2>3 DEF RegistryAdd
<1>4. registry' = IF Len(registry) < cap' THEN Append(registry, h) ELSE registry
  BY DEF RegistryAdd
<1>5. CASE Len(registry) < cap'
  <2>1. registry' = Append(registry, h)
    BY <1>4, <1>5
  <2>2. Registered' = Entries(registry')
    BY DEF Registered, Entries
  <2> QED
    BY <1>1, <1>2, <1>3, <1>5, <2>1, <2>2, RegisteredFacts, AppendFacts
<1>6. CASE ~(Len(registry) < cap')
  <2>1. registry' = registry /\ growFailed'
    BY <1>3, <1>4, <1>6
  <2> QED
    BY <1>3, <2>1, RegisteredFacts DEF Registered
<1> QED
  BY <1>5, <1>6

(* Registering hands the new handle over from the spawning call.           *)
LEMMA AddStep ==
    ASSUME NEW t \in Threads, RegistryInv, RegistryAdd(t)
    PROVE  RegistryInv'
<1> USE RegistryAssumption
<1> DEFINE h == arg[t]
           u == thread[h]
<1>1. /\ pc[t] = "add" /\ life[t] = "run"
      /\ pc' = [pc EXCEPT ![t] = "body"] /\ arg' = [arg EXCEPT ![t] = NoHandle]
      /\ ticket' = [ticket EXCEPT ![u] = h]
      /\ UNCHANGED <<thread, life, gone, claimer, due>>
  BY DEF RegistryAdd, Returned, Goto, At
<1>2. /\ h \in Handles \ Registered /\ u \in Threads /\ claimer[u] = NoThread
      /\ h # NoHandle
  BY <1>1 DEF RegistryInv, OwnerInv, Holding, Waiting
<1>3. ticket[u] = NoHandle
  BY <1>1 DEF RegistryInv, BirthInv
<1>4. /\ \A s \in Threads : Holding(s)' <=> (Holding(s) /\ s # t)
      /\ \A s \in Threads : Waiting(s)' <=> Waiting(s)
      /\ Holding(t) /\ ~Waiting(t)
  BY <1>1 DEF RegistryInv, TypeOK, Holding, Waiting
<1>5. /\ registry' \in Seq(Handles) /\ Distinct(registry') /\ Len(registry') <= cap'
      /\ cap' \in Nat /\ growFailed' \in BOOLEAN /\ (growFailed => growFailed')
      /\ \/ Registered' = Registered \cup {h}
         \/ Registered' = Registered /\ growFailed'
  BY AddFacts
<1>6. /\ \A g \in Registered : g # h /\ thread[g] # u
      /\ \A s \in Threads : Holding(s) /\ s # t => arg[s] \in Handles /\ thread[arg[s]] # u
  BY <1>2, <1>4, RegisteredFacts DEF RegistryInv, OwnerInv
<1> USE <1>1, <1>2, <1>3, <1>4, <1>5, <1>6 DEF RegistryInv, TypeOK
<1> HIDE DEF h, u
<1>7. TypeOK'
  BY DEF h
<1>8. OwnerInv'
  BY DEF OwnerInv, Distinct, h, u
<1>9. BirthInv'
  <2>1. \A w \in Threads : life'[w] = "none" =>
           pc'[w] = "body" /\ claimer'[w] = NoThread /\ ticket'[w] = NoHandle /\ ~gone'[w]
    <3>1. life[u] # "none"
      BY DEF OwnerInv, u
    <3> QED
      BY <3>1 DEF BirthInv
  <2>2. ASSUME NEW s \in Threads, pc'[s] = "add"
        PROVE  ticket'[thread'[arg'[s]]] = NoHandle
    <3>1. s # t /\ pc[s] = "add" /\ arg'[s] = arg[s] /\ Holding(s)
      BY <2>2 DEF Holding
    <3>2. arg[s] \in Handles /\ thread[arg[s]] # u /\ ticket[thread[arg[s]]] = NoHandle
      BY <3>1 DEF BirthInv
    <3> QED
      BY <3>1, <3>2
  <2> QED
    BY <2>1, <2>2 DEF BirthInv
<1>10. ClaimInv'
  BY DEF ClaimInv, WaitsFor
<1>11. TicketInv'
  BY RegisteredFacts DEF TicketInv, h, u
<1>12. DueInv'
  BY DEF DueInv
<1> QED
  BY <1>7, <1>8, <1>9, <1>10, <1>11, <1>12

(* A call begins without touching the registry. *)
LEMMA BeginStep ==
    ASSUME NEW t \in Threads, NEW h \in Handles \cup {NoHandle}, NEW l \in {"join", "all"},
           NEW d \in SUBSET Threads,
           RegistryInv, At(t, "body"), Goto(t, l, h), due' = [due EXCEPT ![t] = d],
           \A w \in d : ticket[w] # NoHandle /\ (l = "join" => h = ticket[w]),
           UNCHANGED <<registry, cap, growFailed, thread, life, gone, ticket, claimer>>
    PROVE  RegistryInv'
<1>1. TypeOK'
  BY DEF RegistryInv, TypeOK, Goto
<1>2. /\ \A s \in Threads : Holding(s)' <=> Holding(s)
      /\ \A s \in Threads : Waiting(s)' <=> Waiting(s)
      /\ ~Holding(t) /\ ~Waiting(t) /\ Registered' = Registered
  BY DEF RegistryInv, TypeOK, Goto, At, Holding, Waiting, Registered
<1> USE <1>1, <1>2 DEF RegistryInv, TypeOK, Goto, At
<1>3. OwnerInv'
  BY DEF OwnerInv
<1>4. BirthInv'
  BY DEF BirthInv
<1>5. ClaimInv'
  BY DEF ClaimInv, WaitsFor
<1>6. TicketInv'
  BY DEF TicketInv
<1>7. DueInv'
  BY DEF DueInv
<1> QED
  BY <1>3, <1>4, <1>5, <1>6, <1>7

(* A call ends without touching the registry. *)
LEMMA ReturnStep ==
    ASSUME NEW t \in Threads, RegistryInv, pc[t] \in {"join", "all"}, Return(t),
           UNCHANGED <<registry, cap, growFailed, thread, life, gone, ticket, claimer>>
    PROVE  RegistryInv'
<1>1. TypeOK'
  BY DEF RegistryInv, TypeOK, Goto, Return
<1>2. /\ \A s \in Threads : Holding(s)' <=> Holding(s)
      /\ \A s \in Threads : Waiting(s)' <=> Waiting(s)
      /\ ~Holding(t) /\ ~Waiting(t) /\ Registered' = Registered
  BY DEF RegistryInv, TypeOK, Goto, Return, Holding, Waiting, Registered
<1> USE <1>1, <1>2 DEF RegistryInv, TypeOK, Goto, Return
<1>3. OwnerInv'
  BY DEF OwnerInv
<1>4. BirthInv'
  BY DEF BirthInv
<1>5. ClaimInv'
  BY DEF ClaimInv, WaitsFor
<1>6. TicketInv'
  BY DEF TicketInv
<1>7. DueInv'
  BY DEF DueInv
<1> QED
  BY <1>3, <1>4, <1>5, <1>6, <1>7

(* A handle goes from the registry to the one call that claimed it. *)
LEMMA OwnStep ==
    ASSUME NEW t \in Threads, NEW h \in Registered, NEW l \in {"wait", "all_wait"},
           RegistryInv, Own(t, h, l),
           \/ pc[t] = "join" /\ l = "wait" /\ arg[t] = h
           \/ pc[t] = "all" /\ l = "all_wait",
           registry' \in Seq(Handles), Distinct(registry'), Len(registry') <= cap,
           Entries(registry') = Registered \ {h},
           UNCHANGED <<cap, growFailed, thread, life, gone, ticket>>
    PROVE  RegistryInv'
<1> DEFINE u == thread[h]
<1>1. /\ pc' = [pc EXCEPT ![t] = l] /\ arg' = [arg EXCEPT ![t] = h]
      /\ claimer' = [claimer EXCEPT ![u] = t] /\ UNCHANGED due
      /\ Registered' = Registered \ {h}
  BY DEF Own, Goto, Registered, Entries
<1>2. h \in Handles /\ u \in Threads /\ claimer[u] = NoThread
  BY RegisteredFacts DEF RegistryInv, OwnerInv
<1>3. /\ \A s \in Threads : Holding(s)' <=> (Holding(s) \/ s = t)
      /\ \A s \in Threads : Waiting(s)' <=> (Waiting(s) \/ s = t)
      /\ ~Holding(t) /\ ~Waiting(t)
  BY <1>1 DEF RegistryInv, TypeOK, Holding, Waiting
<1>4. /\ \A s \in Threads : Holding(s) => arg[s] # h /\ thread[arg[s]] # u
      /\ \A g \in Registered \ {h} : g \in Handles /\ thread[g] # u
  BY <1>2, RegisteredFacts DEF RegistryInv, OwnerInv
<1> HIDE DEF u
<1> USE <1>1, <1>2, <1>3, <1>4 DEF RegistryInv, TypeOK
<1>5. TypeOK'
  OBVIOUS
<1>6. OwnerInv'
  BY DEF OwnerInv, Distinct, u
<1>7. BirthInv'
  BY DEF BirthInv, OwnerInv, u
<1>8. ClaimInv'
  BY RegistryAssumption DEF ClaimInv, WaitsFor, u
<1>9. TicketInv'
  BY RegistryAssumption DEF TicketInv, u
<1>10. DueInv'
  BY RegistryAssumption DEF DueInv, TicketInv, u
<1> QED
  BY <1>5, <1>6, <1>7, <1>8, <1>9, <1>10

(* The address is freed, whether the thread has finished or pthread_join    *)
(* refused to wait for it: it was owned by this call alone.                 *)
LEMMA JoinedStep ==
    ASSUME NEW t \in Threads, RegistryInv, JoinClaimed(t) \/ JoinRefused(t)
    PROVE  RegistryInv'
<1> DEFINE h == arg[t]
           u == thread[h]
<1>1. /\ pc[t] \in {"wait", "all_wait"} /\ life[t] = "run"
      /\ pc' = [pc EXCEPT ![t] = IF pc[t] = "wait" THEN "body" ELSE "all"]
      /\ arg' = [arg EXCEPT ![t] = NoHandle]
      /\ due' = due \/ due' = [due EXCEPT ![t] = {}]
      /\ u \in Threads /\ (u = t \/ life[u] = "exited" \/ (u # t /\ WaitsFor(u, t)))
      /\ gone' = gone \/ gone' = [gone EXCEPT ![u] = TRUE]
      /\ thread' = [thread EXCEPT ![h] = NoThread]
      /\ UNCHANGED <<registry, cap, growFailed, life, ticket, claimer>>
  BY DEF JoinClaimed, JoinRefused, FreeClaimed, WaitsFor, At, Return, Goto
<1>2. /\ \A s \in Threads : Holding(s)' <=> (Holding(s) /\ s # t)
      /\ \A s \in Threads : Waiting(s)' <=> (Waiting(s) /\ s # t)
      /\ Holding(t) /\ Waiting(t) /\ Registered' = Registered
  BY <1>1 DEF RegistryInv, TypeOK, Holding, Waiting, Registered
<1>3. h \in Handles \ Registered /\ claimer[u] = t
  BY <1>1, <1>2 DEF RegistryInv, OwnerInv
<1>4. /\ \A s \in Threads : Holding(s) /\ s # t => arg[s] # h /\ thread[arg[s]] # u
      /\ \A g \in Registered : g # h /\ g \in Handles /\ thread[g] # u
      /\ \A g \in Handles : thread[g] = u => g = h
  BY <1>1, <1>2, <1>3, RegisteredFacts DEF RegistryInv, OwnerInv
<1> HIDE DEF h, u
<1> USE <1>1, <1>2, <1>3, <1>4, RegistryAssumption DEF RegistryInv, TypeOK
<1>5. TypeOK'
  OBVIOUS
<1>6. OwnerInv'
  BY DEF OwnerInv
<1>7. BirthInv'
  <2>1. life[u] # "none"
    BY DEF OwnerInv, u
  <2>2. \A s \in Threads : pc[s] = "add" => Holding(s)
    BY DEF Holding
  <2> QED
    BY <2>1, <2>2 DEF BirthInv
<1>8. ClaimInv'
  <2> SUFFICES ASSUME NEW s \in Threads, NEW w \in Threads, claimer[w] = s, s # w
               PROVE  \/ life[w] = "exited" \/ WaitsFor(s, w)'
                      \/ WaitsFor(w, s)' \/ life[s] = "exited"
    BY DEF ClaimInv
  <2>1. \A x \in Threads \ {t}, y \in Threads : WaitsFor(x, y) => WaitsFor(x, y)'
    <3> SUFFICES ASSUME NEW x \in Threads \ {t}, NEW y \in Threads, WaitsFor(x, y)
                 PROVE  WaitsFor(x, y)'
      OBVIOUS
    <3>1. Waiting(x) /\ thread[arg[x]] = y /\ Waiting(x)' /\ arg'[x] = arg[x]
      BY DEF WaitsFor
    <3>2. arg[x] \in Handles /\ arg[x] # h
      BY <3>1 DEF OwnerInv, Holding, Waiting
    <3>3. thread'[arg[x]] = thread[arg[x]]
      BY <3>2
    <3> QED
      BY <3>1, <3>3 DEF WaitsFor
  <2>2. \A y \in Threads : WaitsFor(t, y) => y = u
    BY DEF WaitsFor, u, h
  <2>3. life[w] = "exited" \/ WaitsFor(s, w) \/ WaitsFor(w, s) \/ life[s] = "exited"
    BY DEF ClaimInv
  <2>4. CASE s = t /\ w = u
    BY <2>1, <2>4
  <2>5. CASE s = t /\ w # u
    BY <2>1, <2>2, <2>3, <2>5
  <2>6. CASE s # t
    <3>1. w = t /\ WaitsFor(w, s) => s = u
      BY <2>2
    <3>2. CASE w = t /\ s = u
      BY <2>1, <2>6, <3>2
    <3> QED
      BY <2>1, <2>3, <2>6, <3>1, <3>2
  <2> QED
    BY <2>4, <2>5, <2>6
<1>9. TicketInv'
  BY DEF TicketInv
<1>10. DueInv'
  <2>1. \A s \in Threads : due'[s] \subseteq due[s]
    OBVIOUS
  <2>2. \A s \in Threads : pc'[s] \in {"join", "wait"} =>
           s # t /\ pc[s] = pc'[s] /\ arg'[s] = arg[s]
    OBVIOUS
  <2> HIDE <1>1, <1>2, <1>3, <1>4, RegistryAssumption DEF RegistryInv, TypeOK
  <2>3. /\ DueInv
        /\ UNCHANGED <<ticket, claimer, growFailed>>
    BY <1>1 DEF RegistryInv
  <2> QED
    BY <2>1, <2>2, <2>3 DEF DueInv
<1> QED
  BY <1>5, <1>6, <1>7, <1>8, <1>9, <1>10

(* A thread that ends leaves the registry alone. *)
LEMMA ExitStep ==
    ASSUME NEW t \in Threads, RegistryInv, Exit(t)
    PROVE  RegistryInv'
<1>1. TypeOK'
  BY DEF RegistryInv, TypeOK, Exit
<1>2. /\ \A s \in Threads : Holding(s)' <=> Holding(s)
      /\ \A s \in Threads : Waiting(s)' <=> Waiting(s)
      /\ Registered' = Registered
  BY DEF Exit, Holding, Waiting, Registered
<1> USE <1>1, <1>2 DEF RegistryInv, TypeOK, Exit, At
<1>3. OwnerInv'
  BY DEF OwnerInv
<1>4. BirthInv' /\ ClaimInv' /\ TicketInv' /\ DueInv'
  BY DEF BirthInv, ClaimInv, TicketInv, DueInv, WaitsFor
<1> QED
  BY <1>3, <1>4

(* A claim that finds the handle takes it out, and it alone. *)
LEMMA ClaimFacts ==
    ASSUME NEW t \in Threads, RegistryInv, Claim(t)
    PROVE  \/ Return(t) /\ arg[t] \notin Registered /\ UNCHANGED <<registry, claimer>>
           \/ /\ Own(t, arg[t], "wait") /\ arg[t] \in Registered
              /\ registry' \in Seq(Handles) /\ Distinct(registry') /\ Len(registry') <= cap
              /\ Entries(registry') = Registered \ {arg[t]}
<1> SUFFICES ASSUME NEW i \in 1 .. Len(registry), registry[i] = arg[t],
                    registry' = SwapRemove(i), Own(t, arg[t], "wait")
             PROVE  /\ arg[t] \in Registered
                    /\ registry' \in Seq(Handles) /\ Distinct(registry') /\ Len(registry') <= cap
                    /\ Entries(registry') = Registered \ {arg[t]}
  BY DEF Claim
<1>1. arg[t] \in Registered
  BY DEF Registered
<1>2. /\ registry' \in Seq(Handles) /\ Distinct(registry')
      /\ Len(registry') = Len(registry) - 1
      /\ Entries(registry') = Registered \ {arg[t]}
  BY ZenonT(60), SwapFacts, RegisteredFacts DEF SwapRemove
<1>3. Len(registry') <= cap
  BY <1>2, RegisteredFacts DEF RegistryInv, TypeOK
<1> QED
  BY <1>1, <1>2, <1>3

(* wait_all takes the last handle out, and it alone. *)
LEMMA TakeLastFacts ==
    ASSUME NEW t \in Threads, RegistryInv, Pop(t)
    PROVE  \/ Return(t) /\ Registered = {} /\ UNCHANGED <<registry, claimer>>
           \/ \E h \in Registered :
              /\ Own(t, h, "all_wait")
              /\ registry' \in Seq(Handles) /\ Distinct(registry') /\ Len(registry') <= cap
              /\ Entries(registry') = Registered \ {h}
<1>1. CASE registry = <<>> /\ Return(t) /\ UNCHANGED <<registry, claimer>>
  BY <1>1 DEF Registered
<1>2. CASE /\ registry # <<>>
           /\ registry' = SubSeq(registry, 1, Len(registry) - 1)
           /\ Own(t, registry[Len(registry)], "all_wait")
  <2> DEFINE h == registry[Len(registry)]
  <2>1. /\ registry' \in Seq(Handles) /\ Distinct(registry')
        /\ Len(registry') = Len(registry) - 1
        /\ Entries(registry') = Registered \ {h} /\ h \in Registered
    BY <1>2, LastFacts, RegisteredFacts
  <2>2. Len(registry') <= cap
    BY <2>1, RegisteredFacts DEF RegistryInv, TypeOK
  <2> HIDE DEF h
  <2>3. Own(t, h, "all_wait")
    BY <1>2 DEF h
  <2> QED
    BY <2>1, <2>2, <2>3
<1> QED
  BY <1>1, <1>2 DEF Pop

(* Both ways of claiming a handle, by join and by wait_all. *)
LEMMA ClaimStep ==
    ASSUME NEW t \in Threads, RegistryInv, Claim(t) \/ Pop(t)
    PROVE  RegistryInv'
<1>1. CASE Claim(t)
  BY <1>1, ClaimFacts, ReturnStep, OwnStep DEF Claim, At
<1>2. CASE Pop(t)
  BY <1>2, TakeLastFacts, ReturnStep, OwnStep DEF Pop, At
<1> QED
  BY <1>1, <1>2

(* Every step of every thread keeps the inductive invariant. *)
LEMMA Step == RegistryInv /\ [Next]_vars => RegistryInv'
<1> SUFFICES ASSUME RegistryInv, [Next]_vars PROVE RegistryInv'
  OBVIOUS
<1>1. ASSUME NEW t \in Threads, NEW u \in Threads, NEW h \in Handles, Spawn(t, u, h)
      PROVE  RegistryInv'
  BY <1>1, SpawnStep
<1>2. ASSUME NEW t \in Threads, NEW u \in Threads, BeginJoin(t, u)
      PROVE  RegistryInv'
  <2>1. ticket[u] \in Handles \cup {NoHandle}
    BY DEF RegistryInv, TypeOK
  <2> DEFINE d == {u}
  <2>2. d \in SUBSET Threads /\ \A w \in d : ticket[w] # NoHandle /\ ticket[u] = ticket[w]
    BY <1>2 DEF BeginJoin
  <2>3. due' = [due EXCEPT ![t] = d] /\ Goto(t, "join", ticket[u]) /\ At(t, "body")
    BY <1>2 DEF BeginJoin
  <2> HIDE DEF d
  <2>4. UNCHANGED <<registry, cap, growFailed, thread, life, gone, ticket, claimer>>
    BY <1>2 DEF BeginJoin
  <2> QED
    BY <2>1, <2>2, <2>3, <2>4, BeginStep
<1>3. ASSUME NEW t \in Threads, BeginJoinAll(t)
      PROVE  RegistryInv'
  <2> DEFINE d == {thread[h] : h \in Registered}
  <2>1. d \in SUBSET Threads /\ \A w \in d : ticket[w] # NoHandle
    BY RegisteredFacts, RegistryAssumption DEF RegistryInv, OwnerInv, TicketInv
  <2>2. due' = [due EXCEPT ![t] = d] /\ Goto(t, "all", NoHandle) /\ At(t, "body")
    BY <1>3 DEF BeginJoinAll
  <2> HIDE DEF d
  <2>3. UNCHANGED <<registry, cap, growFailed, thread, life, gone, ticket, claimer>>
    BY <1>3 DEF BeginJoinAll
  <2> QED
    BY <2>1, <2>2, <2>3, BeginStep
<1>4. ASSUME NEW t \in Threads, RuntimeStep(t)
      PROVE  RegistryInv'
  BY <1>4, AddStep, ClaimStep, JoinedStep DEF RuntimeStep
<1>5. ASSUME NEW t \in Threads, Exit(t)
      PROVE  RegistryInv'
  BY <1>5, ExitStep
<1>6. ASSUME NEW t \in Threads, JoinRefused(t)
      PROVE  RegistryInv'
  BY <1>6, JoinedStep
<1>7. CASE UNCHANGED vars
  BY <1>7 DEF vars, RegistryInv, TypeOK, OwnerInv, BirthInv, ClaimInv, TicketInv, DueInv,
              Registered, Holding, Waiting, WaitsFor
<1> QED
  BY <1>1, <1>2, <1>3, <1>4, <1>5, <1>6, <1>7 DEF Next

(* Every reachable state of the registry satisfies the inductive invariant, *)
(* whatever the number of threads, handles and growths.                     *)
THEOREM Invariance == Spec => []RegistryInv
<1> QED
  BY InitInv, Step, PTL DEF Spec

(* Types: in particular the count never exceeds the capacity, so the store  *)
(* of sad_rt_thread_registry_add stays inside the realloc'ed array.         *)
THEOREM TypeCorrect == Spec => []TypeOK
<1>1. RegistryInv => TypeOK
  BY DEF RegistryInv
<1> QED
  BY <1>1, Invariance, PTL

(* However join, wait_all and spawn interleave, and although a program may  *)
(* pass stale handles, pthread_join and free run once per handle.           *)
THEOREM JoinedOnce == Spec => []NoDoubleJoin
<1>1. RegistryInv => NoDoubleJoin
  BY DEF RegistryInv, OwnerInv, NoDoubleJoin, Holding, Waiting
<1> QED
  BY <1>1, Invariance, PTL

(* A handle is always in the registry or in the hands of one call, unless   *)
(* growth has failed: claim and the swap of the last entry lose none.       *)
THEOREM NothingLeaks == Spec => []NoLeak
<1> DEFINE Kept(h) == h \in Registered \/ \E t \in Threads : Holding(t) /\ arg[t] = h
<1>1. Init => NoLeak
  BY RegistryAssumption DEF Init, NoLeak
<1>2. RegistryInv /\ NoLeak /\ [Next]_vars => NoLeak'
  <2> SUFFICES ASSUME RegistryInv, NoLeak, [Next]_vars, ~growFailed',
                      NEW h \in Handles, thread'[h] \in Threads
               PROVE  Kept(h)'
    BY DEF NoLeak
  <2> USE RegistryAssumption
  <2>a. thread[h] \in Threads /\ ~growFailed => Kept(h)
    BY DEF NoLeak
  <2>1. ASSUME NEW t \in Threads, NEW u \in Threads, NEW g \in Handles, Spawn(t, u, g)
        PROVE  Kept(h)'
    <3>1. CASE g = h
      BY <2>1, <3>1 DEF Spawn, Goto, Holding, RegistryInv, TypeOK
    <3>2. CASE g # h
      BY <2>a, <2>1, <3>2 DEF Spawn, Goto, At, Holding, Registered, RegistryInv, TypeOK
    <3> QED
      BY <3>1, <3>2
  <2>2. ASSUME NEW t \in Threads, BeginJoinAll(t) \/ \E u \in Threads : BeginJoin(t, u)
        PROVE  Kept(h)'
    BY <2>a, <2>2 DEF BeginJoinAll, BeginJoin, At, Goto, Holding, Registered, RegistryInv, TypeOK
  <2>3. ASSUME NEW t \in Threads, RegistryAdd(t)
        PROVE  Kept(h)'
    <3>1. ~growFailed /\ Registered' = Registered \cup {arg[t]} /\ UNCHANGED thread
      BY <2>3, AddFacts DEF RegistryAdd
    <3>2. \A s \in Threads : Holding(s) /\ s # t => Holding(s)' /\ arg'[s] = arg[s]
      BY <2>3 DEF RegistryAdd, Returned, Goto, Holding, RegistryInv, TypeOK
    <3> QED
      BY <2>a, <3>1, <3>2
  <2>4. ASSUME NEW t \in Threads, Claim(t) \/ Pop(t)
        PROVE  Kept(h)'
    <3>1. ~Holding(t) /\ UNCHANGED <<growFailed, thread>>
      BY <2>4 DEF Claim, Pop, At, Holding
    <3>2. \/ Return(t) /\ Registered' = Registered
          \/ \E g \in Registered, l \in {"wait", "all_wait"} :
                Own(t, g, l) /\ Registered' = Registered \ {g}
      <4>1. Registered' = Entries(registry')
        BY DEF Registered, Entries
      <4>2. registry' = registry => Registered' = Registered
        BY DEF Registered
      <4> QED
        BY <2>4, <4>1, <4>2, ClaimFacts, TakeLastFacts
    <3>3. CASE Return(t) /\ Registered' = Registered
      BY <2>a, <3>1, <3>3 DEF Return, Goto, Holding, RegistryInv, TypeOK
    <3>4. ASSUME NEW g \in Registered, NEW l \in {"wait", "all_wait"},
                 Own(t, g, l), Registered' = Registered \ {g}
          PROVE  Kept(h)'
      <4>1. Holding(t)' /\ arg'[t] = g
        BY <3>4 DEF Own, Goto, Holding, RegistryInv, TypeOK
      <4>2. \A s \in Threads : Holding(s) => Holding(s)' /\ arg'[s] = arg[s]
        BY <3>1, <3>4 DEF Own, Goto, Holding, RegistryInv, TypeOK
      <4> QED
        BY <2>a, <3>1, <3>4, <4>1, <4>2
    <3> QED
      BY <3>2, <3>3, <3>4
  <2>5. ASSUME NEW t \in Threads, JoinClaimed(t) \/ JoinRefused(t)
        PROVE  Kept(h)'
    <3>1. /\ ~growFailed /\ Registered' = Registered
          /\ thread' = [thread EXCEPT ![arg[t]] = NoThread]
      BY <2>5 DEF JoinClaimed, JoinRefused, FreeClaimed, Registered
    <3>2. h # arg[t] /\ thread'[h] = thread[h]
      BY <3>1 DEF RegistryInv, TypeOK
    <3>3. \A s \in Threads : Holding(s) /\ s # t => Holding(s)' /\ arg'[s] = arg[s]
      BY <2>5 DEF JoinClaimed, JoinRefused, FreeClaimed, Return, Goto, Holding, RegistryInv, TypeOK
    <3> QED
      BY <2>a, <3>1, <3>2, <3>3
  <2>6. ASSUME NEW t \in Threads, Exit(t)
        PROVE  Kept(h)'
    BY <2>a, <2>6 DEF Exit, Holding, Registered
  <2>7. CASE UNCHANGED vars
    BY <2>a, <2>7 DEF vars, Holding, Registered
  <2> QED
    BY <2>1, <2>2, <2>3, <2>4, <2>5, <2>6, <2>7 DEF Next, RuntimeStep
<1> QED
  BY <1>1, <1>2, Invariance, PTL DEF Spec

(* join and wait_all come back only when the threads they were to wait for  *)
(* have finished, but for those that wait for the caller, that another call *)
(* claimed first or that were never registered.                             *)
THEOREM CallsWait == Spec => ReturnMeansDone
<1> DEFINE Done(t, u) == \/ life[u] = "exited"
                         \/ WaitsFor(u, t)
                         \/ claimer[u] \in Threads \ {t}
                         \/ growFailed /\ claimer[u] = NoThread
           Act == \A t \in Threads : pc[t] \notin {"body", "add"} /\ pc'[t] = "body" =>
                     \A u \in due[t] \ {t} : Done(t, u)
<1>1. RegistryInv /\ [Next]_vars => [Act]_vars
  <2> SUFFICES ASSUME RegistryInv, Next, NEW t \in Threads, pc[t] \notin {"body", "add"},
                      pc'[t] = "body", NEW u \in due[t] \ {t}
               PROVE  Done(t, u)
    OBVIOUS
  <2> USE RegistryAssumption
  <2>1. u \in Threads /\ ticket[u] # NoHandle /\ claimer[u] \in Threads \cup {NoThread}
    BY DEF RegistryInv, TypeOK, DueInv
  <2>2. Claim(t) \/ Pop(t) \/ ((JoinClaimed(t) \/ JoinRefused(t)) /\ pc[t] = "wait")
    <3>1. PICK s \in Threads :
             \/ \E v \in Threads, h \in Handles : Spawn(s, v, h)
             \/ BeginJoinAll(s) \/ \E v \in Threads : BeginJoin(s, v)
             \/ RuntimeStep(s) \/ JoinRefused(s)
             \/ Exit(s)
      BY DEF Next
    <3>2. \A v \in Threads, h \in Handles : ~Spawn(s, v, h)
      BY DEF Spawn, Goto, At, RegistryInv, TypeOK
    <3>3. ~BeginJoinAll(s) /\ ~Exit(s) /\ \A v \in Threads : ~BeginJoin(s, v)
      BY DEF BeginJoinAll, BeginJoin, Exit, Goto, At, RegistryInv, TypeOK
    <3>4. ~RegistryAdd(s)
      BY DEF RegistryAdd, Returned, Goto, At, RegistryInv, TypeOK
    <3>5. Claim(s) \/ Pop(s) => s = t
      BY DEF Claim, Pop, Own, Return, Goto, At, RegistryInv, TypeOK
    <3>6. JoinClaimed(s) \/ JoinRefused(s) => s = t /\ pc[t] = "wait"
      BY DEF JoinClaimed, JoinRefused, FreeClaimed, Return, Goto, At, RegistryInv, TypeOK
    <3> QED
      BY <3>1, <3>2, <3>3, <3>4, <3>5, <3>6 DEF RuntimeStep
  <2>3. CASE claimer[u] = t
    <3>1. CASE Claim(t) \/ Pop(t)
      BY <2>1, <2>3, <3>1 DEF Claim, Pop, At, WaitsFor, Waiting, RegistryInv, ClaimInv
    <3>2. CASE JoinClaimed(t)
      BY <2>1, <2>3, <3>2 DEF JoinClaimed, FreeClaimed, At, WaitsFor, RegistryInv, ClaimInv
    <3>3. CASE JoinRefused(t)
      BY <2>1, <2>3, <3>3 DEF JoinRefused, FreeClaimed, At, WaitsFor, RegistryInv, ClaimInv
    <3> QED
      BY <2>2, <3>1, <3>2, <3>3
  <2>4. CASE claimer[u] = NoThread /\ ~growFailed
    <3>1. CASE Claim(t)
      <4>1. arg[t] = ticket[u] /\ arg[t] \in Registered
        BY <2>1, <2>4, <3>1 DEF Claim, At, RegistryInv, DueInv, TicketInv
      <4> QED
        BY <3>1, <4>1, ClaimFacts DEF Own, Goto, RegistryInv, TypeOK
    <3>2. CASE Pop(t)
      <4>1. Registered # {}
        BY <2>1, <2>4 DEF RegistryInv, TicketInv
      <4> QED
        BY <3>2, <4>1, TakeLastFacts DEF Own, Goto, RegistryInv, TypeOK
    <3>3. CASE pc[t] = "wait"
      BY <2>1, <2>4, <3>3 DEF RegistryInv, DueInv
    <3> QED
      BY <2>2, <3>1, <3>2, <3>3
  <2> QED
    BY <2>1, <2>3, <2>4
<1> QED
  BY <1>1, Invariance, PTL DEF Spec, ReturnMeansDone

=============================================================================
