-------------------------- MODULE EmittedMapProofs --------------------------
(***************************************************************************)
(* Proofs about the maps of a compiled program, for any maps, keys, values *)
(* and sizes.                                                              *)
(***************************************************************************)
EXTENDS EmittedMap, FiniteSetTheorems, TLAPS

(* A map whose header and arrays are as MapInv says.                       *)
Shaped(h, a) ==
    /\ h \in [count : Nat, cap : Nat, blk : Blocks]
    /\ ArraysOK(a, h.cap)
    /\ RowsOK(h, a)

(* What is written has a tag and a word.                                   *)
LEMMA CellsTyped == Cells \subseteq [tag : MapTags, word : Int]
  BY MapAssumption DEF Cells, Missing, Nothing, MapTags

(* A larger factor makes room.                                             *)
LEMMA TimesGrows ==
    ASSUME NEW g \in Nat \ {0, 1}, NEW c \in Nat \ {0}
    PROVE  g * c \in Nat /\ g * c > c
<1>1. PICK d \in Nat : g = d + 2
  <2>1. g - 2 \in Nat /\ g = (g - 2) + 2
    OBVIOUS
  <2> QED
    BY <2>1
<1>2. g * c = d * c + 2 * c
  BY <1>1
<1>3. d * c \in Nat
  BY <1>1
<1> QED
  BY <1>2, <1>3

-----------------------------------------------------------------------------
(* The scan of find_slot stops at the row of the key, or right behind the  *)
(* last row if there is none.                                              *)
LEMMA FindSlotStops ==
    ASSUME NEW h, NEW a, Shaped(h, a), NEW k \in Keys
    PROVE  LET s == FindSlot(a.keys, h.cap, k)
           IN  /\ s \in Slots(h.cap)
               /\ \/ s = h.count /\ a.keys[s] = Null
                     /\ \A i \in 0..h.count - 1 : a.keys[i] # k
                  \/ s < h.count /\ a.keys[s] = k /\ a.keys[s] # Null
<1> DEFINE C == h.cap
           K == a.keys
           n == h.count
           First(i) == Stops(K, k, i) /\ \A j \in 0..i - 1 : ~Stops(K, k, j)
           s == FindSlot(K, C, k)
<1>1. /\ C \in Nat /\ n \in Nat /\ n < C /\ k # Null
      /\ \A i \in Slots(C) : K[i] # Null <=> i < n
      /\ \A i, j \in 0..n - 1 : K[i] = K[j] => i = j
  BY MapAssumption DEF Shaped, RowsOK
<1>2. \E i \in Slots(C) : First(i)
  <2>1. CASE \E i \in 0..n - 1 : K[i] = k
    <3>1. PICK i \in 0..n - 1 : K[i] = k
      BY <2>1
    <3>2. i \in Slots(C) /\ First(i)
      BY <3>1, <1>1 DEF Stops, Slots
    <3> QED
      BY <3>2
  <2>2. CASE \A i \in 0..n - 1 : K[i] # k
    <3>1. n \in Slots(C) /\ First(n)
      BY <2>2, <1>1 DEF Stops, Slots
    <3> QED
      BY <3>1
  <2> QED
    BY <2>1, <2>2
<1>3. s = CHOOSE i \in Slots(C) : First(i)
  BY <1>2 DEF FindSlot
<1>4. s \in Slots(C) /\ First(s)
  BY <1>2, <1>3
<1> HIDE DEF s, K, C, n
<1>5. CASE K[s] = Null
  <2>1. s >= n /\ n \in Slots(C) /\ K[n] = Null
    BY <1>1, <1>4, <1>5 DEF Slots
  <2>2. s = n
    BY <1>1, <1>4, <2>1 DEF Stops, Slots
  <2> QED
    BY <1>1, <1>4, <1>5, <2>2 DEF Stops, Slots, s, K, C, n
<1>6. CASE K[s] # Null
  BY <1>1, <1>4, <1>6 DEF Stops, Slots, s, K, C, n
<1> QED
  BY <1>5, <1>6

(* After emitMapGrowIfFull the rows are where they were, and a slot is     *)
(* left behind the place of a new row.                                     *)
LEMMA GrowKeepsRows ==
    ASSUME NEW h, NEW a, Shaped(h, a), NEW b \in Blocks
    PROVE  LET g == ArraysFor(h, a)
               c == CapFor(h)
           IN  /\ h.count + 1 < c
               /\ Shaped(Header(h.count, c, b), g)
               /\ \A i \in 0..h.count - 1 : RowAt(g, i) = RowAt(a, i)
<1> DEFINE g == ArraysFor(h, a)
           c == CapFor(h)
<1>1. /\ h.count \in Nat /\ h.cap \in Nat /\ h.count < h.cap
      /\ ArraysOK(a, h.cap) /\ RowsOK(h, a)
  BY DEF Shaped, RowsOK
<1>2. CASE IsFull(h)
  <2>1. c = GrowthFactor * h.cap /\ g = Grown(a, h.cap, c)
    BY <1>2 DEF CapFor, ArraysFor
  <2>2. c \in Nat /\ c > h.cap
    BY <2>1, <1>1, TimesGrows, MapAssumption
  <2> HIDE DEF c, g
  <2>3. ArraysOK(g, c)
    BY <2>1, <2>2, <1>1 DEF ArraysOK, Grown, Slots
  <2>4. /\ \A i \in Slots(c) : i < h.cap =>
            /\ g.keys[i] = a.keys[i]
            /\ g.vals[i] = a.vals[i]
            /\ g.types[i] = a.types[i]
        /\ \A i \in Slots(c) : ~(i < h.cap) => g.keys[i] = Null
    BY <2>1, <2>2 DEF Grown
  <2>5. RowsOK(Header(h.count, c, b), g)
    BY <2>2, <2>4, <1>1 DEF RowsOK, Header, Slots, Cell
  <2>6. \A i \in 0..h.count - 1 : RowAt(g, i) = RowAt(a, i)
    BY <2>2, <2>4, <1>1 DEF RowAt, Cell, Slots
  <2> QED
    BY <2>2, <2>3, <2>5, <2>6, <1>1 DEF Shaped, Header, c, g
<1>3. CASE ~IsFull(h)
  <2>1. c = h.cap /\ g = a
    BY <1>3 DEF CapFor, ArraysFor
  <2>2. h.count + 1 < c
    BY <2>1, <1>1, <1>3 DEF IsFull
  <2>3. RowsOK(Header(h.count, c, b), g)
    BY <2>1, <1>1 DEF RowsOK, Header
  <2> QED
    BY <2>1, <2>2, <2>3, <1>1 DEF Shaped, Header
<1> QED
  BY <1>2, <1>3

-----------------------------------------------------------------------------
(* The rows of a map are a sequence of rows of OrderedMap.                 *)
LEMMA RowsAreRows ==
    ASSUME NEW h, NEW a, Shaped(h, a)
    PROVE  /\ RowsOf(h, a) \in Seq(Ordered!Rows)
           /\ Len(RowsOf(h, a)) = h.count
           /\ h.count \in Nat
           /\ DOMAIN RowsOf(h, a) = 1..h.count
<1> DEFINE n == h.count
           f(i) == RowAt(a, i - 1)
<1>1. n \in Nat /\ h.cap \in Nat /\ n < h.cap
  BY DEF Shaped, RowsOK
<1>2. \A i \in 1..n : f(i) \in Ordered!Rows
  <2> SUFFICES ASSUME NEW i \in 1..n PROVE f(i) \in Ordered!Rows
    OBVIOUS
  <2>1. i - 1 \in 0..n - 1 /\ i - 1 \in Slots(h.cap) /\ i - 1 < n
    BY <1>1 DEF Slots
  <2>2. a.keys[i - 1] # Null /\ a.keys[i - 1] \in Keys \cup {Null}
    BY <2>1 DEF Shaped, RowsOK, ArraysOK
  <2>3. Cell(a, i - 1) \in Cells
    BY <2>1 DEF Shaped, RowsOK
  <2> QED
    BY <2>2, <2>3 DEF RowAt, Ordered!Rows, Ordered!Cells, Cells
<1> HIDE DEF f
<1>3. [i \in 1..n |-> f(i)] \in Seq(Ordered!Rows) /\ Len([i \in 1..n |-> f(i)]) = n
  BY <1>1, <1>2
<1>4. RowsOf(h, a) = [i \in 1..n |-> f(i)]
  BY DEF RowsOf, f
<1> QED
  BY <1>1, <1>3, <1>4

(* Looking a key up by find_slot and in the rows gives the same answer.    *)
LEMMA LookupAgrees ==
    ASSUME NEW h, NEW a, Shaped(h, a), NEW k \in Keys, NEW d
    PROVE  LET s == FindSlot(a.keys, h.cap, k)
               r == RowsOf(h, a)
           IN  /\ Ordered!HasKey(r, k) <=> a.keys[s] # Null
               /\ a.keys[s] # Null =>
                    Ordered!PosOf(r, k) = s + 1 /\ s \in 0..h.count - 1
               /\ Ordered!Lookup(r, k, d) =
                    IF a.keys[s] # Null THEN Cell(a, s) ELSE d
<1> DEFINE s == FindSlot(a.keys, h.cap, k)
           r == RowsOf(h, a)
           n == h.count
<1>1. /\ n \in Nat /\ h.cap \in Nat /\ n < h.cap /\ Len(r) = n
      /\ \A i, j \in 0..n - 1 : a.keys[i] = a.keys[j] => i = j
  BY RowsAreRows DEF Shaped, RowsOK
<1>2. \A i \in 1..n : r[i].key = a.keys[i - 1] /\ r[i].val = Cell(a, i - 1)
  BY DEF RowsOf, RowAt
<1>3. /\ s \in Slots(h.cap)
      /\ \/ s = n /\ a.keys[s] = Null /\ \A i \in 0..n - 1 : a.keys[i] # k
         \/ s < n /\ a.keys[s] = k /\ a.keys[s] # Null
  BY FindSlotStops
<1> HIDE DEF s, r, n
<1>4. CASE a.keys[s] = Null
  <2>1. \A i \in 1..n : r[i].key # k
    <3>1. \A i \in 1..n : i - 1 \in 0..n - 1
      BY <1>1
    <3> QED
      BY <3>1, <1>2, <1>3, <1>4
  <2>2. ~Ordered!HasKey(r, k)
    BY <2>1, <1>1 DEF Ordered!HasKey
  <2> QED
    BY <2>2, <1>4 DEF Ordered!Lookup, s, r
<1>5. CASE a.keys[s] # Null
  <2>1. s \in 0..n - 1 /\ a.keys[s] = k
    BY <1>1, <1>3, <1>5 DEF Slots
  <2>2. s + 1 \in 1..n /\ r[s + 1].key = k /\ r[s + 1].val = Cell(a, s)
    BY <2>1, <1>1, <1>2
  <2>3. \A i \in 1..n : r[i].key = k => i = s + 1
    <3> SUFFICES ASSUME NEW i \in 1..n, r[i].key = k PROVE i = s + 1
      OBVIOUS
    <3>1. i - 1 \in 0..n - 1 /\ a.keys[i - 1] = a.keys[s]
      BY <1>1, <1>2, <2>1
    <3>2. i - 1 = s
      BY <3>1, <1>1, <2>1
    <3> QED
      BY <3>2, <2>1, <1>1
  <2>4. Ordered!HasKey(r, k)
    BY <2>2, <1>1 DEF Ordered!HasKey
  <2>5. Ordered!PosOf(r, k) = s + 1
    BY <2>2, <2>3, <1>1 DEF Ordered!PosOf
  <2> QED
    BY <2>1, <2>2, <2>4, <2>5, <1>5 DEF Ordered!Lookup, s, r, n
<1> QED
  BY <1>4, <1>5

-----------------------------------------------------------------------------
(* What a set leaves behind: header and arrays.                            *)
SlotFor(h, a, k) == FindSlot(ArraysFor(h, a).keys, CapFor(h), k)
IsNew(h, a, k) == ArraysFor(h, a).keys[SlotFor(h, a, k)] = Null
PutHeader(h, a, k, b) ==
    Header(IF IsNew(h, a, k) THEN h.count + 1 ELSE h.count, CapFor(h), b)
PutArrays(h, a, k, v) ==
    LET g == ArraysFor(h, a)
        s == SlotFor(h, a, k)
    IN  [keys |-> [g.keys EXCEPT ![s] = IF IsNew(h, a, k) THEN k ELSE @],
         vals |-> [g.vals EXCEPT ![s] = v.word],
         types |-> [g.types EXCEPT ![s] = v.tag]]

LEMMA PutUpserts ==
    ASSUME NEW h, NEW a, Shaped(h, a), NEW b \in Blocks,
           NEW k \in Keys, NEW v \in Cells
    PROVE  /\ Shaped(PutHeader(h, a, k, b), PutArrays(h, a, k, v))
           /\ RowsOf(PutHeader(h, a, k, b), PutArrays(h, a, k, v)) =
                Ordered!Upsert(RowsOf(h, a), k, v)
<1> DEFINE n == h.count
           c == CapFor(h)
           g == ArraysFor(h, a)
           H == Header(n, c, b)
           s == SlotFor(h, a, k)
           p == PutArrays(h, a, k, v)
           r == RowsOf(h, a)
           row == [key |-> k, val |-> v]
<1>1. n + 1 < c /\ Shaped(H, g) /\ \A i \in 0..n - 1 : RowAt(g, i) = RowAt(a, i)
  BY GrowKeepsRows
<1>2. H.count = n /\ H.cap = c /\ H.blk = b
  BY DEF Header
<1>3. /\ n \in Nat /\ c \in Nat /\ ArraysOK(g, c)
      /\ \A i \in Slots(c) : g.keys[i] # Null <=> i < n
      /\ \A i, j \in 0..n - 1 : g.keys[i] = g.keys[j] => i = j
      /\ \A i \in 0..n - 1 : Cell(g, i) \in Cells
  BY <1>1, <1>2 DEF Shaped, RowsOK, Header
<1>4. /\ s \in Slots(c) /\ s \in 0..n
      /\ \/ s = n /\ g.keys[s] = Null /\ \A i \in 0..n - 1 : g.keys[i] # k
         \/ s < n /\ g.keys[s] = k /\ g.keys[s] # Null
  <2>1. s = FindSlot(g.keys, H.cap, k)
    BY <1>2 DEF SlotFor
  <2>2. /\ s \in Slots(H.cap)
        /\ \/ s = H.count /\ g.keys[s] = Null /\ \A i \in 0..H.count - 1 : g.keys[i] # k
           \/ s < H.count /\ g.keys[s] = k /\ g.keys[s] # Null
    BY <1>1, <2>1, FindSlotStops
  <2> QED
    BY <2>2, <1>2, <1>3 DEF Slots
<1>5. /\ Ordered!HasKey(r, k) <=> g.keys[s] # Null
      /\ g.keys[s] # Null => Ordered!PosOf(r, k) = s + 1
  <2>1. RowsOf(H, g) = r
    BY <1>1, <1>2, <1>3 DEF RowsOf
  <2>2. s = FindSlot(g.keys, H.cap, k)
    BY <1>2 DEF SlotFor
  <2> QED
    BY <1>1, <2>1, <2>2, LookupAgrees
<1>6. v \in [tag : MapTags, word : Int] /\ k # Null
  BY CellsTyped, MapAssumption
<1>7. /\ p.vals = [g.vals EXCEPT ![s] = v.word]
      /\ p.types = [g.types EXCEPT ![s] = v.tag]
      /\ g.keys \in [Slots(c) -> Keys \cup {Null}]
      /\ g.vals \in [Slots(c) -> Int \cup {Junk}]
      /\ g.types \in [Slots(c) -> MapTags \cup {Junk}]
      /\ p.keys = [g.keys EXCEPT ![s] = k]
  <2>1. p.keys = [g.keys EXCEPT ![s] = IF g.keys[s] = Null THEN k ELSE g.keys[s]]
    BY DEF PutArrays, IsNew
  <2>2. p.keys = [g.keys EXCEPT ![s] = k]
    BY <2>1, <1>4
  <2> QED
    BY <2>2, <1>3 DEF PutArrays, ArraysOK
<1>8. ArraysOK(p, c)
  <2>1. p = [keys |-> p.keys, vals |-> p.vals, types |-> p.types]
    BY DEF PutArrays
  <2>2. /\ p.keys \in [Slots(c) -> Keys \cup {Null}]
        /\ p.vals \in [Slots(c) -> Int \cup {Junk}]
        /\ p.types \in [Slots(c) -> MapTags \cup {Junk}]
    BY <1>4, <1>6, <1>7
  <2> HIDE DEF p
  <2> QED
    BY <2>1, <2>2 DEF ArraysOK
<1>9. /\ \A i \in Slots(c) : p.keys[i] = IF i = s THEN k ELSE g.keys[i]
      /\ \A i \in Slots(c) : Cell(p, i) = IF i = s THEN v ELSE Cell(g, i)
  <2>1. /\ \A i \in Slots(c) : p.keys[i] = IF i = s THEN k ELSE g.keys[i]
        /\ \A i \in Slots(c) : p.vals[i] = IF i = s THEN v.word ELSE g.vals[i]
        /\ \A i \in Slots(c) : p.types[i] = IF i = s THEN v.tag ELSE g.types[i]
    BY <1>4, <1>7
  <2> HIDE DEF p, g, s
  <2> QED
    BY <2>1, <1>6 DEF Cell
<1>10. \A i \in Slots(c) : RowAt(p, i) = IF i = s THEN row ELSE RowAt(g, i)
  BY <1>9 DEF RowAt
<1>11. /\ r \in Seq(Ordered!Rows) /\ Len(r) = n /\ DOMAIN r = 1..n
       /\ \A i \in 1..n : r[i] = RowAt(a, i - 1)
  BY RowsAreRows DEF RowsOf
<1>12. CASE g.keys[s] = Null
  <2> DEFINE N == Header(n + 1, c, b)
  <2>1. PutHeader(h, a, k, b) = N
    BY <1>12 DEF PutHeader, IsNew
  <2>2. N.count = n + 1 /\ N.cap = c /\ N.blk = b /\ N \in [count : Nat, cap : Nat, blk : Blocks]
    BY <1>3 DEF Header
  <2> HIDE DEF N, p, g, s, c, n
  <2>3. RowsOK(N, p)
    BY <2>2, <1>1, <1>3, <1>4, <1>6, <1>9, <1>12 DEF RowsOK, Slots
  <2>4. Ordered!Upsert(r, k, v) = Append(r, row)
    BY <1>5, <1>12 DEF Ordered!Upsert
  <2>5. \A i \in 1..n + 1 : RowAt(p, i - 1) = Append(r, row)[i]
    <3> SUFFICES ASSUME NEW i \in 1..n + 1 PROVE RowAt(p, i - 1) = Append(r, row)[i]
      OBVIOUS
    <3>1. i - 1 \in Slots(c)
      BY <1>1, <1>3 DEF Slots
    <3>2. CASE i = n + 1
      <4>1. RowAt(p, i - 1) = row
        BY <3>1, <3>2, <1>3, <1>4, <1>10, <1>12
      <4> QED
        BY <4>1, <3>2, <1>11
    <3>3. CASE i # n + 1
      <4>1. i \in 1..n /\ i - 1 \in 0..n - 1 /\ i - 1 # s
        BY <3>3, <1>3, <1>4, <1>12
      <4>2. RowAt(p, i - 1) = RowAt(a, i - 1)
        BY <4>1, <3>1, <1>1, <1>10 DEF n, g
      <4> QED
        BY <4>1, <4>2, <1>11
    <3> QED
      BY <3>2, <3>3
  <2>6. RowsOf(N, p) = Append(r, row)
    <3>1. DOMAIN Append(r, row) = 1..n + 1 /\ Append(r, row) = [i \in 1..n + 1 |-> Append(r, row)[i]]
      BY <1>11, <1>3
    <3> QED
      BY <3>1, <2>2, <2>5 DEF RowsOf
  <2> QED
    BY <2>1, <2>2, <2>3, <2>4, <2>6, <1>8 DEF Shaped, p
<1>13. CASE g.keys[s] # Null
  <2>1. PutHeader(h, a, k, b) = H
    BY <1>13 DEF PutHeader, IsNew
  <2>2. H \in [count : Nat, cap : Nat, blk : Blocks]
    BY <1>3 DEF Header
  <2> HIDE DEF H, p, g, s, c, n
  <2>3. s \in 0..n - 1 /\ g.keys[s] = k
    BY <1>3, <1>4, <1>13
  <2>4. RowsOK(H, p)
    BY <2>3, <1>1, <1>2, <1>3, <1>4, <1>6, <1>9, <1>13 DEF RowsOK, Slots
  <2>5. Ordered!Upsert(r, k, v) = [r EXCEPT ![s + 1] = row]
    BY <1>5, <1>13 DEF Ordered!Upsert
  <2>6. \A i \in 1..n : RowAt(p, i - 1) = [r EXCEPT ![s + 1] = row][i]
    <3> SUFFICES ASSUME NEW i \in 1..n
                 PROVE  RowAt(p, i - 1) = [r EXCEPT ![s + 1] = row][i]
      OBVIOUS
    <3>1. i - 1 \in Slots(c) /\ i - 1 \in 0..n - 1 /\ (i = s + 1 <=> i - 1 = s)
      BY <1>1, <1>3, <2>3 DEF Slots
    <3>2. RowAt(g, i - 1) = RowAt(a, i - 1)
      BY <3>1, <1>1 DEF n, g
    <3> QED
      BY <3>1, <3>2, <1>10, <1>11
  <2>7. RowsOf(H, p) = [r EXCEPT ![s + 1] = row]
    BY <2>6, <1>2, <1>11 DEF RowsOf
  <2> QED
    BY <2>1, <2>2, <2>4, <2>5, <2>7, <1>2, <1>8 DEF Shaped, p
<1> QED
  BY <1>12, <1>13

-----------------------------------------------------------------------------
LEMMA ShiftTyped ==
    ASSUME NEW c \in Nat, NEW s \in Nat, NEW S, NEW f \in [Slots(c) -> S]
    PROVE  ShiftLeft(f, c, s) \in [Slots(c) -> S]
<1>1. \A i \in Slots(c) : (IF s <= i /\ i < c - 1 THEN f[i + 1] ELSE f[i]) \in S
  BY DEF Slots
<1> QED
  BY <1>1 DEF ShiftLeft

(* Closing the gap of a deleted row keeps the other rows, in their order.  *)
LEMMA CompactDeletes ==
    ASSUME NEW h, NEW a, Shaped(h, a), NEW k \in Keys,
           a.keys[FindSlot(a.keys, h.cap, k)] # Null
    PROVE  LET H == Header(h.count - 1, h.cap, h.blk)
               p == Compact(a, h.cap, FindSlot(a.keys, h.cap, k))
           IN  /\ Shaped(H, p)
               /\ RowsOf(H, p) = Ordered!Without(RowsOf(h, a), k)
<1> DEFINE n == h.count
           c == h.cap
           s == FindSlot(a.keys, c, k)
           H == Header(n - 1, c, h.blk)
           p == Compact(a, c, s)
           r == RowsOf(h, a)
<1>1. /\ n \in Nat /\ c \in Nat /\ n < c /\ h.blk \in Blocks
      /\ \A i \in Slots(c) : a.keys[i] # Null <=> i < n
      /\ \A i, j \in 0..n - 1 : a.keys[i] = a.keys[j] => i = j
      /\ \A i \in 0..n - 1 : Cell(a, i) \in Cells
      /\ a.keys \in [Slots(c) -> Keys \cup {Null}]
      /\ a.vals \in [Slots(c) -> Int \cup {Junk}]
      /\ a.types \in [Slots(c) -> MapTags \cup {Junk}]
  BY DEF Shaped, RowsOK, ArraysOK
<1>2. s \in 0..n - 1 /\ Ordered!HasKey(r, k) /\ Ordered!PosOf(r, k) = s + 1
  BY LookupAgrees
<1>3. /\ p.keys = [ShiftLeft(a.keys, c, s) EXCEPT ![c - 1] = Null]
      /\ p.vals = ShiftLeft(a.vals, c, s)
      /\ p.types = ShiftLeft(a.types, c, s)
      /\ p = [keys |-> p.keys, vals |-> p.vals, types |-> p.types]
  BY DEF Compact
<1>4. H.count = n - 1 /\ H.cap = c /\ H.blk = h.blk
      /\ H \in [count : Nat, cap : Nat, blk : Blocks]
  BY <1>1, <1>2 DEF Header
<1>5. /\ r \in Seq(Ordered!Rows) /\ Len(r) = n /\ DOMAIN r = 1..n
      /\ \A i \in 1..n : r[i] = RowAt(a, i - 1)
  BY RowsAreRows DEF RowsOf
<1> HIDE DEF n, c, s, H, p, r
<1>6. ArraysOK(p, c)
  <2> s \in Nat
    BY <1>1, <1>2
  <2>1. /\ ShiftLeft(a.keys, c, s) \in [Slots(c) -> Keys \cup {Null}]
        /\ ShiftLeft(a.vals, c, s) \in [Slots(c) -> Int \cup {Junk}]
        /\ ShiftLeft(a.types, c, s) \in [Slots(c) -> MapTags \cup {Junk}]
    BY <1>1, ShiftTyped, Zenon
  <2>2. p.keys \in [Slots(c) -> Keys \cup {Null}]
    BY <2>1, <1>3
  <2> QED
    BY <2>1, <2>2, <1>3 DEF ArraysOK
<1>7. \A i \in Slots(c) :
        /\ i < c - 1 /\ s <= i =>
             p.keys[i] = a.keys[i + 1] /\ Cell(p, i) = Cell(a, i + 1)
        /\ i < s => p.keys[i] = a.keys[i] /\ Cell(p, i) = Cell(a, i)
        /\ i = c - 1 => p.keys[i] = Null
  BY <1>1, <1>2, <1>3 DEF ShiftLeft, Slots, Cell
<1>8. \A i \in 0..n - 2 :
        /\ i \in Slots(c) /\ i + 1 \in Slots(c) /\ i < c - 1
        /\ i \in 0..n - 1 /\ i + 1 \in 0..n - 1
  BY <1>1 DEF Slots
<1>9. RowsOK(H, p)
  <2>1. n - 1 < c
    BY <1>1
  <2>2. \A i \in Slots(c) : p.keys[i] # Null <=> i < n - 1
    <3> SUFFICES ASSUME NEW i \in Slots(c) PROVE p.keys[i] # Null <=> i < n - 1
      OBVIOUS
    <3>1. CASE i < s
      BY <3>1, <1>1, <1>2, <1>7 DEF Slots
    <3>2. CASE s <= i /\ i < c - 1
      <4>1. i + 1 \in Slots(c)
        BY <3>2, <1>1 DEF Slots
      <4> QED
        BY <4>1, <3>2, <1>1, <1>7 DEF Slots
    <3>3. CASE i = c - 1
      BY <3>3, <1>1, <1>7 DEF Slots
    <3> QED
      BY <3>1, <3>2, <3>3, <1>1, <1>2 DEF Slots
  <2>3. \A i, j \in 0..n - 2 : p.keys[i] = p.keys[j] => i = j
    BY <1>1, <1>2, <1>7, <1>8
  <2>4. \A i \in 0..n - 2 : Cell(p, i) \in Cells
    BY <1>1, <1>2, <1>7, <1>8
  <2>5. H.count - 1 = n - 2
    BY <1>4, <1>1
  <2> QED
    BY <2>1, <2>2, <2>3, <2>4, <2>5, <1>4 DEF RowsOK
<1>10. RowsOf(H, p) = Ordered!Without(r, k)
  <2>1. Ordered!Without(r, k) =
          [i \in 1..n - 1 |-> IF i < s + 1 THEN r[i] ELSE r[i + 1]]
    BY <1>2, <1>5 DEF Ordered!Without
  <2>2. \A i \in 1..n - 1 : RowAt(p, i - 1) = IF i < s + 1 THEN r[i] ELSE r[i + 1]
    <3> SUFFICES ASSUME NEW i \in 1..n - 1
                 PROVE  RowAt(p, i - 1) = IF i < s + 1 THEN r[i] ELSE r[i + 1]
      OBVIOUS
    <3>1. i - 1 \in 0..n - 2 /\ i \in 1..n /\ i + 1 \in 1..n /\ (i - 1) + 1 = i
          /\ (i + 1) - 1 = i
      BY <1>1
    <3>2. CASE i < s + 1
      <4>1. i - 1 < s
        BY <3>2, <1>1, <1>2
      <4>2. RowAt(p, i - 1) = RowAt(a, i - 1)
        BY <3>1, <4>1, <1>7, <1>8 DEF RowAt
      <4> QED
        BY <4>2, <3>1, <3>2, <1>5
    <3>3. CASE ~(i < s + 1)
      <4>1. s <= i - 1
        BY <3>3, <1>1, <1>2
      <4>2. RowAt(p, i - 1) = RowAt(a, i)
        BY <3>1, <4>1, <1>7, <1>8 DEF RowAt
      <4> QED
        BY <4>2, <3>1, <3>3, <1>5
    <3> QED
      BY <3>2, <3>3
  <2> QED
    BY <2>1, <2>2, <1>4 DEF RowsOf
<1> QED
  BY <1>4, <1>6, <1>9, <1>10 DEF Shaped, n, c, s, H, p, r

-----------------------------------------------------------------------------
LEMMA FirstNumbers ==
    ASSUME NEW n \in Nat
    PROVE  Cardinality(0..n - 1) = n
<1>1. 0 \in Int /\ n - 1 \in Int
  OBVIOUS
<1>2. Cardinality(0..n - 1) = IF 0 > n - 1 THEN 0 ELSE (n - 1) - 0 + 1
  BY <1>1, FS_Interval, Zenon
<1> QED
  BY <1>2

(* keys and values walk the rows from the first to the last.               *)
LEMMA OccupiedAreRows ==
    ASSUME NEW h, NEW a, Shaped(h, a)
    PROVE  /\ Occupied(a, h.cap) = 0..h.count - 1
           /\ Cardinality(Occupied(a, h.cap)) = h.count
<1>1. /\ h.count \in Nat /\ h.cap \in Nat /\ h.count < h.cap
      /\ \A i \in Slots(h.cap) : a.keys[i] # Null <=> i < h.count
  BY DEF Shaped, RowsOK
<1>2. Occupied(a, h.cap) = 0..h.count - 1
  BY <1>1 DEF Occupied, Slots
<1> QED
  BY <1>1, <1>2, FirstNumbers

LEMMA NthIsInPlace ==
    ASSUME NEW h, NEW a, Shaped(h, a), NEW i \in 1..h.count
    PROVE  NthOccupied(a, h.cap, i) = i - 1
<1> DEFINE n == h.count
           Before(x) == {j \in 0..n - 1 : j < x}
<1>1. n \in Nat /\ Occupied(a, h.cap) = 0..n - 1
  BY OccupiedAreRows DEF Shaped
<1>2. \A x \in 0..n - 1 : Cardinality(Before(x)) = x
  <2> SUFFICES ASSUME NEW x \in 0..n - 1 PROVE Cardinality(Before(x)) = x
    OBVIOUS
  <2>1. Before(x) = 0..x - 1
    BY <1>1
  <2>2. x \in Nat
    BY <1>1
  <2> HIDE DEF Before
  <2> QED
    BY <2>1, <2>2, FirstNumbers, Zenon
<1>3. NthOccupied(a, h.cap, i) =
        CHOOSE x \in 0..n - 1 : Cardinality(Before(x)) = i - 1
  BY <1>1 DEF NthOccupied
<1> HIDE DEF Before
<1>4. i - 1 \in 0..n - 1 /\ Cardinality(Before(i - 1)) = i - 1
  BY <1>1, <1>2
<1> QED
  BY <1>2, <1>3, <1>4

KeyList(r) == [i \in 1..Len(r) |-> r[i].key]
ValueList(r) == [i \in 1..Len(r) |-> r[i].val]

LEMMA CollectsRows ==
    ASSUME NEW h, NEW a, Shaped(h, a)
    PROVE  /\ CollectKeys(a, h.cap) = KeyList(RowsOf(h, a))
           /\ CollectValues(a, h.cap) = ValueList(RowsOf(h, a))
<1>1. /\ Cardinality(Occupied(a, h.cap)) = h.count
      /\ Len(RowsOf(h, a)) = h.count
  BY OccupiedAreRows, RowsAreRows
<1>2. \A i \in 1..h.count : NthOccupied(a, h.cap, i) = i - 1
  BY NthIsInPlace
<1>3. \A i \in 1..h.count : /\ RowsOf(h, a)[i].key = a.keys[i - 1]
                            /\ RowsOf(h, a)[i].val = Cell(a, i - 1)
  BY DEF RowsOf, RowAt
<1> QED
  BY <1>1, <1>2, <1>3 DEF CollectKeys, CollectValues, KeyList, ValueList

-----------------------------------------------------------------------------
(* The part of MapInv that only looks at the maps.                         *)
MapsOK ==
    /\ Live \subseteq Maps
    /\ hdr \in [Live -> [count : Nat, cap : Nat, blk : Blocks]]
    /\ DOMAIN heap = Held(hdr)
    /\ OwnArrays
    /\ \A m \in Live : Shaped(hdr[m], Arr(m))

Content == [m \in Live |-> RowsOf(hdr[m], Arr(m))]

LEMMA MapInvParts == MapInv <=> MapsOK /\ RetOK /\ exited \in BOOLEAN
<1>1. ASSUME hdr \in [Live -> [count : Nat, cap : Nat, blk : Blocks]]
      PROVE  (\A m \in Live : Shaped(hdr[m], Arr(m))) <=>
                /\ \A m \in Live : ArraysOK(Arr(m), hdr[m].cap)
                /\ \A m \in Live : RowsOK(hdr[m], Arr(m))
  BY <1>1 DEF Shaped
<1> QED
  BY <1>1 DEF MapInv, TypeOK, MapsOK

(* A call that leaves m with a header and arrays of the right shape, in a  *)
(* block of its own, leaves every other map alone.                         *)
LEMMA CommitKeeps ==
    ASSUME MapsOK, NEW m \in Maps, NEW h, NEW a, Shaped(h, a),
           h.blk \notin Held(hdr) \/ (m \in Live /\ h.blk = hdr[m].blk),
           Commit(m, h, a)
    PROVE  MapsOK' /\ Content' = Ordered!With(m, RowsOf(h, a))
<1>1. /\ hdr' = [x \in Live \cup {m} |-> IF x = m THEN h ELSE hdr[x]]
      /\ heap' = [b \in Held(hdr') |-> IF b = h.blk THEN a ELSE heap[b]]
  BY DEF Commit
<1>2. /\ Live \subseteq Maps
      /\ hdr \in [Live -> [count : Nat, cap : Nat, blk : Blocks]]
      /\ DOMAIN heap = Held(hdr)
      /\ \A x, y \in Live : hdr[x].blk = hdr[y].blk => x = y
      /\ \A x \in Live : Shaped(hdr[x], Arr(x))
      /\ h \in [count : Nat, cap : Nat, blk : Blocks]
  BY DEF MapsOK, OwnArrays, Shaped
<1>3. /\ Live' = Live \cup {m}
      /\ hdr'[m] = h
      /\ \A x \in Live : x # m => hdr'[x] = hdr[x]
      /\ hdr' \in [Live' -> [count : Nat, cap : Nat, blk : Blocks]]
  BY <1>1, <1>2 DEF Live
<1>4. \A x \in Live : hdr[x].blk \in Held(hdr)
  BY DEF Held, Live
<1>5. \A x \in Live : x # m => hdr[x].blk # h.blk
  BY <1>2, <1>4
<1>6. \A x \in Live' : hdr'[x].blk \in Held(hdr')
  BY DEF Held, Live
<1>7. /\ Arr(m)' = a
      /\ \A x \in Live : x # m => Arr(x)' = Arr(x)
  <2>1. Arr(m)' = a
    BY <1>1, <1>3, <1>6 DEF Arr
  <2>2. ASSUME NEW x \in Live, x # m PROVE Arr(x)' = Arr(x)
    <3>1. x \in Live' /\ hdr'[x] = hdr[x] /\ hdr'[x].blk \in Held(hdr')
      BY <2>2, <1>3, <1>6
    <3> QED
      BY <3>1, <2>2, <1>1, <1>5 DEF Arr
  <2> QED
    BY <2>1, <2>2
<1>8. OwnArrays'
  <2> SUFFICES ASSUME NEW x \in Live', NEW y \in Live', hdr'[x].blk = hdr'[y].blk
               PROVE  x = y
    BY DEF OwnArrays
  <2> QED
    BY <1>2, <1>3, <1>5
<1>9. \A x \in Live' : Shaped(hdr'[x], Arr(x)')
  BY <1>2, <1>3, <1>7
<1>10. DOMAIN heap' = Held(hdr')
  BY <1>1
<1>11. MapsOK'
  BY <1>2, <1>3, <1>8, <1>9, <1>10 DEF MapsOK
<1>12. Content' = Ordered!With(m, RowsOf(h, a))
  <2>1. Content' = [x \in Live \cup {m} |-> RowsOf(hdr'[x], Arr(x)')]
    BY <1>3 DEF Content
  <2>2. \A x \in Live \cup {m} : RowsOf(hdr'[x], Arr(x)') =
            IF x = m THEN RowsOf(h, a) ELSE RowsOf(hdr[x], Arr(x))
    BY <1>3, <1>7
  <2>3. Ordered!With(m, RowsOf(h, a)) =
          [x \in Live \cup {m} |->
            IF x = m THEN RowsOf(h, a) ELSE RowsOf(hdr[x], Arr(x))]
    BY DEF Ordered!With, Ordered!Created
  <2> QED
    BY <2>1, <2>2, <2>3
<1> QED
  BY <1>11, <1>12

(* The calls that change a map.                                            *)
LEMMA CreateStep ==
    ASSUME MapsOK, NEW m \in Maps, NEW hint \in Hints, Create(m, hint)
    PROVE  MapsOK' /\ Content' = Ordered!With(m, <<>>)
<1> DEFINE c == CreateCap(hint)
<1>1. c \in Nat \ {0}
  <2>1. hint * GrowthFactor \in Nat /\ MinCapacity \in Nat \ {0}
    BY MapAssumption
  <2> QED
    BY <2>1 DEF CreateCap
<1>2. PICK b \in Blocks \ Held(hdr) :
        Commit(m, Header(0, c, b), FreshArrays(c))
  BY DEF Create
<1> HIDE DEF c
<1>3. ArraysOK(FreshArrays(c), c)
  BY DEF ArraysOK, FreshArrays
<1>4. RowsOK(Header(0, c, b), FreshArrays(c))
  BY <1>1 DEF RowsOK, Header, FreshArrays, Slots
<1>5. Shaped(Header(0, c, b), FreshArrays(c)) /\ Header(0, c, b).blk = b
  BY <1>1, <1>3, <1>4 DEF Shaped, Header
<1>6. RowsOf(Header(0, c, b), FreshArrays(c)) = <<>>
  BY DEF RowsOf, Header
<1> QED
  BY <1>2, <1>5, <1>6, CommitKeeps

LEMMA StoreStep ==
    ASSUME MapsOK, NEW m \in Live, NEW k \in Keys, NEW v \in Cells,
           StoreRow(m, k, v)
    PROVE  MapsOK' /\ Content' = Ordered!With(m, Ordered!Upsert(Content[m], k, v))
<1> DEFINE h == hdr[m]
           a == Arr(m)
<1>1. PICK b \in Blocks :
        /\ b \notin Held(hdr) \/ b = hdr[m].blk
        /\ Commit(m, PutHeader(h, a, k, b), PutArrays(h, a, k, v))
  BY DEF StoreRow, PutHeader, PutArrays, IsNew, SlotFor
<1>2. m \in Maps /\ Shaped(h, a) /\ Content[m] = RowsOf(h, a)
  BY DEF MapsOK, Content
<1>3. /\ Shaped(PutHeader(h, a, k, b), PutArrays(h, a, k, v))
      /\ RowsOf(PutHeader(h, a, k, b), PutArrays(h, a, k, v)) =
            Ordered!Upsert(Content[m], k, v)
  BY <1>2, PutUpserts
<1>4. PutHeader(h, a, k, b).blk = b
  BY DEF PutHeader, Header
<1> QED
  BY <1>1, <1>2, <1>3, <1>4, CommitKeeps

LEMMA DeleteStep ==
    ASSUME MapsOK, NEW m \in Maps, NEW k \in Keys, Delete(m, k)
    PROVE  /\ MapsOK' /\ m \in Live
           /\ Content' = Ordered!With(m, Ordered!Without(Content[m], k))
<1> DEFINE h == hdr[m]
           a == Arr(m)
           s == FindSlot(a.keys, h.cap, k)
<1>1. m \in Live /\ Shaped(h, a) /\ Content[m] = RowsOf(h, a)
  BY DEF Delete, MapsOK, Content
<1>2. Present(m, k) <=> a.keys[s] # Null
  BY DEF Present, SlotOf
<1>3. CASE Present(m, k)
  <2>1. Commit(m, Header(h.count - 1, h.cap, h.blk), Compact(a, h.cap, s))
    BY <1>3 DEF Delete, SlotOf
  <2>2. /\ Shaped(Header(h.count - 1, h.cap, h.blk), Compact(a, h.cap, s))
        /\ RowsOf(Header(h.count - 1, h.cap, h.blk), Compact(a, h.cap, s)) =
             Ordered!Without(Content[m], k)
    BY <1>1, <1>2, <1>3, CompactDeletes
  <2>3. Header(h.count - 1, h.cap, h.blk).blk = h.blk
    BY DEF Header
  <2> QED
    BY <1>1, <2>1, <2>2, <2>3, CommitKeeps
<1>4. CASE ~Present(m, k)
  <2>1. UNCHANGED <<hdr, heap>>
    BY <1>4 DEF Delete
  <2>2. MapsOK'
    BY <2>1 DEF MapsOK, Live, Held, OwnArrays, Arr
  <2>3. Content' = Content
    BY <2>1 DEF Content, Live, Arr
  <2>4. ~Ordered!HasKey(Content[m], k)
    BY <1>1, <1>2, <1>4, LookupAgrees
  <2>5. Ordered!Without(Content[m], k) = Content[m]
    BY <2>4 DEF Ordered!Without
  <2>6. Ordered!With(m, Content[m]) = Content
    BY <1>1 DEF Ordered!With, Ordered!Created, Content
  <2> QED
    BY <1>1, <2>2, <2>3, <2>5, <2>6
<1> QED
  BY <1>3, <1>4

LEMMA CopyStep ==
    ASSUME MapsOK, NEW m \in Maps, NEW n \in Maps, Copy(m, n)
    PROVE  /\ MapsOK' /\ m \in Live /\ n \notin Live
           /\ Content' = Ordered!With(n, Content[m])
<1>1. PICK b \in Blocks \ Held(hdr) :
        Commit(n, Header(hdr[m].count, hdr[m].cap, b), Arr(m))
  BY DEF Copy
<1>2. m \in Live /\ n \notin Live /\ Shaped(hdr[m], Arr(m))
      /\ Content[m] = RowsOf(hdr[m], Arr(m))
  BY DEF Copy, MapsOK, Content
<1>3. /\ Shaped(Header(hdr[m].count, hdr[m].cap, b), Arr(m))
      /\ RowsOf(Header(hdr[m].count, hdr[m].cap, b), Arr(m)) = Content[m]
      /\ Header(hdr[m].count, hdr[m].cap, b).blk = b
  BY <1>2 DEF Shaped, Header, RowsOK, RowsOf
<1> QED
  BY <1>1, <1>2, <1>3, CommitKeeps

-----------------------------------------------------------------------------
(* The calls that only look.                                               *)
LEMMA ReadRow ==
    ASSUME MapsOK, NEW m \in Live, NEW k \in Keys, NEW d
    PROVE  /\ Present(m, k) <=> Ordered!HasKey(Content[m], k)
           /\ Ordered!Lookup(Content[m], k, d) =
                IF Present(m, k) THEN Cell(Arr(m), SlotOf(m, k)) ELSE d
           /\ Present(m, k) => Cell(Arr(m), SlotOf(m, k)) \in Cells
<1> DEFINE s == FindSlot(Arr(m).keys, hdr[m].cap, k)
<1>1. Shaped(hdr[m], Arr(m)) /\ Content[m] = RowsOf(hdr[m], Arr(m))
      /\ s = SlotOf(m, k)
      /\ (Present(m, k) <=> Arr(m).keys[s] # Null)
  BY DEF MapsOK, Content, SlotOf, Present
<1>2. Present(m, k) => s \in 0..hdr[m].count - 1
  BY <1>1, LookupAgrees
<1>3. \A i \in 0..hdr[m].count - 1 : Cell(Arr(m), i) \in Cells
  BY <1>1 DEF Shaped, RowsOK
<1> QED
  BY <1>1, <1>2, <1>3, LookupAgrees

LEMMA LookingKeeps ==
    ASSUME MapsOK, UNCHANGED <<hdr, heap>>
    PROVE  MapsOK' /\ Content' = Content
  BY DEF MapsOK, Live, Held, OwnArrays, Arr, Content

LEMMA ReadStep ==
    ASSUME MapsOK, ~exited, UNCHANGED exited, NEW m \in Maps,
           \/ Size(m)
           \/ KeysOf(m)
           \/ ValuesOf(m)
           \/ \E k \in Keys :
                \/ Has(m, k)
                \/ \E d \in Cells : GetDyn(m, k, d)
                \/ \E t \in FetchTags : Fetch(m, k, t)
    PROVE  MapsOK' /\ RetOK' /\ Ordered!Next
<1>1. /\ m \in Live /\ UNCHANGED <<hdr, heap>>
      /\ Shaped(hdr[m], Arr(m)) /\ Content[m] = RowsOf(hdr[m], Arr(m))
  BY DEF Size, KeysOf, ValuesOf, Has, GetDyn, Fetch, Answer, MapsOK, Content
<1>2. MapsOK' /\ Content' = Content
  BY <1>1, LookingKeeps
<1>3. ASSUME NEW r, ret' = r PROVE Ordered!Answer(m, r)
  BY <1>1, <1>2, <1>3 DEF Ordered!Answer, Ordered!Created, Content
<1>4. CASE Size(m)
  <2>1. ret' = <<"number", Len(Content[m])>>
    BY <1>1, <1>4, RowsAreRows DEF Size, Answer
  <2>2. Ordered!AskSize(m)
    BY <2>1, <1>3 DEF Ordered!AskSize, Content
  <2> QED
    BY <1>2, <2>1, <2>2 DEF Ordered!Next, RetOK
<1>5. CASE KeysOf(m)
  <2>1. ret' = <<"list", CollectKeys(Arr(m), hdr[m].cap)>>
    BY <1>5 DEF KeysOf, Answer
  <2>2. CollectKeys(Arr(m), hdr[m].cap) = KeyList(Content[m])
    BY <1>1, CollectsRows
  <2>3. Ordered!ListKeys(m)
    BY <2>1, <2>2, <1>3 DEF Ordered!ListKeys, Content, KeyList
  <2> QED
    BY <1>2, <2>1, <2>3 DEF Ordered!Next, RetOK
<1>6. CASE ValuesOf(m)
  <2>1. ret' = <<"list", CollectValues(Arr(m), hdr[m].cap)>>
    BY <1>6 DEF ValuesOf, Answer
  <2>2. CollectValues(Arr(m), hdr[m].cap) = ValueList(Content[m])
    BY <1>1, CollectsRows
  <2>3. Ordered!ListValues(m)
    BY <2>1, <2>2, <1>3 DEF Ordered!ListValues, Content, ValueList
  <2> QED
    BY <1>2, <2>1, <2>3 DEF Ordered!Next, RetOK
<1>7. ASSUME NEW k \in Keys, Has(m, k) PROVE RetOK' /\ Ordered!AskKey(m, k)
  <2>0. Present(m, k) = Ordered!HasKey(Content[m], k)
    BY <1>1, <1>7, ReadRow, Zenon DEF Present, Ordered!HasKey
  <2>1. ret' = <<"flag", Ordered!HasKey(Content[m], k)>>
    BY <2>0, <1>7, Zenon DEF Has, Answer
  <2> QED
    BY <2>1, <1>3 DEF Ordered!AskKey, Content, RetOK
<1>8. ASSUME NEW k \in Keys, NEW d \in Cells, GetDyn(m, k, d)
      PROVE  RetOK' /\ Ordered!GetKey(m, k, d)
  <2>1. ret' = <<"value", Ordered!Lookup(Content[m], k, d)>>
    BY <1>1, <1>8, ReadRow DEF GetDyn, Answer
  <2>2. Ordered!Lookup(Content[m], k, d) \in Cells
    BY <1>1, <1>8, ReadRow
  <2>3. RetOK'
    BY <2>1, <2>2 DEF RetOK
  <2> QED
    BY <2>1, <2>3, <1>3 DEF Ordered!GetKey, Content
<1>9. ASSUME NEW k \in Keys, NEW t \in FetchTags, Fetch(m, k, t)
      PROVE  RetOK' /\ Ordered!FetchKey(m, k, t)
  <2> DEFINE v == Ordered!Lookup(Content[m], k, Nothing)
             answer == IF Ordered!HasKey(Content[m], k) /\ v.tag # t
                       THEN <<"error">> ELSE <<"value", v>>
  <2>1. /\ Present(m, k) <=> Ordered!HasKey(Content[m], k)
        /\ v = IF Present(m, k) THEN Cell(Arr(m), SlotOf(m, k)) ELSE Nothing
        /\ v \in Cells
    BY <1>1, <1>9, ReadRow DEF Cells
  <2>2. Cell(Arr(m), SlotOf(m, k)).tag = Arr(m).types[SlotOf(m, k)]
    BY DEF Cell
  <2>3. ret' = IF ~Present(m, k) THEN <<"value", Nothing>>
               ELSE IF Arr(m).types[SlotOf(m, k)] # t THEN <<"error">>
               ELSE <<"value", Cell(Arr(m), SlotOf(m, k))>>
    BY <1>9 DEF Fetch, Answer
  <2> HIDE DEF v
  <2>4. ret' = answer
    BY <2>1, <2>2, <2>3
  <2>5. RetOK'
    BY <2>1, <2>4 DEF RetOK
  <2>6. Ordered!FetchKey(m, k, t)
    BY <2>4, <1>3 DEF Ordered!FetchKey, Content, v
  <2> QED
    BY <2>5, <2>6
<1> QED
  <2>1. CASE \E k \in Keys : Has(m, k)
    BY <2>1, <1>2, <1>7 DEF Ordered!Next
  <2>2. CASE \E k \in Keys, d \in Cells : GetDyn(m, k, d)
    BY <2>2, <1>2, <1>8 DEF Ordered!Next, Ordered!Cells, Cells
  <2>3. CASE \E k \in Keys, t \in FetchTags : Fetch(m, k, t)
    BY <2>3, <1>2, <1>9 DEF Ordered!Next
  <2> QED
    BY <1>4, <1>5, <1>6, <2>1, <2>2, <2>3

(* Every call is the call of OrderedMap with the same name and answer.     *)
LEMMA ChangeStep ==
    ASSUME MapsOK, RetOK, ~exited, UNCHANGED exited,
           NEW m \in Maps,
           \/ \E hint \in Hints : Create(m, hint)
           \/ \E n \in Maps : Copy(m, n)
           \/ \E k \in Keys : Delete(m, k) \/ SetDyn(m, k)
           \/ \E k \in Keys, v \in Values : SetTyped(m, k, v)
    PROVE  MapsOK' /\ RetOK' /\ Ordered!Next
<1>1. ret' = <<"none">>
  BY DEF Create, Copy, Delete, SetDyn, SetTyped
<1>2. RetOK'
  BY <1>1 DEF RetOK
<1>3. ASSUME NEW x, NEW r, Content' = Ordered!With(x, r)
      PROVE  Ordered!Change(x, r)
  BY <1>1, <1>3 DEF Ordered!Change, Content
<1>4. Ordered!Created = Live
  BY DEF Ordered!Created
<1>5. CASE \E hint \in Hints : Create(m, hint)
  <2>1. MapsOK' /\ Content' = Ordered!With(m, <<>>) /\ m \in Maps \ Live
    BY <1>5, CreateStep DEF Create
  <2>2. Ordered!Create(m)
    BY <2>1, <1>3, <1>4 DEF Ordered!Create
  <2> QED
    BY <1>2, <2>1, <2>2 DEF Ordered!Next
<1>6. ASSUME NEW n \in Maps, Copy(m, n) PROVE MapsOK' /\ Ordered!CopyTo(m, n)
  <2>1. MapsOK' /\ m \in Live /\ n \notin Live
        /\ Content' = Ordered!With(n, Content[m])
    BY <1>6, CopyStep
  <2> QED
    BY <2>1, <1>3, <1>4 DEF Ordered!CopyTo, Content
<1>7. ASSUME NEW k \in Keys, Delete(m, k) PROVE MapsOK' /\ Ordered!DeleteKey(m, k)
  <2>1. MapsOK' /\ m \in Live
        /\ Content' = Ordered!With(m, Ordered!Without(Content[m], k))
    BY <1>7, DeleteStep
  <2> QED
    BY <2>1, <1>3, <1>4 DEF Ordered!DeleteKey, Content
<1>8. ASSUME NEW k \in Keys, SetDyn(m, k) PROVE MapsOK' /\ Ordered!SetRead(m, k)
  <2>1. m \in Live /\ ret[1] = "value" /\ ret[2].tag \in DynTags
        /\ ret[2] \in Cells /\ StoreRow(m, k, ret[2])
    BY <1>8 DEF SetDyn, RetOK
  <2>2. MapsOK'
        /\ Content' = Ordered!With(m, Ordered!Upsert(Content[m], k, ret[2]))
    BY <2>1, StoreStep
  <2> QED
    BY <2>1, <2>2, <1>3, <1>4 DEF Ordered!SetRead, Ordered!SetKey, Content
<1>9. ASSUME NEW k \in Keys, NEW v \in Values, SetTyped(m, k, v)
      PROVE  MapsOK' /\ Ordered!SetKey(m, k, v)
  <2>1. m \in Live /\ v \in Cells /\ StoreRow(m, k, v)
    BY <1>9 DEF SetTyped, Cells
  <2>2. MapsOK' /\ Content' = Ordered!With(m, Ordered!Upsert(Content[m], k, v))
    BY <2>1, StoreStep
  <2> QED
    BY <2>1, <2>2, <1>3, <1>4 DEF Ordered!SetKey, Content
<1> QED
  BY <1>2, <1>5, <1>6, <1>7, <1>8, <1>9 DEF Ordered!Next

LEMMA MapInvNext == MapInv' <=> MapsOK' /\ RetOK' /\ exited' \in BOOLEAN
<1>1. ASSUME (hdr \in [Live -> [count : Nat, cap : Nat, blk : Blocks]])'
      PROVE  (\A m \in Live : Shaped(hdr[m], Arr(m)))' <=>
                /\ (\A m \in Live : ArraysOK(Arr(m), hdr[m].cap))'
                /\ (\A m \in Live : RowsOK(hdr[m], Arr(m)))'
  BY <1>1 DEF Shaped
<1> QED
  BY <1>1 DEF MapInv, TypeOK, MapsOK

LEMMA StepKeeps ==
    ASSUME MapInv, [Next]_vars
    PROVE  MapInv' /\ [Ordered!Next]_(Ordered!vars)
<1>1. MapsOK /\ RetOK /\ exited \in BOOLEAN
  BY MapInvParts
<1>2. CASE ~exited /\ Call /\ UNCHANGED exited
  <2>1. MapsOK' /\ RetOK' /\ Ordered!Next
    BY <1>1, <1>2, ReadStep, ChangeStep DEF Call
  <2> QED
    BY <1>1, <1>2, <2>1, MapInvNext
<1>3. ASSUME ~exited, NEW m \in Maps, SetDynRefused(m)
      PROVE  MapInv' /\ Ordered!Next
  <2>1. MapsOK' /\ Content' = Content
    BY <1>1, <1>3, LookingKeeps DEF SetDynRefused
  <2>2. RetOK' /\ exited' = TRUE
    BY <1>1, <1>3 DEF SetDynRefused, RetOK
  <2>3. Ordered!RefuseRead(m)
    BY <1>3, <2>1
       DEF SetDynRefused, Ordered!RefuseRead, Ordered!Created, Content
  <2> QED
    BY <2>1, <2>2, <2>3, <1>3, MapInvNext DEF Ordered!Next
<1>4. ASSUME ~exited, NEW m \in Maps, NEW k \in Keys, NEW t \in FetchTags,
             FetchRefused(m, k, t)
      PROVE  MapInv' /\ Ordered!Next
  <2>1. MapsOK' /\ Content' = Content
    BY <1>1, <1>4, LookingKeeps DEF FetchRefused
  <2>2. RetOK' /\ exited' = TRUE
    BY <1>1, <1>4 DEF FetchRefused, RetOK
  <2>3. m \in Live
    BY <1>4 DEF FetchRefused
  <2>4. /\ Present(m, k) <=> Ordered!HasKey(Content[m], k)
        /\ Ordered!Lookup(Content[m], k, Nothing) =
              IF Present(m, k) THEN Cell(Arr(m), SlotOf(m, k)) ELSE Nothing
    BY <1>1, <2>3, ReadRow
  <2>5. Ordered!Lookup(Content[m], k, Nothing).tag # t
    BY <2>4, <1>4 DEF FetchRefused, Cell
  <2>6. Ordered!RefuseFetch(m, k, t)
    BY <1>4, <2>1, <2>3, <2>4, <2>5
       DEF FetchRefused, Ordered!RefuseFetch, Ordered!Created, Content
  <2> QED
    BY <2>1, <2>2, <2>6, <1>4, MapInvNext DEF Ordered!Next
<1>5. CASE UNCHANGED vars
  <2>1. MapsOK' /\ Content' = Content
    BY <1>1, <1>5, LookingKeeps DEF vars
  <2> QED
    BY <1>1, <1>5, <2>1, MapInvNext DEF vars, RetOK, Ordered!vars, Content
<1> QED
  BY <1>2, <1>3, <1>4, <1>5 DEF Next

LEMMA InitOK == Init => MapInv /\ Ordered!Init
<1> SUFFICES ASSUME Init PROVE MapInv /\ Ordered!Init
  OBVIOUS
<1>1. Live = {} /\ DOMAIN heap = {} /\ ret = <<"none">> /\ exited = FALSE
      /\ hdr = [m \in {} |-> Header(0, 0, Null)]
  BY DEF Init, Live
<1>2. MapInv
  BY <1>1 DEF MapInv, TypeOK, OwnArrays, RetOK, Held, Live
<1>3. Content = [m \in {} |-> <<>>]
  BY <1>1 DEF Content
<1> QED
  BY <1>1, <1>2, <1>3 DEF Ordered!Init, Content

(* The rows are packed below count in every reachable state, whatever maps *)
(* are made, grown, shrunk and copied.                                     *)
THEOREM RowsStayPacked == Spec => []MapInv
<1>1. Init => MapInv
  BY InitOK
<1>2. MapInv /\ [Next]_vars => MapInv'
  BY StepKeeps
<1> QED
  BY <1>1, <1>2, PTL DEF Spec

(* The scan of find_slot ends at an empty slot or at the key.              *)
THEOREM ScanFindsSlot == Spec => []SlotFound
<1>1. MapInv => SlotFound
  <2> SUFFICES ASSUME MapInv, NEW m \in Live, NEW k \in Keys
               PROVE  Arr(m).keys[SlotOf(m, k)] \in {Null, k}
    BY DEF SlotFound
  <2>1. Shaped(hdr[m], Arr(m))
    BY MapInvParts DEF MapsOK
  <2> QED
    BY <2>1, FindSlotStops DEF SlotOf
<1> QED
  BY <1>1, RowsStayPacked, PTL

(* keys and values stay inside the buffer of count cells.                  *)
THEOREM CollectStaysInside == Spec => []CollectFits
<1>1. MapInv => CollectFits
  <2> SUFFICES ASSUME MapInv, NEW m \in Live
               PROVE  Cardinality(Occupied(Arr(m), hdr[m].cap)) <= hdr[m].count
    BY DEF CollectFits
  <2>1. Shaped(hdr[m], Arr(m))
    BY MapInvParts DEF MapsOK
  <2>2. Cardinality(Occupied(Arr(m), hdr[m].cap)) = hdr[m].count
        /\ hdr[m].count \in Nat
    BY <2>1, OccupiedAreRows, RowsAreRows
  <2> QED
    BY <2>2
<1> QED
  BY <1>1, RowsStayPacked, PTL

(* The emitted code is an ordered map: every call changes the rows and     *)
(* answers as OrderedMap says.                                             *)
THEOREM EmittedMapIsOrdered == Spec => RefinesOrderedMap
<1>1. Init => Ordered!Init
  BY InitOK
<1>2. MapInv /\ [Next]_vars => [Ordered!Next]_(Ordered!vars)
  BY StepKeeps
<1> QED
  BY <1>1, <1>2, RowsStayPacked, PTL DEF Spec, RefinesOrderedMap, Ordered!Spec

-----------------------------------------------------------------------------
(* Rows r become rows q: no two keys change places, a new key is last.     *)
Keeps(r, q) ==
    \A x, y \in 1..Len(q) :
        /\ \A i, j \in 1..Len(r) :
            r[i].key = q[x].key /\ r[j].key = q[y].key /\ i < j => x < y
        /\ (\A i \in 1..Len(r) : r[i].key # q[x].key) => y <= x

OneRowPerKey(r) ==
    \A i, j \in 1..Len(r) : r[i].key = r[j].key => i = j

LEMMA RowPerKey ==
    ASSUME NEW h, NEW a, Shaped(h, a)
    PROVE  OneRowPerKey(RowsOf(h, a))
<1>1. /\ h.count \in Nat /\ Len(RowsOf(h, a)) = h.count
      /\ \A i, j \in 0..h.count - 1 : a.keys[i] = a.keys[j] => i = j
  BY RowsAreRows DEF Shaped, RowsOK
<1>2. \A i \in 1..h.count : RowsOf(h, a)[i].key = a.keys[i - 1]
  BY DEF RowsOf, RowAt
<1>3. \A i \in 1..h.count : i - 1 \in 0..h.count - 1
  BY <1>1
<1> QED
  BY <1>1, <1>2, <1>3 DEF OneRowPerKey

LEMMA SameKeeps ==
    ASSUME NEW r, Len(r) \in Nat, OneRowPerKey(r)
    PROVE  Keeps(r, r)
  BY DEF Keeps, OneRowPerKey

LEMMA UpsertKeeps ==
    ASSUME NEW r \in Seq(Ordered!Rows), OneRowPerKey(r), NEW k, NEW v
    PROVE  Keeps(r, Ordered!Upsert(r, k, v))
<1> DEFINE row == [key |-> k, val |-> v]
           n == Len(r)
           p == Ordered!PosOf(r, k)
<1>1. n \in Nat
  OBVIOUS
<1>2. CASE Ordered!HasKey(r, k)
  <2> DEFINE q == [r EXCEPT ![p] = row]
  <2>1. p \in 1..n /\ r[p].key = k
    BY <1>2 DEF Ordered!HasKey, Ordered!PosOf
  <2> HIDE DEF p
  <2>2. Len(q) = n /\ \A x \in 1..n : q[x].key = r[x].key
    BY <2>1
  <2>3. Ordered!Upsert(r, k, v) = q
    BY <1>2 DEF Ordered!Upsert, p
  <2> HIDE DEF q, n
  <2> QED
    BY <1>1, <2>2, <2>3 DEF Keeps, OneRowPerKey, n
<1>3. CASE ~Ordered!HasKey(r, k)
  <2> DEFINE q == Append(r, row)
  <2>1. \A i \in 1..n : r[i].key # k
    BY <1>3 DEF Ordered!HasKey
  <2>2. /\ Len(q) = n + 1 /\ q[n + 1].key = k
        /\ \A x \in 1..n : q[x].key = r[x].key
    OBVIOUS
  <2>3. Ordered!Upsert(r, k, v) = q
    BY <1>3 DEF Ordered!Upsert
  <2> HIDE DEF q, n
  <2>4. ASSUME NEW x \in 1..n + 1, NEW y \in 1..n + 1,
               NEW i \in 1..n, NEW j \in 1..n,
               r[i].key = q[x].key, r[j].key = q[y].key, i < j
        PROVE  x < y
    <3>1. x \in 1..n /\ y \in 1..n
      <4>1. x # n + 1
        BY <2>1, <2>2, <2>4, Zenon
      <4>2. y # n + 1
        BY <2>1, <2>2, <2>4, Zenon
      <4> QED
        BY <4>1, <4>2, <1>1
    <3>2. \A u, w \in 1..n : r[u].key = r[w].key => u = w
      BY DEF OneRowPerKey, n
    <3>3. x = i /\ y = j
      BY <3>1, <3>2, <2>2, <2>4
    <3> QED
      BY <3>3, <2>4
  <2>5. ASSUME NEW x \in 1..n + 1, NEW y \in 1..n + 1,
               \A i \in 1..n : r[i].key # q[x].key
        PROVE  y <= x
    <3>1. x = n + 1
      BY <1>1, <2>2, <2>5
    <3> QED
      BY <3>1, <1>1
  <2> QED
    BY <2>2, <2>3, <2>4, <2>5 DEF Keeps, n
<1> QED
  BY <1>2, <1>3

LEMMA WithoutKeeps ==
    ASSUME NEW r \in Seq(Ordered!Rows), OneRowPerKey(r), NEW k
    PROVE  Keeps(r, Ordered!Without(r, k))
<1> DEFINE n == Len(r)
           p == Ordered!PosOf(r, k)
<1>1. n \in Nat
  OBVIOUS
<1>2. CASE Ordered!HasKey(r, k)
  <2> DEFINE q == [i \in 1..n - 1 |-> IF i < p THEN r[i] ELSE r[i + 1]]
  <2>1. p \in 1..n
    BY <1>2 DEF Ordered!HasKey, Ordered!PosOf
  <2>2. Ordered!Without(r, k) = q
    BY <1>2 DEF Ordered!Without
  <2> HIDE DEF p, n
  <2>3. \A i \in 1..n - 1 : (IF i < p THEN r[i] ELSE r[i + 1]) \in Ordered!Rows
    BY <1>1, <2>1 DEF n
  <2>4. Len(q) = n - 1
    BY <1>1, <2>1, <2>3
  <2>5. \A x \in 1..n - 1 : q[x].key = IF x < p THEN r[x].key ELSE r[x + 1].key
    OBVIOUS
  <2> HIDE DEF q
  <2>6. \A x \in 1..n - 1 : \A i \in 1..n :
            r[i].key = q[x].key => i = IF x < p THEN x ELSE x + 1
    BY <1>1, <2>1, <2>5 DEF OneRowPerKey, n
  <2>7. \A x \in 1..n - 1 : \E i \in 1..n : r[i].key = q[x].key
    <3> SUFFICES ASSUME NEW x \in 1..n - 1
                 PROVE  \E i \in 1..n : r[i].key = q[x].key
      OBVIOUS
    <3>1. x \in 1..n /\ x + 1 \in 1..n
      BY <1>1
    <3> QED
      BY <3>1, <2>5
  <2>8. ASSUME NEW x \in 1..n - 1, NEW y \in 1..n - 1,
               NEW i \in 1..n, NEW j \in 1..n,
               r[i].key = q[x].key, r[j].key = q[y].key, i < j
        PROVE  x < y
    BY <1>1, <2>1, <2>6, <2>8
  <2> QED
    BY <2>2, <2>4, <2>7, <2>8 DEF Keeps, n
<1>3. CASE ~Ordered!HasKey(r, k)
  BY <1>1, <1>3, SameKeeps DEF Ordered!Without
<1> QED
  BY <1>2, <1>3

(* Every step of OrderedMap keeps the order of the keys of every map.      *)
LEMMA OrderedStepKeeps ==
    ASSUME MapsOK, [Ordered!Next]_(Ordered!vars), NEW m \in Live
    PROVE  m \in Live' /\ Keeps(Content[m], Content'[m])
<1>1. Content[m] \in Seq(Ordered!Rows) /\ OneRowPerKey(Content[m])
      /\ Len(Content[m]) \in Nat
  <2>1. Shaped(hdr[m], Arr(m)) /\ Content[m] = RowsOf(hdr[m], Arr(m))
    BY DEF MapsOK, Content
  <2> QED
    BY <2>1, RowsAreRows, RowPerKey
<1>2. DOMAIN Content' = Live'
  BY DEF Content
<1>3. CASE Content' = Content
  <2>1. DOMAIN Content' = DOMAIN Content /\ DOMAIN Content = Live
    BY <1>3 DEF Content
  <2> QED
    BY <2>1, <1>1, <1>2, <1>3, SameKeeps
<1>4. ASSUME NEW x, NEW s, Ordered!Change(x, s),
             x = m => Keeps(Content[m], s)
      PROVE  m \in Live' /\ Keeps(Content[m], Content'[m])
  <2>1. Content' = [y \in Live \cup {x} |-> IF y = x THEN s ELSE Content[y]]
    BY <1>4 DEF Ordered!Change, Ordered!With, Ordered!Created, Content
  <2>2. m \in Live' /\ Content'[m] = IF m = x THEN s ELSE Content[m]
    BY <2>1, <1>2
  <2> QED
    BY <2>2, <1>1, <1>4, SameKeeps
<1>5. ASSUME NEW x \in Maps, x \notin Live, NEW s, Ordered!Change(x, s)
      PROVE  m \in Live' /\ Keeps(Content[m], Content'[m])
  BY <1>4, <1>5
<1>6. ASSUME NEW x \in Maps, Ordered!Create(x)
      PROVE  m \in Live' /\ Keeps(Content[m], Content'[m])
  BY <1>5, <1>6 DEF Ordered!Create, Ordered!Created
<1>7. ASSUME NEW x \in Maps, NEW y \in Maps, Ordered!CopyTo(x, y)
      PROVE  m \in Live' /\ Keeps(Content[m], Content'[m])
  BY <1>5, <1>7 DEF Ordered!CopyTo, Ordered!Created
<1>8. ASSUME NEW x \in Maps, NEW k \in Keys, NEW v, Ordered!SetKey(x, k, v)
      PROVE  m \in Live' /\ Keeps(Content[m], Content'[m])
  <2>1. Keeps(Content[m], Ordered!Upsert(Content[m], k, v))
    BY <1>1, UpsertKeeps
  <2> QED
    BY <2>1, <1>4, <1>8 DEF Ordered!SetKey, Content
<1>9. ASSUME NEW x \in Maps, NEW k \in Keys, Ordered!DeleteKey(x, k)
      PROVE  m \in Live' /\ Keeps(Content[m], Content'[m])
  <2>1. Keeps(Content[m], Ordered!Without(Content[m], k))
    BY <1>1, WithoutKeeps
  <2> QED
    BY <2>1, <1>4, <1>9 DEF Ordered!DeleteKey, Content
<1>10. ASSUME NEW x \in Maps, NEW k \in Keys, Ordered!SetRead(x, k)
       PROVE  m \in Live' /\ Keeps(Content[m], Content'[m])
  BY <1>8, <1>10 DEF Ordered!SetRead
<1>11. ASSUME NEW x \in Maps,
              \/ Ordered!RefuseRead(x)
              \/ \E k, t : Ordered!RefuseFetch(x, k, t)
              \/ \E r : Ordered!Answer(x, r)
       PROVE  Content' = Content
  BY <1>11 DEF Ordered!RefuseRead, Ordered!RefuseFetch, Ordered!Answer, Content
<1>12. CASE UNCHANGED Ordered!vars
  BY <1>3, <1>12 DEF Ordered!vars, Content
<1>13. CASE Ordered!Next
  <2>1. \/ \E x \in Maps : Ordered!Create(x)
        \/ \E x, y \in Maps : Ordered!CopyTo(x, y)
        \/ \E x \in Maps, k \in Keys :
            \/ Ordered!DeleteKey(x, k)
            \/ Ordered!SetRead(x, k)
            \/ \E v : Ordered!SetKey(x, k, v)
        \/ \E x \in Maps :
            \/ Ordered!RefuseRead(x)
            \/ \E k, t : Ordered!RefuseFetch(x, k, t)
            \/ \E r : Ordered!Answer(x, r)
    BY <1>13
       DEF Ordered!Next, Ordered!GetKey, Ordered!FetchKey, Ordered!AskKey,
           Ordered!AskSize, Ordered!ListKeys, Ordered!ListValues
  <2> QED
    BY <2>1, <1>3, <1>6, <1>7, <1>8, <1>9, <1>10, <1>11
<1> QED
  BY <1>12, <1>13

LEMMA KeepsMeansFollows ==
    ASSUME MapsOK, MapsOK', NEW m \in Live, m \in Live',
           Keeps(Content[m], Content'[m])
    PROVE  Follows(m)
<1> DEFINE n == hdr[m].count
           c == hdr'[m].count
           a == Arr(m)
           b == Arr(m)'
           r == Content[m]
           q == Content'[m]
<1>1. Shaped(hdr[m], a) /\ r = RowsOf(hdr[m], a)
  BY DEF MapsOK, Content
<1>2. Shaped(hdr'[m], b) /\ q = RowsOf(hdr'[m], b)
  BY DEF MapsOK, Content
<1>3. /\ KeySlots(m) = 0..n - 1 /\ n \in Nat /\ Len(r) = n
      /\ \A i \in 1..n : r[i].key = a.keys[i - 1]
  BY <1>1, OccupiedAreRows, RowsAreRows DEF KeySlots, RowsOf, RowAt
<1>4. /\ KeySlots(m)' = 0..c - 1 /\ c \in Nat /\ Len(q) = c
      /\ \A i \in 1..c : q[i].key = b.keys[i - 1]
  BY <1>2, OccupiedAreRows, RowsAreRows DEF KeySlots, RowsOf, RowAt
<1> HIDE DEF n, c, a, b, r, q
<1>5. \A i \in 0..n - 1 : i + 1 \in 1..n /\ r[i + 1].key = a.keys[i]
  BY <1>3
<1>6. \A x \in 0..c - 1 : x + 1 \in 1..c /\ q[x + 1].key = b.keys[x]
  BY <1>4
<1>7. Keeps(r, q)
  BY DEF r, q
<1> SUFFICES ASSUME NEW x \in 0..c - 1, NEW y \in 0..c - 1
             PROVE  /\ \A i, j \in 0..n - 1 :
                        a.keys[i] = b.keys[x] /\ a.keys[j] = b.keys[y] /\ i < j
                        => x < y
                    /\ (\A i \in 0..n - 1 : a.keys[i] # b.keys[x]) => y <= x
  BY <1>3, <1>4 DEF Follows, a, b
<1>8. ASSUME NEW i \in 0..n - 1, NEW j \in 0..n - 1,
             a.keys[i] = b.keys[x], a.keys[j] = b.keys[y], i < j
      PROVE  x < y
  <2>1. r[i + 1].key = q[x + 1].key /\ r[j + 1].key = q[y + 1].key /\ i + 1 < j + 1
    BY <1>5, <1>6, <1>8
  <2>2. x + 1 < y + 1
    BY <2>1, <1>3, <1>4, <1>5, <1>6, <1>7 DEF Keeps
  <2> QED
    BY <2>2, <1>4
<1>9. ASSUME \A i \in 0..n - 1 : a.keys[i] # b.keys[x]
      PROVE  y <= x
  <2>1. \A i \in 1..n : r[i].key # q[x + 1].key
    <3> SUFFICES ASSUME NEW i \in 1..n PROVE r[i].key # q[x + 1].key
      OBVIOUS
    <3>1. i - 1 \in 0..n - 1
      BY <1>3
    <3> QED
      BY <3>1, <1>3, <1>6, <1>9
  <2>2. y + 1 <= x + 1
    BY <2>1, <1>3, <1>4, <1>6, <1>7 DEF Keeps
  <2> QED
    BY <2>2, <1>4
<1> QED
  BY <1>8, <1>9

(* Iteration follows insertion order in every map, for ever.               *)
THEOREM InsertionOrderKept == Spec => OrderKept
<1>1. MapInv /\ MapInv' /\ [Next]_vars =>
        [\A m \in Live : Follows(m)]_<<hdr, heap>>
  <2> SUFFICES ASSUME MapInv, MapInv', [Next]_vars, NEW m \in Live
               PROVE  Follows(m)
    OBVIOUS
  <2>1. MapsOK /\ MapsOK'
    BY MapInvParts, MapInvNext
  <2>2. [Ordered!Next]_(Ordered!vars)
    BY StepKeeps
  <2>3. m \in Live' /\ Keeps(Content[m], Content'[m])
    BY <2>1, <2>2, OrderedStepKeeps
  <2> QED
    BY <2>1, <2>3, KeepsMeansFollows
<1> QED
  BY <1>1, RowsStayPacked, PTL DEF Spec, OrderKept
=============================================================================
