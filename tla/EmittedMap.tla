----------------------------- MODULE EmittedMap -----------------------------
(***************************************************************************)
(* The maps of a compiled program: the code that                           *)
(* builders/collections/map_ops.cpp emits for create, set, read, delete,   *)
(* copy, keys and values.  A map is a header {count, capacity, keys,       *)
(* values, types}; its three arrays have one slot per key, a null key is   *)
(* an empty slot, and only the keys are zeroed when they are allocated.    *)
(* One thread works on a map (nothing in the emitted code locks one).      *)
(***************************************************************************)
EXTENDS Integers, Sequences, FiniteSets

CONSTANTS
    Maps,           \* the headers the program allocates
    Keys,           \* key strings; keys are compared by strcmp
    Values,         \* what the program writes: [tag, word]
    Blocks,         \* names of the array triples malloc hands out
    Hints,          \* the sizes the front end passes to create
    MinCapacity,    \* kMapMinCapacity
    GrowthFactor,   \* kMapGrowthFactor
    Null,           \* the null key pointer
    Junk            \* a word no one has written

(* The tags of the types array (sir_constants.h).                          *)
MapTags == {"str", "int", "float", "bool", "null", "void", "map", "array",
            "obj", "unit"}

(* The tags set accepts from a value that carries its kind at run time.    *)
DynTags == {"str", "int", "float", "bool", "null", "void", "map", "array",
            "obj"}

FetchTags == {"str", "int", "bool"}

ASSUME MapAssumption ==
    /\ MinCapacity \in Nat \ {0}
    /\ GrowthFactor \in Nat \ {0, 1}
    /\ Hints \subseteq Nat
    /\ Values \subseteq [tag : MapTags, word : Int]
    /\ Null \notin Keys

Missing == [tag |-> "void", word |-> 0]
Nothing == [tag |-> "null", word |-> 0]
Cells == Values \cup {Missing, Nothing}

VARIABLES
    hdr,        \* hdr[m] = [count, cap, blk], a function on the live maps
    heap,       \* heap[b] = [keys, vals, types], a function on the held blocks
    ret,        \* the result register of the last call
    exited      \* exit(1) has been called

vars == <<hdr, heap, ret, exited>>

Live == DOMAIN hdr
Slots(cap) == 0..cap - 1
Held(h) == {h[m].blk : m \in DOMAIN h}
Arr(m) == heap[hdr[m].blk]

(* A call leaves map m with header h and arrays a.  An array no header     *)
(* points to any more is never freed and never read: it leaves the model.  *)
Commit(m, h, a) ==
    /\ hdr' = [x \in Live \cup {m} |-> IF x = m THEN h ELSE hdr[x]]
    /\ heap' = [b \in Held(hdr') |-> IF b = h.blk THEN a ELSE heap[b]]

Header(n, c, b) == [count |-> n, cap |-> c, blk |-> b]

(***************************************************************************)
(* The helper functions of the emitted module.                             *)
(***************************************************************************)
Stops(keys, k, i) == keys[i] \in {Null, k}

(* __sad_map_find_slot: the first slot that is empty or has the key, and   *)
(* slot 0 if the scan runs off the end.                                    *)
FindSlot(keys, cap, k) ==
    IF \E i \in Slots(cap) : Stops(keys, k, i)
    THEN CHOOSE i \in Slots(cap) :
            Stops(keys, k, i) /\ \A j \in 0..i - 1 : ~Stops(keys, k, j)
    ELSE 0

FreshArrays(cap) ==
    [keys |-> [i \in Slots(cap) |-> Null],
     vals |-> [i \in Slots(cap) |-> Junk],
     types |-> [i \in Slots(cap) |-> Junk]]

(* A bug: the map grows only when no slot is left.                          *)
IsFullLate(h) == h.count >= h.cap

(* emitMapGrowIfFull keeps one slot empty after the insert to come.        *)
IsFull(h) == h.count + 1 >= h.cap
CapFor(h) == IF IsFull(h) THEN GrowthFactor * h.cap ELSE h.cap
Grown(a, old, new) ==
    [keys |-> [i \in Slots(new) |-> IF i < old THEN a.keys[i] ELSE Null],
     vals |-> [i \in Slots(new) |-> IF i < old THEN a.vals[i] ELSE Junk],
     types |-> [i \in Slots(new) |-> IF i < old THEN a.types[i] ELSE Junk]]
ArraysFor(h, a) == IF IsFull(h) THEN Grown(a, h.cap, CapFor(h)) ELSE a

(* __sad_map_compact: every slot after s moves one to the left, in all     *)
(* three arrays, and the last key is nulled.                               *)
ShiftLeft(f, cap, s) ==
    [i \in Slots(cap) |-> IF s <= i /\ i < cap - 1 THEN f[i + 1] ELSE f[i]]

(* Two bugs: the deleted row leaves a hole; the tags stay behind.          *)
CompactHole(a, cap, s) == [a EXCEPT !.keys[s] = Null]
CompactTagsStay(a, cap, s) ==
    [keys |-> [ShiftLeft(a.keys, cap, s) EXCEPT ![cap - 1] = Null],
     vals |-> ShiftLeft(a.vals, cap, s),
     types |-> a.types]

Compact(a, cap, s) ==
    [keys |-> [ShiftLeft(a.keys, cap, s) EXCEPT ![cap - 1] = Null],
     vals |-> ShiftLeft(a.vals, cap, s),
     types |-> ShiftLeft(a.types, cap, s)]

(* __sad_map_collect: the occupied slots, in slot order; the n-th of them  *)
(* has n - 1 occupied slots before it.                                     *)
Occupied(a, cap) == {i \in Slots(cap) : a.keys[i] # Null}
NthOccupied(a, cap, n) ==
    CHOOSE i \in Occupied(a, cap) :
        Cardinality({j \in Occupied(a, cap) : j < i}) = n - 1
Cell(a, i) == [tag |-> a.types[i], word |-> a.vals[i]]
CollectKeys(a, cap) ==
    [n \in 1..Cardinality(Occupied(a, cap)) |->
        a.keys[NthOccupied(a, cap, n)]]
CollectValues(a, cap) ==
    [n \in 1..Cardinality(Occupied(a, cap)) |->
        Cell(a, NthOccupied(a, cap, n))]

SlotOf(m, k) == FindSlot(Arr(m).keys, hdr[m].cap, k)
Present(m, k) == Arr(m).keys[SlotOf(m, k)] # Null

(***************************************************************************)
(* The calls.                                                              *)
(***************************************************************************)
Init ==
    /\ hdr = [m \in {} |-> Header(0, 0, Null)]
    /\ heap = [b \in {} |-> FreshArrays(0)]
    /\ ret = <<"none">>
    /\ exited = FALSE

CreateCap(hint) ==
    IF hint * GrowthFactor > MinCapacity THEN hint * GrowthFactor
    ELSE MinCapacity

Create(m, hint) ==
    /\ m \in Maps \ Live
    /\ \E b \in Blocks \ Held(hdr) :
        Commit(m, Header(0, CreateCap(hint), b), FreshArrays(CreateCap(hint)))
    /\ ret' = <<"none">>

(* Grow if full, find the slot, write the row; count it if it is new.      *)
StoreRow(m, k, v) ==
    LET h == hdr[m]
        a == ArraysFor(h, Arr(m))
        s == FindSlot(a.keys, CapFor(h), k)
        isNew == a.keys[s] = Null
    IN  \E b \in Blocks :
        /\ IF IsFull(h) THEN b \notin Held(hdr) ELSE b = h.blk
        /\ Commit(m,
                  Header(IF isNew THEN h.count + 1 ELSE h.count, CapFor(h), b),
                  [keys |-> [a.keys EXCEPT ![s] = IF isNew THEN k ELSE @],
                   vals |-> [a.vals EXCEPT ![s] = v.word],
                   types |-> [a.types EXCEPT ![s] = v.tag]])

SetTyped(m, k, v) ==
    /\ m \in Live
    /\ StoreRow(m, k, v)
    /\ ret' = <<"none">>

(* set of a value that was read before: its tag is found at run time, and  *)
(* a tag that is not in the list ends the program.                         *)
SetDyn(m, k) ==
    /\ m \in Live
    /\ ret[1] = "value"
    /\ ret[2].tag \in DynTags
    /\ StoreRow(m, k, ret[2])
    /\ ret' = <<"none">>

SetDynRefused(m) ==
    /\ m \in Live
    /\ ret[1] = "value"
    /\ ret[2].tag \notin DynTags
    /\ exited' = TRUE
    /\ UNCHANGED <<hdr, heap, ret>>

(* A bug: a row is counted off also when there was none.                   *)
DeleteCountsOff(m, k) ==
    /\ m \in Live
    /\ LET h == hdr[m]
       IN  Commit(m, Header(h.count - 1, h.cap, h.blk),
                  IF Present(m, k) THEN Compact(Arr(m), h.cap, SlotOf(m, k))
                  ELSE Arr(m))
    /\ ret' = <<"none">>

Delete(m, k) ==
    /\ m \in Live
    /\ LET h == hdr[m]
       IN  IF Present(m, k)
           THEN Commit(m, Header(h.count - 1, h.cap, h.blk),
                       Compact(Arr(m), h.cap, SlotOf(m, k)))
           ELSE UNCHANGED <<hdr, heap>>
    /\ ret' = <<"none">>

(* A bug: the copy points to the arrays of the original.                   *)
CopyShares(m, n) ==
    /\ m \in Live
    /\ n \in Maps \ Live
    /\ Commit(n, hdr[m], Arr(m))
    /\ ret' = <<"none">>

Copy(m, n) ==
    /\ m \in Live
    /\ n \in Maps \ Live
    /\ \E b \in Blocks \ Held(hdr) :
        Commit(n, Header(hdr[m].count, hdr[m].cap, b), Arr(m))
    /\ ret' = <<"none">>

(* The reads.                                                              *)
Answer(m, r) ==
    /\ m \in Live
    /\ ret' = r
    /\ UNCHANGED <<hdr, heap>>

GetDyn(m, k, default) ==
    Answer(m, <<"value", IF Present(m, k) THEN Cell(Arr(m), SlotOf(m, k))
                         ELSE default>>)

(* Typed fetch: RUN074 if the key is there with another tag, which a       *)
(* handler of the program catches (an answer) or which ends it.            *)
Fetch(m, k, tag) ==
    Answer(m, IF ~Present(m, k) THEN <<"value", Nothing>>
              ELSE IF Arr(m).types[SlotOf(m, k)] # tag THEN <<"error">>
              ELSE <<"value", Cell(Arr(m), SlotOf(m, k))>>)

FetchRefused(m, k, tag) ==
    /\ m \in Live
    /\ Present(m, k)
    /\ Arr(m).types[SlotOf(m, k)] # tag
    /\ exited' = TRUE
    /\ UNCHANGED <<hdr, heap, ret>>

Has(m, k) == Answer(m, <<"flag", Present(m, k)>>)
Size(m) == Answer(m, <<"number", hdr[m].count>>)
KeysOf(m) == Answer(m, <<"list", CollectKeys(Arr(m), hdr[m].cap)>>)
ValuesOf(m) == Answer(m, <<"list", CollectValues(Arr(m), hdr[m].cap)>>)

Call ==
    \/ \E m \in Maps :
        \/ \E h \in Hints : Create(m, h)
        \/ Size(m)
        \/ KeysOf(m)
        \/ ValuesOf(m)
    \/ \E m, n \in Maps : Copy(m, n)
    \/ \E m \in Maps, k \in Keys :
        \/ Delete(m, k)
        \/ SetDyn(m, k)
        \/ Has(m, k)
        \/ \E v \in Values : SetTyped(m, k, v)
        \/ \E d \in Cells : GetDyn(m, k, d)
        \/ \E t \in FetchTags : Fetch(m, k, t)

Next ==
    /\ ~exited
    /\ \/ Call /\ UNCHANGED exited
       \/ \E m \in Maps : SetDynRefused(m)
       \/ \E m \in Maps, k \in Keys, t \in FetchTags : FetchRefused(m, k, t)

Spec == Init /\ [][Next]_vars

(***************************************************************************)
(* What must hold.                                                         *)
(***************************************************************************)
(* Headers and arrays have their shapes, and no two maps share arrays.     *)
HeaderOK(h) == h.count \in Nat /\ h.cap \in Nat /\ h.blk \in Blocks
ArraysOK(a, cap) ==
    a \in [keys : [Slots(cap) -> Keys \cup {Null}],
           vals : [Slots(cap) -> Int \cup {Junk}],
           types : [Slots(cap) -> MapTags \cup {Junk}]]
TypeOK ==
    /\ Live \subseteq Maps
    /\ hdr \in [Live -> [count : Nat, cap : Nat, blk : Blocks]]
    /\ DOMAIN heap = Held(hdr)
    /\ \A m \in Live : ArraysOK(Arr(m), hdr[m].cap)
    /\ exited \in BOOLEAN

OwnArrays == \A m, n \in Live : hdr[m].blk = hdr[n].blk => m = n

(* The rows are the slots below count, with different keys; a slot is left *)
(* over; what a row holds has been written, as one value.                  *)
RowsOK(h, a) ==
    /\ h.count < h.cap
    /\ \A i \in Slots(h.cap) : a.keys[i] # Null <=> i < h.count
    /\ \A i, j \in 0..h.count - 1 : a.keys[i] = a.keys[j] => i = j
    /\ \A i \in 0..h.count - 1 : Cell(a, i) \in Cells

(* The value in the result register is one that was written.               *)
RetOK == ret[1] = "value" => ret[2] \in Cells

(* Insertion order is slot order only while the rows have no hole: a       *)
(* delete closes the gap, an insert goes behind the last row, growing and  *)
(* copying keep the places, and no two maps share an array.                *)
MapInv ==
    /\ TypeOK
    /\ OwnArrays
    /\ \A m \in Live : RowsOK(hdr[m], Arr(m))
    /\ RetOK

(* find_slot never falls off the end ("shouldn't happen with proper        *)
(* capacity", map_ops.cpp:2264): the slot it returns is empty or has the   *)
(* key, for every key, also of a map that the next set must grow.          *)
SlotFound ==
    \A m \in Live, k \in Keys : Arr(m).keys[SlotOf(m, k)] \in {Null, k}

(* Whatever is set or deleted, the keys that stay keep their order, and a  *)
(* key that was not there goes behind all of them: "iteration follows      *)
(* insertion order" (tests/system/harness/test_map_order_contract.py).     *)
KeySlots(m) == Occupied(Arr(m), hdr[m].cap)
Follows(m) ==
    \A x, y \in KeySlots(m)' :
        /\ \A i, j \in KeySlots(m) :
            /\ Arr(m).keys[i] = Arr(m)'.keys[x]
            /\ Arr(m).keys[j] = Arr(m)'.keys[y]
            /\ i < j
            => x < y
        /\ (\A i \in KeySlots(m) : Arr(m).keys[i] # Arr(m)'.keys[x]) => y <= x
OrderKept == [][\A m \in Live : Follows(m)]_<<hdr, heap>>

(* keys and values copy every occupied slot into a buffer of count cells:  *)
(* they never write past its end.                                          *)
CollectFits ==
    \A m \in Live :
        Cardinality(Occupied(Arr(m), hdr[m].cap)) <= hdr[m].count

(* The emitted code implements the ordered map: the rows of m are its      *)
(* slots below count.                                                      *)
RowAt(a, i) == [key |-> a.keys[i], val |-> Cell(a, i)]
RowsOf(h, a) == [i \in 1..h.count |-> RowAt(a, i - 1)]
Ordered ==
    INSTANCE OrderedMap
    WITH content <- [m \in Live |-> RowsOf(hdr[m], Arr(m))], Representable <- DynTags
RefinesOrderedMap == Ordered!Spec
=============================================================================
