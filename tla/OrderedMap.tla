----------------------------- MODULE OrderedMap -----------------------------
(***************************************************************************)
(* What a map of the language promises, whatever engine runs the program:  *)
(* a key has one value, and the keys are walked in the order in which they *)
(* were first set (tests/system/harness/test_map_order_contract.py).  A    *)
(* map is the sequence of its rows; a copy is a map of its own.            *)
(***************************************************************************)
EXTENDS Integers, Sequences

CONSTANTS
    Maps,           \* the maps a program creates
    Keys,           \* the key strings it uses
    Values,         \* the values it writes: records [tag, word]
    Missing,        \* what reading an absent key gives
    Nothing,        \* what a typed fetch of an absent key gives
    FetchTags,      \* the tags that have a typed fetch
    Representable   \* the tags of the read values that can be stored again

VARIABLES
    content,    \* content[m] : the rows of m, a function on the maps created
    ret,        \* the answer of the last call
    exited      \* the program has ended with an error

vars == <<content, ret, exited>>

Cells == Values \cup {Missing, Nothing}
Rows == [key : Keys, val : Cells]

HasKey(s, k) == \E i \in 1..Len(s) : s[i].key = k
PosOf(s, k) == CHOOSE i \in 1..Len(s) : s[i].key = k
Lookup(s, k, d) == IF HasKey(s, k) THEN s[PosOf(s, k)].val ELSE d

(* Setting a key keeps its place; a new key goes to the end.               *)
Upsert(s, k, v) ==
    IF HasKey(s, k)
    THEN [s EXCEPT ![PosOf(s, k)] = [key |-> k, val |-> v]]
    ELSE Append(s, [key |-> k, val |-> v])

(* The rows after the deleted one close up; their order stays.             *)
Without(s, k) ==
    IF HasKey(s, k)
    THEN [i \in 1..Len(s) - 1 |-> IF i < PosOf(s, k) THEN s[i] ELSE s[i + 1]]
    ELSE s

Created == DOMAIN content
With(m, s) == [x \in Created \cup {m} |-> IF x = m THEN s ELSE content[x]]

Init ==
    /\ content = [m \in {} |-> <<>>]
    /\ ret = <<"none">>
    /\ exited = FALSE

(* A call that changes one map and answers nothing.                        *)
Change(m, s) ==
    /\ ~exited
    /\ content' = With(m, s)
    /\ ret' = <<"none">>
    /\ UNCHANGED exited

(* A call that only looks.                                                 *)
Answer(m, a) ==
    /\ ~exited
    /\ m \in Created
    /\ ret' = a
    /\ UNCHANGED <<content, exited>>

Create(m) == m \in Maps \ Created /\ Change(m, <<>>)
CopyTo(m, n) ==
    m \in Created /\ n \in Maps \ Created /\ Change(n, content[m])
SetKey(m, k, v) == m \in Created /\ Change(m, Upsert(content[m], k, v))
DeleteKey(m, k) == m \in Created /\ Change(m, Without(content[m], k))

(* Storing the value the last call has read, or giving up if it has no     *)
(* representation.                                                         *)
SetRead(m, k) ==
    /\ ret[1] = "value"
    /\ ret[2].tag \in Representable
    /\ SetKey(m, k, ret[2])

RefuseRead(m) ==
    /\ ~exited
    /\ m \in Created
    /\ ret[1] = "value"
    /\ ret[2].tag \notin Representable
    /\ exited' = TRUE
    /\ UNCHANGED <<content, ret>>

GetKey(m, k, d) == Answer(m, <<"value", Lookup(content[m], k, d)>>)

(* An absent key is Nothing, a value with another tag an error, which the  *)
(* program survives or not.                                                *)
FetchKey(m, k, t) ==
    LET v == Lookup(content[m], k, Nothing)
    IN  Answer(m, IF HasKey(content[m], k) /\ v.tag # t THEN <<"error">>
                  ELSE <<"value", v>>)

RefuseFetch(m, k, t) ==
    /\ ~exited
    /\ m \in Created
    /\ HasKey(content[m], k)
    /\ Lookup(content[m], k, Nothing).tag # t
    /\ exited' = TRUE
    /\ UNCHANGED <<content, ret>>

AskKey(m, k) == Answer(m, <<"flag", HasKey(content[m], k)>>)
AskSize(m) == Answer(m, <<"number", Len(content[m])>>)
ListKeys(m) ==
    Answer(m, <<"list", [i \in 1..Len(content[m]) |-> content[m][i].key]>>)
ListValues(m) ==
    Answer(m, <<"list", [i \in 1..Len(content[m]) |-> content[m][i].val]>>)

Next ==
    \/ \E m \in Maps :
        \/ Create(m)
        \/ RefuseRead(m)
        \/ AskSize(m)
        \/ ListKeys(m)
        \/ ListValues(m)
    \/ \E m, n \in Maps : CopyTo(m, n)
    \/ \E m \in Maps, k \in Keys :
        \/ DeleteKey(m, k)
        \/ SetRead(m, k)
        \/ AskKey(m, k)
        \/ \E v \in Values : SetKey(m, k, v)
        \/ \E d \in Cells : GetKey(m, k, d)
        \/ \E t \in FetchTags : FetchKey(m, k, t) \/ RefuseFetch(m, k, t)

Spec == Init /\ [][Next]_vars
=============================================================================
