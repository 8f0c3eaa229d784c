----------------------------- MODULE BoundedMap -----------------------------
(***************************************************************************)
(* What a table of src/include/table.h promises its callers: a map from    *)
(* keys to data that holds at most Capacity keys, never overwrites a key   *)
(* on a put, and answers every read from the puts and updates that         *)
(* succeeded.  Nothing here speaks of slots, hashing or chains.            *)
(***************************************************************************)
EXTENDS Integers, FiniteSets

CONSTANTS
    Keys,       \* what a caller may use as a key
    Values,     \* data that data_dup can copy
    Empty,      \* a data_t with no bytes: data_dup copies it to NULL
    NoKey,      \* where a call has no key
    NoValue,    \* the NULL pointer where a data_t * is expected
    Capacity    \* the n of table_create

VARIABLES
    map,        \* the stored pairs: a function whose domain is the stored keys
    ret         \* the last call and its reply

(* A call: its name, its key and its data, where it has them; and its      *)
(* reply: its int result, its data, its keys.                              *)
Call(op, k, v) == [op |-> op, key |-> k, input |-> v]

Reply(call, code, data, keys) ==
    [call |-> call, code |-> code, data |-> data, keys |-> keys]

Ok == 0
Error == -1

Inputs == Values \cup {Empty}

Copy(v) == IF v \in Values THEN v ELSE NoValue

Stored == DOMAIN map

Init ==
    /\ map = [k \in {} |-> NoValue]
    /\ ret = Reply(Call("create", NoKey, NoValue), Ok, NoValue, {})

Put(k, v) ==
    \/ /\ k \notin Stored
       /\ Cardinality(Stored) < Capacity
       /\ map' = [j \in Stored \cup {k} |-> IF j = k THEN Copy(v) ELSE map[j]]
       /\ ret' = Reply(Call("put", k, v), Ok, NoValue, {})
    \/ /\ k \in Stored \/ Cardinality(Stored) = Capacity
       /\ ret' = Reply(Call("put", k, v), Error, NoValue, {})
       /\ UNCHANGED map

Update(k, v) ==
    \/ /\ k \in Stored
       /\ map' = [map EXCEPT ![k] = Copy(v)]
       /\ ret' = Reply(Call("update", k, v), Ok, NoValue, {})
    \/ /\ k \notin Stored
       /\ ret' = Reply(Call("update", k, v), Error, NoValue, {})
       /\ UNCHANGED map

Get(k) ==
    /\ ret' = Reply(Call("get", k, NoValue), Ok,
                    IF k \in Stored THEN map[k] ELSE NoValue, {})
    /\ UNCHANGED map

Size ==
    /\ ret' = Reply(Call("size", NoKey, NoValue), Cardinality(Stored),
                    NoValue, {})
    /\ UNCHANGED map

GetKeys ==
    /\ ret' = Reply(Call("keys", NoKey, NoValue), Cardinality(Stored),
                    NoValue, Stored)
    /\ UNCHANGED map

Next ==
    \/ \E k \in Keys, v \in Inputs : Put(k, v) \/ Update(k, v)
    \/ \E k \in Keys : Get(k)
    \/ Size
    \/ GetKeys

Spec == Init /\ [][Next]_<<map, ret>>
=============================================================================
