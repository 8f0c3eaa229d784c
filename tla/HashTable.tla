----------------------------- MODULE HashTable ------------------------------
(***************************************************************************)
(* The hash table of src/source/table.c: an array of DataSize entries in   *)
(* which a key that finds its home slot taken is stored in the highest     *)
(* free slot and linked at the end of the chain that starts at its home    *)
(* slot (coalesced hashing: chains of different homes may merge).  The     *)
(* initial state is table_create; an action is one call of table.h.        *)
(***************************************************************************)
EXTENDS Integers, FiniteSets

CONSTANTS
    Keys,           \* the strings used as keys
    Values,         \* data that data_dup copies byte for byte
    Empty,          \* a data_t with datasize 0 or data NULL
    NoKey,          \* entry->key == NULL
    NoValue,        \* a NULL data_t pointer
    DataSize,       \* table->datasize
    Hash,           \* hash(key, datasize), in 0..DataSize-1
    MaxCollisions   \* bound on the refused puts that count a collision

Slots == 0 .. DataSize - 1

(* The NULL pointer of entry->next, and where table->next points when the  *)
(* search for a free slot runs below entrys[0].                            *)
NoLink == -1

ASSUME TableAssumption ==
    /\ DataSize \in Nat \ {0}
    /\ Hash \in [Keys -> Slots]
    /\ NoKey \notin Keys
    /\ NoValue \notin Values
    /\ Empty \notin Values
    /\ MaxCollisions \in Nat

VARIABLES
    key,            \* entrys[i].key
    value,          \* entrys[i].value
    link,           \* entrys[i].next, as an index
    free,           \* table->next, as an index
    filled,         \* table->filled
    collisions,     \* table->collisions
    ret             \* the last call and what it returned

vars == <<key, value, link, free, filled, collisions, ret>>
-----------------------------------------------------------------------------
Inputs == Values \cup {Empty}

(* A call: its name, its key and its data, where it has them; and its      *)
(* reply: its int result, its data, its keys.                              *)
Call(op, k, v) == [op |-> op, key |-> k, input |-> v]

Reply(call, code, data, keys) ==
    [call |-> call, code |-> code, data |-> data, keys |-> keys]

Ok == 0
Error == -1

(* data_dup: a copy, or NULL for a data_t that has no bytes to copy. *)
DataDup(v) == IF v \in Values THEN v ELSE NoValue

Occupied == {s \in Slots : key[s] # NoKey}

(* The slots a walk along entry->next meets from slot h on: the least set  *)
(* that contains h and is closed under the links.                          *)
ClosedUnder(lk, S) == \A s \in S : lk[s] # NoLink => lk[s] \in S

ChainOf(lk, h) ==
    {s \in Slots : \A S \in SUBSET Slots :
                        h \in S /\ ClosedUnder(lk, S) => s \in S}

Chain(h) == ChainOf(link, h)

Home(k) == Hash[k]

(* Slip: get_entry without its last comparison, so that the end of a chain *)
(* is never found.                                                         *)
GetEntryMissingLast(k) ==
    {s \in Chain(Home(k)) :
        /\ key[Home(k)] # NoKey /\ key[s] = k
        /\ s = Home(k) \/ link[s] # NoLink}

(* The entry get_entry returns for k, as a set: empty when it returns NULL,*)
(* which it does at once if the home slot is empty.                        *)
GetEntry(k) ==
    {s \in Chain(Home(k)) : key[Home(k)] # NoKey /\ key[s] = k}

(* Slip: atualize_next without its test for a full table. *)
AtualizeNextUnguarded ==
    \/ \E s \in 0 .. free :
          /\ key'[s] = NoKey
          /\ \A t \in s + 1 .. free : key'[t] # NoKey
          /\ free' = s
    \/ /\ \A s \in 0 .. free : key'[s] # NoKey
       /\ free' = NoLink

(* Slip: atualize_next with an if in place of its while. *)
AtualizeNextOnce ==
    free' = IF filled' = DataSize \/ key'[free] = NoKey THEN free ELSE free - 1

(* atualize_next, on the array and the count as the put leaves them: the   *)
(* pointer walks down to an empty slot, unless the table is full.          *)
AtualizeNext ==
    \/ /\ filled' = DataSize
       /\ free' = free
    \/ /\ filled' # DataSize
       /\ \E s \in 0 .. free :
            /\ key'[s] = NoKey
            /\ \A t \in s + 1 .. free : key'[t] # NoKey
            /\ free' = s
    \/ /\ filled' # DataSize
       /\ \A s \in 0 .. free : key'[s] # NoKey
       /\ free' = NoLink
-----------------------------------------------------------------------------
Init ==
    /\ key = [s \in Slots |-> NoKey]
    /\ value = [s \in Slots |-> NoValue]
    /\ link = [s \in Slots |-> NoLink]
    /\ free = DataSize - 1
    /\ filled = 0
    /\ collisions = 0
    /\ ret = Reply(Call("create", NoKey, NoValue), Ok, NoValue, {})

(* A put that is refused leaves the entries as they were. *)
Refuse(k, v) ==
    /\ ret' = Reply(Call("put", k, v), Error, NoValue, {})
    /\ UNCHANGED <<key, value, link, free, filled>>

(* What the successful branches of table_put share: the pair is stored in  *)
(* slot s, counted, and the free pointer is brought up to date.            *)
StoreAt(s, k, v) ==
    /\ key' = [key EXCEPT ![s] = k]
    /\ value' = [value EXCEPT ![s] = DataDup(v)]
    /\ filled' = filled + 1
    /\ AtualizeNext
    /\ ret' = Reply(Call("put", k, v), Ok, NoValue, {})

PutFull(k, v) ==
    /\ filled = DataSize
    /\ Refuse(k, v)
    /\ UNCHANGED collisions

PutHome(k, v) ==
    /\ filled # DataSize
    /\ key[Home(k)] = NoKey
    /\ StoreAt(Home(k), k, v)
    /\ UNCHANGED <<link, collisions>>

PutDuplicateAtHome(k, v) ==
    /\ filled # DataSize
    /\ key[Home(k)] = k
    /\ Refuse(k, v)
    /\ UNCHANGED collisions

(* Slip: the pair is counted before the walk that may refuse it. *)
PutDuplicateCounted(k, v) ==
    /\ filled # DataSize
    /\ key[Home(k)] \notin {NoKey, k}
    /\ \E s \in Chain(Home(k)) : key[s] = k
    /\ collisions < MaxCollisions
    /\ collisions' = collisions + 1
    /\ filled' = filled + 1
    /\ ret' = Reply(Call("put", k, v), Error, NoValue, {})
    /\ UNCHANGED <<key, value, link, free>>

(* The walk finds k further down the chain: table_put returns -1, after    *)
(* having counted a collision.  MaxCollisions bounds these calls only.     *)
PutDuplicateInChain(k, v) ==
    /\ filled # DataSize
    /\ key[Home(k)] \notin {NoKey, k}
    /\ \E s \in Chain(Home(k)) : key[s] = k
    /\ collisions < MaxCollisions
    /\ collisions' = collisions + 1
    /\ Refuse(k, v)

(* What the slips of the branch below share: the guard, and a free choice  *)
(* of what they get wrong.                                                 *)
PutChainedWith(k, v, searched, end, newLink, count) ==
    /\ filled # DataSize
    /\ key[Home(k)] # NoKey
    /\ \A s \in searched : key[s] # k
    /\ StoreAt(free, k, v)
    /\ link' = [link EXCEPT ![end] = newLink]
    /\ collisions' = count

ChainEnd(k) == CHOOSE s \in Chain(Home(k)) : link[s] = NoLink

(* Slip: the new entry is linked to the home entry and not to the end.     *)
PutChainedAtHome(k, v) ==
    PutChainedWith(k, v, Chain(Home(k)), Home(k), free, collisions + 1)

(* Slip: the last entry of the chain is not compared.                      *)
PutChainedUnsearched(k, v) ==
    PutChainedWith(k, v, (Chain(Home(k)) \ {ChainEnd(k)}) \cup {Home(k)},
                   ChainEnd(k), free, collisions + 1)

(* Slip: the link is set after atualize_next has moved the pointer.        *)
PutChainedLate(k, v) ==
    PutChainedWith(k, v, Chain(Home(k)), ChainEnd(k), free', collisions + 1)

(* Slip: the collision is counted by the walk, not before it.              *)
PutChainedUncounted(k, v) ==
    PutChainedWith(k, v, Chain(Home(k)), ChainEnd(k), free,
                   IF link[Home(k)] = NoLink THEN collisions ELSE collisions + 1)

PutChained(k, v) ==
    /\ filled # DataSize
    /\ key[Home(k)] # NoKey
    /\ \A s \in Chain(Home(k)) : key[s] # k
    /\ \E end \in Chain(Home(k)) :
          /\ link[end] = NoLink
          /\ link' = [link EXCEPT ![end] = free]
    /\ collisions' = collisions + 1
    /\ StoreAt(free, k, v)

Put(k, v) ==
    \/ PutFull(k, v)
    \/ PutHome(k, v)
    \/ PutDuplicateAtHome(k, v)
    \/ PutDuplicateInChain(k, v)
    \/ PutChained(k, v)

Update(k, v) ==
    /\ \/ /\ GetEntry(k) = {}
          /\ ret' = Reply(Call("update", k, v), Error, NoValue, {})
          /\ UNCHANGED value
       \/ \E s \in GetEntry(k) :
            /\ value' = [value EXCEPT ![s] = DataDup(v)]
            /\ ret' = Reply(Call("update", k, v), Ok, NoValue, {})
    /\ UNCHANGED <<key, link, free, filled, collisions>>

Get(k) ==
    /\ \/ /\ GetEntry(k) = {}
          /\ ret' = Reply(Call("get", k, NoValue), Ok, NoValue, {})
       \/ \E s \in GetEntry(k) :
            ret' = Reply(Call("get", k, NoValue), Ok, value[s], {})
    /\ UNCHANGED <<key, value, link, free, filled, collisions>>

Size ==
    /\ ret' = Reply(Call("size", NoKey, NoValue), filled, NoValue, {})
    /\ UNCHANGED <<key, value, link, free, filled, collisions>>

(* table_get_keys: one string per occupied slot (code is the length of the *)
(* array before its terminating NULL).                                     *)
GetKeys ==
    /\ ret' = Reply(Call("keys", NoKey, NoValue), Cardinality(Occupied),
                    NoValue, {key[s] : s \in Occupied})
    /\ UNCHANGED <<key, value, link, free, filled, collisions>>

Next ==
    \/ \E k \in Keys, v \in Inputs : Put(k, v) \/ Update(k, v)
    \/ \E k \in Keys : Get(k)
    \/ Size
    \/ GetKeys

Spec == Init /\ [][Next]_vars
-----------------------------------------------------------------------------
Replies ==
    [call : [op : {"create", "put", "update", "get", "size", "keys"},
             key : Keys \cup {NoKey}, input : Inputs \cup {NoValue}],
     code : Int, data : Values \cup {NoValue}, keys : SUBSET Keys]

(* Types of the fields of struct table_t and struct entry_t. *)
TypeOK ==
    /\ key \in [Slots -> Keys \cup {NoKey}]
    /\ value \in [Slots -> Values \cup {NoValue}]
    /\ link \in [Slots -> Slots \cup {NoLink}]
    /\ free \in Slots
    /\ filled \in 0 .. DataSize
    /\ collisions \in Nat
    /\ ret \in Replies

(* table->filled, a counter kept by hand, is the number of entries in use: *)
(* the "table full" test of table_put and table_size rest on it.           *)
FilledIsOccupied == filled = Cardinality(Occupied)

(* table->next points at a free slot whenever there is one, although puts  *)
(* into a home slot take slots from under it: a chained put never          *)
(* overwrites a stored pair and the downward search never leaves the array.*)
FreeSlotIsFree ==
    /\ filled # DataSize => key[free] = NoKey
    /\ \A s \in Slots : s > free => key[s] # NoKey

(* Every stored key is on the chain its own home slot starts, also after   *)
(* chains of different homes have merged: get_entry finds what was put.    *)
KeysReachable ==
    \A s \in Occupied :
        /\ key[Home(key[s])] # NoKey
        /\ s \in Chain(Home(key[s]))

(* No key is stored twice, although table_put searches one chain only. *)
NoDuplicateKeys ==
    \A s, t \in Occupied : key[s] = key[t] => s = t

(* Links lead from used entries to used entries, and every walk along them *)
(* comes to an end: the loops of get_entry and table_put terminate.        *)
ChainsEnd ==
    /\ \A s \in Slots : link[s] # NoLink => {s, link[s]} \subseteq Occupied
    /\ \A s \in Slots : \E end \in Chain(s) : link[end] = NoLink

(* A pair that is not in its home slot has been counted as a collision. *)
Displaced == {s \in Occupied : Home(key[s]) # s}

DisplacedAreCollisions == Cardinality(Displaced) <= collisions

(* client_stub.h calls the counter "o número de colisões existentes na     *)
(* tabela": the pairs of the table that collided.                          *)
CollisionsAreExisting == collisions = Cardinality(Displaced)
-----------------------------------------------------------------------------
(* The pairs the array holds, as the map the callers see. *)
Pairs ==
    [k \in {key[s] : s \in Occupied} |->
        value[CHOOSE s \in Occupied : key[s] = k]]

Abstract == INSTANCE BoundedMap WITH map <- Pairs, Capacity <- DataSize

(* Every call returns what a bounded map returns after the same calls: no  *)
(* pair is lost, no refused put has an effect, no key is reported twice.   *)
IsBoundedMap == Abstract!Spec
=============================================================================
