-------------------------- MODULE HashTableProofs ---------------------------
(***************************************************************************)
(* The invariants of HashTable for every number of slots, every set of     *)
(* keys and every hash function, and that HashTable implements BoundedMap: *)
(* whatever the hash function does to the array, callers see a map with    *)
(* room for DataSize keys.                                                 *)
(***************************************************************************)
EXTENDS HashTable, FiniteSetTheorems, TLAPS

Links == [Slots -> Slots \cup {NoLink}]

-----------------------------------------------------------------------------
(* Chains.                                                                 *)

(* A walk meets the slot it starts from. *)
LEMMA ChainHead ==
    ASSUME NEW lk, NEW h \in Slots
    PROVE  h \in ChainOf(lk, h)
BY DEF ChainOf

(* A walk goes on as long as there is a link. *)
LEMMA ChainClosed ==
    ASSUME NEW lk \in Links, NEW h \in Slots,
           NEW s \in ChainOf(lk, h), lk[s] # NoLink
    PROVE  lk[s] \in ChainOf(lk, h)
<1>1. s \in Slots /\ lk[s] \in Slots
    BY DEF ChainOf, Links
<1>2. ASSUME NEW S \in SUBSET Slots, h \in S, ClosedUnder(lk, S)
      PROVE  lk[s] \in S
    <2>1. s \in S
        BY <1>2 DEF ChainOf
    <2>2. QED
        BY <1>2, <2>1 DEF ClosedUnder
<1>3. QED
    BY <1>1, <1>2 DEF ChainOf

(* The chain of a slot without a link is that slot. *)
LEMMA ChainOfEnd ==
    ASSUME NEW lk \in Links, NEW h \in Slots, lk[h] = NoLink
    PROVE  ChainOf(lk, h) = {h}
<1>1. ClosedUnder(lk, {h})
    BY DEF ClosedUnder
<1>2. ChainOf(lk, h) \subseteq {h}
    BY <1>1 DEF ChainOf
<1>3. QED
    BY <1>2, ChainHead

(* Linking a slot to the end of a chain makes no chain shorter. *)
LEMMA ChainGrows ==
    ASSUME NEW lk \in Links, NEW h \in Slots, NEW e \in Slots, NEW t \in Slots,
           lk[e] = NoLink
    PROVE  ChainOf(lk, h) \subseteq ChainOf([lk EXCEPT ![e] = t], h)
<1> DEFINE lk2 == [lk EXCEPT ![e] = t]
<1>1. ASSUME NEW S \in SUBSET Slots, ClosedUnder(lk2, S)
      PROVE  ClosedUnder(lk, S)
    <2>1. SUFFICES ASSUME NEW s \in S, lk[s] # NoLink
                   PROVE  lk[s] \in S
        BY DEF ClosedUnder
    <2>2. s # e /\ lk2[s] = lk[s]
        BY <2>1 DEF Links
    <2>3. QED
        BY <1>1, <2>1, <2>2 DEF ClosedUnder
<1>2. QED
    BY <1>1 DEF ChainOf

(* A chain has one end at most: where a walk stops is determined. *)
LEMMA ChainEndUnique ==
    ASSUME NEW lk \in Links, NEW h \in Slots,
           NEW e \in ChainOf(lk, h), NEW f \in ChainOf(lk, h),
           lk[e] = NoLink, lk[f] = NoLink
    PROVE  e = f
<1> DEFINE S == {s \in Slots : e \in ChainOf(lk, s)}
<1>1. e \in Slots /\ f \in Slots
    BY DEF ChainOf
<1>2. ASSUME NEW s \in S, lk[s] # NoLink
      PROVE  lk[s] \in S
    <2>1. s \in Slots /\ lk[s] \in Slots /\ e \in ChainOf(lk, s)
        BY <1>2 DEF Links
    <2>2. ASSUME NEW T \in SUBSET Slots, lk[s] \in T, ClosedUnder(lk, T)
          PROVE  e \in T
        <3>1. ClosedUnder(lk, T \cup {s})
            BY <2>2 DEF ClosedUnder
        <3>2. e \in T \cup {s}
            BY <2>1, <3>1 DEF ChainOf
        <3>3. e # s
            BY <1>2
        <3>4. QED
            BY <3>2, <3>3
    <2>3. QED
        BY <1>1, <2>1, <2>2 DEF ChainOf
<1>3. ClosedUnder(lk, S)
    BY <1>2 DEF ClosedUnder
<1>4. f \in S
    BY <1>3 DEF ChainOf
<1>5. ChainOf(lk, f) = {f}
    BY <1>1, ChainOfEnd
<1>6. QED
    BY <1>4, <1>5
-----------------------------------------------------------------------------
(* Types.                                                                  *)

LEMMA SlotsFinite ==
    /\ IsFiniteSet(Slots)
    /\ Cardinality(Slots) = DataSize
BY FS_Interval, TableAssumption DEF Slots

LEMMA OccupiedFinite ==
    /\ IsFiniteSet(Occupied)
    /\ Cardinality(Occupied) \in Nat
    /\ Cardinality(Occupied) <= DataSize
    /\ Cardinality(Occupied) = DataSize => Occupied = Slots
BY SlotsFinite, FS_Subset, FS_CardinalityType DEF Occupied

LEMMA HomeType ==
    ASSUME NEW k \in Keys
    PROVE  Home(k) \in Slots
BY TableAssumption DEF Home

(* Together with the types, what makes the counters and the free pointer   *)
(* right.                                                                  *)
CountInv == TypeOK /\ FilledIsOccupied /\ FreeSlotIsFree

LEMMA CountInvInit == Init => CountInv
<1> SUFFICES ASSUME Init PROVE CountInv
    OBVIOUS
<1> USE TableAssumption
<1>1. Occupied = {}
    BY DEF Init, Occupied
<1>2. FilledIsOccupied
    BY <1>1, FS_EmptySet DEF Init, FilledIsOccupied
<1>3. FreeSlotIsFree
    BY DEF Init, FreeSlotIsFree, Slots
<1>4. TypeOK
    BY DEF Init, TypeOK, Slots, NoLink, Reply, Call, Replies, Ok
<1>5. QED
    BY <1>2, <1>3, <1>4 DEF CountInv

(* A put that stores in an empty slot, and links it, keeps CountInv.       *)
LEMMA StoreKeepsCount ==
    ASSUME CountInv, filled # DataSize,
           NEW k \in Keys, NEW v \in Inputs,
           NEW s \in Slots, key[s] = NoKey, StoreAt(s, k, v),
           link' \in Links, collisions' \in Nat
    PROVE  /\ CountInv'
           /\ Occupied' = Occupied \cup {s}
<1> USE TableAssumption DEF CountInv
<1>1. key' \in [Slots -> Keys \cup {NoKey}]
    BY DEF TypeOK, StoreAt
<1>2. Occupied' = Occupied \cup {s} /\ s \notin Occupied
    BY DEF Occupied, StoreAt, TypeOK
<1>3. FilledIsOccupied'
    <2>1. Cardinality(Occupied') = Cardinality(Occupied) + 1
        BY <1>2, OccupiedFinite, FS_AddElement
    <2>2. QED
        BY <2>1 DEF FilledIsOccupied, StoreAt
<1>4. filled \in 0 .. DataSize /\ filled' = filled + 1 /\ filled' \in 0 .. DataSize
    BY DEF TypeOK, StoreAt
<1>5. \A t \in Slots : t > free => key'[t] # NoKey
    BY DEF TypeOK, StoreAt, FreeSlotIsFree
<1>6. free' \in Slots /\ FreeSlotIsFree'
    <2>1. CASE filled' = DataSize
        BY <2>1, <1>5 DEF StoreAt, AtualizeNext, FreeSlotIsFree, TypeOK
    <2>2. CASE /\ filled' # DataSize
               /\ \E t \in 0 .. free :
                    /\ key'[t] = NoKey
                    /\ \A u \in t + 1 .. free : key'[u] # NoKey
                    /\ free' = t
        <3>1. PICK t \in 0 .. free :
                    /\ key'[t] = NoKey
                    /\ \A u \in t + 1 .. free : key'[u] # NoKey
                    /\ free' = t
            BY <2>2
        <3>2. free \in Slots /\ t \in Slots
            BY <3>1 DEF TypeOK, Slots
        <3>3. ASSUME NEW u \in Slots, u > t
              PROVE  key'[u] # NoKey
            <4>1. CASE u > free
                BY <4>1, <1>5
            <4>2. CASE u <= free
                <5>1. u \in t + 1 .. free
                    BY <4>2, <3>2, <3>3 DEF Slots
                <5>2. QED
                    BY <5>1, <3>1
            <4>3. QED
                BY <4>1, <4>2, <3>2 DEF Slots
        <3>4. QED
            BY <3>1, <3>2, <3>3 DEF FreeSlotIsFree
    <2>3. CASE filled' # DataSize /\ \A t \in 0 .. free : key'[t] # NoKey
        <3>1. free \in Slots
            BY DEF TypeOK
        <3>2. \A t \in Slots : key'[t] # NoKey
            BY <2>3, <3>1, <1>5 DEF Slots
        <3>3. Occupied' = Slots
            BY <3>2 DEF Occupied
        <3>4. QED
            BY <3>3, <2>3, <1>3, SlotsFinite DEF FilledIsOccupied
    <2>4. QED
        BY <2>1, <2>2, <2>3 DEF StoreAt, AtualizeNext
<1>7. TypeOK'
    <2>1. value' \in [Slots -> Values \cup {NoValue}]
        BY DEF TypeOK, StoreAt, DataDup
    <2>2. ret' \in Replies
        BY DEF StoreAt, Reply, Call, Replies, Ok
    <2>3. QED
        BY <1>1, <1>4, <1>6, <2>1, <2>2 DEF TypeOK, Links
<1>8. QED
    BY <1>2, <1>3, <1>6, <1>7
-----------------------------------------------------------------------------
(* The inductive invariant.  None of its parts is inductive alone: that no *)
(* key is stored twice rests on every key being reachable from its home    *)
(* slot, that on the free slot being free, and that on the count.          *)

IInv ==
    /\ CountInv
    /\ KeysReachable
    /\ NoDuplicateKeys
    /\ ChainsEnd
    /\ DisplacedAreCollisions

LEMMA IInvInit == Init => IInv
<1> SUFFICES ASSUME Init PROVE IInv
    OBVIOUS
<1>1. Occupied = {} /\ Displaced = {}
    BY DEF Init, Occupied, Displaced
<1>2. KeysReachable /\ NoDuplicateKeys
    BY <1>1 DEF KeysReachable, NoDuplicateKeys
<1>3. ChainsEnd
    BY ChainHead DEF Init, ChainsEnd, Chain
<1>4. DisplacedAreCollisions
    BY <1>1, FS_EmptySet DEF Init, DisplacedAreCollisions
<1>5. QED
    BY <1>2, <1>3, <1>4, CountInvInit DEF IInv

(* A chain that starts at a used slot has used slots only. *)
LEMMA ChainOccupied ==
    ASSUME IInv, NEW h \in Occupied
    PROVE  Chain(h) \subseteq Occupied
<1>1. ClosedUnder(link, Occupied)
    BY DEF ClosedUnder, IInv, ChainsEnd, Occupied
<1>2. QED
    BY <1>1 DEF Chain, ChainOf, Occupied

(* A key that is stored is stored in the chain of its home slot. *)
LEMMA WhereStored ==
    ASSUME IInv, NEW k \in Keys, NEW s \in Slots, key[s] = k
    PROVE  key[Home(k)] # NoKey /\ s \in Chain(Home(k))
BY TableAssumption DEF IInv, KeysReachable, Occupied

(* Calls that leave keys, links and counters alone. *)
LEMMA ReadKeepsIInv ==
    ASSUME IInv, TypeOK', UNCHANGED <<key, link, free, filled>>,
           collisions' >= collisions
    PROVE  IInv'
<1>1. Occupied' = Occupied
    BY DEF Occupied
<1>2. CountInv'
    BY <1>1 DEF IInv, CountInv, FilledIsOccupied, FreeSlotIsFree
<1>3. KeysReachable' /\ NoDuplicateKeys' /\ ChainsEnd'
    BY <1>1 DEF IInv, KeysReachable, NoDuplicateKeys, ChainsEnd, Chain
<1>4. DisplacedAreCollisions'
    <2>1. Displaced' = Displaced
        BY <1>1 DEF Displaced
    <2>2. IsFiniteSet(Displaced)
        BY OccupiedFinite, FS_Subset DEF Displaced
    <2>3. Cardinality(Displaced) \in Nat
        BY <2>2, FS_CardinalityType
    <2>4. QED
        BY <2>1, <2>3 DEF IInv, CountInv, TypeOK, DisplacedAreCollisions
<1>5. QED
    BY <1>2, <1>3, <1>4 DEF IInv

LEMMA PutHomeKeepsIInv ==
    ASSUME IInv, NEW k \in Keys, NEW v \in Inputs, PutHome(k, v)
    PROVE  IInv'
<1> DEFINE h == Home(k)
<1> USE TableAssumption
<1>1. h \in Slots /\ key[h] = NoKey /\ filled # DataSize /\ StoreAt(h, k, v)
    BY HomeType DEF PutHome
<1>2. link' = link /\ collisions' = collisions /\ link \in Links /\ collisions \in Nat
    BY DEF PutHome, IInv, CountInv, TypeOK, Links
<1>3. CountInv' /\ Occupied' = Occupied \cup {h}
    BY <1>1, <1>2, StoreKeepsCount DEF IInv
<1>4. key' = [key EXCEPT ![h] = k] /\ key \in [Slots -> Keys \cup {NoKey}]
    BY <1>1 DEF StoreAt, IInv, CountInv, TypeOK
<1>5. KeysReachable'
    <2>1. SUFFICES ASSUME NEW s \in Occupied'
                   PROVE  /\ key'[Home(key'[s])] # NoKey
                          /\ s \in ChainOf(link', Home(key'[s]))
        BY DEF KeysReachable, Chain, Home
    <2>2. CASE s = h
        BY <2>2, <1>1, <1>4, ChainHead
    <2>3. CASE s # h
        <3>1. s \in Occupied /\ key'[s] = key[s]
            BY <2>3, <1>3, <1>4 DEF Occupied
        <3>2. key[Home(key[s])] # NoKey /\ s \in Chain(Home(key[s]))
            BY <3>1 DEF IInv, KeysReachable
        <3>3. Home(key[s]) \in Slots
            BY <3>1, <1>4, HomeType DEF Occupied
        <3>4. QED
            BY <3>1, <3>2, <3>3, <1>2, <1>4 DEF Chain
    <2>4. QED
        BY <2>2, <2>3
<1>6. NoDuplicateKeys'
    <2>1. \A t \in Occupied : key[t] # k
        BY <1>1, WhereStored DEF Occupied
    <2>2. QED
        BY <2>1, <1>3, <1>4 DEF NoDuplicateKeys, IInv, Occupied
<1>7. ChainsEnd'
    BY <1>2, <1>3 DEF ChainsEnd, Chain, IInv
<1>8. DisplacedAreCollisions'
    <2>1. Displaced' = Displaced
        BY <1>1, <1>3, <1>4 DEF Displaced, Occupied
    <2>2. QED
        BY <2>1, <1>2 DEF DisplacedAreCollisions, IInv
<1>9. QED
    BY <1>3, <1>5, <1>6, <1>7, <1>8 DEF IInv

LEMMA PutChainedKeepsIInv ==
    ASSUME IInv, NEW k \in Keys, NEW v \in Inputs, PutChained(k, v)
    PROVE  IInv'
<1> DEFINE h == Home(k)
<1> USE TableAssumption
<1>1. /\ h \in Slots /\ key[h] # NoKey /\ filled # DataSize
      /\ free \in Slots /\ key[free] = NoKey
      /\ StoreAt(free, k, v) /\ collisions' = collisions + 1
      /\ \A s \in Chain(h) : key[s] # k
    BY HomeType DEF PutChained, IInv, CountInv, TypeOK, FreeSlotIsFree
<1>2. PICK e \in Chain(h) : link[e] = NoLink /\ link' = [link EXCEPT ![e] = free]
    BY DEF PutChained
<1>3. link \in Links /\ collisions \in Nat
    BY DEF IInv, CountInv, TypeOK, Links
<1>4. e \in Slots /\ e \in Occupied /\ e # free
    <2>1. h \in Occupied
        BY <1>1 DEF Occupied
    <2>2. e \in Occupied
        BY <2>1, <1>2, ChainOccupied
    <2>3. QED
        BY <2>2, <1>1 DEF Occupied
<1>5. link' \in Links /\ link'[e] = free /\ free # NoLink
    BY <1>1, <1>2, <1>3, <1>4 DEF Links, Slots, NoLink
<1>6. CountInv' /\ Occupied' = Occupied \cup {free}
    BY <1>1, <1>3, <1>5, StoreKeepsCount DEF IInv
<1>7. key' = [key EXCEPT ![free] = k] /\ key \in [Slots -> Keys \cup {NoKey}]
    BY <1>1 DEF StoreAt, IInv, CountInv, TypeOK
<1>8. \A s \in Slots : ChainOf(link, s) \subseteq ChainOf(link', s)
    BY <1>1, <1>2, <1>3, <1>4, ChainGrows
<1>9. \A s \in Slots : e \in ChainOf(link, s) => free \in ChainOf(link', s)
    BY <1>5, <1>8, ChainClosed
<1>10. link[free] = NoLink /\ link'[free] = NoLink
    <2>1. link[free] = NoLink
        BY <1>1 DEF IInv, ChainsEnd, Occupied
    <2>2. QED
        BY <2>1, <1>1, <1>2, <1>3, <1>4 DEF Links
<1>11. KeysReachable'
    <2>1. SUFFICES ASSUME NEW s \in Occupied'
                   PROVE  /\ key'[Home(key'[s])] # NoKey
                          /\ s \in ChainOf(link', Home(key'[s]))
        BY DEF KeysReachable, Chain, Home
    <2>2. CASE s = free
        <3>1. key'[s] = k /\ h # free /\ key'[h] = key[h]
            BY <2>2, <1>1, <1>7
        <3>2. QED
            BY <3>1, <2>2, <1>1, <1>2, <1>9 DEF Chain
    <2>3. CASE s # free
        <3>1. s \in Occupied /\ key'[s] = key[s] /\ key[s] \in Keys
            BY <2>3, <1>6, <1>7 DEF Occupied
        <3>2. key[Home(key[s])] # NoKey /\ s \in Chain(Home(key[s]))
            BY <3>1 DEF IInv, KeysReachable
        <3>3. Home(key[s]) \in Slots
            BY <3>1, HomeType
        <3>4. key'[Home(key[s])] # NoKey
            BY <3>2, <3>3, <1>1, <1>7
        <3>5. QED
            BY <3>1, <3>2, <3>3, <3>4, <1>8 DEF Chain
    <2>4. QED
        BY <2>2, <2>3
<1>12. NoDuplicateKeys'
    <2>1. \A t \in Occupied : key[t] # k
        BY <1>1, WhereStored DEF Occupied
    <2>2. QED
        BY <2>1, <1>1, <1>6, <1>7 DEF NoDuplicateKeys, IInv, Occupied
<1>13. ChainsEnd'
    <2>1. ASSUME NEW s \in Slots, link'[s] # NoLink
          PROVE  {s, link'[s]} \subseteq Occupied'
        <3>1. CASE s = e
            BY <3>1, <1>4, <1>5, <1>6
        <3>2. CASE s # e
            <4>1. link'[s] = link[s]
                BY <3>2, <1>2, <1>3 DEF Links
            <4>2. QED
                BY <4>1, <2>1, <1>6 DEF IInv, ChainsEnd
        <3>3. QED
            BY <3>1, <3>2
    <2>2. ASSUME NEW s \in Slots
          PROVE  \E end \in ChainOf(link', s) : link'[end] = NoLink
        <3>1. PICK end \in ChainOf(link, s) : link[end] = NoLink
            BY DEF IInv, ChainsEnd, Chain
        <3>2. CASE end = e
            BY <3>1, <3>2, <1>9, <1>10
        <3>3. CASE end # e
            <4>1. link'[end] = NoLink
                BY <3>1, <3>3, <1>2, <1>3 DEF Links, ChainOf
            <4>2. QED
                BY <4>1, <3>1, <1>8
        <3>4. QED
            BY <3>2, <3>3
    <2>3. QED
        BY <2>1, <2>2 DEF ChainsEnd, Chain
<1>14. DisplacedAreCollisions'
    <2>1. Displaced' \subseteq Displaced \cup {free}
        BY <1>1, <1>6, <1>7 DEF Displaced, Occupied
    <2>2. IsFiniteSet(Displaced)
        BY OccupiedFinite, FS_Subset DEF Displaced
    <2>3. /\ IsFiniteSet(Displaced \cup {free})
          /\ Cardinality(Displaced \cup {free}) <= Cardinality(Displaced) + 1
          /\ Cardinality(Displaced) \in Nat
        BY <2>2, FS_AddElement, FS_CardinalityType
    <2>4. /\ Cardinality(Displaced') <= Cardinality(Displaced \cup {free})
          /\ IsFiniteSet(Displaced')
        BY <2>1, <2>3, FS_Subset
    <2>5. /\ Cardinality(Displaced') \in Nat
          /\ Cardinality(Displaced \cup {free}) \in Nat
        BY <2>3, <2>4, FS_CardinalityType
    <2>6. Cardinality(Displaced) <= collisions
        BY DEF IInv, DisplacedAreCollisions
    <2>7. QED
        BY <2>3, <2>4, <2>5, <2>6, <1>1, <1>3 DEF DisplacedAreCollisions
<1>15. QED
    BY <1>6, <1>11, <1>12, <1>13, <1>14 DEF IInv

(* Refused puts, updates and reads. *)
Refused(k, v) ==
    PutFull(k, v) \/ PutDuplicateAtHome(k, v) \/ PutDuplicateInChain(k, v)

LEMMA OtherKeepsIInv ==
    ASSUME IInv,
           \/ \E k \in Keys, v \in Inputs : Refused(k, v)
           \/ \E k \in Keys, v \in Inputs : Update(k, v)
           \/ \E k \in Keys : Get(k)
           \/ Size \/ GetKeys
    PROVE  IInv'
<1> USE TableAssumption DEF IInv, CountInv
<1>1. /\ UNCHANGED <<key, link, free, filled>>
      /\ collisions' \in {collisions, collisions + 1}
    BY DEF Refused, PutFull, PutDuplicateAtHome, PutDuplicateInChain, Refuse,
           Update, Get, Size, GetKeys
<1>2. collisions' \in Nat /\ collisions' >= collisions
    BY <1>1 DEF TypeOK
<1>3. value' \in [Slots -> Values \cup {NoValue}]
    BY DEF Refused, PutFull, PutDuplicateAtHome, PutDuplicateInChain, Refuse,
           Update, Get, Size, GetKeys, TypeOK, DataDup
<1>4. ret' \in Replies
    <2>1. CASE \E k \in Keys, v \in Inputs : Refused(k, v)
        BY <2>1 DEF Refused, PutFull, PutDuplicateAtHome, PutDuplicateInChain,
                    Refuse, Reply, Call, Replies, Error
    <2>2. CASE \E k \in Keys, v \in Inputs : Update(k, v)
        BY <2>2 DEF Update, Reply, Call, Replies, Ok, Error
    <2>3. CASE \E k \in Keys : Get(k)
        <3>1. PICK k \in Keys : Get(k)
            BY <2>3
        <3>2. GetEntry(k) \subseteq Slots
            BY DEF GetEntry, Chain, ChainOf
        <3>3. QED
            BY <3>1, <3>2 DEF Get, Reply, Call, Replies, Ok, TypeOK
    <2>4. CASE Size
        BY <2>4 DEF Size, Reply, Call, Replies, TypeOK
    <2>5. CASE GetKeys
        <3>1. {key[s] : s \in Occupied} \subseteq Keys
            BY DEF TypeOK, Occupied
        <3>2. QED
            BY <2>5, <3>1, OccupiedFinite DEF GetKeys, Reply, Call, Replies
    <2>6. QED
        BY <2>1, <2>2, <2>3, <2>4, <2>5
<1>5. TypeOK'
    BY <1>1, <1>2, <1>3, <1>4 DEF TypeOK
<1>6. QED
    BY <1>1, <1>2, <1>5, ReadKeepsIInv

LEMMA IInvStep == IInv /\ [Next]_vars => IInv'
<1> SUFFICES ASSUME IInv, [Next]_vars PROVE IInv'
    OBVIOUS
<1>1. CASE \E k \in Keys, v \in Inputs : PutHome(k, v)
    BY <1>1, PutHomeKeepsIInv
<1>2. CASE \E k \in Keys, v \in Inputs : PutChained(k, v)
    BY <1>2, PutChainedKeepsIInv
<1>3. CASE \/ \E k \in Keys, v \in Inputs : Refused(k, v)
           \/ \E k \in Keys, v \in Inputs : Update(k, v)
           \/ \E k \in Keys : Get(k)
           \/ Size \/ GetKeys
    BY <1>3, OtherKeepsIInv
<1>4. CASE UNCHANGED vars
    <2>1. TypeOK'
        BY <1>4 DEF vars, IInv, CountInv, TypeOK
    <2>2. QED
        BY <2>1, <1>4, ReadKeepsIInv DEF vars, IInv, CountInv, TypeOK
<1>5. QED
    BY <1>1, <1>2, <1>3, <1>4 DEF Next, Put, Refused

LEMMA Invariance == Spec => []IInv
BY IInvInit, IInvStep, PTL DEF Spec

(* The fields of the table keep their types, and table->next is always a   *)
(* slot of the array, also right after a put: the downward search of       *)
(* atualize_next stays inside it.                                          *)
THEOREM TypeCorrect == Spec => []TypeOK
<1>1. IInv => TypeOK
    BY DEF IInv, CountInv
<1>2. QED
    BY <1>1, Invariance, PTL

(* The count is the number of entries in use, for every size and hash      *)
(* function.                                                               *)
THEOREM CountsCorrect == Spec => []FilledIsOccupied
<1>1. IInv => FilledIsOccupied
    BY DEF IInv, CountInv
<1>2. QED
    BY <1>1, Invariance, PTL

(* table->next is free as long as there is room: a put of a displaced key  *)
(* never writes over a pair that is stored.                                *)
THEOREM FreeSlotCorrect == Spec => []FreeSlotIsFree
<1>1. IInv => FreeSlotIsFree
    BY DEF IInv, CountInv
<1>2. QED
    BY <1>1, Invariance, PTL

(* Every stored key is found from its home slot.                           *)
THEOREM LookupCorrect == Spec => []KeysReachable
<1>1. IInv => KeysReachable
    BY DEF IInv
<1>2. QED
    BY <1>1, Invariance, PTL

(* No key is stored twice: table_put searches one chain and has seen all.  *)
THEOREM KeysStoredOnce == Spec => []NoDuplicateKeys
<1>1. IInv => NoDuplicateKeys
    BY DEF IInv
<1>2. QED
    BY <1>1, Invariance, PTL

(* Every walk along a chain ends: there are no cycles of links. *)
THEOREM WalksEnd == Spec => []ChainsEnd
<1>1. IInv => ChainsEnd
    BY DEF IInv
<1>2. QED
    BY <1>1, Invariance, PTL

(* The collision counter never falls behind the displaced pairs. *)
THEOREM CollisionsCounted == Spec => []DisplacedAreCollisions
<1>1. IInv => DisplacedAreCollisions
    BY DEF IInv
<1>2. QED
    BY <1>1, Invariance, PTL

-----------------------------------------------------------------------------
(* HashTable implements BoundedMap.                                        *)

(* Pairs as a function of the two arrays. *)
Used(ky) == {s \in Slots : ky[s] # NoKey}

PairsOf(ky, vl) ==
    [k \in {ky[s] : s \in Used(ky)} |-> vl[CHOOSE s \in Used(ky) : ky[s] = k]]

LEMMA PairsIsPairsOf ==
    /\ Pairs = PairsOf(key, value)
    /\ Pairs' = PairsOf(key', value')
BY DEF Pairs, PairsOf, Used, Occupied

LEMMA PairsUnchanged ==
    ASSUME key' = key, value' = value
    PROVE  Pairs' = Pairs
BY PairsIsPairsOf

(* BoundedMap counts with the same Cardinality. *)
LEMMA SameCardinality ==
    ASSUME NEW S
    PROVE  Abstract!Cardinality(S) = Cardinality(S)
BY DEF Abstract!Cardinality, Cardinality

(* When no key is stored twice, a slot's value is its key's. *)
LEMMA PairsOfValue ==
    ASSUME NEW ky, NEW vl,
           \A s, t \in Used(ky) : ky[s] = ky[t] => s = t,
           NEW s \in Used(ky)
    PROVE  PairsOf(ky, vl)[ky[s]] = vl[s]
<1>1. ky[s] \in {ky[t] : t \in Used(ky)}
    OBVIOUS
<1>2. (CHOOSE t \in Used(ky) : ky[t] = ky[s]) = s
    OBVIOUS
<1>3. QED
    BY <1>1, <1>2 DEF PairsOf

LEMMA DomainOfPairs ==
    /\ DOMAIN Pairs = {key[s] : s \in Occupied}
    /\ Pairs = [k \in DOMAIN Pairs |-> Pairs[k]]
BY DEF Pairs

LEMMA PairsValue ==
    ASSUME IInv, NEW s \in Occupied
    PROVE  Pairs[key[s]] = value[s] /\ key[s] \in DOMAIN Pairs
<1>1. Occupied = Used(key)
    BY DEF Occupied, Used
<1>2. Pairs[key[s]] = value[s]
    BY <1>1, PairsOfValue, PairsIsPairsOf DEF IInv, NoDuplicateKeys
<1>3. QED
    BY <1>2, DomainOfPairs

(* table_size counts keys: each used slot holds a key of its own. *)
LEMMA StoredCount ==
    ASSUME IInv
    PROVE  /\ Cardinality(DOMAIN Pairs) = filled
           /\ Cardinality(Occupied) = filled
<1> DEFINE f == [s \in Occupied |-> key[s]]
<1>1. f \in Bijection(Occupied, DOMAIN Pairs)
    BY DomainOfPairs DEF Bijection, Injection, Surjection, IsInjective, IInv,
                         NoDuplicateKeys
<1>2. Cardinality(DOMAIN Pairs) = Cardinality(Occupied)
    BY <1>1, OccupiedFinite, FS_Bijection DEF ExistsBijection
<1>3. QED
    BY <1>2 DEF IInv, CountInv, FilledIsOccupied

(* get_entry finds exactly the slots that hold the key. *)
LEMMA GetEntryCorrect ==
    ASSUME IInv, NEW k \in Keys
    PROVE  /\ GetEntry(k) = {s \in Occupied : key[s] = k}
           /\ GetEntry(k) = {} <=> k \notin DOMAIN Pairs
<1>1. GetEntry(k) = {s \in Occupied : key[s] = k}
    BY WhereStored, TableAssumption DEF GetEntry, Occupied, Chain, ChainOf
<1>2. QED
    BY <1>1, DomainOfPairs

(* A pair stored in an empty slot is added to the map. *)
LEMMA StoreAddsPair ==
    ASSUME IInv, IInv', NEW k \in Keys, NEW v \in Inputs, NEW s \in Slots,
           key[s] = NoKey, filled # DataSize, StoreAt(s, k, v)
    PROVE  /\ k \notin DOMAIN Pairs
           /\ Cardinality(DOMAIN Pairs) < DataSize
           /\ Pairs' = [j \in DOMAIN Pairs \cup {k} |->
                            IF j = k THEN DataDup(v) ELSE Pairs[j]]
<1> USE TableAssumption
<1>1. /\ key \in [Slots -> Keys \cup {NoKey}] /\ key' = [key EXCEPT ![s] = k]
      /\ value \in [Slots -> Values \cup {NoValue}]
      /\ value' = [value EXCEPT ![s] = DataDup(v)]
      /\ filled \in 0 .. DataSize
    BY DEF IInv, CountInv, TypeOK, StoreAt
<1>2. Used(key') = Occupied \cup {s} /\ s \notin Occupied
    BY <1>1 DEF Used, Occupied
<1>3. \A t, u \in Used(key') : key'[t] = key'[u] => t = u
    BY DEF IInv, NoDuplicateKeys, Used, Occupied
<1>4. ASSUME NEW t \in Occupied
      PROVE  /\ t # s /\ key'[t] = key[t] /\ key[t] # k
             /\ PairsOf(key', value')[key[t]] = value[t]
    <2>1. t \in Slots /\ t # s /\ t \in Used(key') /\ s \in Used(key')
        BY <1>2 DEF Occupied
    <2>2. key'[t] = key[t] /\ key'[s] = k /\ value'[t] = value[t]
        BY <2>1, <1>1
    <2>3. key[t] # k
        BY <2>1, <2>2, <1>3
    <2>4. PairsOf(key', value')[key'[t]] = value'[t]
        BY <2>1, <1>3, PairsOfValue
    <2>5. QED
        BY <2>1, <2>2, <2>3, <2>4
<1>5. k \notin DOMAIN Pairs
    BY <1>4, DomainOfPairs
<1>6. PairsOf(key', value')[k] = DataDup(v)
    <2>1. s \in Used(key') /\ key'[s] = k /\ value'[s] = DataDup(v)
        BY <1>1, <1>2
    <2>2. QED
        BY <2>1, <1>3, PairsOfValue
<1>7. {key'[t] : t \in Used(key')} = DOMAIN Pairs \cup {k}
    <2>1. key'[s] = k
        BY <1>1
    <2>2. QED
        BY <2>1, <1>2, <1>4, DomainOfPairs
<1>8. ASSUME NEW j \in DOMAIN Pairs
      PROVE  PairsOf(key', value')[j] = Pairs[j]
    <2>1. PICK t \in Occupied : key[t] = j
        BY DomainOfPairs
    <2>2. QED
        BY <2>1, <1>4, PairsValue
<1>9. PairsOf(key', value') = [j \in DOMAIN Pairs \cup {k} |->
                                    PairsOf(key', value')[j]]
    BY <1>7 DEF PairsOf
<1>10. PairsOf(key', value') = [j \in DOMAIN Pairs \cup {k} |->
                                    IF j = k THEN DataDup(v) ELSE Pairs[j]]
    BY <1>5, <1>6, <1>8, <1>9
<1>11. QED
    BY <1>1, <1>5, <1>10, StoredCount, PairsIsPairsOf

LEMMA StoreRefines ==
    ASSUME IInv, IInv', NEW k \in Keys, NEW v \in Inputs,
           PutHome(k, v) \/ PutChained(k, v)
    PROVE  Abstract!Put(k, v)
<1>1. PICK s \in Slots : key[s] = NoKey /\ StoreAt(s, k, v)
    <2>1. CASE PutHome(k, v)
        BY <2>1, HomeType DEF PutHome
    <2>2. CASE PutChained(k, v)
        BY <2>2 DEF PutChained, IInv, CountInv, TypeOK, FreeSlotIsFree
    <2>3. QED
        BY <2>1, <2>2
<1>2. filled # DataSize
    BY DEF PutHome, PutChained
<1>3. QED
    BY <1>1, <1>2, StoreAddsPair, SameCardinality
       DEF Abstract!Put, Abstract!Stored, Abstract!Copy, Abstract!Reply, Abstract!Call,
           Abstract!Ok, StoreAt, DataDup, Reply, Call, Ok

LEMMA RefuseRefines ==
    ASSUME IInv, NEW k \in Keys, NEW v \in Inputs,
           Refused(k, v)
    PROVE  Abstract!Put(k, v)
<1>0. Refuse(k, v)
    BY DEF Refused, PutFull, PutDuplicateAtHome, PutDuplicateInChain
<1>1. Refuse(k, v) /\ UNCHANGED Pairs
    BY <1>0, PairsUnchanged DEF Refuse
<1>2. k \in DOMAIN Pairs \/ Cardinality(DOMAIN Pairs) = DataSize
    <2>1. CASE PutFull(k, v)
        BY <2>1, StoredCount DEF PutFull
    <2>2. CASE PutDuplicateAtHome(k, v) \/ PutDuplicateInChain(k, v)
        <3>1. PICK s \in Slots : key[s] = k
            BY <2>2, HomeType
               DEF PutDuplicateAtHome, PutDuplicateInChain, Chain, ChainOf
        <3>2. QED
            BY <3>1, DomainOfPairs, TableAssumption DEF Occupied
    <2>3. QED
        BY <2>1, <2>2 DEF Refused
<1>3. QED
    BY <1>1, <1>2, SameCardinality
       DEF Refuse, Abstract!Put, Abstract!Stored, Abstract!Reply, Abstract!Call,
           Abstract!Error, Reply, Call, Error

LEMMA UpdateRefines ==
    ASSUME IInv, IInv', NEW k \in Keys, NEW v \in Inputs, Update(k, v)
    PROVE  Abstract!Update(k, v)
<1>1. CASE /\ GetEntry(k) = {}
           /\ ret' = Reply(Call("update", k, v), Error, NoValue, {})
           /\ UNCHANGED value
    <2>1. UNCHANGED Pairs
        BY <1>1, PairsUnchanged DEF Update
    <2>2. QED
        BY <2>1, <1>1, GetEntryCorrect
           DEF Abstract!Update, Abstract!Stored, Abstract!Reply, Abstract!Call,
               Abstract!Error, Reply, Call, Error
<1>2. CASE \E s \in GetEntry(k) :
            /\ value' = [value EXCEPT ![s] = DataDup(v)]
            /\ ret' = Reply(Call("update", k, v), Ok, NoValue, {})
    <2>1. PICK s \in Occupied :
            /\ key[s] = k
            /\ value' = [value EXCEPT ![s] = DataDup(v)]
            /\ ret' = Reply(Call("update", k, v), Ok, NoValue, {})
        BY <1>2, GetEntryCorrect
    <2>2. key' = key /\ value \in [Slots -> Values \cup {NoValue}] /\ s \in Slots
        BY DEF Update, IInv, CountInv, TypeOK, Occupied
    <2>3. k \in DOMAIN Pairs
        BY <2>1, DomainOfPairs
    <2>4. Used(key') = Occupied /\ Used(key) = Occupied
        BY <2>2 DEF Used, Occupied
    <2>5. ASSUME NEW j \in DOMAIN Pairs
          PROVE  PairsOf(key', value')[j] = IF j = k THEN DataDup(v) ELSE Pairs[j]
        <3>1. PICK t \in Occupied : key[t] = j
            BY DomainOfPairs
        <3>2. \A t1, t2 \in Used(key') : key'[t1] = key'[t2] => t1 = t2
            BY <2>2, <2>4 DEF IInv, NoDuplicateKeys
        <3>3. PairsOf(key', value')[key'[t]] = value'[t]
            BY <3>2, <2>4, PairsOfValue
        <3>4. Pairs[j] = value[t] /\ t \in Slots
            BY <3>1, PairsValue DEF Occupied
        <3>5. j = k => t = s
            BY <3>1, <2>1 DEF IInv, NoDuplicateKeys
        <3>6. j # k => t # s
            BY <3>1, <2>1
        <3>7. QED
            BY <3>1, <3>3, <3>4, <3>5, <3>6, <2>1, <2>2
    <2>6. PairsOf(key', value') = [j \in DOMAIN Pairs |-> PairsOf(key', value')[j]]
        BY <2>2, <2>4, DomainOfPairs DEF PairsOf
    <2>7. Pairs' = [Pairs EXCEPT ![k] = DataDup(v)]
        BY <2>3, <2>5, <2>6, PairsIsPairsOf, DomainOfPairs
    <2>8. QED
        BY <2>1, <2>3, <2>7
           DEF Abstract!Update, Abstract!Stored, Abstract!Copy,
               Abstract!Reply, Abstract!Call, Abstract!Ok, DataDup, Reply, Call,
               Ok
<1>3. QED
    BY <1>1, <1>2 DEF Update

LEMMA ReadRefines ==
    ASSUME IInv, (\E k \in Keys : Get(k)) \/ Size \/ GetKeys
    PROVE  Abstract!Next
<1>0. UNCHANGED <<key, value>>
    BY DEF Get, Size, GetKeys
<1>1. UNCHANGED Pairs
    BY <1>0, PairsUnchanged
<1>2. ASSUME NEW k \in Keys, Get(k)
      PROVE  Abstract!Get(k)
    <2>1. CASE GetEntry(k) = {}
        BY <1>1, <1>2, <2>1, GetEntryCorrect
           DEF Get, Abstract!Get, Abstract!Stored, Abstract!Reply, Abstract!Call,
               Abstract!Ok, Reply, Call, Ok
    <2>2. CASE GetEntry(k) # {}
        <3>1. PICK s \in GetEntry(k) :
                  ret' = Reply(Call("get", k, NoValue), Ok, value[s], {})
            BY <1>2, <2>2 DEF Get
        <3>2. Pairs[k] = value[s] /\ k \in DOMAIN Pairs
            BY <3>1, GetEntryCorrect, PairsValue
        <3>3. QED
            BY <1>1, <3>1, <3>2
               DEF Abstract!Get, Abstract!Stored, Abstract!Reply, Abstract!Call,
                   Abstract!Ok, Reply, Call, Ok
    <2>3. QED
        BY <2>1, <2>2
<1>3. Size => Abstract!Size
    BY <1>1, StoredCount, SameCardinality
       DEF Size, Abstract!Size, Abstract!Stored, Abstract!Reply,
           Abstract!Call, Reply, Call
<1>4. GetKeys => Abstract!GetKeys
    BY <1>1, StoredCount, DomainOfPairs, SameCardinality
       DEF GetKeys, Abstract!GetKeys, Abstract!Stored, Abstract!Reply,
           Abstract!Call, Reply, Call
<1>5. QED
    BY <1>2, <1>3, <1>4 DEF Abstract!Next

LEMMA InitRefines == Init => Abstract!Init
<1> SUFFICES ASSUME Init PROVE Abstract!Init
    OBVIOUS
<1>1. Occupied = {}
    BY DEF Init, Occupied
<1>2. Pairs = [k \in {} |-> NoValue]
    <2>1. DOMAIN Pairs = {}
        BY <1>1, DomainOfPairs
    <2>2. QED
        BY <2>1, DomainOfPairs
<1>3. QED
    BY <1>2 DEF Init, Abstract!Init, Abstract!Reply, Abstract!Call,
                Abstract!Ok, Reply, Call, Ok

LEMMA StepRefines ==
    IInv /\ IInv' /\ [Next]_vars => [Abstract!Next]_<<Pairs, ret>>
<1> SUFFICES ASSUME IInv, IInv', [Next]_vars
             PROVE  Abstract!Next \/ UNCHANGED <<Pairs, ret>>
    OBVIOUS
<1> USE DEF Abstract!Inputs, Inputs
<1>1. CASE \E k \in Keys, v \in Inputs : PutHome(k, v) \/ PutChained(k, v)
    BY <1>1, StoreRefines DEF Abstract!Next
<1>2. CASE \E k \in Keys, v \in Inputs :
                Refused(k, v)
    BY <1>2, RefuseRefines DEF Abstract!Next
<1>3. CASE \E k \in Keys, v \in Inputs : Update(k, v)
    BY <1>3, UpdateRefines DEF Abstract!Next
<1>4. CASE (\E k \in Keys : Get(k)) \/ Size \/ GetKeys
    BY <1>4, ReadRefines
<1>5. CASE UNCHANGED vars
    BY <1>5, PairsUnchanged DEF vars
<1>6. QED
    BY <1>1, <1>2, <1>3, <1>4, <1>5 DEF Next, Put, Refused

(* Every call on the table returns what a map with room for DataSize keys  *)
(* would return: chains that merge, full tables and refused puts included. *)
THEOREM TableIsBoundedMap == Spec => IsBoundedMap
<1>1. Init => Abstract!Init
    BY InitRefines
<1>2. IInv /\ IInv' /\ [Next]_vars => [Abstract!Next]_<<Pairs, ret>>
    BY StepRefines
<1>3. QED
    BY <1>1, <1>2, Invariance, PTL DEF Spec, IsBoundedMap, Abstract!Spec
=============================================================================
