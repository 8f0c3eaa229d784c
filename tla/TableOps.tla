------------------------------ MODULE TableOps ------------------------------
(***************************************************************************)
(* The requests of clients and servers, and what invoke of                 *)
(* src/source/table-skel.c does with one on a table.  A table is the map   *)
(* BoundedMap describes (HashTable implements it); the tables of a server  *)
(* are one map, a key standing for a table number and a key in it.         *)
(***************************************************************************)
EXTENDS Integers, FiniteSets

CONSTANTS
    Keys,       \* (table number, key) pairs
    Values,     \* data of the entries
    NoKey,      \* a request that names no key
    NoValue,    \* a request or a reply that carries no data
    NoTables,   \* the tables of a server before table_skel_init
    Capacity    \* room in the tables

Request(op, k, v) == [op |-> op, key |-> k, value |-> v]

WriteRequests ==
    {Request(op, k, v) : op \in {"put", "update"}, k \in Keys, v \in Values}

(* "stat" stands for OC_SIZE, OC_COLLS and OC_GET of "*": reads that only  *)
(* a server without tables refuses.                                        *)
ReadRequests ==
    {Request("get", k, NoValue) : k \in Keys} \cup
        {Request("stat", NoKey, NoValue)}

ClientRequests == WriteRequests \cup ReadRequests

Tables == UNION {[D -> Values] : D \in SUBSET Keys}

EmptyTables == [k \in {} |-> NoValue]

(* Requests that invoke answers with its opcode + 1; it answers the others *)
(* with messgerror, opcode 99.  A server without tables accepts none.      *)
Accepted(m, r) ==
    /\ m # NoTables
    /\ \/ r.op \in {"get", "stat"}
       \/ r.op = "put" /\ r.key \notin DOMAIN m /\ Cardinality(DOMAIN m) < Capacity
       \/ r.op = "update" /\ r.key \in DOMAIN m

(* A get that finds nothing: its reply is a CT_VALUE message whose data is *)
(* NULL, and imprimir_resposta dereferences it.                            *)
Misses(m, r) == m # NoTables /\ r.op = "get" /\ r.key \notin DOMAIN m

(* The tables after an accepted request. *)
After(m, r) ==
    IF r.op \in {"put", "update"}
    THEN [k \in DOMAIN m \cup {r.key} |-> IF k = r.key THEN r.value ELSE m[k]]
    ELSE m

(* The reply that is sent: accepted or refused, the data of a get, and the *)
(* number of pairs for a stat.                                             *)
Reply(ok, v, n) == [ok |-> ok, value |-> v, size |-> n]

Replies == [ok : BOOLEAN, value : Values \cup {NoValue}, size : Nat]

Answer(m, r) ==
    IF ~Accepted(m, r) THEN Reply(FALSE, NoValue, 0)
    ELSE CASE r.op = "get" ->
                Reply(TRUE, IF r.key \in DOMAIN m THEN m[r.key] ELSE NoValue, 0)
           [] r.op = "stat" -> Reply(TRUE, NoValue, Cardinality(DOMAIN m))
           [] OTHER -> Reply(TRUE, NoValue, 0)
=============================================================================
