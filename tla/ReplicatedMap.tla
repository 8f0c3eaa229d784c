--------------------------- MODULE ReplicatedMap ----------------------------
(***************************************************************************)
(* What a pair of servers promises its clients: one map, on which every    *)
(* request takes effect at most once, between the moment it is sent and    *)
(* the moment it is answered, and which is kept as long as one of its      *)
(* copies is.  A failure may swallow a request, before or after its        *)
(* effect, but never a request that has been answered.                     *)
(***************************************************************************)
EXTENDS TableOps

CONSTANTS
    Clients,
    None

VARIABLES
    map,        \* the map the clients share
    copies,     \* how many servers hold it
    req,        \* the request a client waits for, or None
    done,       \* the answer of a request that took effect, until it is sent
    rep         \* the answer a client has received

absVars == <<map, copies, req, done, rep>>

Init ==
    /\ map = EmptyTables
    /\ copies = 0
    /\ req = [c \in Clients |-> None]
    /\ done = [c \in Clients |-> None]
    /\ rep = [c \in Clients |-> None]

(* A server sets its tables up, while nothing has been stored. *)
AddCopy ==
    /\ map = EmptyTables
    /\ copies' = copies + 1
    /\ UNCHANGED <<map, req, done, rep>>

Send(c, r) ==
    /\ req[c] = None
    /\ req' = [req EXCEPT ![c] = r]
    /\ rep' = [rep EXCEPT ![c] = None]
    /\ UNCHANGED <<map, copies, done>>

(* The request takes effect and its answer is determined. *)
Takes(c) ==
    /\ req[c] # None
    /\ done[c] = None
    /\ copies > 0
    /\ map' = IF Accepted(map, req[c]) THEN After(map, req[c]) ELSE map

Execute(c) ==
    /\ Takes(c)
    /\ done' = [done EXCEPT ![c] = Answer(map, req[c])]
    /\ UNCHANGED <<copies, req, rep>>

Respond(c) ==
    /\ done[c] # None
    /\ rep' = [rep EXCEPT ![c] = done[c]]
    /\ req' = [req EXCEPT ![c] = None]
    /\ done' = [done EXCEPT ![c] = None]
    /\ UNCHANGED <<map, copies>>

ExecuteAndRespond(c) ==
    /\ Takes(c)
    /\ rep' = [rep EXCEPT ![c] = Answer(map, req[c])]
    /\ req' = [req EXCEPT ![c] = None]
    /\ UNCHANGED <<copies, done>>

(* Nobody will answer these clients any more. *)
Forget(S) ==
    /\ req' = [c \in Clients |-> IF c \in S THEN None ELSE req[c]]
    /\ done' = [c \in Clients |-> IF c \in S THEN None ELSE done[c]]
    /\ UNCHANGED rep

(* A server fails: the map goes with its last copy only. *)
LoseCopy(S) ==
    /\ copies > 0
    /\ copies' = copies - 1
    /\ map' = IF copies = 1 THEN EmptyTables ELSE map
    /\ Forget(S)

(* The backup fails while a request is on its way to it: the request has   *)
(* taken effect on the copy that is left.                                  *)
LoseCopyExecuting(c) ==
    /\ copies > 1
    /\ copies' = copies - 1
    /\ Takes(c)
    /\ done' = [done EXCEPT ![c] = Answer(map, req[c])]
    /\ UNCHANGED <<req, rep>>

(* No server with tables: the request is refused. *)
Refuse(c) ==
    /\ req[c] # None
    /\ copies = 0
    /\ rep' = [rep EXCEPT ![c] = Reply(FALSE, NoValue, 0)]
    /\ req' = [req EXCEPT ![c] = None]
    /\ UNCHANGED <<map, copies, done>>

Drop(S) == Forget(S) /\ UNCHANGED <<map, copies>>

(* A request whose client has gone still takes effect. *)
ExecuteForgotten(c) ==
    /\ Takes(c)
    /\ req' = [req EXCEPT ![c] = None]
    /\ UNCHANGED <<copies, done, rep>>

Next ==
    \/ AddCopy
    \/ \E c \in Clients :
          \/ \E r \in ClientRequests : Send(c, r)
          \/ Execute(c)
          \/ Respond(c)
          \/ ExecuteAndRespond(c)
          \/ Refuse(c)
          \/ LoseCopyExecuting(c)
          \/ ExecuteForgotten(c)
    \/ \E S \in SUBSET Clients : LoseCopy(S) \/ Drop(S)

Spec == Init /\ [][Next]_absVars
=============================================================================
