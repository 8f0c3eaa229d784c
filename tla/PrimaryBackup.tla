--------------------------- MODULE PrimaryBackup ----------------------------
(***************************************************************************)
(* The two servers of src/source/table-server.c and the protocol between   *)
(* them (primary_backup.c, network_server.c, table-skel.c), from a start   *)
(* without files to the death of both.  "A" is started with the address of *)
(* the other server and the sizes of the tables, "B" with a port only.     *)
(* Messages between A and B are whole (the stream under them is TCP: no    *)
(* loss, no reordering); an end of a connection is closed by the death of  *)
(* its process only.                                                       *)
(*                                                                         *)
(* A client is one connection of a client program, for its whole life.  It *)
(* is an environment that sends any request at any moment.                 *)
(***************************************************************************)
EXTENDS TableOps

CONSTANTS
    Clients,        \* connections of client programs
    None,           \* nobody, no message, no request
    MaxServed,      \* SOCKETS_NUMBER - 3: slots for clients in connections
    MaxCrashes,     \* bound on the crashes the environment inflicts
    SplitBrain      \* may a client reach B while A is alive?

Servers == {"A", "B"}

Other(s) == IF s = "A" THEN "B" ELSE "A"

ASSUME PrimaryBackupAssumption ==
    /\ Servers \cap Clients = {}
    /\ {"listen", "server"} \cap Clients = {}
    /\ None \notin Servers /\ None \notin Clients
    /\ None \notin ClientRequests /\ None \notin Replies
    /\ \A p \in {"ip_port", "sz_tables", "ack"} : None # Request(p, NoKey, NoValue)
    /\ NoValue \notin Values /\ NoKey \notin Keys
    /\ NoTables \notin Tables
    /\ Capacity \in Nat /\ IsFiniteSet(Keys)
    /\ MaxServed \in Nat \ {0} /\ MaxCrashes \in Nat
    /\ SplitBrain \in BOOLEAN

VARIABLES
    pc,         \* where main() of each server is
    primario,   \* the global of that name
    state,      \* o_server->state: 1 when it takes the other server for up
    store,      \* tabelas, or NoTables before table_skel_init
    peer,       \* who is connected to o_server->socket, or None when closed
    pend,       \* the connection the kernel has queued for accept, or None
    served,     \* the clients in connections[3..]
    ready,      \* the slots whose revents are set and not handled yet
    cur,        \* the client whose request A has passed to the thread
    wireReq,    \* the request A has sent to B and B has not read
    wireRep,    \* the reply B has sent to A and A has not read
    at,         \* the server a client is connected to, or None
    open,       \* has the client still its end open?
    req,        \* the request a client waits for, or None
    rep,        \* the last reply sent to it, or None
    crashes     \* crashes so far

serverVars == <<pc, primario, state, store, peer, served, ready, cur>>
wireVars == <<wireReq, wireRep>>
clientVars == <<at, open, req, rep>>
vars == <<serverVars, wireVars, pend, clientVars, crashes>>
-----------------------------------------------------------------------------
(* The messages of the start-up handshake, in the order main() sends them. *)
Control(op) == Request(op, NoKey, NoValue)

HandshakePcs == {"ip_port", "sz_tables", "ack"}

(* Slip: the sizes of the tables are not sent. *)
SuccessorWithoutSizes(p) == IF p = "ip_port" THEN "ack" ELSE "loop"

Successor(p) ==
    CASE p = "ip_port" -> "sz_tables"
      [] p = "sz_tables" -> "ack"
      [] p = "ack" -> "loop"

Alive(s) == pc[s] \notin {"off", "dead"}

(* A write by A arrives as long as B's end is open. *)
Sent(m) == IF Alive("B") THEN m ELSE None

(* What poll reports as POLLIN on connections[SERVER_SOCKET]: a message or *)
(* the end of the stream.  A has nothing to read but the end: B answers    *)
(* requests only.                                                          *)
ServerReadable(s) ==
    /\ peer[s] # None
    /\ \/ s = "B" /\ wireReq # None
       \/ ~Alive(Other(s))

ClientReadable(c) == req[c] # None \/ ~open[c]

(* The snapshot of poll(connections, nSockets, -1). *)
Events(s) ==
    {e \in {"listen"} : pend[s] # None} \cup
    {e \in {"server"} : ServerReadable(s)} \cup
    {c \in served[s] : ClientReadable(c)}

(* The death of a process: the kernel closes its sockets, the data it has  *)
(* not read are gone, what it has written can still be read.               *)
Dies(s) ==
    /\ pc' = [pc EXCEPT ![s] = "dead"]
    /\ store' = [store EXCEPT ![s] = NoTables]
    /\ peer' = [peer EXCEPT ![s] = None]
    /\ pend' = [pend EXCEPT ![s] = None]
    /\ served' = [served EXCEPT ![s] = {}]
    /\ ready' = [ready EXCEPT ![s] = {}]
    /\ wireReq' = IF s = "B" THEN None ELSE wireReq
    /\ wireRep' = IF s = "A" THEN None ELSE wireRep
    /\ req' = [c \in Clients |-> IF at[c] = s THEN None ELSE req[c]]
    /\ UNCHANGED <<primario, state, cur, at, open, rep>>
-----------------------------------------------------------------------------
Init ==
    /\ pc = [s \in Servers |-> "off"]
    /\ primario = [s \in Servers |-> FALSE]
    /\ state = [s \in Servers |-> 0]
    /\ store = [s \in Servers |-> NoTables]
    /\ peer = [s \in Servers |-> None]
    /\ pend = [s \in Servers |-> None]
    /\ served = [s \in Servers |-> {}]
    /\ ready = [s \in Servers |-> {}]
    /\ cur = None
    /\ wireReq = None
    /\ wireRep = None
    /\ at = [c \in Clients |-> None]
    /\ open = [c \in Clients |-> FALSE]
    /\ req = [c \in Clients |-> None]
    /\ rep = [c \in Clients |-> None]
    /\ crashes = 0
-----------------------------------------------------------------------------
(* Start-up of the primary: it listens and creates its tables ...          *)
StartA ==
    /\ pc["A"] = "off"
    /\ pc' = [pc EXCEPT !["A"] = "connect"]
    /\ primario' = [primario EXCEPT !["A"] = TRUE]
    /\ store' = [store EXCEPT !["A"] = EmptyTables]
    /\ UNCHANGED <<state, peer, pend, served, ready, cur, wireVars,
                   clientVars, crashes>>

(* ... connects to B, whose kernel queues one connection, and sends the    *)
(* first message, ...                                                      *)
Connect ==
    /\ pc["A"] = "connect"
    /\ Alive("B") /\ pend["B"] = None
    /\ pend' = [pend EXCEPT !["B"] = "A"]
    /\ peer' = [peer EXCEPT !["A"] = "B"]
    /\ state' = [state EXCEPT !["A"] = 1]
    /\ pc' = [pc EXCEPT !["A"] = "ip_port"]
    /\ wireReq' = Control("ip_port")
    /\ UNCHANGED <<primario, store, served, ready, cur, wireRep,
                   clientVars, crashes>>

(* ... unless B refuses, or its queue stays taken until connect times out: *)
(* then A serves without a backup, for good.                               *)
ConnectFails ==
    /\ pc["A"] = "connect"
    /\ ~Alive("B") \/ pend["B"] # None
    /\ state' = [state EXCEPT !["A"] = 0]
    /\ pc' = [pc EXCEPT !["A"] = "loop"]
    /\ UNCHANGED <<primario, store, peer, pend, served, ready, cur, wireVars,
                   clientVars, crashes>>

(* rtables_ip_port, rtables_sz_tbles and rtables_ack return once a reply   *)
(* has come, whatever it says, and the next message is sent.               *)
NextHandshakeMessage ==
    LET next == Successor(pc["A"])
    IN  /\ pc' = [pc EXCEPT !["A"] = next]
        /\ wireReq' = IF next = "loop" THEN None ELSE Sent(Control(next))

HandshakeReply ==
    /\ pc["A"] \in HandshakePcs
    /\ wireRep # None
    /\ wireRep' = None
    /\ NextHandshakeMessage
    /\ UNCHANGED <<primario, state, store, peer, pend, served, ready, cur,
                   clientVars, crashes>>

(* B has closed its end.  The end of the stream is no error to read_all,   *)
(* so a length that was never received is used; or network_send_receive    *)
(* frees the message and returns messgerror(), never NULL, and its caller  *)
(* frees the message again (both undefined) and returns 0, and state stays *)
(* 1; a write kills, for SIGPIPE is not ignored yet.  So A dies, or goes   *)
(* on as if B had answered.                                                *)
HandshakeFails ==
    /\ pc["A"] \in HandshakePcs
    /\ wireRep = None
    /\ ~Alive("B")
    /\ UNCHANGED crashes
    /\ \/ Dies("A")
       \/ /\ NextHandshakeMessage
          /\ UNCHANGED <<primario, state, store, peer, pend, served, ready,
                         cur, wireRep, clientVars>>

(* Start-up of the secondary: it listens and blocks in accept ...          *)
StartB ==
    /\ pc["B"] = "off"
    /\ pc' = [pc EXCEPT !["B"] = "accept"]
    /\ UNCHANGED <<primario, state, store, peer, pend, served, ready, cur,
                   wireVars, clientVars, crashes>>

(* ... which returns whoever is first, the primary or a client; that       *)
(* connection becomes o_server->socket.                                    *)
AcceptPeer ==
    /\ pc["B"] = "accept"
    /\ pend["B"] # None
    /\ peer' = [peer EXCEPT !["B"] = pend["B"]]
    /\ pend' = [pend EXCEPT !["B"] = None]
    /\ pc' = [pc EXCEPT !["B"] = "sync"]
    /\ UNCHANGED <<primario, state, store, served, ready, cur, wireVars,
                   clientVars, crashes>>

(* Slip: B does not answer the first message. *)
SyncStepSilent ==
    /\ pc["B"] = "sync"
    /\ peer["B"] = "A"
    /\ wireReq # None
    /\ store' = [store EXCEPT !["B"] =
                    IF wireReq.op = "sz_tables" THEN EmptyTables ELSE @]
    /\ pc' = [pc EXCEPT !["B"] = IF wireReq.op = "ack" THEN "loop" ELSE @]
    /\ wireReq' = None
    /\ wireRep' = IF Alive("A") /\ wireReq.op # "ip_port"
                  THEN Reply(TRUE, NoValue, 0) ELSE None
    /\ UNCHANGED <<primario, state, peer, pend, served, ready, cur,
                   clientVars, crashes>>

(* while(!*ack) network_receive_send(o_server->socket, ack): B answers its *)
(* peer until it has answered an ack.                                      *)
SyncStep ==
    /\ pc["B"] = "sync"
    /\ peer["B"] = "A"
    /\ wireReq # None
    /\ store' = [store EXCEPT !["B"] =
                    IF wireReq.op = "sz_tables" THEN EmptyTables ELSE @]
    /\ pc' = [pc EXCEPT !["B"] = IF wireReq.op = "ack" THEN "loop" ELSE @]
    /\ wireReq' = None
    /\ wireRep' = IF Alive("A") THEN Reply(TRUE, NoValue, 0) ELSE None
    /\ UNCHANGED <<primario, state, peer, pend, served, ready, cur,
                   clientVars, crashes>>

(* The peer is a client: without tables every request of it is refused.    *)
SyncClient ==
    /\ pc["B"] = "sync"
    /\ peer["B"] \in Clients
    /\ LET c == peer["B"]
       IN  /\ req[c] # None
           /\ req' = [req EXCEPT ![c] = None]
           /\ rep' = [rep EXCEPT ![c] = Answer(store["B"], req[c])]
    /\ UNCHANGED <<serverVars, wireVars, pend, at, open, crashes>>

(* The peer has gone before its ack: B exits. *)
SyncFails ==
    /\ pc["B"] = "sync"
    /\ \/ peer["B"] = "A" /\ wireReq = None /\ ~Alive("A")
       \/ peer["B"] \in Clients /\ ~open[peer["B"]] /\ req[peer["B"]] = None
    /\ Dies("B")
    /\ UNCHANGED crashes
-----------------------------------------------------------------------------
(* The loop of main(): poll, then accept, then the other server's slot,    *)
(* then the clients' slots, each at most once per call of poll.            *)
Poll(s) ==
    /\ pc[s] = "loop"
    /\ ready[s] = {}
    /\ Events(s) # {}
    /\ ready' = [ready EXCEPT ![s] = Events(s)]
    /\ UNCHANGED <<pc, primario, state, store, peer, pend, served, cur,
                   wireVars, clientVars, crashes>>

(* The first client a secondary accepts makes it the primary.  The number  *)
(* of tables, which is then written to the client, is not modelled.        *)
Accept(s) ==
    /\ pc[s] = "loop"
    /\ "listen" \in ready[s]
    /\ pend[s] \in Clients
    /\ Cardinality(served[s]) < MaxServed
    /\ served' = [served EXCEPT ![s] = @ \cup {pend[s]}]
    /\ pend' = [pend EXCEPT ![s] = None]
    /\ ready' = [ready EXCEPT ![s] = @ \ {"listen"}]
    /\ primario' = [primario EXCEPT ![s] = TRUE]
    /\ state' = [state EXCEPT ![s] = IF primario[s] THEN @ ELSE 0]
    /\ UNCHANGED <<pc, store, peer, cur, wireVars, at, open, req, rep, crashes>>

AcceptWhenFull(s) ==
    /\ pc[s] = "loop"
    /\ "listen" \in ready[s]
    /\ Cardinality(served[s]) >= MaxServed
    /\ ready' = [ready EXCEPT ![s] = @ \ {"listen"}]
    /\ UNCHANGED <<pc, primario, state, store, peer, pend, served, cur,
                   wireVars, clientVars, crashes>>

(* connections[SERVER_SOCKET] has a request of A for B.  B does not pass   *)
(* it on: it is not the primary, or its state is 0.                        *)
ServeServer ==
    /\ pc["B"] = "loop"
    /\ "listen" \notin ready["B"]
    /\ "server" \in ready["B"]
    /\ wireReq # None
    /\ store' = [store EXCEPT !["B"] =
                    IF Accepted(@, wireReq) THEN After(@, wireReq) ELSE @]
    /\ wireReq' = None
    /\ wireRep' = IF Alive("A") THEN Answer(store["B"], wireReq) ELSE None
    /\ ready' = [ready EXCEPT !["B"] = @ \ {"server"}]
    /\ UNCHANGED <<pc, primario, state, peer, pend, served, cur, clientVars,
                   crashes>>

(* Slip: the slot is closed, o_server->state keeps its value. *)
ServerGoneUnmarked(s) ==
    /\ pc[s] = "loop"
    /\ "listen" \notin ready[s]
    /\ "server" \in ready[s]
    /\ s = "A" \/ wireReq = None
    /\ peer' = [peer EXCEPT ![s] = None]
    /\ ready' = [ready EXCEPT ![s] = @ \ {"server"}]
    /\ UNCHANGED <<pc, primario, state, store, pend, served, cur, wireVars,
                   clientVars, crashes>>

(* connections[SERVER_SOCKET] is at its end: the other server is down. *)
ServerGone(s) ==
    /\ pc[s] = "loop"
    /\ "listen" \notin ready[s]
    /\ "server" \in ready[s]
    /\ s = "A" \/ wireReq = None
    /\ peer' = [peer EXCEPT ![s] = None]
    /\ state' = [state EXCEPT ![s] = 0]
    /\ ready' = [ready EXCEPT ![s] = @ \ {"server"}]
    /\ UNCHANGED <<pc, primario, store, pend, served, cur, wireVars,
                   clientVars, crashes>>

(* Slip: shift moves every slot but the one behind the client's, which is  *)
(* lost.                                                                   *)
ClientGoneShiftLoses(s, c) ==
    /\ pc[s] = "loop"
    /\ ready[s] \cap {"listen", "server"} = {}
    /\ c \in ready[s]
    /\ req[c] = None
    /\ \E skipped \in ready[s] :
          /\ ready' = [ready EXCEPT ![s] = @ \ {c, skipped}]
          /\ served' = [served EXCEPT ![s] = @ \ {c, skipped}]
    /\ UNCHANGED <<pc, primario, state, store, peer, pend, cur, wireVars,
                   clientVars, crashes>>

(* A client has gone; shift moves the slot behind it under the loop's      *)
(* index, which then steps over it: one other client may have to wait for  *)
(* the next poll.                                                          *)
ClientGone(s, c) ==
    /\ pc[s] = "loop"
    /\ ready[s] \cap {"listen", "server"} = {}
    /\ c \in ready[s]
    /\ req[c] = None
    /\ served' = [served EXCEPT ![s] = @ \ {c}]
    /\ \E skipped \in ready[s] :
            ready' = [ready EXCEPT ![s] = @ \ {c, skipped}]
    /\ UNCHANGED <<pc, primario, state, store, peer, pend, cur, wireVars,
                   clientVars, crashes>>

(* network_receive_send on a client's slot: invoke, and then what becomes  *)
(* of the request.                                                         *)
Invoking(s, c) ==
    /\ pc[s] = "loop"
    /\ ready[s] \cap {"listen", "server"} = {}
    /\ c \in ready[s]
    /\ req[c] # None

(* Slips: every accepted request is passed on, or the refused ones too, or *)
(* the puts only.                                                          *)
ReplicatesReads(s, c) ==
    primario[s] /\ state[s] = 1 /\ Accepted(store[s], req[c])

ReplicatesRefused(s, c) ==
    primario[s] /\ state[s] = 1 /\ req[c].op \in {"put", "update"}

ReplicatesPuts(s, c) ==
    /\ primario[s] /\ state[s] = 1
    /\ Accepted(store[s], req[c]) /\ req[c].op = "put"

Replicates(s, c) ==
    /\ primario[s]
    /\ state[s] = 1
    /\ Accepted(store[s], req[c])
    /\ req[c].op \in {"put", "update"}

Respond(s, c, answer) ==
    /\ rep' = [rep EXCEPT ![c] = answer]
    /\ req' = [req EXCEPT ![c] = None]
    /\ ready' = [ready EXCEPT ![s] = @ \ {c}]

Serve(s, c) ==
    /\ Invoking(s, c)
    /\ ~Misses(store[s], req[c])
    /\ ~Replicates(s, c)
    /\ store' = [store EXCEPT ![s] =
                    IF Accepted(@, req[c]) THEN After(@, req[c]) ELSE @]
    /\ Respond(s, c, Answer(store[s], req[c]))
    /\ UNCHANGED <<pc, primario, state, peer, pend, served, cur, wireVars,
                   at, open, crashes>>

(* imprimir_resposta of the reply to a get that found nothing. *)
ServeMiss(s, c) ==
    /\ Invoking(s, c)
    /\ Misses(store[s], req[c])
    /\ Dies(s)
    /\ UNCHANGED crashes

(* Slip: main() answers the client without waiting for the thread. *)
ReplicateUnjoined(c) ==
    /\ Invoking("A", c)
    /\ Replicates("A", c)
    /\ wireReq = None
    /\ store' = [store EXCEPT !["A"] = After(@, req[c])]
    /\ wireReq' = Sent(req[c])
    /\ cur' = c
    /\ Respond("A", c, Reply(TRUE, NoValue, 0))
    /\ UNCHANGED <<pc, primario, state, peer, pend, served, wireRep,
                   at, open, crashes>>

(* The request is applied to A's tables; the thread running pthread_main   *)
(* sends it to B while main() waits in pthread_join.  When B has gone, a   *)
(* write may fail, and the loop that repeats it runs on an uninitialised i *)
(* (undefined): it may never end.                                          *)
Replicate(c) ==
    /\ Invoking("A", c)
    /\ Replicates("A", c)
    /\ store' = [store EXCEPT !["A"] = After(@, req[c])]
    /\ wireReq' = Sent(req[c])
    /\ cur' = c
    /\ \/ pc' = [pc EXCEPT !["A"] = "replicate"]
       \/ ~Alive("B") /\ pc' = [pc EXCEPT !["A"] = "stuck"]
    /\ UNCHANGED <<primario, state, peer, pend, served, ready, wireRep,
                   clientVars, crashes>>

EndReplicate ==
    /\ pc' = [pc EXCEPT !["A"] = "loop"]
    /\ cur' = None
    /\ Respond("A", cur, Reply(TRUE, NoValue, 0))

(* B's answer has come; A does not look at it, and answers its client.     *)
Replicated ==
    /\ pc["A"] = "replicate"
    /\ wireRep # None
    /\ wireRep' = None
    /\ EndReplicate
    /\ UNCHANGED <<primario, state, store, peer, pend, served, wireReq,
                   at, open, crashes>>

(* Slip: the end of the stream is not told from a late answer. *)
ReplicateFailsUnseen ==
    /\ pc["A"] = "replicate"
    /\ state["A"] = 0
    /\ EndReplicate
    /\ UNCHANGED <<primario, state, store, peer, pend, served, wireVars,
                   at, open, crashes>>

(* B is gone without an answer.  The end of the stream is no error to      *)
(* read_all, so a length that was never received is used; or the message   *)
(* is freed twice (both undefined): A dies, or answers its client, and     *)
(* still takes B for up.                                                   *)
ReplicateFails ==
    /\ pc["A"] = "replicate"
    /\ wireRep = None
    /\ ~Alive("B")
    /\ UNCHANGED crashes
    /\ \/ Dies("A")
       \/ /\ EndReplicate
          /\ UNCHANGED <<primario, state, store, peer, pend, served, wireVars,
                         at, open>>
-----------------------------------------------------------------------------
(* The environment: clients, and crashes of the servers.                   *)
ClientConnect(c, s) ==
    /\ at[c] = None
    /\ Alive(s) /\ pend[s] = None
    /\ s = "B" => SplitBrain \/ pc["A"] = "dead"
    /\ at' = [at EXCEPT ![c] = s]
    /\ open' = [open EXCEPT ![c] = TRUE]
    /\ pend' = [pend EXCEPT ![s] = c]
    /\ UNCHANGED <<serverVars, wireVars, req, rep, crashes>>

(* A client that has changed servers does not wait for the greeting. *)
ClientSend(c, r) ==
    /\ open[c]
    /\ Alive(at[c])
    /\ req[c] = None
    /\ req' = [req EXCEPT ![c] = r]
    /\ rep' = [rep EXCEPT ![c] = None]
    /\ UNCHANGED <<serverVars, wireVars, pend, at, open, crashes>>

ClientClose(c) ==
    /\ open[c]
    /\ open' = [open EXCEPT ![c] = FALSE]
    /\ UNCHANGED <<serverVars, wireVars, pend, at, req, rep, crashes>>

Crash(s) ==
    /\ Alive(s)
    /\ crashes < MaxCrashes
    /\ crashes' = crashes + 1
    /\ Dies(s)
-----------------------------------------------------------------------------
AStep ==
    \/ Connect \/ ConnectFails
    \/ HandshakeReply \/ HandshakeFails
    \/ Poll("A") \/ Accept("A") \/ AcceptWhenFull("A") \/ ServerGone("A")
    \/ \E c \in Clients :
          ClientGone("A", c) \/ Serve("A", c) \/ ServeMiss("A", c) \/ Replicate(c)
    \/ Replicated \/ ReplicateFails

BStep ==
    \/ AcceptPeer \/ SyncStep \/ SyncClient \/ SyncFails
    \/ Poll("B") \/ Accept("B") \/ AcceptWhenFull("B")
    \/ ServeServer \/ ServerGone("B")
    \/ \E c \in Clients :
          ClientGone("B", c) \/ Serve("B", c) \/ ServeMiss("B", c)

Environment ==
    \/ StartA \/ StartB
    \/ \E s \in Servers : Crash(s)
    \/ \E c \in Clients :
          \/ \E s \in Servers : ClientConnect(c, s)
          \/ \E r \in ClientRequests : ClientSend(c, r)
          \/ ClientClose(c)

Next == AStep \/ BStep \/ Environment

Spec == Init /\ [][Next]_vars

(* A server that has something to do does it: each is a process that the   *)
(* operating system runs.  Nothing is assumed of the clients, of crashes,  *)
(* or of when the servers are started.                                     *)
FairSpec == Spec /\ WF_vars(AStep) /\ WF_vars(BStep)
-----------------------------------------------------------------------------
Pcs == {"off", "dead", "connect", "accept", "sync", "loop", "replicate",
        "stuck"} \cup HandshakePcs

TypeOK ==
    /\ pc \in [Servers -> Pcs]
    /\ primario \in [Servers -> BOOLEAN]
    /\ state \in [Servers -> {0, 1}]
    /\ store \in [Servers -> Tables \cup {NoTables}]
    /\ peer \in [Servers -> Servers \cup Clients \cup {None}]
    /\ pend \in [Servers -> {"A"} \cup Clients \cup {None}]
    /\ served \in [Servers -> SUBSET Clients]
    /\ ready \in [Servers -> SUBSET ({"listen", "server"} \cup Clients)]
    /\ cur \in Clients \cup {None}
    /\ wireReq \in WriteRequests \cup {Control(p) : p \in HandshakePcs} \cup {None}
    /\ wireRep \in Replies \cup {None}
    /\ at \in [Clients -> Servers \cup {None}]
    /\ open \in [Clients -> BOOLEAN]
    /\ req \in [Clients -> ClientRequests \cup {None}]
    /\ rep \in [Clients -> Replies \cup {None}]
    /\ crashes \in 0 .. MaxCrashes

HasTables(s) == store[s] # NoTables

(* A request on its way from A's tables to B's. *)
InFlight == pc["A"] = "replicate" /\ wireReq # None

(* As long as no client has reached B, B's tables are A's, but for the one *)
(* request that A has applied and B has not read yet: whenever A dies, B   *)
(* takes over with every write A has answered.                             *)
BackupInStep ==
    HasTables("A") /\ HasTables("B") /\ ~primario["B"] =>
        IF InFlight
        THEN /\ Accepted(store["B"], wireReq)
             /\ store["A"] = After(store["B"], wireReq)
        ELSE store["A"] = store["B"]

(* A does not read the result in B's answer, so B must never refuse what A *)
(* has accepted.                                                           *)
BackupNeverRefuses ==
    wireRep # None /\ ~primario["B"] => wireRep.ok

(* Where the two servers are in the protocol fits together, message by     *)
(* message, whoever has died in between and whatever the clients do.       *)
HandshakeInStep ==
    pc["A"] \in HandshakePcs /\ Alive("B") =>
        /\ state["A"] = 1 /\ peer["A"] = "B"
        /\ \/ peer["B"] = "A"
           \/ pend["B"] = "A" /\ pc["A"] = "ip_port" /\ wireReq # None
        /\ \/ /\ wireReq = Control(pc["A"]) /\ wireRep = None
              /\ pc["B"] \in {"accept", "sync"}
           \/ /\ wireReq = None /\ wireRep # None
              /\ pc["B"] = IF pc["A"] = "ack" THEN "loop" ELSE "sync"
        /\ HasTables("B") <=>
              \/ pc["A"] = "ack"
              \/ pc["A"] = "sz_tables" /\ wireRep # None

PairInStep ==
    pc["A"] \in {"loop", "replicate", "stuck"} =>
        /\ HasTables("B") => pc["A"] # "stuck" /\ pc["B"] = "loop"
        /\ HasTables("B") => state["A"] = 1 /\ peer = [A |-> "B", B |-> "A"]
        /\ wireReq # None => pc["A"] = "replicate" /\ wireReq \in WriteRequests
        /\ pc["A"] \in {"replicate", "stuck"} => state["A"] = 1
        /\ state["A"] = 1 => pc["B"] = "dead" \/ HasTables("B")

LifeInStep ==
    /\ HasTables("A") <=> Alive("A")
    /\ primario["A"] <=> pc["A"] # "off"
    /\ pc["A"] \notin {"accept", "sync"}
    /\ pc["B"] \in {"off", "accept", "sync", "loop", "dead"}
    /\ pc["B"] \in {"off", "accept", "dead"} => ~HasTables("B") /\ peer["B"] = None
    /\ pc["B"] = "loop" => HasTables("B")
    /\ pc["B"] \in {"off", "accept", "sync"} => ~primario["B"]
    /\ pend["B"] = "A" => pc["B"] \in {"accept", "sync"} /\ peer["B"] # "A"
    /\ pend["A"] # "A" /\ peer["A"] \in {"B", None}
    /\ pc["A"] \in {"off", "connect"} =>
          /\ wireReq = None /\ ~HasTables("B")
          /\ peer["B"] # "A" /\ pend["B"] # "A" /\ state["A"] = 0
    /\ pc["A"] \in {"connect"} \cup HandshakePcs => store["A"] = EmptyTables
    /\ pc["B"] = "sync" /\ HasTables("B") => store["B"] = EmptyTables
    /\ wireRep # None => wireReq = None /\ pc["A"] \in HandshakePcs \cup {"replicate"}
    /\ wireReq # None => Alive("B")
    /\ wireReq = Control("ack") => HasTables("B")
    /\ peer["A"] = "B" \/ pc["A"] \in HandshakePcs => pc["B"] # "off"
    /\ pc["A"] = "replicate" => cur \in Clients

(* What poll saw is still there when its turn comes. *)
SnapshotInStep ==
    /\ "server" \in ready["A"] => pc["B"] = "dead"
    /\ "server" \in ready["B"] => wireReq # None \/ pc["A"] = "dead"
    /\ pc["B"] # "loop" => ready["B"] = {}
    /\ \A s \in Servers : ready[s] \cap Clients \subseteq served[s]
    /\ served["B"] # {} => primario["B"]

ProtocolInStep == LifeInStep /\ SnapshotInStep /\ HandshakeInStep /\ PairInStep

(* A is never left waiting for B's answer: B answers, or dies and A sees   *)
(* it.                                                                     *)
ReplicationEnds == pc["A"] = "replicate" ~> pc["A"] # "replicate"

(* Every start-up ends: nobody waits for a message the other will not send.*)
(* It needs clients that leave B alone while A lives: B's accept takes the *)
(* first connection for the primary's.                                     *)
StartupEnds == pc["A"] \in HandshakePcs ~> pc["A"] \in {"loop", "dead"}

(* The death of the backup does not go unnoticed for ever, however busy    *)
(* the clients keep A: A marks it down and stops sending to it.            *)
BackupDeathNoticed ==
    pc["B"] = "dead" /\ state["A"] = 1 ~>
        state["A"] = 0 \/ pc["A"] \in {"dead", "stuck"}

(* No client starves: a request that reached a server in its loop is       *)
(* handled, whatever the other clients do.                                 *)
NoRequestStarves ==
    \A c \in Clients : \A s \in Servers :
        c \in served[s] /\ req[c] # None ~>
            req[c] = None \/ pc[s] = "stuck"

(* primary_backup-private.h:10 says of o_server->state "0 = DOWN; 1 = UP". *)
StateMeansUp ==
    \A s \in Servers :
        pc[s] = "loop" /\ peer[s] = Other(s) /\ pc[Other(s)] = "loop" =>
            state[s] = 1

(* network_receive_send (table-server.c:141) receives a request, applies   *)
(* it and sends the answer.                                                *)
EveryRequestAnswered ==
    \A c \in Clients : \A s \in Servers :
        c \in served[s] /\ req[c] # None ~> rep[c] # None
-----------------------------------------------------------------------------
(* The two servers as the one map of ReplicatedMap.  A request counts as   *)
(* executed when B has applied it, or A when there is no B; one that A     *)
(* sent before it died is still to be executed.                            *)
Orphan == pc["A"] = "dead" /\ wireReq # None /\ wireReq.op \in {"put", "update"}

LogicalMap ==
    IF HasTables("A") /\ ~InFlight THEN store["A"]
    ELSE IF HasTables("B") THEN store["B"]
    ELSE EmptyTables

PendingRequests ==
    [c \in Clients |-> IF Orphan /\ c = cur THEN wireReq ELSE req[c]]

Executed ==
    [c \in Clients |->
        IF pc["A"] \in {"replicate", "stuck"} /\ ~InFlight /\ c = cur
        THEN Reply(TRUE, NoValue, 0)
        ELSE None]

Service == INSTANCE ReplicatedMap WITH
    map <- LogicalMap,
    copies <- Cardinality({s \in Servers : HasTables(s)}),
    req <- PendingRequests,
    done <- Executed,
    rep <- rep

(* To clients that turn to B only when A is dead, the two servers are one  *)
(* map that survives the death of either: no write that was answered is    *)
(* lost, no request is executed twice, no read goes back in time.          *)
IsReplicatedMap == Service!Spec
=============================================================================
