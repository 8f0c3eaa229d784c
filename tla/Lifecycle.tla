----------------------------- MODULE Lifecycle ------------------------------
(***************************************************************************)
(* How the two servers start, stop and start again: the branches of main   *)
(* of src/source/table-server.c on its arguments and on the files ip_1 and *)
(* ip_2, which a crash leaves behind and file_remove deletes.  "A" is      *)
(* started with an address and sizes of tables, "B" with a port only; each *)
(* has a directory of its own.                                             *)
(*                                                                         *)
(* An exchange between the servers is a step or two here; PrimaryBackup    *)
(* and Recovery have it in detail.  This module has who waits for whom,    *)
(* and what becomes of the tables.                                         *)
(***************************************************************************)
EXTENDS Integers

CONSTANTS
    SOCKETS_NUMBER, \* the slots of the loop, three of them not for clients
    MaxRestarts     \* bound on the starts of servers after the first two

FirstClient == 3

ASSUME LifecycleAssumption ==
    /\ SOCKETS_NUMBER \in Nat /\ SOCKETS_NUMBER > FirstClient
    /\ MaxRestarts \in Nat

Servers == {"A", "B"}
Other(s) == IF s = "A" THEN "B" ELSE "A"

FILE_PATH_1 == "ip_1"
FILE_PATH_2 == "ip_2"

(* The file each server creates, and needs to recover. *)
OwnFile(s) == IF s = "A" THEN FILE_PATH_1 ELSE FILE_PATH_2

VARIABLES
    pos,            \* where main is: "off"; "primary", "handshake"; "secondary",
                    \* "acked"; "recovery", "update"; "loop"; "transfer" while it
                    \* answers a HELLO; "stuck" in the loop around write_all
    primario,       \* the global of that name
    lista_tabelas,  \* has the server made that list?
    files,          \* the files in the directory of each server
    store,          \* its tables: "none", "empty" or "data"
    conn,           \* the connection a server uses to reach the other one:
                    \* "none", "queued" for accept, "accepted" or "broken"
    clients,        \* how many slots of each server clients have taken
    link,           \* the other server's end of the slot it has in the loop of
                    \* this one: "none" if it has no slot, "open" or "closed"
    peer,           \* whom B has accepted as its primary: "nobody", "A",
                    \* "client", or "gone" when the other end is closed
    quitted,        \* the servers that were told to quit, at any time
    starts

fileVars == <<lista_tabelas, files, quitted, starts>>
slotVars == <<clients, link>>
vars == <<pos, primario, store, conn, slotVars, peer, fileVars>>

(* The directories may have files of earlier lives, in either role.        *)
Init ==
    /\ pos = [s \in Servers |-> "off"]
    /\ primario = [s \in Servers |-> FALSE]
    /\ lista_tabelas = [s \in Servers |-> FALSE]
    /\ files \in [Servers -> SUBSET {FILE_PATH_1, FILE_PATH_2}]
    /\ store = [s \in Servers |-> "none"]
    /\ conn = [s \in Servers |-> "none"]
    /\ clients = [s \in Servers |-> 0] /\ link = [s \in Servers |-> "none"]
    /\ peer = "nobody" /\ quitted = {} /\ starts = 0

(* The listening socket is there from the start, so a connect succeeds.    *)
Listens(s) == pos[s] # "off"

Goto(s, p) == pos' = [pos EXCEPT ![s] = p]

(* s is in its loop, and has dropped or kept for good its connection.      *)
Enters(s) == Goto(s, "loop") /\ conn' = [conn EXCEPT ![s] = "none"]

nSockets(s) == FirstClient + clients[s] + (IF link[s] = "none" THEN 0 ELSE 1)

(* The loop accepts when it has a slot left. *)
accepts(s) == pos[s] = "loop" /\ nSockets(s) < SOCKETS_NUMBER

(* A server that does not come to accept: it waits for the other one, is   *)
(* in an exchange with it, is caught in write_all, serves a client that    *)
(* came before A as its primary, or has given clients all its slots.       *)
Busy(s) ==
    \/ pos[s] \in {"handshake", "update", "transfer", "stuck"}
    \/ pos[s] = "secondary" /\ peer = "client"
    \/ pos[s] = "loop" /\ FirstClient + clients[s] = SOCKETS_NUMBER

(* server_connect.  The queue of accept has room for one connection; if a  *)
(* client has that place for good, connect gives up.                       *)
Connects(s, p) ==
    \/ Listens(Other(s)) /\ Goto(s, p) /\ conn' = [conn EXCEPT ![s] = "queued"]
    \/ (Listens(Other(s)) => Busy(Other(s))) /\ Enters(s)

(* The end of a process, orderly or not: the other one will find its own   *)
(* connection broken, also if it is still to be accepted, and the slot it  *)
(* has given this one closed.                                              *)
Ends(s) ==
    LET o == Other(s) IN
    /\ Goto(s, "off")
    /\ store' = [store EXCEPT ![s] = "none"]
    /\ conn' = [conn EXCEPT ![s] = "none",
                            ![o] = IF @ = "none" THEN "none" ELSE "broken"]
    /\ clients' = [clients EXCEPT ![s] = 0]
    /\ link' = [link EXCEPT ![s] = "none",
                            ![o] = IF @ = "none" THEN "none" ELSE "closed"]
    /\ peer' = IF s = "B" THEN "nobody"
               ELSE IF pos[o] = "secondary"
                       /\ (peer = "A" \/ (peer = "nobody" /\ conn[s] = "queued"))
               THEN "gone" ELSE peer
-----------------------------------------------------------------------------
(* Slip: only the file of a secondary is looked for. *)
fl_exist_one(s) == FILE_PATH_2 \in files[s]

fl_exist(s) == FILE_PATH_1 \in files[s] \/ FILE_PATH_2 \in files[s]

Start(s) ==
    /\ pos[s] = "off"
    /\ starts < MaxRestarts + 2 /\ starts' = starts + 1
    /\ primario' = [primario EXCEPT ![s] = s = "A" /\ ~fl_exist(s)]
    /\ lista_tabelas' = [lista_tabelas EXCEPT ![s] = FALSE]
    /\ Goto(s, IF fl_exist(s) THEN "recovery"
               ELSE IF s = "A" THEN "primary" ELSE "secondary")
    /\ UNCHANGED <<files, store, conn, slotVars, peer, quitted>>

(* A without files: its file, its tables, and the connection to B. *)
StartPrimary ==
    /\ pos["A"] = "primary"
    /\ files' = [files EXCEPT !["A"] = @ \cup {FILE_PATH_1}]
    /\ lista_tabelas' = [lista_tabelas EXCEPT !["A"] = TRUE]
    /\ store' = [store EXCEPT !["A"] = "empty"]
    /\ Connects("A", "handshake")
    /\ UNCHANGED <<primario, slotVars, peer, quitted, starts>>

(* B without files waits in accept, and takes whoever comes first for A. *)
AcceptPeer(p) ==
    /\ pos["B"] = "secondary" /\ peer = "nobody"
    /\ \/ p = "client" /\ conn["A"] # "queued" /\ UNCHANGED conn
       \/ p = "A" /\ conn["A"] = "queued" /\ conn' = [conn EXCEPT !["A"] = "accepted"]
    /\ peer' = p
    /\ UNCHANGED <<pos, primario, store, slotVars, fileVars>>

ClientLeaves ==
    /\ peer = "client"
    /\ peer' = "gone"
    /\ UNCHANGED <<pos, primario, store, conn, slotVars, fileVars>>

(* IP_PORT, SZ_TABLES and ACK. *)
Handshake ==
    /\ pos["A"] = "handshake" /\ peer = "A"
    /\ pos' = [pos EXCEPT !["A"] = "loop", !["B"] = "acked"]
    /\ store' = [store EXCEPT !["B"] = "empty"]
    /\ conn' = [conn EXCEPT !["A"] = "none"]
    /\ peer' = "nobody"
    /\ UNCHANGED <<primario, slotVars, fileVars>>

(* Slip: B goes on without a file. *)
CreateNoFile ==
    /\ pos["B"] = "acked"
    /\ Enters("B")
    /\ UNCHANGED <<primario, store, slotVars, peer, fileVars>>

(* B has answered the ack, and writes its file. *)
CreateFile ==
    /\ pos["B"] = "acked"
    /\ files' = [files EXCEPT !["B"] = @ \cup {FILE_PATH_2}]
    /\ Enters("B")
    /\ UNCHANGED <<primario, lista_tabelas, store, slotVars, peer, quitted, starts>>

(* The peer is gone: B ends. *)
SyncFails ==
    /\ pos["B"] = "secondary" /\ peer = "gone"
    /\ Ends("B")
    /\ files' = [files EXCEPT !["B"] = @ \ {FILE_PATH_2}]
    /\ UNCHANGED <<primario, lista_tabelas, quitted, starts>>

(* B is gone: A goes on alone, or a message freed twice ends it. *)
HandshakeFails ==
    /\ pos["A"] = "handshake" /\ conn["A"] = "broken"
    /\ \/ Enters("A") /\ UNCHANGED <<store, slotVars, peer>>
       \/ Ends("A")
    /\ UNCHANGED <<primario, fileVars>>

(* B is in its loop: when it has a slot it accepts A as a client, which    *)
(* promotes it, and invokes what A sends.  A takes the greeting for a      *)
(* length, which makes its first call fail, with a message freed twice.    *)
(* If it lives it sends the sizes of its tables and an ack, which B stores *)
(* through a NULL pointer unless it has heard a HELLO.                     *)
HandshakeWithLoop ==
    /\ pos["A"] = "handshake" /\ conn["A"] = "queued" /\ accepts("B")
    /\ primario' = [primario EXCEPT !["B"] = TRUE]
    /\ \/ /\ Enters("A")
          /\ store' = [store EXCEPT !["B"] = "empty"]
          /\ link' = [link EXCEPT !["B"] = "open"]
          /\ UNCHANGED <<clients, peer>>
       \/ Ends("B")
       \/ Ends("A")
    /\ UNCHANGED fileVars
-----------------------------------------------------------------------------
(* The file may be that of the other role, and main ends. *)
OpenFails(s) ==
    /\ pos[s] = "recovery" /\ OwnFile(s) \notin files[s]
    /\ Ends(s)
    /\ UNCHANGED <<primario, fileVars>>

(* update_state: hello connects to the other server, ... *)
Hello(s) ==
    /\ pos[s] = "recovery" /\ OwnFile(s) \in files[s]
    /\ Connects(s, "update")
    /\ UNCHANGED <<primario, store, slotVars, peer, fileVars>>

(* ... which accepts it as a client, when it has a slot, and sends its     *)
(* tables.  A slot it gave an earlier life of the other server it closes   *)
(* in the same pass.                                                       *)
AnswerHello(s) ==
    LET o == Other(s) IN
    /\ accepts(s) /\ pos[o] = "update" /\ conn[o] = "queued"
    /\ Goto(s, "transfer")
    /\ conn' = [x \in Servers |-> "accepted"]
    /\ link' = [link EXCEPT ![s] = "open"]
    /\ primario' = [primario EXCEPT ![s] = TRUE]
    /\ UNCHANGED <<store, clients, peer, fileVars>>

(* All, some or nothing of it arrives, and either may die of it; or the    *)
(* servers get out of step, and this never happens.  The slot stays, or is *)
(* closed after an error.                                                  *)
Transfer(s) ==
    LET o == Other(s) IN
    /\ pos[s] = "transfer" /\ pos[o] = "update" /\ conn[o] = "accepted"
    /\ \/ /\ \E got \in {store[s], "empty", "none"} :
                store' = [store EXCEPT ![o] = got]
          /\ pos' = [x \in Servers |-> "loop"]
          /\ conn' = [x \in Servers |-> "none"]
          /\ \E l \in {"open", "none"} : link' = [link EXCEPT ![s] = l]
          /\ UNCHANGED <<clients, peer>>
       \/ Ends(s)
       \/ Ends(o)
    /\ UNCHANGED <<primario, fileVars>>

(* The server that asked is gone.  Its SIGPIPE ignored, s may be caught in *)
(* the loop around write_all.                                              *)
TransferFails(s) ==
    /\ pos[s] = "transfer" /\ conn[s] = "broken"
    /\ \/ Enters(s) /\ UNCHANGED <<store, slotVars, peer>>
       \/ Goto(s, "stuck") /\ UNCHANGED <<store, conn, slotVars, peer>>
       \/ Ends(s)
    /\ UNCHANGED <<primario, fileVars>>

(* A finds B waiting for a primary: it is sent no table, and B goes on     *)
(* waiting, or dies.                                                       *)
UpdateFromSecondary ==
    /\ pos["A"] = "update" /\ peer = "A"
    /\ \/ Enters("A") /\ UNCHANGED <<store, slotVars, peer>>
       \/ Ends("B")
    /\ UNCHANGED <<primario, fileVars>>

(* The other server is gone. *)
UpdateFails(s) ==
    /\ pos[s] = "update" /\ conn[s] = "broken"
    /\ \/ Enters(s) /\ UNCHANGED <<store, slotVars, peer>>
       \/ Ends(s)
    /\ UNCHANGED <<primario, fileVars>>
-----------------------------------------------------------------------------
(* The loop accepts a client, which promotes a secondary.  The other       *)
(* server, when it is in the queue, is the one it accepts.                 *)
AcceptClient(s) ==
    /\ accepts(s) /\ conn[Other(s)] # "queued"
    /\ clients' = [clients EXCEPT ![s] = @ + 1]
    /\ primario' = [primario EXCEPT ![s] = TRUE]
    /\ UNCHANGED <<pos, store, conn, link, peer, fileVars>>

(* The loop gives back the slot of a client that has left. *)
CloseClient(s) ==
    /\ pos[s] = "loop" /\ clients[s] > 0
    /\ clients' = [clients EXCEPT ![s] = @ - 1]
    /\ UNCHANGED <<pos, primario, store, conn, link, peer, fileVars>>

(* The other server, out of step, takes what it reads for a request it     *)
(* cannot serve, and closes its end.                                       *)
OtherCloses(s) ==
    /\ pos[Other(s)] = "loop" /\ link[s] = "open"
    /\ link' = [link EXCEPT ![s] = "closed"]
    /\ UNCHANGED <<pos, primario, store, conn, clients, peer, fileVars>>

(* Slip: a slot whose other end has closed is kept. *)
CloseOtherNever(s) == FALSE /\ UNCHANGED vars

(* The loop gives back the slot of the other server. *)
CloseOther(s) ==
    /\ pos[s] = "loop" /\ link[s] = "closed"
    /\ link' = [link EXCEPT ![s] = "none"]
    /\ UNCHANGED <<pos, primario, store, conn, clients, peer, fileVars>>

(* What a client stores may reach the other server. *)
ServeClient(s) ==
    /\ pos[s] = "loop" /\ clients[s] > 0
    /\ \E also \in {{}, {x \in {Other(s)} : pos[x] = "loop"}} :
          store' = [x \in Servers |->
                      IF x \in {s} \cup also /\ store[s] # "none" /\ store[x] # "none"
                      THEN "data" ELSE store[x]]
    /\ UNCHANGED <<pos, primario, conn, slotVars, peer, fileVars>>

(* file_remove goes by the role the server has now. *)
file_remove(s) ==
    files' = [files EXCEPT ![s] = @ \ {IF primario[s] THEN FILE_PATH_1 ELSE FILE_PATH_2}]

(* main frees the strings of lista_tabelas before it removes the file: an  *)
(* A that has recovered has no such list, and dies there.                  *)
Quit(s) ==
    /\ pos[s] = "loop"
    /\ Ends(s)
    /\ IF s = "A" /\ ~lista_tabelas[s] THEN UNCHANGED files ELSE file_remove(s)
    /\ quitted' = quitted \cup {s}
    /\ UNCHANGED <<primario, lista_tabelas, starts>>

Crash(s) ==
    /\ pos[s] # "off"
    /\ Ends(s)
    /\ UNCHANGED <<primario, fileVars>>
-----------------------------------------------------------------------------
AStep ==
    \/ StartPrimary \/ Handshake \/ HandshakeFails \/ HandshakeWithLoop
    \/ OpenFails("A") \/ Hello("A") \/ UpdateFromSecondary \/ UpdateFails("A")
    \/ AnswerHello("A") \/ TransferFails("A") \/ CloseOther("A")

BStep ==
    \/ AcceptPeer("A") \/ CreateFile \/ SyncFails
    \/ OpenFails("B") \/ Hello("B") \/ UpdateFails("B")
    \/ AnswerHello("B") \/ TransferFails("B") \/ CloseOther("B")

Environment ==
    \/ AcceptPeer("client") \/ ClientLeaves
    \/ \E s \in Servers :
          \/ Start(s) \/ Transfer(s) \/ OtherCloses(s) \/ Quit(s) \/ Crash(s)
          \/ AcceptClient(s) \/ CloseClient(s) \/ ServeClient(s)

Next == AStep \/ BStep \/ Environment

Spec == Init /\ [][Next]_vars

(* Both servers are processes that run; whether a transfer ends is left    *)
(* open, and clients come and go, or stay, as they like.                   *)
FairSpec == Spec /\ WF_vars(AStep) /\ WF_vars(BStep)
-----------------------------------------------------------------------------
TypeOK ==
    /\ pos \in [Servers -> {"off", "primary", "handshake", "secondary", "acked",
                            "recovery", "update", "loop", "transfer", "stuck"}]
    /\ primario \in [Servers -> BOOLEAN] /\ lista_tabelas \in [Servers -> BOOLEAN]
    /\ files \in [Servers -> SUBSET {FILE_PATH_1, FILE_PATH_2}]
    /\ store \in [Servers -> {"none", "empty", "data"}]
    /\ conn \in [Servers -> {"none", "queued", "accepted", "broken"}]
    /\ clients \in [Servers -> 0 .. SOCKETS_NUMBER - FirstClient]
    /\ link \in [Servers -> {"none", "open", "closed"}]
    /\ peer \in {"nobody", "A", "client", "gone"}
    /\ quitted \subseteq Servers /\ starts \in 0 .. MaxRestarts + 2

(* A server that serves has its file: if it crashes, its next start is a   *)
(* recovery, in the role its arguments give it (table-server.c:415, 503),  *)
(* although file_remove may delete the file of the other role.             *)
RunningHasFile ==
    \A s \in Servers :
        pos[s] \in {"loop", "transfer", "stuck"} => OwnFile(s) \in files[s]

KeepsData ==
    \A s \in Servers :
        pos[s] = "loop" /\ pos'[s] = "loop" /\ store[s] = "data" => store'[s] = "data"

(* Crashes and restarts do not make a server that goes on lose what        *)
(* clients have stored in it: tables are made once, before invoke is       *)
(* called (table-skel.c:16).  Only an A that was told to quit starts       *)
(* afresh, and makes the tables of the B that has taken over anew.         *)
WritesKept == [][quitted = {} => KeepsData]_vars

Waits(s) == pos[s] \in {"handshake", "update"}

(* A server that starts and waits for the other one goes on, with or       *)
(* without it, whoever dies, unless the other one is busy for good:        *)
(* update_state "Retorna 0 em caso de sucesso e -1 em caso de insucesso"   *)
(* (primary_backup.c:25).                                                  *)
WaitEnds == \A s \in Servers : Waits(s) ~> ~Waits(s) \/ []Busy(Other(s))
=============================================================================
