---------------------------- MODULE Connections -----------------------------
(***************************************************************************)
(* The array of struct pollfd in main() of src/source/table-server.c and   *)
(* the loop over it (lines 553-673): the client accepted last goes to      *)
(* connections[nSockets], poll looks at the first nSockets slots, the loop *)
(* at all of them, and shift closes the gap a departed client leaves.      *)
(* What a request does to the tables is PrimaryBackup's matter.            *)
(***************************************************************************)
EXTENDS Integers, FiniteSets

CONSTANTS
    Clients,        \* clients; one may connect again when its connection ended
    SOCKETS_NUMBER,
    OtherServer,    \* is the other server connected when the loop begins?
    Lines,          \* the commands that are typed: "quit", "print", "short"
    StdinHangsUp    \* may the server's stdin hang up (a pipe whose writer ends)?

LISTENING_SOCKET == 0
SERVER_SOCKET == 1
STDIN_SOCKET == 2
FirstClient == 3

(* Descriptors; -1 is NoFd.  One that accept returned is named after the   *)
(* client at the other end.                                                *)
NoFd == "none"
Own == {"listen", "server", "stdin"}
Peers == Clients \cup {"server"}
Fds == Own \cup Clients \cup {NoFd}

ASSUME ConnectionsAssumption ==
    /\ SOCKETS_NUMBER \in Nat /\ SOCKETS_NUMBER > FirstClient
    /\ Clients \cap (Own \cup {NoFd}) = {}
    /\ OtherServer \in BOOLEAN /\ StdinHangsUp \in BOOLEAN
    /\ Lines \subseteq {"quit", "print", "short"}

VARIABLES
    connections,    \* the array: fd and revents of each slot
    nSockets,
    i,              \* the slot the loop looks at; SOCKETS_NUMBER before poll
    pending,        \* the clients the kernel holds for accept
    link,           \* the other end: "off", "up", "closed" or "reset"
    req,            \* is there a request that is not read yet?
    command,        \* the line typed on stdin, or NoCommand
    ended           \* has the process ended?

serverVars == <<connections, nSockets, i>>
vars == <<serverVars, pending, link, req, command, ended>>

Slots == 0 .. SOCKETS_NUMBER - 1
Free == [fd |-> NoFd, revents |-> {}]
NoCommand == "nothing"
Commands == {"quit", "print", "short"}
-----------------------------------------------------------------------------
(* What read() and poll() find at a descriptor, or at the connection of a  *)
(* client or of the other server: the end of the stream is readable, and   *)
(* only a reset hangs up, for the server has not shut its own end.         *)
Readable(fd) ==
    \/ fd = "listen" /\ pending # {}
    \/ fd = "stdin" /\ command \in Commands
    \/ fd \in Peers /\ (req[fd] \/ link[fd] \in {"closed", "reset"})

HangsUp(fd) ==
    \/ fd = "stdin" /\ command = "hangup"
    \/ fd \in Peers /\ link[fd] = "reset"

Revents(fd) ==
    {e \in {"in"} : Readable(fd)} \cup {e \in {"hup"} : HangsUp(fd)}

FirstFd(j) ==
    IF j = LISTENING_SOCKET THEN "listen"
    ELSE IF j = SERVER_SOCKET /\ OtherServer THEN "server"
    ELSE IF j = STDIN_SOCKET THEN "stdin" ELSE NoFd

Init ==
    /\ connections = [j \in Slots |-> [fd |-> FirstFd(j), revents |-> {}]]
    /\ nSockets = 3
    /\ i = SOCKETS_NUMBER
    /\ pending = {}
    /\ link = [p \in Peers |-> IF p = "server" /\ OtherServer THEN "up" ELSE "off"]
    /\ req = [p \in Peers |-> FALSE]
    /\ command = NoCommand
    /\ ended = FALSE
-----------------------------------------------------------------------------
(* Slip: the events stay in the slot when its descriptor moves. *)
ShiftDescriptors(c, at) ==
    LET moves == {j \in at + 1 .. SOCKETS_NUMBER - 1 :
                    \A k \in at + 1 .. j : c[k].fd # NoFd}
    IN  [j \in Slots |->
            CASE j >= at /\ j + 1 \in moves -> [c[j] EXCEPT !.fd = c[j + 1].fd]
              [] j \in moves /\ j + 1 \notin moves -> [c[j] EXCEPT !.fd = NoFd]
              [] OTHER -> c[j]]

(* shift: the used slots above at, up to the first free one, move down by  *)
(* one, each with its events.                                              *)
Shift(c, at) ==
    LET moves == {j \in at + 1 .. SOCKETS_NUMBER - 1 :
                    \A k \in at + 1 .. j : c[k].fd # NoFd}
    IN  [j \in Slots |->
            CASE j >= at /\ j + 1 \in moves -> c[j + 1]
              [] j \in moves /\ j + 1 \notin moves -> Free
              [] OTHER -> c[j]]

(* Slip: the gap is left open. *)
ClosedUnshifted(c, at) == [c EXCEPT ![at] = Free]

(* What follows close(connections[at].fd), in both places. *)
Closed(c, at) ==
    LET closed == [c EXCEPT ![at] = Free]
    IN  IF at = SERVER_SOCKET THEN closed ELSE Shift(closed, at)

(* The second test of a slot's events, after the slot was read: by then    *)
(* another client may have moved into it.                                  *)
HungUp(c, at) == "hup" \in c[at].revents

(* The connections the server has closed between two states of the array:  *)
(* the other ends are told, what they had sent is lost.                    *)
Hold(c) == {c[j].fd : j \in Slots} \cap Peers

Disconnect(before, after) ==
    LET gone == Hold(before) \ Hold(after)
    IN  /\ link' = [p \in Peers |-> IF p \in gone THEN "off" ELSE link[p]]
        /\ req' = [p \in Peers |-> req[p] /\ p \notin gone]
-----------------------------------------------------------------------------
Polling == ~ended /\ i = SOCKETS_NUMBER

(* Slip: poll is given one slot less. *)
PollMissesLast ==
    /\ Polling
    /\ connections' = [j \in Slots |->
            IF j < nSockets - 1
            THEN [connections[j] EXCEPT !.revents = Revents(connections[j].fd)]
            ELSE connections[j]]
    /\ \E j \in Slots : j < nSockets - 1 /\ connections'[j].revents # {}
    /\ i' = LISTENING_SOCKET
    /\ UNCHANGED <<nSockets, pending, link, req, command, ended>>

(* poll(connections, nSockets, -1): it returns when there is an event, and *)
(* sets the events of the slots it was given.                              *)
Poll ==
    /\ Polling
    /\ connections' = [j \in Slots |->
            IF j < nSockets
            THEN [connections[j] EXCEPT !.revents = Revents(connections[j].fd)]
            ELSE connections[j]]
    /\ \E j \in Slots : j < nSockets /\ connections'[j].revents # {}
    /\ i' = LISTENING_SOCKET
    /\ UNCHANGED <<nSockets, pending, link, req, command, ended>>

At(slot) == ~ended /\ i = slot

(* Slip: a client is accepted without a look at the room for it. *)
ListenUnbounded ==
    /\ At(LISTENING_SOCKET)
    /\ IF "in" \in connections[i].revents
       THEN \E c \in pending :
               /\ connections' = [connections EXCEPT ![nSockets].fd = c]
               /\ nSockets' = nSockets + 1
               /\ pending' = pending \ {c}
       ELSE UNCHANGED <<connections, nSockets, pending>>
    /\ i' = SERVER_SOCKET
    /\ UNCHANGED <<link, req, command, ended>>

(* Slip: poll is called again as soon as a client was accepted. *)
ListenContinues ==
    /\ At(LISTENING_SOCKET)
    /\ IF "in" \in connections[i].revents /\ nSockets < SOCKETS_NUMBER
       THEN \E c \in pending :
               /\ connections' = [connections EXCEPT ![nSockets].fd = c]
               /\ nSockets' = nSockets + 1
               /\ pending' = pending \ {c}
               /\ i' = SOCKETS_NUMBER
       ELSE /\ i' = SERVER_SOCKET
            /\ UNCHANGED <<connections, nSockets, pending>>
    /\ UNCHANGED <<link, req, command, ended>>

(* accept, unless all slots are taken: then poll will report it again. *)
Listen ==
    /\ At(LISTENING_SOCKET)
    /\ IF "in" \in connections[i].revents /\ nSockets < SOCKETS_NUMBER
       THEN \E c \in pending :
               /\ connections' = [connections EXCEPT ![nSockets].fd = c]
               /\ nSockets' = nSockets + 1
               /\ pending' = pending \ {c}
       ELSE UNCHANGED <<connections, nSockets, pending>>
    /\ i' = SERVER_SOCKET
    /\ UNCHANGED <<link, req, command, ended>>

Pass ==
    /\ ~ended /\ i \in 1 .. SOCKETS_NUMBER - 1
    /\ connections[i].revents = {}
    /\ i' = i + 1
    /\ UNCHANGED <<connections, nSockets, pending, link, req, command, ended>>

(* Only a slot that poll has marked is read, and reading a connection that *)
(* has nothing to read would block the server: no action then.             *)
Reads(slot) ==
    /\ At(slot)
    /\ "in" \in connections[slot].revents
    /\ slot \notin {LISTENING_SOCKET, STDIN_SOCKET}
    /\ Readable(connections[slot].fd)

(* network_receive_send takes the request and answers it.  If the slot has *)
(* hung up, the answer is refused and the slot closed.                     *)
Answer(slot) ==
    LET fd == connections[slot].fd
    IN  /\ Reads(slot)
        /\ req[fd]
        /\ i' = i + 1
        /\ IF HungUp(connections, slot)
           THEN /\ connections' = Closed(connections, slot)
                /\ nSockets' = IF slot = SERVER_SOCKET THEN nSockets ELSE nSockets - 1
                /\ Disconnect(connections, connections')
           ELSE /\ req' = [req EXCEPT ![fd] = FALSE]
                /\ UNCHANGED <<connections, nSockets, link>>
        /\ UNCHANGED <<pending, command, ended>>

(* Slip: the slot that moved in is closed without a look at its events. *)
CloseDeadTwice(slot) ==
    LET c == Closed(connections, slot)
        second == slot > SERVER_SOCKET /\ c[slot].fd # NoFd
    IN  /\ Reads(slot)
        /\ ~req[connections[slot].fd]
        /\ i' = i + 1
        /\ connections' = IF second THEN Closed(c, slot) ELSE c
        /\ nSockets' = IF slot = SERVER_SOCKET THEN nSockets
                       ELSE IF second THEN nSockets - 2 ELSE nSockets - 1
        /\ Disconnect(connections, connections')
        /\ UNCHANGED <<pending, command, ended>>

(* network_receive_send returns -1: the stream has ended.  The slot is     *)
(* closed; the one that moved in is closed, too, if it has hung up; i      *)
(* steps over the one in the slot after that.                              *)
CloseDead(slot) ==
    LET c == Closed(connections, slot)
        second == HungUp(c, slot)
    IN  /\ Reads(slot)
        /\ ~req[connections[slot].fd]
        /\ i' = i + 1
        /\ connections' = IF second THEN Closed(c, slot) ELSE c
        /\ nSockets' = IF slot = SERVER_SOCKET THEN nSockets
                       ELSE IF second THEN nSockets - 2 ELSE nSockets - 1
        /\ Disconnect(connections, connections')
        /\ UNCHANGED <<pending, command, ended>>

(* The end of the process, by quit or otherwise: all its connections end.  *)
Terminate ==
    /\ ended' = TRUE
    /\ connections' = [j \in Slots |-> Free]
    /\ pending' = {}
    /\ link' = [p \in Peers |-> "off"]
    /\ req' = [p \in Peers |-> FALSE]
    /\ UNCHANGED nSockets

(* A line on stdin.  In a short one strtok finds no word, and strcasecmp   *)
(* or atoi gets NULL.  When it is a client that has moved into the slot,   *)
(* descriptor 0 is closed: fgets has nothing to read and leaves the buffer *)
(* uninitialised, which may hold any command.  If accept has given 0 to a  *)
(* later client, fgets reads its bytes: it blocks, which is a stutter of   *)
(* Spec, or finds a request, which starts with the byte 0 of its length    *)
(* and has no word, as a short line; at the end of it nothing is read.     *)
Command ==
    /\ At(STDIN_SOCKET)
    /\ "in" \in connections[i].revents
    /\ LET typed == connections[i].fd = "stdin"
       IN  /\ \E line \in IF typed THEN {command} ELSE Commands :
                 \/ line \in {"quit", "short"} /\ Terminate
                 \/ /\ line = "print"
                    /\ IF HungUp(connections, i)
                       THEN /\ connections' = Closed(connections, i)
                            /\ nSockets' = nSockets - 1
                            /\ Disconnect(connections, connections')
                       ELSE UNCHANGED <<connections, nSockets, link, req>>
                    /\ UNCHANGED <<pending, ended>>
           /\ command' = IF typed THEN NoCommand ELSE command
    /\ i' = i + 1

(* A slot that hangs up with nothing to read: stdin. *)
HangUp ==
    /\ ~ended /\ i \in 1 .. SOCKETS_NUMBER - 1
    /\ connections[i].revents = {"hup"}
    /\ connections' = Closed(connections, i)
    /\ nSockets' = IF i = SERVER_SOCKET THEN nSockets ELSE nSockets - 1
    /\ i' = i + 1
    /\ Disconnect(connections, connections')
    /\ UNCHANGED <<pending, command, ended>>
-----------------------------------------------------------------------------
(* The other ends, and the user of the server.  listen() has a backlog of  *)
(* 0: the kernel holds one connection.                                     *)
Connect(c) ==
    /\ ~ended /\ link[c] = "off" /\ pending = {}
    /\ link' = [link EXCEPT ![c] = "up"]
    /\ pending' = {c}
    /\ UNCHANGED <<serverVars, req, command, ended>>

Send(p) ==
    /\ link[p] = "up" /\ ~req[p]
    /\ req' = [req EXCEPT ![p] = TRUE]
    /\ UNCHANGED <<serverVars, pending, link, command, ended>>

(* A peer that ends its connection sends a FIN, or a reset when it had not *)
(* read everything; what a FIN has ended may be reset later.               *)
Leave(p) ==
    /\ \/ link[p] = "up" /\ \E l \in {"closed", "reset"} : link' = [link EXCEPT ![p] = l]
       \/ link[p] = "closed" /\ link' = [link EXCEPT ![p] = "reset"]
    /\ UNCHANGED <<serverVars, pending, req, command, ended>>

TypeCommand ==
    /\ command = NoCommand
    /\ \/ command' \in Lines
       \/ StdinHangsUp /\ command' = "hangup"
    /\ UNCHANGED <<serverVars, pending, link, req, ended>>
-----------------------------------------------------------------------------
ServerStep ==
    \/ Poll \/ Listen \/ Pass \/ Command \/ HangUp
    \/ \E slot \in Slots : Answer(slot) \/ CloseDead(slot)

Environment ==
    \/ \E c \in Clients : Connect(c)
    \/ \E p \in Peers : Send(p) \/ Leave(p)
    \/ TypeCommand

Next == ServerStep \/ Environment

Spec == Init /\ [][Next]_vars

(* The server is a process that the operating system runs; nothing is      *)
(* assumed of the clients.                                                 *)
FairSpec == Spec /\ WF_vars(ServerStep)
-----------------------------------------------------------------------------
Events == {"in", "hup"}

TypeOK ==
    /\ connections \in [Slots -> [fd : Fds, revents : SUBSET Events]]
    /\ nSockets \in 2 .. SOCKETS_NUMBER
    /\ i \in 0 .. SOCKETS_NUMBER
    /\ pending \in SUBSET Clients
    /\ link \in [Peers -> {"off", "up", "closed", "reset"}]
    /\ req \in [Peers -> BOOLEAN]
    /\ command \in Commands \cup {NoCommand, "hangup"}
    /\ ended \in BOOLEAN

Fd(j) == connections[j].fd

(* As long as stdin has not hung up. *)
StdinInPlace == Fd(STDIN_SOCKET) = "stdin"

(* The clients are in the slots from 3 to nSockets - 1, without a gap and  *)
(* without a repetition, in spite of shift and of the count kept by hand;  *)
(* the slots above are free and hold no event of a former client, which    *)
(* the loop, that goes on to SOCKETS_NUMBER, would take for one of the     *)
(* client accepted last.  If stdin hangs up its slot is closed like that of *)
(* a client, and shift moves a client there, for ever.                     *)
Compact ==
    ~ended /\ StdinInPlace =>
        /\ Fd(LISTENING_SOCKET) = "listen"
        /\ Fd(SERVER_SOCKET) \in {"server", NoFd}
        /\ \A j \in FirstClient .. nSockets - 1 : Fd(j) \in Clients
        /\ \A j, k \in FirstClient .. nSockets - 1 : Fd(j) = Fd(k) => j = k
        /\ \A j \in nSockets .. SOCKETS_NUMBER - 1 : connections[j] = Free

(* Every connection the server has accepted and not closed is in a slot:   *)
(* no client is lost in the array, no descriptor leaks.                    *)
EveryClientHasASlot ==
    \A c \in Clients :
        link[c] # "off" /\ c \notin pending =>
            \E j \in Slots : j < nSockets /\ Fd(j) = c

(* An event that is still to be handled belongs to the descriptor in its   *)
(* slot, wherever shift has taken both: no slot is read that has nothing   *)
(* to read, which would block the server, and none is closed as hung up    *)
(* that has not.                                                           *)
EventsTravel ==
    \A j \in Slots : j >= i =>
        /\ "in" \in connections[j].revents => Readable(Fd(j))
        /\ "hup" \in connections[j].revents => HangsUp(Fd(j))

ClosesOnlyDead ==
    ~ended' => \A c \in Clients :
        c \in Hold(connections) \ Hold(connections') => link[c] \in {"closed", "reset"}

(* The server closes a connection only when the client has ended it,       *)
(* although a slot's events are tested again after another client may have *)
(* moved into it.                                                          *)
OnlyDeadClosed == [][ClosesOnlyDead]_vars

(* What a client sends is read and answered, and a connection it has ended *)
(* is closed, although each round of the loop may pass over a slot and     *)
(* clients come and go for ever (network_receive_send receives a request   *)
(* and sends the answer, table-server.c:142-148).  A client that has moved *)
(* into the slot of a stdin that has hung up is never read.                *)
NoClientStarves ==
    \A c \in Clients :
        c \in Hold(connections) /\ Readable(c) ~> ~Readable(c) \/ ~StdinInPlace
-----------------------------------------------------------------------------
(* The array as sets.  The slot of a stdin that has hung up is one more    *)
(* for a client.                                                           *)
Room == SOCKETS_NUMBER - IF StdinInPlace \/ ended THEN FirstClient ELSE STDIN_SOCKET
Served == Hold(connections) \ {"server"}
Ready == {Fd(j) : j \in {k \in Slots : k >= i /\ connections[k].revents # {}}}
ClientLink == [c \in Clients |-> link[c]]
ClientReq == [c \in Clients |-> req[c]]

Loop == INSTANCE ServerLoop WITH
    MaxServed <- SOCKETS_NUMBER - FirstClient,
    room <- Room, served <- Served, ready <- Ready,
    link <- ClientLink, req <- ClientReq

(* The loop over the array does what ServerLoop says of sets of clients.   *)
IsServerLoop == Loop!Spec
=============================================================================
