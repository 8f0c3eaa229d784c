----------------------------- MODULE ServerLoop -----------------------------
(***************************************************************************)
(* What the loop of main() in src/source/table-server.c (lines 575-666)    *)
(* promises its clients, without the array it keeps them in: a bounded set *)
(* of clients is served, the events of one poll are handled before the     *)
(* next, only connections that are dead are closed, and each step that     *)
(* closes some may put off one other client to the next poll.  It is the   *)
(* loop PrimaryBackup gives each of its servers.                           *)
(***************************************************************************)
EXTENDS FiniteSets, Naturals

CONSTANTS
    Clients,    \* clients; one may connect again when its connection ended
    MaxServed   \* SOCKETS_NUMBER - 3

VARIABLES
    pending,    \* the clients the kernel holds for accept
    room,       \* for how many clients the server has room
    served,     \* the clients the server holds a connection of
    ready,      \* the events of the last poll that are not handled yet
    link,       \* the other end: "off", "up", "closed" or "reset"
    req,        \* has the connection a request that is not read yet?
    ended       \* has the server left its loop?

vars == <<pending, room, served, ready, link, req, ended>>

Own == {"listen", "server", "stdin"}

Init ==
    /\ pending = {} /\ room = MaxServed /\ served = {} /\ ready = {}
    /\ link = [c \in Clients |-> "off"]
    /\ req = [c \in Clients |-> FALSE]
    /\ ended = FALSE

Readable(c) == req[c] \/ link[c] \in {"closed", "reset"}

(* poll reports every client that has something to be read, and any of the *)
(* server's own descriptors.                                               *)
Poll ==
    /\ ~ended /\ ready = {}
    /\ \E own \in SUBSET Own :
            ready' = own \cup {c \in served : Readable(c)}
    /\ ready' # {}
    /\ UNCHANGED <<pending, room, served, link, req, ended>>

Accept(c) ==
    /\ "listen" \in ready /\ c \in pending
    /\ Cardinality(served) < room
    /\ pending' = pending \ {c}
    /\ served' = served \cup {c}
    /\ ready' = ready \ {"listen"}
    /\ UNCHANGED <<room, link, req, ended>>

(* One of the server's own events is handled, or, with the server full,    *)
(* the one of its listening socket put off.  When stdin hangs up, a client *)
(* moves into its slot, which leaves room for another, and the loop steps  *)
(* over the one that has moved.                                            *)
HandleOwn ==
    /\ \E e \in ready \cap Own :
            /\ e = "listen" => Cardinality(served) >= room
            /\ \/ ready' = ready \ {e} /\ UNCHANGED room
               \/ /\ e = "stdin" /\ room' = room + 1
                  /\ \E passed \in ready \cup {"nobody"} : ready' = ready \ {e, passed}
    /\ UNCHANGED <<pending, served, link, req, ended>>

(* A client in the slot of stdin is taken for stdin: it is put off. *)
PutOff(c) ==
    /\ "listen" \notin ready
    /\ c \in ready \cap served
    /\ ready' = ready \ {c}
    /\ UNCHANGED <<pending, room, served, link, req, ended>>

Answer(c) ==
    /\ "listen" \notin ready
    /\ c \in ready \cap served
    /\ req[c]
    /\ req' = [req EXCEPT ![c] = FALSE]
    /\ ready' = ready \ {c}
    /\ UNCHANGED <<pending, room, served, link, ended>>

(* The clients of gone are dead: their connections are closed, and one     *)
(* other may be passed over until the next poll.                           *)
Close(gone) ==
    /\ "listen" \notin ready
    /\ gone # {} /\ gone \subseteq served
    /\ gone \cap ready # {}
    /\ \A c \in gone : link[c] \in {"closed", "reset"}
    /\ \E passed \in ready \cup {"nobody"} : ready' = ready \ (gone \cup {passed})
    /\ served' = served \ gone
    /\ link' = [c \in Clients |-> IF c \in gone THEN "off" ELSE link[c]]
    /\ req' = [c \in Clients |-> req[c] /\ c \notin gone]
    /\ UNCHANGED <<pending, room, ended>>

End ==
    /\ ~ended
    /\ ended' = TRUE
    /\ served' = {} /\ ready' = {} /\ pending' = {} /\ room' = MaxServed
    /\ link' = [c \in Clients |-> "off"]
    /\ req' = [c \in Clients |-> FALSE]

(* The clients connect, send one request at a time, and go.                *)
Connect(c) ==
    /\ ~ended /\ link[c] = "off"
    /\ link' = [link EXCEPT ![c] = "up"]
    /\ pending' = pending \cup {c}
    /\ UNCHANGED <<room, served, ready, req, ended>>

Send(c) ==
    /\ link[c] = "up" /\ ~req[c]
    /\ req' = [req EXCEPT ![c] = TRUE]
    /\ UNCHANGED <<pending, room, served, ready, link, ended>>

Leave(c) ==
    /\ \/ link[c] = "up" /\ \E l \in {"closed", "reset"} : link' = [link EXCEPT ![c] = l]
       \/ link[c] = "closed" /\ link' = [link EXCEPT ![c] = "reset"]
    /\ UNCHANGED <<pending, room, served, ready, req, ended>>

Next ==
    \/ Poll \/ HandleOwn \/ End
    \/ \E c \in Clients : Accept(c) \/ PutOff(c) \/ Answer(c)
    \/ \E c \in Clients : Connect(c) \/ Send(c) \/ Leave(c)
    \/ \E gone \in SUBSET Clients : Cardinality(gone) \in 1 .. 2 /\ Close(gone)

Spec == Init /\ [][Next]_vars
=============================================================================
