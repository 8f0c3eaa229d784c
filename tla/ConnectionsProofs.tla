------------------------- MODULE ConnectionsProofs --------------------------
(***************************************************************************)
(* That the array of connections stays compact, loses no client, and that  *)
(* only dead connections are closed, for any number of slots and clients,  *)
(* also when stdin hangs up and a client moves into its slot; and that the *)
(* loop over the array implements ServerLoop, a loop over sets of clients. *)
(***************************************************************************)
EXTENDS Connections, FiniteSetTheorems, TLAPS

Slot == [fd : Fds, revents : SUBSET Events]

(* The first slot for clients: when stdin has hung up, its slot is one.    *)
Base(c) == IF c[STDIN_SOCKET].fd = "stdin" THEN FirstClient ELSE STDIN_SOCKET

(* Compact, said of any array c of which n slots are used. *)
CompactArray(c, n) ==
    /\ c \in [Slots -> Slot]
    /\ n \in Base(c) .. SOCKETS_NUMBER
    /\ c[LISTENING_SOCKET].fd = "listen"
    /\ c[SERVER_SOCKET].fd \in {"server", NoFd}
    /\ \A j \in Base(c) .. n - 1 : c[j].fd \in Clients
    /\ \A j, k \in Base(c) .. n - 1 : c[j].fd = c[k].fd => j = k
    /\ \A j \in n .. SOCKETS_NUMBER - 1 : c[j] = Free

(* A client is off when the server has neither accepted it nor will. *)
LinksInStep ==
    /\ pending \cap Hold(connections) = {}
    /\ \A c \in Clients :
          link[c] = "off" <=> c \notin pending /\ c \notin Hold(connections)

(* The inductive invariant.  Events are right only if the descriptors are  *)
(* in order, and a descriptor is accepted only once because the link of    *)
(* its client says so.                                                     *)
IInv ==
    /\ TypeOK
    /\ ~ended => CompactArray(connections, nSockets)
    /\ ended => connections = [j \in Slots |-> Free]
    /\ LinksInStep
    /\ EventsTravel

LEMMA Constants ==
    /\ SOCKETS_NUMBER \in Nat /\ SOCKETS_NUMBER > 3
    /\ Slots = 0 .. SOCKETS_NUMBER - 1
    /\ "listen" \notin Peers /\ "stdin" \notin Peers /\ NoFd \notin Peers
    /\ "server" \in Peers /\ "server" \notin Clients
    /\ Peers = Clients \cup {"server"}
    /\ Fds = Peers \cup {"listen", "stdin", NoFd}
    /\ Free \in Slot
BY ConnectionsAssumption
   DEF FirstClient, Slots, Peers, Own, NoFd, Fds, Free, Slot

(* What is in the slots of a compact array. *)
LEMMA SlotKinds ==
    ASSUME NEW c, NEW n, CompactArray(c, n)
    PROVE  /\ n \in Nat /\ n >= 2 /\ n <= SOCKETS_NUMBER /\ Base(c) \in {2, 3}
           /\ Base(c) <= n
           /\ Base(c) = 3 <=> c[2].fd = "stdin"
           /\ 0 \in Slots /\ 1 \in Slots /\ 2 \in Slots
           /\ \A j \in Slots : j \in Nat /\ c[j] \in Slot
           /\ c[0].fd = "listen" /\ c[1].fd \in {"server", NoFd}
           /\ \A j \in Slots : j >= Base(c) /\ j < n => c[j].fd \in Clients
           /\ \A j \in Slots : j >= n => c[j] = Free
           /\ \A j \in Slots :
                 \/ j = 0 \/ j = 1 \/ (j = 2 /\ c[j].fd = "stdin")
                 \/ (j >= Base(c) /\ j < n) \/ j >= n
<1> USE DEF LISTENING_SOCKET, SERVER_SOCKET, STDIN_SOCKET, FirstClient
<1>1. Base(c) \in {2, 3} /\ (Base(c) = 3 <=> c[2].fd = "stdin")
    BY DEF Base
<1>2. n \in Nat /\ n >= 2 /\ n <= SOCKETS_NUMBER /\ Base(c) <= n
    BY <1>1, Constants DEF CompactArray
<1>3. 0 \in Slots /\ 1 \in Slots /\ 2 \in Slots
    BY Constants
<1>4. \A j \in Slots : j \in Nat /\ c[j] \in Slot
    BY Constants DEF CompactArray
<1>5. \A j \in Slots : j >= Base(c) /\ j < n => c[j].fd \in Clients
    BY <1>1, <1>2, Constants DEF CompactArray
<1>6. \A j \in Slots : j >= n => c[j] = Free
    BY <1>2, Constants DEF CompactArray
<1>7. \A j \in Slots :
          \/ j = 0 \/ j = 1 \/ (j = 2 /\ c[j].fd = "stdin")
          \/ (j >= Base(c) /\ j < n) \/ j >= n
    BY <1>1, <1>2, Constants
<1>8. QED
    BY <1>1, <1>2, <1>3, <1>4, <1>5, <1>6, <1>7 DEF CompactArray

-----------------------------------------------------------------------------
(* What closing a slot does to a compact array.                            *)

(* shift moves all used slots above the gap, and nothing else. *)
LEMMA ClosedClient ==
    ASSUME NEW c, NEW n, CompactArray(c, n), NEW at \in STDIN_SOCKET .. n - 1
    PROVE  Closed(c, at) =
               [j \in Slots |-> IF j < at THEN c[j]
                                ELSE IF j < n - 1 THEN c[j + 1] ELSE Free]
<1> DEFINE d == [c EXCEPT ![at] = Free]
           moves == {j \in at + 1 .. SOCKETS_NUMBER - 1 :
                        \A k \in at + 1 .. j : d[k].fd # NoFd}
<1>1. /\ at \in Nat /\ n \in Nat /\ at >= 2 /\ at < n /\ n <= SOCKETS_NUMBER
      /\ SOCKETS_NUMBER \in Nat
    BY Constants, SlotKinds DEF STDIN_SOCKET
<1>2. \A k \in at + 1 .. n - 1 : d[k].fd # NoFd
    <2> TAKE k \in at + 1 .. n - 1
    <2>1. k \in Slots /\ k # at /\ k >= 3 /\ k < n
        BY <1>1, Constants
    <2>2. c[k].fd \in Clients /\ c \in [Slots -> Slot]
        BY <2>1, SlotKinds DEF CompactArray
    <2>3. QED
        BY <2>1, <2>2, Constants
<1>3. \A k \in n .. SOCKETS_NUMBER - 1 : d[k].fd = NoFd
    BY <1>1, Constants DEF CompactArray, Slots, Free
<1>4. moves = at + 1 .. n - 1
    <2>1. ASSUME NEW j \in moves, j >= n PROVE FALSE
        <3>1. n \in at + 1 .. j /\ n \in n .. SOCKETS_NUMBER - 1
            BY <1>1, <2>1
        <3>2. QED
            BY <1>3, <2>1, <3>1
    <2>2. moves \subseteq at + 1 .. n - 1
        BY <1>1, <2>1
    <2>3. at + 1 .. n - 1 \subseteq moves
        BY <1>1, <1>2
    <2>4. QED
        BY <2>2, <2>3
<1>5. Closed(c, at) =
          [j \in Slots |->
              CASE j >= at /\ j + 1 \in moves -> d[j + 1]
                [] j \in moves /\ j + 1 \notin moves -> Free
                [] OTHER -> d[j]]
    BY <1>1 DEF Closed, Shift, SERVER_SOCKET
<1>6. ASSUME NEW j \in Slots
      PROVE  (CASE j >= at /\ j + 1 \in moves -> d[j + 1]
                [] j \in moves /\ j + 1 \notin moves -> Free
                [] OTHER -> d[j])
             = (IF j < at THEN c[j] ELSE IF j < n - 1 THEN c[j + 1] ELSE Free)
    <2> HIDE DEF moves
    <2>1. j \in 0 .. SOCKETS_NUMBER - 1 /\ c \in [Slots -> Slot]
        BY Constants DEF CompactArray
    <2>2. CASE j < at
        BY <1>1, <1>4, <2>1, <2>2
    <2>3. CASE j >= at /\ j < n - 1
        BY <1>1, <1>4, <2>1, <2>3 DEF Slots
    <2>4. CASE j = n - 1
        BY <1>1, <1>4, <2>1, <2>4 DEF Slots
    <2>5. CASE j >= n
        <3>1. c[j] = Free /\ j # at
            BY <1>1, <2>1, <2>5 DEF CompactArray
        <3>2. QED
            BY <1>1, <1>4, <2>1, <2>5, <3>1
    <2>6. QED
        BY <1>1, <2>1, <2>2, <2>3, <2>4, <2>5
<1>7. QED
    BY <1>5, <1>6

LEMMA ClosedStaysCompact ==
    ASSUME NEW c, NEW n, CompactArray(c, n), NEW at \in STDIN_SOCKET .. n - 1
    PROVE  /\ CompactArray(Closed(c, at), n - 1)
           /\ Base(Closed(c, at)) = IF at = STDIN_SOCKET THEN STDIN_SOCKET ELSE Base(c)
           /\ Hold(Closed(c, at)) = Hold(c) \ {c[at].fd}
           /\ c[at].fd \in Clients \cup {"stdin"}
           /\ \A j \in Slots : j >= at =>
                 \/ Closed(c, at)[j] = Free
                 \/ j + 1 \in Slots /\ Closed(c, at)[j] = c[j + 1]
<1> DEFINE d == Closed(c, at)
<1>1. /\ at \in Nat /\ n \in Nat /\ at >= 2 /\ at < n /\ n <= SOCKETS_NUMBER
      /\ SOCKETS_NUMBER \in Nat /\ at \in Slots
    BY Constants, SlotKinds DEF STDIN_SOCKET
<1>2. d = [j \in Slots |-> IF j < at THEN c[j]
                           ELSE IF j < n - 1 THEN c[j + 1] ELSE Free]
    BY ClosedClient
<1> HIDE DEF d
<1>3. c \in [Slots -> Slot] /\ c[at].fd \in Clients \cup {"stdin"}
    BY <1>1, SlotKinds DEF CompactArray
<1>4. \A j \in Slots : j < at => d[j] = c[j]
    BY <1>2
<1>5. \A j \in Slots : at <= j /\ j < n - 1 => d[j] = c[j + 1] /\ j + 1 \in Slots
    BY <1>1, <1>2 DEF Slots
<1>6. \A j \in Slots : j >= n - 1 => d[j] = Free
    BY <1>1, <1>2 DEF Slots
<1>7. CompactArray(d, n - 1) /\ Base(d) = IF at = STDIN_SOCKET THEN STDIN_SOCKET ELSE Base(c)
    <2>0. /\ Base(d) = IF at = STDIN_SOCKET THEN STDIN_SOCKET ELSE Base(c)
          /\ Base(d) >= 2 /\ Base(d) <= Base(c) /\ Base(c) <= n
          /\ Base(d) \in {2, 3} /\ Base(c) \in {2, 3}
          /\ at # 2 => Base(d) = Base(c)
        <3>1. CASE at = 2
            <4>1. d[2].fd # "stdin"
                <5>1. CASE n - 1 > 2
                    BY <1>1, <1>5, <3>1, <5>1, SlotKinds, Constants
                <5>2. CASE n - 1 <= 2
                    BY <1>1, <1>6, <3>1, <5>2, SlotKinds DEF Free, NoFd
                <5>3. QED
                    BY <1>1, <5>1, <5>2
            <4>2. QED
                BY <3>1, <4>1, SlotKinds DEF Base, STDIN_SOCKET
        <3>2. CASE at # 2
            <4>1. d[2] = c[2]
                BY <1>1, <1>4, <3>2, SlotKinds
            <4>2. QED
                BY <3>2, <4>1, SlotKinds DEF Base, STDIN_SOCKET
        <3>3. QED
            BY <3>1, <3>2
    <2>1. d \in [Slots -> Slot]
        BY <1>1, <1>2, <1>3, <1>5, Constants DEF Slots
    <2>2. n - 1 \in Base(d) .. SOCKETS_NUMBER
        <3>1. Base(d) < n
            <4>1. CASE at = 2
                BY <1>1, <2>0, <4>1 DEF STDIN_SOCKET
            <4>2. CASE at # 2
                <5>1. at >= 3
                    BY <1>1, <4>2
                <5>2. QED
                    BY <1>1, <2>0, <5>1
            <4>3. QED
                BY <4>1, <4>2
        <3>2. QED
            BY <1>1, <2>0, <3>1
    <2>3. d[LISTENING_SOCKET].fd = "listen" /\ d[SERVER_SOCKET].fd \in {"server", NoFd}
        BY <1>1, <1>4, SlotKinds DEF LISTENING_SOCKET, SERVER_SOCKET
    <2>4. \A j \in Base(d) .. n - 2 :
              \E k \in Base(c) .. n - 1 :
                  d[j] = c[k] /\ k = (IF j < at THEN j ELSE j + 1)
        <3> TAKE j \in Base(d) .. n - 2
        <3>1. j \in Slots /\ j >= 2 /\ j < n - 1 /\ j + 1 < n /\ j + 1 >= 3
            BY <1>1, <2>0, Constants
        <3>2. CASE j < at
            <4>1. at # 2 /\ j >= Base(c)
                BY <1>1, <2>0, <3>1, <3>2
            <4>2. j \in Base(c) .. n - 1 /\ d[j] = c[j]
                BY <1>1, <1>4, <2>0, <3>1, <3>2, <4>1
            <4>3. QED
                BY <3>2, <4>2
        <3>3. CASE j >= at
            <4>1. j + 1 \in Base(c) .. n - 1 /\ d[j] = c[j + 1]
                BY <1>1, <1>5, <2>0, <3>1, <3>3
            <4>2. QED
                BY <1>1, <3>1, <3>3, <4>1
        <3>4. QED
            BY <1>1, <3>1, <3>2, <3>3
    <2>5. \A j \in Base(d) .. n - 2 : d[j].fd \in Clients
        BY <2>4 DEF CompactArray
    <2>6. ASSUME NEW j \in Base(d) .. n - 2, NEW k \in Base(d) .. n - 2,
                 d[j].fd = d[k].fd
          PROVE  j = k
        <3>1. PICK x \in Base(c) .. n - 1 :
                  d[j] = c[x] /\ x = (IF j < at THEN j ELSE j + 1)
            BY <2>4
        <3>2. PICK y \in Base(c) .. n - 1 :
                  d[k] = c[y] /\ y = (IF k < at THEN k ELSE k + 1)
            BY <2>4
        <3>3. x = y
            BY <2>6, <3>1, <3>2 DEF CompactArray
        <3>4. QED
            BY <1>1, <2>0, <3>1, <3>2, <3>3
    <2>7. \A j \in n - 1 .. SOCKETS_NUMBER - 1 : d[j] = Free
        BY <1>1, <1>6 DEF Slots
    <2>8. (n - 1) - 1 = n - 2
        BY <1>1
    <2>9. QED
        BY <2>0, <2>1, <2>2, <2>3, <2>5, <2>6, <2>7, <2>8 DEF CompactArray
<1>8. Hold(d) = Hold(c) \ {c[at].fd}
    <2>1. ASSUME NEW j \in Slots, c[j].fd \in Peers, c[j].fd # c[at].fd
          PROVE  c[j].fd \in Hold(d)
        <3>1. j # at /\ j < n
            BY <1>1, <2>1, SlotKinds, Constants DEF Free
        <3>2. CASE j < at
            BY <1>4, <2>1, <3>2 DEF Hold
        <3>3. CASE j > at
            <4>1. j - 1 \in Slots /\ at <= j - 1 /\ j - 1 < n - 1 /\ (j - 1) + 1 = j
                BY <1>1, <3>1, <3>3 DEF Slots
            <4>2. d[j - 1] = c[j]
                BY <1>5, <4>1
            <4>3. QED
                BY <2>1, <4>1, <4>2 DEF Hold
        <3>4. QED
            BY <1>1, <3>1, <3>2, <3>3 DEF Slots
    <2>2. ASSUME NEW j \in Slots, d[j].fd \in Peers
          PROVE  d[j].fd \in Hold(c) /\ d[j].fd # c[at].fd
        <3>1. j < n - 1
            BY <1>1, <1>6, <2>2, Constants DEF Slots, Free
        <3>2. PICK k \in Slots : d[j] = c[k] /\ k # at /\ k < n /\ (k < at \/ k > at)
            BY <1>1, <1>4, <1>5, <3>1 DEF Slots
        <3>3. d[j].fd \in Hold(c)
            BY <2>2, <3>2 DEF Hold
        <3>4. d[j].fd # c[at].fd
            <4>1. CASE k >= Base(c) /\ at >= Base(c)
                <5>1. k \in Base(c) .. n - 1 /\ at \in Base(c) .. n - 1
                    BY <1>1, <3>2, <4>1, SlotKinds
                <5>2. QED
                    BY <3>2, <5>1 DEF CompactArray
            <4>2. CASE at < Base(c)
                BY <1>1, <2>2, <4>2, SlotKinds, Constants
            <4>3. CASE k < Base(c)
                <5>1. k \in {0, 1} \/ (k = 2 /\ c[k].fd = "stdin")
                    BY <3>2, <4>3, SlotKinds
                <5>2. k = 1 /\ c[k].fd = "server"
                    BY <2>2, <3>2, <5>1, SlotKinds, Constants
                <5>3. QED
                    BY <1>3, <3>2, <5>2, Constants
            <4>4. QED
                BY <1>1, <3>2, <4>1, <4>2, <4>3, SlotKinds
        <3>5. QED
            BY <3>3, <3>4
    <2>3. QED
        BY <2>1, <2>2 DEF Hold
<1>9. \A j \in Slots : j >= at =>
          d[j] = Free \/ (j + 1 \in Slots /\ d[j] = c[j + 1])
    BY <1>1, <1>5, <1>6 DEF Slots
<1>10. QED
    BY <1>3, <1>7, <1>8, <1>9 DEF d

LEMMA ClosedServer ==
    ASSUME NEW c, NEW n, CompactArray(c, n)
    PROVE  /\ CompactArray(Closed(c, SERVER_SOCKET), n)
           /\ Base(Closed(c, SERVER_SOCKET)) = Base(c)
           /\ Hold(Closed(c, SERVER_SOCKET)) = Hold(c) \ {"server"}
           /\ \A j \in Slots : j # SERVER_SOCKET =>
                 Closed(c, SERVER_SOCKET)[j] = c[j]
           /\ Closed(c, SERVER_SOCKET)[SERVER_SOCKET] = Free
<1> DEFINE d == [c EXCEPT ![SERVER_SOCKET] = Free]
<1>1. Closed(c, SERVER_SOCKET) = d
    BY DEF Closed
<1>2. c \in [Slots -> Slot] /\ SERVER_SOCKET \in Slots /\ SERVER_SOCKET = 1
    BY SlotKinds DEF CompactArray, SERVER_SOCKET
<1>3. /\ d \in [Slots -> Slot] /\ d[SERVER_SOCKET] = Free
      /\ \A j \in Slots : j # SERVER_SOCKET => d[j] = c[j]
    BY <1>2, Constants
<1> HIDE DEF d
<1>4. CompactArray(d, n) /\ Base(d) = Base(c)
    <2>1. d[LISTENING_SOCKET].fd = "listen" /\ d[SERVER_SOCKET].fd \in {"server", NoFd}
        BY <1>2, <1>3, SlotKinds DEF LISTENING_SOCKET, Free
    <2>2. Base(d) = Base(c)
        BY <1>2, <1>3, SlotKinds DEF Base, STDIN_SOCKET
    <2>3. \A j \in Base(c) .. SOCKETS_NUMBER - 1 : d[j] = c[j]
        BY <1>2, <1>3, SlotKinds, Constants
    <2>4. /\ Base(c) .. n - 1 \subseteq Base(c) .. SOCKETS_NUMBER - 1
          /\ n .. SOCKETS_NUMBER - 1 \subseteq Base(c) .. SOCKETS_NUMBER - 1
        BY SlotKinds, Constants
    <2>5. QED
        BY <1>3, <2>1, <2>2, <2>3, <2>4 DEF CompactArray
<1>5. \A j \in Slots : c[j].fd = "server" => j = SERVER_SOCKET
    BY <1>2, SlotKinds, Constants DEF Free, NoFd
<1>6. c[SERVER_SOCKET].fd \in {"server", NoFd}
    BY DEF CompactArray
<1>7. Hold(d) = Hold(c) \ {"server"}
    BY <1>2, <1>3, <1>5, <1>6, Constants DEF Hold, Free
<1>8. QED
    BY <1>1, <1>3, <1>4, <1>7

(* All cases: a slot that holds a peer, or stdin, is closed. *)
LEMMA ClosedSlot ==
    ASSUME NEW c, NEW n, CompactArray(c, n), NEW at \in Slots,
           c[at].fd \in Peers \cup {"stdin"}
    PROVE  /\ CompactArray(Closed(c, at), IF at = SERVER_SOCKET THEN n ELSE n - 1)
           /\ Hold(Closed(c, at)) = Hold(c) \ {c[at].fd}
           /\ \A j \in Slots : j > at =>
                 \/ Closed(c, at)[j] = Free
                 \/ \E k \in Slots : k > at /\ Closed(c, at)[j] = c[k]
           /\ \/ Closed(c, at)[at] = Free
              \/ /\ at # SERVER_SOCKET /\ at + 1 \in Slots
                 /\ Closed(c, at)[at] = c[at + 1]
<1>1. at \in Nat /\ n \in Nat /\ SERVER_SOCKET = 1
    BY SlotKinds DEF SERVER_SOCKET
<1>2. at = 1 \/ at \in STDIN_SOCKET .. n - 1
    <2>1. (at # 0 /\ at < n) \/ at = 1
        BY SlotKinds, Constants DEF Free, NoFd
    <2>2. QED
        BY <1>1, <2>1 DEF STDIN_SOCKET
<1>3. CASE at = 1
    <2>1. c[at].fd = "server"
        BY <1>3, SlotKinds, Constants DEF NoFd
    <2>2. \A j \in Slots : j > at => j # SERVER_SOCKET
        BY <1>1, <1>3, Constants
    <2>3. QED
        BY <1>1, <1>3, <2>1, <2>2, ClosedServer
<1>4. CASE at \in STDIN_SOCKET .. n - 1
    <2>1. at # SERVER_SOCKET
        BY <1>1, <1>4 DEF STDIN_SOCKET
    <2>2. \A j \in Slots : j > at => j >= at /\ j + 1 > at
        BY Constants
    <2>3. at >= at
        BY Constants
    <2>4. QED
        BY <1>4, <2>1, <2>2, <2>3, ClosedStaysCompact
<1>5. QED
    BY <1>2, <1>3, <1>4
-----------------------------------------------------------------------------
(* The steps.                                                              *)

LEMMA InitEstablishes == Init => IInv
<1> SUFFICES ASSUME Init PROVE IInv
    OBVIOUS
<1> USE DEF LISTENING_SOCKET, SERVER_SOCKET, STDIN_SOCKET, FirstClient
<1>1. \A j \in Slots :
          connections[j].revents = {} /\ connections[j].fd = FirstFd(j)
    BY DEF Init
<1>2. \A j \in Slots : FirstFd(j) \in Fds /\ FirstFd(j) \notin Clients
    BY Constants DEF FirstFd
<1>3. connections \in [Slots -> Slot]
    BY <1>2 DEF Init, Slot
<1>4. \A j \in 3 .. SOCKETS_NUMBER - 1 : connections[j] = Free
    <2> TAKE j \in 3 .. SOCKETS_NUMBER - 1
    <2>1. j \in Slots /\ j \notin {0, 1, 2}
        BY Constants
    <2>2. FirstFd(j) = NoFd
        BY <2>1 DEF FirstFd
    <2>3. QED
        BY <2>1, <2>2 DEF Init, Free
<1>5. CompactArray(connections, nSockets)
    <2>1. /\ connections[0].fd = "listen" /\ connections[2].fd = "stdin"
          /\ connections[1].fd \in {"server", NoFd}
        BY <1>1, Constants DEF FirstFd
    <2>2. nSockets = 3 /\ 3 .. 2 = {}
        BY DEF Init
    <2>3. Base(connections) = 3
        BY <2>1 DEF Base
    <2>4. QED
        BY <1>3, <1>4, <2>1, <2>2, <2>3, Constants DEF CompactArray
<1>6. TypeOK
    <2>1. link \in [Peers -> {"off", "up", "closed", "reset"}]
        BY DEF Init
    <2>2. req \in [Peers -> BOOLEAN]
        BY DEF Init
    <2>3. connections \in [Slots -> [fd : Fds, revents : SUBSET Events]]
        BY <1>3 DEF Slot
    <2>4. nSockets \in 2 .. SOCKETS_NUMBER /\ i \in 0 .. SOCKETS_NUMBER
        BY Constants DEF Init
    <2>5. QED
        BY <2>1, <2>2, <2>3, <2>4 DEF TypeOK, Init, NoCommand
<1>7. Hold(connections) \cap Clients = {}
    BY <1>1, <1>2 DEF Hold
<1>8. LinksInStep
    BY <1>7, Constants DEF LinksInStep, Init
<1>9. EventsTravel
    BY <1>1 DEF EventsTravel
<1>10. QED
    BY <1>5, <1>6, <1>8, <1>9 DEF IInv, Init

(* Closing some connections: what is right of the others stays so. *)
LEMMA DisconnectKeeps ==
    ASSUME IInv, ~ended, i \in Slots, i' = i + 1,
           UNCHANGED <<pending, command, ended>>,
           CompactArray(connections', nSockets'),
           Hold(connections') \subseteq Hold(connections),
           Disconnect(connections, connections'),
           \A j \in Slots : j > i =>
              \/ connections'[j] = Free
              \/ \E k \in Slots : k > i /\ connections'[j] = connections[k]
    PROVE  IInv'
<1>1. /\ connections' \in [Slots -> Slot]
      /\ nSockets' \in 2 .. SOCKETS_NUMBER
    <2>1. connections' \in [Slots -> Slot]
        BY DEF CompactArray
    <2>2. nSockets' \in Nat /\ nSockets' >= 2 /\ nSockets' <= SOCKETS_NUMBER
        BY SlotKinds
    <2>3. QED
        BY <2>1, <2>2, Constants
<1>2. \A p \in Peers :
          /\ link'[p] = IF p \in Hold(connections) \ Hold(connections')
                        THEN "off" ELSE link[p]
          /\ req'[p] = (req[p] /\ p \notin Hold(connections) \ Hold(connections'))
    BY DEF Disconnect
<1>3. TypeOK'
    <2>1. link' \in [Peers -> {"off", "up", "closed", "reset"}]
        BY <1>2 DEF IInv, TypeOK, Disconnect
    <2>2. req' \in [Peers -> BOOLEAN]
        BY DEF Disconnect
    <2>3. i' \in 0 .. SOCKETS_NUMBER
        BY Constants
    <2>4. QED
        BY <1>1, <2>1, <2>2, <2>3 DEF IInv, TypeOK, Slot
<1>4. LinksInStep'
    BY <1>2, Constants DEF IInv, LinksInStep
<1>5. EventsTravel'
    <2> SUFFICES ASSUME NEW j \in Slots, j >= i'
                 PROVE  /\ "in" \in connections'[j].revents => Readable(Fd(j))'
                        /\ "hup" \in connections'[j].revents => HangsUp(Fd(j))'
        BY DEF EventsTravel
    <2>1. j > i
        BY Constants
    <2>2. CASE connections'[j] = Free
        BY <2>2 DEF Free
    <2>3. ASSUME NEW k \in Slots, k > i, connections'[j] = connections[k]
          PROVE  /\ "in" \in connections'[j].revents => Readable(Fd(j))'
                 /\ "hup" \in connections'[j].revents => HangsUp(Fd(j))'
        <3>1. /\ "in" \in connections[k].revents => Readable(Fd(k))
              /\ "hup" \in connections[k].revents => HangsUp(Fd(k))
            BY <2>3, Constants DEF IInv, EventsTravel
        <3>2. Fd(j)' = Fd(k)
            BY <2>3 DEF Fd
        <3>3. Fd(k) \in Peers => Fd(k) \in Hold(connections')
            BY <2>3 DEF Hold, Fd
        <3>4. Fd(k) \in Peers => link'[Fd(k)] = link[Fd(k)] /\ req'[Fd(k)] = req[Fd(k)]
            BY <1>2, <3>3 DEF IInv, TypeOK
        <3>5. QED
            BY <2>3, <3>1, <3>2, <3>4 DEF Readable, HangsUp
    <2>4. QED
        BY <2>1, <2>2, <2>3
<1>6. QED
    BY <1>3, <1>4, <1>5 DEF IInv

LEMMA PollStep == IInv /\ Poll => IInv' /\ Hold(connections') = Hold(connections)
<1> SUFFICES ASSUME IInv, Poll
             PROVE  IInv' /\ Hold(connections') = Hold(connections)
    OBVIOUS
<1>1. CompactArray(connections, nSockets) /\ connections \in [Slots -> Slot]
    BY DEF IInv, Poll, Polling, CompactArray
<1>2. /\ connections' \in [Slots -> Slot]
      /\ \A j \in Slots : connections'[j].fd = connections[j].fd
    BY <1>1 DEF Poll, Slot, Revents, Events
<1>3. \A j \in Slots : j < nSockets =>
          connections'[j].revents = Revents(connections[j].fd)
    BY <1>1 DEF Poll, Slot
<1>4. \A j \in Slots : j >= nSockets => connections'[j] = connections[j]
    BY <1>1, SlotKinds DEF Poll
<1>5. CompactArray(connections', nSockets')
    <2>1. 0 \in Slots /\ 1 \in Slots /\ 2 \in Slots
        BY Constants
    <2>2. Base(connections') = Base(connections)
        BY <1>2, <2>1 DEF Base, STDIN_SOCKET
    <2>3. nSockets \in Nat /\ Base(connections) \in {2, 3} /\ nSockets <= SOCKETS_NUMBER
        BY <1>1, SlotKinds
    <2>4. /\ \A j \in nSockets .. SOCKETS_NUMBER - 1 : j \in Slots /\ j >= nSockets
          /\ \A j \in Base(connections) .. nSockets - 1 : j \in Slots
        BY <2>3, Constants
    <2>5. nSockets' = nSockets
        BY DEF Poll
    <2>6. QED
        BY <1>1, <1>2, <1>4, <2>1, <2>2, <2>4, <2>5
           DEF CompactArray, LISTENING_SOCKET, SERVER_SOCKET
<1>6. Hold(connections') = Hold(connections)
    BY <1>2 DEF Hold
<1>7. TypeOK'
    <2>1. i' \in 0 .. SOCKETS_NUMBER
        BY Constants DEF Poll, LISTENING_SOCKET
    <2>2. QED
        BY <1>2, <2>1 DEF IInv, TypeOK, Poll, Slot
<1>8. LinksInStep'
    BY <1>6 DEF IInv, LinksInStep, Poll
<1>9. EventsTravel'
    <2> SUFFICES ASSUME NEW j \in Slots
                 PROVE  /\ "in" \in connections'[j].revents => Readable(Fd(j))'
                        /\ "hup" \in connections'[j].revents => HangsUp(Fd(j))'
        BY DEF EventsTravel
    <2>1. Fd(j)' = connections[j].fd
        BY <1>2 DEF Fd
    <2>2. /\ Readable(Fd(j))' <=> Readable(connections[j].fd)
          /\ HangsUp(Fd(j))' <=> HangsUp(connections[j].fd)
        BY <2>1 DEF Readable, HangsUp, Poll
    <2>3. CASE j < nSockets
        BY <1>3, <2>2, <2>3 DEF Revents
    <2>4. CASE j >= nSockets
        <3>1. connections'[j] = Free
            BY <1>1, <1>4, <2>4, SlotKinds
        <3>2. QED
            BY <3>1 DEF Free
    <2>5. QED
        BY <1>1, <2>3, <2>4, SlotKinds
<1>10. QED
    BY <1>5, <1>6, <1>7, <1>8, <1>9 DEF IInv, Poll, Polling

(* A client is accepted. *)
LEMMA AcceptStep ==
    ASSUME IInv, ~ended, i = 0, i' = 1, UNCHANGED <<link, req, command, ended>>,
           NEW c \in pending, nSockets < SOCKETS_NUMBER,
           connections' = [connections EXCEPT ![nSockets].fd = c],
           nSockets' = nSockets + 1, pending' = pending \ {c}
    PROVE  /\ IInv' /\ Hold(connections') = Hold(connections) \cup {c}
           /\ Base(connections') = Base(connections)
           /\ nSockets \in Slots /\ connections[nSockets] = Free
           /\ connections'[nSockets].fd = c /\ connections'[nSockets].revents = {}
           /\ \A j \in Slots : j # nSockets => connections'[j] = connections[j]
<1>1. /\ CompactArray(connections, nSockets) /\ connections \in [Slots -> Slot]
      /\ nSockets \in Nat /\ nSockets <= SOCKETS_NUMBER
      /\ Base(connections) \in {2, 3} /\ Base(connections) <= nSockets
    BY SlotKinds DEF IInv, CompactArray
<1>2. c \in Clients /\ c \notin Hold(connections) /\ c \in Peers
    BY Constants DEF IInv, TypeOK, LinksInStep
<1>3. nSockets \in Slots /\ connections[nSockets] = Free
    BY <1>1, SlotKinds, Constants
<1>4. /\ connections' \in [Slots -> Slot]
      /\ connections'[nSockets].fd = c /\ connections'[nSockets].revents = {}
      /\ \A j \in Slots : j # nSockets => connections'[j] = connections[j]
    BY <1>1, <1>2, <1>3, Constants DEF Slot, Free
<1>5. Base(connections') = Base(connections)
    <2>1. CASE nSockets = 2
        <3>1. connections[2].fd # "stdin" /\ connections'[2].fd # "stdin"
            BY <1>2, <1>3, <1>4, <2>1, Constants DEF Free, NoFd
        <3>2. QED
            BY <3>1 DEF Base, STDIN_SOCKET
    <2>2. CASE nSockets # 2
        BY <1>1, <1>4, <2>2, SlotKinds DEF Base, STDIN_SOCKET
    <2>3. QED
        BY <2>1, <2>2
<1>6. CompactArray(connections', nSockets')
    <2> DEFINE b == Base(connections)
    <2>1. /\ connections'[0].fd = "listen" /\ connections'[1].fd \in {"server", NoFd}
        BY <1>1, <1>4, SlotKinds
    <2>2. \A j \in b .. nSockets : j \in Slots /\ (j # nSockets => j \in b .. nSockets - 1)
        BY <1>1, <1>3, Constants
    <2>3. \A j \in b .. nSockets - 1 :
              connections[j].fd \in Clients /\ connections[j].fd # c
        BY <1>1, <1>2, <2>2, Constants DEF CompactArray, Hold
    <2>4. \A j \in b .. nSockets : connections'[j].fd \in Clients
        BY <1>2, <1>4, <2>2, <2>3
    <2>5. \A j, k \in b .. nSockets : connections'[j].fd = connections'[k].fd => j = k
        BY <1>1, <1>4, <2>2, <2>3 DEF CompactArray
    <2>6. \A j \in nSockets + 1 .. SOCKETS_NUMBER - 1 : connections'[j] = Free
        BY <1>1, <1>4, Constants DEF CompactArray
    <2>7. nSockets + 1 \in b .. SOCKETS_NUMBER /\ (nSockets + 1) - 1 = nSockets
        BY <1>1, Constants
    <2>8. QED
        BY <1>4, <1>5, <2>1, <2>4, <2>5, <2>6, <2>7
           DEF CompactArray, LISTENING_SOCKET, SERVER_SOCKET
<1>7. Hold(connections') = Hold(connections) \cup {c}
    <2>1. connections[nSockets].fd \notin Peers
        BY <1>3, Constants DEF Free
    <2>2. QED
        BY <1>2, <1>3, <1>4, <2>1 DEF Hold
<1>8. TypeOK'
    <2>1. nSockets' \in 2 .. SOCKETS_NUMBER /\ i' \in 0 .. SOCKETS_NUMBER
        BY <1>1, Constants
    <2>2. QED
        BY <1>4, <2>1 DEF IInv, TypeOK, Slot
<1>9. LinksInStep'
    BY <1>2, <1>7 DEF IInv, LinksInStep, TypeOK
<1>10. EventsTravel'
    <2> SUFFICES ASSUME NEW j \in Slots, j >= 1
                 PROVE  /\ "in" \in connections'[j].revents => Readable(Fd(j))'
                        /\ "hup" \in connections'[j].revents => HangsUp(Fd(j))'
        BY DEF EventsTravel
    <2>1. CASE j = nSockets
        BY <1>4, <2>1
    <2>2. CASE j # nSockets
        <3>1. Fd(j)' = Fd(j) /\ Fd(j) # "listen"
            BY <1>1, <1>4, <2>2, SlotKinds, Constants DEF Fd, Free, NoFd
        <3>2. /\ "in" \in connections[j].revents => Readable(Fd(j))
              /\ "hup" \in connections[j].revents => HangsUp(Fd(j))
            BY Constants DEF IInv, EventsTravel
        <3>3. QED
            BY <1>4, <2>2, <3>1, <3>2 DEF Readable, HangsUp
    <2>3. QED
        BY <2>1, <2>2
<1>11. QED
    BY <1>3, <1>4, <1>5, <1>6, <1>7, <1>8, <1>9, <1>10 DEF IInv

LEMMA ListenStep ==
    IInv /\ Listen => IInv' /\ Hold(connections) \subseteq Hold(connections')
<1> SUFFICES ASSUME IInv, Listen
             PROVE  IInv' /\ Hold(connections) \subseteq Hold(connections')
    OBVIOUS
<1>1. /\ i = 0 /\ i' = 1 /\ ~ended
      /\ UNCHANGED <<link, req, command, ended>>
    BY DEF Listen, At, LISTENING_SOCKET, SERVER_SOCKET
<1>2. CASE UNCHANGED <<connections, nSockets, pending>>
    <2>1. TypeOK'
        BY <1>1, <1>2, Constants DEF IInv, TypeOK
    <2>2. LinksInStep'
        BY <1>1, <1>2 DEF IInv, LinksInStep
    <2>3. EventsTravel'
        BY <1>1, <1>2, Constants
           DEF IInv, EventsTravel, Readable, HangsUp, Fd
    <2>4. QED
        BY <1>1, <1>2, <2>1, <2>2, <2>3 DEF IInv
<1>3. CASE \E c \in pending :
               /\ connections' = [connections EXCEPT ![nSockets].fd = c]
               /\ nSockets' = nSockets + 1
               /\ pending' = pending \ {c}
               /\ nSockets < SOCKETS_NUMBER
    BY <1>1, <1>3, AcceptStep
<1>4. QED
    BY <1>2, <1>3 DEF Listen

LEMMA PassStep == IInv /\ Pass => IInv'
<1> SUFFICES ASSUME IInv, Pass PROVE IInv'
    OBVIOUS
<1>1. TypeOK' /\ LinksInStep'
    BY Constants DEF IInv, TypeOK, LinksInStep, Pass
<1>2. EventsTravel'
    BY Constants DEF IInv, TypeOK, EventsTravel, Readable, HangsUp, Fd, Pass
<1>3. QED
    BY <1>1, <1>2 DEF IInv, Pass

(* A slot above the first that poll has marked is the other server's or a  *)
(* client's, or still stdin's.                                             *)
LEMMA EventOfPeer ==
    ASSUME IInv, ~ended, NEW j \in Slots, j >= i, j # LISTENING_SOCKET,
           connections[j].revents # {}
    PROVE  /\ connections[j].fd \in Peers \cup {"stdin"}
           /\ j # STDIN_SOCKET => connections[j].fd \in Peers
           /\ "in" \in connections[j].revents => Readable(connections[j].fd)
           /\ "hup" \in connections[j].revents => HangsUp(connections[j].fd)
           /\ "hup" \in connections[j].revents /\ connections[j].fd \in Peers =>
                 link[connections[j].fd] = "reset"
<1>1. CompactArray(connections, nSockets)
    BY DEF IInv
<1>2. connections[j].revents \in SUBSET {"in", "hup"}
    BY <1>1 DEF CompactArray, Slot, Events
<1>3. /\ "in" \in connections[j].revents => Readable(connections[j].fd)
      /\ "hup" \in connections[j].revents => HangsUp(connections[j].fd)
    BY DEF IInv, EventsTravel, Fd
<1>4. connections[j].fd \in Peers \cup {"listen", "stdin"}
    BY <1>2, <1>3 DEF Readable, HangsUp
<1>5. connections[j] # Free
    BY DEF Free
<1>6. j = 1 \/ (j = 2 /\ connections[j].fd = "stdin") \/ connections[j].fd \in Clients
    BY <1>1, <1>5, SlotKinds DEF LISTENING_SOCKET
<1>7. j = 1 => connections[j].fd = "server"
    BY <1>1, <1>4, SlotKinds, Constants DEF NoFd
<1>8. "hup" \in connections[j].revents /\ connections[j].fd \in Peers =>
          link[connections[j].fd] = "reset"
    BY <1>3, Constants DEF HangsUp
<1>9. QED
    BY <1>3, <1>6, <1>7, <1>8, Constants DEF STDIN_SOCKET

(* The slot of a peer, or of stdin, is closed, and nothing else happens. *)
LEMMA CloseOneStep ==
    ASSUME IInv, ~ended, i \in Slots, connections[i].fd \in Peers \cup {"stdin"},
           connections' = Closed(connections, i),
           nSockets' = IF i = SERVER_SOCKET THEN nSockets ELSE nSockets - 1,
           i' = i + 1, Disconnect(connections, connections'),
           UNCHANGED <<pending, command, ended>>
    PROVE  IInv' /\ Hold(connections) \ Hold(connections') \subseteq {connections[i].fd}
<1>1. CompactArray(connections, nSockets)
    BY DEF IInv
<1>2. /\ CompactArray(connections', nSockets')
      /\ Hold(connections') = Hold(connections) \ {connections[i].fd}
      /\ \A j \in Slots : j > i =>
            \/ connections'[j] = Free
            \/ \E k \in Slots : k > i /\ connections'[j] = connections[k]
    BY <1>1, ClosedSlot
<1>3. Hold(connections') \subseteq Hold(connections)
    BY <1>2
<1>4. QED
    BY <1>2, <1>3, DisconnectKeeps

(* No peer is in two slots. *)
LEMMA OneSlotEach ==
    ASSUME NEW c, NEW n, CompactArray(c, n), NEW j \in Slots, NEW k \in Slots,
           c[j].fd = c[k].fd, c[j].fd \in Peers
    PROVE  j = k
<1>1. /\ c[j] # Free /\ c[k] # Free
      /\ c[j].fd # "listen" /\ c[k].fd # "listen"
      /\ c[j].fd # "stdin" /\ c[k].fd # "stdin"
    BY Constants DEF Free
<1>2. /\ j = 1 \/ (j >= Base(c) /\ j < n)
      /\ k = 1 \/ (k >= Base(c) /\ k < n)
    BY <1>1, SlotKinds
<1>3. CASE c[j].fd = "server"
    <2>1. c[j].fd \notin Clients /\ c[k].fd \notin Clients
        BY <1>3, Constants
    <2>2. QED
        BY <1>2, <2>1, SlotKinds
<1>4. CASE c[j].fd # "server"
    <2>1. j # 1 /\ k # 1
        BY <1>1, <1>4, SlotKinds, Constants DEF NoFd
    <2>2. j \in Base(c) .. n - 1 /\ k \in Base(c) .. n - 1
        BY <1>2, <2>1, SlotKinds
    <2>3. QED
        BY <2>2 DEF CompactArray
<1>5. QED
    BY <1>3, <1>4

LEMMA AnswerStep ==
    ASSUME IInv, NEW slot \in Slots, Answer(slot)
    PROVE  IInv' /\ ClosesOnlyDead
<1>1. /\ i = slot /\ i' = i + 1 /\ ~ended /\ ended' = ended /\ slot >= i
      /\ UNCHANGED <<pending, command>>
      /\ "in" \in connections[slot].revents
      /\ slot # LISTENING_SOCKET /\ slot # STDIN_SOCKET
      /\ CompactArray(connections, nSockets)
    BY Constants DEF Answer, Reads, At, IInv
<1>2. /\ connections[slot].fd \in Peers
      /\ HungUp(connections, slot) => link[connections[slot].fd] = "reset"
    BY <1>1, EventOfPeer DEF HungUp
<1>3. CASE HungUp(connections, slot)
    <2>1. IInv' /\ Hold(connections) \ Hold(connections') \subseteq {connections[i].fd}
        BY <1>1, <1>2, <1>3, CloseOneStep DEF Answer
    <2>2. QED
        BY <1>1, <1>2, <1>3, <2>1 DEF ClosesOnlyDead
<1>4. CASE ~HungUp(connections, slot)
    <2> DEFINE fd == connections[slot].fd
    <2>1. /\ UNCHANGED <<connections, nSockets, link>>
          /\ req' = [req EXCEPT ![fd] = FALSE]
        BY <1>4 DEF Answer
    <2>2. TypeOK'
        <3>1. req' \in [Peers -> BOOLEAN]
            BY <2>1 DEF IInv, TypeOK
        <3>2. i' \in 0 .. SOCKETS_NUMBER
            BY <1>1, Constants
        <3>3. QED
            BY <1>1, <2>1, <3>1, <3>2 DEF IInv, TypeOK
    <2>3. LinksInStep'
        BY <1>1, <2>1 DEF IInv, LinksInStep
    <2>4. EventsTravel'
        <3> SUFFICES ASSUME NEW j \in Slots, j > i
                     PROVE  /\ "in" \in connections[j].revents => Readable(Fd(j))'
                            /\ "hup" \in connections[j].revents => HangsUp(Fd(j))'
            BY <1>1, <2>1, Constants DEF EventsTravel
        <3>1. /\ "in" \in connections[j].revents => Readable(Fd(j))
              /\ "hup" \in connections[j].revents => HangsUp(Fd(j))
            BY Constants, <1>1 DEF IInv, EventsTravel
        <3>2. connections[j].fd \in Peers => connections[j].fd # fd
            BY <1>1, OneSlotEach, Constants
        <3>3. connections[j].fd \in Peers =>
                  req'[connections[j].fd] = req[connections[j].fd]
            BY <2>1, <3>2 DEF IInv, TypeOK
        <3>4. QED
            BY <1>1, <2>1, <3>1, <3>3 DEF Readable, HangsUp, Fd
    <2>5. IInv'
        BY <1>1, <2>1, <2>2, <2>3, <2>4 DEF IInv
    <2>6. QED
        BY <2>1, <2>5 DEF ClosesOnlyDead
<1>5. QED
    BY <1>3, <1>4

(* What CloseDead closes. *)
LEMMA CloseDeadCloses ==
    ASSUME IInv, NEW slot \in Slots, CloseDead(slot)
    PROVE  /\ connections[slot].fd \in Peers
           /\ link[connections[slot].fd] \in {"closed", "reset"}
           /\ \/ /\ connections' = Closed(connections, slot)
                 /\ nSockets' = IF slot = SERVER_SOCKET THEN nSockets ELSE nSockets - 1
              \/ /\ slot > STDIN_SOCKET /\ slot + 1 \in Slots
                 /\ connections[slot + 1].fd \in Peers
                 /\ connections[slot + 1].revents # {}
                 /\ link[connections[slot + 1].fd] = "reset"
                 /\ Closed(connections, slot)[slot] = connections[slot + 1]
                 /\ connections' = Closed(Closed(connections, slot), slot)
                 /\ nSockets' = nSockets - 2
<1> DEFINE c == Closed(connections, slot)
<1>1. /\ i = slot /\ ~ended /\ slot >= i
      /\ "in" \in connections[slot].revents
      /\ slot # LISTENING_SOCKET /\ slot # STDIN_SOCKET
      /\ Readable(connections[slot].fd) /\ ~req[connections[slot].fd]
      /\ CompactArray(connections, nSockets)
    BY Constants DEF CloseDead, Reads, At, IInv
<1>2. connections[slot].fd \in Peers
    BY <1>1, EventOfPeer
<1>3. link[connections[slot].fd] \in {"closed", "reset"}
    BY <1>1, <1>2, Constants DEF Readable
<1>4. \/ c[slot] = Free
      \/ /\ slot # SERVER_SOCKET /\ slot + 1 \in Slots
         /\ c[slot] = connections[slot + 1]
    BY <1>1, <1>2, ClosedSlot
<1>5. CASE ~HungUp(c, slot)
    BY <1>2, <1>3, <1>5 DEF CloseDead
<1>6. CASE HungUp(c, slot)
    <2>1. /\ slot # SERVER_SOCKET /\ slot + 1 \in Slots /\ c[slot] = connections[slot + 1]
          /\ "hup" \in connections[slot + 1].revents
        BY <1>4, <1>6 DEF HungUp, Free
    <2>2. slot > STDIN_SOCKET
        BY <1>1, <2>1, Constants DEF LISTENING_SOCKET, SERVER_SOCKET, STDIN_SOCKET
    <2>3. /\ slot + 1 >= i /\ slot + 1 # LISTENING_SOCKET /\ slot + 1 # STDIN_SOCKET
        BY <1>1, <2>2, Constants DEF LISTENING_SOCKET, STDIN_SOCKET
    <2>4. /\ connections[slot + 1].fd \in Peers
          /\ link[connections[slot + 1].fd] = "reset"
        BY <1>1, <2>1, <2>3, EventOfPeer
    <2>5. connections' = Closed(c, slot) /\ nSockets' = nSockets - 2
        BY <1>6, <2>1 DEF CloseDead
    <2>6. QED
        BY <1>2, <1>3, <2>1, <2>2, <2>4, <2>5
<1>7. QED
    BY <1>5, <1>6

LEMMA CloseDeadStep ==
    ASSUME IInv, NEW slot \in Slots, CloseDead(slot)
    PROVE  IInv' /\ ClosesOnlyDead
<1> DEFINE c == Closed(connections, slot)
           m == IF slot = SERVER_SOCKET THEN nSockets ELSE nSockets - 1
<1>1. /\ i = slot /\ i' = i + 1 /\ ~ended /\ ended' = ended
      /\ UNCHANGED <<pending, command>>
      /\ Disconnect(connections, connections')
      /\ CompactArray(connections, nSockets)
    BY DEF CloseDead, Reads, At, IInv
<1>2. /\ connections[slot].fd \in Peers
      /\ link[connections[slot].fd] \in {"closed", "reset"}
    BY CloseDeadCloses
<1>3. CASE connections' = c /\ nSockets' = m
    <2>1. IInv' /\ Hold(connections) \ Hold(connections') \subseteq {connections[i].fd}
        BY <1>1, <1>2, <1>3, CloseOneStep
    <2>2. QED
        BY <1>1, <1>2, <2>1 DEF ClosesOnlyDead
<1>4. CASE /\ slot > STDIN_SOCKET /\ slot + 1 \in Slots
           /\ connections[slot + 1].fd \in Peers
           /\ link[connections[slot + 1].fd] = "reset"
           /\ c[slot] = connections[slot + 1]
           /\ connections' = Closed(c, slot)
           /\ nSockets' = nSockets - 2
    <2>1. /\ CompactArray(c, m)
          /\ Hold(c) = Hold(connections) \ {connections[slot].fd}
          /\ \A j \in Slots : j > slot =>
                c[j] = Free \/ \E k \in Slots : k > slot /\ c[j] = connections[k]
        BY <1>1, <1>2, ClosedSlot
    <2>2. slot # SERVER_SOCKET /\ m = nSockets - 1 /\ nSockets' = m - 1
        <3>1. slot # SERVER_SOCKET /\ nSockets \in Nat
            BY <1>1, <1>4, SlotKinds DEF SERVER_SOCKET, STDIN_SOCKET
        <3>2. QED
            BY <1>4, <3>1
    <2>3. /\ CompactArray(Closed(c, slot), m - 1)
          /\ Hold(Closed(c, slot)) = Hold(c) \ {c[slot].fd}
          /\ \A j \in Slots : j > slot =>
                \/ Closed(c, slot)[j] = Free
                \/ \E k \in Slots : k > slot /\ Closed(c, slot)[j] = c[k]
        <3> HIDE DEF c, m
        <3>1. c[slot].fd \in Peers
            BY <1>4
        <3>2. QED
            BY <2>1, <2>2, <3>1, ClosedSlot
    <2> HIDE DEF c, m
    <2>4. Hold(connections') \subseteq Hold(connections)
        BY <1>4, <2>1, <2>3
    <2>5. \A j \in Slots : j > slot =>
              \/ connections'[j] = Free
              \/ \E k \in Slots : k > slot /\ connections'[j] = connections[k]
        BY <1>4, <2>1, <2>3
    <2>6. IInv'
        BY <1>1, <1>4, <2>2, <2>3, <2>4, <2>5, DisconnectKeeps
    <2>7. Hold(connections) \ Hold(connections') \subseteq
              {connections[slot].fd, connections[slot + 1].fd}
        BY <1>4, <2>1, <2>3
    <2>8. QED
        BY <1>2, <1>4, <2>6, <2>7 DEF ClosesOnlyDead
<1>5. QED
    BY <1>3, <1>4, CloseDeadCloses

LEMMA HangUpStep == IInv /\ HangUp => IInv' /\ ClosesOnlyDead
<1> SUFFICES ASSUME IInv, HangUp PROVE IInv' /\ ClosesOnlyDead
    OBVIOUS
<1>1. /\ ~ended /\ i \in Slots /\ "hup" \in connections[i].revents
      /\ connections[i].revents # {} /\ i >= i /\ i # LISTENING_SOCKET
      /\ UNCHANGED <<pending, command, ended>>
    BY Constants DEF HangUp, LISTENING_SOCKET
<1>2. /\ connections[i].fd \in Peers \cup {"stdin"}
      /\ connections[i].fd \in Peers => link[connections[i].fd] = "reset"
    BY <1>1, EventOfPeer
<1>3. IInv' /\ Hold(connections) \ Hold(connections') \subseteq {connections[i].fd}
    BY <1>1, <1>2, CloseOneStep DEF HangUp
<1>4. QED
    BY <1>2, <1>3, Constants DEF ClosesOnlyDead

(* What a line may do, when the other cases of Command are excluded. *)
LEMMA CommandCases ==
    ASSUME IInv, Command
    PROVE  /\ i = 2 /\ i' = 3 /\ ~ended /\ 2 \in Slots
           /\ CompactArray(connections, nSockets)
           /\ "in" \in connections[2].revents
           /\ command' \in Commands \cup {NoCommand, "hangup"}
           /\ \/ Terminate
              \/ /\ UNCHANGED <<connections, nSockets, link, req, pending, ended>>
                 /\ IF connections[2].fd = "stdin" THEN command' = NoCommand
                    ELSE command' = command /\ connections[2].fd \in Peers
              \/ /\ connections[2].fd \in Peers /\ link[connections[2].fd] = "reset"
                 /\ connections' = Closed(connections, 2) /\ nSockets' = nSockets - 1
                 /\ Disconnect(connections, connections')
                 /\ UNCHANGED <<pending, command, ended>>
<1>1. /\ i = 2 /\ i' = 3 /\ ~ended /\ 2 \in Slots
      /\ CompactArray(connections, nSockets)
      /\ "in" \in connections[2].revents
    BY Constants DEF IInv, Command, At, STDIN_SOCKET
<1>2. /\ connections[2].fd \in Peers \cup {"stdin"}
      /\ Readable(connections[2].fd)
      /\ "hup" \in connections[2].revents => HangsUp(connections[2].fd)
      /\ "hup" \in connections[2].revents /\ connections[2].fd \in Peers =>
            link[connections[2].fd] = "reset"
    BY <1>1, EventOfPeer DEF LISTENING_SOCKET
<1>3. command' = IF connections[2].fd = "stdin" THEN NoCommand ELSE command
    BY <1>1 DEF Command
<1>4. command' \in Commands \cup {NoCommand, "hangup"}
    BY <1>3 DEF IInv, TypeOK
<1>5. connections[2].fd = "stdin" => "hup" \notin connections[2].revents
    BY <1>2, Constants DEF Readable, HangsUp, Commands
<1>6. \/ Terminate
      \/ /\ IF HungUp(connections, 2)
            THEN /\ connections' = Closed(connections, 2)
                 /\ nSockets' = nSockets - 1
                 /\ Disconnect(connections, connections')
            ELSE UNCHANGED <<connections, nSockets, link, req>>
         /\ UNCHANGED <<pending, ended>>
    BY <1>1 DEF Command
<1>7. QED
    BY <1>1, <1>2, <1>3, <1>4, <1>5, <1>6, Constants DEF HungUp

LEMMA CommandStep == IInv /\ Command => IInv' /\ ClosesOnlyDead
<1> SUFFICES ASSUME IInv, Command PROVE IInv' /\ ClosesOnlyDead
    OBVIOUS
<1>1. /\ i = 2 /\ i' = 3 /\ ~ended /\ i' \in 0 .. SOCKETS_NUMBER /\ 2 \in Slots
      /\ CompactArray(connections, nSockets)
      /\ command' \in Commands \cup {NoCommand, "hangup"}
    BY CommandCases, Constants
<1>2. CASE Terminate
    <2>1. connections' = [j \in Slots |-> Free]
        BY <1>2 DEF Terminate
    <2>2. Hold(connections') = {}
        BY <2>1, Constants DEF Hold, Free
    <2>3. connections' \in [Slots -> Slot]
        BY <2>1, Constants
    <2>4. TypeOK'
        <3>1. link' \in [Peers -> {"off", "up", "closed", "reset"}]
            BY <1>2 DEF Terminate
        <3>2. QED
            BY <1>1, <1>2, <2>3, <3>1 DEF IInv, TypeOK, Terminate, Slot
    <2>5. LinksInStep'
        BY <1>2, <2>2, Constants DEF LinksInStep, Terminate
    <2>6. EventsTravel'
        BY <2>1 DEF EventsTravel, Free
    <2>7. ended'
        BY <1>2 DEF Terminate
    <2>8. QED
        BY <2>1, <2>4, <2>5, <2>6, <2>7 DEF IInv, ClosesOnlyDead
<1>3. CASE /\ UNCHANGED <<connections, nSockets, link, req, pending, ended>>
           /\ IF connections[2].fd = "stdin" THEN command' = NoCommand
              ELSE command' = command /\ connections[2].fd \in Peers
    <2>1. TypeOK'
        BY <1>1, <1>3 DEF IInv, TypeOK
    <2>2. LinksInStep'
        BY <1>3 DEF IInv, LinksInStep
    <2>3. EventsTravel'
        <3> SUFFICES ASSUME NEW j \in Slots, j >= 3
                     PROVE  /\ "in" \in connections[j].revents => Readable(Fd(j))'
                            /\ "hup" \in connections[j].revents => HangsUp(Fd(j))'
            BY <1>1, <1>3 DEF EventsTravel
        <3>1. /\ "in" \in connections[j].revents => Readable(Fd(j))
              /\ "hup" \in connections[j].revents => HangsUp(Fd(j))
            BY <1>1, Constants DEF IInv, EventsTravel
        <3>2. connections[j].fd # "stdin"
            BY <1>1, SlotKinds, Constants DEF Free, NoFd
        <3>3. QED
            BY <1>3, <3>1, <3>2 DEF Readable, HangsUp, Fd
    <2>4. QED
        BY <1>1, <1>3, <2>1, <2>2, <2>3 DEF IInv, ClosesOnlyDead
<1>4. CASE /\ connections[2].fd \in Peers /\ link[connections[2].fd] = "reset"
           /\ connections' = Closed(connections, 2) /\ nSockets' = nSockets - 1
           /\ Disconnect(connections, connections')
           /\ UNCHANGED <<pending, command, ended>>
    <2>1. nSockets' = IF i = SERVER_SOCKET THEN nSockets ELSE nSockets - 1
        BY <1>1, <1>4 DEF SERVER_SOCKET
    <2>2. IInv' /\ Hold(connections) \ Hold(connections') \subseteq {connections[i].fd}
        BY <1>1, <1>4, <2>1, CloseOneStep
    <2>3. QED
        BY <1>1, <1>4, <2>2 DEF ClosesOnlyDead
<1>5. QED
    BY <1>2, <1>3, <1>4, CommandCases

LEMMA EnvironmentStep ==
    ASSUME IInv, Environment
    PROVE  IInv' /\ ClosesOnlyDead
<1>1. ASSUME NEW c \in Clients, Connect(c)
      PROVE  IInv' /\ UNCHANGED connections
    <2>1. c \notin Hold(connections) /\ c \in Peers /\ c \notin {"listen", "stdin"}
        BY <1>1, Constants DEF IInv, LinksInStep, Connect
    <2>2. TypeOK'
        BY <1>1, <2>1 DEF IInv, TypeOK, Connect, serverVars
    <2>3. LinksInStep'
        BY <1>1, <2>1, Constants DEF IInv, TypeOK, LinksInStep, Connect, serverVars
    <2>4. EventsTravel'
        <3> SUFFICES ASSUME NEW j \in Slots, j >= i
                     PROVE  /\ "in" \in connections[j].revents => Readable(Fd(j))'
                            /\ "hup" \in connections[j].revents => HangsUp(Fd(j))'
            BY <1>1 DEF EventsTravel, Connect, serverVars
        <3>1. connections[j].fd \in Peers => connections[j].fd # c
            BY <2>1 DEF Hold
        <3>2. connections[j].fd \in Peers =>
                  link'[connections[j].fd] = link[connections[j].fd]
            BY <1>1, <3>1 DEF IInv, TypeOK, Connect
        <3>3. QED
            BY <1>1, <3>2
               DEF IInv, EventsTravel, Readable, HangsUp, Fd, Connect, serverVars
    <2>5. QED
        BY <1>1, <2>2, <2>3, <2>4 DEF IInv, Connect, serverVars
<1>2. ASSUME NEW p \in Peers, Send(p)
      PROVE  IInv' /\ UNCHANGED connections
    <2>1. TypeOK'
        BY <1>2 DEF IInv, TypeOK, Send, serverVars
    <2>2. LinksInStep'
        BY <1>2 DEF IInv, LinksInStep, Send, serverVars
    <2>3. \A q \in Peers : req[q] => req'[q]
        BY <1>2 DEF IInv, TypeOK, Send
    <2>4. EventsTravel'
        BY <1>2, <2>3 DEF IInv, EventsTravel, Readable, HangsUp, Fd, Send, serverVars
    <2>5. QED
        BY <1>2, <2>1, <2>2, <2>4 DEF IInv, Send, serverVars
<1>3. ASSUME NEW p \in Peers, Leave(p)
      PROVE  IInv' /\ UNCHANGED connections
    <2>1. \A q \in Peers :
              /\ link'[q] \in {"off", "up", "closed", "reset"}
              /\ link'[q] = "off" <=> link[q] = "off"
              /\ link[q] \in {"closed", "reset"} => link'[q] \in {"closed", "reset"}
              /\ link[q] = "reset" => link'[q] = "reset"
        BY <1>3 DEF IInv, TypeOK, Leave
    <2>2. TypeOK'
        BY <1>3 DEF IInv, TypeOK, Leave, serverVars
    <2>3. LinksInStep'
        BY <1>3, <2>1, Constants DEF IInv, LinksInStep, Leave, serverVars
    <2>4. EventsTravel'
        BY <1>3, <2>1 DEF IInv, EventsTravel, Readable, HangsUp, Fd, Leave, serverVars
    <2>5. QED
        BY <1>3, <2>2, <2>3, <2>4 DEF IInv, Leave, serverVars
<1>4. ASSUME TypeCommand
      PROVE  IInv' /\ UNCHANGED connections
    <2>1. command' \in {"quit", "print", "short", "hangup"} /\ command = "nothing"
        BY <1>4, ConnectionsAssumption DEF TypeCommand, NoCommand
    <2>2. TypeOK' /\ LinksInStep'
        BY <1>4, <2>1 DEF IInv, TypeOK, LinksInStep, TypeCommand, serverVars, Commands
    <2>3. EventsTravel'
        BY <1>4, <2>1
           DEF IInv, EventsTravel, Readable, HangsUp, Fd, TypeCommand, serverVars,
               Commands
    <2>4. QED
        BY <1>4, <2>1, <2>2, <2>3 DEF IInv, TypeCommand, serverVars
<1>5. QED
    BY <1>1, <1>2, <1>3, <1>4 DEF Environment, ClosesOnlyDead

LEMMA Inductive ==
    ASSUME IInv, [Next]_vars
    PROVE  IInv' /\ [ClosesOnlyDead]_vars
<1>1. ASSUME Poll \/ Listen \/ Pass
      PROVE  IInv' /\ ClosesOnlyDead
    <2>1. CASE Poll
        BY <2>1, PollStep DEF ClosesOnlyDead
    <2>2. CASE Listen
        BY <2>2, ListenStep DEF ClosesOnlyDead
    <2>3. CASE Pass
        BY <2>3, PassStep DEF ClosesOnlyDead, Pass
    <2>4. QED
        BY <1>1, <2>1, <2>2, <2>3
<1>2. CASE UNCHANGED vars
    <2>1. IInv'
        BY <1>2 DEF vars, serverVars, IInv, TypeOK, LinksInStep, EventsTravel,
                    Readable, HangsUp, Fd
    <2>2. QED
        BY <1>2, <2>1
<1>3. QED
    BY <1>1, <1>2, CommandStep, HangUpStep, AnswerStep, CloseDeadStep, EnvironmentStep
       DEF Next, ServerStep
-----------------------------------------------------------------------------
(* The array of connections is compact and its slots keep their types, for *)
(* every number of slots and clients.                                      *)
THEOREM ArrayCompact == Spec => [](TypeOK /\ Compact)
<1>1. IInv => TypeOK /\ Compact
    BY DEF IInv, CompactArray, Base, Compact, StdinInPlace, Fd
<1>2. Spec => []IInv
    BY InitEstablishes, Inductive, PTL DEF Spec
<1>3. QED
    BY <1>1, <1>2, PTL

(* No client that the server has accepted is lost in the array.            *)
THEOREM NoClientLost == Spec => []EveryClientHasASlot
<1>1. IInv => EveryClientHasASlot
    <2> SUFFICES ASSUME IInv, NEW c \in Clients, link[c] # "off", c \notin pending
                 PROVE  \E j \in Slots : j < nSockets /\ Fd(j) = c
        BY DEF EveryClientHasASlot
    <2>1. PICK j \in Slots : connections[j].fd = c
        BY DEF IInv, LinksInStep, Hold
    <2>2. CompactArray(connections, nSockets)
        BY <2>1, Constants DEF IInv, TypeOK, Free
    <2>3. j < nSockets
        BY <2>1, <2>2, SlotKinds, Constants DEF Free
    <2>4. QED
        BY <2>1, <2>3 DEF Fd
<1>2. Spec => []IInv
    BY InitEstablishes, Inductive, PTL DEF Spec
<1>3. QED
    BY <1>1, <1>2, PTL

(* The events still to be handled are those of the descriptors beside them. *)
THEOREM EventsStayTrue == Spec => []EventsTravel
<1>1. Spec => []IInv
    BY InitEstablishes, Inductive, PTL DEF Spec
<1>2. IInv => EventsTravel
    BY DEF IInv
<1>3. QED
    BY <1>1, <1>2, PTL

(* Only connections that their clients have ended are closed. *)
THEOREM OnlyDeadAreClosed == Spec => OnlyDeadClosed
<1>1. Spec => []IInv
    BY InitEstablishes, Inductive, PTL DEF Spec
<1>2. QED
    BY <1>1, Inductive, PTL DEF Spec, OnlyDeadClosed

-----------------------------------------------------------------------------
(* Connections implements ServerLoop.                                      *)

(* The array as sets: what ServerLoop says of sets of clients.             *)

(* Ready, said of any array and any slot to begin from. *)
ReadyFrom(c, k) == {c[j].fd : j \in {l \in Slots : l >= k /\ c[l].revents # {}}}

(* A slot with an event is in use. *)
NoIdleEvents(c, k) ==
    \A j \in Slots : j >= k /\ c[j].revents # {} => c[j].fd # NoFd

(* No descriptor is in two slots. *)
LEMMA DistinctFds ==
    ASSUME NEW c, NEW n, CompactArray(c, n), NEW j \in Slots, NEW k \in Slots,
           c[j].fd = c[k].fd, c[j].fd # NoFd
    PROVE  j = k
<1>1. CASE c[j].fd \in Peers
    BY <1>1, OneSlotEach
<1>2. CASE c[j].fd \notin Peers
    <2>1. c[j].fd \notin Clients /\ c[j].fd # "server" /\ c[j] # Free /\ c[k] # Free
        BY <1>2, Constants DEF Free
    <2>2. /\ j = 0 \/ (j = 2 /\ c[j].fd = "stdin")
          /\ k = 0 \/ (k = 2 /\ c[k].fd = "stdin")
        BY <2>1, SlotKinds
    <2>3. QED
        BY <2>2, SlotKinds
<1>3. QED
    BY <1>1, <1>2

(* The slot the loop leaves takes its event with it. *)
LEMMA ReadyNext ==
    ASSUME NEW c, NEW n, CompactArray(c, n), NEW k \in Slots, NoIdleEvents(c, k)
    PROVE  /\ c[k].revents = {} => ReadyFrom(c, k + 1) = ReadyFrom(c, k)
           /\ c[k].revents # {} =>
                 /\ c[k].fd \in ReadyFrom(c, k)
                 /\ ReadyFrom(c, k + 1) = ReadyFrom(c, k) \ {c[k].fd}
<1>1. \A j \in Slots : j >= k <=> j = k \/ j >= k + 1
    BY Constants
<1>2. k >= k /\ ~(k >= k + 1)
    BY Constants
<1>3. ASSUME NEW j \in Slots, j >= k + 1, c[j].revents # {}, c[j].fd = c[k].fd
      PROVE  FALSE
    BY <1>1, <1>2, <1>3, DistinctFds DEF NoIdleEvents
<1>4. QED
    BY <1>1, <1>2, <1>3 DEF ReadyFrom

(* Whatever is in the next slot, at most one event is passed over with it. *)
LEMMA ReadyPassed ==
    ASSUME NEW c, NEW n, CompactArray(c, n), NEW k \in Nat, NoIdleEvents(c, k)
    PROVE  \/ ReadyFrom(c, k + 1) = ReadyFrom(c, k)
           \/ \E p \in ReadyFrom(c, k) : ReadyFrom(c, k + 1) = ReadyFrom(c, k) \ {p}
<1>1. CASE k \in Slots
    BY <1>1, ReadyNext
<1>2. CASE k \notin Slots
    <2>1. \A j \in Slots : ~(j >= k) /\ ~(j >= k + 1)
        BY <1>2, Constants
    <2>2. QED
        BY <2>1 DEF ReadyFrom
<1>3. QED
    BY <1>1, <1>2

(* Closing a slot above the other server's moves the events above it down. *)
LEMMA ReadyShifted ==
    ASSUME NEW c, NEW n, CompactArray(c, n), NEW at \in STDIN_SOCKET .. n - 1,
           NEW k \in Nat, k >= at, NoIdleEvents(c, at)
    PROVE  /\ ReadyFrom(Closed(c, at), k) = ReadyFrom(c, k + 1)
           /\ NoIdleEvents(Closed(c, at), at)
<1> DEFINE d == Closed(c, at)
<1>1. d = [j \in Slots |-> IF j < at THEN c[j]
                           ELSE IF j < n - 1 THEN c[j + 1] ELSE Free]
    BY ClosedClient
<1>2. /\ at \in Nat /\ n \in Nat /\ n <= SOCKETS_NUMBER /\ at >= 2 /\ at < n
      /\ \A j \in Slots : j >= n => c[j] = Free
    BY SlotKinds, Constants DEF STDIN_SOCKET
<1> HIDE DEF d
<1>3. \A j \in Slots : j >= at =>
          /\ j + 1 \in Slots => d[j] = c[j + 1]
          /\ j + 1 \notin Slots => d[j] = Free
    <2> TAKE j \in Slots
    <2>1. CASE j < n - 1
        BY <1>1, <1>2, <2>1, Constants
    <2>2. CASE j >= n - 1
        BY <1>1, <1>2, <2>2, Constants
    <2>3. QED
        BY <1>2, <2>1, <2>2, Constants
<1>4. ASSUME NEW j \in Slots, j >= k, d[j].revents # {}
      PROVE  d[j].fd \in ReadyFrom(c, k + 1)
    <2>1. j + 1 \in Slots /\ j + 1 >= k + 1 /\ d[j] = c[j + 1]
        BY <1>2, <1>3, <1>4, Constants DEF Free
    <2>2. QED
        BY <1>4, <2>1 DEF ReadyFrom
<1>5. ASSUME NEW j \in Slots, j >= k + 1, c[j].revents # {}
      PROVE  c[j].fd \in ReadyFrom(d, k)
    <2>1. j - 1 \in Slots /\ j - 1 >= k /\ j - 1 >= at /\ (j - 1) + 1 = j
        BY <1>2, <1>5, Constants
    <2>2. d[j - 1] = c[j]
        BY <1>3, <2>1
    <2>3. QED
        BY <1>5, <2>1, <2>2 DEF ReadyFrom
<1>6. ReadyFrom(d, k) = ReadyFrom(c, k + 1)
    BY <1>4, <1>5 DEF ReadyFrom
<1>7. NoIdleEvents(d, at)
    <2> SUFFICES ASSUME NEW j \in Slots, j >= at, d[j].revents # {}
                 PROVE  d[j].fd # NoFd
        BY DEF NoIdleEvents
    <2>1. j + 1 \in Slots /\ j + 1 >= at /\ d[j] = c[j + 1]
        BY <1>2, <1>3, Constants DEF Free
    <2>2. QED
        BY <2>1 DEF NoIdleEvents
<1>8. QED
    BY <1>6, <1>7 DEF d

(* As many clients are served as there are slots from the first for them. *)
LEMMA ServedCount ==
    ASSUME NEW c, NEW n, CompactArray(c, n)
    PROVE  Cardinality(Hold(c) \ {"server"}) = n - Base(c)
<1> DEFINE S == Base(c) .. n - 1
           T == Hold(c) \ {"server"}
           f == [j \in S |-> c[j].fd]
<1>1. /\ n \in Nat /\ n <= SOCKETS_NUMBER /\ Base(c) \in Nat /\ Base(c) <= n
      /\ S \subseteq Slots
    BY SlotKinds, Constants
<1>2. T = {c[j].fd : j \in S}
    <2>1. ASSUME NEW j \in Slots, c[j].fd \in Clients PROVE j \in S
        <3>1. c[j] # Free /\ j # 0 /\ j # 1 /\ c[j].fd # "stdin"
            BY <2>1, SlotKinds, Constants DEF Free, NoFd
        <3>2. QED
            BY <1>1, <3>1, SlotKinds
    <2>2. \A j \in S : c[j].fd \in Clients
        BY DEF CompactArray
    <2>3. T = Hold(c) \cap Clients
        BY Constants DEF Hold
    <2>4. QED
        BY <1>1, <2>1, <2>2, <2>3, Constants DEF Hold
<1>3. f \in Bijection(S, T)
    <2>1. f \in [S -> T] /\ \A t \in T : \E j \in S : f[j] = t
        BY <1>2
    <2>2. \A j, k \in S : f[j] = f[k] => j = k
        BY DEF CompactArray
    <2>3. QED
        BY <2>1, <2>2 DEF Bijection, Injection, Surjection, IsInjective
<1>4. IsFiniteSet(S) /\ Cardinality(S) = n - Base(c)
    <2>1. Base(c) \in Int /\ n - 1 \in Int
        BY <1>1
    <2>2. /\ IsFiniteSet(S)
          /\ Cardinality(S) = IF Base(c) > n - 1 THEN 0 ELSE (n - 1) - Base(c) + 1
        BY <2>1, FS_Interval
    <2>3. QED
        BY <1>1, <2>2
<1>5. QED
    BY <1>3, <1>4, FS_Bijection DEF ExistsBijection

(* What the mapping gives while the server is in its loop. *)
LEMMA MappedState ==
    ASSUME IInv, ~ended
    PROVE  /\ CompactArray(connections, nSockets)
           /\ Room = SOCKETS_NUMBER - Base(connections)
           /\ Cardinality(Served) = nSockets - Base(connections)
           /\ Ready = ReadyFrom(connections, i)
           /\ NoIdleEvents(connections, i)
           /\ Served = Hold(connections) \cap Clients
           /\ i > 0 => "listen" \notin Ready
<1>1. CompactArray(connections, nSockets)
    BY DEF IInv
<1>2. Ready = ReadyFrom(connections, i)
    BY DEF Ready, ReadyFrom, Fd
<1>3. NoIdleEvents(connections, i)
    <2> SUFFICES ASSUME NEW j \in Slots, j >= i, connections[j].revents # {}
                 PROVE  connections[j].fd # NoFd
        BY DEF NoIdleEvents
    <2>1. CASE j = LISTENING_SOCKET
        BY <1>1, <2>1, SlotKinds DEF LISTENING_SOCKET, NoFd
    <2>2. CASE j # LISTENING_SOCKET
        BY <2>2, EventOfPeer, Constants DEF NoFd
    <2>3. QED
        BY <2>1, <2>2
<1>4. Served = Hold(connections) \cap Clients
    BY Constants DEF Served, Hold
<1>5. i > 0 => "listen" \notin Ready
    <2> SUFFICES ASSUME NEW j \in Slots, j >= i, i > 0, connections[j].revents # {},
                        connections[j].fd = "listen"
                 PROVE  FALSE
        BY DEF Ready, Fd
    <2>1. i \in Nat
        BY Constants DEF IInv, TypeOK
    <2>2. j # LISTENING_SOCKET
        BY <2>1, Constants DEF LISTENING_SOCKET
    <2>3. QED
        BY <2>2, EventOfPeer, Constants
<1>6. Room = SOCKETS_NUMBER - Base(connections)
    BY DEF Room, StdinInPlace, Base, Fd
<1>7. Cardinality(Served) = nSockets - Base(connections)
    BY <1>1, ServedCount DEF Served
<1>8. QED
    BY <1>1, <1>2, <1>3, <1>4, <1>5, <1>6, <1>7

LEMMA LoopCardinality ==
    \A S : Loop!Cardinality(S) = Cardinality(S)
BY DEF Loop!Cardinality, Cardinality

(* Where the array is as before, so are the sets. *)
LEMMA SameArray ==
    ASSUME UNCHANGED <<connections, ended>>
    PROVE  UNCHANGED <<Room, Served>>
BY DEF Room, Served, StdinInPlace, Fd, Hold

(* The loop goes one slot on, the array as it was. *)
LEMMA OneSlotOn ==
    ASSUME IInv, ~ended, i \in Slots, i' = i + 1, UNCHANGED connections
    PROVE  /\ connections[i].revents = {} => Ready' = Ready
           /\ connections[i].revents # {} =>
                 connections[i].fd \in Ready /\ Ready' = Ready \ {connections[i].fd}
<1>1. Ready' = ReadyFrom(connections, i + 1)
    BY DEF Ready, ReadyFrom, Fd
<1>2. QED
    BY <1>1, MappedState, ReadyNext

LEMMA InitMaps == Init => Loop!Init
<1> SUFFICES ASSUME Init PROVE Loop!Init
    OBVIOUS
<1>1. IInv /\ ~ended
    BY InitEstablishes DEF Init
<1>2. Base(connections) = 3 /\ nSockets = 3
    <2>1. nSockets = 3 /\ 2 \in Slots
        BY Constants DEF Init
    <2>2. connections[2].fd = "stdin"
        BY <2>1 DEF Init, FirstFd, LISTENING_SOCKET, SERVER_SOCKET, STDIN_SOCKET
    <2>3. QED
        BY <2>1, <2>2 DEF Base, STDIN_SOCKET, FirstClient
<1>3. Room = SOCKETS_NUMBER - FirstClient
    BY <1>1, <1>2, MappedState DEF FirstClient
<1>4. Served = {}
    <2>1. \A j \in Slots : connections[j].fd \notin Clients
        BY Constants DEF Init, FirstFd
    <2>2. QED
        BY <1>1, <2>1, MappedState DEF Hold
<1>5. Ready = {}
    BY DEF Init, Ready
<1>6. /\ ClientLink = [c \in Clients |-> "off"]
      /\ ClientReq = [c \in Clients |-> FALSE]
    BY Constants DEF Init, ClientLink, ClientReq
<1>7. QED
    BY <1>3, <1>4, <1>5, <1>6 DEF Loop!Init, Init

LEMMA PollMaps == IInv /\ Poll => Loop!Poll
<1> SUFFICES ASSUME IInv, Poll PROVE Loop!Poll
    OBVIOUS
<1>1. /\ ~ended /\ i = SOCKETS_NUMBER /\ i' = 0
      /\ UNCHANGED <<nSockets, pending, link, req, command, ended>>
      /\ CompactArray(connections, nSockets) /\ connections \in [Slots -> Slot]
    BY DEF Poll, Polling, LISTENING_SOCKET, IInv, CompactArray
<1>2. Ready = {}
    <2>1. \A j \in Slots : ~(j >= SOCKETS_NUMBER)
        BY Constants
    <2>2. QED
        BY <1>1, <2>1 DEF Ready
<1>3. /\ \A j \in Slots : connections'[j].fd = connections[j].fd
      /\ \A j \in Slots : j < nSockets =>
            connections'[j].revents = Revents(connections[j].fd)
      /\ \A j \in Slots : j >= nSockets => connections'[j].revents = {}
    BY <1>1, SlotKinds DEF Poll, Slot, Free
<1>4. Hold(connections') = Hold(connections)
    BY <1>3 DEF Hold
<1>5. UNCHANGED <<Room, Served>>
    <2>1. 2 \in Slots
        BY Constants
    <2>2. QED
        BY <1>1, <1>3, <1>4, <2>1 DEF Room, Served, StdinInPlace, Fd, STDIN_SOCKET
<1>6. \A c \in Clients : Loop!Readable(c) <=> Revents(c) # {}
    <2> TAKE c \in Clients
    <2>1. c \in Peers /\ c # "listen" /\ c # "stdin"
        BY Constants
    <2>2. /\ Readable(c) <=> req[c] \/ link[c] \in {"closed", "reset"}
          /\ HangsUp(c) <=> link[c] = "reset"
        BY <2>1 DEF Readable, HangsUp
    <2>3. Revents(c) # {} <=> Readable(c) \/ HangsUp(c)
        BY DEF Revents
    <2>4. QED
        BY <2>2, <2>3 DEF Loop!Readable, ClientLink, ClientReq
<1>7. Ready' = {connections[j].fd : j \in
                    {k \in Slots : k < nSockets /\ Revents(connections[k].fd) # {}}}
    <2>1. \A j \in Slots : j >= 0
        BY Constants
    <2>2. \A j \in Slots : j >= 0 /\ connections'[j].revents # {} <=>
                           j < nSockets /\ Revents(connections[j].fd) # {}
        BY <1>1, <1>3, <2>1, SlotKinds
    <2>3. Ready' = {connections'[j].fd : j \in
                      {k \in Slots : k >= 0 /\ connections'[k].revents # {}}}
        BY <1>1 DEF Ready, Fd
    <2>4. {k \in Slots : k >= 0 /\ connections'[k].revents # {}} =
          {k \in Slots : k < nSockets /\ Revents(connections[k].fd) # {}}
        BY <2>2
    <2>5. QED
        BY <1>3, <2>3, <2>4
<1>8. Ready' # {}
    BY <1>3, <1>7 DEF Poll
<1>9. \A c \in Clients : c \in Ready' <=> c \in Served /\ Loop!Readable(c)
    <2> TAKE c \in Clients
    <2>1. \A j \in Slots : connections[j].fd = c => j < nSockets
        BY <1>1, SlotKinds, Constants DEF Free
    <2>2. QED
        BY <1>1, <1>6, <1>7, <2>1, MappedState, Constants DEF Hold
<1>10. Ready' \subseteq Loop!Own \cup Clients
    <2> SUFFICES ASSUME NEW j \in Slots, Revents(connections[j].fd) # {}
                 PROVE  connections[j].fd \in {"listen", "server", "stdin"} \cup Clients
        BY <1>7 DEF Loop!Own
    <2>1. QED
        BY Constants DEF Revents, Readable, HangsUp
<1>11. Ready' = (Ready' \cap Loop!Own) \cup {c \in Served : Loop!Readable(c)}
    <2>1. Served \subseteq Clients
        BY <1>1, MappedState
    <2>2. QED
        BY <1>9, <1>10, <2>1
<1>12. \E own \in SUBSET Loop!Own :
           Ready' = own \cup {c \in Served : Loop!Readable(c)}
    BY <1>11
<1>13. UNCHANGED <<ClientLink, ClientReq>>
    BY <1>1 DEF ClientLink, ClientReq
<1>14. QED
    BY <1>1, <1>2, <1>5, <1>8, <1>12, <1>13 DEF Loop!Poll

LEMMA ListenMaps == IInv /\ Listen => [Loop!Next]_(Loop!vars)
<1> SUFFICES ASSUME IInv, Listen PROVE [Loop!Next]_(Loop!vars)
    OBVIOUS
<1>1. /\ i = 0 /\ i' = 1 /\ ~ended /\ i \in Slots /\ i' = i + 1
      /\ UNCHANGED <<link, req, command, ended>>
      /\ CompactArray(connections, nSockets)
    BY Constants DEF Listen, At, LISTENING_SOCKET, SERVER_SOCKET, IInv
<1>2. connections[0].fd = "listen" /\ 0 \in Slots
    BY <1>1, SlotKinds
<1>3. UNCHANGED <<ClientLink, ClientReq>>
    BY <1>1 DEF ClientLink, ClientReq
<1>4. nSockets \in Nat /\ Base(connections) \in Nat /\ nSockets <= SOCKETS_NUMBER
    BY <1>1, SlotKinds
<1>5. ASSUME NEW c \in pending, "in" \in connections[0].revents,
             nSockets < SOCKETS_NUMBER,
             connections' = [connections EXCEPT ![nSockets].fd = c],
             nSockets' = nSockets + 1, pending' = pending \ {c}
      PROVE  Loop!Accept(c) /\ c \in Clients
    <2>1. /\ Hold(connections') = Hold(connections) \cup {c}
          /\ Base(connections') = Base(connections)
          /\ IInv'
          /\ nSockets \in Slots /\ connections[nSockets] = Free
          /\ connections'[nSockets].revents = {}
          /\ \A j \in Slots : j # nSockets => connections'[j] = connections[j]
        BY <1>1, <1>5, AcceptStep
    <2>2. c \in Clients
        BY DEF IInv, TypeOK
    <2>3. Room' = Room
        BY <1>1, <2>1 DEF Room, Base, StdinInPlace, Fd
    <2>4. Served' = Served \cup {c}
        BY <2>1, <2>2, Constants DEF Served
    <2>5. Ready' = ReadyFrom(connections, 1)
        <3>1. connections[nSockets].revents = {}
            BY <2>1 DEF Free
        <3>2. \A j \in Slots : connections[j].revents # {} \/ connections'[j].revents # {} =>
                  connections'[j] = connections[j]
            BY <2>1, <3>1
        <3>3. QED
            BY <1>1, <3>2 DEF Ready, ReadyFrom, Fd
    <2>6. "listen" \in Ready /\ Ready' = Ready \ {"listen"}
        BY <1>1, <1>2, <1>5, <2>5, MappedState, ReadyNext
    <2>7. Loop!Cardinality(Served) < Room
        <3>1. Cardinality(Served) = nSockets - Base(connections)
              /\ Room = SOCKETS_NUMBER - Base(connections)
            BY <1>1, MappedState
        <3>2. QED
            BY <1>4, <1>5, <3>1, LoopCardinality, Constants
    <2>8. QED
        BY <1>1, <1>3, <1>5, <2>2, <2>3, <2>4, <2>6, <2>7 DEF Loop!Accept
<1>6. CASE UNCHANGED <<connections, nSockets, pending>> /\
           ("in" \notin connections[0].revents \/ ~(nSockets < SOCKETS_NUMBER))
    <2>1. /\ connections[0].revents = {} => Ready' = Ready
          /\ connections[0].revents # {} =>
                "listen" \in Ready /\ Ready' = Ready \ {"listen"}
        BY <1>1, <1>2, <1>6, OneSlotOn
    <2>2. UNCHANGED <<Room, Served>>
        BY <1>1, <1>6, SameArray
    <2>3. CASE connections[0].revents = {}
        BY <1>1, <1>3, <1>6, <2>1, <2>2, <2>3 DEF Loop!vars
    <2>4. CASE connections[0].revents # {}
        <3>1. "in" \in connections[0].revents
            <4>1. connections[0].revents \in SUBSET {"in", "hup"}
                BY <1>1, <1>2 DEF CompactArray, Slot, Events
            <4>2. "hup" \notin connections[0].revents
                BY <1>1, <1>2, Constants DEF IInv, EventsTravel, HangsUp, Fd
            <4>3. QED
                BY <2>4, <4>1, <4>2
        <3>2. ~(nSockets < SOCKETS_NUMBER)
            BY <1>6, <3>1
        <3>3. Loop!Cardinality(Served) >= Room
            <4>1. Cardinality(Served) = nSockets - Base(connections)
                  /\ Room = SOCKETS_NUMBER - Base(connections)
                BY <1>1, MappedState
            <4>2. QED
                BY <1>4, <3>2, <4>1, LoopCardinality, Constants
        <3>4. Loop!HandleOwn
            BY <1>1, <1>3, <1>6, <2>1, <2>2, <2>4, <3>3 DEF Loop!HandleOwn, Loop!Own
        <3>5. QED
            BY <3>4 DEF Loop!Next
    <2>5. QED
        BY <2>3, <2>4
<1>7. QED
    BY <1>1, <1>5, <1>6 DEF Listen, Loop!Next

LEMMA PassMaps == IInv /\ Pass => UNCHANGED Loop!vars
<1> SUFFICES ASSUME IInv, Pass PROVE UNCHANGED Loop!vars
    OBVIOUS
<1>1. ~ended /\ i \in Slots /\ i' = i + 1 /\ connections[i].revents = {}
      /\ UNCHANGED <<connections, nSockets, pending, link, req, command, ended>>
    BY Constants DEF Pass
<1>2. Ready' = Ready
    BY <1>1, OneSlotOn
<1>3. UNCHANGED <<Room, Served>>
    BY <1>1, SameArray
<1>4. QED
    BY <1>1, <1>2, <1>3 DEF Loop!vars, ClientLink, ClientReq

(* What the clients whose connections are closed are told. *)
LEMMA DisconnectMaps ==
    ASSUME Disconnect(connections, connections'), NEW gone,
           Hold(connections) \cap Clients \cap gone
             = (Hold(connections) \ Hold(connections')) \cap Clients,
           gone \cap Clients \subseteq Hold(connections)
    PROVE  /\ ClientLink' =
                [c \in Clients |-> IF c \in gone THEN "off" ELSE ClientLink[c]]
           /\ ClientReq' = [c \in Clients |-> ClientReq[c] /\ c \notin gone]
<1>1. \A c \in Clients :
          c \in Peers /\ (c \in gone <=> c \in Hold(connections) \ Hold(connections'))
    BY Constants
<1>2. \A c \in Clients :
          /\ link'[c] = IF c \in gone THEN "off" ELSE link[c]
          /\ req'[c] = (req[c] /\ c \notin gone)
    BY <1>1 DEF Disconnect
<1>3. QED
    BY <1>2 DEF ClientLink, ClientReq

(* One slot is closed: the other server's, stdin's or a dead client's. *)
LEMMA CloseMaps ==
    ASSUME IInv, ~ended, i \in Slots, i > 0, connections[i].revents # {},
           connections[i].fd \in Peers \cup {"stdin"},
           connections[i].fd \in Clients =>
               link[connections[i].fd] \in {"closed", "reset"},
           connections' = Closed(connections, i), i' = i + 1,
           Disconnect(connections, connections'),
           UNCHANGED <<pending, ended>>
    PROVE  Loop!Next
<1> DEFINE fd == connections[i].fd
<1>1. /\ CompactArray(connections, nSockets)
      /\ Room = SOCKETS_NUMBER - Base(connections)
      /\ Ready = ReadyFrom(connections, i)
      /\ NoIdleEvents(connections, i)
      /\ Served = Hold(connections) \cap Clients
      /\ "listen" \notin Ready
    BY MappedState
<1>2. i \in Nat /\ i + 1 \in Nat /\ i >= i /\ i + 1 >= i
    BY Constants
<1>3. fd \in Ready /\ ReadyFrom(connections, i + 1) = Ready \ {fd}
    BY <1>1, ReadyNext
<1>4. Room' = SOCKETS_NUMBER - Base(connections')
    BY DEF Room, Base, StdinInPlace, Fd
<1>5. Ready' = ReadyFrom(connections', i + 1)
    BY DEF Ready, ReadyFrom, Fd
<1>6. Served' = Hold(connections') \cap Clients
    BY Constants DEF Served, Hold
<1> HIDE DEF fd
<1>7. CASE i = 1
    <2>1. fd = "server"
        BY <1>1, <1>7, SlotKinds, Constants DEF fd, NoFd
    <2>2. /\ Base(connections') = Base(connections)
          /\ Hold(connections') = Hold(connections) \ {"server"}
          /\ \A j \in Slots : j # 1 => connections'[j] = connections[j]
        BY <1>1, <1>7, ClosedServer DEF SERVER_SOCKET
    <2>3. Ready' = Ready \ {"server"}
        <3>1. \A j \in Slots : j >= 2 => connections'[j] = connections[j]
            BY <2>2, Constants
        <3>2. ReadyFrom(connections', 2) = ReadyFrom(connections, 2)
            BY <3>1 DEF ReadyFrom
        <3>3. i + 1 = 2
            BY <1>7
        <3>4. QED
            BY <1>3, <1>5, <2>1, <3>2, <3>3
    <2>4. Served' = Served /\ Room' = Room
        BY <1>1, <1>4, <1>6, <2>2, Constants
    <2>5. UNCHANGED <<ClientLink, ClientReq>>
        <3>1. \A c \in Clients : c \in Peers /\ c \notin Hold(connections) \ Hold(connections')
            BY <2>2, Constants
        <3>2. \A c \in Clients : link'[c] = link[c] /\ req'[c] = req[c]
            BY <3>1 DEF Disconnect, IInv, TypeOK
        <3>3. QED
            BY <3>2 DEF ClientLink, ClientReq
    <2>6. Loop!HandleOwn
        BY <1>3, <2>1, <2>3, <2>4, <2>5 DEF Loop!HandleOwn, Loop!Own
    <2>7. QED
        BY <2>6 DEF Loop!Next
<1>8. CASE i # 1
    <2>1. i \in STDIN_SOCKET .. nSockets - 1
        <3>1. connections[i] # Free /\ nSockets \in Nat
            BY <1>1, SlotKinds, Constants DEF Free, NoFd
        <3>2. i >= 2 /\ i < nSockets
            BY <1>1, <1>2, <1>8, <3>1, SlotKinds
        <3>3. QED
            BY <1>2, <3>1, <3>2 DEF STDIN_SOCKET
    <2>2. /\ Base(connections') = IF i = 2 THEN 2 ELSE Base(connections)
          /\ Hold(connections') = Hold(connections) \ {fd}
          /\ fd \in Clients \cup {"stdin"}
        BY <1>1, <2>1, ClosedStaysCompact DEF STDIN_SOCKET, fd
    <2>3. \E passed \in Ready : Ready' = Ready \ {fd, passed}
        <3>1. Ready' = ReadyFrom(connections, (i + 1) + 1)
            BY <1>1, <1>2, <1>5, <2>1, ReadyShifted
        <3>2. NoIdleEvents(connections, i + 1)
            BY <1>1, <1>2, Constants DEF NoIdleEvents
        <3>3. \/ Ready' = ReadyFrom(connections, i + 1)
              \/ \E p \in ReadyFrom(connections, i + 1) :
                    Ready' = ReadyFrom(connections, i + 1) \ {p}
            BY <1>1, <1>2, <3>1, <3>2, ReadyPassed
        <3>4. CASE Ready' = Ready \ {fd}
            BY <1>3, <3>4
        <3>5. CASE \E p \in Ready \ {fd} : Ready' = (Ready \ {fd}) \ {p}
            BY <3>5
        <3>6. QED
            BY <1>3, <3>3, <3>4, <3>5
    <2>4. CASE fd = "stdin"
        <3>1. i = 2 /\ Base(connections) = 3
            BY <1>1, <2>1, <2>4, SlotKinds, Constants DEF fd, Free, NoFd
        <3>2. Room' = Room + 1
            BY <1>1, <1>4, <2>2, <3>1, Constants
        <3>3. Served' = Served
            BY <1>1, <1>6, <2>2, <2>4, Constants
        <3>4. UNCHANGED <<ClientLink, ClientReq>>
            <4>1. \A c \in Clients :
                      c \in Peers /\ c \notin Hold(connections) \ Hold(connections')
                BY <2>2, <2>4, Constants
            <4>2. \A c \in Clients : link'[c] = link[c] /\ req'[c] = req[c]
                BY <4>1 DEF Disconnect, IInv, TypeOK
            <4>3. QED
                BY <4>2 DEF ClientLink, ClientReq
        <3>5. Loop!HandleOwn
            BY <1>3, <2>3, <2>4, <3>2, <3>3, <3>4 DEF Loop!HandleOwn, Loop!Own
        <3>6. QED
            BY <3>5 DEF Loop!Next
    <2>5. CASE fd \in Clients
        <3>1. Room' = Room
            <4>1. i = 2 => Base(connections) = 2
                BY <1>1, <2>5, SlotKinds, Constants DEF fd
            <4>2. QED
                BY <1>1, <1>4, <2>2, <4>1
        <3>2. fd \in Hold(connections)
            BY <2>5, Constants DEF Hold, fd
        <3>3. fd \in Served /\ Served' = Served \ {fd}
            BY <1>1, <1>6, <2>2, <2>5, <3>2
        <3>4. /\ ClientLink' =
                    [c \in Clients |-> IF c \in {fd} THEN "off" ELSE ClientLink[c]]
              /\ ClientReq' = [c \in Clients |-> ClientReq[c] /\ c \notin {fd}]
            <4>1. Hold(connections) \cap Clients \cap {fd}
                      = (Hold(connections) \ Hold(connections')) \cap Clients
                BY <2>2, <3>2
            <4>2. {fd} \cap Clients \subseteq Hold(connections)
                BY <3>2
            <4>3. QED
                BY <4>1, <4>2, DisconnectMaps
        <3>5. \A c \in {fd} : ClientLink[c] \in {"closed", "reset"}
            BY <2>5 DEF ClientLink, fd
        <3>6. \E passed \in Ready \cup {"nobody"} : Ready' = Ready \ ({fd} \cup {passed})
            BY <2>3
        <3>7. Loop!Close({fd})
            BY <1>1, <1>3, <3>1, <3>3, <3>4, <3>5, <3>6 DEF Loop!Close
        <3>8. Loop!Cardinality({fd}) \in 1 .. 2
            <4>1. Cardinality({fd}) = 1
                BY FS_Singleton
            <4>2. QED
                BY <4>1, LoopCardinality
        <3>9. QED
            BY <2>5, <3>7, <3>8 DEF Loop!Next
    <2>6. QED
        BY <2>2, <2>4, <2>5
<1>9. QED
    BY <1>7, <1>8

(* A descriptor's event is handled, the array stays as it is. *)
LEMMA AnswerMaps ==
    ASSUME IInv, NEW slot \in Slots, Answer(slot)
    PROVE  Loop!Next
<1> DEFINE fd == connections[slot].fd
<1>1. /\ i = slot /\ i' = i + 1 /\ ~ended /\ ended' = ended /\ slot >= i
      /\ UNCHANGED <<pending, command>>
      /\ connections[slot].revents # {} /\ slot # LISTENING_SOCKET
      /\ slot # STDIN_SOCKET /\ i \in Slots /\ i > 0 /\ req[fd]
    BY Constants DEF Answer, Reads, At, LISTENING_SOCKET
<1>2. /\ fd \in Peers
      /\ "hup" \in connections[slot].revents => link[fd] = "reset"
    BY <1>1, EventOfPeer
<1>3. CASE HungUp(connections, slot)
    <2>1. fd \in Clients => link[fd] \in {"closed", "reset"}
        BY <1>2, <1>3 DEF HungUp
    <2>2. connections' = Closed(connections, i) /\ Disconnect(connections, connections')
        BY <1>1, <1>3 DEF Answer
    <2>3. QED
        BY <1>1, <1>2, <2>1, <2>2, CloseMaps
<1>4. CASE ~HungUp(connections, slot)
    <2>1. UNCHANGED <<connections, link>> /\ req' = [req EXCEPT ![fd] = FALSE]
        BY <1>4 DEF Answer
    <2>2. fd \in Ready /\ Ready' = Ready \ {fd} /\ UNCHANGED <<Room, Served>>
        BY <1>1, <2>1, OneSlotOn, SameArray
    <2>3. ClientLink' = ClientLink
        BY <2>1 DEF ClientLink
    <2>4. CASE fd = "server"
        <3>1. ClientReq' = ClientReq
            BY <2>1, <2>4, Constants DEF ClientReq, IInv, TypeOK
        <3>2. Loop!HandleOwn
            BY <1>1, <2>2, <2>3, <2>4, <3>1 DEF Loop!HandleOwn, Loop!Own
        <3>3. QED
            BY <3>2 DEF Loop!Next
    <2>5. CASE fd \in Clients
        <3>1. ClientReq' = [ClientReq EXCEPT ![fd] = FALSE] /\ ClientReq[fd]
            BY <1>1, <2>1, <2>5, Constants DEF ClientReq, IInv, TypeOK
        <3>2. fd \in Served /\ "listen" \notin Ready
            BY <1>1, <2>5, MappedState, Constants DEF Hold
        <3>3. Loop!Answer(fd)
            BY <1>1, <2>2, <2>3, <3>1, <3>2 DEF Loop!Answer
        <3>4. QED
            BY <2>5, <3>3 DEF Loop!Next
    <2>6. QED
        BY <1>2, <2>4, <2>5, Constants
<1>5. QED
    BY <1>3, <1>4

(* The stream in a slot has ended, and perhaps the one that moves in, too. *)
LEMMA CloseDeadMaps ==
    ASSUME IInv, NEW slot \in Slots, CloseDead(slot)
    PROVE  Loop!Next
<1> DEFINE fd == connections[slot].fd
           fd2 == connections[slot + 1].fd
<1>1. /\ i = slot /\ i' = i + 1 /\ ~ended /\ ended' = ended
      /\ UNCHANGED <<pending, command>>
      /\ connections[slot].revents # {}
      /\ i \in Slots /\ i > 0
      /\ Disconnect(connections, connections')
    BY Constants DEF CloseDead, Reads, At, LISTENING_SOCKET
<1>2. fd \in Peers /\ link[fd] \in {"closed", "reset"}
    BY CloseDeadCloses
<1>3. CASE connections' = Closed(connections, slot)
    BY <1>1, <1>2, <1>3, CloseMaps
<1>4. CASE /\ slot > STDIN_SOCKET /\ slot + 1 \in Slots
           /\ connections[slot + 1].fd \in Peers
           /\ connections[slot + 1].revents # {}
           /\ link[connections[slot + 1].fd] = "reset"
           /\ Closed(connections, slot)[slot] = connections[slot + 1]
           /\ connections' = Closed(Closed(connections, slot), slot)
    <2> DEFINE c == Closed(connections, slot)
               n == nSockets
    <2>1. /\ CompactArray(connections, n)
          /\ Room = SOCKETS_NUMBER - Base(connections)
          /\ Ready = ReadyFrom(connections, slot)
          /\ NoIdleEvents(connections, slot)
          /\ Served = Hold(connections) \cap Clients
          /\ "listen" \notin Ready
        BY <1>1, MappedState
    <2>2. /\ slot \in Nat /\ slot >= 3 /\ slot + 1 \in Nat /\ slot + 2 \in Nat
          /\ n \in Nat
        BY <1>4, <2>1, SlotKinds, Constants DEF STDIN_SOCKET
    <2>3. slot \in STDIN_SOCKET .. n - 1 /\ slot + 1 < n
        <3>1. slot < n /\ slot + 1 < n
            BY <1>1, <1>2, <1>4, <2>1, <2>2, SlotKinds, Constants DEF Free
        <3>2. QED
            BY <2>2, <3>1 DEF STDIN_SOCKET
    <2>4. slot \in STDIN_SOCKET .. (n - 1) - 1
        BY <2>2, <2>3 DEF STDIN_SOCKET
    <2>5. /\ CompactArray(c, n - 1) /\ Base(c) = Base(connections)
          /\ Hold(c) = Hold(connections) \ {fd} /\ fd \in Clients \cup {"stdin"}
        BY <2>1, <2>2, <2>3, ClosedStaysCompact DEF STDIN_SOCKET
    <2> HIDE DEF c
    <2>6. /\ Base(connections') = Base(c)
          /\ Hold(connections') = Hold(c) \ {fd2} /\ fd2 \in Clients \cup {"stdin"}
        <3>1. connections' = Closed(c, slot) /\ c[slot].fd = fd2
            BY <1>4 DEF c
        <3>2. QED
            BY <2>2, <2>4, <2>5, <3>1, ClosedStaysCompact DEF STDIN_SOCKET
    <2>7. fd \in Clients /\ fd2 \in Clients
        BY <1>2, <1>4, <2>5, <2>6, Constants
    <2>8. Ready' = ReadyFrom(connections, slot + 3)
        <3>1. Ready' = ReadyFrom(connections', slot + 1)
            BY <1>1 DEF Ready, ReadyFrom, Fd
        <3>2. NoIdleEvents(c, slot)
            BY <2>1, <2>2, <2>3, ReadyShifted DEF c
        <3>3. ReadyFrom(Closed(c, slot), slot + 1) = ReadyFrom(c, slot + 2)
            <4>1. (slot + 1) + 1 = slot + 2 /\ slot + 1 >= slot
                BY <2>2
            <4>2. QED
                BY <2>2, <2>4, <2>5, <3>2, <4>1, ReadyShifted
        <3>4. ReadyFrom(c, slot + 2) = ReadyFrom(connections, slot + 3)
            <4>1. (slot + 2) + 1 = slot + 3 /\ slot + 2 >= slot
                BY <2>2
            <4>2. QED
                BY <2>1, <2>2, <2>3, <4>1, ReadyShifted DEF c
        <3>5. QED
            BY <1>4, <3>1, <3>3, <3>4 DEF c
    <2>9. /\ fd \in Ready /\ fd2 \in Ready
          /\ \E passed \in Ready : Ready' = Ready \ {fd, fd2, passed}
        <3>1. /\ NoIdleEvents(connections, slot + 1)
              /\ NoIdleEvents(connections, slot + 2)
            BY <2>1, <2>2, Constants DEF NoIdleEvents
        <3>2. fd \in Ready /\ ReadyFrom(connections, slot + 1) = Ready \ {fd}
            BY <1>1, <2>1, ReadyNext
        <3>3. (slot + 1) + 1 = slot + 2 /\ (slot + 2) + 1 = slot + 3
            BY <2>2
        <3>4. /\ fd2 \in ReadyFrom(connections, slot + 1)
              /\ ReadyFrom(connections, slot + 2) =
                    ReadyFrom(connections, slot + 1) \ {fd2}
            BY <1>4, <2>1, <3>1, <3>3, ReadyNext
        <3>5. \/ Ready' = ReadyFrom(connections, slot + 2)
              \/ \E p \in ReadyFrom(connections, slot + 2) :
                    Ready' = ReadyFrom(connections, slot + 2) \ {p}
            BY <2>1, <2>2, <2>8, <3>1, <3>3, ReadyPassed
        <3>6. CASE Ready' = (Ready \ {fd}) \ {fd2}
            BY <3>2, <3>4, <3>6
        <3>7. CASE \E p \in (Ready \ {fd}) \ {fd2} :
                        Ready' = ((Ready \ {fd}) \ {fd2}) \ {p}
            BY <3>2, <3>4, <3>7
        <3>8. QED
            BY <3>2, <3>4, <3>5, <3>6, <3>7
    <2> HIDE DEF fd, fd2
    <2>10. Room' = Room
        <3>1. Room' = SOCKETS_NUMBER - Base(connections')
            BY <1>1 DEF Room, Base, StdinInPlace, Fd
        <3>2. QED
            BY <2>1, <2>5, <2>6, <3>1
    <2>11. /\ {fd, fd2} \subseteq Hold(connections)
           /\ Hold(connections') = Hold(connections) \ {fd, fd2}
        BY <1>2, <1>4, <2>5, <2>6 DEF Hold, fd, fd2
    <2>12. /\ {fd, fd2} \subseteq Served /\ Served' = Served \ {fd, fd2}
        BY <2>1, <2>7, <2>11 DEF Served
    <2>13. /\ ClientLink' =
                [c2 \in Clients |-> IF c2 \in {fd, fd2} THEN "off" ELSE ClientLink[c2]]
           /\ ClientReq' = [c2 \in Clients |-> ClientReq[c2] /\ c2 \notin {fd, fd2}]
        <3>1. Hold(connections) \cap Clients \cap {fd, fd2}
                  = (Hold(connections) \ Hold(connections')) \cap Clients
            BY <2>11
        <3>2. {fd, fd2} \cap Clients \subseteq Hold(connections)
            BY <2>11
        <3>3. QED
            BY <1>1, <3>1, <3>2, DisconnectMaps
    <2>14. \A c2 \in {fd, fd2} : ClientLink[c2] \in {"closed", "reset"}
        BY <1>2, <1>4, <2>7 DEF ClientLink, fd, fd2
    <2>15. \E passed \in Ready \cup {"nobody"} :
               Ready' = Ready \ ({fd, fd2} \cup {passed})
        <3>1. \A p : {fd, fd2, p} = {fd, fd2} \cup {p}
            OBVIOUS
        <3>2. QED
            BY <2>9, <3>1
    <2>16. Loop!Close({fd, fd2})
        BY <1>1, <2>1, <2>9, <2>10, <2>12, <2>13, <2>14, <2>15 DEF Loop!Close
    <2>17. Loop!Cardinality({fd, fd2}) \in 1 .. 2
        <3>1. /\ Cardinality({fd}) = 1 /\ IsFiniteSet({fd})
              /\ {fd, fd2} = {fd} \cup {fd2}
            BY FS_Singleton
        <3>2. Cardinality({fd} \cup {fd2}) \in 1 .. 2
            BY <3>1, FS_AddElement
        <3>3. QED
            BY <3>1, <3>2, LoopCardinality
    <2>18. QED
        BY <2>7, <2>16, <2>17 DEF Loop!Next
<1>5. QED
    BY <1>3, <1>4, CloseDeadCloses

LEMMA HangUpMaps == IInv /\ HangUp => Loop!Next
<1> SUFFICES ASSUME IInv, HangUp PROVE Loop!Next
    OBVIOUS
<1>1. /\ ~ended /\ i \in Slots /\ "hup" \in connections[i].revents /\ i > 0
      /\ connections[i].revents # {} /\ i >= i /\ i # LISTENING_SOCKET
      /\ UNCHANGED <<pending, command, ended>> /\ i' = i + 1
      /\ connections' = Closed(connections, i)
      /\ Disconnect(connections, connections')
    BY Constants DEF HangUp, LISTENING_SOCKET
<1>2. /\ connections[i].fd \in Peers \cup {"stdin"}
      /\ connections[i].fd \in Peers => link[connections[i].fd] = "reset"
    BY <1>1, EventOfPeer
<1>3. connections[i].fd \in Clients => link[connections[i].fd] \in {"closed", "reset"}
    BY <1>2, Constants
<1>4. QED
    BY <1>1, <1>2, <1>3, CloseMaps

LEMMA CommandMaps == IInv /\ Command => Loop!Next
<1> SUFFICES ASSUME IInv, Command PROVE Loop!Next
    OBVIOUS
<1>1. /\ i = 2 /\ i' = i + 1 /\ ~ended /\ i \in Slots /\ i > 0
      /\ CompactArray(connections, nSockets)
      /\ connections[2].revents # {}
    BY CommandCases
<1>2. CASE Terminate
    <2>1. Served' = {} /\ Ready' = {}
        BY <1>2, Constants DEF Terminate, Served, Hold, Ready, Free
    <2>2. Room' = SOCKETS_NUMBER - FirstClient
        BY <1>2 DEF Terminate, Room
    <2>3. /\ ClientLink' = [c \in Clients |-> "off"]
          /\ ClientReq' = [c \in Clients |-> FALSE]
        BY <1>2, Constants DEF Terminate, ClientLink, ClientReq
    <2>4. Loop!End
        BY <1>1, <1>2, <2>1, <2>2, <2>3 DEF Loop!End, Terminate
    <2>5. QED
        BY <2>4 DEF Loop!Next
<1>3. CASE /\ UNCHANGED <<connections, nSockets, link, req, pending, ended>>
           /\ IF connections[2].fd = "stdin" THEN command' = NoCommand
              ELSE command' = command /\ connections[2].fd \in Peers
    <2>1. /\ connections[2].fd \in Ready /\ Ready' = Ready \ {connections[2].fd}
          /\ UNCHANGED <<Room, Served>>
        BY <1>1, <1>3, OneSlotOn, SameArray
    <2>2. UNCHANGED <<ClientLink, ClientReq>>
        BY <1>3 DEF ClientLink, ClientReq
    <2>3. CASE connections[2].fd = "stdin"
        <3>1. Loop!HandleOwn
            BY <1>3, <2>1, <2>2, <2>3 DEF Loop!HandleOwn, Loop!Own
        <3>2. QED
            BY <3>1 DEF Loop!Next
    <2>4. CASE connections[2].fd # "stdin"
        <3>1. connections[2].fd \in Clients
            BY <1>1, <1>3, <2>4, SlotKinds, Constants DEF Free
        <3>2. connections[2].fd \in Served /\ "listen" \notin Ready
            BY <1>1, <3>1, MappedState, Constants DEF Hold
        <3>3. Loop!PutOff(connections[2].fd)
            BY <1>3, <2>1, <2>2, <3>2 DEF Loop!PutOff
        <3>4. QED
            BY <3>1, <3>3 DEF Loop!Next
    <2>5. QED
        BY <2>3, <2>4
<1>4. CASE /\ connections[2].fd \in Peers /\ link[connections[2].fd] = "reset"
           /\ connections' = Closed(connections, 2) /\ nSockets' = nSockets - 1
           /\ Disconnect(connections, connections')
           /\ UNCHANGED <<pending, command, ended>>
    BY <1>1, <1>4, CloseMaps
<1>5. QED
    BY <1>2, <1>3, <1>4, CommandCases

LEMMA EnvironmentMaps == IInv /\ Environment => [Loop!Next]_(Loop!vars)
<1> SUFFICES ASSUME IInv, Environment PROVE [Loop!Next]_(Loop!vars)
    OBVIOUS
<1>1. UNCHANGED serverVars /\ UNCHANGED ended
    BY DEF Environment, Connect, Send, Leave, TypeCommand
<1>2. UNCHANGED <<Room, Served, Ready>>
    BY <1>1 DEF serverVars, Room, Served, Ready, StdinInPlace, Fd, Hold
<1>3. link \in [Peers -> {"off", "up", "closed", "reset"}] /\ req \in [Peers -> BOOLEAN]
    BY DEF IInv, TypeOK
<1>4. ASSUME NEW c \in Clients, Connect(c) PROVE Loop!Connect(c)
    <2>1. ClientLink[c] = "off" /\ ClientLink' = [ClientLink EXCEPT ![c] = "up"]
        BY <1>3, <1>4, Constants DEF Connect, ClientLink
    <2>2. ClientReq' = ClientReq
        BY <1>4 DEF Connect, ClientReq
    <2>3. QED
        BY <1>1, <1>2, <1>4, <2>1, <2>2 DEF Connect, Loop!Connect
<1>5. ASSUME NEW p \in Peers, Send(p), p \in Clients PROVE Loop!Send(p)
    <2>1. /\ ClientLink[p] = "up" /\ ~ClientReq[p]
          /\ ClientReq' = [ClientReq EXCEPT ![p] = TRUE]
          /\ ClientLink' = ClientLink
        BY <1>3, <1>5, Constants DEF Send, ClientLink, ClientReq
    <2>2. QED
        BY <1>1, <1>2, <1>5, <2>1 DEF Send, Loop!Send
<1>6. ASSUME NEW p \in Peers, Leave(p), p \in Clients PROVE Loop!Leave(p)
    <2>1. ClientReq' = ClientReq /\ ClientLink[p] = link[p]
        BY <1>6 DEF Leave, ClientReq, ClientLink
    <2>2. \A l : link' = [link EXCEPT ![p] = l] =>
                 ClientLink' = [ClientLink EXCEPT ![p] = l]
        BY <1>3, <1>6, Constants DEF ClientLink
    <2>3. QED
        BY <1>1, <1>2, <1>6, <2>1, <2>2 DEF Leave, Loop!Leave
<1>7. ASSUME NEW p \in Peers, Send(p) \/ Leave(p), p \notin Clients
      PROVE  UNCHANGED Loop!vars
    <2>1. p = "server"
        BY <1>7, Constants
    <2>2. \A c \in Clients : link'[c] = link[c] /\ req'[c] = req[c]
        BY <1>3, <1>7, <2>1, Constants DEF Send, Leave
    <2>3. UNCHANGED <<ClientLink, ClientReq>>
        BY <2>2 DEF ClientLink, ClientReq
    <2>4. QED
        BY <1>1, <1>2, <1>7, <2>3 DEF Loop!vars, Send, Leave
<1>8. CASE TypeCommand
    BY <1>1, <1>2, <1>8 DEF TypeCommand, Loop!vars, ClientLink, ClientReq
<1>9. QED
    BY <1>4, <1>5, <1>6, <1>7, <1>8, Constants DEF Environment, Loop!Next

(* What the loop over the array does for its clients is what ServerLoop    *)
(* says of sets of clients, for every number of slots and clients, and     *)
(* also after stdin has hung up.                                           *)
THEOREM ArrayIsServerLoop == Spec => IsServerLoop
<1>1. Init => Loop!Init
    BY InitMaps
<1>2. IInv /\ [Next]_vars => [Loop!Next]_(Loop!vars)
    <2> SUFFICES ASSUME IInv, [Next]_vars PROVE [Loop!Next]_(Loop!vars)
        OBVIOUS
    <2>1. CASE UNCHANGED vars
        BY <2>1 DEF vars, serverVars, Loop!vars, Room, Served, Ready, ClientLink,
                    ClientReq, StdinInPlace, Fd, Hold
    <2>2. CASE ServerStep
        <3>1. CASE Poll
            BY <3>1, PollMaps DEF Loop!Next
        <3>2. CASE \E slot \in Slots : Answer(slot) \/ CloseDead(slot)
            BY <3>2, AnswerMaps, CloseDeadMaps
        <3>3. QED
            BY <2>2, <3>1, <3>2, ListenMaps, PassMaps, CommandMaps, HangUpMaps
               DEF ServerStep
    <2>3. QED
        BY <2>1, <2>2, EnvironmentMaps DEF Next
<1>3. Spec => []IInv
    BY InitEstablishes, Inductive, PTL DEF Spec
<1>4. QED
    BY <1>1, <1>2, <1>3, PTL DEF Spec, IsServerLoop, Loop!Spec
=============================================================================
