--------------------------- MODULE ClientFailover ---------------------------
(***************************************************************************)
(* A client and the two servers: main of src/source/table-client.c, the    *)
(* calls of src/source/client_stub.c, and network_send_receive and         *)
(* switch_server of src/source/network_client.c, which repeat a request at *)
(* the other server.  What a server writes, its greeting and its replies,  *)
(* are bytes: the client may read one for the other.                       *)
(*                                                                         *)
(* The servers are those ReplicatedMap promises: B has what A has answered *)
(* for.  A server that restarts has the entries of the other one, some of  *)
(* them, or no tables (Recovery).                                          *)
(***************************************************************************)
EXTENDS MessageFormat, FiniteSets

CONSTANTS
    Keys, Values,       \* keys, and data as sequences of bytes
    MAX_TENTATIVA,      \* of network_client.c
    MaxBinds,           \* MAX_TENTATIVA of table-client.c
    MaxCalls,           \* bound on the commands of the user
    MaxRestarts         \* bound on the restarts of servers

(* The size of a table and the size of a message are ints. *)
ASSUME ClientFailoverAssumption ==
    /\ IsFiniteSet(Keys) /\ Cardinality(Keys) \in IntRange
    /\ Values \subseteq Seq(Byte) \ {<<>>}
    /\ \A v \in Values : 10 + Len(v) \in IntRange
    /\ {MAX_TENTATIVA, MaxBinds} \subseteq Nat \ {0}
    /\ MaxCalls \in Nat /\ MaxRestarts \in Nat

Servers == {"A", "B"}
Other(s) == IF s = "A" THEN "B" ELSE "A"

(* What each server greets with: argc - 3.  A has one table. *)
Greeting(s) == IF s = "A" THEN 1 ELSE -1

(* A call of the user: its table, 0 or one that does not exist. *)
Call(op, t, k, v) == [op |-> op, table |-> t, key |-> k, value |-> v]
Calls ==
    {Call(op, 0, k, v) : op \in {"put", "update"}, k \in Keys, v \in Values} \cup
    {Call("get", 0, k, <<>>) : k \in Keys} \cup
    {Call("size", t, <<>>, <<>>) : t \in {0, 1}}

NoCall == Call("none", 0, <<>>, <<>>)
Nobody == "nobody"      \* a socket that is connected to no server
NoTables == [k \in {<<>>} |-> <<>>]

Tables == (UNION {[K -> Values] : K \in SUBSET Keys}) \cup {NoTables}

(* messgerror *)
Error == Message(99, CT_RESULT, 0, -1)

(* What network_send_receive returns, as the bytes it has been decoded     *)
(* from: NULL, and what has been decoded from bytes never received.        *)
NULL == <<>>
Garbage == <<0>>

VARIABLES
    up,             \* the servers that run
    table,          \* what each holds
    original,       \* is A still the process that started the pair?
    at,             \* the server the client's socket is connected to
    link,           \* that connection: "none", "new", "accepted", or "cut"
                    \* when the server's process is gone
    stream,         \* the bytes on their way to the client
    wire,           \* the requests on their way to the server
    left,           \* for each server the requests on connections that the
                    \* client has closed
    cPos,           \* "bind", "greeting" in rtables_bind; "idle" at the prompt;
                    \* "send", "size", "body" in network_send_receive;
                    \* "unbound" after rtables_unbind, "undefined" when a
                    \* command follows; "stuck", "ended", "dead"
    binds,          \* tentativas of main
    n_tables,       \* what the client takes for the number of tables
    call, tries,    \* the call it is in, and tentativas
    rSize,          \* the length it has read
    got,            \* the bytes of the message the last call got
    reply,          \* the bytes of the last reply a server made to this call
    applied,        \* how often this call changed the table of each server
    calls, restarts

serverVars == <<up, table, original>>
connVars == <<at, link, stream, wire, left>>
callVars == <<call, got, reply, applied, calls>>
vars == <<serverVars, connVars, cPos, binds, n_tables, tries, rSize, callVars, restarts>>

Init ==
    /\ up = Servers /\ original = TRUE
    /\ \E m \in Tables \ {NoTables} : table = [s \in Servers |-> m]
    /\ at = Nobody /\ link = "none" /\ stream = <<>> /\ wire = <<>>
    /\ left = [s \in Servers |-> <<>>]
    /\ cPos = "bind" /\ binds = 0 /\ n_tables = 0
    /\ call = NoCall /\ tries = 0 /\ rSize = 0
    /\ got = NULL /\ reply = NULL /\ applied = [s \in Servers |-> 0]
    /\ calls = 0 /\ restarts = 0
-----------------------------------------------------------------------------
(* Slip: a put replaces what is there. *)
AcceptsPutAgain(m, c) ==
    /\ m # NoTables
    /\ c.op = "update" => c.key \in DOMAIN m

(* invoke, on one table. *)
Accepts(m, c) ==
    /\ m # NoTables
    /\ c.op = "put" => c.key \notin DOMAIN m
    /\ c.op = "update" => c.key \in DOMAIN m

Writes(m, c) == c.op \in {"put", "update"} /\ Accepts(m, c)

After(m, c) ==
    IF Writes(m, c)
    THEN [k \in DOMAIN m \cup {c.key} |-> IF k = c.key THEN c.value ELSE m[k]]
    ELSE m

Answer(m, c) ==
    IF ~Accepts(m, c) THEN Error
    ELSE CASE c.op = "get" -> Message(31, CT_VALUE, c.table, m[c.key])
           [] c.op = "size" -> Message(11, CT_RESULT, c.table, Cardinality(DOMAIN m))
           [] c.op = "put" -> Message(41, CT_RESULT, c.table, 0)
           [] c.op = "update" -> Message(21, CT_RESULT, c.table, 0)

Misses(m, c) == m # NoTables /\ c.op = "get" /\ c.key \notin DOMAIN m

(* The server s applies the request c, and so does B if s is the A it      *)
(* follows.  It may be one of an earlier call, still on the wire.          *)
Applied(s, c, also) ==
    LET on == {x \in {s} \cup also : Writes(table[x], c)}
    IN  /\ table' = [x \in Servers |-> IF x \in on THEN After(table[x], c) ELSE table[x]]
        /\ applied' = [x \in Servers |->
                          IF x \in on /\ c = call THEN applied[x] + 1 ELSE applied[x]]

(* The server that follows s.  One that has restarted, or was promoted,    *)
(* may have a follower or none.                                            *)
Followers(s) ==
    IF s = "A" /\ original THEN {up \cap {"B"}} ELSE {{}, up \cap {Other(s)}}

(* main of the server: accept, and write_all of num_tables. *)
Greet ==
    /\ link = "new"
    /\ link' = "accepted"
    /\ stream' = stream \o IntBytes(Greeting(at))
    /\ UNCHANGED <<serverVars, at, wire, left, cPos, binds, n_tables, tries, rSize,
                   callVars, restarts>>

(* network_receive_send. *)
Serve ==
    /\ link = "accepted" /\ wire # <<>>
    /\ ~Misses(table[at], Head(wire))
    /\ \E also \in Followers(at) : Applied(at, Head(wire), also)
    /\ reply' = Encode(Answer(table[at], Head(wire)))
    /\ stream' = stream \o IntBytes(Len(reply')) \o reply'
    /\ wire' = Tail(wire)
    /\ UNCHANGED <<up, original, at, link, left, cPos, binds, n_tables, tries, rSize,
                   call, got, calls, restarts>>

Dies(s) ==
    /\ up' = up \ {s}
    /\ link' = IF at = s /\ link # "none" THEN "cut" ELSE link
    /\ left' = [left EXCEPT ![s] = <<>>]

(* A request whose connection the client has closed is served like any     *)
(* other, in whatever order the loop comes to it, or ends the server.  It  *)
(* may never be: a reset takes what is not read yet.                       *)
ServeLeft(s) ==
    /\ \E j \in DOMAIN left[s] :
          \/ /\ ~Misses(table[s], left[s][j])
             /\ \E also \in Followers(s) : Applied(s, left[s][j], also)
             /\ left' = [left EXCEPT ![s] = RemoveAt(@, j)]
             /\ UNCHANGED <<up, link>>
          \/ /\ \E also \in {{}} \cup Followers(s) : Applied(s, left[s][j], also)
             /\ Dies(s)
    /\ UNCHANGED <<original, at, stream, wire, cPos, binds, n_tables, tries, rSize,
                   call, got, reply, calls, restarts>>

(* A get of a key that is not stored ends the server. *)
ServeMiss ==
    /\ link = "accepted" /\ wire # <<>>
    /\ Misses(table[at], Head(wire))
    /\ Dies(at)
    /\ UNCHANGED <<table, original, at, stream, wire, cPos, binds, n_tables,
                   tries, rSize,
                   callVars, restarts>>

(* The server dies with a request on the wire: before it applies it, after *)
(* it or after the follower has too.                                       *)
ServeDies ==
    /\ link = "accepted" /\ wire # <<>>
    /\ \E also \in {{}} \cup Followers(at) : Applied(at, Head(wire), also)
    /\ Dies(at)
    /\ UNCHANGED <<original, at, stream, wire, cPos, binds, n_tables, tries, rSize,
                   call, got, reply, calls, restarts>>

(* A server dies, and what it has written may be cut anywhere. *)
Crash(s) ==
    /\ s \in up
    /\ Dies(s)
    /\ IF at = s THEN \E k \in 0 .. Len(stream) : stream' = SubSeq(stream, 1, k)
       ELSE UNCHANGED stream
    /\ UNCHANGED <<table, original, at, wire, cPos, binds, n_tables, tries, rSize,
                   callVars, restarts>>

(* update_state of a server whose ip file is still there. *)
Restart(s) ==
    /\ s \notin up /\ restarts < MaxRestarts
    /\ restarts' = restarts + 1
    /\ up' = up \cup {s}
    /\ original' = (original /\ s # "A")
    /\ \/ table' = [table EXCEPT ![s] = NoTables] /\ applied' = [applied EXCEPT ![s] = 0]
       \/ /\ Other(s) \in up
          /\ \E K \in SUBSET DOMAIN table[Other(s)] :
                /\ table' = [table EXCEPT ![s] = [k \in K |-> table[Other(s)][k]]]
                /\ applied' = [applied EXCEPT
                                 ![s] = IF call.key \in K THEN applied[Other(s)] ELSE 0]
    /\ UNCHANGED <<connVars, cPos, binds, n_tables, tries, rSize, call, got,
                   reply, calls>>
-----------------------------------------------------------------------------
(* The client closes its connection.  A server that lives still has what   *)
(* was written to it.                                                      *)
Leaves ==
    left' = IF link \in {"new", "accepted"} THEN [left EXCEPT ![at] = @ \o wire]
            ELSE left

(* network_connect and, of the old connection, network_close. *)
ConnectTo(s) ==
    Leaves /\ at' = s /\ link' = "new" /\ stream' = <<>> /\ wire' = <<>>

(* rtables_unbind *)
Unbound ==
    Leaves /\ at' = Nobody /\ link' = "none" /\ stream' = <<>> /\ wire' = <<>>

(* rtables_bind, at the primary, and if that fails at the other one. *)
Bind ==
    /\ cPos = "bind"
    /\ \/ "A" \in up /\ ConnectTo("A")
       \/ "A" \notin up /\ "B" \in up /\ ConnectTo("B")
    /\ cPos' = "greeting"
    /\ UNCHANGED <<serverVars, binds, n_tables, tries, rSize, callVars, restarts>>

BindFails ==
    /\ cPos = "bind" /\ up = {}
    /\ binds' = binds + 1
    /\ cPos' = IF binds + 1 < MaxBinds THEN "bind" ELSE "ended"
    /\ UNCHANGED <<serverVars, connVars, n_tables, tries, rSize, callVars, restarts>>

Has(n) == Len(stream) >= n
Rest(n) == SubSeq(stream, n + 1, Len(stream))
AtEnd(n) == link = "cut" /\ ~Has(n)

(* Slip: the greeting is looked at, and stays in the stream. *)
ReadGreetingKept ==
    /\ cPos = "greeting" /\ Has(4)
    /\ n_tables' = IntAt(stream, 1)
    /\ cPos' = "idle"
    /\ UNCHANGED <<serverVars, connVars, binds, tries, rSize, callVars, restarts>>

ReadGreeting ==
    /\ cPos = "greeting" /\ Has(4)
    /\ n_tables' = IntAt(stream, 1)
    /\ stream' = Rest(4)
    /\ cPos' = "idle"
    /\ UNCHANGED <<serverVars, at, link, wire, left, binds, tries, rSize, callVars,
                   restarts>>

(* read_all returns 0 at the end, which is not -1: n_tables is any number. *)
ReadGreetingEnds ==
    /\ cPos = "greeting" /\ AtEnd(4)
    /\ n_tables' \in {0, 1}
    /\ cPos' = "idle"
    /\ UNCHANGED <<serverVars, connVars, binds, tries, rSize, callVars, restarts>>

(* A command.  A table number the server does not have, as far as the      *)
(* client knows, makes the call fail at once.                              *)
Command(c) ==
    /\ cPos = "idle" /\ calls < MaxCalls
    /\ calls' = calls + 1
    /\ call' = c /\ got' = NULL /\ reply' = NULL /\ tries' = 0
    /\ applied' = [s \in Servers |-> 0]
    /\ IF n_tables <= c.table THEN cPos' = "unbound" /\ Unbound
       ELSE cPos' = "send" /\ UNCHANGED connVars
    /\ UNCHANGED <<serverVars, binds, n_tables, rSize, restarts>>

(* rtables has been freed, but is not NULL: main does not bind again, and  *)
(* the next command works on what is left.                                 *)
CommandAfterUnbind ==
    /\ cPos = "unbound"
    /\ cPos' = "undefined"
    /\ UNCHANGED <<serverVars, connVars, binds, n_tables, tries, rSize, callVars,
                   restarts>>

(* main leaves its loop with quit. *)
Quit ==
    /\ cPos = "idle"
    /\ cPos' = "ended" /\ Unbound
    /\ UNCHANGED <<serverVars, binds, n_tables, tries, rSize, callVars, restarts>>
-----------------------------------------------------------------------------
(* Where main is after a call that got the bytes m: put and update fail    *)
(* only for NULL; size also when its number is -1; get duplicates the data *)
(* it takes the message to hold.  A message of bytes that were never       *)
(* received may be anything.                                               *)
Outcomes(m) ==
    IF m = NULL THEN {"unbound"}
    ELSE IF m = Garbage THEN {"idle", "unbound", "dead"}
    ELSE LET type == Decode(m)[1].c_type
             minusOne == type = CT_RESULT /\ Decode(m)[1].content = -1
         IN  CASE call.op = "size" -> IF minusOne THEN {"unbound"} ELSE {"idle"}
               [] call.op = "get" ->
                    IF type = CT_VALUE THEN {"idle"} ELSE {"idle", "unbound", "dead"}
               [] OTHER -> {"idle"}

(* The call returns m; the client is at s, with these bytes still to read. *)
Return(m, s, l, rest) ==
    /\ got' = m
    /\ cPos' \in Outcomes(m)
    /\ IF cPos' = "idle"
       THEN /\ at' = s /\ link' = l /\ stream' = rest
            /\ IF s = at THEN UNCHANGED <<wire, left>> ELSE wire' = <<>> /\ Leaves
       ELSE Unbound

(* Slip: attempts are never given up. *)
AttemptForever ==
    /\ tries' = tries + 1
    /\ \/ Other(at) \notin up /\ Return(NULL, at, link, stream)
       \/ Other(at) \in up /\ ConnectTo(Other(at)) /\ cPos' = "send" /\ UNCHANGED got

(* A failed attempt: switch_server.  The greeting of the new server is     *)
(* left in the stream.  If there is no other server the call fails; after  *)
(* the last attempt it gets an error message.                              *)
Attempt ==
    /\ tries' = tries + 1
    /\ \/ Other(at) \notin up /\ Return(NULL, at, link, stream)
       \/ /\ Other(at) \in up /\ tries + 1 < MAX_TENTATIVA
          /\ ConnectTo(Other(at)) /\ cPos' = "send" /\ UNCHANGED got
       \/ /\ Other(at) \in up /\ tries + 1 = MAX_TENTATIVA
          /\ Return(Encode(Error), Other(at), "new", <<>>)

(* Bytes never received, or fewer than a header, decode to nothing or to   *)
(* something.                                                              *)
Misread(rest) ==
    \/ Attempt
    \/ Return(Garbage, at, link, rest) /\ UNCHANGED tries

unchangedByReceive ==
    <<serverVars, binds, n_tables, call, reply, applied, calls, restarts>>

(* write_all of the length and of the message.  On a connection that is    *)
(* gone it may fail; the loop around the first write counts with an i that *)
(* is not initialised.                                                     *)
Send ==
    /\ cPos = "send"
    /\ \/ /\ wire' = IF link = "cut" THEN wire ELSE Append(wire, call)
          /\ cPos' = "size"
          /\ UNCHANGED <<at, link, stream, left, tries, got>>
       \/ link = "cut" /\ Attempt
       \/ /\ link = "cut" /\ tries = 0
          /\ cPos' = "stuck"
          /\ UNCHANGED <<connVars, tries, got>>
    /\ UNCHANGED <<unchangedByReceive, rSize>>

(* The length of the reply; with a negative one malloc fails. *)
ReadSize ==
    /\ cPos = "size" /\ Has(4)
    /\ rSize' = IntAt(stream, 1)
    /\ \/ rSize' < 0 /\ Attempt
       \/ /\ rSize' >= 0
          /\ cPos' = "body" /\ stream' = Rest(4)
          /\ UNCHANGED <<at, link, wire, left, tries, got>>
    /\ UNCHANGED unchangedByReceive

Body == SubSeq(stream, 1, rSize)

ReadBody ==
    /\ cPos = "body" /\ Has(rSize)
    /\ \/ rSize < 6 /\ Misread(Rest(rSize))
       \/ rSize >= 6 /\ Decode(Body) = NoMessage /\ Attempt
       \/ /\ rSize >= 6 /\ Decode(Body) # NoMessage
          /\ Return(Body, at, link, Rest(rSize)) /\ UNCHANGED tries
    /\ UNCHANGED <<unchangedByReceive, rSize>>

(* Slip: only the length is looked at for the end of the stream. *)
ReadEndUnseen ==
    /\ cPos = "size" /\ AtEnd(4)
    /\ Misread(<<>>)
    /\ UNCHANGED <<unchangedByReceive, rSize>>

(* At the end of the stream neither the length nor the message is there,   *)
(* and read_all has not returned -1.                                       *)
ReadEnd ==
    /\ \/ cPos = "size" /\ AtEnd(4)
       \/ cPos = "body" /\ AtEnd(rSize)
    /\ Misread(<<>>)
    /\ UNCHANGED <<unchangedByReceive, rSize>>
-----------------------------------------------------------------------------
ClientStep ==
    \/ Bind \/ BindFails \/ ReadGreeting \/ ReadGreetingEnds
    \/ Send \/ ReadSize \/ ReadBody \/ ReadEnd

ServerStep == Greet \/ Serve \/ ServeMiss

Environment ==
    \/ ServeDies
    \/ \E s \in Servers : ServeLeft(s) \/ Crash(s) \/ Restart(s)
    \/ \E c \in Calls : Command(c)
    \/ CommandAfterUnbind \/ Quit

Next == ClientStep \/ ServerStep \/ Environment

Spec == Init /\ [][Next]_vars

(* The programs run; the user need not type, and no server need die.       *)
FairSpec == Spec /\ WF_vars(ClientStep) /\ WF_vars(ServerStep)
-----------------------------------------------------------------------------
Calling == cPos \in {"send", "size", "body"}

TypeOK ==
    /\ up \subseteq Servers /\ table \in [Servers -> Tables] /\ original \in BOOLEAN
    /\ at \in Servers \cup {Nobody} /\ link \in {"none", "new", "accepted", "cut"}
    /\ stream \in Seq(Byte) /\ wire \in Seq(Calls) /\ left \in [Servers -> Seq(Calls)]
    /\ cPos \in {"bind", "greeting", "idle", "send", "size", "body", "unbound",
                 "undefined", "stuck", "ended", "dead"}
    /\ binds \in 0 .. MaxBinds /\ n_tables \in {-1, 0, 1}
    /\ call \in Calls \cup {NoCall} /\ tries \in 0 .. MAX_TENTATIVA
    /\ rSize \in IntRange
    /\ calls \in 0 .. MaxCalls /\ restarts \in 0 .. MaxRestarts

(* As long as the client has not lost a server, each call gets the answer  *)
(* to itself: nothing is left in the stream when it returns                *)
(* (network_send_receive and network_receive_send in turn).                *)
AnswersInStep ==
    cPos = "idle" /\ at = "A" /\ original /\ "A" \in up =>
        /\ stream = <<>> /\ wire = <<>>
        /\ call # NoCall => got = reply

(* A put that is repeated at the other server takes effect there once, in  *)
(* one life of that server, whether or not the first one passed it on.     *)
PutOnce == call.op = "put" => \A s \in Servers : applied[s] <= 1

(* A call ends, whichever servers die while it is made, as long as none    *)
(* restarts; or it is caught in the loop around write_all                  *)
(* (network_client.c:116).                                                 *)
CallReturns == Calling /\ restarts = 0 ~> ~Calling \/ restarts > 0

(* network_send_receive is to "receber uma resposta do servidor" and to    *)
(* return it, or NULL (network_client.h:21).  After a restart the greeting *)
(* that switch_server leaves in the stream moves the lengths the client    *)
(* reads, and it may wait for bytes nobody sends.                          *)
EveryCallReturns == Calling ~> ~Calling

(* The documentation of rtables_bind asks for "uma forma de descobrir      *)
(* quantas tabelas existem no servidor" (client_stub.c:7): bound to a      *)
(* server that runs, the client knows their number.                        *)
BoundKnowsTables ==
    cPos = "idle" /\ call = NoCall /\ at \in up => n_tables = 1

(* What rtables_put and rtables_update return.                             *)
Returned == IF got = NULL THEN -1 ELSE 0

(* The documentation of rtables_put: it "Devolve 0 (ok) ou -1 (problemas)" *)
(* (client_stub.c:65).                                                     *)
RefusalReported ==
    cPos = "idle" /\ call.op = "put" /\ reply = Encode(Error) => Returned = -1

(* The documentation of network_send_receive: it returns "a mensagem       *)
(* obtida como resposta ou NULL em caso de erro" (network_client.h:22).    *)
ResponseOrNull == cPos = "idle" /\ got = Encode(Error) => reply = got

(* The comment of main: rtables is to be set to NULL in all errors ("POR A *)
(* NULL EM TODOS OS ERROS", table-client.c:32), so that it binds again and *)
(* no command works on one that was freed.                                 *)
BindsAgain == cPos # "undefined"
=============================================================================
