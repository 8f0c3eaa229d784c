------------------------------ MODULE Recovery ------------------------------
(***************************************************************************)
(* A restarted server R asks the survivor S for its tables: update_state   *)
(* and hello of src/source/primary_backup.c, the HELLO branch of           *)
(* network_receive_send (src/source/table-server.c) and get_tbl_keys       *)
(* (src/source/table-skel.c).                                              *)
(*                                                                         *)
(* R connects as a client does, so S first writes its number of tables.  R *)
(* does not know of that greeting and reads it as the length of a message. *)
(* What S writes is therefore kept as the bytes of the stream; what R      *)
(* writes is read message by message.                                      *)
(*                                                                         *)
(* Undefined behaviour is a choice: a double free, and a write behind the  *)
(* end of an allocation, end the process or do nothing.                    *)
(***************************************************************************)
EXTENDS MessageFormat

CONSTANTS
    TableCounts,    \* the numbers of tables S may have: argc - 3 of the server
                    \* that had arguments, -1 for one that was promoted
    Contents,       \* what S may hold: pairs with the number of their table,
                    \* in the order in which get_tbl_keys lists them
    TableSize,      \* the size of each table, as a string
    Crashes         \* may the servers die?

Pair == [table : Nat, key : Seq(Byte \ {0}), value : Seq(Byte) \ {<<>>}]

(* With 10 to 13 tables R would read a message of 0 bytes and decode what  *)
(* happens to be on its heap.  The size of a table has the digits of an    *)
(* int, and a pair fits into a message.                                    *)
ASSUME RecoveryAssumption ==
    /\ TableCounts \subseteq {-1} \cup ((1 .. 255) \ (10 .. 13))
    /\ Contents \subseteq Seq(Pair)
    /\ \A c \in Contents : \A e \in Range(c) :
          Len(e.key) \in ShortRange /\ 12 + Len(e.key) + Len(e.value) \in IntRange
    /\ TableSize \in Seq(1 .. 255) /\ Len(TableSize) \in 1 .. 10
    /\ Crashes \in BOOLEAN

OC_PUT == 40
OC_SZ_TABLES == 60
OC_ACK == 70
OC_HELLO == 90

VARIABLES
    nTables, entries,   \* of S: its number of tables, what they hold
    sPos,               \* "accept", "serve", "resync", "loop", "stuck", "dead"
    step, waiting,      \* the request of the transfer S is at; has it sent it?
    toR,                \* the bytes on their way to R
    toS,                \* the messages on their way to S
    rPos,               \* "start"; "hello_size", "hello_body" in rtables_hello;
                        \* "size", "body" in update_state; "loop", "dead"
    rSize,              \* the length R has read
    rTables, rPairs,    \* of R: its number of tables, what they hold
    state               \* o_server->state of R

sVars == <<nTables, entries, sPos, step, waiting>>
rVars == <<rPos, rSize, rTables, rPairs, state>>
vars == <<sVars, toR, toS, rVars>>

Init ==
    /\ nTables \in TableCounts
    /\ entries \in {c \in Contents : \A e \in Range(c) : e.table < nTables
                                                        \/ nTables = -1}
    /\ sPos = "accept" /\ step = 1 /\ waiting = FALSE
    /\ toR = <<>> /\ toS = <<>>
    /\ rPos = "start" /\ rSize = 0 /\ rTables = 0 /\ rPairs = {} /\ state = 1
-----------------------------------------------------------------------------
(* What network_receive_send and network_send_receive write. *)
Frame(m) == IntBytes(Len(Encode(m))) \o Encode(m)

(* The requests of the survivor, in order. A promoted server has no list   *)
(* of sizes, and its nTables of -1 makes the loop over the tables empty.   *)
Sizes == IF nTables = -1 THEN <<>> ELSE [t \in 1 .. nTables |-> TableSize]
SzTables == Message(OC_SZ_TABLES, CT_KEYS, -1, Sizes)
Puts ==
    IF nTables = -1 THEN <<>>
    ELSE [k \in 1 .. Len(entries) |->
            Message(OC_PUT, CT_ENTRY, entries[k].table,
                    Entry(entries[k].key, entries[k].value))]
HelloReply == Message(OC_HELLO + 1, CT_RESULT, -1, 0)
Ack == Message(OC_ACK, CT_RESULT, -1, 0)

(* Slip: the ack before the pairs. *)
TransferAckFirst == <<SzTables, Ack>> \o Puts

(* Slip: no ack after the last table. *)
TransferWithoutAck == <<SzTables>> \o Puts

Transfer == <<SzTables>> \o Puts \o <<Ack>>
-----------------------------------------------------------------------------
(* S accepts the connection as a client's and greets it. *)
Accept ==
    /\ sPos = "accept" /\ rPos # "start"
    /\ sPos' = "serve"
    /\ toR' = toR \o IntBytes(nTables)
    /\ UNCHANGED <<nTables, entries, step, waiting, toS, rVars>>

(* invoke_server_version on the HELLO, and its reply.  Then S acts as a    *)
(* client on the same connection.                                          *)
ServeHello ==
    /\ sPos = "serve" /\ toS # <<>>
    /\ sPos' = "resync"
    /\ toS' = Tail(toS)
    /\ toR' = toR \o Frame(HelloReply)
    /\ UNCHANGED <<nTables, entries, step, waiting, rVars>>

(* rtables_sz_tbles, rtables_put or rtables_ack up to the wait for the     *)
(* reply.  A promoted server reads an array of keys it has not written;    *)
(* get_tbl_keys writes behind the end of what it allocates.                *)
Request ==
    /\ sPos = "resync" /\ ~waiting /\ rPos # "dead"
    /\ \/ /\ toR' = toR \o Frame(Transfer[step])
          /\ waiting' = TRUE
          /\ UNCHANGED sPos
       \/ /\ nTables = -1 \/ Transfer[step].opcode = OC_PUT
          /\ sPos' = "dead"
          /\ UNCHANGED <<toR, waiting>>
    /\ UNCHANGED <<nTables, entries, step, toS, rVars>>

(* After the last reply lista_entrys, which has been moved on, is freed    *)
(* twice.  A promoted server has written to cnt_keys[-1], the size of the  *)
(* array it frees after the first reply.                                   *)
AfterReply ==
    /\ step' = step + 1
    /\ IF step < Len(Transfer)
       THEN sPos' = IF nTables = -1 THEN "dead" ELSE "resync"
       ELSE sPos' \in {"loop", "dead"}

(* Any reply will do. *)
TakeReply ==
    /\ sPos = "resync" /\ waiting /\ toS # <<>>
    /\ toS' = Tail(toS)
    /\ waiting' = FALSE
    /\ AfterReply
    /\ UNCHANGED <<nTables, entries, toR, rVars>>

(* R is gone: the error of network_send_receive is taken for a reply, but  *)
(* its message is freed twice, and the loop around write_all may not end.  *)
RequestFails ==
    /\ sPos = "resync" /\ rPos = "dead" /\ toS = <<>>
    /\ waiting' = FALSE
    /\ \/ AfterReply
       \/ sPos' \in {"dead", "stuck"} /\ UNCHANGED step
    /\ UNCHANGED <<nTables, entries, toR, toS, rVars>>

(* S dies, and what has left it may be cut anywhere. *)
SurvivorCrash ==
    /\ Crashes /\ sPos # "dead"
    /\ sPos' = "dead"
    /\ \E k \in 0 .. Len(toR) : toR' = SubSeq(toR, 1, k)
    /\ UNCHANGED <<nTables, entries, step, waiting, toS, rVars>>
-----------------------------------------------------------------------------
(* hello: server_connect, and the request of rtables_hello. *)
Hello ==
    /\ rPos = "start" /\ sPos # "dead"
    /\ rPos' = "hello_size"
    /\ toS' = Append(toS, "request")
    /\ UNCHANGED <<sVars, toR, rSize, rTables, rPairs, state>>

(* Both connects fail: R goes on without tables. *)
HelloFails ==
    /\ rPos = "start" /\ sPos = "dead"
    /\ rPos' = "loop" /\ state' = 0
    /\ UNCHANGED <<sVars, toR, toS, rSize, rTables, rPairs>>

Has(n) == Len(toR) >= n
Rest(n) == SubSeq(toR, n + 1, Len(toR))
AtEnd(n) == sPos = "dead" /\ ~Has(n)

Decodes(b) == Len(b) >= 6 /\ Decode(b) # NoMessage

(* network_send_receive gives its error message, and rtables_hello frees   *)
(* its own a second time.  What hello returns does not depend on it.       *)
HelloRefused == rPos' \in {"size", "dead"}

(* A negative length: malloc fails. *)
ReadHelloSize ==
    /\ rPos = "hello_size" /\ Has(4)
    /\ toR' = Rest(4)
    /\ rSize' = IntAt(toR, 1)
    /\ IF rSize' < 0 THEN HelloRefused ELSE rPos' = "hello_body"
    /\ UNCHANGED <<sVars, toS, rTables, rPairs, state>>

ReadHelloBody ==
    /\ rPos = "hello_body" /\ Has(rSize)
    /\ toR' = Rest(rSize)
    /\ IF Decodes(SubSeq(toR, 1, rSize)) THEN rPos' = "size" ELSE HelloRefused
    /\ UNCHANGED <<sVars, toS, rSize, rTables, rPairs, state>>

(* The end of the stream is read as a length or as a message, as in        *)
(* Framing.                                                                *)
HelloEnds ==
    /\ \/ rPos = "hello_size" /\ AtEnd(4)
       \/ rPos = "hello_body" /\ AtEnd(rSize)
    /\ toR' = <<>>
    /\ HelloRefused
    /\ UNCHANGED <<sVars, toS, rSize, rTables, rPairs, state>>

(* network_receive_send returns -1 or -2, and update_state -1. *)
UpdateFails == rPos' = "loop" /\ state' = 0

ReadSize ==
    /\ rPos = "size" /\ Has(4)
    /\ toR' = Rest(4)
    /\ rSize' = IntAt(toR, 1)
    /\ IF rSize' < 0 THEN UpdateFails ELSE rPos' = "body" /\ UNCHANGED state
    /\ UNCHANGED <<sVars, toS, rTables, rPairs>>

(* R answers and goes on to the position p.  It does not ignore SIGPIPE    *)
(* yet.                                                                    *)
Reply(p) ==
    /\ toS' = Append(toS, "reply")
    /\ rPos' = p \/ (sPos = "dead" /\ rPos' = "dead")

(* The reply to an opcode invoke_server_version does not know is not       *)
(* initialised.                                                            *)
ReplyUnknown ==
    \/ Reply("size") /\ UNCHANGED state
    \/ UpdateFails /\ UNCHANGED toS
    \/ rPos' = "dead" /\ UNCHANGED <<toS, state>>

ServeSizes(m) ==
    /\ m.table_num = -1 /\ m.opcode = OC_SZ_TABLES
    /\ rTables' = Len(m.content) /\ rPairs' = {}
    /\ Reply("size") /\ UNCHANGED state

ServeAck(m) ==
    /\ m.table_num = -1 /\ m.opcode = OC_ACK
    /\ Reply("loop") /\ state' = 1
    /\ UNCHANGED <<rTables, rPairs>>

ServeOther(m) ==
    /\ m.table_num = -1 /\ m.opcode \notin {OC_SZ_TABLES, OC_ACK}
    /\ ReplyUnknown
    /\ UNCHANGED <<rTables, rPairs>>

(* invoke, refused if there is no such table. *)
ServePut(m) ==
    /\ m.table_num # -1
    /\ rPairs' = IF m.opcode = OC_PUT /\ m.table_num < rTables
                 THEN rPairs \cup {[table |-> m.table_num, key |-> m.content.key,
                                    value |-> m.content.value]}
                 ELSE rPairs
    /\ Reply("size")
    /\ UNCHANGED <<rTables, state>>

(* What does not decode is printed, and that ends R. *)
ReadBody ==
    /\ rPos = "body" /\ Has(rSize)
    /\ toR' = Rest(rSize)
    /\ LET b == SubSeq(toR, 1, rSize)
           m == Decode(b)[1]
       IN  IF Decodes(b)
           THEN ServeSizes(m) \/ ServeAck(m) \/ ServeOther(m) \/ ServePut(m)
           ELSE rPos' = "dead" /\ UNCHANGED <<toS, rTables, rPairs, state>>
    /\ UNCHANGED <<sVars, rSize>>

(* Slip: the end of the stream is not looked for in front of a length. *)
UpdateEndsUnseen ==
    /\ rPos = "body" /\ AtEnd(rSize)
    /\ UpdateFails
    /\ toR' = <<>>
    /\ UNCHANGED <<sVars, toS, rSize, rTables, rPairs>>

TornPair == [table |-> 0, key |-> <<>>, value |-> <<>>]

(* The stream ends: without a length update_state fails; with a part of a  *)
(* message R dies, fails, or takes it for a message.  What it takes for an *)
(* ack then is one.                                                        *)
UpdateEnds ==
    /\ \/ /\ rPos = "size" /\ AtEnd(4)
          /\ UpdateFails
          /\ UNCHANGED <<rTables, rPairs>>
       \/ /\ rPos = "body" /\ AtEnd(rSize)
          /\ \/ UpdateFails /\ UNCHANGED <<rTables, rPairs>>
             \/ rPos' = "dead" /\ UNCHANGED <<rTables, rPairs, state>>
             \/ rPos' = "size" /\ rPairs' = rPairs \cup {TornPair}
                               /\ UNCHANGED <<rTables, state>>
             \/ /\ Len(toR) >= 6 /\ ShortAt(toR, 1) = OC_ACK
                /\ rPos' = "loop" /\ state' = 1
                /\ UNCHANGED <<rTables, rPairs>>
    /\ toR' = <<>>
    /\ UNCHANGED <<sVars, toS, rSize>>

RestartedCrash ==
    /\ Crashes /\ rPos \notin {"start", "dead"}
    /\ rPos' = "dead"
    /\ UNCHANGED <<sVars, toR, toS, rSize, rTables, rPairs, state>>
-----------------------------------------------------------------------------
SStep ==
    Accept \/ ServeHello \/ Request \/ TakeReply \/ RequestFails

RStep ==
    \/ Hello \/ HelloFails
    \/ ReadHelloSize \/ ReadHelloBody \/ HelloEnds
    \/ ReadSize \/ ReadBody \/ UpdateEnds

Next == SStep \/ RStep \/ SurvivorCrash \/ RestartedCrash

Spec == Init /\ [][Next]_vars

(* Both servers are processes that run. *)
FairSpec == Spec /\ WF_vars(SStep) /\ WF_vars(RStep)
-----------------------------------------------------------------------------
TypeOK ==
    /\ nTables \in TableCounts /\ entries \in Contents
    /\ sPos \in {"accept", "serve", "resync", "loop", "stuck", "dead"}
    /\ step \in 1 .. Len(Transfer) + 1 /\ waiting \in BOOLEAN
    /\ toR \in Seq(Byte) /\ toS \in Seq({"request", "reply"})
    /\ rPos \in {"start", "hello_size", "hello_body", "size", "body", "loop", "dead"}
    /\ rSize \in IntRange /\ rTables \in Nat /\ state \in {0, 1}

(* When update_state reports success, R holds the tables of S: whatever    *)
(* was misread before, and wherever S has died (primary_backup.c:40-49).   *)
UpdatedIsSame ==
    rPos = "loop" /\ state = 1 => rTables = nTables /\ rPairs = Range(entries)

(* The greeting is as long as the reply to HELLO and its length together,  *)
(* so that the first message R reads is the one behind them.               *)
InStep == nTables = Len(Frame(HelloReply))

(* update_state ends, with success or not, if the greeting happens to be   *)
(* read as the length of what follows it, and if the survivor dies,        *)
(* wherever R reads then.                                                  *)
UpdateReturnsInStep ==
    rPos # "start" /\ (InStep \/ sPos = "dead") ~> rPos \in {"loop", "dead"}

(* The documentation of update_state: it "Retorna 0 em caso de sucesso e   *)
(* -1 em caso de insucesso" (primary_backup.c:25), so it returns.          *)
UpdateReturns == rPos # "start" ~> rPos \in {"loop", "dead"}

(* The documentation of network_receive_send: it receives a request,       *)
(* applies it and sends the answer, and returns -1 or -2 if something goes *)
(* wrong (table-server.c:142-150); so a HELLO does not end the survivor.   *)
SurvivorLives == sPos # "dead"
=============================================================================
