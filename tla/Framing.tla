------------------------------ MODULE Framing -------------------------------
(***************************************************************************)
(* write_all and read_all of src/source/message.c, as the sender and the   *)
(* receiver of a message call them: first the length of the message, then  *)
(* its bytes.  Between the two a socket takes and gives any part of what   *)
(* it is asked to, and either process may end.  No call is interrupted:    *)
(* the programs handle no signal.                                          *)
(*                                                                         *)
(* A message is 1, 2, ..., its bytes are pairs of the message and a        *)
(* position; IntSize bytes make the length.                                *)
(***************************************************************************)
EXTENDS Integers, Sequences, SequencesExt

CONSTANTS
    Sizes,          \* the sizes of the messages that are sent, in order
    IntSize,        \* _INT
    Room            \* the bytes the kernel holds on the way

ASSUME FramingAssumption ==
    /\ Sizes \in Seq(Nat \ {0})
    /\ IntSize \in Nat \ {0} /\ Room \in Nat \ {0}

Posts == Len(Sizes)

VARIABLES
    isServer,       \* is the receiver network_receive_send of table-server.c?
                    \* If not, it is network_send_receive, on either side.
    next,           \* the message the sender is at
    part,           \* what it passes to write_all: "length" or "bytes"
    written,        \* how much of the part is written: buf - start in write_all
    sender,         \* "up", "closed" (it has closed or died) or "reset"
    stream,         \* the bytes on their way
    place,          \* the receiver: "length" or "bytes" in read_all, then
                    \* "decode"; "gone" once it has given up, "dead"
    buf,            \* what read_all has stored
    size,           \* the length received, or Unknown
    arrived         \* the messages decoded, Torn for one that was never sent

senderVars == <<next, part, written>>
receiverVars == <<place, buf, size, arrived>>
vars == <<isServer, senderVars, sender, stream, receiverVars>>

Unknown == -1
Torn == 0

Init ==
    /\ isServer \in BOOLEAN
    /\ next = 1 /\ part = "length" /\ written = 0 /\ sender = "up"
    /\ stream = <<>>
    /\ place = "length" /\ buf = <<>> /\ size = Unknown
    /\ arrived = <<>>

Least(a, b) == IF a < b THEN a ELSE b

Receiving == place \in {"length", "bytes"}
Ended == place \in {"gone", "dead"}
-----------------------------------------------------------------------------
(* The bytes of a part of a message. *)
PartSize(m, p) == IF p = "length" THEN IntSize ELSE Sizes[m]
PartBytes(m, p) == [j \in 1 .. PartSize(m, p) |-> <<m, p, j>>]

(* Slip: the count of the last part goes into the next. *)
WroteSomeKept(n) ==
    /\ written' = written + n
    /\ IF written + n < PartSize(next, part) THEN UNCHANGED <<next, part>>
       ELSE /\ part' = IF part = "length" THEN "bytes" ELSE "length"
            /\ next' = IF part = "length" THEN next ELSE next + 1

(* write_all, after write() has taken n bytes: it returns when all of the  *)
(* part is written.                                                        *)
WroteSome(n) ==
    IF written + n < PartSize(next, part)
    THEN written' = written + n /\ UNCHANGED <<next, part>>
    ELSE /\ written' = 0
         /\ part' = IF part = "length" THEN "bytes" ELSE "length"
         /\ next' = IF part = "length" THEN next ELSE next + 1

(* What write() may take of the part. *)
Takes == 1 .. Least(PartSize(next, part) - written, Room - Len(stream))

(* Slip: write_all does not move buf on. *)
WriteFromStart ==
    /\ sender = "up" /\ next <= Posts
    /\ \E n \in Takes :
          /\ stream' = stream \o SubSeq(PartBytes(next, part), 1, n)
          /\ WroteSome(n)
    /\ UNCHANGED <<isServer, sender, receiverVars>>

Write ==
    /\ sender = "up" /\ next <= Posts
    /\ \E n \in Takes :
          /\ stream' = stream \o SubSeq(PartBytes(next, part), written + 1, written + n)
          /\ WroteSome(n)
    /\ UNCHANGED <<isServer, sender, receiverVars>>

(* The receiver has closed: write() fails, and write_all returns -1.       *)
WriteFails ==
    /\ sender = "up" /\ next <= Posts
    /\ Ended
    /\ sender' = "closed"
    /\ UNCHANGED <<isServer, senderVars, stream, receiverVars>>

(* The sender closes when it has sent all, or ends at any moment.  If it   *)
(* has left something unread, the connection is reset and part of what is  *)
(* on its way is lost.                                                     *)
EndSender ==
    /\ sender = "up"
    /\ \/ sender' = "closed" /\ UNCHANGED stream
       \/ /\ sender' = "reset"
          /\ \E k \in 0 .. Len(stream) : stream' = SubSeq(stream, 1, k)
    /\ UNCHANGED <<isServer, senderVars, receiverVars>>
-----------------------------------------------------------------------------
Wanted == IF place = "length" THEN IntSize ELSE size

(* What follows a read_all that returned the len bytes it was asked for.   *)
(* Bytes that are not those of a length are one all the same.              *)
PartRead(b) ==
    IF place = "length"
    THEN /\ place' = "bytes"
         /\ buf' = <<>>
         /\ size' = IF \E m \in 1 .. Posts : b = PartBytes(m, "length")
                    THEN Sizes[b[1][1]] ELSE 1
    ELSE place' = "decode" /\ buf' = b /\ UNCHANGED size

(* read_all, after read() has given n bytes.                               *)
ReadSome(n) ==
    LET b == buf \o SubSeq(stream, 1, n)
    IN  IF Len(b) < Wanted THEN buf' = b /\ UNCHANGED <<place, size>>
        ELSE PartRead(b)

(* Slip: read_all waits until the kernel holds more than it wants. *)
ReadWhenAllThere ==
    /\ Receiving
    /\ Wanted < Len(stream)
    /\ stream' = SubSeq(stream, Wanted + 1, Len(stream))
    /\ PartRead(SubSeq(stream, 1, Wanted))
    /\ UNCHANGED <<isServer, senderVars, sender, arrived>>

Read ==
    /\ Receiving
    /\ \E n \in 1 .. Least(Wanted - Len(buf), Len(stream)) :
          /\ stream' = SubSeq(stream, n + 1, Len(stream))
          /\ ReadSome(n)
    /\ UNCHANGED <<isServer, senderVars, sender, arrived>>

(* read() returns -1 once on a connection that was reset, and read_all as  *)
(* well.  The server gives up; network_send_receive waits five seconds and *)
(* calls read_all again, unless i, not initialised, happens to be 1.       *)
ReadFails ==
    /\ Receiving /\ stream = <<>> /\ sender = "reset"
    /\ sender' = "closed"
    /\ \/ place' = "gone"
       \/ ~isServer /\ UNCHANGED place
    /\ UNCHANGED <<isServer, senderVars, stream, buf, size, arrived>>

AtEnd == Receiving /\ stream = <<>> /\ sender = "closed"

(* read() returns 0 at the end of the stream, and read_all as well.  The   *)
(* server knows 0 from a length.  network_send_receive does not: the       *)
(* length is not initialised, so malloc may fail, or give any buffer.      *)
ReadEndOfLength ==
    /\ AtEnd /\ place = "length"
    /\ \/ place' = "gone" /\ UNCHANGED <<size, buf>>
       \/ ~isServer /\ place' = "bytes" /\ size' = 1 /\ buf' = <<>>
    /\ UNCHANGED <<isServer, senderVars, sender, stream, arrived>>

(* Slip: at the end of the bytes the caller waits for the rest. *)
ReadEndOfBytesWaits ==
    /\ AtEnd /\ place = "bytes"
    /\ UNCHANGED vars

(* For the bytes of the message both test for -1 only: 0 is taken for      *)
(* success, and what malloc left in the buffer for the rest.               *)
ReadEndOfBytes ==
    /\ AtEnd /\ place = "bytes"
    /\ place' = "decode"
    /\ UNCHANGED <<isServer, senderVars, sender, stream, buf, size, arrived>>

Complete == \E m \in 1 .. Posts : buf = PartBytes(m, "bytes")

(* buffer_to_message, and what is done with the message.  Torn bytes may   *)
(* happen to be a message.  If not, the server prints a NULL message and   *)
(* dies; the other one gives the connection up.                            *)
Decode ==
    /\ place = "decode"
    /\ arrived' = Append(arrived, IF Complete THEN buf[1][1] ELSE Torn)
    /\ place' \in IF Complete THEN {"length"}
                  ELSE IF isServer THEN {"length", "dead"} ELSE {"gone"}
    /\ buf' = <<>> /\ size' = Unknown
    /\ UNCHANGED <<isServer, senderVars, sender, stream>>

EndReceiver ==
    /\ ~Ended
    /\ place' = "dead"
    /\ UNCHANGED <<isServer, senderVars, sender, stream, buf, size, arrived>>
-----------------------------------------------------------------------------
SenderStep == Write \/ WriteFails

ReceiverStep ==
    Read \/ ReadFails \/ ReadEndOfLength \/ ReadEndOfBytes \/ Decode

Next == SenderStep \/ ReceiverStep \/ EndSender \/ EndReceiver

Spec == Init /\ [][Next]_vars

(* The receiver is a process that runs, and so is the sender.              *)
FairSpec == Spec /\ WF_vars(SenderStep) /\ WF_vars(ReceiverStep)
-----------------------------------------------------------------------------
(* The variables have their types, and read_all stores no more than it is  *)
(* asked for (message.c:278-293).                                          *)
TypeOK ==
    /\ isServer \in BOOLEAN
    /\ next \in 1 .. Posts + 1 /\ part \in {"length", "bytes"}
    /\ next <= Posts => written \in 0 .. PartSize(next, part) - 1
    /\ sender \in {"up", "closed", "reset"}
    /\ Len(stream) <= Room
    /\ place \in {"length", "bytes", "decode", "gone", "dead"}
    /\ Receiving => Len(buf) < Wanted
    /\ Len(arrived) <= Posts + 1

(* Messages arrive whole, in order and once, however the bytes are cut up  *)
(* by write() and read(); only the end of the sender may leave a torn one, *)
(* and that is the last (write_all, read_all and their callers).           *)
Channel == INSTANCE MessageChannel WITH
    posted <- next - 1,
    sender <- sender = "up",
    receiver <- ~Ended

IsMessageChannel == Channel!Spec

(* A message that is written whole arrives, unless the receiver ends or    *)
(* the connection is reset.                                                *)
Delivered ==
    \A m \in 1 .. Posts :
        next > m ~> (Len(arrived) >= m \/ Ended \/ sender = "reset")

(* The end of the sender reaches the receiver wherever it is: read_all     *)
(* does not wait for ever for the rest of a message (message.c:282).       *)
EndNoticed == sender # "up" ~> Ended

(* The documentation of read_all: it "garante a receção de len bytes"      *)
(* (src/include/message-private.h:25), so what is decoded is what was      *)
(* announced.                                                              *)
AllBytesReceived == place = "decode" => Len(buf) = size
=============================================================================
