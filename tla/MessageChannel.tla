--------------------------- MODULE MessageChannel ---------------------------
(***************************************************************************)
(* What a connection promises to the functions that send and receive       *)
(* messages (network_send_receive, network_receive_send): the messages     *)
(* arrive whole, once and in order.  If the sender ends in the middle of   *)
(* one, the receiver may take the torn rest for a last message.            *)
(***************************************************************************)
EXTENDS Naturals, Sequences, Functions

CONSTANT Posts      \* the messages are 1, 2, ..., Posts

Torn == 0           \* what the receiver makes of part of a message

VARIABLES
    posted,         \* messages handed over by the sender
    arrived,        \* what the receiver has got
    sender,         \* is the sender there?
    receiver        \* is the receiver there?

vars == <<posted, arrived, sender, receiver>>

Init == posted = 0 /\ arrived = <<>> /\ sender = TRUE /\ receiver = TRUE

Post ==
    /\ sender /\ posted < Posts
    /\ posted' = posted + 1
    /\ UNCHANGED <<arrived, sender, receiver>>

Arrive ==
    /\ receiver /\ Len(arrived) < posted /\ Torn \notin Range(arrived)
    /\ arrived' = Append(arrived, Len(arrived) + 1)
    /\ UNCHANGED <<posted, sender, receiver>>

Tear ==
    /\ receiver /\ ~sender
    /\ Len(arrived) <= posted /\ Torn \notin Range(arrived)
    /\ arrived' = Append(arrived, Torn)
    /\ receiver' \in BOOLEAN
    /\ UNCHANGED <<posted, sender>>

EndSender ==
    /\ sender /\ sender' = FALSE
    /\ UNCHANGED <<posted, arrived, receiver>>

EndReceiver ==
    /\ receiver /\ receiver' = FALSE
    /\ UNCHANGED <<posted, arrived, sender>>

Next == Post \/ Arrive \/ Tear \/ EndSender \/ EndReceiver

Spec == Init /\ [][Next]_vars
=============================================================================
