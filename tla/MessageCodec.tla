---------------------------- MODULE MessageCodec ----------------------------
(***************************************************************************)
(* A message on its way from one process to another, through               *)
(* message_to_buffer and buffer_to_message of src/source/message.c, and    *)
(* the row of the table that the key it names is looked for in.            *)
(***************************************************************************)
EXTENDS MessageFormat, KeyHash

CONSTANTS
    Opcodes, TableNums, Results,    \* the numbers a message may hold
    Strings,                        \* keys
    Datas,                          \* data of entries
    MaxKeys,                        \* bound on the length of a list of keys
    Size                            \* table->datasize of the receiver's table

(* A string has no 0 in it; data_create gives NULL for the size 0, so no   *)
(* struct data_t is empty.  The size of a key goes into a short, the size  *)
(* of data and the number of keys are ints.                                *)
ASSUME MessageCodecAssumption ==
    /\ Opcodes \subseteq ShortRange /\ TableNums \subseteq ShortRange
    /\ Results \subseteq IntRange
    /\ Strings \subseteq Seq(Byte \ {0}) /\ \A s \in Strings : Len(s) \in ShortRange
    /\ Datas \subseteq Seq(Byte) \ {<<>>} /\ \A d \in Datas : Len(d) \in IntRange
    /\ MaxKeys \in Nat \cap IntRange /\ Size \in Nat \ {0}

VARIABLES
    at,     \* where the message is: "sender", "wire" or "receiver"
    msg,    \* what the sender has to send
    buf,    \* the buffer
    got     \* what the receiver has decoded, or NoMessage

codecVars == <<at, msg, buf, got>>

KeyLists == UNION {[1 .. n -> Strings] : n \in 0 .. MaxKeys}

CodecInit ==
    /\ at = "sender" /\ buf = <<>> /\ got = NoMessage
    /\ \E op \in Opcodes, table \in TableNums :
          \/ msg = Message(op, CT_NONE, table, <<>>)
          \/ \E r \in Results : msg = Message(op, CT_RESULT, table, r)
          \/ \E s \in Strings : msg = Message(op, CT_KEY, table, s)
          \/ \E l \in KeyLists : msg = Message(op, CT_KEYS, table, l)
          \/ \E d \in Datas : msg = Message(op, CT_VALUE, table, d)
          \/ \E s \in Strings, d \in Datas :
                msg = Message(op, CT_ENTRY, table, Entry(s, d))

message_to_buffer ==
    /\ at = "sender"
    /\ at' = "wire"
    /\ buf' = Encode(msg)
    /\ UNCHANGED <<msg, got>>

buffer_to_message ==
    /\ at = "wire"
    /\ at' = "receiver"
    /\ got' = Decode(buf)
    /\ UNCHANGED <<msg, buf>>

CodecNext == message_to_buffer \/ buffer_to_message

CodecSpec == CodecInit /\ [][CodecNext]_codecVars
-----------------------------------------------------------------------------
(* What is decoded is what was sent, with the signs of its numbers: the    *)
(* table number -1 marks the messages between servers, the result -1 an    *)
(* error; and no message of the programs is refused: buffer_to_message     *)
(* knows their opcodes, those of the replies included.                     *)
DecodedIsSent == at = "receiver" => got = <<msg>>

(* The two passes of message_to_buffer agree: what it writes fits exactly  *)
(* into what it has allocated and announces to the receiver.               *)
WritesWhatItAllocates == at = "wire" => Len(buf) = BufferSize(msg)

KeysOf(m) ==
    CASE m.c_type = CT_KEY -> {m.content}
      [] m.c_type = CT_ENTRY -> {m.content.key}
      [] OTHER -> {}

(* table.h:7-8 says a table has "n linhas (n = modulo da funcao hash)", n  *)
(* rows for the modulus n: the key of a request names one of them, so that *)
(* table_put and get_entry index the array inside it.  It holds for keys   *)
(* of ASCII characters.                                                    *)
HashIsARow ==
    at = "receiver" /\ got # NoMessage =>
        \A k \in KeysOf(got[1]) : k \in Seq(Ascii) => Hash(k, Size) \in 0 .. Size - 1
=============================================================================
