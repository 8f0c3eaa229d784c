---------------------------- MODULE MessageFormat ---------------------------
(***************************************************************************)
(* The messages of src/include/message.h and their form as bytes:          *)
(* message_to_buffer and buffer_to_message of src/source/message.c.  A     *)
(* string is the sequence of its bytes without the final 0; a struct       *)
(* data_t is the sequence of its bytes; shorts and ints are in two's       *)
(* complement, in network order.                                           *)
(***************************************************************************)
EXTENDS Integers, Sequences, SequencesExt

(* Content types. *)
CT_NONE == 0
CT_RESULT == 10
CT_VALUE == 20
CT_KEY == 30
CT_KEYS == 40
CT_ENTRY == 50

Byte == 0 .. 255
ShortRange == {x \in Int : -32768 <= x /\ x <= 32767}
IntRange == {x \in Int : -2147483647 - 1 <= x /\ x <= 2147483647}

Message(op, ct, table, content) ==
    [opcode |-> op, c_type |-> ct, table_num |-> table, content |-> content]

Entry(key, value) == [key |-> key, value |-> value]

(* What may be NULL is a sequence: <<>> for NULL, <<m>> for m. *)
NoMessage == <<>>

-----------------------------------------------------------------------------
(* Slip: the sign is not masked away. *)
IntBytesSigned(x) ==
    <<x \div 16777216, (x \div 65536) % 256, (x \div 256) % 256, x % 256>>

(* htons and htonl, and the bytes as memcpy stores them. *)
ShortBytes(x) == <<(x \div 256) % 256, x % 256>>
IntBytes(x) ==
    <<(x \div 16777216) % 256, (x \div 65536) % 256, (x \div 256) % 256, x % 256>>

Signed(byte) == IF byte < 128 THEN byte ELSE byte - 256

(* The numbers at the address p of the buffer b, as ntohs and ntohl return *)
(* them.                                                                   *)
ShortAt(b, p) == Signed(b[p]) * 256 + b[p + 1]
IntAt(b, p) ==
    Signed(b[p]) * 16777216 + b[p + 1] * 65536 + b[p + 2] * 256 + b[p + 3]

BytesAt(b, p, n) == SubSeq(b, p, p + n - 1)
-----------------------------------------------------------------------------
(* The bytes of a list of keys, each with its size. *)
KeysSize(keys) ==
    LET upTo[j \in 0 .. Len(keys)] ==
            IF j = 0 THEN 0 ELSE upTo[j - 1] + 2 + Len(keys[j])
    IN  upTo[Len(keys)]

(* The size message_to_buffer computes, and allocates, before it writes.   *)
BufferSize(m) ==
    2 + 2 + 2 +
    CASE m.c_type = CT_RESULT -> 4
      [] m.c_type = CT_KEY -> 2 + Len(m.content)
      [] m.c_type = CT_KEYS -> 4 + KeysSize(m.content)
      [] m.c_type = CT_VALUE -> 4 + Len(m.content)
      [] m.c_type = CT_ENTRY -> 2 + 4 + Len(m.content.key) + Len(m.content.value)
      [] OTHER -> 0

Header(m) == ShortBytes(m.opcode) \o ShortBytes(m.c_type) \o ShortBytes(m.table_num)

KeyBytes(key) == ShortBytes(Len(key)) \o key

DataBytes(data) == IntBytes(Len(data)) \o data

(* Slip: the number of keys is a short. *)
ContentBytesShortCount(m) ==
    CASE m.c_type = CT_RESULT -> IntBytes(m.content)
      [] m.c_type = CT_KEY -> KeyBytes(m.content)
      [] m.c_type = CT_KEYS ->
            ShortBytes(Len(m.content))
            \o FlattenSeq([j \in 1 .. Len(m.content) |-> KeyBytes(m.content[j])])
      [] m.c_type = CT_VALUE -> DataBytes(m.content)
      [] m.c_type = CT_ENTRY -> KeyBytes(m.content.key) \o DataBytes(m.content.value)
      [] OTHER -> <<>>

ContentBytes(m) ==
    CASE m.c_type = CT_RESULT -> IntBytes(m.content)
      [] m.c_type = CT_KEY -> KeyBytes(m.content)
      [] m.c_type = CT_KEYS ->
            IntBytes(Len(m.content))
            \o FlattenSeq([j \in 1 .. Len(m.content) |-> KeyBytes(m.content[j])])
      [] m.c_type = CT_VALUE -> DataBytes(m.content)
      [] m.c_type = CT_ENTRY -> KeyBytes(m.content.key) \o DataBytes(m.content.value)
      [] OTHER -> <<>>

(* message_to_buffer *)
Encode(m) == Header(m) \o ContentBytes(m)
-----------------------------------------------------------------------------
KnownOpcode(op) == op \in 10 .. 91 \cup {99}

(* The keys of a list, one after the other, and where the next one is.     *)
(* (The singleton has TLC evaluate what was read before only once.)        *)
WithKeyAt(b, read) ==
    LET ks == ShortAt(b, read.at)
    IN  [keys |-> Append(read.keys, BytesAt(b, read.at + 2, ks)),
         at |-> read.at + 2 + ks]

KeyList(b, p, n) ==
    LET read[j \in 0 .. n] ==
            IF j = 0 THEN [keys |-> <<>>, at |-> p]
            ELSE CHOOSE next \in {WithKeyAt(b, r) : r \in {read[j - 1]}} : TRUE
    IN  IF n > 0 THEN read[n].keys ELSE <<>>

(* Slip: the size of the data is looked for behind a short, as in a key. *)
ContentMisplaced(b, ct) ==
    CASE ct = CT_RESULT -> IntAt(b, 7)
      [] ct = CT_KEY -> BytesAt(b, 9, ShortAt(b, 7) % 65536)
      [] ct = CT_KEYS -> KeyList(b, 11, IntAt(b, 7))
      [] ct = CT_VALUE -> BytesAt(b, 9, ShortAt(b, 7))
      [] ct = CT_ENTRY ->
            LET ks == ShortAt(b, 7)
            IN  Entry(BytesAt(b, 9, ks), BytesAt(b, 13 + ks, IntAt(b, 9 + ks)))

(* buffer_to_message by content type, at the 7th byte.  The size of a key  *)
(* on its own is an int there, and unsigned.                               *)
Content(b, ct) ==
    CASE ct = CT_RESULT -> IntAt(b, 7)
      [] ct = CT_KEY -> BytesAt(b, 9, ShortAt(b, 7) % 65536)
      [] ct = CT_KEYS -> KeyList(b, 11, IntAt(b, 7))
      [] ct = CT_VALUE -> BytesAt(b, 11, IntAt(b, 7))
      [] ct = CT_ENTRY ->
            LET ks == ShortAt(b, 7)
            IN  Entry(BytesAt(b, 9, ks), BytesAt(b, 13 + ks, IntAt(b, 9 + ks)))

(* data_create makes no struct data_t of size 0 or below. *)
HoldsData(b, ct) ==
    /\ ct = CT_VALUE => IntAt(b, 7) > 0
    /\ ct = CT_ENTRY => IntAt(b, 9 + ShortAt(b, 7)) > 0

(* buffer_to_message: NULL for an opcode or a content type it does not     *)
(* know, and for empty data.                                               *)
Decode(b) ==
    LET op == ShortAt(b, 1)
        ct == ShortAt(b, 3)
        table == ShortAt(b, 5)
        knownType ==
            ct \in {CT_NONE, CT_RESULT, CT_VALUE, CT_KEY, CT_KEYS, CT_ENTRY}
    IN  IF KnownOpcode(op) /\ knownType /\ HoldsData(b, ct)
        THEN <<Message(op, ct, table, IF ct = CT_NONE THEN <<>> ELSE Content(b, ct))>>
        ELSE NoMessage
=============================================================================
