--------------------------- MODULE TransferProofs ---------------------------
(***************************************************************************)
(* Messages as bytes between processes: one message, encoded and decoded   *)
(* (MessageCodec), and the stream a restarted server recovers from         *)
(* (Recovery), which it may read from a wrong place on.                    *)
(***************************************************************************)
EXTENDS MessageCodec, Recovery, MessageFormatProofs


-----------------------------------------------------------------------------
(* The hash of a key.                                                      *)

(* An ASCII character is not negative. *)
LEMMA CharIsNatural ==
    ASSUME NEW k \in Seq(Ascii), NEW i \in 1 .. Len(k)
    PROVE  Char(k[i]) \in Nat
<1>1. k[i] \in Ascii  OBVIOUS
<1>2. ASSUME NEW b \in Ascii PROVE Char(b) \in Nat
    BY DEF Char, Ascii
<1>3. QED  BY <1>1, <1>2

(* The sum of ASCII characters is not negative. *)
LEMMA SumIsNatural ==
    ASSUME NEW k \in Seq(Ascii)
    PROVE  Sum(k) \in Nat
<1> DEFINE ch(i) == IF i \in 1 .. Len(k) THEN Char(k[i]) ELSE 0
<1>1. ASSUME NEW i \in Int PROVE ch(i) \in Nat
    BY CharIsNatural
<1>2. Len(k) \in Nat  OBVIOUS
<1>3. Sum(k) = IF Len(k) < 5 THEN ch(1) + ch(2) + ch(3) + ch(4)
               ELSE ch(1) + ch(2) + ch(Len(k)) + ch(Len(k) - 1)
    BY DEF Sum
<1> HIDE DEF ch
<1>4. /\ ch(1) \in Nat /\ ch(2) \in Nat /\ ch(3) \in Nat /\ ch(4) \in Nat
      /\ ch(Len(k)) \in Nat /\ ch(Len(k) - 1) \in Nat
    BY <1>1, <1>2
<1>5. QED  BY <1>2, <1>3, <1>4

(* hash of an ASCII key, whatever its length, is a row of the table: this  *)
(* is the assumption on Hash under which HashTable is proved correct.      *)
THEOREM HashInTable ==
    ASSUME NEW k \in Seq(Ascii), NEW n \in Nat \ {0}
    PROVE  Hash(k, n) \in 0 .. n - 1
<1>1. Sum(k) \in Nat  BY SumIsNatural
<1>2. QED  BY <1>1 DEF Hash, Rem

(* It is not so for every key: one letter with an accent, in UTF-8, is     *)
(* hashed in front of the first row of a table of seven.                   *)
THEOREM AccentHashesToNoRow == Hash(<<195, 169>>, 7) = -1
<1>1. Sum(<<195, 169>>) = -148
    <2>1. /\ Len(<<195, 169>>) = 2
          /\ <<195, 169>>[1] = 195 /\ <<195, 169>>[2] = 169
        OBVIOUS
    <2>2. Char(195) = -61 /\ Char(169) = -87
        BY DEF Char
    <2>3. QED  BY <2>1, <2>2 DEF Sum
<1>2. 148 % 7 = 1  OBVIOUS
<1>3. QED  BY <1>1, <1>2 DEF Hash, Rem

-----------------------------------------------------------------------------
(* The steps of a message.                                                 *)

(* The message is one that struct message_t holds. *)
MsgFits ==
    \E op \in Opcodes, table \in TableNums : \E ct, content :
        ContentFits(ct, content) /\ msg = Message(op, ct, table, content)

CInv ==
    /\ at \in {"sender", "wire", "receiver"}
    /\ MsgFits
    /\ at # "sender" => buf = Encode(msg)
    /\ at = "receiver" => got = Decode(buf)

LEMMA StringFits ==
    ASSUME NEW s \in Strings
    PROVE  s \in Seq(Byte) /\ KeyFits(s)
<1>1. s \in Seq(Byte \ {0}) /\ Len(s) \in ShortRange
    BY MessageCodecAssumption
<1>2. s \in Seq(Byte)
    <2>1. \A i \in 1 .. Len(s) : s[i] \in Byte
        BY <1>1, ElementOfSeq
    <2>2. s = [i \in 1 .. Len(s) |-> s[i]] /\ Len(s) \in Nat
        BY <1>1, LenProperties
    <2>3. QED
        BY <2>1, <2>2
<1>3. QED
    BY <1>1, <1>2 DEF KeyFits

LEMMA DatumFits ==
    ASSUME NEW d \in Datas
    PROVE  DataFits(d)
BY MessageCodecAssumption DEF DataFits

LEMMA KeyListFits ==
    ASSUME NEW l \in KeyLists
    PROVE  /\ l \in Seq(Seq(Byte)) /\ Len(l) \in IntRange
           /\ \A j \in 1 .. Len(l) : KeyFits(l[j])
<1>1. PICK n \in 0 .. MaxKeys : l \in [1 .. n -> Strings]
    BY DEF KeyLists
<1>2. n \in Nat /\ MaxKeys \in Nat /\ MaxKeys \in IntRange /\ n <= MaxKeys
    BY MessageCodecAssumption
<1>3. l \in Seq(Strings) /\ Len(l) = n
    BY <1>1, <1>2
<1>4. \A j \in 1 .. n : l[j] \in Seq(Byte) /\ KeyFits(l[j])
    BY <1>1, StringFits
<1>5. l \in [1 .. n -> Seq(Byte)]
    BY <1>1, <1>4
<1>6. l \in Seq(Seq(Byte))
    BY <1>2, <1>5
<1>7. n \in IntRange
    BY <1>2, SMT DEF IntRange
<1>8. QED
    BY <1>3, <1>4, <1>6, <1>7

LEMMA CInit == CodecInit => CInv
<1> SUFFICES ASSUME CodecInit PROVE CInv
    OBVIOUS
<1>1. PICK op \in Opcodes, table \in TableNums :
          \/ msg = Message(op, CT_NONE, table, <<>>)
          \/ \E r \in Results : msg = Message(op, CT_RESULT, table, r)
          \/ \E s \in Strings : msg = Message(op, CT_KEY, table, s)
          \/ \E l \in KeyLists : msg = Message(op, CT_KEYS, table, l)
          \/ \E d \in Datas : msg = Message(op, CT_VALUE, table, d)
          \/ \E s \in Strings, d \in Datas :
                msg = Message(op, CT_ENTRY, table, Entry(s, d))
    BY DEF CodecInit
<1>2. ASSUME NEW ct, NEW content, ContentFits(ct, content),
             msg = Message(op, ct, table, content)
      PROVE  MsgFits
    BY <1>2 DEF MsgFits
<1>3. CASE msg = Message(op, CT_NONE, table, <<>>)
    <2>1. ContentFits(CT_NONE, <<>>)
        BY DEF ContentFits
    <2>2. MsgFits
        BY <1>2, <1>3, <2>1
    <2>3. QED
        BY <2>2 DEF CInv, CodecInit
<1>4. CASE \E r \in Results : msg = Message(op, CT_RESULT, table, r)
    <2>1. PICK r \in Results : msg = Message(op, CT_RESULT, table, r)
        BY <1>4
    <2>2. ContentFits(CT_RESULT, r)
        BY MessageCodecAssumption DEF ContentFits
    <2>3. MsgFits
        BY <1>2, <2>1, <2>2
    <2>4. QED
        BY <2>3 DEF CInv, CodecInit
<1>5. CASE \E s \in Strings : msg = Message(op, CT_KEY, table, s)
    <2>1. PICK s \in Strings : msg = Message(op, CT_KEY, table, s)
        BY <1>5
    <2>2. ContentFits(CT_KEY, s)
        BY StringFits DEF ContentFits
    <2>3. MsgFits
        BY <1>2, <2>1, <2>2
    <2>4. QED
        BY <2>3 DEF CInv, CodecInit
<1>6. CASE \E l \in KeyLists : msg = Message(op, CT_KEYS, table, l)
    <2>1. PICK l \in KeyLists : msg = Message(op, CT_KEYS, table, l)
        BY <1>6
    <2>2. ContentFits(CT_KEYS, l)
        BY KeyListFits DEF ContentFits
    <2>3. MsgFits
        BY <1>2, <2>1, <2>2
    <2>4. QED
        BY <2>3 DEF CInv, CodecInit
<1>7. CASE \E d \in Datas : msg = Message(op, CT_VALUE, table, d)
    <2>1. PICK d \in Datas : msg = Message(op, CT_VALUE, table, d)
        BY <1>7
    <2>2. ContentFits(CT_VALUE, d)
        BY DatumFits DEF ContentFits
    <2>3. MsgFits
        BY <1>2, <2>1, <2>2
    <2>4. QED
        BY <2>3 DEF CInv, CodecInit
<1>8. CASE \E s \in Strings, d \in Datas :
              msg = Message(op, CT_ENTRY, table, Entry(s, d))
    <2>1. PICK s \in Strings, d \in Datas :
              msg = Message(op, CT_ENTRY, table, Entry(s, d))
        BY <1>8
    <2>2. ContentFits(CT_ENTRY, Entry(s, d))
        <3>1. s \in Seq(Byte) /\ KeyFits(s) /\ d \in Seq(Byte) /\ DataFits(d)
            BY StringFits, DatumFits DEF DataFits
        <3>2. \E key, data \in Seq(Byte) : /\ KeyFits(key) /\ DataFits(data)
                                           /\ Entry(s, d) = Entry(key, data)
            BY <3>1
        <3>3. QED
            BY <3>2 DEF ContentFits
    <2>3. MsgFits
        BY <1>2, <2>1, <2>2
    <2>4. QED
        BY <2>3 DEF CInv, CodecInit
<1>9. QED
    BY <1>1, <1>3, <1>4, <1>5, <1>6, <1>7, <1>8

LEMMA CNext == CInv /\ [CodecNext]_codecVars => CInv'
<1> SUFFICES ASSUME CInv, [CodecNext]_codecVars PROVE CInv'
    OBVIOUS
<1>1. CASE message_to_buffer
    BY <1>1 DEF CInv, MsgFits, message_to_buffer
<1>2. CASE buffer_to_message
    BY <1>2 DEF CInv, MsgFits, buffer_to_message
<1>3. CASE UNCHANGED codecVars
    BY <1>3 DEF CInv, MsgFits, codecVars
<1>4. QED
    BY <1>1, <1>2, <1>3 DEF CodecNext

LEMMA CAlways == CodecSpec => []CInv
BY CInit, CNext, PTL DEF CodecSpec

(* The message of a state is encoded and decoded as MessageRoundTrip says. *)
LEMMA MsgRoundTrip ==
    ASSUME MsgFits
    PROVE  /\ Len(Encode(msg)) = BufferSize(msg)
           /\ (\A op \in Opcodes : KnownOpcode(op)) => Decode(Encode(msg)) = <<msg>>
<1>0. PICK op \in Opcodes, table \in TableNums :
          \E ct, content : ContentFits(ct, content) /\ msg = Message(op, ct, table, content)
    BY DEF MsgFits
<1>1. PICK ct, content : ContentFits(ct, content) /\ msg = Message(op, ct, table, content)
    BY <1>0
<1>2. op \in ShortRange /\ table \in ShortRange
    BY MessageCodecAssumption
<1> DEFINE m == Message(op, ct, table, content)
<1>3. /\ Encode(m) \in Seq(Byte) /\ Len(Encode(m)) = BufferSize(m)
      /\ KnownOpcode(op) => Decode(Encode(m)) = <<m>>
    BY <1>1, <1>2, MessageRoundTrip
<1> HIDE DEF m
<1>4. msg = m
    BY <1>1 DEF m
<1>5. QED
    BY <1>3, <1>4

(* The two passes of message_to_buffer agree for every message: it writes  *)
(* the bytes it has allocated and announced, not one more or less.         *)
THEOREM WhatIsAllocatedIsWritten == CodecSpec => []WritesWhatItAllocates
<1>1. CInv => WritesWhatItAllocates
    BY MsgRoundTrip DEF CInv, WritesWhatItAllocates
<1>2. QED
    BY <1>1, CAlways, PTL

(* The receiver gets the message that was sent, whatever its keys, its     *)
(* data and the length of its list are, when buffer_to_message knows the   *)
(* opcodes of the programs.                                                *)
THEOREM SentIsDecoded ==
    ASSUME \A op \in Opcodes : KnownOpcode(op)
    PROVE  CodecSpec => []DecodedIsSent
<1>1. CInv => DecodedIsSent
    BY MsgRoundTrip DEF CInv, DecodedIsSent
<1>2. QED
    BY <1>1, CAlways, PTL

(* The ASCII keys of a decoded request name rows of the receiver's table,  *)
(* whatever its size.                                                      *)
THEOREM RequestsNameRows == CodecSpec => []HashIsARow
<1>1. HashIsARow
    BY HashInTable, MessageCodecAssumption DEF HashIsARow
<1>2. QED
    BY <1>1, PTL
-----------------------------------------------------------------------------
(* The recovery: what the inductive invariant says.                        *)

(* The messages of the transfer for n tables which hold the pairs c. *)
Listed(n) ==
    Message(OC_SZ_TABLES, CT_KEYS, -1,
            IF n = -1 THEN <<>> ELSE [t \in 1 .. n |-> TableSize])
PutsOf(n, c) ==
    IF n = -1 THEN <<>>
    ELSE [k \in 1 .. Len(c) |->
            Message(OC_PUT, CT_ENTRY, c[k].table, Entry(c[k].key, c[k].value))]
Requests(n, c) == <<Listed(n)>> \o PutsOf(n, c) \o <<Ack>>

(* What S may hold: every pair is in one of its tables. *)
Held(n, c) == c \in Contents /\ (n = -1 \/ \A k \in 1 .. Len(c) : c[k].table < n)

(* What S writes until it has to have an answer: the greeting, the reply   *)
(* to HELLO and the first request.                                         *)
Opening(n) == IntBytes(n) \o (Frame(HelloReply) \o Frame(Listed(n)))

(* p is what stands in b behind the first k bytes, or the front of it. *)
LiesIn(p, b, k) ==
    /\ k + Len(p) <= Len(b)
    /\ \A i \in 1 .. Len(p) : p[i] = b[k + i]

(* R has read k bytes of the opening, and S has had no reply it would go   *)
(* on with.                                                                *)
Early(k) ==
    /\ sPos \in {"accept", "serve", "resync", "dead"}
    /\ LiesIn(toR, Opening(nTables), k)
    /\ sPos = "accept" => Len(toR) + k = 0
    /\ sPos = "serve" => Len(toR) + k = 4
    /\ sPos = "resync" =>
          Len(toR) + k = IF waiting THEN Len(Opening(nTables)) ELSE 18
    /\ sPos # "dead" => step = 1
    /\ sPos \in {"accept", "serve"} => toS = <<"request">> /\ ~waiting
    /\ sPos = "resync" /\ nTables # -1 => toS = <<>>

(* Where R is then.  Not in step it reads a length and fails or dies, but  *)
(* from a promoted server, which has no tables, it reads the reply to      *)
(* HELLO and an empty list of sizes.                                       *)
Place(k) ==
    \/ rPos = "hello_size" /\ k = 0
    \/ rPos = "hello_body" /\ k = 4 /\ nTables # -1 /\ rSize = nTables
    \/ rPos = "size" /\ nTables \notin {-1, 14} /\ k = 4 + nTables
    \/ /\ rPos = "body" /\ nTables \notin {-1, 14} /\ k = 8 + nTables
       /\ rSize = IntAt(Opening(nTables), 5 + nTables) /\ rSize >= 0
    \/ rPos = "size" /\ nTables = -1 /\ k \in {4, 18, 32}
    \/ rPos = "body" /\ nTables = -1 /\ k \in {8, 22} /\ rSize = 10

(* Before HELLO. *)
Untouched ==
    /\ sPos \in {"accept", "dead"} /\ ~waiting /\ step = 1
    /\ toR = <<>> /\ toS = <<>>

(* What R holds when it has taken i requests, and all of them. *)
Done(i) ==
    i >= 1 =>
        /\ rTables = nTables
        /\ rPairs = {entries[k] : k \in {j \in 1 .. Len(entries) : j < i}}
AllDone == rTables = nTables /\ rPairs = Range(entries)

(* R has the i-th request in front of it, or what S has left of it. *)
Asked(i) ==
    /\ Done(i - 1)
    /\ \/ rPos = "size" /\ LiesIn(toR, Frame(Transfer[i]), 0)
       \/ /\ rPos = "body" /\ LiesIn(toR, Encode(Transfer[i]), 0)
          /\ rSize = Len(Encode(Transfer[i]))
Whole(i) ==
    /\ rPos = "size" => Len(toR) = Len(Frame(Transfer[i]))
    /\ rPos = "body" => Len(toR) = Len(Encode(Transfer[i]))

Answered(i) ==
    /\ toR = <<>> /\ Done(i)
    /\ i = Len(Transfer) => rPos = "loop"
    /\ i # Len(Transfer) => rPos = "size"

(* R is in step with S, which sends the i-th request, waits for its reply, *)
(* has it on the way, or is dead.                                          *)
InRequest(i) ==
    \/ /\ sPos = "resync" /\ step = i /\ ~waiting
       /\ rPos = "size" /\ toR = <<>> /\ toS = <<>> /\ Done(i - 1)
    \/ sPos = "resync" /\ step = i /\ waiting /\ toS = <<>> /\ Asked(i) /\ Whole(i)
    \/ sPos = "resync" /\ step = i /\ waiting /\ toS = <<"reply">> /\ Answered(i)
    \/ sPos = "dead" /\ Asked(i)

(* S has had the last reply, or is dead and has left nothing. *)
Over ==
    \/ sPos = "loop" /\ rPos = "loop" /\ AllDone
    \/ sPos = "dead" /\ rPos = "size" /\ toR = <<>>
    \/ sPos = "dead" /\ rPos = "loop" /\ (state = 1 => AllDone)

Positions ==
    \/ rPos = "dead"
    \/ rPos = "start" /\ Untouched
    \/ \E k \in Nat : Early(k) /\ Place(k)
    \/ nTables = 14 /\ \E i \in 1 .. Len(Transfer) : InRequest(i)
    \/ nTables = 14 /\ Over
    \/ nTables # 14 /\ rPos = "loop" /\ state = 0

RInv ==
    /\ TypeOK
    /\ Held(nTables, entries)
    /\ sPos \in {"accept", "serve", "resync"} => step <= Len(Transfer)
    /\ Positions

-----------------------------------------------------------------------------
(* The messages of the transfer.                                           *)

(* A message that goes through message_to_buffer, the stream and           *)
(* buffer_to_message.                                                      *)
Sendable(m) ==
    /\ Encode(m) \in Seq(Byte)
    /\ Len(Encode(m)) \in IntRange /\ Len(Encode(m)) >= 6
    /\ ShortAt(Encode(m), 1) = m.opcode
    /\ Decode(Encode(m)) = <<m>>

LEMMA SendableMessage ==
    ASSUME NEW op \in ShortRange, NEW table \in ShortRange, NEW ct, NEW content,
           ContentFits(ct, content), KnownOpcode(op),
           BufferSize(Message(op, ct, table, content)) \in IntRange
    PROVE  Sendable(Message(op, ct, table, content))
<1> DEFINE m == Message(op, ct, table, content)
<1>1. /\ Encode(m) \in Seq(Byte) /\ Len(Encode(m)) = BufferSize(m)
      /\ Decode(Encode(m)) = <<m>>
    BY MessageRoundTrip
<1>2. PICK bytes, size : ContentIs(m, bytes, size)
    BY ContentGoesAndComes
<1>3. ct \in ShortRange
    BY ContentTypeIsKnown
<1>4. ShortAt(Encode(m), 1) = op
    BY <1>2, <1>3, EncodedStands
<1>5. BufferSize(m) = 6 + size /\ size \in Nat
    <2>1. bytes \in Seq(Byte) /\ Len(bytes) = size /\ BufferSize(m) = 6 + size
        BY <1>2 DEF ContentIs
    <2>2. QED
        BY <2>1, LenProperties
<1>6. m.opcode = op
    BY DEF Message
<1> HIDE DEF m
<1>7. BufferSize(m) >= 6
    BY <1>5
<1>8. QED
    BY <1>1, <1>4, <1>6, <1>7 DEF Sendable, m

(* The parts of a sequence. *)
LEMMA Parts ==
    ASSUME NEW S, NEW s \in Seq(S), NEW t \in Seq(S)
    PROVE  /\ \A i \in 1 .. Len(s) : (s \o t)[i] = s[i]
           /\ \A i \in 1 .. Len(t) : (s \o t)[Len(s) + i] = t[i]
<1>1. Len(s) \in Nat /\ Len(t) \in Nat
    BY LenProperties
<1>2. \A i \in 1 .. Len(s) + Len(t) :
          (s \o t)[i] = IF i <= Len(s) THEN s[i] ELSE t[i - Len(s)]
    BY ConcatProperties
<1>3. ASSUME NEW i \in 1 .. Len(t)
      PROVE  (s \o t)[Len(s) + i] = t[i]
    <2>1. /\ Len(s) + i \in 1 .. Len(s) + Len(t) /\ ~(Len(s) + i <= Len(s))
          /\ (Len(s) + i) - Len(s) = i
        BY <1>1
    <2>2. QED
        BY <1>2, <2>1
<1>4. ASSUME NEW i \in 1 .. Len(s)
      PROVE  (s \o t)[i] = s[i]
    <2>1. i \in 1 .. Len(s) + Len(t) /\ i <= Len(s)
        BY <1>1
    <2>2. QED
        BY <1>2, <2>1
<1>5. QED
    BY <1>3, <1>4

LEMMA SmallNumbers ==
    ASSUME NEW x \in Int, -32768 <= x, x <= 32767
    PROVE  x \in ShortRange /\ x \in IntRange
BY SMT DEF ShortRange, IntRange

LEMMA ResultIsSendable ==
    ASSUME NEW op \in ShortRange, KnownOpcode(op)
    PROVE  /\ Sendable(Message(op, CT_RESULT, -1, 0))
           /\ Len(Encode(Message(op, CT_RESULT, -1, 0))) = 10
<1> DEFINE m == Message(op, CT_RESULT, -1, 0)
<1>1. 0 \in IntRange /\ -1 \in ShortRange /\ 10 \in IntRange
    BY SmallNumbers
<1>2. ContentFits(CT_RESULT, 0)
    BY <1>1 DEF ContentFits
<1>3. BufferSize(m) = 6 + 4
    BY <1>1, ResultContent DEF ContentIs
<1>4. BufferSize(m) = 10
    BY <1>3
<1>5. Sendable(m)
    BY <1>1, <1>2, <1>4, SendableMessage
<1>6. Len(Encode(m)) = BufferSize(m)
    BY <1>1, <1>2, MessageRoundTrip
<1>7. QED
    BY <1>4, <1>5, <1>6

LEMMA OpcodesAreKnown ==
    /\ OC_HELLO + 1 \in ShortRange /\ KnownOpcode(OC_HELLO + 1)
    /\ OC_ACK \in ShortRange /\ KnownOpcode(OC_ACK)
    /\ OC_SZ_TABLES \in ShortRange /\ KnownOpcode(OC_SZ_TABLES)
    /\ OC_PUT \in ShortRange /\ KnownOpcode(OC_PUT)
BY SmallNumbers DEF OC_HELLO, OC_ACK, OC_SZ_TABLES, OC_PUT, KnownOpcode

(* The list of sizes: 3 to 12 bytes for each table.                        *)
SizesOf(n) == IF n = -1 THEN <<>> ELSE [t \in 1 .. n |-> TableSize]

LEMMA CountsAreNumbers ==
    ASSUME NEW n \in TableCounts
    PROVE  n \in Int /\ (n = -1 \/ (1 <= n /\ n <= 255 /\ ~(10 <= n /\ n <= 13)))
BY RecoveryAssumption

LEMMA TableSizeFits ==
    /\ TableSize \in Seq(Byte) /\ KeyFits(TableSize)
    /\ 1 <= Len(TableSize) /\ Len(TableSize) <= 10
    /\ \A i \in 1 .. Len(TableSize) : TableSize[i] \in 1 .. 255
<1>1. TableSize \in Seq(1 .. 255) /\ Len(TableSize) \in 1 .. 10
    BY RecoveryAssumption
<1>2. \A i \in 1 .. Len(TableSize) : TableSize[i] \in 1 .. 255
    BY <1>1, ElementOfSeq
<1>3. TableSize \in Seq(Byte)
    <2>1. \A i \in 1 .. Len(TableSize) : TableSize[i] \in Byte
        BY <1>2 DEF Byte
    <2>2. TableSize = [i \in 1 .. Len(TableSize) |-> TableSize[i]] /\ Len(TableSize) \in Nat
        BY <1>1, LenProperties
    <2>3. QED
        BY <2>1, <2>2
<1>4. 1 <= Len(TableSize) /\ Len(TableSize) <= 10 /\ Len(TableSize) \in Int
    <2>1. Len(TableSize) \in 1 .. 10
        BY <1>1
    <2> DEFINE l == Len(TableSize)
    <2> HIDE DEF l
    <2>2. l \in 1 .. 10
        BY <2>1 DEF l
    <2>3. 1 <= l /\ l <= 10 /\ l \in Int
        BY ONLY <2>2
    <2>4. QED
        BY <2>3 DEF l
<1>5. KeyFits(TableSize)
    BY <1>4, SmallNumbers DEF KeyFits
<1>6. QED
    BY <1>2, <1>3, <1>4, <1>5

LEMMA SizesFit ==
    ASSUME NEW n \in TableCounts
    PROVE  /\ SizesOf(n) \in Seq(Seq(Byte))
           /\ Len(SizesOf(n)) = IF n = -1 THEN 0 ELSE n
           /\ \A j \in 1 .. Len(SizesOf(n)) : SizesOf(n)[j] = TableSize
<1>1. n \in Int /\ (n = -1 \/ (1 <= n /\ n <= 255))
    BY CountsAreNumbers
<1>2. CASE n = -1
    BY <1>2 DEF SizesOf
<1>3. CASE n # -1
    <2>1. n \in Nat
        BY <1>1, <1>3
    <2>2. SizesOf(n) = [t \in 1 .. n |-> TableSize]
        BY <1>3 DEF SizesOf
    <2>3. QED
        BY <1>3, <2>1, <2>2, TableSizeFits
<1>4. QED
    BY <1>2, <1>3

(* Each byte of the list is part of a size, the first byte of its length,  *)
(* which is 0, or the second, which is not.                                *)
InKeys(b, i) ==
    \/ 1 <= b[i] /\ b[i] <= 255
    \/ /\ b[i] = 0 /\ i + 2 <= Len(b)
       /\ 1 <= b[i + 1] /\ b[i + 1] <= 10 /\ 1 <= b[i + 2] /\ b[i + 2] <= 255

LEMMA OneKeyBytes ==
    /\ KeyBytes(TableSize) \in Seq(Byte)
    /\ Len(KeyBytes(TableSize)) = 2 + Len(TableSize)
    /\ \A i \in 1 .. Len(KeyBytes(TableSize)) : InKeys(KeyBytes(TableSize), i)
<1> DEFINE k == KeyBytes(TableSize)
           l == Len(TableSize)
<1>1. k \in Seq(Byte) /\ Len(k) = 2 + l
    BY TableSizeFits, KeyBytesTypes
<1>2. l \in Int /\ 1 <= l /\ l <= 10
    BY TableSizeFits, LenProperties
<1>3. k = ShortBytes(l) \o TableSize
    BY DEF KeyBytes
<1> DEFINE s == ShortBytes(l)
<1>4. s[1] = (l \div 256) % 256 /\ s[2] = l % 256
    BY <1>2, ShortBytesTypes
<1>s. s \in Seq(Byte) /\ TableSize \in Seq(Byte)
    BY <1>2, ShortBytesTypes, TableSizeFits
<1>l. Len(s) = 2
    BY <1>2, ShortBytesTypes
<1>p. /\ \A i \in 1 .. Len(s) : k[i] = s[i]
      /\ \A i \in 1 .. l : k[Len(s) + i] = TableSize[i]
    BY ONLY <1>3, <1>s, Parts
<1>t. \A i \in 1 .. l : TableSize[i] \in 1 .. 255
    BY TableSizeFits
<1> HIDE DEF k, l, s
<1>5. k[1] = 0 /\ k[2] = l
    <2>1. (l \div 256) % 256 = 0 /\ l % 256 = l
        BY <1>2
    <2>2. k[1] = s[1] /\ k[2] = s[2]
        BY <1>p, <1>l
    <2>3. QED
        BY <1>4, <2>1, <2>2
<1>6. ASSUME NEW i \in 1 .. l
      PROVE  1 <= k[2 + i] /\ k[2 + i] <= 255
    <2>1. k[2 + i] = TableSize[i]
        BY <1>p, <1>l
    <2>2. TableSize[i] \in 1 .. 255
        BY <1>t
    <2>3. QED
        BY <2>1, <2>2
<1>7. ASSUME NEW i \in 1 .. Len(k) PROVE InKeys(k, i)
    <2>1. CASE i = 1
        <3>1. 1 <= k[3] /\ k[3] <= 255
            BY <1>2, <1>6
        <3>2. QED
            BY <1>1, <1>2, <1>5, <2>1, <3>1 DEF InKeys
    <2>2. CASE i = 2
        BY <1>2, <1>5, <2>2 DEF InKeys
    <2>3. CASE i > 2
        <3>1. i - 2 \in 1 .. l /\ 2 + (i - 2) = i
            BY <1>1, <1>2, <2>3
        <3>2. 1 <= k[2 + (i - 2)] /\ k[2 + (i - 2)] <= 255
            BY <1>6, <3>1
        <3>3. QED
            BY <3>1, <3>2 DEF InKeys
    <2>4. QED
        BY <2>1, <2>2, <2>3
<1>8. QED
    BY <1>1, <1>7 DEF k, l

LEMMA InKeysTogether ==
    ASSUME NEW s \in Seq(Byte), \A i \in 1 .. Len(s) : InKeys(s, i),
           NEW t \in Seq(Byte), \A i \in 1 .. Len(t) : InKeys(t, i)
    PROVE  \A i \in 1 .. Len(s \o t) : InKeys(s \o t, i)
<1> DEFINE b == s \o t
           p == Len(s)
           q == Len(t)
           r == Len(b)
<1>1. r = p + q /\ p \in Nat /\ q \in Nat
    BY TwoParts, LenProperties
<1>2. (\A i \in 1 .. p : b[i] = s[i]) /\ (\A i \in 1 .. q : b[p + i] = t[i])
    BY ONLY s \in Seq(Byte), t \in Seq(Byte), Parts
<1>3. \A i \in 1 .. p : \/ 1 <= s[i] /\ s[i] <= 255
                        \/ /\ s[i] = 0 /\ i + 2 <= p
                           /\ 1 <= s[i + 1] /\ s[i + 1] <= 10
                           /\ 1 <= s[i + 2] /\ s[i + 2] <= 255
    BY DEF InKeys
<1>4. \A i \in 1 .. q : \/ 1 <= t[i] /\ t[i] <= 255
                        \/ /\ t[i] = 0 /\ i + 2 <= q
                           /\ 1 <= t[i + 1] /\ t[i + 1] <= 10
                           /\ 1 <= t[i + 2] /\ t[i + 2] <= 255
    BY DEF InKeys
<1>5. ASSUME NEW i \in 1 .. r
      PROVE  \/ 1 <= b[i] /\ b[i] <= 255
             \/ /\ b[i] = 0 /\ i + 2 <= r
                /\ 1 <= b[i + 1] /\ b[i + 1] <= 10
                /\ 1 <= b[i + 2] /\ b[i + 2] <= 255
    <2> HIDE DEF b, p, q, r
    <2>1. CASE i <= p
        <3>1. i \in 1 .. p /\ b[i] = s[i]
            BY <1>1, <1>2, <2>1
        <3>2. i + 2 <= p => b[i + 1] = s[i + 1] /\ b[i + 2] = s[i + 2]
            BY <1>1, <1>2, <2>1
        <3>3. QED
            BY <1>1, <1>3, <3>1, <3>2
    <2>2. CASE i > p
        <3> DEFINE j == i - p
        <3>1. j \in 1 .. q /\ i = p + j /\ i + 1 = p + (j + 1) /\ i + 2 = p + (j + 2)
            BY <1>1, <2>2
        <3> HIDE DEF j
        <3>2. b[i] = t[j]
            BY <1>2, <3>1
        <3>3. j + 2 <= q => b[i + 1] = t[j + 1] /\ b[i + 2] = t[j + 2]
            <4>1. ASSUME j + 2 <= q PROVE j + 1 \in 1 .. q /\ j + 2 \in 1 .. q
                BY <1>1, <3>1, <4>1
            <4>2. QED
                BY <1>2, <3>1, <4>1
        <3>4. j + 2 <= q => i + 2 <= r
            BY <1>1, <3>1
        <3>5. QED
            BY <1>4, <3>1, <3>2, <3>3, <3>4
    <2>3. QED
        BY <1>1, <2>1, <2>2
<1>6. QED
    BY <1>5 DEF InKeys

LEMMA KeysArea ==
    ASSUME NEW n \in TableCounts
    PROVE  LET area == ListBytes(SizesOf(n))
           IN  /\ area \in Seq(Byte) /\ Len(area) = KeysSize(SizesOf(n))
               /\ n = -1 => Len(area) = 0
               /\ n # -1 => /\ 3 * n <= Len(area) /\ Len(area) <= 12 * n
                            /\ \A i \in 1 .. Len(area) : InKeys(area, i)
<1> DEFINE keys == SizesOf(n)
           area == ListBytes(keys)
<1>1. keys \in Seq(Seq(Byte)) /\ \A j \in 1 .. Len(keys) : keys[j] = TableSize
    BY SizesFit
<1>2. area \in Seq(Byte) /\ Len(area) = KeysSize(keys)
    BY <1>1, ListBytesTypes
<1>3. PICK flat, size : /\ ListSteps(keys, flat, size)
                        /\ area = flat[Len(keys)]
                        /\ KeysSize(keys) = size[Len(keys)]
    BY <1>1, KeysAreBytes
<1> DEFINE N == Len(keys)
           k == KeyBytes(TableSize)
           l == Len(TableSize)
<1>4. N \in Nat
    BY <1>1, LenProperties
<1>n. N = IF n = -1 THEN 0 ELSE n
    BY SizesFit
<1>5. l \in Int /\ 1 <= l /\ l <= 10
    BY TableSizeFits, LenProperties
<1>6. /\ flat[0] = <<>> /\ size[0] = 0
      /\ \A j \in 0 .. N : flat[j] \in Seq(Byte) /\ Len(flat[j]) = size[j]
                           /\ size[j] \in Nat
      /\ \A j \in 1 .. N : flat[j] = flat[j - 1] \o k
      /\ \A j \in 1 .. N : size[j] = size[j - 1] + 2 + l
    <2>1. /\ flat[0] = <<>> /\ size[0] = 0
          /\ \A j \in 0 .. N : flat[j] \in Seq(Byte) /\ Len(flat[j]) = size[j]
                               /\ size[j] \in Nat
          /\ \A j \in 1 .. N : flat[j] = flat[j - 1] \o KeyBytes(keys[j])
          /\ \A j \in 1 .. N : size[j] = size[j - 1] + 2 + Len(keys[j])
        BY <1>3 DEF ListSteps
    <2>2. \A j \in 1 .. N : keys[j] = TableSize
        BY <1>1
    <2> HIDE DEF keys, N
    <2>3. QED
        BY <2>1, <2>2
<1> HIDE DEF keys, area, N
<1> DEFINE Q(j) == /\ 3 * j <= size[j] /\ size[j] <= 12 * j
                   /\ \A i \in 1 .. Len(flat[j]) : InKeys(flat[j], i)
           G == {j \in Nat : j <= N => Q(j)}
<1>7. 0 \in G
    <2>1. Len(flat[0]) = 0
        BY <1>6
    <2>2. Q(0)
        BY <1>6, <2>1
    <2>3. QED
        BY <2>2
<1>8. ASSUME NEW j \in Nat, j \in G PROVE j + 1 \in G
    <2>1. CASE j + 1 <= N
        <3>1. Q(j)
            BY <1>4, <1>8, <2>1
        <3>2. j \in 0 .. N /\ j + 1 \in 1 .. N /\ (j + 1) - 1 = j
            BY <1>4, <2>1
        <3>3. flat[j + 1] = flat[j] \o k /\ size[j + 1] = size[j] + 2 + l
            <4> HIDE DEF k, l
            <4>1. flat[j + 1] = flat[(j + 1) - 1] \o k
                BY <1>6, <3>2
            <4>2. size[j + 1] = size[(j + 1) - 1] + 2 + l
                BY <1>6, <3>2
            <4>3. QED
                BY <3>2, <4>1, <4>2
        <3>4. \A i \in 1 .. Len(flat[j + 1]) : InKeys(flat[j + 1], i)
            <4>1. flat[j] \in Seq(Byte)
                BY <1>6, <3>2
            <4>2. k \in Seq(Byte) /\ \A i \in 1 .. Len(k) : InKeys(k, i)
                BY OneKeyBytes
            <4>3. \A i \in 1 .. Len(flat[j]) : InKeys(flat[j], i)
                BY <3>1
            <4> HIDE DEF k, Q
            <4>4. \A i \in 1 .. Len(flat[j] \o k) : InKeys(flat[j] \o k, i)
                BY <4>1, <4>2, <4>3, InKeysTogether
            <4>5. QED
                BY <3>3, <4>4
        <3>5. 3 * (j + 1) <= size[j + 1] /\ size[j + 1] <= 12 * (j + 1)
            <4>1. size[j] \in Nat /\ 3 * j <= size[j] /\ size[j] <= 12 * j
                BY <1>6, <3>1, <3>2
            <4> DEFINE x == size[j]
                       y == size[j + 1]
            <4>2. y = x + 2 + l /\ x \in Nat /\ 3 * j <= x /\ x <= 12 * j
                BY <3>3, <4>1
            <4> HIDE DEF x, y, l
            <4>3. 3 * (j + 1) <= y /\ y <= 12 * (j + 1)
                BY <1>5, <4>2
            <4>4. QED
                BY <4>3 DEF x, y
        <3>6. Q(j + 1)
            BY <3>4, <3>5
        <3>7. QED
            BY <3>6
    <2>2. QED
        BY <2>1
<1>9. Q(N)
    <2> HIDE DEF Q
    <2>1. Nat \subseteq G
        <3> HIDE DEF G
        <3>1. QED
            BY <1>7, <1>8, NumbersByInduction
    <2>2. QED
        BY <1>4, <2>1
<1>10. /\ 3 * N <= size[N] /\ size[N] <= 12 * N
       /\ \A i \in 1 .. Len(flat[N]) : InKeys(flat[N], i)
    BY <1>9
<1>11. area = flat[N] /\ Len(area) = size[N] /\ size[N] \in Nat
    BY <1>3, <1>4, <1>6 DEF N
<1> HIDE DEF Q, G, k, l
<1>12. 3 * N <= Len(area) /\ Len(area) <= 12 * N /\ Len(area) \in Nat
    BY <1>10, <1>11
<1>13. n = -1 => Len(area) = 0
    BY <1>n, <1>12
<1>14. n # -1 => 3 * n <= Len(area) /\ Len(area) <= 12 * n
    BY <1>n, <1>12
<1>15. \A i \in 1 .. Len(area) : InKeys(area, i)
    BY <1>10, <1>11
<1>16. area \in Seq(Byte) /\ Len(area) = KeysSize(SizesOf(n)) /\ area = ListBytes(SizesOf(n))
    BY <1>2 DEF area, keys
<1>17. QED
    BY <1>13, <1>14, <1>15, <1>16

LEMMA ListedIsSendable ==
    ASSUME NEW n \in TableCounts
    PROVE  /\ Sendable(Listed(n))
           /\ Len(Encode(Listed(n))) = 10 + Len(ListBytes(SizesOf(n)))
           /\ Len(Encode(Listed(n))) <= 3070
<1> DEFINE keys == SizesOf(n)
           area == ListBytes(keys)
<1>1. /\ keys \in Seq(Seq(Byte)) /\ Len(keys) \in IntRange
      /\ \A j \in 1 .. Len(keys) : KeyFits(keys[j])
    <2>1. Len(keys) = IF n = -1 THEN 0 ELSE n
        BY SizesFit
    <2>2. n \in Int /\ (n = -1 \/ (1 <= n /\ n <= 255))
        BY CountsAreNumbers
    <2>3. Len(keys) \in IntRange
        <3>1. 0 \in IntRange /\ (n # -1 => n \in IntRange)
            BY <2>2, SmallNumbers
        <3>2. QED
            BY <2>1, <3>1
    <2>4. QED
        BY <2>3, SizesFit, TableSizeFits
<1>2. ContentFits(CT_KEYS, keys)
    BY <1>1 DEF ContentFits
<1>3. Listed(n) = Message(OC_SZ_TABLES, CT_KEYS, -1, keys)
    BY DEF Listed, SizesOf
<1>4. BufferSize(Message(OC_SZ_TABLES, CT_KEYS, -1, keys)) = 6 + (4 + KeysSize(keys))
    BY <1>1, KeysContent DEF ContentIs
<1> DEFINE x == KeysSize(keys)
<1>5. x \in Nat /\ x <= 3060 /\ x = Len(area)
    <2>1. /\ area \in Seq(Byte) /\ Len(area) = x
          /\ n = -1 => Len(area) = 0
          /\ n # -1 => Len(area) <= 12 * n
        BY KeysArea
    <2>2. n \in Int /\ (n = -1 \/ (1 <= n /\ n <= 255))
        BY CountsAreNumbers
    <2>3. Len(area) \in Nat
        BY <2>1, LenProperties
    <2> DEFINE y == Len(area)
    <2>4. y = x /\ y \in Nat /\ (n = -1 => y = 0) /\ (n # -1 => y <= 12 * n)
        BY <2>1, <2>3
    <2> HIDE DEF x, y
    <2>5. x \in Nat /\ x <= 3060 /\ x = y
        BY <2>2, <2>4
    <2>6. QED
        BY <2>5 DEF y
<1>6. BufferSize(Listed(n)) = 10 + x /\ BufferSize(Listed(n)) \in IntRange
    <2> DEFINE z == 6 + (4 + x)
    <2>1. z = 10 + x
        <3> HIDE DEF x
        <3>1. QED
            BY <1>5
    <2>2. 10 + x \in IntRange
        <3> HIDE DEF x
        <3>1. 10 + x \in Int /\ -32768 <= 10 + x /\ 10 + x <= 32767
            BY <1>5
        <3>2. QED
            BY <3>1, SmallNumbers
    <2>3. QED
        BY <1>3, <1>4, <2>1, <2>2
<1>7. -1 \in ShortRange
    BY SmallNumbers
<1> HIDE DEF keys, x
<1>8. Sendable(Listed(n))
    BY <1>2, <1>3, <1>6, <1>7, OpcodesAreKnown, SendableMessage
<1>9. Len(Encode(Listed(n))) = BufferSize(Listed(n))
    BY <1>2, <1>3, <1>7, OpcodesAreKnown, MessageRoundTrip
<1>10. area = ListBytes(SizesOf(n))
    BY DEF keys
<1> HIDE DEF area
<1> DEFINE c == Len(Encode(Listed(n)))
           a == Len(area)
<1>11. c = 10 + x /\ x = a /\ x \in Nat /\ x <= 3060
    BY <1>5, <1>6, <1>9
<1> HIDE DEF c, a
<1>12. c = 10 + a /\ c <= 3070
    BY <1>11
<1>13. QED
    BY <1>8, <1>10, <1>12 DEF c, a

LEMMA PutIsSendable ==
    ASSUME NEW e \in Pair, e.table \in ShortRange, Len(e.key) \in ShortRange,
           12 + Len(e.key) + Len(e.value) \in IntRange
    PROVE  Sendable(Message(OC_PUT, CT_ENTRY, e.table, Entry(e.key, e.value)))
<1>1. e.key \in Seq(Byte \ {0}) /\ e.value \in Seq(Byte) \ {<<>>}
    BY DEF Pair
<1>2. e.key \in Seq(Byte)
    <2>1. \A i \in 1 .. Len(e.key) : e.key[i] \in Byte
        BY <1>1, ElementOfSeq
    <2>2. e.key = [i \in 1 .. Len(e.key) |-> e.key[i]] /\ Len(e.key) \in Nat
        BY <1>1, LenProperties
    <2>3. QED
        BY <2>1, <2>2
<1> DEFINE p == Len(e.key)
           q == Len(e.value)
<1>3. p \in Nat /\ q \in Nat
    BY <1>1, LenProperties
<1>4. q \in IntRange
    <2>1. 12 + p + q \in IntRange
        OBVIOUS
    <2> HIDE DEF p, q
    <2>2. QED
        BY <1>3, <2>1, SMT DEF IntRange
<1>5. KeyFits(e.key) /\ DataFits(e.value)
    BY <1>1, <1>4 DEF KeyFits, DataFits
<1>6. ContentFits(CT_ENTRY, Entry(e.key, e.value))
    <2>1. \E key, data \in Seq(Byte) : /\ KeyFits(key) /\ DataFits(data)
                                       /\ Entry(e.key, e.value) = Entry(key, data)
        BY <1>1, <1>2, <1>5
    <2>2. QED
        BY <2>1 DEF ContentFits
<1>7. BufferSize(Message(OC_PUT, CT_ENTRY, e.table, Entry(e.key, e.value)))
      = 6 + (6 + p + q)
    <2> DEFINE m == Message(OC_PUT, CT_ENTRY, e.table, Entry(e.key, e.value))
    <2>1. e.value \in Seq(Byte)
        BY <1>1
    <2>2. ContentIs(m, KeyBytes(e.key) \o DataBytes(e.value), 6 + Len(e.key) + Len(e.value))
        BY <1>2, <2>1, EntryContent
    <2> HIDE DEF m
    <2>3. BufferSize(m) = 6 + (6 + Len(e.key) + Len(e.value))
        BY <2>2 DEF ContentIs
    <2>4. QED
        BY <2>3 DEF m
<1>8. 6 + (6 + p + q) = 12 + p + q
    <2> HIDE DEF p, q
    <2>1. QED
        BY <1>3
<1>9. QED
    BY <1>6, <1>7, <1>8, OpcodesAreKnown, SendableMessage

LEMMA ContentsAreLists ==
    ASSUME NEW c \in Contents
    PROVE  c \in Seq(Pair) /\ Len(c) \in Nat
<1>1. c \in Seq(Pair)
    BY RecoveryAssumption
<1>2. QED
    BY <1>1, LenProperties

LEMMA RequestsAre ==
    ASSUME NEW n \in TableCounts, NEW c, Held(n, c)
    PROVE  /\ Len(Requests(n, c)) = (IF n = -1 THEN 2 ELSE 2 + Len(c))
           /\ Requests(n, c)[1] = Listed(n)
           /\ Requests(n, c)[Len(Requests(n, c))] = Ack
           /\ n # -1 => \A k \in 1 .. Len(c) :
                 Requests(n, c)[k + 1] = Message(OC_PUT, CT_ENTRY, c[k].table,
                                                 Entry(c[k].key, c[k].value))
<1>1. Len(c) \in Nat
    BY ContentsAreLists DEF Held
<1> DEFINE N == Len(c)
           put(k) == Message(OC_PUT, CT_ENTRY, c[k].table, Entry(c[k].key, c[k].value))
           puts == PutsOf(n, c)
           one == <<Listed(n)>>
           two == <<Ack>>
           M == {Listed(n), Ack} \cup {put(k) : k \in 1 .. N}
<1> HIDE DEF put, N
<1>2. one \in Seq(M) /\ Len(one) = 1 /\ one[1] = Listed(n)
    OBVIOUS
<1>3. two \in Seq(M) /\ Len(two) = 1 /\ two[1] = Ack
    OBVIOUS
<1>4. puts = IF n = -1 THEN <<>> ELSE [k \in 1 .. N |-> put(k)]
    BY DEF PutsOf, put, N
<1>5. /\ puts \in Seq(M) /\ Len(puts) = (IF n = -1 THEN 0 ELSE N)
      /\ n # -1 => \A k \in 1 .. N : puts[k] = put(k)
    <2>1. CASE n = -1
        BY <1>4, <2>1
    <2>2. CASE n # -1
        <3>1. puts = [k \in 1 .. N |-> put(k)]
            BY <1>4, <2>2
        <3>2. N \in Nat
            BY <1>1 DEF N
        <3>3. \A k \in 1 .. N : put(k) \in M
            OBVIOUS
        <3> HIDE DEF M
        <3>4. QED
            BY <2>2, <3>1, <3>2, <3>3
    <2>3. QED
        BY <2>1, <2>2
<1> HIDE DEF M, one, two, puts
<1>6. Requests(n, c) = (one \o puts) \o two
    BY DEF Requests, one, puts, two
<1> DEFINE s == one \o puts
           r == Requests(n, c)
           P == Len(puts)
<1>7. s \in Seq(M) /\ Len(s) = Len(one) + P
    BY <1>2, <1>5, TwoParts
<1>8. r = s \o two /\ Len(r) = Len(s) + Len(two)
    BY <1>3, <1>6, <1>7, TwoParts
<1>9. /\ \A i \in 1 .. Len(one) : s[i] = one[i]
      /\ \A i \in 1 .. P : s[Len(one) + i] = puts[i]
    <2>1. one \in Seq(M) /\ puts \in Seq(M)
        BY <1>2, <1>5
    <2>2. QED
        BY ONLY <2>1, Parts
<1>10. /\ \A i \in 1 .. Len(s) : r[i] = s[i]
       /\ \A i \in 1 .. Len(two) : r[Len(s) + i] = two[i]
    BY <1>3, <1>7, <1>8, Parts
<1>11. P \in Nat
    BY <1>5, LenProperties
<1> DEFINE S1 == Len(s)
           R1 == Len(r)
<1>12. S1 = 1 + P /\ R1 = 2 + P
    <2>1. S1 = Len(one) + P /\ R1 = S1 + Len(two)
        BY <1>7, <1>8
    <2> HIDE DEF S1, R1, P
    <2>2. QED
        BY <1>2, <1>3, <1>11, <2>1
<1>13. /\ s[1] = one[1] /\ \A i \in 1 .. P : s[1 + i] = puts[i]
    <2> HIDE DEF s, P
    <2>1. QED
        BY <1>2, <1>9
<1>14. /\ \A i \in 1 .. S1 : r[i] = s[i]
       /\ r[S1 + 1] = two[1]
    BY <1>3, <1>10
<1>15. P = IF n = -1 THEN 0 ELSE N
    BY <1>5
<1> HIDE DEF s, r, P, S1, R1
<1>16. r[1] = Listed(n) /\ r[R1] = Ack
    <2>1. 1 \in 1 .. S1 /\ R1 = S1 + 1
        BY <1>11, <1>12
    <2>2. QED
        BY <1>2, <1>3, <1>13, <1>14, <2>1
<1>17. ASSUME n # -1, NEW k \in 1 .. N PROVE r[k + 1] = put(k)
    <2>1. P = N
        BY <1>15, <1>17
    <2>2. k \in 1 .. P /\ 1 + k \in 1 .. S1 /\ k + 1 = 1 + k
        BY <1>11, <1>12, <2>1
    <2>3. QED
        BY <1>5, <1>13, <1>14, <1>17, <2>2
<1>18. R1 = IF n = -1 THEN 2 ELSE 2 + N
    BY <1>11, <1>12, <1>15
<1>19. QED
    BY <1>16, <1>17, <1>18 DEF r, R1, put, N

LEMMA RequestIs ==
    ASSUME NEW n \in TableCounts, NEW c, Held(n, c), NEW i \in 1 .. Len(Requests(n, c))
    PROVE  \/ i = 1 /\ Requests(n, c)[i] = Listed(n)
           \/ i = Len(Requests(n, c)) /\ Requests(n, c)[i] = Ack
           \/ /\ n # -1
              /\ \E k \in 1 .. Len(c) : /\ i = k + 1
                                        /\ Requests(n, c)[i] = Message(OC_PUT, CT_ENTRY,
                                              c[k].table, Entry(c[k].key, c[k].value))
<1> DEFINE r == Requests(n, c)
           N == Len(c)
           R == Len(r)
<1>1. N \in Nat
    BY ContentsAreLists DEF Held
<1>2. R = IF n = -1 THEN 2 ELSE 2 + N
    BY RequestsAre
<1>3. r[1] = Listed(n) /\ r[R] = Ack
    BY RequestsAre
<1>4. n # -1 => \A k \in 1 .. N : r[k + 1] = Message(OC_PUT, CT_ENTRY, c[k].table,
                                                     Entry(c[k].key, c[k].value))
    BY RequestsAre
<1>5. i \in 1 .. R
    OBVIOUS
<1> HIDE DEF r, N, R
<1>6. i = 1 \/ i = R \/ (n # -1 /\ i - 1 \in 1 .. N /\ i = (i - 1) + 1)
    BY <1>1, <1>2, <1>5
<1>7. QED
    BY <1>3, <1>4, <1>6 DEF r, N, R

LEMMA RequestIsSendable ==
    ASSUME NEW n \in TableCounts, NEW c, Held(n, c), NEW i \in 1 .. Len(Requests(n, c))
    PROVE  Sendable(Requests(n, c)[i])
<1>1. Sendable(Listed(n)) /\ Sendable(Ack)
    BY ListedIsSendable, ResultIsSendable, OpcodesAreKnown DEF Ack
<1>2. ASSUME n # -1, NEW k \in 1 .. Len(c)
      PROVE  Sendable(Message(OC_PUT, CT_ENTRY, c[k].table, Entry(c[k].key, c[k].value)))
    <2>1. c \in Contents /\ c[k].table < n
        BY <1>2 DEF Held
    <2>2. c[k] \in Pair
        BY <2>1, ContentsAreLists, ElementOfSeq
    <2>3. /\ Len(c[k].key) \in ShortRange
          /\ 12 + Len(c[k].key) + Len(c[k].value) \in IntRange
        <3>1. c[k] \in Range(c)
            BY DEF Range
        <3>2. QED
            BY <2>1, <3>1, RecoveryAssumption
    <2>4. c[k].table \in ShortRange
        <3>1. c[k].table \in Nat
            BY <2>2 DEF Pair
        <3>2. n \in Int /\ n <= 255
            BY <1>2, CountsAreNumbers
        <3> DEFINE t == c[k].table
        <3>3. t \in Nat /\ t < n
            BY <2>1, <3>1
        <3> HIDE DEF t
        <3>4. t \in Int /\ -32768 <= t /\ t <= 32767
            BY <3>2, <3>3
        <3>5. QED
            BY <3>4, SmallNumbers DEF t
    <2>5. QED
        BY <2>2, <2>3, <2>4, PutIsSendable
<1>3. \/ Requests(n, c)[i] = Listed(n)
      \/ Requests(n, c)[i] = Ack
      \/ /\ n # -1
         /\ \E k \in 1 .. Len(c) :
               Requests(n, c)[i] = Message(OC_PUT, CT_ENTRY, c[k].table,
                                           Entry(c[k].key, c[k].value))
    BY RequestIs
<1>4. QED
    BY <1>1, <1>2, <1>3

LEMMA LengthOfSendable ==
    ASSUME NEW m, Sendable(m)
    PROVE  Len(Encode(m)) \in Nat /\ Len(Encode(m)) \in IntRange
BY LenProperties DEF Sendable

LEMMA FrameParts ==
    ASSUME NEW m, Sendable(m)
    PROVE  /\ Frame(m) \in Seq(Byte) /\ Len(Frame(m)) = 4 + Len(Encode(m))
           /\ IntAt(Frame(m), 1) = Len(Encode(m))
           /\ \A i \in 1 .. Len(Encode(m)) : Frame(m)[4 + i] = Encode(m)[i]
<1> DEFINE e == Encode(m)
           f == Frame(m)
           h == IntBytes(Len(e))
<1>1. e \in Seq(Byte) /\ Len(e) \in IntRange
    BY DEF Sendable
<1>2. Len(e) \in Nat
    BY <1>1, LenProperties
<1>3. h \in Seq(Byte)
    BY <1>2, IntBytesTypes
<1>4. Len(h) = 4
    BY <1>2, IntBytesTypes
<1>5. f = h \o e
    BY DEF Frame
<1> HIDE DEF e, f, h
<1>6. f \in Seq(Byte) /\ Len(f) = Len(h) + Len(e)
    BY ONLY <1>1, <1>3, <1>5, TwoParts
<1>7. /\ \A i \in 1 .. Len(h) : f[i] = h[i]
      /\ \A i \in 1 .. Len(e) : f[Len(h) + i] = e[i]
    BY ONLY <1>1, <1>3, <1>5, Parts
<1>8. Stands(f, 1, h)
    <2>1. ASSUME NEW i \in 1 .. Len(h) PROVE f[1 + i - 1] = h[i]
        <3>1. i \in 1 .. 4 /\ 1 + i - 1 = i
            BY <1>4
        <3>2. QED
            BY <1>7, <3>1
    <2>2. QED
        BY <2>1 DEF Stands
<1>9. IntAt(f, 1) = Len(e)
    BY <1>1, <1>8, IntStands DEF h
<1>10. Len(f) = 4 + Len(e)
    BY <1>4, <1>6
<1>11. \A i \in 1 .. Len(e) : f[4 + i] = e[i]
    BY <1>4, <1>7
<1>12. QED
    BY <1>6, <1>9, <1>10, <1>11 DEF e, f

(* What stands where in the opening.                                       *)
LEMMA OpeningParts ==
    ASSUME NEW n \in TableCounts
    PROVE  LET b == Opening(n)
               l == Encode(Listed(n))
           IN  /\ b \in Seq(Byte) /\ Len(b) = 22 + Len(l)
               /\ IntAt(b, 1) = n
               /\ Stands(b, 5, IntBytes(10)) /\ Stands(b, 9, Encode(HelloReply))
               /\ Stands(b, 19, IntBytes(Len(l))) /\ Stands(b, 23, l)
<1> DEFINE b == Opening(n)
           e == Encode(HelloReply)
           l == Encode(Listed(n))
           g == IntBytes(n)
           x == IntBytes(Len(e))
           y == IntBytes(Len(l))
<1>1. Sendable(HelloReply) /\ Len(e) = 10
    BY ResultIsSendable, OpcodesAreKnown DEF HelloReply
<1>2. Sendable(Listed(n))
    BY ListedIsSendable
<1>3. n \in Int /\ n \in IntRange
    <2>1. n \in Int /\ (n = -1 \/ (1 <= n /\ n <= 255))
        BY CountsAreNumbers
    <2>2. QED
        BY <2>1, SmallNumbers
<1>4. e \in Seq(Byte) /\ l \in Seq(Byte)
    BY <1>1, <1>2 DEF Sendable
<1>5. Len(e) \in Nat /\ Len(l) \in Nat
    BY <1>4, LenProperties
<1>6. /\ g \in Seq(Byte) /\ Len(g) = 4 /\ x \in Seq(Byte) /\ Len(x) = 4
      /\ y \in Seq(Byte) /\ Len(y) = 4
    BY <1>3, <1>5, IntBytesTypes
<1>7. x = IntBytes(10)
    BY <1>1
<1> DEFINE fx == x \o e
           fy == y \o l
           f == fx \o fy
<1>8. b = g \o f
    BY DEF Opening, Frame
<1>9. IntAt(b, 1) = n /\ b \in Seq(Byte)
      /\ Len(b) = Len(g) + ((Len(x) + Len(e)) + (Len(y) + Len(l)))
      /\ Stands(b, 1 + Len(g), x) /\ Stands(b, (1 + Len(g)) + Len(x), e)
      /\ Stands(b, (1 + Len(g)) + (Len(x) + Len(e)), y)
      /\ Stands(b, ((1 + Len(g)) + (Len(x) + Len(e))) + Len(y), l)
    <2> HIDE DEF b, e, l, g, x, y
    <2>1. g \in Seq(Byte) /\ x \in Seq(Byte) /\ y \in Seq(Byte)
        BY <1>6
    <2>2. fx \in Seq(Byte) /\ Len(fx) = Len(x) + Len(e)
        BY ONLY <1>4, <2>1, TwoParts
    <2>3. fy \in Seq(Byte) /\ Len(fy) = Len(y) + Len(l)
        BY ONLY <1>4, <2>1, TwoParts
    <2> HIDE DEF fx, fy
    <2>4. f \in Seq(Byte) /\ Len(f) = Len(fx) + Len(fy)
        BY ONLY <2>2, <2>3, TwoParts
    <2> HIDE DEF f
    <2>5. b \in Seq(Byte) /\ Len(b) = Len(g) + Len(f)
        BY ONLY <1>8, <2>1, <2>4, TwoParts
    <2>6. Stands(b, 1, g \o f)
        BY <1>8, StandsAtStart
    <2>7. Len(g) \in Int /\ Len(x) \in Int /\ Len(fx) \in Int /\ Len(y) \in Int
        BY <2>1, <2>2, LenProperties
    <2>8. Stands(b, 1, g) /\ Stands(b, 1 + Len(g), f)
        BY <2>1, <2>4, <2>6, StandsInParts
    <2>9. 1 + Len(g) \in Int /\ (1 + Len(g)) + Len(fx) \in Int
        BY <2>7
    <2>10. Stands(b, 1 + Len(g), fx) /\ Stands(b, (1 + Len(g)) + Len(fx), fy)
        BY <2>2, <2>3, <2>8, <2>9, StandsInParts DEF f
    <2>11. Stands(b, 1 + Len(g), x) /\ Stands(b, (1 + Len(g)) + Len(x), e)
        BY <1>4, <2>1, <2>9, <2>10, StandsInParts DEF fx
    <2>12. /\ Stands(b, (1 + Len(g)) + Len(fx), y)
           /\ Stands(b, ((1 + Len(g)) + Len(fx)) + Len(y), l)
        BY <1>4, <2>1, <2>9, <2>10, StandsInParts DEF fy
    <2>13. IntAt(b, 1) = n
        BY <1>3, <2>8, IntStands DEF g
    <2>14. QED
        BY <2>2, <2>3, <2>4, <2>5, <2>11, <2>12, <2>13
<1> DEFINE L == Len(l)
<1>10. /\ 1 + Len(g) = 5 /\ (1 + Len(g)) + Len(x) = 9
       /\ (1 + Len(g)) + (Len(x) + Len(e)) = 19
       /\ ((1 + Len(g)) + (Len(x) + Len(e))) + Len(y) = 23
       /\ Len(g) + ((Len(x) + Len(e)) + (Len(y) + Len(l))) = 22 + L
    <2>1. Len(g) = 4 /\ Len(x) = 4 /\ Len(y) = 4 /\ Len(e) = 10
        BY <1>1, <1>6
    <2>2. L \in Nat /\ Len(l) = L
        BY <1>5
    <2> HIDE DEF L, l, g, x, y, e
    <2>3. QED
        BY ONLY <2>1, <2>2
<1> HIDE DEF b, e, l, g, x, y, fx, fy, f, L
<1>11. /\ b \in Seq(Byte) /\ Len(b) = 22 + L /\ IntAt(b, 1) = n
       /\ Stands(b, 5, x) /\ Stands(b, 9, e) /\ Stands(b, 19, y) /\ Stands(b, 23, l)
    BY <1>9, <1>10
<1>12. QED
    BY <1>7, <1>11 DEF b, e, l, y, L

LEMMA EncodeStands ==
    ASSUME NEW op \in Int, NEW ct \in Int, NEW table \in Int, NEW content,
           NEW bytes, NEW size, ContentIs(Message(op, ct, table, content), bytes, size),
           NEW b, NEW p \in Int, Stands(b, p, Encode(Message(op, ct, table, content)))
    PROVE  /\ Stands(b, p, ShortBytes(op)) /\ Stands(b, p + 2, ShortBytes(ct))
           /\ Stands(b, p + 4, ShortBytes(table)) /\ Stands(b, p + 6, bytes)
<1> DEFINE m == Message(op, ct, table, content)
           h == Header(m)
           s1 == ShortBytes(op)
           s2 == ShortBytes(ct)
           s3 == ShortBytes(table)
<1>1. s1 \in Seq(Byte) /\ s2 \in Seq(Byte) /\ s3 \in Seq(Byte)
    BY ShortBytesTypes
<1>2. Len(s1) = 2 /\ Len(s2) = 2
    BY ShortBytesTypes
<1>3. m.opcode = op /\ m.c_type = ct /\ m.table_num = table
    BY DEF Message
<1>4. h \in Seq(Byte)
    BY <1>3, HeaderTypes
<1>5. Len(h) = 6
    BY <1>3, HeaderTypes
<1>6. h = (s1 \o s2) \o s3
    BY <1>3 DEF Header
<1>7. bytes \in Seq(Byte) /\ Encode(m) = h \o bytes
    BY DEF ContentIs, Encode
<1> HIDE DEF s1, s2, s3, h, m
<1>8. Stands(b, p, h \o bytes)
    BY <1>7 DEF m
<1>9. Stands(b, p, h) /\ Stands(b, p + Len(h), bytes)
    BY ONLY <1>4, <1>7, <1>8, p \in Int, StandsInParts
<1>10. /\ Stands(b, p, s1) /\ Stands(b, p + Len(s1), s2)
       /\ Stands(b, p + (Len(s1) + Len(s2)), s3)
    <2>1. Stands(b, p, (s1 \o s2) \o s3)
        BY <1>6, <1>9
    <2>2. QED
        BY ONLY <1>1, <2>1, p \in Int, StandsInThreeParts
<1>11. p + Len(h) = p + 6 /\ p + Len(s1) = p + 2 /\ p + (Len(s1) + Len(s2)) = p + 4
    BY <1>2, <1>5
<1>12. QED
    BY <1>9, <1>10, <1>11 DEF s1, s2, s3

LEMMA ShortInBytes ==
    ASSUME NEW x \in Int, NEW b, NEW p \in Int, Stands(b, p, ShortBytes(x))
    PROVE  b[p] = (x \div 256) % 256 /\ b[p + 1] = x % 256
<1> DEFINE s == ShortBytes(x)
<1>1. Len(s) = 2
    BY ShortBytesTypes
<1>2. s[1] = (x \div 256) % 256 /\ s[2] = x % 256
    BY ShortBytesTypes
<1> HIDE DEF s
<1>3. b[p + 1 - 1] = s[1] /\ b[p + 2 - 1] = s[2]
    BY <1>1 DEF Stands, s
<1>4. p + 1 - 1 = p /\ p + 2 - 1 = p + 1
    OBVIOUS
<1>5. QED
    BY <1>2, <1>3, <1>4

LEMMA IntInBytes ==
    ASSUME NEW x \in Nat, x < 65536, NEW b, NEW p \in Int, Stands(b, p, IntBytes(x))
    PROVE  b[p] = 0 /\ b[p + 1] = 0 /\ b[p + 2] = x \div 256 /\ b[p + 3] = x % 256
<1> DEFINE s == IntBytes(x)
<1>1. Len(s) = 4
    BY IntBytesTypes
<1>2. /\ s[1] = (x \div 16777216) % 256 /\ s[2] = (x \div 65536) % 256
      /\ s[3] = (x \div 256) % 256 /\ s[4] = x % 256
    BY DEF IntBytes
<1>3. /\ (x \div 16777216) % 256 = 0 /\ (x \div 65536) % 256 = 0
      /\ (x \div 256) % 256 = x \div 256
    <2>1. x \div 16777216 = 0
        BY ONLY x \in Nat, x < 65536
    <2>2. x \div 65536 = 0
        BY ONLY x \in Nat, x < 65536
    <2>3. x \div 256 \in 0 .. 255
        BY ONLY x \in Nat, x < 65536
    <2>4. 0 % 256 = 0 /\ (x \div 256) % 256 = x \div 256
        BY ONLY <2>3
    <2>5. QED
        BY ONLY <2>1, <2>2, <2>4
<1> HIDE DEF s
<1>4. s[1] = 0 /\ s[2] = 0 /\ s[3] = x \div 256 /\ s[4] = x % 256
    BY ONLY <1>2, <1>3
<1>5. \A i \in 1 .. 4 : b[p + i - 1] = s[i]
    BY <1>1 DEF Stands, s
<1>6. b[p] = s[1] /\ b[p + 1] = s[2] /\ b[p + 2] = s[3] /\ b[p + 3] = s[4]
    <2>1. p + 1 - 1 = p /\ p + 2 - 1 = p + 1 /\ p + 3 - 1 = p + 2 /\ p + 4 - 1 = p + 3
        OBVIOUS
    <2>2. QED
        BY ONLY <1>5, <2>1
<1>7. QED
    BY ONLY <1>4, <1>6

LEMMA MinusOneInBytes ==
    ASSUME NEW b, NEW p \in Int, Stands(b, p, ShortBytes(-1))
    PROVE  b[p] = 255 /\ b[p + 1] = 255
<1>1. PICK x \in Int : x = -1
    OBVIOUS
<1>2. Stands(b, p, ShortBytes(x))
    BY <1>1
<1>3. b[p] = (x \div 256) % 256 /\ b[p + 1] = x % 256
    BY <1>2, ShortInBytes
<1>4. x + 1 = 0
    BY <1>1
<1>5. x \div 256 = x /\ x % 256 = 255
    BY ONLY <1>4, x \in Int
<1>6. QED
    BY ONLY <1>3, <1>5

(* The opening in figures, where a is the list of sizes.                   *)
Figures(b, n, a) ==
    /\ b[5] = 0 /\ b[6] = 0 /\ b[7] = 0 /\ b[8] = 10
    /\ b[9] = 0 /\ b[10] = 91 /\ b[11] = 0 /\ b[12] = 10 /\ b[13] = 255 /\ b[14] = 255
    /\ b[15] = 0 /\ b[16] = 0 /\ b[17] = 0 /\ b[18] = 0
    /\ b[19] = 0 /\ b[20] = 0 /\ b[21] = (10 + Len(a)) \div 256
    /\ b[22] = (10 + Len(a)) % 256
    /\ b[23] = 0 /\ b[24] = 60 /\ b[25] = 0 /\ b[26] = 40 /\ b[27] = 255 /\ b[28] = 255
    /\ b[29] = 0 /\ b[30] = 0 /\ b[31] = 0 /\ b[32] = n
    /\ \A i \in 1 .. Len(a) : b[32 + i] = a[i]

LEMMA OpeningFigures ==
    ASSUME NEW n \in TableCounts, n # -1
    PROVE  /\ Figures(Opening(n), n, ListBytes(SizesOf(n)))
           /\ Len(Opening(n)) = 32 + Len(ListBytes(SizesOf(n)))
<1> DEFINE b == Opening(n)
           e == Encode(HelloReply)
           l == Encode(Listed(n))
           a == ListBytes(SizesOf(n))
           A == Len(a)
<1>1. /\ b \in Seq(Byte) /\ Len(b) = 22 + Len(l)
      /\ Stands(b, 5, IntBytes(10)) /\ Stands(b, 9, e)
      /\ Stands(b, 19, IntBytes(Len(l))) /\ Stands(b, 23, l)
    BY OpeningParts
<1>2. n \in Int /\ 1 <= n /\ n <= 255
    BY CountsAreNumbers
<1>3. a \in Seq(Byte) /\ A <= 12 * n
    BY KeysArea
<1>4. Len(l) = 10 + A
    BY ListedIsSendable
<1>5. A \in Nat
    BY <1>3, LenProperties
<1>6. 10 + A \in Nat /\ 10 + A < 65536
    <2>1. A <= 12 * n
        BY <1>3
    <2> HIDE DEF A, a
    <2>2. QED
        BY <1>2, <1>5, <2>1
<1> HIDE DEF b, e, l, A, a
<1>7. b[5] = 0 /\ b[6] = 0 /\ b[7] = 0 /\ b[8] = 10
    <2>1. 10 \in Nat /\ 10 < 65536 /\ 5 \in Int
        OBVIOUS
    <2>2. b[5] = 0 /\ b[5 + 1] = 0 /\ b[5 + 2] = 10 \div 256 /\ b[5 + 3] = 10 % 256
        BY ONLY <1>1, <2>1, IntInBytes
    <2>3. 10 \div 256 = 0 /\ 10 % 256 = 10 /\ 5 + 1 = 6 /\ 5 + 2 = 7 /\ 5 + 3 = 8
        OBVIOUS
    <2>4. QED
        BY ONLY <2>2, <2>3
<1>8. /\ b[9] = 0 /\ b[10] = 91 /\ b[11] = 0 /\ b[12] = 10 /\ b[13] = 255 /\ b[14] = 255
      /\ b[15] = 0 /\ b[16] = 0 /\ b[17] = 0 /\ b[18] = 0
    <2>1. HelloReply = Message(91, 10, -1, 0)
        BY DEF HelloReply, OC_HELLO, CT_RESULT
    <2>2. ContentIs(Message(91, 10, -1, 0), IntBytes(0), 4)
        <3>1. 0 \in IntRange
            BY SmallNumbers
        <3>2. ContentIs(Message(91, CT_RESULT, -1, 0), IntBytes(0), 4)
            BY <3>1, ResultContent
        <3>3. QED
            BY <3>2 DEF CT_RESULT
    <2>3. Stands(b, 9, Encode(Message(91, 10, -1, 0)))
        BY <1>1, <2>1 DEF e
    <2>4. /\ Stands(b, 9, ShortBytes(91)) /\ Stands(b, 9 + 2, ShortBytes(10))
          /\ Stands(b, 9 + 4, ShortBytes(-1)) /\ Stands(b, 9 + 6, IntBytes(0))
        <3>1. 91 \in Int /\ 10 \in Int /\ -1 \in Int /\ 9 \in Int
            OBVIOUS
        <3>2. QED
            BY ONLY <2>2, <2>3, <3>1, EncodeStands
    <2>5. /\ Stands(b, 9, ShortBytes(91)) /\ Stands(b, 11, ShortBytes(10))
          /\ Stands(b, 13, ShortBytes(-1)) /\ Stands(b, 15, IntBytes(0))
        BY <2>4
    <2>6. b[9] = 0 /\ b[10] = 91
        BY <2>5, ShortInBytes
    <2>7. b[11] = 0 /\ b[12] = 10
        BY <2>5, ShortInBytes
    <2>8. b[13] = 255 /\ b[14] = 255
        BY <2>5, MinusOneInBytes
    <2>9. b[15] = 0 /\ b[16] = 0 /\ b[17] = 0 /\ b[18] = 0
        <3>1. 0 \in Nat /\ 0 < 65536 /\ 15 \in Int
            OBVIOUS
        <3>2. b[15] = 0 /\ b[15 + 1] = 0 /\ b[15 + 2] = 0 \div 256 /\ b[15 + 3] = 0 % 256
            BY <2>5, <3>1, IntInBytes
        <3>3. QED
            BY <3>2
    <2>10. QED
        BY <2>6, <2>7, <2>8, <2>9
<1>9. b[19] = 0 /\ b[20] = 0 /\ b[21] = (10 + A) \div 256 /\ b[22] = (10 + A) % 256
    <2>1. Stands(b, 19, IntBytes(10 + A)) /\ 19 \in Int
        BY <1>1, <1>4
    <2>2. /\ b[19] = 0 /\ b[19 + 1] = 0 /\ b[19 + 2] = (10 + A) \div 256
          /\ b[19 + 3] = (10 + A) % 256
        BY ONLY <1>6, <2>1, IntInBytes
    <2>3. 19 + 1 = 20 /\ 19 + 2 = 21 /\ 19 + 3 = 22
        OBVIOUS
    <2>4. QED
        BY ONLY <2>2, <2>3
<1>10. /\ b[23] = 0 /\ b[24] = 60 /\ b[25] = 0 /\ b[26] = 40 /\ b[27] = 255 /\ b[28] = 255
       /\ b[29] = 0 /\ b[30] = 0 /\ b[31] = 0 /\ b[32] = n
       /\ \A i \in 1 .. A : b[32 + i] = a[i]
    <2> DEFINE keys == SizesOf(n)
    <2>1. Listed(n) = Message(60, 40, -1, keys)
        BY DEF Listed, SizesOf, OC_SZ_TABLES, CT_KEYS
    <2>2. keys \in Seq(Seq(Byte)) /\ Len(keys) = n
        BY SizesFit
    <2>3. ContentIs(Message(60, 40, -1, keys), IntBytes(n) \o a, 4 + KeysSize(keys))
        <3>1. ContentIs(Message(60, CT_KEYS, -1, keys), IntBytes(Len(keys)) \o ListBytes(keys),
                        4 + KeysSize(keys))
            BY <2>2, KeysContent
        <3>2. QED
            BY <2>2, <3>1 DEF CT_KEYS, a
    <2>4. Stands(b, 23, Encode(Message(60, 40, -1, keys)))
        BY <1>1, <2>1 DEF l
    <2> HIDE DEF keys
    <2>5. /\ Stands(b, 23, ShortBytes(60)) /\ Stands(b, 23 + 2, ShortBytes(40))
          /\ Stands(b, 23 + 4, ShortBytes(-1)) /\ Stands(b, 23 + 6, IntBytes(n) \o a)
        <3>1. 60 \in Int /\ 40 \in Int /\ -1 \in Int /\ 23 \in Int
            OBVIOUS
        <3>2. QED
            BY ONLY <2>3, <2>4, <3>1, EncodeStands
    <2>6. /\ Stands(b, 23, ShortBytes(60)) /\ Stands(b, 25, ShortBytes(40))
          /\ Stands(b, 27, ShortBytes(-1)) /\ Stands(b, 29, IntBytes(n) \o a)
        BY <2>5
    <2>7. b[23] = 0 /\ b[24] = 60
        BY <2>6, ShortInBytes
    <2>8. b[25] = 0 /\ b[26] = 40
        BY <2>6, ShortInBytes
    <2>9. b[27] = 255 /\ b[28] = 255
        BY <2>6, MinusOneInBytes
    <2>10. Stands(b, 29, IntBytes(n)) /\ Stands(b, 33, a)
        <3>1. IntBytes(n) \in Seq(Byte)
            BY <1>2, IntBytesTypes
        <3>2. Stands(b, 29, IntBytes(n)) /\ Stands(b, 29 + Len(IntBytes(n)), a)
            BY <1>3, <2>6, <3>1, StandsInParts
        <3>3. Len(IntBytes(n)) = 4
            BY <1>2, IntBytesTypes
        <3>4. Stands(b, 29 + 4, a)
            BY ONLY <3>2, <3>3
        <3>5. QED
            BY <3>2, <3>4
    <2>11. b[29] = 0 /\ b[30] = 0 /\ b[31] = 0 /\ b[32] = n
        <3>1. n \in Nat /\ n < 65536 /\ 29 \in Int
            BY <1>2
        <3>2. b[29] = 0 /\ b[29 + 1] = 0 /\ b[29 + 2] = n \div 256 /\ b[29 + 3] = n % 256
            BY ONLY <2>10, <3>1, IntInBytes
        <3>3. n \div 256 = 0 /\ n % 256 = n
            BY ONLY <1>2
        <3>4. 29 + 1 = 30 /\ 29 + 2 = 31 /\ 29 + 3 = 32
            OBVIOUS
        <3>5. QED
            BY ONLY <3>2, <3>3, <3>4
    <2>12. \A i \in 1 .. A : b[32 + i] = a[i]
        <3>1. ASSUME NEW i \in 1 .. A PROVE b[32 + i] = a[i]
            <4>1. b[33 + i - 1] = a[i]
                BY <2>10 DEF Stands, A
            <4>2. 33 + i - 1 = 32 + i
                BY <1>5
            <4>3. QED
                BY <4>1, <4>2
        <3>2. QED
            BY <3>1
    <2>13. QED
        BY <2>7, <2>8, <2>9, <2>11, <2>12
<1>11. Len(b) = 32 + A
    <2> DEFINE B == Len(b)
               L == Len(l)
    <2>1. B = 22 + L /\ L = 10 + A
        BY <1>1, <1>4
    <2> HIDE DEF B, L
    <2>2. B = 32 + A
        BY <1>5, <2>1
    <2>3. QED
        BY <2>2 DEF B
<1>12. QED
    BY <1>7, <1>8, <1>9, <1>10, <1>11 DEF Figures, A, a, b

-----------------------------------------------------------------------------
(* What R makes of a length it reads from a wrong place.                   *)

(* An int whose first two bytes are not 0 is negative or longer than       *)
(* anything S writes.                                                      *)
LEMMA IntIsFar ==
    ASSUME NEW b, NEW p \in Int, b[p] \in 0 .. 255, b[p + 1] \in 0 .. 255,
           b[p + 2] \in 0 .. 255, b[p + 3] \in 0 .. 255, b[p] # 0 \/ b[p + 1] # 0
    PROVE  IntAt(b, p) < 0 \/ IntAt(b, p) >= 65536
<1> DEFINE w == b[p]
           x == b[p + 1]
           y == b[p + 2]
           z == b[p + 3]
<1>1. w \in 0 .. 255 /\ x \in 0 .. 255 /\ y \in 0 .. 255 /\ z \in 0 .. 255 /\ (w # 0 \/ x # 0)
    OBVIOUS
<1>2. IntAt(b, p) = Signed(w) * 16777216 + x * 65536 + y * 256 + z
    BY DEF IntAt
<1> HIDE DEF w, x, y, z
<1>3. Signed(w) \in Int /\ (Signed(w) < 0 \/ Signed(w) > 0 \/ (Signed(w) = 0 /\ w = 0))
    BY <1>1 DEF Signed
<1>4. QED
    BY <1>1, <1>2, <1>3, SMT

LEMMA IntIsNear ==
    ASSUME NEW b, NEW p \in Int, b[p] = 0, b[p + 1] = 0,
           b[p + 2] \in 0 .. 255, b[p + 3] \in 0 .. 255
    PROVE  IntAt(b, p) = 256 * b[p + 2] + b[p + 3]
BY SMT DEF IntAt, Signed

LEMMA ShortIsNot ==
    ASSUME NEW b, NEW p \in Int, b[p] \in 0 .. 255, b[p + 1] \in 0 .. 255
    PROVE  /\ b[p] = 0 => ShortAt(b, p) = b[p + 1]
           /\ b[p] # 0 => ShortAt(b, p) < 0 \/ ShortAt(b, p) >= 256
<1> DEFINE w == b[p]
           x == b[p + 1]
<1>1. ShortAt(b, p) = Signed(w) * 256 + x
    BY DEF ShortAt
<1> HIDE DEF w, x
<1>2. w \in 0 .. 255 /\ x \in 0 .. 255
    BY DEF w, x
<1>3. /\ w = 0 => Signed(w) * 256 + x = x
      /\ w # 0 => Signed(w) * 256 + x < 0 \/ Signed(w) * 256 + x >= 256
    BY <1>2 DEF Signed
<1>4. QED
    BY <1>1, <1>3 DEF w, x

(* R reads the length of a first message 4 + n bytes behind the start of   *)
(* the greeting of n tables.                                               *)
LEMMA FirstBytes ==
    ASSUME NEW n \in TableCounts, n \notin {-1, 14}
    PROVE  LET b == Opening(n)
           IN  /\ n \notin {1, 15, 24, 25} => b[n + 5] # 0 \/ b[n + 6] # 0
               /\ b[n + 9] = 0 => b[n + 10] # 70
<1> DEFINE b == Opening(n)
           a == ListBytes(SizesOf(n))
           A == Len(a)
<1>1. n \in Int /\ 1 <= n /\ n <= 255 /\ ~(10 <= n /\ n <= 14)
    BY CountsAreNumbers
<1>2. 3 * n <= A /\ A <= 12 * n /\ \A i \in 1 .. A : InKeys(a, i)
    BY KeysArea
<1>3. A \in Nat
    BY KeysArea, LenProperties
<1>4. Figures(b, n, a)
    BY OpeningFigures
<1>5. /\ b[5] = 0 /\ b[6] = 0 /\ b[7] = 0 /\ b[8] = 10
      /\ b[9] = 0 /\ b[10] = 91 /\ b[11] = 0 /\ b[12] = 10 /\ b[13] = 255 /\ b[14] = 255
      /\ b[15] = 0 /\ b[16] = 0 /\ b[17] = 0 /\ b[18] = 0 /\ b[19] = 0 /\ b[20] = 0
      /\ b[21] = (10 + A) \div 256 /\ b[22] = (10 + A) % 256
    BY <1>4 DEF Figures
<1>6. /\ b[23] = 0 /\ b[24] = 60 /\ b[25] = 0 /\ b[26] = 40 /\ b[27] = 255 /\ b[28] = 255
      /\ b[29] = 0 /\ b[30] = 0 /\ b[31] = 0 /\ b[32] = n
    BY <1>4 DEF Figures
<1>7. \A i \in 1 .. A : b[32 + i] = a[i]
    BY <1>4 DEF Figures
<1> HIDE DEF b, a, A
<1>8. ASSUME NEW i \in 1 .. 232, i + 1 <= A
      PROVE  \/ b[32 + i] # 0
             \/ b[32 + i] = 0 /\ 1 <= b[33 + i] /\ b[33 + i] <= 10
    <2>1. i \in 1 .. A /\ i + 1 \in 1 .. A /\ 32 + (i + 1) = 33 + i
        BY <1>3, <1>8
    <2>2. b[32 + i] = a[i] /\ b[33 + i] = a[i + 1]
        BY <1>7, <2>1
    <2>3. InKeys(a, i)
        BY <1>2, <2>1
    <2>4. QED
        BY <2>2, <2>3 DEF InKeys
<1>9. ASSUME n \notin {1, 15, 24, 25} PROVE b[n + 5] # 0 \/ b[n + 6] # 0
    <2>1. CASE n \in {2, 3, 4, 5, 6, 7, 8, 9}
        <3>1. \A k \in {2, 3, 4, 5, 6, 7, 8, 9} : b[k + 5] # 0 \/ b[k + 6] # 0
            BY <1>5
        <3>2. QED
            BY <2>1, <3>1
    <2>2. CASE n \in {16, 17}
        <3>1. 10 + A \in 1 .. 255
            BY <1>2, <1>3, <2>2
        <3>2. (10 + A) % 256 = 10 + A
            BY <3>1
        <3>3. b[22] # 0
            BY <1>5, <3>1, <3>2
        <3>4. QED
            BY <2>2, <3>3
    <2>3. CASE n \in {18, 19, 20, 21, 22, 23}
        <3>1. \A k \in {18, 19, 20, 21, 22, 23} : b[k + 5] # 0 \/ b[k + 6] # 0
            BY <1>6
        <3>2. QED
            BY <2>3, <3>1
    <2>4. CASE n \in {26, 27}
        BY <1>6, <2>4
    <2>5. CASE n >= 28
        <3>1. n - 27 \in 1 .. 232 /\ (n - 27) + 1 <= A
            BY <1>1, <1>2, <1>3, <2>5
        <3>2. \/ b[32 + (n - 27)] # 0
              \/ b[32 + (n - 27)] = 0 /\ 1 <= b[33 + (n - 27)] /\ b[33 + (n - 27)] <= 10
            BY <1>8, <3>1
        <3>3. 32 + (n - 27) = n + 5 /\ 33 + (n - 27) = n + 6
            BY <1>1
        <3>4. QED
            BY <3>2, <3>3
    <2>6. QED
        BY <1>1, <1>9, <2>1, <2>2, <2>3, <2>4, <2>5
<1>10. ASSUME b[n + 9] = 0 PROVE b[n + 10] # 70
    <2>1. CASE n \in {1, 2, 3, 4, 5, 6, 7, 8, 9}
        <3>1. \A k \in {1, 2, 3, 4, 5, 6, 7, 8, 9} : b[k + 9] # 0 \/ b[k + 10] # 70
            BY <1>5
        <3>2. QED
            BY <1>10, <2>1, <3>1
    <2>2. CASE n \in {15, 16, 17, 18, 19, 20, 21}
        <3>1. \A k \in {15, 16, 17, 18, 19, 20, 21} : b[k + 9] # 0 \/ b[k + 10] # 70
            BY <1>6
        <3>2. QED
            BY <1>10, <2>2, <3>1
    <2>3. CASE n \in {22, 23}
        <3>1. b[32] # 70 /\ b[32] # 0
            BY <1>6, <2>3
        <3>2. QED
            BY <1>10, <2>3, <3>1
    <2>4. CASE n >= 24
        <3>1. CASE n - 23 \in 1 .. 232
            <4>1. (n - 23) + 1 <= A
                BY <1>1, <1>2, <1>3, <2>4
            <4>2. \/ b[32 + (n - 23)] # 0
                  \/ b[32 + (n - 23)] = 0 /\ 1 <= b[33 + (n - 23)] /\ b[33 + (n - 23)] <= 10
                BY <1>8, <3>1, <4>1
            <4>3. 32 + (n - 23) = n + 9 /\ 33 + (n - 23) = n + 10
                BY <1>1
            <4>4. QED
                BY <1>10, <4>2, <4>3
        <3>2. QED
            BY <1>1, <2>4, <3>1
    <2>5. QED
        BY <1>1, <2>1, <2>2, <2>3, <2>4
<1>11. QED
    BY <1>9, <1>10 DEF b

LEMMA ByteOf ==
    ASSUME NEW b \in Seq(Byte), NEW i \in 1 .. Len(b)
    PROVE  b[i] \in 0 .. 255
BY ElementOfSeq DEF Byte

(* No length R reads there is that of what follows, but with 24 tables,    *)
(* and then what follows is the list of sizes from its first key on.       *)
LEMMA FirstLength ==
    ASSUME NEW n \in TableCounts, n \notin {-1, 14}
    PROVE  LET v == IntAt(Opening(n), n + 5)
           IN  v < 0 \/ v > Len(Opening(n)) - (n + 8) \/ (n = 24 /\ v = 24)
<1> DEFINE b == Opening(n)
           a == ListBytes(SizesOf(n))
           A == Len(a)
           B == Len(b)
           v == IntAt(b, n + 5)
<1>1. n \in Int /\ 1 <= n /\ n <= 255
    BY CountsAreNumbers
<1>2. b \in Seq(Byte) /\ Figures(b, n, a)
    BY OpeningParts, OpeningFigures
<1>3. 3 * n <= A /\ A <= 12 * n /\ \A i \in 1 .. A : InKeys(a, i)
    BY KeysArea
<1>4. A \in Nat
    BY KeysArea, LenProperties
<1>5. B = 32 + A
    BY OpeningFigures
<1> HIDE DEF a, A, B
<1>6. n + 5 \in 1 .. B /\ n + 6 \in 1 .. B /\ n + 7 \in 1 .. B /\ n + 8 \in 1 .. B
    BY <1>1, <1>3, <1>4, <1>5
<1>7. /\ b[n + 5] \in 0 .. 255 /\ b[n + 6] \in 0 .. 255
      /\ b[n + 7] \in 0 .. 255 /\ b[n + 8] \in 0 .. 255
    BY <1>2, <1>6, ByteOf DEF B
<1>v. v \in Int
    <2>1. n + 5 \in 1 .. B - 3
        BY <1>1, <1>3, <1>4, <1>5
    <2>2. v \in IntRange
        BY <1>2, <2>1, IntAtTypes DEF B
    <2>3. QED
        BY <2>2 DEF IntRange
<1>8. n + 5 \in Int /\ (n + 5) + 1 = n + 6 /\ (n + 5) + 2 = n + 7 /\ (n + 5) + 3 = n + 8
    BY <1>1
<1> HIDE DEF b
<1>9. b[n + 5] # 0 \/ b[n + 6] # 0 => v < 0 \/ v >= 65536
    BY <1>7, <1>8, IntIsFar
<1>10. b[n + 5] = 0 /\ b[n + 6] = 0 => v = 256 * b[n + 7] + b[n + 8]
    BY <1>7, <1>8, IntIsNear
<1> HIDE DEF v
<1>11. v < 0 \/ v > B - (n + 8) \/ (n = 24 /\ v = 24)
    <2>1. CASE n \notin {1, 15, 24, 25}
        <3>1. b[n + 5] # 0 \/ b[n + 6] # 0
            BY <2>1, FirstBytes DEF b
        <3>2. QED
            BY <1>1, <1>3, <1>4, <1>5, <1>v, <1>9, <3>1
    <2>2. CASE n = 1
        <3>1. b[6] = 0 /\ b[7] = 0 /\ b[8] = 10 /\ b[9] = 0
            BY <1>2 DEF Figures
        <3>2. v = 256 * 10 + 0
            BY <1>10, <2>2, <3>1
        <3>3. QED
            BY <1>3, <1>4, <1>5, <2>2, <3>2
    <2>3. CASE n = 15
        <3>1. b[20] = 0 /\ b[21] = (10 + A) \div 256 /\ b[22] = (10 + A) % 256 /\ b[23] = 0
            BY <1>2 DEF Figures, A
        <3>2. 10 + A \in 1 .. 255
            BY <1>3, <1>4, <2>3
        <3>3. (10 + A) \div 256 = 0 /\ (10 + A) % 256 = 10 + A
            BY <3>2
        <3>4. v = 256 * (10 + A) + 0
            BY <1>10, <2>3, <3>1, <3>3
        <3>5. QED
            BY <1>4, <1>5, <2>3, <3>4
    <2>4. CASE n = 24
        <3>1. b[29] = 0 /\ b[30] = 0 /\ b[31] = 0 /\ b[32] = 24
            BY <1>2, <2>4 DEF Figures
        <3>2. v = 256 * 0 + 24
            BY <1>10, <2>4, <3>1
        <3>3. QED
            BY <2>4, <3>2
    <2>5. CASE n = 25
        <3>1. b[30] = 0 /\ b[31] = 0 /\ b[32] = 25
            BY <1>2, <2>5 DEF Figures
        <3>2. v = 256 * 25 + b[33] /\ b[33] \in 0 .. 255
            BY <1>7, <1>10, <2>5, <3>1
        <3>3. QED
            BY <1>3, <1>4, <1>5, <2>5, <3>2
    <2>6. QED
        BY <2>1, <2>2, <2>3, <2>4, <2>5
<1>12. QED
    BY <1>11 DEF b, B, v

LEMMA FirstOpcode ==
    ASSUME NEW n \in TableCounts, n \notin {-1, 14}
    PROVE  ShortAt(Opening(n), n + 9) # OC_ACK
<1> DEFINE b == Opening(n)
           a == ListBytes(SizesOf(n))
           A == Len(a)
           B == Len(b)
<1>1. n \in Int /\ 1 <= n /\ n <= 255
    BY CountsAreNumbers
<1>2. b \in Seq(Byte)
    BY OpeningParts
<1>3. 3 * n <= A
    BY KeysArea
<1>4. A \in Nat
    BY KeysArea, LenProperties
<1>5. B = 32 + A
    BY OpeningFigures
<1> HIDE DEF a, A, B
<1>6. n + 9 \in 1 .. B /\ n + 10 \in 1 .. B
    BY <1>1, <1>3, <1>4, <1>5
<1>7. b[n + 9] \in 0 .. 255 /\ b[n + 10] \in 0 .. 255
    BY <1>2, <1>6, ByteOf DEF B
<1>8. b[n + 9] = 0 => b[n + 10] # 70
    BY FirstBytes
<1> HIDE DEF b
<1>9. n + 9 \in Int /\ (n + 9) + 1 = n + 10
    BY <1>1
<1>10. /\ b[n + 9] = 0 => ShortAt(b, n + 9) = b[n + 10]
       /\ b[n + 9] # 0 => ShortAt(b, n + 9) < 0 \/ ShortAt(b, n + 9) >= 256
    BY <1>7, <1>9, ShortIsNot
<1> DEFINE s == ShortAt(b, n + 9)
<1> HIDE DEF s
<1>11. /\ b[n + 9] = 0 => s = b[n + 10]
       /\ b[n + 9] # 0 => s < 0 \/ s >= 256
    BY <1>10 DEF s
<1>12. s # 70
    BY <1>7, <1>8, <1>11
<1>13. QED
    BY <1>12 DEF s, b, OC_ACK

(* What starts with a byte that is not 0, or with the length of a key and  *)
(* the key, is no message.                                                 *)
LEMMA KeyIsNoMessage ==
    ASSUME NEW c, \A i \in 1 .. 4 : c[i] \in 0 .. 255,
           c[1] = 0 => c[2] <= 10 /\ c[3] # 0
    PROVE  Decode(c) = NoMessage
<1> DEFINE op == ShortAt(c, 1)
           ct == ShortAt(c, 3)
<1>1. /\ c[1] \in 0 .. 255 /\ c[2] \in 0 .. 255 /\ c[3] \in 0 .. 255 /\ c[4] \in 0 .. 255
    OBVIOUS
<1>2. /\ c[1] = 0 => op = c[2]
      /\ c[1] # 0 => op < 0 \/ op >= 256
    <2>1. c[1 + 1] \in 0 .. 255
        BY <1>1
    <2>2. QED
        BY <1>1, <2>1, ShortIsNot
<1>3. c[3] # 0 => ct < 0 \/ ct >= 256
    <2>1. c[3 + 1] \in 0 .. 255
        BY <1>1
    <2>2. QED
        BY <1>1, <2>1, ShortIsNot
<1>4. Decode(c) # NoMessage =>
          KnownOpcode(op) /\ ct \in {CT_NONE, CT_RESULT, CT_VALUE, CT_KEY, CT_KEYS, CT_ENTRY}
    BY DEF Decode
<1> HIDE DEF op, ct
<1>5. ~KnownOpcode(op)
      \/ ct \notin {CT_NONE, CT_RESULT, CT_VALUE, CT_KEY, CT_KEYS, CT_ENTRY}
    <2>1. CASE c[1] # 0
        BY <1>2, <2>1 DEF KnownOpcode
    <2>2. CASE c[1] = 0
        BY <1>3, <2>2 DEF CT_NONE, CT_RESULT, CT_VALUE, CT_KEY, CT_KEYS, CT_ENTRY
    <2>3. QED
        BY <2>1, <2>2
<1>6. QED
    BY <1>4, <1>5

LEMMA FirstMessage ==
    ASSUME NEW n \in TableCounts, n = 24, NEW c,
           \A i \in 1 .. 24 : c[i] = Opening(n)[32 + i]
    PROVE  Decode(c) = NoMessage
<1> DEFINE b == Opening(n)
           a == ListBytes(SizesOf(n))
           A == Len(a)
<1>1. Figures(b, n, a)
    BY OpeningFigures
<1>2. 3 * n <= A /\ \A i \in 1 .. A : InKeys(a, i)
    <2>1. n # -1
        OBVIOUS
    <2>2. QED
        BY ONLY <2>1, n \in TableCounts, KeysArea
<1>3. a \in Seq(Byte)
    BY KeysArea
<1>4. A \in Nat
    BY <1>3, LenProperties
<1>5. \A i \in 1 .. A : b[32 + i] = a[i]
    BY <1>1 DEF Figures
<1> HIDE DEF b
<1>6. ASSUME NEW i \in 1 .. 4 PROVE c[i] = a[i] /\ c[i] \in 0 .. 255
    <2>1. i \in 1 .. A /\ i \in 1 .. 24
        <3> HIDE DEF A, a
        <3>1. QED
            BY <1>2, <1>4
    <2>2. c[i] = a[i]
        BY <1>5, <2>1 DEF b
    <2>3. a[i] \in 0 .. 255
        BY <1>3, <2>1, ByteOf
    <2>4. QED
        BY <2>2, <2>3
<1>7. InKeys(a, 1)
    <2> HIDE DEF A, a
    <2>1. QED
        BY <1>2, <1>4
<1> HIDE DEF a, A
<1>8. c[1] = 0 => c[2] <= 10 /\ c[3] # 0
    <2>1. c[1] = a[1] /\ c[2] = a[2] /\ c[3] = a[3]
        BY <1>6
    <2>2. (1 <= a[1] /\ a[1] <= 255) \/ (a[1] = 0 /\ a[2] <= 10 /\ 1 <= a[3])
        BY <1>7 DEF InKeys
    <2>3. QED
        BY <2>1, <2>2
<1>9. \A i \in 1 .. 4 : c[i] \in 0 .. 255
    BY <1>6
<1>10. QED
    BY <1>8, <1>9, KeyIsNoMessage

-----------------------------------------------------------------------------
(* Parts of a stream.                                                      *)

LEMMA RestOf ==
    ASSUME NEW p \in Seq(Byte), NEW n \in Nat, n <= Len(p)
    PROVE  /\ SubSeq(p, n + 1, Len(p)) \in Seq(Byte)
           /\ Len(SubSeq(p, n + 1, Len(p))) = Len(p) - n
           /\ \A i \in 1 .. Len(p) - n : SubSeq(p, n + 1, Len(p))[i] = p[n + i]
<1> DEFINE P == Len(p)
           s == SubSeq(p, n + 1, P)
<1>1. P \in Nat
    BY LenProperties
<1>2. \A i \in n + 1 .. P : p[i] \in Byte
    <2>1. \A i \in 1 .. P : p[i] \in Byte
        BY ElementOfSeq
    <2> HIDE DEF P
    <2>2. QED
        BY <1>1, <2>1
<1>3. n <= P
    OBVIOUS
<1>4. s \in Seq(Byte) /\ Len(s) = IF n + 1 <= P THEN P - (n + 1) + 1 ELSE 0
    <2>1. n + 1 \in Int /\ P \in Int
        BY <1>1
    <2> HIDE DEF P
    <2>2. s \in Seq(Byte)
        BY <1>2, <2>1, SubSeqProperties
    <2>3. QED
        BY <2>1, <2>2, SubSeqProperties
<1>5. \A i \in 1 .. P - n : s[i] = p[n + i]
    <2> HIDE DEF P
    <2>1. ASSUME NEW i \in 1 .. P - n PROVE s[i] = p[n + i]
        <3>1. n + 1 \in Int /\ P \in Int /\ i \in 1 .. P - (n + 1) + 1 /\ (n + 1) + i - 1 = n + i
            BY <1>1
        <3>2. QED
            BY <3>1
    <2>2. QED
        BY <2>1
<1> HIDE DEF s
<1> DEFINE L == Len(s)
<1>6. L = IF n + 1 <= P THEN P - (n + 1) + 1 ELSE 0
    BY <1>4
<1> HIDE DEF L, P
<1>7. L = P - n
    BY <1>1, <1>3, <1>6
<1>8. QED
    BY <1>4, <1>5, <1>7 DEF L, s, P

LEMMA FrontOf ==
    ASSUME NEW p \in Seq(Byte), NEW n \in Nat, n <= Len(p)
    PROVE  /\ SubSeq(p, 1, n) \in Seq(Byte) /\ Len(SubSeq(p, 1, n)) = n
           /\ \A i \in 1 .. n : SubSeq(p, 1, n)[i] = p[i]
<1> DEFINE s == SubSeq(p, 1, n)
<1>1. Len(p) \in Nat
    BY LenProperties
<1>2. \A i \in 1 .. n : p[i] \in Byte
    <2>1. \A i \in 1 .. Len(p) : p[i] \in Byte
        BY ElementOfSeq
    <2> DEFINE P == Len(p)
    <2>2. P \in Nat /\ n <= P /\ \A i \in 1 .. P : p[i] \in Byte
        BY <1>1, <2>1
    <2> HIDE DEF P
    <2>3. QED
        BY <2>2
<1>3. s = [i \in 1 .. n |-> p[i]]
    <2>1. s = [i \in 1 .. (1 + n) - 1 |-> p[i + 1 - 1]]
        OBVIOUS
    <2>2. QED
        BY <2>1
<1> HIDE DEF s
<1>4. s \in Seq(Byte) /\ Len(s) = n /\ \A i \in 1 .. n : s[i] = p[i]
    BY <1>2, <1>3
<1>5. QED
    BY <1>4 DEF s

LEMMA LiesRest ==
    ASSUME NEW b \in Seq(Byte), NEW p \in Seq(Byte), NEW k \in Nat, LiesIn(p, b, k),
           NEW n \in Nat, n <= Len(p)
    PROVE  LiesIn(SubSeq(p, n + 1, Len(p)), b, k + n)
<1> DEFINE s == SubSeq(p, n + 1, Len(p))
           P == Len(p)
           B == Len(b)
<1>1. P \in Nat /\ B \in Nat
    BY LenProperties
<1>2. Len(s) = P - n /\ \A i \in 1 .. P - n : s[i] = p[n + i]
    BY RestOf
<1>3. k + P <= B /\ \A i \in 1 .. P : p[i] = b[k + i]
    BY DEF LiesIn
<1>4. n <= P
    OBVIOUS
<1> HIDE DEF s, P, B
<1>5. (k + n) + (P - n) <= B
    BY <1>1, <1>3, <1>4
<1>6. ASSUME NEW i \in 1 .. P - n PROVE s[i] = b[(k + n) + i]
    <2>1. n + i \in 1 .. P /\ k + (n + i) = (k + n) + i
        BY <1>1
    <2>2. QED
        BY <1>2, <1>3, <2>1
<1>7. QED
    BY <1>2, <1>5, <1>6 DEF LiesIn, s, B

LEMMA LiesFront ==
    ASSUME NEW b \in Seq(Byte), NEW p \in Seq(Byte), NEW k \in Nat, LiesIn(p, b, k),
           NEW n \in Nat, n <= Len(p)
    PROVE  LiesIn(SubSeq(p, 1, n), b, k)
<1> DEFINE s == SubSeq(p, 1, n)
           P == Len(p)
           B == Len(b)
<1>1. P \in Nat /\ B \in Nat
    BY LenProperties
<1>2. Len(s) = n /\ \A i \in 1 .. n : s[i] = p[i]
    BY FrontOf
<1>3. k + P <= B /\ \A i \in 1 .. P : p[i] = b[k + i]
    BY DEF LiesIn
<1>4. n <= P
    OBVIOUS
<1> HIDE DEF s, P, B
<1>5. k + n <= B
    BY <1>1, <1>3, <1>4
<1>6. \A i \in 1 .. n : s[i] = b[k + i]
    BY <1>1, <1>2, <1>3, <1>4
<1>7. QED
    BY <1>2, <1>5, <1>6 DEF LiesIn, s, B

LEMMA LiesNothing ==
    ASSUME NEW b \in Seq(Byte), NEW k \in Nat, k <= Len(b)
    PROVE  LiesIn(<<>>, b, k)
<1>1. Len(b) \in Nat
    BY LenProperties
<1>2. k + 0 <= Len(b)
    BY <1>1
<1>3. QED
    BY <1>2 DEF LiesIn

(* More is written behind it. *)
LEMMA LiesMore ==
    ASSUME NEW b \in Seq(Byte), NEW p \in Seq(Byte), NEW q \in Seq(Byte),
           NEW k \in Nat, LiesIn(p, b, k),
           NEW w \in Nat, LiesIn(q, b, w), Len(p) + k = w
    PROVE  LiesIn(p \o q, b, k) /\ Len(p \o q) + k = w + Len(q) /\ p \o q \in Seq(Byte)
<1> DEFINE s == p \o q
           P == Len(p)
           Q == Len(q)
           B == Len(b)
           S == Len(s)
<1>1. P \in Nat /\ Q \in Nat /\ B \in Nat
    BY LenProperties
<1>2. s \in Seq(Byte) /\ S = P + Q
    BY TwoParts
<1>3. k + P <= B /\ \A i \in 1 .. P : p[i] = b[k + i]
    BY DEF LiesIn
<1>4. (\A i \in 1 .. P : s[i] = p[i]) /\ (\A i \in 1 .. Q : s[P + i] = q[i])
    BY ONLY p \in Seq(Byte), q \in Seq(Byte), Parts
<1>5. w = P + k /\ w + Q <= B /\ \A i \in 1 .. Q : b[w + i] = q[i]
    BY DEF LiesIn
<1> HIDE DEF s, P, Q, B, S
<1>6. k + S <= B /\ S + k = w + Q
    <2>1. S = P + Q /\ w = P + k /\ w + Q <= B
        BY <1>2, <1>5
    <2>2. QED
        BY ONLY <1>1, <2>1, k \in Nat
<1>7. ASSUME NEW i \in 1 .. S PROVE s[i] = b[k + i]
    <2>1. CASE i <= P
        BY <1>1, <1>2, <1>3, <1>4, <2>1
    <2>2. CASE i > P
        <3>1. i - P \in 1 .. Q /\ P + (i - P) = i /\ w + (i - P) = k + i
            <4>1. S = P + Q /\ w = P + k
                BY <1>2, <1>5
            <4>2. QED
                BY ONLY <1>1, <2>2, <4>1, k \in Nat, i \in 1 .. S
        <3>2. s[P + (i - P)] = q[i - P] /\ b[w + (i - P)] = q[i - P]
            BY <1>4, <1>5, <3>1
        <3>3. QED
            BY <3>1, <3>2
    <2>3. QED
        BY <1>1, <1>2, <2>1, <2>2
<1>8. QED
    BY <1>2, <1>6, <1>7 DEF LiesIn, s, S, Q, B

LEMMA LiesNumbers ==
    ASSUME NEW b \in Seq(Byte), NEW p \in Seq(Byte), NEW k \in Nat, LiesIn(p, b, k)
    PROVE  /\ Len(p) >= 4 => IntAt(p, 1) = IntAt(b, k + 1)
           /\ Len(p) >= 2 => ShortAt(p, 1) = ShortAt(b, k + 1)
           /\ Len(p) \in Nat /\ Len(b) \in Nat /\ k + Len(p) <= Len(b)
<1> DEFINE P == Len(p)
<1>1. P \in Nat /\ Len(b) \in Nat
    BY LenProperties
<1>2. k + P <= Len(b) /\ \A i \in 1 .. P : p[i] = b[k + i]
    BY DEF LiesIn
<1> HIDE DEF P
<1>3. ASSUME P >= 4 PROVE IntAt(p, 1) = IntAt(b, k + 1)
    <2>1. p[1] = b[k + 1] /\ p[2] = b[k + 2] /\ p[3] = b[k + 3] /\ p[4] = b[k + 4]
        BY <1>1, <1>2, <1>3
    <2>2. /\ (k + 1) + 1 = k + 2 /\ (k + 1) + 2 = k + 3 /\ (k + 1) + 3 = k + 4
          /\ 1 + 1 = 2 /\ 1 + 2 = 3 /\ 1 + 3 = 4
        OBVIOUS
    <2>3. QED
        BY <2>1, <2>2, SMT DEF IntAt
<1>4. ASSUME P >= 2 PROVE ShortAt(p, 1) = ShortAt(b, k + 1)
    <2>1. p[1] = b[k + 1] /\ p[2] = b[k + 2]
        BY <1>1, <1>2, <1>4
    <2>2. (k + 1) + 1 = k + 2 /\ 1 + 1 = 2
        OBVIOUS
    <2>3. QED
        BY <2>1, <2>2 DEF ShortAt
<1>5. QED
    BY <1>1, <1>2, <1>3, <1>4 DEF P

LEMMA SameSequence ==
    ASSUME NEW p \in Seq(Byte), NEW q \in Seq(Byte), Len(p) = Len(q),
           \A i \in 1 .. Len(q) : p[i] = q[i]
    PROVE  p = q
<1>1. p = [i \in 1 .. Len(p) |-> p[i]] /\ q = [i \in 1 .. Len(q) |-> q[i]]
    OBVIOUS
<1>2. QED
    BY <1>1

(* The opening piece by piece, as S writes it.                             *)
LEMMA OpeningPieces ==
    ASSUME NEW n \in TableCounts
    PROVE  LET b == Opening(n)
               h == Frame(HelloReply)
               f == Frame(Listed(n))
           IN  /\ b \in Seq(Byte) /\ Len(b) = 18 + Len(f) /\ Len(f) \in Nat /\ Len(f) >= 14
               /\ IntBytes(n) \in Seq(Byte) /\ Len(IntBytes(n)) = 4
               /\ h \in Seq(Byte) /\ Len(h) = 14 /\ f \in Seq(Byte)
               /\ LiesIn(IntBytes(n), b, 0) /\ LiesIn(h, b, 4) /\ LiesIn(f, b, 18)
<1> DEFINE b == Opening(n)
           g == IntBytes(n)
           h == Frame(HelloReply)
           f == Frame(Listed(n))
           r == h \o f
           F == Len(f)
<1>1. g \in Seq(Byte) /\ Len(g) = 4
    BY CountsAreNumbers, IntBytesTypes
<1>2. h \in Seq(Byte) /\ Len(h) = 14
    <2>1. Sendable(HelloReply) /\ Len(Encode(HelloReply)) = 10
        BY ResultIsSendable, OpcodesAreKnown DEF HelloReply
    <2>2. h \in Seq(Byte) /\ Len(h) = 4 + Len(Encode(HelloReply))
        BY <2>1, FrameParts
    <2>3. QED
        BY <2>1, <2>2
<1>3. f \in Seq(Byte)
    BY ListedIsSendable, FrameParts
<1>4. F \in Nat /\ F >= 14
    <2>1. F = 4 + Len(Encode(Listed(n))) /\ Len(Encode(Listed(n))) = 10 + Len(ListBytes(SizesOf(n)))
        BY ListedIsSendable, FrameParts
    <2>2. Len(ListBytes(SizesOf(n))) \in Nat
        BY KeysArea, LenProperties
    <2> DEFINE x == Len(Encode(Listed(n)))
               y == Len(ListBytes(SizesOf(n)))
    <2>3. F = 4 + x /\ x = 10 + y /\ y \in Nat
        BY <2>1, <2>2
    <2> HIDE DEF F, x, y
    <2>4. QED
        BY <2>3
<1>5. b = g \o r
    BY DEF Opening
<1> HIDE DEF b, g, h, f
<1>t. g \in Seq(Byte) /\ h \in Seq(Byte) /\ f \in Seq(Byte)
    BY <1>1, <1>2, <1>3
<1>6. r \in Seq(Byte) /\ Len(r) = Len(h) + Len(f)
    BY ONLY <1>t, TwoParts
<1>7. /\ \A i \in 1 .. Len(h) : r[i] = h[i]
      /\ \A i \in 1 .. Len(f) : r[Len(h) + i] = f[i]
    BY ONLY <1>t, Parts
<1> HIDE DEF r
<1>s. r \in Seq(Byte)
    BY <1>6
<1>8. b \in Seq(Byte) /\ Len(b) = Len(g) + Len(r)
    BY ONLY <1>5, <1>t, <1>s, TwoParts
<1>9. /\ \A i \in 1 .. Len(g) : b[i] = g[i]
      /\ \A i \in 1 .. Len(r) : b[Len(g) + i] = r[i]
    BY ONLY <1>5, <1>t, <1>s, Parts
<1> DEFINE R == Len(r)
           B == Len(b)
<1>10. R = 14 + F /\ B = 4 + R
    BY <1>1, <1>2, <1>6, <1>8
<1>11. /\ \A i \in 1 .. 14 : r[i] = h[i]
       /\ \A i \in 1 .. F : r[14 + i] = f[i]
    BY <1>2, <1>7
<1>12. /\ \A i \in 1 .. 4 : b[i] = g[i]
       /\ \A i \in 1 .. R : b[4 + i] = r[i]
    BY <1>1, <1>9
<1> HIDE DEF R, B, F
<1>13. B = 18 + F
    BY <1>4, <1>10
<1>14. ASSUME NEW i \in 1 .. 14 PROVE b[4 + i] = h[i]
    BY <1>4, <1>10, <1>11, <1>12
<1>15. ASSUME NEW i \in 1 .. F PROVE b[18 + i] = f[i]
    <2>1. 14 + i \in 1 .. R /\ 4 + (14 + i) = 18 + i
        BY <1>4, <1>10
    <2>2. b[4 + (14 + i)] = r[14 + i] /\ r[14 + i] = f[i]
        BY <1>11, <1>12, <2>1
    <2>3. QED
        BY <2>1, <2>2
<1>16. LiesIn(g, b, 0)
    <2>1. 0 + 4 <= B
        BY <1>4, <1>13
    <2>2. \A i \in 1 .. 4 : g[i] = b[0 + i]
        BY <1>12
    <2>3. QED
        BY <1>1, <2>1, <2>2 DEF LiesIn, B
<1>17. LiesIn(h, b, 4)
    <2>1. 4 + 14 <= B
        BY <1>4, <1>13
    <2>2. QED
        BY <1>2, <1>14, <2>1 DEF LiesIn, B
<1>18. LiesIn(f, b, 18)
    <2>1. 18 + F <= B
        BY <1>4, <1>13
    <2>2. QED
        BY <1>15, <2>1 DEF LiesIn, B, F
<1>19. QED
    BY <1>1, <1>2, <1>3, <1>4, <1>8, <1>13, <1>16, <1>17, <1>18 DEF B, F, b, g, h, f

-----------------------------------------------------------------------------
(* The steps of the survivor.                                              *)

LEMMA TransferIs ==
    ASSUME TypeOK, Held(nTables, entries)
    PROVE  /\ Transfer = Requests(nTables, entries)
           /\ Len(Transfer) \in Nat /\ Len(Transfer) >= 2
           /\ Transfer[1] = Listed(nTables) /\ Transfer[Len(Transfer)] = Ack
           /\ \A i \in 1 .. Len(Transfer) : Sendable(Transfer[i])
<1>1. Transfer = Requests(nTables, entries)
    BY DEF Transfer, Requests, SzTables, Sizes, Puts, Listed, PutsOf
<1>2. nTables \in TableCounts /\ entries \in Contents
    BY DEF TypeOK
<1>3. Len(entries) \in Nat
    BY <1>2, ContentsAreLists
<1>4. /\ Len(Transfer) = (IF nTables = -1 THEN 2 ELSE 2 + Len(entries))
      /\ Transfer[1] = Listed(nTables) /\ Transfer[Len(Transfer)] = Ack
    BY <1>1, <1>2, RequestsAre
<1>5. \A i \in 1 .. Len(Transfer) : Sendable(Transfer[i])
    BY <1>1, <1>2, RequestIsSendable
<1>6. Len(Transfer) \in Nat /\ Len(Transfer) >= 2
    <2> DEFINE L == Len(Transfer)
               N == Len(entries)
    <2>1. L = (IF nTables = -1 THEN 2 ELSE 2 + N) /\ N \in Nat
        BY <1>3, <1>4
    <2> HIDE DEF L, N
    <2>2. L \in Nat /\ L >= 2
        BY <2>1
    <2>3. QED
        BY <2>2 DEF L
<1>7. QED
    BY <1>1, <1>4, <1>5, <1>6

LEMMA TransferStays ==
    ASSUME nTables' = nTables, entries' = entries
    PROVE  Transfer' = Transfer
BY DEF Transfer, SzTables, Sizes, Puts, Ack

LEMMA PositionsStay ==
    ASSUME Positions, UNCHANGED <<nTables, entries, rVars>>,
           rPos = "start" /\ Untouched => Untouched',
           \A k \in Nat : Early(k) /\ Place(k) => Early(k)',
           \A i \in 1 .. Len(Transfer) : nTables = 14 /\ InRequest(i) =>
               (\E j \in 1 .. Len(Transfer) : InRequest(j)') \/ Over',
           nTables = 14 /\ Over => Over'
    PROVE  Positions'
<1>1. /\ nTables' = nTables /\ entries' = entries /\ rPos' = rPos /\ rSize' = rSize
      /\ state' = state
    BY DEF rVars
<1>2. Transfer' = Transfer
    BY <1>1, TransferStays
<1>3. ASSUME NEW k \in Nat, Early(k), Place(k) PROVE Positions'
    <2>1. Early(k)'
        BY <1>3
    <2>2. Place(k)'
        BY <1>1, <1>3 DEF Place
    <2>3. QED
        BY <2>1, <2>2 DEF Positions
<1>4. ASSUME NEW i \in 1 .. Len(Transfer), nTables = 14, InRequest(i) PROVE Positions'
    <2>1. (\E j \in 1 .. Len(Transfer) : InRequest(j)') \/ Over'
        BY <1>4
    <2>2. CASE Over'
        BY <1>1, <1>4, <2>2 DEF Positions
    <2>3. CASE \E j \in 1 .. Len(Transfer) : InRequest(j)'
        <3>1. PICK j \in 1 .. Len(Transfer) : InRequest(j)'
            BY <2>3
        <3>2. j \in 1 .. Len(Transfer')
            BY <1>2
        <3>3. QED
            BY <1>1, <1>4, <3>1, <3>2 DEF Positions
    <2>4. QED
        BY <2>1, <2>2, <2>3
<1>5. CASE rPos = "dead"
    BY <1>1, <1>5 DEF Positions
<1>6. CASE rPos = "start" /\ Untouched
    BY <1>1, <1>6 DEF Positions
<1>7. CASE nTables = 14 /\ Over
    BY <1>1, <1>7 DEF Positions
<1>8. CASE nTables # 14 /\ rPos = "loop" /\ state = 0
    BY <1>1, <1>8 DEF Positions
<1>9. QED
    BY <1>3, <1>4, <1>5, <1>6, <1>7, <1>8 DEF Positions

LEMMA EarlyTypes ==
    ASSUME TypeOK, NEW k \in Nat, Early(k)
    PROVE  /\ Opening(nTables) \in Seq(Byte) /\ Len(Opening(nTables)) \in Nat
           /\ toR \in Seq(Byte) /\ Len(toR) \in Nat
           /\ k + Len(toR) <= Len(Opening(nTables))
           /\ LiesIn(toR, Opening(nTables), k)
<1>1. nTables \in TableCounts /\ toR \in Seq(Byte)
    BY DEF TypeOK
<1>2. Opening(nTables) \in Seq(Byte)
    BY <1>1, OpeningParts
<1>3. LiesIn(toR, Opening(nTables), k)
    BY DEF Early
<1>4. QED
    BY <1>1, <1>2, <1>3, LiesNumbers

(* S writes the next piece of the opening.                                 *)
LEMMA EarlyMore ==
    ASSUME TypeOK, NEW k \in Nat, Early(k), NEW q \in Seq(Byte),
           NEW w \in Nat, LiesIn(q, Opening(nTables), w), Len(toR) + k = w
    PROVE  /\ toR \o q \in Seq(Byte) /\ LiesIn(toR \o q, Opening(nTables), k)
           /\ Len(toR \o q) + k = w + Len(q)
<1>1. /\ Opening(nTables) \in Seq(Byte) /\ toR \in Seq(Byte)
      /\ LiesIn(toR, Opening(nTables), k)
    BY EarlyTypes
<1>2. QED
    BY <1>1, LiesMore

LEMMA AcceptKept ==
    ASSUME RInv, Accept
    PROVE  RInv'
<1>1. TypeOK /\ Held(nTables, entries) /\ Positions
    BY DEF RInv
<1>2. /\ sPos = "accept" /\ rPos # "start" /\ sPos' = "serve"
      /\ toR' = toR \o IntBytes(nTables)
      /\ nTables' = nTables /\ entries' = entries /\ step' = step /\ waiting' = waiting
      /\ toS' = toS /\ UNCHANGED rVars
    BY DEF Accept
<1> DEFINE b == Opening(nTables)
           g == IntBytes(nTables)
<1>3. g \in Seq(Byte) /\ Len(g) = 4 /\ LiesIn(g, b, 0)
    <2>1. nTables \in TableCounts
        BY <1>1 DEF TypeOK
    <2>2. QED
        BY <2>1, OpeningPieces
<1>4. ASSUME NEW k \in Nat, Early(k) PROVE Early(k)'
    <2>1. PICK w \in Nat : w = 0
        OBVIOUS
    <2>2. w \in Nat /\ g \in Seq(Byte) /\ LiesIn(g, b, w) /\ Len(toR) + k = w
        BY <1>2, <1>3, <1>4, <2>1 DEF Early
    <2> HIDE DEF b, g
    <2>3. LiesIn(toR \o g, b, k) /\ Len(toR \o g) + k = w + Len(g)
        BY ONLY <1>1, <1>4, <2>2, EarlyMore DEF b
    <2>4. LiesIn(toR', b, k) /\ Len(toR') + k = 4
        BY <1>2, <1>3, <2>1, <2>3 DEF g
    <2>5. step = 1 /\ toS = <<"request">> /\ ~waiting
        BY <1>2, <1>4 DEF Early
    <2>6. QED
        BY <1>2, <2>4, <2>5 DEF Early, b
<1>5. ~Untouched \/ rPos # "start"
    BY <1>2
<1>6. (\A i \in 1 .. Len(Transfer) : ~InRequest(i)) /\ ~Over
    BY <1>2 DEF InRequest, Over
<1>7. Positions'
    BY <1>1, <1>2, <1>4, <1>5, <1>6, PositionsStay
<1>8. toR' \in Seq(Byte)
    BY <1>1, <1>2, <1>3, TwoParts DEF TypeOK
<1>9. TypeOK'
    <2>1. Transfer' = Transfer
        BY <1>2, TransferStays
    <2>2. QED
        BY <1>1, <1>2, <1>8, <2>1 DEF TypeOK, rVars
<1>10. QED
    <2>1. Transfer' = Transfer
        BY <1>2, TransferStays
    <2>2. QED
        BY <1>1, <1>2, <1>7, <1>9, <2>1 DEF RInv

LEMMA InvariantAfter ==
    ASSUME RInv, nTables' = nTables, entries' = entries, TypeOK', Positions',
           sPos' \in {"accept", "serve", "resync"} => step' <= Len(Transfer)
    PROVE  RInv'
<1>1. Transfer' = Transfer
    BY TransferStays
<1>2. QED
    BY <1>1 DEF RInv, Held

(* What a step of S leaves alone has the type it had.                      *)
LEMMA TypesAfter ==
    ASSUME TypeOK, nTables' = nTables, entries' = entries, UNCHANGED rVars,
           sPos' \in {"accept", "serve", "resync", "loop", "stuck", "dead"},
           step' \in 1 .. Len(Transfer) + 1, waiting' \in BOOLEAN,
           toR' \in Seq(Byte), toS' \in Seq({"request", "reply"})
    PROVE  TypeOK'
<1>1. Transfer' = Transfer
    BY TransferStays
<1>2. QED
    BY <1>1 DEF TypeOK, rVars

LEMMA ServeHelloKept ==
    ASSUME RInv, ServeHello
    PROVE  RInv'
<1>1. TypeOK /\ Held(nTables, entries) /\ Positions
    BY DEF RInv
<1>2. /\ sPos = "serve" /\ sPos' = "resync" /\ toS # <<>> /\ toS' = Tail(toS)
      /\ toR' = toR \o Frame(HelloReply)
      /\ nTables' = nTables /\ entries' = entries /\ step' = step /\ waiting' = waiting
      /\ UNCHANGED rVars
    BY DEF ServeHello
<1> DEFINE b == Opening(nTables)
           h == Frame(HelloReply)
<1>3. h \in Seq(Byte) /\ Len(h) = 14 /\ LiesIn(h, b, 4)
    <2>1. nTables \in TableCounts
        BY <1>1 DEF TypeOK
    <2>2. QED
        BY <2>1, OpeningPieces
<1>4. ASSUME NEW k \in Nat, Early(k) PROVE Early(k)'
    <2>1. PICK w \in Nat : w = 4
        OBVIOUS
    <2>2. w \in Nat /\ h \in Seq(Byte) /\ LiesIn(h, b, w) /\ Len(toR) + k = w
        BY <1>2, <1>3, <1>4, <2>1 DEF Early
    <2> HIDE DEF b, h
    <2>3. LiesIn(toR \o h, b, k) /\ Len(toR \o h) + k = w + Len(h)
        BY ONLY <1>1, <1>4, <2>2, EarlyMore DEF b
    <2>4. LiesIn(toR', b, k) /\ Len(toR') + k = 18
        BY <1>2, <1>3, <2>1, <2>3 DEF h
    <2>5. step = 1 /\ toS = <<"request">> /\ ~waiting
        BY <1>2, <1>4 DEF Early
    <2>6. toS' = <<>>
        BY <1>2, <2>5
    <2>7. QED
        BY <1>2, <2>4, <2>5, <2>6 DEF Early, b
<1>5. ~Untouched
    BY <1>2 DEF Untouched
<1>6. (\A i \in 1 .. Len(Transfer) : ~InRequest(i)) /\ ~Over
    BY <1>2 DEF InRequest, Over
<1>7. Positions'
    BY <1>1, <1>2, <1>4, <1>5, <1>6, PositionsStay
<1>8. toR' \in Seq(Byte)
    BY <1>1, <1>2, <1>3, TwoParts DEF TypeOK
<1>9. toS' \in Seq({"request", "reply"})
    BY <1>1, <1>2 DEF TypeOK
<1>10. TypeOK'
    BY <1>1, <1>2, <1>8, <1>9, TypesAfter DEF TypeOK
<1>11. step' <= Len(Transfer)
    BY <1>2 DEF RInv
<1>12. QED
    BY <1>2, <1>7, <1>10, <1>11, InvariantAfter

LEMMA NothingBefore ==
    ASSUME NEW s \in Seq(Byte)
    PROVE  <<>> \o s = s /\ LiesIn(s, s, 0)
<1>1. <<>> \o s = s
    BY EmptySeq, ConcatEmptySeq
<1>2. LiesIn(s, s, 0)
    BY LenProperties DEF LiesIn
<1>3. QED
    BY <1>1, <1>2

LEMMA RequestKept ==
    ASSUME RInv, Request
    PROVE  RInv'
<1>1. TypeOK /\ Held(nTables, entries) /\ Positions
    BY DEF RInv
<1>2. /\ sPos = "resync" /\ ~waiting /\ rPos # "dead"
      /\ nTables' = nTables /\ entries' = entries /\ step' = step /\ toS' = toS
      /\ UNCHANGED rVars
    BY DEF Request
<1>3. /\ step \in 1 .. Len(Transfer) /\ Transfer[1] = Listed(nTables)
      /\ \A i \in 1 .. Len(Transfer) : Sendable(Transfer[i])
    BY <1>1, <1>2, TransferIs DEF RInv, TypeOK
<1>4. ~Untouched
    BY <1>2 DEF Untouched
<1>5. ~Over
    BY <1>2 DEF Over
<1>6. Transfer' = Transfer
    BY <1>2, TransferStays
<1>7. CASE toR' = toR \o Frame(Transfer[step]) /\ waiting' = TRUE /\ sPos' = sPos
    <2> DEFINE b == Opening(nTables)
               f == Frame(Transfer[step])
    <2>1. f \in Seq(Byte)
        BY <1>3, FrameParts
    <2>2. ASSUME NEW k \in Nat, Early(k) PROVE Early(k)'
        <3>1. step = 1 /\ Len(toR) + k = 18 /\ (nTables # -1 => toS = <<>>)
            BY <1>2, <2>2 DEF Early
        <3>2. nTables \in TableCounts
            BY <1>1 DEF TypeOK
        <3>3. Transfer[step] = Listed(nTables)
            BY <1>3, <3>1
        <3>4. LiesIn(f, b, 18) /\ Len(b) = 18 + Len(f)
            BY <3>2, <3>3, OpeningPieces
        <3>5. PICK w \in Nat : w = 18
            OBVIOUS
        <3>6. w \in Nat /\ LiesIn(f, b, w) /\ Len(toR) + k = w
            BY <3>1, <3>4, <3>5
        <3> HIDE DEF b, f
        <3>7. LiesIn(toR \o f, b, k) /\ Len(toR \o f) + k = w + Len(f)
            BY ONLY <1>1, <2>1, <2>2, <3>6, EarlyMore DEF b
        <3>8. LiesIn(toR', b, k) /\ Len(toR') + k = Len(b)
            BY <1>7, <3>4, <3>5, <3>7 DEF f
        <3>9. QED
            BY <1>2, <1>7, <3>1, <3>8 DEF Early, b
    <2>3. ASSUME NEW i \in 1 .. Len(Transfer), InRequest(i) PROVE InRequest(i)'
        <3>1. step = i /\ rPos = "size" /\ toR = <<>> /\ toS = <<>> /\ Done(i - 1)
            BY <1>2, <2>3 DEF InRequest
        <3>2. toR' = Frame(Transfer[i]) /\ LiesIn(toR', Frame(Transfer[i]), 0)
            BY <1>7, <2>1, <3>1, NothingBefore
        <3>3. rPos' = "size" /\ Done(i - 1)'
            BY <1>2, <3>1 DEF Done, rVars
        <3>4. Asked(i)' /\ Whole(i)'
            BY <1>2, <1>6, <3>2, <3>3 DEF Asked, Whole, Frame
        <3>5. QED
            BY <1>2, <1>7, <3>1, <3>4 DEF InRequest
    <2>4. Positions'
        BY <1>1, <1>2, <1>4, <1>5, <2>2, <2>3, PositionsStay
    <2>5. toR' \in Seq(Byte)
        BY <1>1, <1>7, <2>1, TwoParts DEF TypeOK
    <2>6. TypeOK'
        BY <1>1, <1>2, <1>7, <2>5, TypesAfter DEF TypeOK
    <2>7. QED
        BY <1>2, <1>3, <2>4, <2>6, InvariantAfter
<1>8. CASE sPos' = "dead" /\ toR' = toR /\ waiting' = waiting
    <2>1. ASSUME NEW k \in Nat, Early(k) PROVE Early(k)'
        BY <1>2, <1>8, <2>1 DEF Early
    <2>2. ASSUME NEW i \in 1 .. Len(Transfer), InRequest(i) PROVE Over'
        <3>1. rPos = "size" /\ toR = <<>>
            BY <1>2, <2>2 DEF InRequest
        <3>2. QED
            BY <1>2, <1>8, <3>1 DEF Over, rVars
    <2>3. Positions'
        BY <1>1, <1>2, <1>4, <1>5, <2>1, <2>2, PositionsStay
    <2>4. TypeOK'
        BY <1>1, <1>2, <1>8, TypesAfter DEF TypeOK
    <2>5. QED
        BY <1>2, <1>8, <2>3, <2>4, InvariantAfter
<1>9. QED
    BY <1>7, <1>8 DEF Request

LEMMA DoneAll ==
    ASSUME TypeOK, Held(nTables, entries), nTables # -1,
           NEW i \in Nat, i >= Len(Transfer) - 1, Done(i)
    PROVE  AllDone
<1>1. nTables \in TableCounts /\ entries \in Contents
    BY DEF TypeOK
<1>2. Len(Transfer) = 2 + Len(entries) /\ Len(entries) \in Nat
    BY <1>1, TransferIs, RequestsAre, ContentsAreLists
<1>3. entries \in Seq(Pair)
    BY <1>1, ContentsAreLists
<1>4. DOMAIN entries = 1 .. Len(entries)
    BY <1>3
<1>5. i >= 1 /\ \A j \in 1 .. Len(entries) : j < i
    <2> DEFINE L == Len(Transfer)
               N == Len(entries)
    <2>1. L = 2 + N /\ N \in Nat /\ i >= L - 1
        BY <1>2
    <2> HIDE DEF L, N
    <2>2. i >= 1 /\ \A j \in 1 .. N : j < i
        BY <2>1
    <2>3. QED
        BY <2>2 DEF N
<1>6. {j \in 1 .. Len(entries) : j < i} = DOMAIN entries
    BY <1>4, <1>5
<1>7. rTables = nTables /\ rPairs = {entries[k] : k \in DOMAIN entries}
    BY <1>5, <1>6 DEF Done
<1>8. QED
    BY <1>7 DEF AllDone, Range

LEMMA TakeReplyKept ==
    ASSUME RInv, TakeReply
    PROVE  RInv'
<1>1. TypeOK /\ Held(nTables, entries) /\ Positions
    BY DEF RInv
<1>2. /\ sPos = "resync" /\ waiting /\ toS # <<>> /\ toS' = Tail(toS) /\ waiting' = FALSE
      /\ toR' = toR /\ nTables' = nTables /\ entries' = entries /\ step' = step + 1
      /\ UNCHANGED rVars
    BY DEF TakeReply, AfterReply
<1>3. /\ step < Len(Transfer) => sPos' = IF nTables = -1 THEN "dead" ELSE "resync"
      /\ ~(step < Len(Transfer)) => sPos' \in {"loop", "dead"}
    BY DEF TakeReply, AfterReply
<1>4. step \in 1 .. Len(Transfer) /\ Len(Transfer) \in Nat /\ Len(Transfer) >= 2
    BY <1>1, <1>2, TransferIs DEF RInv, TypeOK
<1>5. ~Untouched
    BY <1>2 DEF Untouched
<1>6. ~Over
    BY <1>2 DEF Over
<1>7. ASSUME NEW k \in Nat, Early(k) PROVE Early(k)'
    <2>1. step = 1 /\ nTables = -1
        BY <1>2, <1>7 DEF Early
    <2>2. sPos' = "dead"
        BY <1>3, <1>4, <2>1
    <2>3. QED
        BY <1>2, <1>7, <2>2 DEF Early
<1>8. ASSUME NEW i \in 1 .. Len(Transfer), nTables = 14, InRequest(i)
      PROVE  (\E j \in 1 .. Len(Transfer) : InRequest(j)') \/ Over'
    <2>1. step = i /\ toS = <<"reply">> /\ Answered(i)
        BY <1>2, <1>8 DEF InRequest
    <2>2. i \in Nat /\ toR = <<>> /\ Done(i)
        BY <1>4, <2>1 DEF Answered
    <2>3. CASE i = Len(Transfer)
        <3>1. rPos = "loop"
            BY <2>1, <2>3 DEF Answered
        <3>2. i >= Len(Transfer) - 1
            BY <1>4, <2>3
        <3>3. AllDone
            BY <1>1, <1>8, <2>2, <3>2, DoneAll
        <3>4. AllDone' /\ rPos' = "loop"
            BY <1>2, <3>1, <3>3 DEF AllDone, rVars
        <3>5. sPos' \in {"loop", "dead"}
            BY <1>3, <1>4, <2>1, <2>3
        <3>6. QED
            BY <3>4, <3>5 DEF Over
    <2>4. CASE i # Len(Transfer)
        <3>1. i + 1 \in 1 .. Len(Transfer) /\ step < Len(Transfer) /\ (i + 1) - 1 = i
            BY <1>4, <2>1, <2>4
        <3>2. sPos' = "resync" /\ step' = i + 1
            BY <1>2, <1>3, <1>8, <2>1, <3>1
        <3>3. rPos' = "size" /\ toR' = <<>> /\ toS' = <<>>
            BY <1>2, <2>1, <2>4 DEF Answered, rVars
        <3>4. Done(i)'
            BY <1>2, <2>2 DEF Done, rVars
        <3>5. Done((i + 1) - 1)'
            BY <3>1, <3>4
        <3>6. InRequest(i + 1)'
            BY <1>2, <3>2, <3>3, <3>5 DEF InRequest
        <3>7. QED
            BY <3>1, <3>6
    <2>5. QED
        BY <2>3, <2>4
<1>9. Positions'
    BY <1>1, <1>2, <1>5, <1>6, <1>7, <1>8, PositionsStay
<1>10. step' \in 1 .. Len(Transfer) + 1 /\ sPos' \in {"resync", "loop", "dead"}
    BY <1>2, <1>3, <1>4
<1>11. toS' \in Seq({"request", "reply"})
    BY <1>1, <1>2 DEF TypeOK
<1>12. TypeOK'
    BY <1>1, <1>2, <1>10, <1>11, TypesAfter DEF TypeOK
<1>13. sPos' = "resync" => step' <= Len(Transfer)
    BY <1>2, <1>3, <1>4
<1>14. QED
    BY <1>2, <1>9, <1>10, <1>12, <1>13, InvariantAfter

LEMMA RequestFailsKept ==
    ASSUME RInv, RequestFails
    PROVE  RInv'
<1>1. TypeOK /\ Held(nTables, entries) /\ Positions
    BY DEF RInv
<1>2. /\ sPos = "resync" /\ rPos = "dead" /\ toS' = toS /\ waiting' = FALSE
      /\ toR' = toR /\ nTables' = nTables /\ entries' = entries /\ UNCHANGED rVars
    BY DEF RequestFails
<1>3. step \in 1 .. Len(Transfer) /\ Len(Transfer) \in Nat
    BY <1>1, <1>2, TransferIs DEF RInv, TypeOK
<1>4. \/ step' = step /\ sPos' \in {"dead", "stuck"}
      \/ step' = step + 1 /\ step < Len(Transfer) /\ sPos' \in {"dead", "resync"}
      \/ step' = step + 1 /\ sPos' \in {"loop", "dead"}
    BY DEF RequestFails, AfterReply
<1>5. Positions'
    BY <1>2 DEF Positions, rVars
<1>6. /\ step' \in 1 .. Len(Transfer) + 1
      /\ sPos' \in {"accept", "serve", "resync"} => step' <= Len(Transfer)
      /\ sPos' \in {"resync", "loop", "dead", "stuck"}
    BY <1>3, <1>4
<1>7. TypeOK'
    BY <1>1, <1>2, <1>6, TypesAfter DEF TypeOK
<1>8. QED
    BY <1>2, <1>5, <1>6, <1>7, InvariantAfter

LEMMA SurvivorCrashKept ==
    ASSUME RInv, SurvivorCrash
    PROVE  RInv'
<1>1. TypeOK /\ Held(nTables, entries) /\ Positions
    BY DEF RInv
<1>2. /\ sPos # "dead" /\ sPos' = "dead" /\ toS' = toS /\ waiting' = waiting
      /\ step' = step /\ nTables' = nTables /\ entries' = entries /\ UNCHANGED rVars
    BY DEF SurvivorCrash
<1>3. PICK n \in 0 .. Len(toR) : toR' = SubSeq(toR, 1, n)
    BY DEF SurvivorCrash
<1>4. toR \in Seq(Byte) /\ n \in Nat /\ n <= Len(toR)
    BY <1>1, <1>3 DEF TypeOK
<1>5. toR' \in Seq(Byte) /\ Len(toR') = n
    BY <1>3, <1>4, FrontOf
<1>6. toR = <<>> => toR' = <<>>
    BY <1>3, <1>4, <1>5
<1>7. Transfer' = Transfer
    BY <1>2, TransferStays
<1>8. rPos = "start" /\ Untouched => Untouched'
    BY <1>2, <1>6 DEF Untouched
<1>9. ASSUME NEW k \in Nat, Early(k) PROVE Early(k)'
    <2>1. Opening(nTables) \in Seq(Byte) /\ LiesIn(toR, Opening(nTables), k)
        BY <1>1, <1>9, EarlyTypes
    <2>2. LiesIn(toR', Opening(nTables), k)
        BY <1>3, <1>4, <2>1, LiesFront
    <2>3. QED
        BY <1>2, <2>2 DEF Early
<1>10. ASSUME NEW i \in 1 .. Len(Transfer), nTables = 14, InRequest(i)
       PROVE  (\E j \in 1 .. Len(Transfer) : InRequest(j)') \/ Over'
    <2>1. CASE rPos = "size" /\ toR = <<>>
        BY <1>2, <1>6, <2>1 DEF Over, rVars
    <2>2. CASE Asked(i)
        <3>1. Frame(Transfer[i]) \in Seq(Byte) /\ Encode(Transfer[i]) \in Seq(Byte)
            BY <1>1, <1>10, TransferIs, FrameParts DEF Sendable
        <3>2. /\ LiesIn(toR, Frame(Transfer[i]), 0) => LiesIn(toR', Frame(Transfer[i]), 0)
              /\ LiesIn(toR, Encode(Transfer[i]), 0) => LiesIn(toR', Encode(Transfer[i]), 0)
            BY <1>3, <1>4, <3>1, LiesFront
        <3>3. Done(i - 1)'
            BY <1>2, <2>2 DEF Asked, Done, rVars
        <3>4. Asked(i)'
            BY <1>2, <1>7, <2>2, <3>2, <3>3 DEF Asked, rVars, Frame
        <3>5. QED
            BY <1>2, <3>4 DEF InRequest
    <2>3. CASE Answered(i)
        <3>1. CASE i = Len(Transfer)
            <4>1. rPos = "loop" /\ Done(i) /\ i \in Nat /\ i >= Len(Transfer) - 1
                BY <1>1, <1>10, <2>3, <3>1, TransferIs DEF Answered
            <4>2. AllDone
                BY <1>1, <1>10, <4>1, DoneAll
            <4>3. QED
                BY <1>2, <4>1, <4>2 DEF Over, AllDone, rVars
        <3>2. CASE i # Len(Transfer)
            BY <1>2, <1>6, <2>3, <3>2 DEF Answered, Over, rVars
        <3>3. QED
            BY <3>1, <3>2
    <2>4. QED
        BY <1>2, <1>10, <2>1, <2>2, <2>3 DEF InRequest
<1>11. Over => Over'
    BY <1>2 DEF Over, AllDone, rVars
<1>12. Positions'
    BY <1>1, <1>2, <1>8, <1>9, <1>10, <1>11, PositionsStay
<1>13. TypeOK'
    BY <1>1, <1>2, <1>5, TypesAfter DEF TypeOK
<1>14. QED
    BY <1>2, <1>12, <1>13, InvariantAfter
-----------------------------------------------------------------------------
(* The steps of the restarted server.                                      *)

LEMMA InvariantAfterRead ==
    ASSUME RInv, UNCHANGED sVars, TypeOK', Positions'
    PROVE  RInv'
<1>1. /\ nTables' = nTables /\ entries' = entries /\ sPos' = sPos /\ step' = step
    BY DEF sVars
<1>2. QED
    BY <1>1, InvariantAfter DEF RInv

LEMMA TypesAfterRead ==
    ASSUME TypeOK, UNCHANGED sVars, toR' \in Seq(Byte), toS' \in Seq({"request", "reply"}),
           rPos' \in {"hello_size", "hello_body", "size", "body", "loop", "dead"},
           rSize' \in IntRange, rTables' \in Nat, state' \in {0, 1}
    PROVE  TypeOK'
<1>1. /\ nTables' = nTables /\ entries' = entries /\ sPos' = sPos /\ step' = step
      /\ waiting' = waiting
    BY DEF sVars
<1>2. Transfer' = Transfer
    BY <1>1, TransferStays
<1>3. QED
    BY <1>1, <1>2 DEF TypeOK

LEMMA ReadTypes ==
    ASSUME TypeOK, NEW n \in Nat, Has(n), toR' = Rest(n)
    PROVE  toR' \in Seq(Byte) /\ Len(toR') = Len(toR) - n /\ Len(toR) \in Nat /\ n <= Len(toR)
<1>1. toR \in Seq(Byte) /\ Len(toR) \in Nat /\ n <= Len(toR)
    BY DEF TypeOK, Has
<1>2. QED
    BY <1>1, RestOf DEF Rest

LEMMA LengthRead ==
    ASSUME TypeOK, Has(4)
    PROVE  IntAt(toR, 1) \in IntRange
<1>1. toR \in Seq(Byte) /\ Len(toR) >= 4
    BY DEF TypeOK, Has
<1>2. QED
    BY <1>1, IntAtTypes

(* R reads on in the opening.                                              *)
LEMMA EarlyRead ==
    ASSUME TypeOK, NEW k \in Nat, Early(k), NEW n \in Nat, Has(n), toR' = Rest(n),
           UNCHANGED sVars, toS' = toS \/ (nTables = -1 /\ k >= 5)
    PROVE  k + n \in Nat /\ Early(k + n)'
<1> DEFINE b == Opening(nTables)
           L == Len(toR)
           M == Len(toR')
           B == Len(b)
<1>1. /\ b \in Seq(Byte) /\ toR \in Seq(Byte) /\ LiesIn(toR, b, k)
    BY EarlyTypes
<1>2. L \in Nat /\ n <= L /\ M = L - n
    BY ReadTypes
<1>3. LiesIn(toR', b, k + n)
    BY <1>1, <1>2, LiesRest DEF Rest
<1>4. /\ nTables' = nTables /\ sPos' = sPos /\ step' = step /\ waiting' = waiting
    BY DEF sVars
<1>5. b' = b
    BY <1>4
<1>6. /\ sPos = "accept" => L + k = 0
      /\ sPos = "serve" => L + k = 4
      /\ sPos = "resync" => L + k = IF waiting THEN B ELSE 18
    BY DEF Early
<1>7. k + n \in Nat /\ M + (k + n) = L + k
    <2> HIDE DEF L, M
    <2>1. QED
        BY <1>2
<1>8. toS' = toS \/ ~(sPos \in {"accept", "serve"})
    <2> HIDE DEF L
    <2>1. QED
        BY <1>2, <1>6
<1> HIDE DEF L, M, B
<1>9. /\ sPos' = "accept" => M + (k + n) = 0
      /\ sPos' = "serve" => M + (k + n) = 4
      /\ sPos' = "resync" => M + (k + n) = IF waiting' THEN B ELSE 18
    BY <1>4, <1>6, <1>7
<1>10. /\ sPos \in {"accept", "serve", "resync", "dead"}
       /\ sPos # "dead" => step = 1
       /\ sPos \in {"accept", "serve"} => toS = <<"request">> /\ ~waiting
       /\ sPos = "resync" /\ nTables # -1 => toS = <<>>
    BY DEF Early
<1>11. /\ sPos' \in {"accept", "serve", "resync", "dead"}
       /\ sPos' # "dead" => step' = 1
       /\ sPos' \in {"accept", "serve"} => toS' = <<"request">> /\ ~waiting'
       /\ sPos' = "resync" /\ nTables' # -1 => toS' = <<>>
    BY <1>4, <1>8, <1>10
<1>12. QED
    BY <1>3, <1>4, <1>7, <1>9, <1>11 DEF Early, M, B

(* Behind a dead S nothing is left.                                        *)
LEMMA EarlyEnd ==
    ASSUME TypeOK, sPos = "dead", UNCHANGED sVars, toR' = <<>>,
           NEW k \in Nat, k <= Len(Opening(nTables))
    PROVE  Early(k)'
<1>1. nTables \in TableCounts /\ nTables' = nTables /\ sPos' = sPos
    BY DEF TypeOK, sVars
<1>2. LiesIn(<<>>, Opening(nTables), k)
    BY <1>1, OpeningPieces, LiesNothing
<1>3. QED
    BY <1>1, <1>2 DEF Early

LEMMA EarlyPlace ==
    ASSUME NEW k \in Nat, Early(k)', Place(k)'
    PROVE  Positions'
BY DEF Positions

LEMMA UpdateFailed ==
    ASSUME UNCHANGED sVars, rPos' = "loop", state' = 0, nTables # 14 \/ sPos = "dead"
    PROVE  Positions'
BY DEF sVars, Positions, Over

LEMMA AtHelloSize ==
    ASSUME RInv, rPos = "hello_size"
    PROVE  0 \in Nat /\ Early(0)
BY DEF RInv, Positions, Place, InRequest, Asked, Answered, Over

LEMMA AtHelloBody ==
    ASSUME RInv, rPos = "hello_body"
    PROVE  4 \in Nat /\ Early(4) /\ nTables # -1 /\ rSize = nTables
BY DEF RInv, Positions, Place, InRequest, Asked, Answered, Over

LEMMA AtSize ==
    ASSUME RInv, rPos = "size"
    PROVE  \/ nTables \notin {-1, 14} /\ 4 + nTables \in Nat /\ Early(4 + nTables)
           \/ nTables = -1 /\ \E k \in {4, 18, 32} : k \in Nat /\ Early(k)
           \/ nTables = 14 /\ toR = <<>>
           \/ nTables = 14 /\ \E i \in 1 .. Len(Transfer) : InRequest(i) /\ Asked(i)
<1>1. Positions
    BY DEF RInv
<1>2. ASSUME NEW k \in Nat, Early(k), Place(k)
      PROVE  \/ nTables \notin {-1, 14} /\ 4 + nTables \in Nat /\ Early(4 + nTables)
             \/ nTables = -1 /\ \E j \in {4, 18, 32} : j \in Nat /\ Early(j)
    <2>1. \/ nTables \notin {-1, 14} /\ k = 4 + nTables
          \/ nTables = -1 /\ k \in {4, 18, 32}
        BY <1>2 DEF Place
    <2>2. CASE nTables \notin {-1, 14} /\ k = 4 + nTables
        BY <1>2, <2>2
    <2>3. CASE nTables = -1 /\ k \in {4, 18, 32}
        BY <1>2, <2>3
    <2>4. QED
        BY <2>1, <2>2, <2>3
<1>3. ASSUME NEW i \in 1 .. Len(Transfer), InRequest(i)
      PROVE  toR = <<>> \/ Asked(i)
    BY <1>3 DEF InRequest, Answered
<1>4. Over => toR = <<>>
    BY DEF Over
<1>5. QED
    BY <1>1, <1>2, <1>3, <1>4 DEF Positions

LEMMA AtBody ==
    ASSUME RInv, rPos = "body"
    PROVE  \/ /\ nTables \notin {-1, 14} /\ 8 + nTables \in Nat /\ Early(8 + nTables)
              /\ rSize = IntAt(Opening(nTables), 5 + nTables) /\ rSize >= 0
           \/ nTables = -1 /\ rSize = 10 /\ \E k \in {8, 22} : k \in Nat /\ Early(k)
           \/ nTables = 14 /\ \E i \in 1 .. Len(Transfer) : InRequest(i) /\ Asked(i)
<1>1. Positions
    BY DEF RInv
<1>2. ASSUME NEW k \in Nat, Early(k), Place(k)
      PROVE  \/ /\ nTables \notin {-1, 14} /\ 8 + nTables \in Nat /\ Early(8 + nTables)
                /\ rSize = IntAt(Opening(nTables), 5 + nTables) /\ rSize >= 0
             \/ nTables = -1 /\ rSize = 10 /\ \E j \in {8, 22} : j \in Nat /\ Early(j)
    <2>1. \/ /\ nTables \notin {-1, 14} /\ k = 8 + nTables
             /\ rSize = IntAt(Opening(nTables), 5 + nTables) /\ rSize >= 0
          \/ nTables = -1 /\ k \in {8, 22} /\ rSize = 10
        BY <1>2 DEF Place
    <2>2. CASE /\ nTables \notin {-1, 14} /\ k = 8 + nTables
               /\ rSize = IntAt(Opening(nTables), 5 + nTables) /\ rSize >= 0
        BY <1>2, <2>2
    <2>3. CASE nTables = -1 /\ k \in {8, 22} /\ rSize = 10
        BY <1>2, <2>3
    <2>4. QED
        BY <2>1, <2>2, <2>3
<1>3. ASSUME NEW i \in 1 .. Len(Transfer), InRequest(i)
      PROVE  Asked(i)
    BY <1>3 DEF InRequest, Answered
<1>4. ~Over
    BY DEF Over
<1>5. QED
    BY <1>1, <1>2, <1>3, <1>4 DEF Positions

LEMMA HelloKept ==
    ASSUME RInv, Hello
    PROVE  RInv'
<1>1. /\ rPos = "start" /\ sPos # "dead" /\ rPos' = "hello_size"
      /\ toS' = Append(toS, "request") /\ toR' = toR
      /\ rSize' = rSize /\ rTables' = rTables /\ state' = state /\ UNCHANGED sVars
    BY DEF Hello
<1>2. TypeOK /\ Untouched
    BY <1>1 DEF RInv, Positions, Place, InRequest, Asked, Answered, Over
<1>3. /\ nTables' = nTables /\ sPos' = sPos /\ step' = step /\ waiting' = waiting
    BY <1>1 DEF sVars
<1>4. nTables \in TableCounts /\ toR = <<>> /\ toS = <<>> /\ toS' = <<"request">>
    BY <1>1, <1>2 DEF TypeOK, Untouched
<1>5. LiesIn(<<>>, Opening(nTables), 0)
    BY <1>4, OpeningPieces, LiesNothing
<1>6. Len(toR') + 0 = 0
    BY <1>1, <1>4
<1>7. Early(0)'
    BY <1>1, <1>2, <1>3, <1>4, <1>5, <1>6 DEF Early, Untouched
<1>8. Place(0)'
    BY <1>1 DEF Place
<1>9. Positions'
    BY <1>7, <1>8, EarlyPlace
<1>10. TypeOK'
    BY <1>1, <1>2, <1>4, TypesAfterRead DEF TypeOK
<1>11. QED
    BY <1>1, <1>9, <1>10, InvariantAfterRead

LEMMA HelloFailsKept ==
    ASSUME RInv, HelloFails
    PROVE  RInv'
<1>1. /\ rPos = "start" /\ sPos = "dead" /\ rPos' = "loop" /\ state' = 0
      /\ toS' = toS /\ toR' = toR
      /\ rSize' = rSize /\ rTables' = rTables /\ UNCHANGED sVars
    BY DEF HelloFails
<1>2. Positions'
    BY <1>1, UpdateFailed
<1>3. TypeOK'
    BY <1>1, TypesAfterRead DEF RInv, TypeOK
<1>4. QED
    BY <1>1, <1>2, <1>3, InvariantAfterRead

LEMMA RestartedCrashKept ==
    ASSUME RInv, RestartedCrash
    PROVE  RInv'
<1>1. /\ rPos' = "dead" /\ state' = state /\ toS' = toS /\ toR' = toR
      /\ rSize' = rSize /\ rTables' = rTables /\ UNCHANGED sVars
    BY DEF RestartedCrash
<1>2. Positions'
    BY <1>1 DEF Positions
<1>3. TypeOK'
    BY <1>1, TypesAfterRead DEF RInv, TypeOK
<1>4. QED
    BY <1>1, <1>2, <1>3, InvariantAfterRead

LEMMA ReadHelloSizeKept ==
    ASSUME RInv, ReadHelloSize
    PROVE  RInv'
<1>1. /\ rPos = "hello_size" /\ Has(4) /\ toR' = Rest(4) /\ rSize' = IntAt(toR, 1)
      /\ toS' = toS /\ state' = state /\ rTables' = rTables /\ UNCHANGED sVars
      /\ \/ rSize' < 0 /\ rPos' \in {"size", "dead"}
         \/ ~(rSize' < 0) /\ rPos' = "hello_body"
    BY DEF ReadHelloSize, HelloRefused
<1>2. TypeOK /\ 0 \in Nat /\ Early(0)
    BY <1>1, AtHelloSize DEF RInv
<1>3. nTables \in TableCounts /\ nTables' = nTables
    BY <1>1, <1>2 DEF TypeOK, sVars
<1>4. LiesIn(toR, Opening(nTables), 0) /\ Opening(nTables) \in Seq(Byte) /\ toR \in Seq(Byte)
    BY <1>2, EarlyTypes
<1>5. IntAt(toR, 1) = IntAt(Opening(nTables), 0 + 1)
    BY <1>1, <1>4, LiesNumbers DEF Has
<1>6. rSize' = nTables
    BY <1>1, <1>3, <1>5, OpeningParts
<1>7. Early(4)'
    <2>1. PICK k \in Nat : k = 0
        OBVIOUS
    <2>2. k \in Nat /\ Early(k)
        BY <1>2, <2>1
    <2>3. Early(k + 4)'
        BY ONLY <1>1, <1>2, <2>2, 4 \in Nat, EarlyRead
    <2>4. QED
        BY <2>1, <2>3
<1>8. Positions'
    <2>1. CASE rSize' < 0 /\ rPos' \in {"size", "dead"}
        <3>1. nTables = -1
            BY <1>3, <1>6, <2>1, CountsAreNumbers
        <3>2. rPos' = "size" => Place(4)'
            BY <1>3, <3>1 DEF Place
        <3>3. CASE rPos' = "size"
            BY <1>7, <3>2, <3>3, EarlyPlace
        <3>4. CASE rPos' = "dead"
            BY <3>4 DEF Positions
        <3>5. QED
            BY <2>1, <3>3, <3>4
    <2>2. CASE ~(rSize' < 0) /\ rPos' = "hello_body"
        <3>1. nTables # -1
            BY <1>3, <1>6, <2>2
        <3>2. Place(4)'
            BY <1>3, <1>6, <2>2, <3>1 DEF Place
        <3>3. QED
            BY <1>7, <3>2, EarlyPlace
    <2>3. QED
        BY <1>1, <2>1, <2>2
<1>9. toR' \in Seq(Byte) /\ rSize' \in IntRange
    BY <1>1, <1>2, ReadTypes, LengthRead
<1>10. TypeOK'
    BY <1>1, <1>2, <1>9, TypesAfterRead DEF TypeOK
<1>11. QED
    BY <1>1, <1>8, <1>10, InvariantAfterRead

LEMMA LiesWithin ==
    ASSUME NEW b \in Seq(Byte), NEW p \in Seq(Byte), NEW f \in Seq(Byte), NEW k \in Nat,
           LiesIn(p, b, k), LiesIn(f, b, k), Len(b) <= k + Len(f)
    PROVE  LiesIn(p, f, 0)
<1> DEFINE P == Len(p)
           F == Len(f)
           B == Len(b)
<1>1. P \in Nat /\ F \in Nat /\ B \in Nat
    BY LenProperties
<1>2. /\ k + P <= B /\ k + F <= B /\ B <= k + F
      /\ \A i \in 1 .. P : p[i] = b[k + i]
      /\ \A i \in 1 .. F : f[i] = b[k + i]
    BY DEF LiesIn
<1> HIDE DEF P, F, B
<1>3. 0 + P <= F
    BY <1>1, <1>2
<1>4. \A i \in 1 .. P : p[i] = f[0 + i]
    <2>1. ASSUME NEW i \in 1 .. P PROVE p[i] = f[0 + i]
        <3>1. i \in 1 .. F /\ 0 + i = i
            BY <1>1, <1>3, <2>1
        <3>2. QED
            BY <1>2, <3>1
    <2>2. QED
        BY <2>1
<1>5. QED
    BY <1>3, <1>4 DEF LiesIn, P, F

LEMMA EncodedLies ==
    ASSUME NEW m, Sendable(m)
    PROVE  /\ Encode(m) \in Seq(Byte) /\ Frame(m) \in Seq(Byte)
           /\ LiesIn(Encode(m), Frame(m), 4) /\ Len(Frame(m)) <= 4 + Len(Encode(m))
<1> DEFINE e == Encode(m)
           f == Frame(m)
           E == Len(e)
           F == Len(f)
<1>1. /\ e \in Seq(Byte) /\ f \in Seq(Byte) /\ F = 4 + E
      /\ \A i \in 1 .. E : f[4 + i] = e[i]
    BY FrameParts DEF Sendable
<1>2. E \in Nat
    BY <1>1, LenProperties
<1> HIDE DEF E, F
<1>3. 4 + E <= F /\ F <= 4 + E
    BY <1>1, <1>2
<1>4. QED
    BY <1>1, <1>3 DEF LiesIn, E, F

(* What stands behind the reply to HELLO is the first request.             *)
LEMMA OpeningEnds ==
    ASSUME TypeOK, Held(nTables, entries), NEW p \in Seq(Byte),
           LiesIn(p, Opening(nTables), 18)
    PROVE  /\ LiesIn(p, Frame(Transfer[1]), 0)
           /\ Len(Opening(nTables)) = 18 + Len(Frame(Transfer[1]))
           /\ Len(Frame(Transfer[1])) \in Nat
<1> DEFINE b == Opening(nTables)
           f == Frame(Transfer[1])
<1>1. nTables \in TableCounts /\ f = Frame(Listed(nTables))
    BY TransferIs DEF TypeOK
<1>2. /\ b \in Seq(Byte) /\ f \in Seq(Byte) /\ LiesIn(f, b, 18) /\ Len(f) \in Nat
      /\ Len(b) = 18 + Len(f)
    BY <1>1, OpeningPieces
<1>3. Len(b) <= 18 + Len(f)
    <2> DEFINE B == Len(b)
               F == Len(f)
    <2>1. B = 18 + F /\ F \in Nat
        BY <1>2
    <2> HIDE DEF B, F
    <2>2. B <= 18 + F
        BY <2>1
    <2>3. QED
        BY <2>2 DEF B, F
<1>4. PICK k \in Nat : k = 18
    OBVIOUS
<1>5. LiesIn(p, b, k) /\ LiesIn(f, b, k) /\ Len(b) <= k + Len(f) /\ k \in Nat
    BY <1>2, <1>3, <1>4
<1>6. b \in Seq(Byte) /\ f \in Seq(Byte)
    BY <1>2
<1>7. LiesIn(p, f, 0)
    <2> HIDE DEF b, f
    <2>1. QED
        BY ONLY p \in Seq(Byte), <1>5, <1>6, LiesWithin
<1>8. QED
    BY <1>2, <1>7

(* In step, the first message of the survivor is the first request.        *)
LEMMA InStepFirst ==
    ASSUME TypeOK, Held(nTables, entries), nTables = 14, Early(4), 14 \in Nat, Has(14),
           toR' = Rest(14), UNCHANGED sVars, toS' = toS, rPos' = "size"
    PROVE  Positions'
<1>1. Early(18)'
    <2>1. PICK k \in Nat, n \in Nat : k = 4 /\ n = 14
        OBVIOUS
    <2>2. k \in Nat /\ n \in Nat /\ Early(k) /\ Has(n) /\ toR' = Rest(n)
        BY <2>1
    <2>3. Early(k + n)'
        BY ONLY TypeOK, UNCHANGED sVars, toS' = toS, <2>2, EarlyRead
    <2>4. k + n = 18
        BY <2>1
    <2>5. QED
        BY <2>3, <2>4
<1>2. /\ nTables' = nTables /\ entries' = entries /\ sPos' = sPos /\ step' = step
      /\ waiting' = waiting
    BY DEF sVars
<1>3. Transfer' = Transfer
    BY <1>2, TransferStays
<1> DEFINE f == Frame(Transfer[1])
           b == Opening(nTables)
           M == Len(toR')
           F == Len(f)
<1>4. toR' \in Seq(Byte)
    BY ReadTypes
<1>5. M \in Nat
    BY <1>4, LenProperties
<1>6. LiesIn(toR', b, 18)
    BY <1>1, <1>2 DEF Early
<1>7. LiesIn(toR', f, 0) /\ Len(b) = 18 + F /\ F \in Nat
    BY <1>4, <1>6, OpeningEnds
<1>8. 1 \in 1 .. Len(Transfer) /\ (1 - 1 >= 1 => FALSE)
    BY TransferIs
<1>9. Done(1 - 1)' /\ Asked(1)'
    BY <1>3, <1>7, <1>8 DEF Done, Asked, Frame
<1>10. /\ sPos \in {"accept", "serve", "resync", "dead"}
       /\ sPos = "accept" => M + 18 = 0
       /\ sPos = "serve" => M + 18 = 4
       /\ sPos = "resync" => M + 18 = IF waiting THEN Len(b) ELSE 18
       /\ sPos # "dead" => step = 1
       /\ sPos = "resync" => toS' = <<>>
    BY <1>1, <1>2 DEF Early
<1>11. /\ sPos \in {"resync", "dead"}
       /\ sPos = "resync" => IF waiting THEN M = F ELSE M = 0
    <2>1. Len(b) = 18 + F
        BY <1>7
    <2> HIDE DEF M, F, b
    <2>2. QED
        BY <1>5, <1>7, <1>10, <2>1
<1>12. InRequest(1)'
    <2>1. CASE sPos = "dead"
        BY <1>2, <1>9, <2>1 DEF InRequest
    <2>2. CASE sPos = "resync" /\ waiting
        <3>1. M = F
            BY <1>11, <2>2
        <3>2. Whole(1)'
            BY <1>3, <3>1 DEF Whole, Frame
        <3>3. QED
            BY <1>2, <1>9, <1>10, <2>2, <3>2 DEF InRequest
    <2>3. CASE sPos = "resync" /\ ~waiting
        <3>1. M = 0
            BY <1>11, <2>3
        <3>2. toR' = <<>>
            BY <1>4, <3>1, EmptySeq
        <3>3. QED
            BY <1>2, <1>9, <1>10, <2>3, <3>2 DEF InRequest
    <2>4. TypeOK => waiting \in BOOLEAN
        BY DEF TypeOK
    <2>5. QED
        BY <1>11, <2>1, <2>2, <2>3, <2>4
<1>13. QED
    BY <1>2, <1>3, <1>8, <1>12 DEF Positions

LEMMA ReadHelloBodyKept ==
    ASSUME RInv, ReadHelloBody
    PROVE  RInv'
<1>1. /\ rPos = "hello_body" /\ Has(rSize) /\ toR' = Rest(rSize) /\ rPos' \in {"size", "dead"}
      /\ rSize' = rSize /\ toS' = toS /\ state' = state /\ rTables' = rTables
      /\ UNCHANGED sVars
    BY DEF ReadHelloBody, HelloRefused
<1>2. TypeOK /\ Held(nTables, entries) /\ Early(4) /\ nTables # -1 /\ rSize = nTables
    BY <1>1, AtHelloBody DEF RInv
<1>3. nTables \in TableCounts /\ nTables' = nTables
    BY <1>1, <1>2 DEF TypeOK, sVars
<1>4. nTables \in Nat
    BY <1>2, <1>3, CountsAreNumbers
<1>5. Has(nTables) /\ toR' = Rest(nTables)
    BY <1>1, <1>2
<1>6. toR' \in Seq(Byte)
    BY <1>2, <1>4, <1>5, ReadTypes
<1>7. Positions'
    <2>1. CASE rPos' = "dead"
        BY <2>1 DEF Positions
    <2>2. CASE rPos' = "size" /\ nTables = 14
        BY <1>1, <1>2, <1>5, <2>2, InStepFirst
    <2>3. CASE rPos' = "size" /\ nTables # 14
        <3>1. PICK k \in Nat, n \in Nat : k = 4 /\ n = nTables
            BY <1>4
        <3>2. k \in Nat /\ n \in Nat /\ Early(k) /\ Has(n) /\ toR' = Rest(n)
            BY <1>2, <1>5, <3>1
        <3>3. Early(k + n)' /\ k + n \in Nat
            BY ONLY <1>1, <1>2, <3>2, EarlyRead
        <3>4. Place(k + n)'
            BY <1>2, <1>3, <2>3, <3>1 DEF Place
        <3>5. QED
            BY <3>3, <3>4, EarlyPlace
    <2>4. QED
        BY <1>1, <2>1, <2>2, <2>3
<1>8. TypeOK'
    BY <1>1, <1>2, <1>6, TypesAfterRead DEF TypeOK
<1>9. QED
    BY <1>1, <1>7, <1>8, InvariantAfterRead

(* R goes on to read a length when S is dead and has left nothing.         *)
LEMMA SizeAtEnd ==
    ASSUME TypeOK, sPos = "dead", UNCHANGED sVars, toR' = <<>>, rPos' = "size"
    PROVE  Positions'
<1>1. nTables \in TableCounts /\ nTables' = nTables /\ sPos' = sPos
    BY DEF TypeOK, sVars
<1>2. CASE nTables = 14
    BY <1>1, <1>2 DEF Positions, Over
<1>3. CASE nTables = -1
    <2>1. PICK k \in Nat : k = 4
        OBVIOUS
    <2>2. k <= Len(Opening(nTables))
        BY <1>1, <2>1, OpeningPieces
    <2>3. Early(k)'
        BY <2>2, EarlyEnd
    <2>4. Place(k)'
        BY <1>1, <1>3, <2>1 DEF Place
    <2>5. QED
        BY <2>3, <2>4, EarlyPlace
<1>4. CASE nTables \notin {-1, 14}
    <2> DEFINE a == ListBytes(SizesOf(nTables))
               B == Len(Opening(nTables))
               A == Len(a)
    <2>1. nTables \in Nat
        BY <1>1, <1>4, CountsAreNumbers
    <2>2. PICK k \in Nat : k = 4 + nTables
        BY <2>1
    <2>3. B = 32 + A
        BY <1>1, <1>4, OpeningFigures
    <2>4. a \in Seq(Byte) /\ 3 * nTables <= A
        BY <1>1, <1>4, KeysArea
    <2>5. A \in Nat
        BY <2>4, LenProperties
    <2>6. k <= B
        <3> HIDE DEF A, B
        <3>1. QED
            BY <2>1, <2>2, <2>3, <2>4, <2>5
    <2>7. Early(k)'
        BY <2>6, EarlyEnd
    <2>8. Place(k)'
        BY <1>1, <1>4, <2>2 DEF Place
    <2>9. QED
        BY <2>7, <2>8, EarlyPlace
<1>5. QED
    BY <1>2, <1>3, <1>4

LEMMA HelloEndsKept ==
    ASSUME RInv, HelloEnds
    PROVE  RInv'
<1>1. /\ sPos = "dead" /\ toR' = <<>> /\ rPos' \in {"size", "dead"}
      /\ rSize' = rSize /\ toS' = toS /\ state' = state /\ rTables' = rTables
      /\ UNCHANGED sVars
    BY DEF HelloEnds, HelloRefused, AtEnd
<1>2. TypeOK
    BY DEF RInv
<1>3. Positions'
    <2>1. CASE rPos' = "size"
        BY <1>1, <1>2, <2>1, SizeAtEnd
    <2>2. CASE rPos' = "dead"
        BY <2>2 DEF Positions
    <2>3. QED
        BY <1>1, <2>1, <2>2
<1>4. TypeOK'
    BY <1>1, <1>2, EmptySeq, TypesAfterRead DEF TypeOK
<1>5. QED
    BY <1>1, <1>3, <1>4, InvariantAfterRead

(* R reads the length of a message of the transfer.                        *)
LEMMA RequestLength ==
    ASSUME TypeOK, Held(nTables, entries), NEW i \in 1 .. Len(Transfer),
           rPos = "size", Asked(i), Has(4), toR' = Rest(4),
           rSize' = IntAt(toR, 1), rTables' = rTables, rPairs' = rPairs, UNCHANGED sVars
    PROVE  /\ IntAt(toR, 1) = Len(Encode(Transfer[i])) /\ IntAt(toR, 1) \in Nat
           /\ rPos' = "body" => Asked(i)' /\ (Whole(i) => Whole(i)')
<1> DEFINE e == Encode(Transfer[i])
           f == Frame(Transfer[i])
           E == Len(e)
           F == Len(f)
           M == Len(toR')
           L == Len(toR)
<1>1. /\ nTables' = nTables /\ entries' = entries
    BY DEF sVars
<1>2. Transfer' = Transfer
    BY <1>1, TransferStays
<1>3. Sendable(Transfer[i])
    BY TransferIs
<1>4. /\ e \in Seq(Byte) /\ f \in Seq(Byte) /\ LiesIn(e, f, 4) /\ Len(f) <= 4 + Len(e)
    BY <1>3, EncodedLies
<1>5. toR \in Seq(Byte) /\ LiesIn(toR, f, 0)
    BY DEF Asked, TypeOK
<1>6. IntAt(toR, 1) = IntAt(f, 0 + 1)
    BY <1>4, <1>5, LiesNumbers DEF Has
<1>7. IntAt(toR, 1) = E /\ E \in Nat /\ F = 4 + E
    BY <1>3, <1>6, FrameParts, LengthOfSendable
<1>8. toR' \in Seq(Byte) /\ M = L - 4 /\ L \in Nat /\ 4 <= L
    BY 4 \in Nat, ReadTypes
<1>9. LiesIn(toR', e, 0)
    <2>1. PICK k \in Nat, z \in Nat : k = 4 /\ z = 0
        OBVIOUS
    <2>2. /\ k <= Len(toR) /\ LiesIn(toR, f, z) /\ LiesIn(e, f, k)
          /\ Len(f) <= k + Len(e) /\ k \in Nat /\ z \in Nat
        BY <1>4, <1>5, <1>8, <2>1
    <2>3. toR' = SubSeq(toR, k + 1, Len(toR))
        BY <2>1 DEF Rest
    <2>4. LiesIn(toR', f, z + k)
        <3> HIDE DEF f, e
        <3>1. QED
            BY ONLY <1>4, <1>5, <2>2, <2>3, LiesRest
    <2>5. z + k = k
        BY <2>1
    <2>6. LiesIn(toR', f, k)
        BY <2>4, <2>5
    <2>7. QED
        <3> HIDE DEF f, e
        <3>1. QED
            BY ONLY <1>4, <1>8, <2>2, <2>6, LiesWithin
<1>10. rPos' = "body" => Asked(i)'
    <2>1. Done(i - 1)'
        BY <1>1 DEF Asked, Done
    <2>2. rSize' = Len(Encode(Transfer'[i])) /\ LiesIn(toR', Encode(Transfer'[i]), 0)
        BY <1>2, <1>7, <1>9
    <2>3. QED
        BY <2>1, <2>2 DEF Asked
<1>11. Whole(i) => M = E
    <2>1. Whole(i) => L = F
        BY DEF Whole
    <2> HIDE DEF L, M, E, F
    <2>2. QED
        BY <1>7, <1>8, <2>1
<1>12. rPos' = "body" /\ Whole(i) => Whole(i)'
    BY <1>2, <1>11 DEF Whole
<1>13. QED
    BY <1>7, <1>10, <1>12

(* The lengths R reads from a promoted server are those of messages.       *)
LEMMA PromotedLengths ==
    ASSUME NEW n \in TableCounts, n = -1
    PROVE  /\ IntAt(Opening(n), 5) = 10 /\ IntAt(Opening(n), 19) = 10
           /\ Len(Opening(n)) = 32 /\ Len(Encode(Listed(n))) = 10
<1> DEFINE b == Opening(n)
           l == Encode(Listed(n))
           B == Len(b)
           E == Len(l)
           A == Len(ListBytes(SizesOf(n)))
<1>1. /\ B = 22 + E /\ Stands(b, 5, IntBytes(10)) /\ Stands(b, 19, IntBytes(E))
    BY OpeningParts
<1>2. E = 10 + A
    BY ListedIsSendable
<1>3. A = 0
    BY KeysArea
<1>4. E = 10 /\ B = 32
    <2> HIDE DEF A, B, E
    <2>1. QED
        BY <1>1, <1>2, <1>3
<1>5. Stands(b, 19, IntBytes(10))
    BY <1>1, <1>4
<1>6. 10 \in IntRange
    BY SmallNumbers
<1>7. IntAt(b, 5) = 10 /\ IntAt(b, 19) = 10
    <2> HIDE DEF b
    <2>1. QED
        BY <1>1, <1>5, <1>6, IntStands
<1>8. QED
    BY <1>4, <1>7

LEMMA ReadSizeKept ==
    ASSUME RInv, ReadSize
    PROVE  RInv'
<1>1. /\ rPos = "size" /\ Has(4) /\ toR' = Rest(4) /\ rSize' = IntAt(toR, 1)
      /\ toS' = toS /\ rTables' = rTables /\ rPairs' = rPairs /\ UNCHANGED sVars
      /\ \/ rSize' < 0 /\ rPos' = "loop" /\ state' = 0
         \/ ~(rSize' < 0) /\ rPos' = "body" /\ state' = state
    BY DEF ReadSize, UpdateFails
<1>2. TypeOK /\ Held(nTables, entries)
    BY DEF RInv
<1>3. nTables \in TableCounts /\ nTables' = nTables /\ toR \in Seq(Byte)
    BY <1>1, <1>2 DEF TypeOK, sVars
<1>4. rSize' \in IntRange /\ toR' \in Seq(Byte)
    BY <1>1, <1>2, 4 \in Nat, LengthRead, ReadTypes
<1>5. TypeOK'
    BY <1>1, <1>2, <1>4, TypesAfterRead DEF TypeOK
<1> SUFFICES Positions'
    BY <1>1, <1>5, InvariantAfterRead
<1>6. PICK n \in Nat : n = 4
    OBVIOUS
<1>7. n \in Nat /\ Has(n) /\ toR' = Rest(n)
    BY <1>1, <1>6
<1>8. ASSUME NEW k \in Nat, Early(k)
      PROVE  /\ Early(k + n)' /\ k + n \in Nat
             /\ rSize' = IntAt(Opening(nTables), k + 1)
             /\ k + 4 <= Len(Opening(nTables))
    <2>1. Early(k + n)' /\ k + n \in Nat
        BY ONLY <1>1, <1>2, <1>7, <1>8, EarlyRead
    <2>2. /\ LiesIn(toR, Opening(nTables), k) /\ Opening(nTables) \in Seq(Byte)
          /\ Len(toR) \in Nat /\ Len(Opening(nTables)) \in Nat
          /\ k + Len(toR) <= Len(Opening(nTables))
        BY <1>2, <1>8, EarlyTypes
    <2>3. IntAt(toR, 1) = IntAt(Opening(nTables), k + 1)
        BY <1>1, <1>3, <2>2, LiesNumbers DEF Has
    <2>4. k + 4 <= Len(Opening(nTables))
        <3> DEFINE L == Len(toR)
                   B == Len(Opening(nTables))
        <3>1. L \in Nat /\ B \in Nat /\ k + L <= B /\ L >= 4
            BY <1>1, <2>2 DEF Has
        <3> HIDE DEF L, B
        <3>2. k + 4 <= B
            BY <3>1
        <3>3. QED
            BY <3>2 DEF B
    <2>5. QED
        BY <1>1, <2>1, <2>3, <2>4
<1>9. CASE nTables \notin {-1, 14} /\ 4 + nTables \in Nat /\ Early(4 + nTables)
    <2>1. CASE rPos' = "loop" /\ state' = 0
        BY <1>1, <1>9, <2>1, UpdateFailed
    <2>2. CASE rPos' = "body" /\ ~(rSize' < 0)
        <3>1. PICK k \in Nat : k = 4 + nTables
            BY <1>9
        <3>2. /\ Early(k + n)' /\ k + n \in Nat
              /\ rSize' = IntAt(Opening(nTables), k + 1)
            BY <1>8, <1>9, <3>1
        <3>3. k + 1 = 5 + nTables /\ k + n = 8 + nTables
            BY <1>3, <1>6, <3>1, CountsAreNumbers
        <3>4. rSize' = IntAt(Opening(nTables'), 5 + nTables')
            BY <1>3, <3>2, <3>3
        <3>5. rSize' >= 0
            BY <1>4, <2>2 DEF IntRange
        <3>6. Place(k + n)'
            BY <1>3, <1>9, <2>2, <3>3, <3>4, <3>5 DEF Place
        <3>7. QED
            BY <3>2, <3>6, EarlyPlace
    <2>3. QED
        BY <1>1, <2>1, <2>2
<1>10. CASE nTables = -1 /\ \E k \in {4, 18, 32} : k \in Nat /\ Early(k)
    <2>1. PICK k \in {4, 18, 32} : k \in Nat /\ Early(k)
        BY <1>10
    <2>2. /\ Early(k + n)' /\ k + n \in Nat
          /\ rSize' = IntAt(Opening(nTables), k + 1) /\ k + 4 <= Len(Opening(nTables))
        BY <1>8, <2>1
    <2>3. /\ IntAt(Opening(nTables), 5) = 10 /\ IntAt(Opening(nTables), 19) = 10
          /\ Len(Opening(nTables)) = 32
        BY <1>3, <1>10, PromotedLengths
    <2>4. k \in {4, 18}
        BY <2>1, <2>2, <2>3
    <2>5. rSize' = 10 /\ k + n \in {8, 22}
        BY <1>6, <2>2, <2>3, <2>4
    <2>6. rPos' = "body"
        BY <1>1, <2>5
    <2>7. Place(k + n)'
        BY <1>3, <1>10, <2>5, <2>6 DEF Place
    <2>8. QED
        BY <2>2, <2>7, EarlyPlace
<1>11. CASE nTables = 14 /\ toR = <<>>
    BY <1>1, <1>11 DEF Has
<1>12. CASE nTables = 14 /\ \E i \in 1 .. Len(Transfer) : InRequest(i) /\ Asked(i)
    <2>1. PICK i \in 1 .. Len(Transfer) : InRequest(i) /\ Asked(i)
        BY <1>12
    <2>2. toR # <<>>
        BY <1>1 DEF Has
    <2>3. /\ IntAt(toR, 1) = Len(Encode(Transfer[i])) /\ IntAt(toR, 1) \in Nat
          /\ (rPos' = "body" => Asked(i)' /\ (Whole(i) => Whole(i)'))
        BY <1>1, <1>2, <2>1, RequestLength
    <2>4. rPos' = "body"
        BY <1>1, <2>3
    <2>5. /\ nTables' = nTables /\ entries' = entries /\ sPos' = sPos /\ step' = step
          /\ waiting' = waiting
        BY <1>1 DEF sVars
    <2>6. \/ sPos = "resync" /\ step = i /\ waiting /\ toS = <<>> /\ Whole(i)
          \/ sPos = "dead"
        BY <1>1, <2>1, <2>2 DEF InRequest, Answered
    <2>7. InRequest(i)'
        BY <1>1, <2>3, <2>4, <2>5, <2>6 DEF InRequest
    <2>8. Transfer' = Transfer
        BY <2>5, TransferStays
    <2>9. QED
        BY <1>12, <2>5, <2>7, <2>8 DEF Positions
<1>13. QED
    BY <1>1, <1>9, <1>10, <1>11, <1>12, AtSize

(* A message that stands in b behind the first k bytes is what R reads.    *)
LEMMA ReadStands ==
    ASSUME NEW b \in Seq(Byte), NEW p \in Seq(Byte), NEW k \in Nat, LiesIn(p, b, k),
           NEW e \in Seq(Byte), Stands(b, k + 1, e),
           NEW n \in Nat, Len(e) <= n, n <= Len(e), n <= Len(p)
    PROVE  SubSeq(p, 1, n) = e
<1> DEFINE P == Len(p)
           E == Len(e)
           s == SubSeq(p, 1, n)
           S == Len(s)
<1>1. P \in Nat /\ E \in Nat
    BY LenProperties
<1>2. s \in Seq(Byte) /\ S = n /\ \A i \in 1 .. n : s[i] = p[i]
    BY FrontOf
<1>3. \A i \in 1 .. P : p[i] = b[k + i]
    BY DEF LiesIn
<1>4. \A i \in 1 .. E : b[k + 1 + i - 1] = e[i]
    BY DEF Stands
<1>5. E <= n /\ n <= E /\ n <= P
    OBVIOUS
<1> HIDE DEF P, E, S, s
<1>6. S = E
    BY <1>1, <1>2, <1>5
<1>7. \A i \in 1 .. E : s[i] = e[i]
    <2>1. ASSUME NEW i \in 1 .. E PROVE s[i] = e[i]
        <3>1. i \in 1 .. n /\ i \in 1 .. P /\ k + 1 + i - 1 = k + i
            BY <1>1, <1>5, <2>1
        <3>2. QED
            BY <1>2, <1>3, <1>4, <3>1
    <2>2. QED
        BY <2>1
<1>8. s = e
    <2>1. Len(s) = Len(e) /\ \A i \in 1 .. Len(e) : s[i] = e[i]
        BY <1>6, <1>7 DEF S, E
    <2>2. QED
        BY <1>2, <2>1, SameSequence
<1>9. QED
    BY <1>8 DEF s

(* What R reads decodes to the message that was sent.                      *)
LEMMA ReadDecodes ==
    ASSUME NEW m, Sendable(m)
    PROVE  Decodes(Encode(m)) /\ Decode(Encode(m))[1] = m
<1>1. Decode(Encode(m)) = <<m>> /\ Len(Encode(m)) >= 6
    BY DEF Sendable
<1>2. <<m>> # <<>>
    OBVIOUS
<1>3. QED
    BY <1>1, <1>2 DEF Decodes, NoMessage

LEMMA OpcodeStands ==
    ASSUME NEW m, Sendable(m), NEW b, NEW p \in Int, Stands(b, p, Encode(m))
    PROVE  ShortAt(b, p) = m.opcode
<1> DEFINE e == Encode(m)
           E == Len(e)
<1>1. E \in Nat /\ E >= 6 /\ ShortAt(e, 1) = m.opcode
    BY LengthOfSendable DEF Sendable
<1>2. \A i \in 1 .. E : b[p + i - 1] = e[i]
    BY DEF Stands
<1> HIDE DEF e, E
<1>3. 1 \in 1 .. E /\ 2 \in 1 .. E /\ p + 1 - 1 = p /\ p + 2 - 1 = p + 1 /\ 1 + 1 = 2
    BY <1>1
<1>4. b[p] = e[1] /\ b[p + 1] = e[2]
    BY <1>2, <1>3
<1>5. ShortAt(b, p) = ShortAt(e, 1)
    BY <1>3, <1>4 DEF ShortAt
<1>6. QED
    BY <1>1, <1>5

LEMMA OpcodesDiffer ==
    /\ OC_ACK # OC_SZ_TABLES /\ OC_ACK # OC_PUT /\ OC_HELLO + 1 # OC_ACK
    /\ OC_HELLO + 1 # OC_SZ_TABLES
BY DEF OC_ACK, OC_SZ_TABLES, OC_PUT, OC_HELLO

(* Not in step, what R reads is too long, or no message.                   *)
LEMMA MisreadBody ==
    ASSUME TypeOK, nTables \notin {-1, 14}, NEW k \in Nat, k = 8 + nTables, Early(k),
           rSize = IntAt(Opening(nTables), 5 + nTables), rSize >= 0, Has(rSize)
    PROVE  ~Decodes(SubSeq(toR, 1, rSize)) /\ rSize \in Nat
<1> DEFINE b == Opening(nTables)
           B == Len(b)
           L == Len(toR)
           v == IntAt(b, nTables + 5)
<1>1. nTables \in TableCounts /\ nTables \in Int /\ rSize \in Int
    BY CountsAreNumbers DEF TypeOK, IntRange
<1>2. /\ b \in Seq(Byte) /\ toR \in Seq(Byte) /\ LiesIn(toR, b, k)
      /\ L \in Nat /\ B \in Nat /\ k + L <= B
    BY EarlyTypes
<1>3. v < 0 \/ v > B - (nTables + 8) \/ (nTables = 24 /\ v = 24)
    BY <1>1, FirstLength
<1>4. 5 + nTables = nTables + 5
    BY <1>1
<1>5. rSize = v /\ rSize <= L
    BY <1>4 DEF Has
<1>6. rSize >= 0 /\ k = 8 + nTables
    OBVIOUS
<1>7. nTables = 24 /\ rSize = 24
    <2> HIDE DEF b, B, L, v
    <2>1. QED
        BY <1>1, <1>2, <1>3, <1>5, <1>6
<1>8. \A i \in 1 .. 24 : SubSeq(toR, 1, 24)[i] = b[32 + i]
    <2>1. 24 \in Nat /\ 24 <= L /\ k = 32
        BY <1>1, <1>5, <1>6, <1>7
    <2>2. \A i \in 1 .. 24 : SubSeq(toR, 1, 24)[i] = toR[i]
        BY <1>2, <2>1, FrontOf
    <2>3. \A i \in 1 .. L : toR[i] = b[k + i]
        BY <1>2 DEF LiesIn
    <2>4. ASSUME NEW i \in 1 .. 24 PROVE SubSeq(toR, 1, 24)[i] = b[32 + i]
        <3> HIDE DEF b, L
        <3>1. i \in 1 .. L
            BY <1>2, <2>1
        <3>2. QED
            BY <2>1, <2>2, <2>3, <3>1
    <2>5. QED
        BY <2>4
<1>9. Decode(SubSeq(toR, 1, 24)) = NoMessage
    BY <1>1, <1>7, <1>8, FirstMessage
<1>10. QED
    BY <1>7, <1>9 DEF Decodes

(* What R reads from a promoted server: the reply to HELLO, or an empty    *)
(* list of sizes.                                                          *)
PromotedMessage(k) == IF k = 8 THEN HelloReply ELSE Listed(-1)

LEMMA PromotedStands ==
    ASSUME NEW n \in TableCounts, n = -1, NEW k \in {8, 22}
    PROVE  /\ Sendable(PromotedMessage(k)) /\ Len(Encode(PromotedMessage(k))) = 10
           /\ Encode(PromotedMessage(k)) \in Seq(Byte)
           /\ Stands(Opening(n), k + 1, Encode(PromotedMessage(k)))
<1>1. Sendable(HelloReply) /\ Len(Encode(HelloReply)) = 10
    BY OpcodesAreKnown, ResultIsSendable DEF HelloReply
<1>2. Sendable(Listed(n)) /\ Len(Encode(Listed(n))) = 10
    BY ListedIsSendable, PromotedLengths
<1>3. /\ Stands(Opening(n), 9, Encode(HelloReply))
      /\ Stands(Opening(n), 23, Encode(Listed(n)))
    BY OpeningParts
<1>4. CASE k = 8
    <2>1. k + 1 = 9 /\ PromotedMessage(k) = HelloReply
        BY <1>4 DEF PromotedMessage
    <2>2. QED
        BY <1>1, <1>3, <2>1 DEF Sendable
<1>5. CASE k = 22
    <2>1. k + 1 = 23 /\ PromotedMessage(k) = Listed(n)
        BY <1>5 DEF PromotedMessage
    <2>2. QED
        BY <1>2, <1>3, <2>1 DEF Sendable
<1>6. QED
    BY <1>4, <1>5

LEMMA BodyServed ==
    ASSUME ReadBody, NEW m, Sendable(m), SubSeq(toR, 1, rSize) = Encode(m)
    PROVE  ServeSizes(m) \/ ServeAck(m) \/ ServeOther(m) \/ ServePut(m)
<1>1. Decodes(SubSeq(toR, 1, rSize)) /\ Decode(SubSeq(toR, 1, rSize))[1] = m
    BY ReadDecodes
<1>2. QED
    BY <1>1 DEF ReadBody, ServeSizes, ServeAck, ServeOther, ServePut

LEMMA PromotedServed ==
    ASSUME NEW k \in {8, 22},
           \/ ServeSizes(PromotedMessage(k)) \/ ServeAck(PromotedMessage(k))
           \/ ServeOther(PromotedMessage(k)) \/ ServePut(PromotedMessage(k))
    PROVE  /\ rTables' \in {rTables, 0}
           /\ \/ /\ toS' = Append(toS, "reply") /\ rPos' \in {"size", "dead"}
                 /\ state' = state
              \/ rPos' = "loop" /\ state' = 0 /\ toS' = toS
              \/ rPos' = "dead" /\ toS' = toS /\ state' = state
<1>1. CASE k = 8
    <2> DEFINE m == PromotedMessage(k)
    <2>1. m.table_num = -1 /\ m.opcode = OC_HELLO + 1
        BY <1>1 DEF PromotedMessage, HelloReply, Message
    <2>2. m.opcode # OC_SZ_TABLES /\ m.opcode # OC_ACK
        BY <2>1, OpcodesDiffer
    <2> HIDE DEF m
    <2>3. ServeOther(m)
        BY <2>1, <2>2 DEF ServeSizes, ServeAck, ServePut, m
    <2>4. rTables' = rTables /\ ReplyUnknown
        BY <2>3 DEF ServeOther
    <2>5. QED
        BY <2>4 DEF ReplyUnknown, Reply, UpdateFails
<1>2. CASE k = 22
    <2> DEFINE m == PromotedMessage(k)
    <2>1. m.table_num = -1 /\ m.opcode = OC_SZ_TABLES /\ m.content = <<>>
        BY <1>2 DEF PromotedMessage, Listed, Message
    <2>2. m.opcode # OC_ACK
        BY <2>1, OpcodesDiffer
    <2> HIDE DEF m
    <2>3. ServeSizes(m)
        BY <2>1, <2>2 DEF ServeOther, ServeAck, ServePut, m
    <2>4. rTables' = 0 /\ Reply("size") /\ state' = state
        BY <2>1, <2>3 DEF ServeSizes
    <2>5. QED
        BY <2>4 DEF Reply
<1>3. QED
    BY <1>1, <1>2

(* R takes the i-th request: it holds one pair more.                       *)
LEMMA RequestServed ==
    ASSUME TypeOK, Held(nTables, entries), nTables = 14, NEW i \in 1 .. Len(Transfer),
           Done(i - 1), UNCHANGED sVars,
           \/ ServeSizes(Transfer[i]) \/ ServeAck(Transfer[i])
           \/ ServeOther(Transfer[i]) \/ ServePut(Transfer[i])
    PROVE  /\ Done(i)' /\ rTables' \in Nat /\ state' \in {0, 1}
           /\ toS' = Append(toS, "reply")
           /\ i = Len(Transfer) => rPos' = "loop" \/ (sPos = "dead" /\ rPos' = "dead")
           /\ i # Len(Transfer) => rPos' = "size" \/ (sPos = "dead" /\ rPos' = "dead")
           /\ i = Len(Transfer) => AllDone'
<1> DEFINE m == Transfer[i]
<1>1. /\ nTables' = nTables /\ entries' = entries
    BY DEF sVars
<1>2. nTables \in TableCounts /\ entries \in Seq(Pair) /\ Len(entries) \in Nat
    BY ContentsAreLists DEF TypeOK
<1>3. /\ Transfer = Requests(nTables, entries)
      /\ Len(Transfer) \in Nat /\ Len(Transfer) >= 2
    BY TransferIs
<1>4. Len(Transfer) = 2 + Len(entries)
    BY <1>2, <1>3, RequestsAre
<1>5. rTables \in Nat /\ state \in {0, 1}
    BY DEF TypeOK
<1>6. \/ i = 1 /\ m = Listed(nTables)
      \/ i = Len(Transfer) /\ m = Ack
      \/ \E k \in 1 .. Len(entries) :
            /\ i = k + 1
            /\ m = Message(OC_PUT, CT_ENTRY, entries[k].table,
                           Entry(entries[k].key, entries[k].value))
    BY <1>2, <1>3, RequestIs
<1>7. CASE i = 1 /\ m = Listed(nTables)
    <2>1. /\ m.table_num = -1 /\ m.opcode = OC_SZ_TABLES
          /\ m.content = [t \in 1 .. 14 |-> TableSize]
        BY <1>7 DEF Listed, Message
    <2>2. m.opcode # OC_ACK /\ Len(m.content) = 14
        BY <2>1, OpcodesDiffer
    <2>3. ServeSizes(m)
        <3> HIDE DEF m
        <3>1. QED
            BY <2>1, <2>2 DEF ServeOther, ServeAck, ServePut, m
    <2>4. rTables' = 14 /\ rPairs' = {} /\ Reply("size") /\ state' = state
        BY <2>2, <2>3 DEF ServeSizes
    <2>5. {j \in 1 .. Len(entries) : j < i} = {}
        BY <1>2, <1>7
    <2>6. Done(i)'
        BY <1>1, <2>4, <2>5 DEF Done
    <2>7. i # Len(Transfer)
        <3> DEFINE L == Len(Transfer)
        <3>1. L \in Nat /\ L >= 2 /\ i = 1
            BY <1>3, <1>7
        <3> HIDE DEF L
        <3>2. i # L
            BY <3>1
        <3>3. QED
            BY <3>2 DEF L
    <2>8. QED
        BY <1>5, <2>4, <2>6, <2>7 DEF Reply
<1>8. CASE i = Len(Transfer) /\ m = Ack
    <2>1. m.table_num = -1 /\ m.opcode = OC_ACK
        BY <1>8 DEF Ack, Message
    <2>2. m.opcode # OC_SZ_TABLES
        BY <2>1, OpcodesDiffer
    <2>3. ServeAck(m)
        <3> HIDE DEF m
        <3>1. QED
            BY <2>1, <2>2 DEF ServeOther, ServeSizes, ServePut, m
    <2>4. rTables' = rTables /\ rPairs' = rPairs /\ Reply("loop") /\ state' = 1
        BY <2>3 DEF ServeAck
    <2>5. i - 1 \in Nat /\ i - 1 >= Len(Transfer) - 1
        BY <1>3, <1>8
    <2>6. AllDone
        BY <2>5, DoneAll
    <2>7. {j \in 1 .. Len(entries) : j < i} = 1 .. Len(entries)
        <3> DEFINE L == Len(Transfer)
                   N == Len(entries)
        <3>1. L = 2 + N /\ N \in Nat /\ i = L
            BY <1>2, <1>4, <1>8
        <3> HIDE DEF L, N
        <3>2. {j \in 1 .. N : j < i} = 1 .. N
            BY <3>1
        <3>3. QED
            BY <3>2 DEF N
    <2>8. DOMAIN entries = 1 .. Len(entries)
        BY <1>2
    <2>9. Done(i)
        BY <2>6, <2>7, <2>8 DEF Done, AllDone, Range
    <2>10. Done(i)' /\ AllDone'
        BY <1>1, <2>4, <2>6, <2>9 DEF Done, AllDone
    <2>11. QED
        BY <1>5, <1>8, <2>4, <2>10 DEF Reply
<1>9. ASSUME NEW k \in 1 .. Len(entries), i = k + 1,
             m = Message(OC_PUT, CT_ENTRY, entries[k].table,
                         Entry(entries[k].key, entries[k].value))
      PROVE  /\ Done(i)' /\ i # Len(Transfer) /\ rTables' = rTables /\ state' = state
             /\ toS' = Append(toS, "reply")
             /\ rPos' = "size" \/ (sPos = "dead" /\ rPos' = "dead")
    <2> DEFINE e == entries[k]
    <2>1. e \in Pair
        BY <1>2, ElementOfSeq
    <2>2. e.table \in Nat /\ e = [table |-> e.table, key |-> e.key, value |-> e.value]
        BY <2>1 DEF Pair
    <2>3. /\ m.table_num = e.table /\ m.opcode = OC_PUT
          /\ m.content.key = e.key /\ m.content.value = e.value
        BY <1>9 DEF Message, Entry
    <2>4. e.table < nTables
        BY DEF Held
    <2>5. m.table_num # -1
        BY <2>2, <2>3
    <2>6. ServePut(m)
        <3> HIDE DEF m, e
        <3>1. QED
            BY <2>5 DEF ServeOther, ServeSizes, ServeAck, m
    <2>7. i - 1 = k /\ k >= 1
        BY <1>2, <1>9
    <2>8. rTables = nTables /\ rPairs = {entries[l] : l \in {j \in 1 .. Len(entries) : j < k}}
        BY <2>7 DEF Done
    <2>9. /\ rPairs' = rPairs \cup {[table |-> m.table_num, key |-> m.content.key,
                                     value |-> m.content.value]}
          /\ rTables' = rTables /\ Reply("size") /\ state' = state
        <3> HIDE DEF m, e
        <3>1. m.opcode = OC_PUT /\ m.table_num < rTables
            BY <2>3, <2>4, <2>8
        <3>2. QED
            BY <2>6, <3>1 DEF ServePut
    <2>10. rPairs' = rPairs \cup {e}
        <3> HIDE DEF m, e
        <3>1. QED
            BY <2>2, <2>3, <2>9
    <2>11. {j \in 1 .. Len(entries) : j < i} = {j \in 1 .. Len(entries) : j < k} \cup {k}
        BY <1>2, <1>9
    <2>12. rPairs' = {entries[l] : l \in {j \in 1 .. Len(entries) : j < i}}
        BY <2>8, <2>10, <2>11
    <2>13. Done(i)'
        BY <1>1, <2>8, <2>9, <2>12 DEF Done
    <2>14. i # Len(Transfer)
        <3> DEFINE L == Len(Transfer)
                   N == Len(entries)
        <3>1. L = 2 + N /\ N \in Nat /\ i = k + 1 /\ k \in 1 .. N
            BY <1>2, <1>4, <1>9
        <3> HIDE DEF L, N
        <3>2. i # L
            BY <3>1
        <3>3. QED
            BY <3>2 DEF L
    <2>15. QED
        BY <2>9, <2>13, <2>14 DEF Reply
<1>10. QED
    BY <1>5, <1>6, <1>7, <1>8, <1>9

(* What R has read is the request in front of it, whole.                   *)
LEMMA RequestRead ==
    ASSUME TypeOK, Held(nTables, entries), NEW i \in 1 .. Len(Transfer),
           rPos = "body", Asked(i), Has(rSize), toR' = Rest(rSize)
    PROVE  SubSeq(toR, 1, rSize) = Encode(Transfer[i]) /\ toR' = <<>>
<1> DEFINE e == Encode(Transfer[i])
           E == Len(e)
           L == Len(toR)
           M == Len(toR')
<1>1. Sendable(Transfer[i])
    BY TransferIs
<1>2. e \in Seq(Byte) /\ E \in Nat
    BY <1>1, LengthOfSendable DEF Sendable
<1>3. LiesIn(toR, e, 0) /\ rSize = E /\ toR \in Seq(Byte)
    BY DEF Asked, TypeOK
<1>4. L \in Nat /\ E <= L
    BY <1>3, LenProperties DEF Has
<1>5. 0 + L <= E
    BY <1>3 DEF LiesIn
<1>6. PICK n \in Nat : n = rSize
    BY <1>2, <1>3
<1>7. n = E /\ n \in Nat
    BY <1>3, <1>6
<1>8. E <= n /\ n <= E /\ n <= L /\ L <= n
    <2> HIDE DEF E, L
    <2>1. QED
        BY <1>2, <1>4, <1>5, <1>7
<1>9. SubSeq(toR, 1, rSize) = e
    <2>1. Stands(e, 0 + 1, e)
        BY StandsAtStart
    <2>2. 0 \in Nat /\ n \in Nat /\ Len(e) <= n /\ n <= Len(e) /\ n <= Len(toR)
        BY <1>8
    <2>3. LiesIn(toR, e, 0) /\ toR \in Seq(Byte) /\ e \in Seq(Byte)
        BY <1>2, <1>3
    <2>4. SubSeq(toR, 1, n) = e
        <3> HIDE DEF e
        <3>1. QED
            BY ONLY <2>1, <2>2, <2>3, ReadStands
    <2>5. QED
        BY <1>6, <2>4
<1>10. toR' = <<>>
    <2>1. Has(n) /\ toR' = Rest(n)
        BY <1>6
    <2>2. toR' \in Seq(Byte) /\ M = L - n
        BY <2>1, ReadTypes
    <2>3. M = 0
        <3> HIDE DEF M, L, E
        <3>1. QED
            BY <1>4, <1>8, <2>2
    <2>4. QED
        BY <2>2, <2>3, EmptySeq
<1>11. QED
    BY <1>9, <1>10

LEMMA PromotedRead ==
    ASSUME TypeOK, nTables = -1, rSize = 10, NEW k \in {8, 22}, Early(k), Has(rSize)
    PROVE  SubSeq(toR, 1, rSize) = Encode(PromotedMessage(k))
<1> DEFINE b == Opening(nTables)
           e == Encode(PromotedMessage(k))
<1>1. nTables \in TableCounts
    BY DEF TypeOK
<1>2. e \in Seq(Byte) /\ Len(e) = 10 /\ Stands(b, k + 1, e)
    BY <1>1, PromotedStands
<1>3. k \in Nat /\ Early(k)
    OBVIOUS
<1>4. /\ b \in Seq(Byte) /\ toR \in Seq(Byte) /\ LiesIn(toR, b, k)
    BY <1>3, EarlyTypes
<1>5. PICK n \in Nat : n = 10
    OBVIOUS
<1>6. n \in Nat /\ Len(e) <= n /\ n <= Len(e) /\ n <= Len(toR)
    BY <1>2, <1>5 DEF Has
<1>7. Stands(b, k + 1, e) /\ e \in Seq(Byte)
    BY <1>2
<1>8. SubSeq(toR, 1, n) = e
    <2> HIDE DEF b, e
    <2>1. QED
        BY ONLY <1>3, <1>4, <1>6, <1>7, ReadStands
<1>9. QED
    BY <1>5, <1>8

LEMMA ReadBodyKept ==
    ASSUME RInv, ReadBody
    PROVE  RInv'
<1>1. /\ rPos = "body" /\ Has(rSize) /\ toR' = Rest(rSize) /\ rSize' = rSize
      /\ UNCHANGED sVars
    BY DEF ReadBody
<1>2. TypeOK /\ Held(nTables, entries)
    BY DEF RInv
<1>3. /\ nTables \in TableCounts /\ nTables' = nTables /\ entries' = entries
      /\ sPos' = sPos /\ step' = step /\ waiting' = waiting
    BY <1>1, <1>2 DEF TypeOK, sVars
<1>4. /\ rSize \in IntRange /\ rTables \in Nat /\ state \in {0, 1}
      /\ toS \in Seq({"request", "reply"})
    BY <1>2 DEF TypeOK
<1>5. Append(toS, "reply") \in Seq({"request", "reply"})
    BY <1>4
<1> SUFFICES TypeOK' /\ Positions'
    BY <1>1, InvariantAfterRead
<1>6. CASE /\ nTables \notin {-1, 14} /\ 8 + nTables \in Nat /\ Early(8 + nTables)
           /\ rSize = IntAt(Opening(nTables), 5 + nTables) /\ rSize >= 0
    <2>1. PICK k \in Nat : k = 8 + nTables
        BY <1>6
    <2>2. Early(k)
        BY <1>6, <2>1
    <2>3. ~Decodes(SubSeq(toR, 1, rSize)) /\ rSize \in Nat
        BY <1>1, <1>2, <1>6, <2>1, <2>2, MisreadBody
    <2>4. rPos' = "dead" /\ toS' = toS /\ rTables' = rTables /\ state' = state
        BY <2>3 DEF ReadBody
    <2>5. toR' \in Seq(Byte)
        BY <1>1, <1>2, <2>3, ReadTypes
    <2>6. TypeOK'
        BY <1>1, <1>2, <1>4, <2>4, <2>5, TypesAfterRead
    <2>7. QED
        BY <2>4, <2>6 DEF Positions
<1>7. CASE nTables = -1 /\ rSize = 10 /\ \E k \in {8, 22} : k \in Nat /\ Early(k)
    <2>1. PICK k \in {8, 22} : k \in Nat /\ Early(k)
        BY <1>7
    <2>2. SubSeq(toR, 1, rSize) = Encode(PromotedMessage(k))
        BY <1>1, <1>2, <1>7, <2>1, PromotedRead
    <2>3. Sendable(PromotedMessage(k))
        BY <1>3, <1>7, PromotedStands
    <2>4. /\ rTables' \in {rTables, 0}
          /\ \/ /\ toS' = Append(toS, "reply") /\ rPos' \in {"size", "dead"}
                /\ state' = state
             \/ rPos' = "loop" /\ state' = 0 /\ toS' = toS
             \/ rPos' = "dead" /\ toS' = toS /\ state' = state
        BY <2>2, <2>3, BodyServed, PromotedServed
    <2>5. PICK n \in Nat : n = 10
        OBVIOUS
    <2>6. Has(n) /\ toR' = Rest(n) /\ n \in Nat
        BY <1>1, <1>7, <2>5
    <2>7. toR' \in Seq(Byte)
        BY <1>2, <2>6, ReadTypes
    <2>8. TypeOK'
        <3>1. rTables' \in Nat
            BY <1>4, <2>4
        <3>2. state' \in {0, 1} /\ toS' \in Seq({"request", "reply"})
            BY <1>4, <1>5, <2>4
        <3>3. rPos' \in {"size", "loop", "dead"}
            BY <2>4
        <3>4. QED
            BY <1>1, <1>2, <1>4, <2>7, <3>1, <3>2, <3>3, TypesAfterRead
    <2>9. CASE rPos' = "dead"
        BY <2>8, <2>9 DEF Positions
    <2>10. CASE rPos' = "loop" /\ state' = 0
        BY <1>1, <1>7, <2>8, <2>10, UpdateFailed
    <2>11. CASE rPos' = "size"
        <3>1. rSize = 10 /\ k + 10 \in {18, 32} /\ k >= 5
            BY <1>7, <2>1
        <3>2. k \in Nat /\ Early(k) /\ nTables = -1 /\ k >= 5
            BY <1>7, <2>1, <3>1
        <3>3. Early(k + n)' /\ k + n \in Nat
            BY ONLY <1>1, <1>2, <2>6, <3>2, EarlyRead
        <3>4. k + n \in {18, 32}
            BY <2>5, <3>1
        <3>5. Place(k + n)'
            BY <1>3, <1>7, <2>11, <3>4 DEF Place
        <3>6. QED
            BY <2>8, <3>3, <3>5, EarlyPlace
    <2>12. QED
        BY <2>4, <2>9, <2>10, <2>11
<1>8. CASE nTables = 14 /\ \E i \in 1 .. Len(Transfer) : InRequest(i) /\ Asked(i)
    <2>1. PICK i \in 1 .. Len(Transfer) : InRequest(i) /\ Asked(i)
        BY <1>8
    <2>2. SubSeq(toR, 1, rSize) = Encode(Transfer[i]) /\ toR' = <<>>
        BY <1>1, <1>2, <2>1, RequestRead
    <2>3. Sendable(Transfer[i])
        BY <1>2, TransferIs
    <2>4. \/ ServeSizes(Transfer[i]) \/ ServeAck(Transfer[i])
          \/ ServeOther(Transfer[i]) \/ ServePut(Transfer[i])
        BY <2>2, <2>3, BodyServed
    <2>5. Done(i - 1)
        BY <2>1 DEF Asked
    <2>6. /\ Done(i)' /\ rTables' \in Nat /\ state' \in {0, 1}
          /\ toS' = Append(toS, "reply")
          /\ i = Len(Transfer) => rPos' = "loop" \/ (sPos = "dead" /\ rPos' = "dead")
          /\ i # Len(Transfer) => rPos' = "size" \/ (sPos = "dead" /\ rPos' = "dead")
          /\ i = Len(Transfer) => AllDone'
        BY <1>1, <1>2, <1>8, <2>4, <2>5, RequestServed
    <2>7. Transfer' = Transfer
        BY <1>3, TransferStays
    <2>8. TypeOK'
        <3>1. rPos' \in {"loop", "size", "dead"} /\ toR' \in Seq(Byte)
            BY <2>2, <2>6, EmptySeq
        <3>2. QED
            BY <1>1, <1>2, <1>4, <1>5, <2>6, <3>1, TypesAfterRead
    <2>9. CASE rPos' = "dead"
        BY <2>8, <2>9 DEF Positions
    <2>10. CASE rPos' # "dead" /\ sPos = "dead"
        <3>1. Over'
            BY <1>3, <2>2, <2>6, <2>10 DEF Over
        <3>2. QED
            BY <1>3, <1>8, <2>8, <3>1 DEF Positions
    <2>11. CASE rPos' # "dead" /\ sPos # "dead"
        <3>1. sPos = "resync" /\ step = i /\ waiting /\ toS = <<>>
            BY <1>1, <2>1, <2>11 DEF InRequest, Answered
        <3>2. toS' = <<"reply">>
            BY <2>6, <3>1
        <3>3. Answered(i)'
            BY <2>2, <2>6, <2>7, <2>11 DEF Answered
        <3>4. InRequest(i)'
            BY <1>3, <3>1, <3>2, <3>3 DEF InRequest
        <3>5. QED
            BY <1>3, <1>8, <2>7, <2>8, <3>4 DEF Positions
    <2>12. QED
        BY <2>9, <2>10, <2>11
<1>9. QED
    BY <1>1, <1>6, <1>7, <1>8, AtBody

(* A part of a message is taken for an ack only if it is one.              *)
LEMMA TornAck ==
    ASSUME RInv, rPos = "body", Len(toR) >= 6, ShortAt(toR, 1) = OC_ACK
    PROVE  nTables = 14 /\ AllDone
<1>1. TypeOK /\ Held(nTables, entries)
    BY DEF RInv
<1>2. nTables \in TableCounts /\ toR \in Seq(Byte) /\ entries \in Contents
    BY <1>1 DEF TypeOK
<1>3. ASSUME NEW k \in Nat, Early(k)
      PROVE  ShortAt(Opening(nTables), k + 1) = OC_ACK
    BY <1>1, <1>2, <1>3, EarlyTypes, LiesNumbers
<1>4. ~(nTables \notin {-1, 14} /\ 8 + nTables \in Nat /\ Early(8 + nTables))
    <2> SUFFICES ASSUME nTables \notin {-1, 14}, 8 + nTables \in Nat, Early(8 + nTables)
                 PROVE  FALSE
        OBVIOUS
    <2>1. ShortAt(Opening(nTables), (8 + nTables) + 1) = OC_ACK
        BY <1>3
    <2>2. (8 + nTables) + 1 = nTables + 9
        BY <1>2, CountsAreNumbers
    <2>3. QED
        BY <1>2, <2>1, <2>2, FirstOpcode
<1>5. ~(nTables = -1 /\ \E k \in {8, 22} : k \in Nat /\ Early(k))
    <2> SUFFICES ASSUME nTables = -1, NEW k \in {8, 22}, k \in Nat, Early(k)
                 PROVE  FALSE
        OBVIOUS
    <2>1. ShortAt(Opening(nTables), k + 1) = OC_ACK
        BY <1>3
    <2>2. Sendable(PromotedMessage(k)) /\ k + 1 \in Int
        BY <1>2, PromotedStands
    <2>3. ShortAt(Opening(nTables), k + 1) = PromotedMessage(k).opcode
        BY <1>2, <2>2, PromotedStands, OpcodeStands
    <2>4. PromotedMessage(k).opcode \in {OC_HELLO + 1, OC_SZ_TABLES}
        BY DEF PromotedMessage, HelloReply, Listed, Message
    <2>5. QED
        BY <2>1, <2>3, <2>4, OpcodesDiffer
<1>6. ASSUME NEW i \in 1 .. Len(Transfer), Asked(i), nTables = 14
      PROVE  AllDone
    <2> DEFINE e == Encode(Transfer[i])
    <2>1. LiesIn(toR, e, 0) /\ Done(i - 1)
        BY <1>6 DEF Asked
    <2>2. Sendable(Transfer[i])
        BY <1>1, TransferIs
    <2>3. e \in Seq(Byte) /\ ShortAt(e, 1) = Transfer[i].opcode
        BY <2>2 DEF Sendable
    <2>4. ShortAt(toR, 1) = ShortAt(e, 0 + 1)
        BY <1>2, <2>1, <2>3, LiesNumbers
    <2>5. Transfer[i].opcode = OC_ACK
        BY <2>3, <2>4
    <2>6. Transfer = Requests(nTables, entries) /\ Len(Transfer) \in Nat
        BY <1>1, TransferIs
    <2>7. \/ i = Len(Transfer)
          \/ Transfer[i].opcode \in {OC_SZ_TABLES, OC_PUT}
        <3> DEFINE m == Transfer[i]
        <3>1. \/ m = Listed(nTables) \/ i = Len(Transfer)
              \/ \E k \in 1 .. Len(entries) :
                    m = Message(OC_PUT, CT_ENTRY, entries[k].table,
                                Entry(entries[k].key, entries[k].value))
            BY <1>1, <1>2, <2>6, RequestIs
        <3>2. Listed(nTables).opcode = OC_SZ_TABLES
            BY DEF Listed, Message
        <3>3. \A t, c : Message(OC_PUT, CT_ENTRY, t, c).opcode = OC_PUT
            BY DEF Message
        <3> HIDE DEF m
        <3>4. i = Len(Transfer) \/ m.opcode \in {OC_SZ_TABLES, OC_PUT}
            BY <3>1, <3>2, <3>3
        <3>5. QED
            BY <3>4 DEF m
    <2>8. i - 1 \in Nat /\ i - 1 >= Len(Transfer) - 1
        BY <2>5, <2>6, <2>7, OpcodesDiffer
    <2>9. QED
        BY <1>1, <1>6, <2>1, <2>8, DoneAll
<1>7. QED
    BY <1>4, <1>5, <1>6, AtBody

LEMMA UpdateEndsKept ==
    ASSUME RInv, UpdateEnds
    PROVE  RInv'
<1>1. /\ sPos = "dead" /\ toR' = <<>> /\ UNCHANGED sVars /\ toS' = toS /\ rSize' = rSize
      /\ rTables' = rTables
      /\ \/ rPos' = "loop" /\ state' = 0
         \/ rPos' = "dead" /\ state' = state
         \/ rPos' = "size" /\ state' = state
         \/ /\ rPos = "body" /\ Len(toR) >= 6 /\ ShortAt(toR, 1) = OC_ACK
            /\ rPos' = "loop" /\ state' = 1 /\ rPairs' = rPairs
    BY DEF UpdateEnds, UpdateFails, AtEnd
<1>2. TypeOK
    BY DEF RInv
<1>3. TypeOK'
    <2>1. rPos' \in {"loop", "dead", "size"} /\ state' \in {state, 0, 1}
        BY <1>1
    <2>2. QED
        BY <1>1, <1>2, <2>1, EmptySeq, TypesAfterRead DEF TypeOK
<1>4. CASE rPos' = "loop" /\ state' = 0
    BY <1>1, <1>3, <1>4, UpdateFailed, InvariantAfterRead
<1>5. CASE rPos' = "dead"
    <2>1. Positions'
        BY <1>5 DEF Positions
    <2>2. QED
        BY <1>1, <1>3, <2>1, InvariantAfterRead
<1>6. CASE rPos' = "size"
    BY <1>1, <1>2, <1>3, <1>6, SizeAtEnd, InvariantAfterRead
<1>7. CASE /\ rPos = "body" /\ Len(toR) >= 6 /\ ShortAt(toR, 1) = OC_ACK
           /\ rPos' = "loop" /\ state' = 1 /\ rPairs' = rPairs
    <2>1. nTables = 14 /\ AllDone
        BY <1>7, TornAck
    <2>2. nTables' = nTables /\ entries' = entries /\ sPos' = sPos
        BY <1>1 DEF sVars
    <2>3. Positions'
        BY <1>1, <1>7, <2>1, <2>2 DEF Positions, Over, AllDone
    <2>4. QED
        BY <1>1, <1>3, <2>3, InvariantAfterRead
<1>8. QED
    BY <1>1, <1>4, <1>5, <1>6, <1>7
-----------------------------------------------------------------------------
(* The theorems of the recovery.                                           *)

LEMMA RecoveryStarts == Init => RInv
<1> SUFFICES ASSUME Init PROVE RInv
    OBVIOUS
<1>1. /\ nTables \in TableCounts /\ entries \in Contents
      /\ \A e \in Range(entries) : e.table < nTables \/ nTables = -1
      /\ sPos = "accept" /\ step = 1 /\ waiting = FALSE /\ toR = <<>> /\ toS = <<>>
      /\ rPos = "start" /\ rSize = 0 /\ rTables = 0 /\ state = 1
    BY DEF Init
<1>2. entries \in Seq(Pair) /\ Len(entries) \in Nat
    BY <1>1, ContentsAreLists
<1>3. \A k \in 1 .. Len(entries) : entries[k] \in Range(entries)
    BY <1>2 DEF Range
<1>4. Held(nTables, entries)
    BY <1>1, <1>3 DEF Held
<1>5. Transfer = Requests(nTables, entries)
    BY DEF Transfer, Requests, SzTables, Sizes, Puts, Listed, PutsOf
<1>6. Len(Transfer) \in Nat /\ Len(Transfer) >= 2
    <2> DEFINE L == Len(Transfer)
               N == Len(entries)
    <2>1. L = (IF nTables = -1 THEN 2 ELSE 2 + N) /\ N \in Nat
        BY <1>1, <1>2, <1>4, <1>5, RequestsAre
    <2> HIDE DEF L, N
    <2>2. L \in Nat /\ L >= 2
        BY <2>1
    <2>3. QED
        BY <2>2 DEF L
<1>7. TypeOK
    <2>1. 0 \in IntRange
        BY SmallNumbers
    <2>2. step \in 1 .. Len(Transfer) + 1
        BY <1>1, <1>6
    <2>3. toR \in Seq(Byte) /\ toS \in Seq({"request", "reply"})
        BY <1>1, EmptySeq
    <2>4. QED
        BY <1>1, <2>1, <2>2, <2>3 DEF TypeOK
<1>8. Positions
    BY <1>1 DEF Positions, Untouched
<1>9. QED
    BY <1>1, <1>4, <1>6, <1>7, <1>8 DEF RInv

LEMMA RecoveryKept == RInv /\ [Next]_vars => RInv'
<1> SUFFICES ASSUME RInv, [Next]_vars PROVE RInv'
    OBVIOUS
<1>1. CASE Accept
    BY <1>1, AcceptKept
<1>2. CASE ServeHello
    BY <1>2, ServeHelloKept
<1>3. CASE Request
    BY <1>3, RequestKept
<1>4. CASE TakeReply
    BY <1>4, TakeReplyKept
<1>5. CASE RequestFails
    BY <1>5, RequestFailsKept
<1>6. CASE Hello
    BY <1>6, HelloKept
<1>7. CASE HelloFails
    BY <1>7, HelloFailsKept
<1>8. CASE ReadHelloSize
    BY <1>8, ReadHelloSizeKept
<1>9. CASE ReadHelloBody
    BY <1>9, ReadHelloBodyKept
<1>10. CASE HelloEnds
    BY <1>10, HelloEndsKept
<1>11. CASE ReadSize
    BY <1>11, ReadSizeKept
<1>12. CASE ReadBody
    BY <1>12, ReadBodyKept
<1>13. CASE UpdateEnds
    BY <1>13, UpdateEndsKept
<1>14. CASE SurvivorCrash
    BY <1>14, SurvivorCrashKept
<1>15. CASE RestartedCrash
    BY <1>15, RestartedCrashKept
<1>16. CASE UNCHANGED vars
    <2>1. UNCHANGED <<nTables, entries, sPos, step, waiting, toR, toS, rPos, rSize,
                      rTables, rPairs, state>>
        BY <1>16 DEF vars, sVars, rVars
    <2>2. Transfer' = Transfer
        BY <2>1, TransferStays
    <2>3. TypeOK'
        BY <2>1, <2>2 DEF RInv, TypeOK
    <2>4. Positions'
        <3>1. UNCHANGED rVars
            BY <2>1 DEF rVars
        <3>2. Untouched => Untouched'
            BY <2>1 DEF Untouched
        <3>3. \A k \in Nat : Early(k) => Early(k)'
            BY <2>1 DEF Early
        <3>4. \A i \in 1 .. Len(Transfer) : InRequest(i) => InRequest(i)'
            BY <2>1, <2>2 DEF InRequest, Asked, Whole, Answered, Done, Frame
        <3>5. Over => Over'
            BY <2>1 DEF Over, AllDone
        <3>6. Positions
            BY DEF RInv
        <3>7. QED
            BY <2>1, <3>1, <3>2, <3>3, <3>4, <3>5, <3>6, PositionsStay
    <2>5. QED
        BY <2>1, <2>3, <2>4, InvariantAfter DEF RInv
<1>17. QED
    BY <1>1, <1>2, <1>3, <1>4, <1>5, <1>6, <1>7, <1>8, <1>9, <1>10, <1>11, <1>12,
       <1>13, <1>14, <1>15, <1>16 DEF Next, SStep, RStep

LEMMA RecoveryAlways == Spec => []RInv
BY RecoveryStarts, RecoveryKept, PTL DEF Spec

(* The variables of both servers have their types: in particular, no       *)
(* request is sent beyond the last one, and what is left of the stream,    *)
(* from wherever R reads it, is a sequence of bytes.                       *)
THEOREM RecoveryTypes == Spec => []TypeOK
<1>1. RInv => TypeOK
    BY DEF RInv
<1>2. QED
    BY <1>1, RecoveryAlways, PTL

LEMMA UpdatedInStep ==
    ASSUME RInv, rPos = "loop", state = 1
    PROVE  nTables = 14 /\ AllDone
<1>1. TypeOK /\ Held(nTables, entries) /\ Positions
    BY DEF RInv
<1>2. ASSUME NEW i \in 1 .. Len(Transfer), nTables = 14, InRequest(i) PROVE AllDone
    <2>1. Answered(i)
        BY <1>2 DEF InRequest, Asked
    <2>2. i = Len(Transfer) /\ Done(i)
        BY <2>1 DEF Answered
    <2>3. i \in Nat /\ i >= Len(Transfer) - 1
        BY <1>1, <2>2, TransferIs
    <2>4. QED
        BY <1>1, <1>2, <2>2, <2>3, DoneAll
<1>3. Over => AllDone
    BY DEF Over
<1>4. \A k \in Nat : ~Place(k)
    BY DEF Place
<1>5. QED
    BY <1>1, <1>2, <1>3, <1>4 DEF Positions

(* When update_state reports success, the restarted server holds the       *)
(* tables of the survivor, all of them: for every number of tables and all *)
(* they may hold, wherever R misread the stream, and wherever S has died   *)
(* (primary_backup.c:40-49).                                               *)
THEOREM UpdatedTablesAreSame == Spec => []UpdatedIsSame
<1>1. RInv => UpdatedIsSame
    BY UpdatedInStep DEF UpdatedIsSame, AllDone
<1>2. QED
    BY <1>1, RecoveryAlways, PTL

(* update_state reports success only if the survivor has as many tables as *)
(* its reply to HELLO has bytes: its greeting, the number of its tables,   *)
(* is read as the length of that reply (network_server_init writes it,     *)
(* network_send_receive does not expect it).  With any other number of     *)
(* tables a restarted server never recovers them.                          *)
THEOREM OnlyInStepRecovers == Spec => [](rPos = "loop" /\ state = 1 => InStep)
<1>1. Len(Frame(HelloReply)) = 14
    <2>1. Sendable(HelloReply) /\ Len(Encode(HelloReply)) = 10
        BY OpcodesAreKnown, ResultIsSendable DEF HelloReply
    <2>2. Len(Frame(HelloReply)) = 4 + Len(Encode(HelloReply))
        BY <2>1, FrameParts
    <2>3. QED
        BY <2>1, <2>2
<1>2. RInv => (rPos = "loop" /\ state = 1 => InStep)
    BY <1>1, UpdatedInStep DEF InStep
<1>3. QED
    BY <1>2, RecoveryAlways, PTL
=============================================================================
