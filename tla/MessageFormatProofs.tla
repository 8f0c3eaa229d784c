------------------------ MODULE MessageFormatProofs ------------------------
(***************************************************************************)
(* What the operators of MessageFormat compute, for numbers and sequences  *)
(* of any length that the fields of a message can hold.                    *)
(***************************************************************************)
EXTENDS MessageFormat, SequenceTheorems, WellFoundedInduction, TLAPS

-----------------------------------------------------------------------------
(* Numbers as bytes.                                                       *)

LEMMA ByteIsNumber ==
    ASSUME NEW x \in Byte
    PROVE  x \in Int /\ 0 <= x /\ x <= 255
BY SMT DEF Byte

LEMMA ShortBytesTypes ==
    ASSUME NEW x \in Int
    PROVE  /\ ShortBytes(x) \in Seq(Byte) /\ Len(ShortBytes(x)) = 2
           /\ ShortBytes(x)[1] = (x \div 256) % 256
           /\ ShortBytes(x)[2] = x % 256
<1>1. (x \div 256) % 256 \in Byte /\ x % 256 \in Byte
    BY DEF Byte
<1> DEFINE h == (x \div 256) % 256
           l == x % 256
<1> HIDE DEF h, l
<1>2. <<h, l>> \in Seq(Byte) /\ Len(<<h, l>>) = 2 /\ <<h, l>>[1] = h /\ <<h, l>>[2] = l
    BY <1>1 DEF h, l
<1>3. QED
    BY <1>2 DEF ShortBytes, h, l

LEMMA IntBytesTypes ==
    ASSUME NEW x \in Int
    PROVE  IntBytes(x) \in Seq(Byte) /\ Len(IntBytes(x)) = 4
<1>1. /\ (x \div 16777216) % 256 \in Byte /\ (x \div 65536) % 256 \in Byte
      /\ (x \div 256) % 256 \in Byte /\ x % 256 \in Byte
    BY SMT DEF Byte
<1>2. ASSUME NEW b1 \in Byte, NEW b2 \in Byte, NEW b3 \in Byte, NEW b4 \in Byte
      PROVE  <<b1, b2, b3, b4>> \in Seq(Byte) /\ Len(<<b1, b2, b3, b4>>) = 4
    OBVIOUS
<1>3. QED
    BY <1>1, <1>2, SMT DEF IntBytes

(* A short is read back with its sign, wherever in a buffer it stands.     *)
LEMMA ShortReadBack ==
    ASSUME NEW x \in ShortRange, NEW b, NEW p \in Int,
           b[p] = ShortBytes(x)[1], b[p + 1] = ShortBytes(x)[2]
    PROVE  ShortAt(b, p) = x
<1>1. x \in Int /\ -32768 <= x /\ x <= 32767
    BY DEF ShortRange
<1>2. b[p] = (x \div 256) % 256 /\ b[p + 1] = x % 256
    BY <1>1, ShortBytesTypes
<1>3. x = 256 * (x \div 256) + (x % 256) /\ x % 256 \in 0 .. 255 /\ x \div 256 \in Int
    BY <1>1
<1>4. x \div 256 \in -128 .. 127
    BY <1>1, <1>3
<1>5. Signed((x \div 256) % 256) = x \div 256
    BY <1>4 DEF Signed
<1>6. QED
    BY <1>2, <1>3, <1>5 DEF ShortAt

(* So is an int. *)
LEMMA IntReadBack ==
    ASSUME NEW x \in IntRange, NEW b, NEW p \in Int,
           b[p] = IntBytes(x)[1], b[p + 1] = IntBytes(x)[2],
           b[p + 2] = IntBytes(x)[3], b[p + 3] = IntBytes(x)[4]
    PROVE  IntAt(b, p) = x
<1> DEFINE q1 == x \div 256
           q2 == x \div 65536
           q3 == x \div 16777216
<1>1. x \in Int /\ -2147483648 <= x /\ x <= 2147483647
    BY SMT DEF IntRange
<1>2. /\ b[p] = q3 % 256 /\ b[p + 1] = q2 % 256
      /\ b[p + 2] = q1 % 256 /\ b[p + 3] = x % 256
    BY SMT DEF IntBytes
<1>3. /\ q1 \in Int /\ 256 * q1 <= x /\ x < 256 * q1 + 256
      /\ q2 \in Int /\ 65536 * q2 <= x /\ x < 65536 * q2 + 65536
      /\ q3 \in Int /\ 16777216 * q3 <= x /\ x < 16777216 * q3 + 16777216
    BY <1>1, SMT
<1>4. x % 256 = x - 256 * q1
    BY <1>1, SMT
<1> HIDE DEF q1, q2, q3
<1>5. q1 % 256 = q1 - 256 * q2
    <2>1. 256 * q2 <= q1 /\ q1 < 256 * q2 + 256
        BY <1>1, <1>3, SMT
    <2>2. QED
        BY <1>3, <2>1, SMT
<1>6. q2 % 256 = q2 - 256 * q3
    <2>1. 256 * q3 <= q2 /\ q2 < 256 * q3 + 256
        BY <1>1, <1>3, SMT
    <2>2. QED
        BY <1>3, <2>1, SMT
<1>7. Signed(q3 % 256) = q3
    <2>1. q3 \in -128 .. 127
        BY <1>1, <1>3, SMT
    <2>2. QED
        BY <2>1, SMT DEF Signed
<1>8. QED
    BY <1>1, <1>2, <1>3, <1>4, <1>5, <1>6, <1>7, SMT DEF IntAt

(* What is read as an int is one. *)
LEMMA IntAtTypes ==
    ASSUME NEW b \in Seq(Byte), NEW p \in 1 .. Len(b) - 3
    PROVE  IntAt(b, p) \in IntRange
<1>1. /\ b[p] \in Byte /\ b[p + 1] \in Byte /\ b[p + 2] \in Byte /\ b[p + 3] \in Byte
    <2>1. Len(b) \in Nat
        BY LenProperties
    <2>2. /\ p \in 1 .. Len(b) /\ p + 1 \in 1 .. Len(b)
          /\ p + 2 \in 1 .. Len(b) /\ p + 3 \in 1 .. Len(b)
        BY <2>1
    <2>3. QED
        BY <2>2, ElementOfSeq
<1>2. /\ b[p] \in Int /\ 0 <= b[p] /\ b[p] <= 255
      /\ b[p + 1] \in Int /\ 0 <= b[p + 1] /\ b[p + 1] <= 255
      /\ b[p + 2] \in Int /\ 0 <= b[p + 2] /\ b[p + 2] <= 255
      /\ b[p + 3] \in Int /\ 0 <= b[p + 3] /\ b[p + 3] <= 255
    BY <1>1, ByteIsNumber
<1> DEFINE s == Signed(b[p])
<1>3. s \in Int /\ -128 <= s /\ s <= 127
    BY <1>2, SMT DEF Signed
<1>4. IntAt(b, p) = s * 16777216 + b[p + 1] * 65536 + b[p + 2] * 256 + b[p + 3]
    BY SMT DEF IntAt
<1> HIDE DEF s
<1>5. /\ IntAt(b, p) \in Int /\ -2147483648 <= IntAt(b, p)
      /\ IntAt(b, p) <= 2147483647
    <2> DEFINE x2 == b[p + 1]
               x3 == b[p + 2]
               x4 == b[p + 3]
               n == IntAt(b, p)
    <2>1. /\ n = s * 16777216 + x2 * 65536 + x3 * 256 + x4
          /\ x2 \in Int /\ 0 <= x2 /\ x2 <= 255 /\ x3 \in Int /\ 0 <= x3 /\ x3 <= 255
          /\ x4 \in Int /\ 0 <= x4 /\ x4 <= 255
        BY <1>2, <1>4, SMT
    <2> HIDE DEF x2, x3, x4, n
    <2>2. n \in Int /\ -2147483648 <= n /\ n <= 2147483647
        BY <1>3, <2>1, SMT
    <2>3. QED
        BY <2>2, SMT DEF n
<1>6. QED
    BY <1>5, SMT DEF IntRange

-----------------------------------------------------------------------------
(* Pieces of a buffer.                                                     *)

(* The sequence s stands in b at the position p. *)
Stands(b, p, s) == \A i \in 1 .. Len(s) : b[p + i - 1] = s[i]

LEMMA StandsAtStart == ASSUME NEW s PROVE Stands(s, 1, s)
<1> SUFFICES ASSUME NEW i \in 1 .. Len(s) PROVE s[1 + i - 1] = s[i]
    BY DEF Stands
<1>1. 1 + i - 1 = i
    OBVIOUS
<1>2. QED
    BY <1>1

LEMMA TwoParts ==
    ASSUME NEW S, NEW s \in Seq(S), NEW t \in Seq(S)
    PROVE  s \o t \in Seq(S) /\ Len(s \o t) = Len(s) + Len(t)
BY ConcatProperties

LEMMA StandsInParts ==
    ASSUME NEW S, NEW s \in Seq(S), NEW t \in Seq(S), NEW b, NEW p \in Int,
           Stands(b, p, s \o t)
    PROVE  Stands(b, p, s) /\ Stands(b, p + Len(s), t)
<1>1. /\ Len(s) \in Nat /\ Len(t) \in Nat /\ Len(s \o t) = Len(s) + Len(t)
      /\ \A i \in 1 .. Len(s) + Len(t) :
            (s \o t)[i] = IF i <= Len(s) THEN s[i] ELSE t[i - Len(s)]
    BY ConcatProperties, LenProperties
<1>2. ASSUME NEW i \in 1 .. Len(s) PROVE b[p + i - 1] = s[i]
    <2>1. i \in 1 .. Len(s) + Len(t) /\ i <= Len(s)
        BY <1>1
    <2>2. QED
        BY <1>1, <2>1 DEF Stands
<1>3. ASSUME NEW i \in 1 .. Len(t) PROVE b[(p + Len(s)) + i - 1] = t[i]
    <2>1. /\ Len(s) + i \in 1 .. Len(s) + Len(t) /\ ~(Len(s) + i <= Len(s))
          /\ Len(s) + i - Len(s) = i /\ p + (Len(s) + i) - 1 = (p + Len(s)) + i - 1
        BY <1>1
    <2>2. b[p + (Len(s) + i) - 1] = (s \o t)[Len(s) + i]
        BY <1>1, <2>1 DEF Stands
    <2>3. QED
        BY <1>1, <2>1, <2>2
<1>4. QED
    BY <1>2, <1>3 DEF Stands

LEMMA ThreeParts ==
    ASSUME NEW S, NEW s1 \in Seq(S), NEW s2 \in Seq(S), NEW s3 \in Seq(S)
    PROVE  /\ (s1 \o s2) \o s3 \in Seq(S)
           /\ Len((s1 \o s2) \o s3) = Len(s1) + Len(s2) + Len(s3)
<1>1. s1 \o s2 \in Seq(S) /\ Len(s1 \o s2) = Len(s1) + Len(s2)
    BY TwoParts
<1> DEFINE s == s1 \o s2
<1> HIDE DEF s
<1>2. s \o s3 \in Seq(S) /\ Len(s \o s3) = Len(s) + Len(s3)
    BY <1>1, TwoParts DEF s
<1>3. QED
    BY <1>1, <1>2 DEF s

LEMMA StandsInThreeParts ==
    ASSUME NEW S, NEW s1 \in Seq(S), NEW s2 \in Seq(S), NEW s3 \in Seq(S),
           NEW b, NEW p \in Int, Stands(b, p, (s1 \o s2) \o s3)
    PROVE  /\ Stands(b, p, s1) /\ Stands(b, p + Len(s1), s2)
           /\ Stands(b, p + (Len(s1) + Len(s2)), s3)
<1>1. s1 \o s2 \in Seq(S) /\ Len(s1 \o s2) = Len(s1) + Len(s2)
    BY TwoParts
<1>2. Stands(b, p, s1 \o s2) /\ Stands(b, p + Len(s1 \o s2), s3)
    <2> DEFINE s == s1 \o s2
    <2>1. s \in Seq(S) /\ Stands(b, p, s \o s3)
        BY <1>1
    <2> HIDE DEF s
    <2>2. Stands(b, p, s) /\ Stands(b, p + Len(s), s3)
        BY <2>1, StandsInParts
    <2>3. QED
        BY <2>2 DEF s
<1>3. Stands(b, p, s1) /\ Stands(b, p + Len(s1), s2)
    BY <1>2, StandsInParts
<1>4. QED
    BY <1>1, <1>2, <1>3

LEMMA ShortStands ==
    ASSUME NEW x \in ShortRange, NEW b, NEW p \in Int, Stands(b, p, ShortBytes(x))
    PROVE  ShortAt(b, p) = x
<1>1. x \in Int
    BY DEF ShortRange
<1>2. Len(ShortBytes(x)) = 2
    BY <1>1, ShortBytesTypes
<1>3. p + 1 - 1 = p /\ p + 2 - 1 = p + 1 /\ 1 \in 1 .. 2 /\ 2 \in 1 .. 2
    OBVIOUS
<1>4. b[p] = ShortBytes(x)[1] /\ b[p + 1] = ShortBytes(x)[2]
    BY <1>2, <1>3 DEF Stands
<1>5. QED
    BY <1>4, ShortReadBack

LEMMA IntStands ==
    ASSUME NEW x \in IntRange, NEW b, NEW p \in Int, Stands(b, p, IntBytes(x))
    PROVE  IntAt(b, p) = x
<1>1. x \in Int
    BY SMT DEF IntRange
<1>2. Len(IntBytes(x)) = 4
    BY <1>1, IntBytesTypes
<1>3. /\ p + 1 - 1 = p /\ p + 2 - 1 = p + 1 /\ p + 3 - 1 = p + 2 /\ p + 4 - 1 = p + 3
      /\ 1 \in 1 .. 4 /\ 2 \in 1 .. 4 /\ 3 \in 1 .. 4 /\ 4 \in 1 .. 4
    OBVIOUS
<1>4. /\ b[p] = IntBytes(x)[1] /\ b[p + 1] = IntBytes(x)[2]
      /\ b[p + 2] = IntBytes(x)[3] /\ b[p + 3] = IntBytes(x)[4]
    BY <1>2, <1>3 DEF Stands
<1>5. QED
    BY <1>4, IntReadBack

LEMMA BytesStand ==
    ASSUME NEW S, NEW s \in Seq(S), NEW b, NEW p \in Int, Stands(b, p, s)
    PROVE  BytesAt(b, p, Len(s)) = s
<1> DEFINE e == p + Len(s) - 1
           piece == SubSeq(b, p, e)
<1>1. Len(s) \in Nat
    BY LenProperties
<1>2. e \in Int /\ e - p + 1 = Len(s)
    BY <1>1
<1>3. ASSUME NEW i \in p .. e PROVE b[i] \in S
    <2>1. i - p + 1 \in 1 .. Len(s) /\ p + (i - p + 1) - 1 = i
        BY <1>1
    <2>2. b[i] = s[i - p + 1]
        BY <2>1 DEF Stands
    <2>3. QED
        BY <2>1, <2>2, ElementOfSeq
<1> HIDE DEF e
<1>4. /\ piece \in Seq(S)
      /\ Len(piece) = IF p <= e THEN e - p + 1 ELSE 0
      /\ \A i \in 1 .. e - p + 1 : piece[i] = b[p + i - 1]
    BY <1>2, <1>3, SubSeqProperties
<1>5. Len(piece) = Len(s)
    BY <1>1, <1>2, <1>4
<1>6. \A i \in 1 .. Len(piece) : piece[i] = s[i]
    BY <1>2, <1>4, <1>5 DEF Stands
<1>7. piece = s
    BY <1>4, <1>5, <1>6, SeqEqual
<1>8. QED
    BY <1>7 DEF BytesAt, e

-----------------------------------------------------------------------------
(* The parts of a message.                                                 *)

LEMMA KeyBytesTypes ==
    ASSUME NEW key \in Seq(Byte)
    PROVE  KeyBytes(key) \in Seq(Byte) /\ Len(KeyBytes(key)) = 2 + Len(key)
<1>1. Len(key) \in Int
    BY LenProperties
<1>2. ShortBytes(Len(key)) \in Seq(Byte) /\ Len(ShortBytes(Len(key))) = 2
    BY <1>1, ShortBytesTypes
<1> DEFINE s == ShortBytes(Len(key))
<1> HIDE DEF s
<1>3. s \o key \in Seq(Byte) /\ Len(s \o key) = Len(s) + Len(key)
    BY <1>2, TwoParts DEF s
<1>4. QED
    BY <1>2, <1>3 DEF KeyBytes, s

LEMMA DataBytesTypes ==
    ASSUME NEW data \in Seq(Byte)
    PROVE  DataBytes(data) \in Seq(Byte) /\ Len(DataBytes(data)) = 4 + Len(data)
<1>1. Len(data) \in Int
    BY LenProperties
<1>2. IntBytes(Len(data)) \in Seq(Byte) /\ Len(IntBytes(Len(data))) = 4
    BY <1>1, IntBytesTypes
<1> DEFINE s == IntBytes(Len(data))
<1> HIDE DEF s
<1>3. s \o data \in Seq(Byte) /\ Len(s \o data) = Len(s) + Len(data)
    BY <1>2, TwoParts DEF s
<1>4. QED
    BY <1>2, <1>3 DEF DataBytes, s

(* The size of a key is a short. *)
KeyFits(key) == Len(key) \in ShortRange

(* A key that fits is read back, with its size. *)
LEMMA KeyStands ==
    ASSUME NEW key \in Seq(Byte), KeyFits(key), NEW b, NEW p \in Int,
           Stands(b, p, KeyBytes(key))
    PROVE  ShortAt(b, p) = Len(key) /\ BytesAt(b, p + 2, Len(key)) = key
<1>1. Len(key) \in Nat
    BY LenProperties
<1>2. ShortBytes(Len(key)) \in Seq(Byte) /\ Len(ShortBytes(Len(key))) = 2
    BY <1>1, ShortBytesTypes
<1>3. Stands(b, p, ShortBytes(Len(key))) /\ Stands(b, p + 2, key)
    <2> DEFINE s == ShortBytes(Len(key))
    <2>1. Stands(b, p, s \o key) /\ s \in Seq(Byte)
        BY <1>2 DEF KeyBytes
    <2> HIDE DEF s
    <2>2. Stands(b, p, s) /\ Stands(b, p + Len(s), key)
        BY ONLY <2>1, key \in Seq(Byte), p \in Int, StandsInParts
    <2>3. QED
        BY <1>2, <2>2 DEF s
<1>4. Len(key) \in ShortRange
    BY DEF KeyFits
<1>5. QED
    BY <1>3, <1>4, ShortStands, BytesStand

(* So is a struct data_t. *)
LEMMA DataStands ==
    ASSUME NEW data \in Seq(Byte), Len(data) \in IntRange, NEW b, NEW p \in Int,
           Stands(b, p, DataBytes(data))
    PROVE  IntAt(b, p) = Len(data) /\ BytesAt(b, p + 4, Len(data)) = data
<1>1. Len(data) \in Nat
    BY LenProperties
<1>2. IntBytes(Len(data)) \in Seq(Byte) /\ Len(IntBytes(Len(data))) = 4
    BY <1>1, IntBytesTypes
<1>3. Stands(b, p, IntBytes(Len(data))) /\ Stands(b, p + 4, data)
    <2> DEFINE s == IntBytes(Len(data))
    <2>1. Stands(b, p, s \o data) /\ s \in Seq(Byte)
        BY <1>2 DEF DataBytes
    <2> HIDE DEF s
    <2>2. Stands(b, p, s) /\ Stands(b, p + Len(s), data)
        BY ONLY <2>1, data \in Seq(Byte), p \in Int, StandsInParts
    <2>3. QED
        BY <1>2, <2>2 DEF s
<1>4. QED
    BY <1>3, IntStands, BytesStand

LEMMA HeaderTypes ==
    ASSUME NEW m, m.opcode \in Int, m.c_type \in Int, m.table_num \in Int
    PROVE  Header(m) \in Seq(Byte) /\ Len(Header(m)) = 6
<1> DEFINE s1 == ShortBytes(m.opcode)
           s2 == ShortBytes(m.c_type)
           s3 == ShortBytes(m.table_num)
<1>1. s1 \in Seq(Byte) /\ s2 \in Seq(Byte) /\ s3 \in Seq(Byte)
    BY ShortBytesTypes
<1>2. Len(s1) = 2 /\ Len(s2) = 2 /\ Len(s3) = 2
    BY ShortBytesTypes
<1>3. Header(m) = (s1 \o s2) \o s3
    BY DEF Header
<1> HIDE DEF s1, s2, s3
<1>4. /\ (s1 \o s2) \o s3 \in Seq(Byte)
      /\ Len((s1 \o s2) \o s3) = Len(s1) + Len(s2) + Len(s3)
    BY ONLY <1>1, ThreeParts
<1>5. QED
    BY <1>2, <1>3, <1>4

LEMMA HeaderStands ==
    ASSUME NEW m, NEW b, m.opcode \in ShortRange, m.c_type \in ShortRange,
           m.table_num \in ShortRange, Stands(b, 1, Header(m))
    PROVE  /\ ShortAt(b, 1) = m.opcode /\ ShortAt(b, 3) = m.c_type
           /\ ShortAt(b, 5) = m.table_num
<1> DEFINE s1 == ShortBytes(m.opcode)
           s2 == ShortBytes(m.c_type)
           s3 == ShortBytes(m.table_num)
<1>1. m.opcode \in Int /\ m.c_type \in Int /\ m.table_num \in Int
    BY DEF ShortRange
<1>2. s1 \in Seq(Byte) /\ s2 \in Seq(Byte) /\ s3 \in Seq(Byte)
    BY <1>1, ShortBytesTypes
<1>2a. Len(s1) = 2 /\ Len(s2) = 2 /\ Len(s3) = 2
    BY <1>1, ShortBytesTypes
<1>3. Stands(b, 1, (s1 \o s2) \o s3)
    BY DEF Header
<1>4. Stands(b, 1, s1) /\ Stands(b, 3, s2) /\ Stands(b, 5, s3)
    <2> HIDE DEF s1, s2, s3
    <2>1. /\ Stands(b, 1, s1) /\ Stands(b, 1 + Len(s1), s2)
          /\ Stands(b, 1 + (Len(s1) + Len(s2)), s3)
        BY ONLY <1>2, <1>3, StandsInThreeParts
    <2>2. QED
        BY <1>2a, <2>1
<1>5. QED
    BY <1>4, ShortStands

-----------------------------------------------------------------------------
(* Induction.  The library's theorem takes the property as an operator;    *)
(* here it is a set of numbers, which the provers can be given.            *)

LEMMA NumbersByInduction ==
    ASSUME NEW S, 0 \in S, \A n \in Nat : n \in S => n + 1 \in S
    PROVE  Nat \subseteq S
<1> DEFINE T == Nat \ S
           R == OpToRel(<, Nat)
<1> SUFFICES ASSUME T # {} PROVE FALSE
    OBVIOUS
<1>1. IsWellFoundedOn(R, Nat) /\ T \subseteq Nat
    BY NatLessThanWellFounded
<1> HIDE DEF R
<1>2. \E x \in T : \A y \in T : ~(<<y, x>> \in R)
    BY <1>1, WFMin
<1>3. PICK x \in T : \A y \in T : ~(<<y, x>> \in R)
    BY <1>2
<1>4. x \in Nat /\ x # 0 /\ x - 1 \in Nat /\ (x - 1) + 1 = x /\ x - 1 < x
    OBVIOUS
<1>5. <<x - 1, x>> \in R
    BY <1>4 DEF R, OpToRel
<1>6. x - 1 \in S
    BY <1>3, <1>4, <1>5
<1>7. QED
    BY <1>4, <1>6

(* f is computed from its value at 0 by one step after the other. *)
Steps(f, base, step, n) ==
    f[0] = base /\ \A i \in 1 .. n : f[i] = step[<<f[i - 1], i>>]

(* A function defined by its steps exists. *)
LEMMA RecursionExists ==
    ASSUME NEW S, NEW base \in S, NEW N \in Nat, NEW step \in [S \X (1 .. N) -> S]
    PROVE  \E f \in [0 .. N -> S] : Steps(f, base, step, N)
<1> DEFINE I == {n \in Nat : n <= N =>
                                \E f \in [0 .. n -> S] : Steps(f, base, step, n)}
<1>1. 0 \in I
    <2>1. [i \in 0 .. 0 |-> base] \in [0 .. 0 -> S]
        OBVIOUS
    <2>2. Steps([i \in 0 .. 0 |-> base], base, step, 0)
        BY DEF Steps
    <2>3. QED
        BY <2>1, <2>2
<1>2. ASSUME NEW n \in Nat, n \in I PROVE n + 1 \in I
    <2> SUFFICES ASSUME n + 1 <= N
                 PROVE  \E f \in [0 .. n + 1 -> S] : Steps(f, base, step, n + 1)
        OBVIOUS
    <2>1. PICK f \in [0 .. n -> S] : Steps(f, base, step, n)
        BY <1>2
    <2> DEFINE last == step[<<f[n], n + 1>>]
               g == [i \in 0 .. n + 1 |-> IF i <= n THEN f[i] ELSE last]
    <2>2. last \in S
        <3>1. <<f[n], n + 1>> \in S \X (1 .. N)
            OBVIOUS
        <3>2. QED
            BY <3>1
    <2> HIDE DEF last
    <2>3. g \in [0 .. n + 1 -> S]
        BY <2>2
    <2>4. \A i \in 0 .. n : g[i] = f[i]
        OBVIOUS
    <2>5. g[n + 1] = last
        OBVIOUS
    <2> HIDE DEF g
    <2>6. g[0] = base
        BY <2>1, <2>4 DEF Steps
    <2>7. ASSUME NEW i \in 1 .. n + 1 PROVE g[i] = step[<<g[i - 1], i>>]
        <3>1. CASE i <= n
            <4>1. i \in 0 .. n /\ i - 1 \in 0 .. n /\ i \in 1 .. n
                BY <3>1
            <4>2. g[i] = f[i] /\ g[i - 1] = f[i - 1] /\ f[i] = step[<<f[i - 1], i>>]
                BY <2>1, <2>4, <4>1 DEF Steps
            <4>3. QED
                BY <4>2
        <3>2. CASE ~(i <= n)
            <4>1. i = n + 1 /\ i - 1 = n /\ n \in 0 .. n
                BY <3>2
            <4>2. g[i - 1] = f[n] /\ g[i] = last
                BY <2>4, <2>5, <4>1
            <4>3. QED
                BY <4>1, <4>2 DEF last
        <3>3. QED
            BY <3>1, <3>2
    <2>8. QED
        BY <2>3, <2>6, <2>7 DEF Steps
<1> HIDE DEF I
<1>3. Nat \subseteq I
    BY <1>1, <1>2, NumbersByInduction
<1>4. N \in I
    BY <1>3
<1>5. QED
    BY <1>4 DEF I

(* What steps do not leave, none of their values leaves. *)
LEMMA StepsStay ==
    ASSUME NEW S, NEW N \in Nat, NEW f, f[0] \in S,
           \A i \in 1 .. N : f[i - 1] \in S => f[i] \in S
    PROVE  \A i \in 0 .. N : f[i] \in S
<1> DEFINE I == {n \in Nat : n <= N => f[n] \in S}
<1>1. 0 \in I
    OBVIOUS
<1>2. ASSUME NEW n \in Nat, n \in I PROVE n + 1 \in I
    <2> SUFFICES ASSUME n + 1 <= N PROVE f[n + 1] \in S
        OBVIOUS
    <2>1. n + 1 \in 1 .. N /\ (n + 1) - 1 = n /\ f[n] \in S
        BY <1>2
    <2>2. QED
        BY <2>1
<1> HIDE DEF I
<1>3. Nat \subseteq I
    BY <1>1, <1>2, NumbersByInduction
<1>4. QED
    BY <1>3 DEF I

(* What KeysSize adds up. *)
SizeSteps(size, keys) ==
    /\ size \in [0 .. Len(keys) -> Nat]
    /\ size[0] = 0
    /\ \A j \in 1 .. Len(keys) : size[j] = size[j - 1] + 2 + Len(keys[j])

LEMMA KeysSizeSteps ==
    ASSUME NEW keys \in Seq(Seq(Byte))
    PROVE  \E size : SizeSteps(size, keys) /\ KeysSize(keys) = size[Len(keys)]
<1> DEFINE N == Len(keys)
           Eq(u) == u = [j \in 0 .. N |->
                            IF j = 0 THEN 0 ELSE u[j - 1] + 2 + Len(keys[j])]
           step == [q \in Nat \X (1 .. N) |-> q[1] + 2 + Len(keys[q[2]])]
           size == CHOOSE u : Eq(u)
<1>1. KeysSize(keys) = size[N]
    BY DEF KeysSize
<1>2. N \in Nat /\ \A j \in 1 .. N : Len(keys[j]) \in Nat
    BY ElementOfSeq, LenProperties
<1>3. \E u : Eq(u)
    <2>1. step \in [Nat \X (1 .. N) -> Nat]
        BY <1>2
    <2>2. \A x \in Nat, j \in 1 .. N : step[<<x, j>>] = x + 2 + Len(keys[j])
        OBVIOUS
    <2> HIDE DEF step, N
    <2>3. PICK f \in [0 .. N -> Nat] : Steps(f, 0, step, N)
        BY <1>2, <2>1, RecursionExists
    <2>4. f[0] = 0 /\ \A j \in 1 .. N : f[j] = f[j - 1] + 2 + Len(keys[j])
        <3>1. ASSUME NEW j \in 1 .. N PROVE f[j] = f[j - 1] + 2 + Len(keys[j])
            <4>1. j - 1 \in 0 .. N
                BY <1>2
            <4>2. f[j - 1] \in Nat /\ f[j] = step[<<f[j - 1], j>>]
                BY <2>3, <4>1 DEF Steps
            <4>3. QED
                BY <2>2, <4>2
        <3>2. QED
            BY <2>3, <3>1 DEF Steps
    <2>5. Eq(f)
        <3>1. ASSUME NEW j \in 0 .. N
              PROVE  f[j] = IF j = 0 THEN 0 ELSE f[j - 1] + 2 + Len(keys[j])
            <4>1. j # 0 => j \in 1 .. N
                OBVIOUS
            <4>2. QED
                BY <2>4, <4>1
        <3>2. QED
            BY <2>3, <3>1
    <2>6. QED
        BY <2>5
<1>4. Eq(size)
    BY <1>3
<1> HIDE DEF size, N
<1>5. size[0] = 0 /\ \A j \in 1 .. N : size[j] = size[j - 1] + 2 + Len(keys[j])
    <2>1. \A j \in 0 .. N :
             size[j] = IF j = 0 THEN 0 ELSE size[j - 1] + 2 + Len(keys[j])
        BY <1>4
    <2>2. 0 \in 0 .. N /\ \A j \in 1 .. N : j \in 0 .. N /\ j # 0
        BY <1>2
    <2>3. QED
        BY <2>1, <2>2
<1>6. \A j \in 0 .. N : size[j] \in Nat
    <2>1. ASSUME NEW j \in 1 .. N, size[j - 1] \in Nat PROVE size[j] \in Nat
        <3>1. size[j] = size[j - 1] + 2 + Len(keys[j]) /\ Len(keys[j]) \in Nat
            BY <1>2, <1>5
        <3> DEFINE x == size[j - 1]
                   l == Len(keys[j])
        <3>2. x \in Nat /\ l \in Nat /\ size[j] = x + 2 + l
            BY <2>1, <3>1
        <3> HIDE DEF x, l
        <3>3. QED
            BY <3>2
    <2>2. N \in Nat /\ size[0] \in Nat
        BY <1>2, <1>5
    <2>3. \A j \in 1 .. N : size[j - 1] \in Nat => size[j] \in Nat
        BY <2>1
    <2>4. QED
        BY ONLY <2>2, <2>3, StepsStay
<1>7. size \in [0 .. N -> Nat]
    <2>1. size = [j \in 0 .. N |-> size[j]]
        BY <1>4
    <2>2. QED
        BY <1>6, <2>1
<1>8. QED
    BY <1>1, <1>5, <1>7 DEF SizeSteps, N

(* What FlattenSeq joins. *)
FlatSteps(flat, s) ==
    /\ flat[0] = <<>>
    /\ \A j \in 0 .. Len(s) : flat[j] \in Seq(Byte)
    /\ \A j \in 1 .. Len(s) : flat[j] = flat[j - 1] \o s[j]

LEMMA EmptyFirst ==
    ASSUME NEW S, NEW s \in Seq(S) PROVE <<>> \o s = s
BY ConcatEmptySeq

LEMMA FlattenSteps ==
    ASSUME NEW s \in Seq(Seq(Byte))
    PROVE  \E flat : FlatSteps(flat, s) /\ FlattenSeq(s) = flat[Len(s)]
<1> DEFINE N == Len(s)
           T == Seq(Byte)
           Eq(u) == u = [j \in 1 .. N |-> IF j = 1 THEN s[j] ELSE u[j - 1] \o s[j]]
           step == [q \in T \X (1 .. N) |-> q[1] \o s[q[2]]]
<1>1. N \in Nat /\ \A j \in 1 .. N : s[j] \in T
    BY ElementOfSeq, LenProperties
<1>2. <<>> \in T
    BY EmptySeq
<1>3. \A x, y \in T : x \o y \in T
    BY ConcatProperties
<1>4. step \in [T \X (1 .. N) -> T] /\ \A x \in T, j \in 1 .. N : step[<<x, j>>] = x \o s[j]
    <2> HIDE DEF T, N
    <2>1. QED
        BY <1>1, <1>3
<1> HIDE DEF step, T, N
<1>5. PICK f \in [0 .. N -> T] : Steps(f, <<>>, step, N)
    BY <1>1, <1>2, <1>4, RecursionExists
<1>6. \A j \in 1 .. N : f[j] = f[j - 1] \o s[j]
    <2>1. TAKE j \in 1 .. N
    <2>2. j - 1 \in 0 .. N
        BY <1>1
    <2>3. f[j - 1] \in T /\ f[j] = step[<<f[j - 1], j>>]
        BY <1>5, <2>2 DEF Steps
    <2>4. QED
        BY <1>4, <2>3
<1>7. FlatSteps(f, s)
    BY <1>5, <1>6 DEF FlatSteps, Steps, T, N
<1>8. FlattenSeq(s) = f[N]
    <2>1. CASE N = 0
        <3>1. FlattenSeq(s) = s
            BY <2>1 DEF FlattenSeq, N
        <3>2. s = <<>>
            BY <2>1, EmptySeq DEF N
        <3>3. QED
            BY <1>5, <2>1, <3>1, <3>2 DEF Steps
    <2>2. CASE N # 0
        <3> DEFINE g == CHOOSE u : Eq(u)
        <3>1. FlattenSeq(s) = g[N]
            BY <2>2 DEF FlattenSeq, N
        <3>2. Eq([j \in 1 .. N |-> f[j]])
            <4> DEFINE h == [j \in 1 .. N |-> f[j]]
            <4>1. ASSUME NEW j \in 1 .. N
                  PROVE  f[j] = IF j = 1 THEN s[j] ELSE h[j - 1] \o s[j]
                <5>1. CASE j = 1
                    <6>1. f[1] = f[0] \o s[1] /\ s[1] \in T
                        <7>1. 1 \in 1 .. N /\ 1 - 1 = 0
                            BY <5>1
                        <7>2. f[1] = f[1 - 1] \o s[1]
                            BY <1>6, <7>1
                        <7>3. QED
                            BY <1>1, <7>1, <7>2
                    <6>2. f[0] = <<>>
                        BY <1>5 DEF Steps
                    <6>3. QED
                        BY <5>1, <6>1, <6>2, EmptyFirst DEF T
                <5>2. CASE j # 1
                    <6>1. j - 1 \in 1 .. N
                        BY <1>1, <5>2
                    <6>2. h[j - 1] = f[j - 1]
                        BY <6>1
                    <6>3. QED
                        BY <1>6, <5>2, <6>2
                <5>3. QED
                    BY <5>1, <5>2
            <4>2. QED
                BY <4>1
        <3>3. Eq(g)
            BY <3>2
        <3> HIDE DEF g
        <3>4. \A j \in 1 .. N : g[j] = f[j]
            <4> DEFINE I == {n \in Nat : n + 1 <= N => g[n + 1] = f[n + 1]}
            <4>1. \A j \in 1 .. N : g[j] = IF j = 1 THEN s[j] ELSE g[j - 1] \o s[j]
                BY <3>3
            <4>2. 0 \in I
                <5>1. 1 \in 1 .. N
                    BY <1>1, <2>2
                <5>2. g[1] = s[1] /\ s[1] \in T
                    BY <1>1, <4>1, <5>1
                <5>3. f[1] = f[0] \o s[1] /\ f[0] = <<>>
                    <6>1. 1 - 1 = 0
                        OBVIOUS
                    <6>2. f[1] = f[1 - 1] \o s[1]
                        BY <1>6, <5>1
                    <6>3. f[0] = <<>>
                        BY <1>5 DEF Steps
                    <6>4. QED
                        BY <6>1, <6>2, <6>3
                <5>4. f[1] = s[1]
                    BY <5>2, <5>3, EmptyFirst DEF T
                <5>5. QED
                    BY <5>2, <5>4
            <4>3. ASSUME NEW n \in Nat, n \in I PROVE n + 1 \in I
                <5> SUFFICES ASSUME (n + 1) + 1 <= N PROVE g[(n + 1) + 1] = f[(n + 1) + 1]
                    OBVIOUS
                <5>1. /\ (n + 1) + 1 \in 1 .. N /\ (n + 1) + 1 # 1
                      /\ ((n + 1) + 1) - 1 = n + 1 /\ g[n + 1] = f[n + 1]
                    BY <1>1, <4>3
                <5> DEFINE k == (n + 1) + 1
                <5>2. k \in 1 .. N /\ k # 1 /\ g[k - 1] = f[k - 1]
                    BY <5>1
                <5> HIDE DEF k
                <5>3. g[k] = g[k - 1] \o s[k] /\ f[k] = f[k - 1] \o s[k]
                    BY <1>6, <4>1, <5>2
                <5>4. QED
                    BY <5>2, <5>3 DEF k
            <4> HIDE DEF I
            <4>4. Nat \subseteq I
                BY <4>2, <4>3, NumbersByInduction
            <4>5. TAKE j \in 1 .. N
            <4>6. j - 1 \in I /\ (j - 1) + 1 = j
                BY <1>1, <4>4
            <4>7. QED
                BY <1>1, <4>6 DEF I
        <3>5. QED
            BY <1>1, <2>2, <3>1, <3>4
    <2>3. QED
        BY <2>1, <2>2
<1>9. QED
    BY <1>7, <1>8 DEF N

-----------------------------------------------------------------------------
(* A list of keys.                                                         *)

ListBytes(keys) == FlattenSeq([j \in 1 .. Len(keys) |-> KeyBytes(keys[j])])

(* The list with the first j of its keys, as bytes, and how many these are. *)
ListSteps(keys, flat, size) ==
    /\ flat[0] = <<>> /\ size[0] = 0
    /\ \A j \in 0 .. Len(keys) :
          flat[j] \in Seq(Byte) /\ Len(flat[j]) = size[j] /\ size[j] \in Nat
    /\ \A j \in 1 .. Len(keys) : flat[j] = flat[j - 1] \o KeyBytes(keys[j])
    /\ \A j \in 1 .. Len(keys) : size[j] = size[j - 1] + 2 + Len(keys[j])

LEMMA KeysAreBytes ==
    ASSUME NEW keys \in Seq(Seq(Byte))
    PROVE  \E flat, size : /\ ListSteps(keys, flat, size)
                           /\ ListBytes(keys) = flat[Len(keys)]
                           /\ KeysSize(keys) = size[Len(keys)]
<1> DEFINE N == Len(keys)
           s == [j \in 1 .. N |-> KeyBytes(keys[j])]
<1>1. N \in Nat /\ \A j \in 1 .. N : keys[j] \in Seq(Byte)
    BY ElementOfSeq, LenProperties
<1>2. \A j \in 1 .. N : /\ KeyBytes(keys[j]) \in Seq(Byte)
                        /\ Len(KeyBytes(keys[j])) = 2 + Len(keys[j])
    BY <1>1, KeyBytesTypes
<1>3. s \in Seq(Seq(Byte)) /\ Len(s) = N
    <2> HIDE DEF N
    <2>1. s \in [1 .. N -> Seq(Byte)]
        BY <1>2
    <2> HIDE DEF s
    <2>2. s \in Seq(Seq(Byte))
        BY <1>1, <2>1
    <2>3. DOMAIN s = 1 .. N /\ DOMAIN s = 1 .. Len(s) /\ Len(s) \in Nat
        BY <2>1, <2>2, LenProperties
    <2>4. QED
        BY <1>1, <2>2, <2>3
<1>4. PICK flat : FlatSteps(flat, s) /\ FlattenSeq(s) = flat[Len(s)]
    <2> HIDE DEF s
    <2>1. QED
        BY <1>3, FlattenSteps
<1>5. PICK size : SizeSteps(size, keys) /\ KeysSize(keys) = size[N]
    BY KeysSizeSteps
<1>6. \A j \in 1 .. N : flat[j] = flat[j - 1] \o KeyBytes(keys[j])
    BY <1>3, <1>4 DEF FlatSteps
<1>7. /\ flat[0] = <<>> /\ \A j \in 0 .. N : flat[j] \in Seq(Byte)
      /\ ListBytes(keys) = flat[N]
    BY <1>3, <1>4 DEF FlatSteps, ListBytes
<1>8. /\ size[0] = 0 /\ \A j \in 0 .. N : size[j] \in Nat
      /\ \A j \in 1 .. N : size[j] = size[j - 1] + 2 + Len(keys[j])
    BY <1>5 DEF SizeSteps
<1> HIDE DEF N, s
<1>9. \A j \in 0 .. N : Len(flat[j]) = size[j]
    <2> DEFINE I == {n \in Nat : n <= N => Len(flat[n]) = size[n]}
    <2>1. 0 \in I
        BY <1>7, <1>8, EmptySeq
    <2>2. ASSUME NEW n \in Nat, n \in I PROVE n + 1 \in I
        <3> SUFFICES ASSUME n + 1 <= N PROVE Len(flat[n + 1]) = size[n + 1]
            OBVIOUS
        <3>1. n + 1 \in 1 .. N /\ n \in 0 .. N /\ (n + 1) - 1 = n
            BY <1>1
        <3>2. Len(flat[n]) = size[n]
            BY <2>2, <3>1
        <3> DEFINE j == n + 1
                   k == KeyBytes(keys[j])
        <3>3. /\ flat[j] = flat[n] \o k /\ size[j] = size[n] + 2 + Len(keys[j])
              /\ k \in Seq(Byte) /\ Len(k) = 2 + Len(keys[j]) /\ keys[j] \in Seq(Byte)
            BY <1>1, <1>2, <1>6, <1>8, <3>1
        <3> HIDE DEF k, j
        <3>4. flat[n] \in Seq(Byte)
            BY <1>7, <3>1
        <3>5. Len(flat[n] \o k) = Len(flat[n]) + Len(k)
            BY ONLY <3>3, <3>4, ConcatProperties
        <3>6. Len(keys[j]) \in Nat /\ size[n] \in Nat
            BY <1>8, <3>1, <3>3, LenProperties
        <3> DEFINE a == Len(flat[n] \o k)
                   c == Len(k)
                   l == Len(keys[j])
                   x == size[n]
                   y == size[j]
        <3>7. /\ a = x + c /\ y = x + 2 + l /\ c = 2 + l /\ l \in Nat /\ x \in Nat
              /\ Len(flat[j]) = a
            BY <3>2, <3>3, <3>5, <3>6
        <3> HIDE DEF a, c, l, x, y
        <3>8. a = y
            BY ONLY <3>7
        <3>9. QED
            BY <3>7, <3>8 DEF j, y
    <2> HIDE DEF I
    <2>3. Nat \subseteq I
        BY <2>1, <2>2, NumbersByInduction
    <2>4. QED
        BY <1>1, <2>3 DEF I
<1>10. ListSteps(keys, flat, size)
    BY <1>6, <1>7, <1>8, <1>9 DEF ListSteps, N
<1>11. QED
    BY <1>5, <1>7, <1>10 DEF N

(* What message_to_buffer counts for a list is what it writes. *)
LEMMA ListBytesTypes ==
    ASSUME NEW keys \in Seq(Seq(Byte))
    PROVE  ListBytes(keys) \in Seq(Byte) /\ Len(ListBytes(keys)) = KeysSize(keys)
<1>1. PICK flat, size : /\ ListSteps(keys, flat, size)
                        /\ ListBytes(keys) = flat[Len(keys)]
                        /\ KeysSize(keys) = size[Len(keys)]
    BY KeysAreBytes
<1>2. Len(keys) \in 0 .. Len(keys)
    BY LenProperties
<1>3. QED
    BY <1>1, <1>2 DEF ListSteps

LEMMA OneKeyRead ==
    ASSUME NEW b, NEW r
    PROVE  (CHOOSE next \in {WithKeyAt(b, x) : x \in {r}} : TRUE) = WithKeyAt(b, r)
<1>1. {WithKeyAt(b, x) : x \in {r}} = {WithKeyAt(b, r)}
    OBVIOUS
<1>2. QED
    BY <1>1

(* KeyList has read the first j keys. *)
ReadAfter(b, p, u, j) ==
    IF j = 0 THEN [keys |-> <<>>, at |-> p]
    ELSE CHOOSE next \in {WithKeyAt(b, r) : r \in {u[j - 1]}} : TRUE

Reads(b, p, u, n) == u = [j \in 0 .. n |-> ReadAfter(b, p, u, j)]

LEMMA ReadsByKey ==
    ASSUME NEW b, NEW p, NEW u, NEW n
    PROVE  Reads(b, p, u, n) <=>
               u = [j \in 0 .. n |-> u[j]] /\ \A j \in 0 .. n : u[j] = ReadAfter(b, p, u, j)
<1>1. ASSUME NEW A(_), u = [j \in 0 .. n |-> A(j)]
      PROVE  u = [j \in 0 .. n |-> u[j]] /\ \A j \in 0 .. n : u[j] = A(j)
    BY <1>1
<1>2. ASSUME NEW A(_), u = [j \in 0 .. n |-> u[j]], \A j \in 0 .. n : u[j] = A(j)
      PROVE  u = [j \in 0 .. n |-> A(j)]
    BY <1>2
<1>3. QED
    BY <1>1, <1>2 DEF Reads

LEMMA KeyListReads ==
    ASSUME NEW b, NEW p, NEW n
    PROVE  KeyList(b, p, n) =
               IF n > 0 THEN (CHOOSE u : Reads(b, p, u, n))[n].keys ELSE <<>>
BY DEF KeyList, Reads, ReadAfter

(* A list of keys that fit is read back, key by key. *)
LEMMA ListStands ==
    ASSUME NEW keys \in Seq(Seq(Byte)), \A j \in 1 .. Len(keys) : KeyFits(keys[j]),
           NEW b, NEW p \in Int, Stands(b, p, ListBytes(keys))
    PROVE  KeyList(b, p, Len(keys)) = keys
<1> DEFINE N == Len(keys)
           read == CHOOSE u : Reads(b, p, u, N)
<1>1. N \in Nat /\ \A j \in 1 .. N : keys[j] \in Seq(Byte)
    BY ElementOfSeq, LenProperties
<1>2. KeyList(b, p, N) = IF N > 0 THEN read[N].keys ELSE <<>>
    BY KeyListReads
<1>3. PICK flat, size : /\ ListSteps(keys, flat, size)
                        /\ ListBytes(keys) = flat[N]
    BY KeysAreBytes
<1> HIDE DEF read
<1>4. \A j \in 0 .. N : flat[j] \in Seq(Byte)
    BY <1>3 DEF ListSteps
<1>4a. \A j \in 0 .. N : Len(flat[j]) = size[j] /\ size[j] \in Nat
    BY <1>3 DEF ListSteps
<1>5. \A j \in 1 .. N : flat[j] = flat[j - 1] \o KeyBytes(keys[j])
    BY <1>3 DEF ListSteps
<1>6. size[0] = 0 /\ \A j \in 1 .. N : size[j] = size[j - 1] + 2 + Len(keys[j])
    BY <1>3 DEF ListSteps
<1> DEFINE First(j) == SubSeq(keys, 1, j)
           Read(j) == [keys |-> First(j), at |-> p + size[j]]
           after == [j \in 0 .. N |-> Read(j)]
<1> HIDE DEF N, Read
<1>7. \A j \in 0 .. N : Stands(b, p, flat[j])
    <2> DEFINE I == {k \in Nat : k <= N => Stands(b, p, flat[N - k])}
    <2>1. 0 \in I
        BY <1>1, <1>3
    <2>2. ASSUME NEW k \in Nat, k \in I PROVE k + 1 \in I
        <3> SUFFICES ASSUME k + 1 <= N PROVE Stands(b, p, flat[N - (k + 1)])
            OBVIOUS
        <3> DEFINE j == N - k
                   i == N - (k + 1)
        <3>1. j \in 1 .. N /\ i \in 0 .. N /\ j - 1 = i
            BY <1>1
        <3>2. Stands(b, p, flat[j])
            BY <1>1, <2>2
        <3> HIDE DEF i, j
        <3>3. flat[j] = flat[i] \o KeyBytes(keys[j]) /\ flat[i] \in Seq(Byte)
            <4>1. flat[j] = flat[j - 1] \o KeyBytes(keys[j])
                BY <1>5, <3>1
            <4>2. flat[i] \in Seq(Byte)
                BY <1>4, <3>1
            <4>3. QED
                BY <3>1, <4>1, <4>2
        <3>4. KeyBytes(keys[j]) \in Seq(Byte)
            BY <1>1, <3>1, KeyBytesTypes
        <3> DEFINE t == KeyBytes(keys[j])
                   s == flat[i]
        <3>5. s \in Seq(Byte) /\ t \in Seq(Byte) /\ Stands(b, p, s \o t) /\ p \in Int
            BY <3>2, <3>3, <3>4
        <3> HIDE DEF s, t
        <3>6. Stands(b, p, s)
            BY ONLY <3>5, StandsInParts
        <3>7. QED
            BY <3>6 DEF s, i
    <2> HIDE DEF I
    <2>3. Nat \subseteq I
        BY <2>1, <2>2, NumbersByInduction
    <2>4. TAKE j \in 0 .. N
    <2>5. N - j \in I /\ N - (N - j) = j /\ N - j <= N
        BY <1>1, <2>3
    <2>6. QED
        BY <2>5 DEF I
<1>8. ASSUME NEW j \in 1 .. N
      PROVE  /\ ShortAt(b, p + size[j - 1]) = Len(keys[j])
             /\ BytesAt(b, (p + size[j - 1]) + 2, Len(keys[j])) = keys[j]
    <2> DEFINE s == flat[j - 1]
               key == keys[j]
               t == KeyBytes(key)
    <2>1. j - 1 \in 0 .. N /\ j \in 0 .. N
        BY <1>1
    <2>2. s \in Seq(Byte) /\ Len(s) = size[j - 1] /\ size[j - 1] \in Nat
        BY <1>4, <1>4a, <2>1
    <2>3. Stands(b, p, s \o t)
        <3>1. flat[j] = s \o t
            BY <1>5
        <3>2. Stands(b, p, flat[j])
            BY <1>7, <2>1
        <3>3. QED
            BY <3>1, <3>2, Zenon
    <2>4. key \in Seq(Byte) /\ KeyFits(key)
        BY <1>1 DEF N
    <2>5. t \in Seq(Byte)
        BY <2>4, KeyBytesTypes
    <2>6. Stands(b, p + Len(s), t)
        <3> HIDE DEF s, t
        <3>1. s \in Seq(Byte) /\ t \in Seq(Byte) /\ p \in Int
            BY <2>2, <2>5
        <3>2. QED
            BY ONLY <2>3, <3>1, StandsInParts
    <2> DEFINE q == p + size[j - 1]
    <2>7. q \in Int /\ Stands(b, q, KeyBytes(key))
        BY <2>2, <2>6
    <2> HIDE DEF q, key
    <2>8. ShortAt(b, q) = Len(key) /\ BytesAt(b, q + 2, Len(key)) = key
        BY ONLY <2>4, <2>7, KeyStands
    <2>9. QED
        BY <2>8 DEF q, key
<1>9. /\ First(0) = <<>> /\ First(N) = keys
      /\ \A j \in 1 .. N : Append(First(j - 1), keys[j]) = First(j)
    <2>1. First(0) = <<>>
        BY SubSeqEmpty
    <2>2. First(N) = keys
        BY SubSeqFull DEF N
    <2>3. ASSUME NEW j \in 1 .. N PROVE Append(First(j - 1), keys[j]) = First(j)
        BY <1>1, SubSeqRecursiveSecond DEF N
    <2>4. QED
        BY <2>1, <2>2, <2>3
<1> HIDE DEF First
<1>10. ASSUME NEW j \in 1 .. N, NEW r, r = Read(j - 1)
       PROVE  WithKeyAt(b, r) = Read(j)
    <2>1. r.keys = First(j - 1) /\ r.at = p + size[j - 1]
        BY <1>10 DEF Read
    <2>2. /\ ShortAt(b, r.at) = Len(keys[j])
          /\ BytesAt(b, r.at + 2, Len(keys[j])) = keys[j]
        BY <1>8, <2>1
    <2>3. Append(r.keys, keys[j]) = First(j)
        <3>1. Append(First(j - 1), keys[j]) = First(j)
            BY <1>9
        <3>2. QED
            BY <2>1, <3>1
    <2>4. r.at + 2 + Len(keys[j]) = p + size[j]
        <3> DEFINE x == size[j - 1]
                   y == size[j]
                   l == Len(keys[j])
        <3>1. j - 1 \in 0 .. N
            BY <1>1
        <3>2. keys[j] \in Seq(Byte)
            BY <1>1
        <3>3. x \in Nat /\ l \in Nat /\ r.at = p + x
            BY <1>4a, <2>1, <3>1, <3>2, LenProperties
        <3>4. y = x + 2 + l
            BY <1>6
        <3> HIDE DEF x, y, l
        <3>5. r.at + 2 + l = p + y
            BY <3>3, <3>4
        <3>6. QED
            BY <3>5 DEF y, l
    <2> DEFINE ks == ShortAt(b, r.at)
    <2>5. WithKeyAt(b, r) = [keys |-> Append(r.keys, BytesAt(b, r.at + 2, ks)),
                             at |-> r.at + 2 + ks]
        BY DEF WithKeyAt
    <2>6. ks = Len(keys[j])
        BY <2>2
    <2> HIDE DEF ks
    <2>7. Append(r.keys, BytesAt(b, r.at + 2, ks)) = First(j) /\ r.at + 2 + ks = p + size[j]
        BY <2>2, <2>3, <2>4, <2>6
    <2> DEFINE ks1 == Append(r.keys, BytesAt(b, r.at + 2, ks))
               at1 == r.at + 2 + ks
    <2>8. WithKeyAt(b, r) = [keys |-> ks1, at |-> at1] /\ ks1 = First(j) /\ at1 = p + size[j]
        BY <2>5, <2>7
    <2> HIDE DEF ks1, at1
    <2>9. QED
        BY <2>8 DEF Read
<1>11. ASSUME NEW u, NEW j \in 1 .. N, u[j - 1] = Read(j - 1)
       PROVE  ReadAfter(b, p, u, j) = Read(j)
    <2>1. j # 0
        OBVIOUS
    <2>2. WithKeyAt(b, u[j - 1]) = Read(j)
        BY <1>10, <1>11
    <2>3. QED
        BY <2>1, <2>2, OneKeyRead DEF ReadAfter
<1>12. ASSUME NEW u PROVE ReadAfter(b, p, u, 0) = Read(0)
    <2>1. p + size[0] = p
        BY <1>6
    <2>2. QED
        BY <1>9, <2>1 DEF ReadAfter, Read
<1>13. Reads(b, p, after, N)
    <2>1. \A j \in 0 .. N : after[j] = Read(j)
        OBVIOUS
    <2>2. ASSUME NEW j \in 0 .. N PROVE Read(j) = ReadAfter(b, p, after, j)
        <3>1. CASE j = 0
            BY <1>12, <3>1
        <3>2. CASE j # 0
            <4>1. j \in 1 .. N /\ j - 1 \in 0 .. N
                BY <1>1, <3>2
            <4>2. after[j - 1] = Read(j - 1)
                BY <2>1, <4>1
            <4> HIDE DEF after
            <4>3. QED
                BY <1>11, <4>1, <4>2
        <3>3. QED
            BY <3>1, <3>2
    <2>3. after = [j \in 0 .. N |-> after[j]]
        OBVIOUS
    <2> HIDE DEF after
    <2>4. \A j \in 0 .. N : after[j] = ReadAfter(b, p, after, j)
        BY <2>1, <2>2
    <2>5. QED
        BY <2>3, <2>4, ReadsByKey
<1>14. Reads(b, p, read, N)
    <2> HIDE DEF after
    <2>1. \E u : Reads(b, p, u, N)
        BY <1>13
    <2>2. QED
        BY <2>1 DEF read
<1>15. \A j \in 0 .. N : read[j] = Read(j)
    <2> DEFINE I == {n \in Nat : n <= N => read[n] = Read(n)}
    <2>1. \A j \in 0 .. N : read[j] = ReadAfter(b, p, read, j)
        BY <1>14, ReadsByKey
    <2>2. 0 \in I
        <3>1. 0 \in 0 .. N
            BY <1>1
        <3>2. read[0] = Read(0)
            BY <1>12, <2>1, <3>1
        <3>3. QED
            BY <3>2
    <2>3. ASSUME NEW n \in Nat, n \in I PROVE n + 1 \in I
        <3> SUFFICES ASSUME n + 1 <= N PROVE read[n + 1] = Read(n + 1)
            OBVIOUS
        <3> DEFINE j == n + 1
        <3>1. j \in 1 .. N /\ j \in 0 .. N /\ j - 1 = n
            BY <1>1
        <3>2. read[n] = Read(n)
            BY <1>1, <2>3
        <3> HIDE DEF j
        <3>3. read[j - 1] = Read(j - 1)
            BY <3>1, <3>2
        <3>4. ReadAfter(b, p, read, j) = Read(j)
            BY <1>11, <3>1, <3>3
        <3>5. QED
            BY <2>1, <3>1, <3>4 DEF j
    <2> HIDE DEF I
    <2>4. Nat \subseteq I
        BY <2>2, <2>3, NumbersByInduction
    <2>5. QED
        BY <1>1, <2>4 DEF I
<1>16. KeyList(b, p, N) = keys
    <2>1. N \in 0 .. N
        BY <1>1
    <2>2. read[N] = Read(N)
        BY <1>15, <2>1
    <2>3. read[N].keys = keys
        BY <1>9, <2>2 DEF Read
    <2>4. N = 0 => keys = <<>>
        BY EmptySeq DEF N
    <2>5. QED
        BY <1>1, <1>2, <2>3, <2>4
<1>17. QED
    BY <1>16 DEF N

-----------------------------------------------------------------------------
(* A message.                                                              *)

(* What a field content holds behind the header of a message whose content *)
(* type is ct: the bytes, and how many they are.                           *)
ContentIs(m, bytes, size) ==
    /\ ContentBytes(m) = bytes /\ bytes \in Seq(Byte) /\ Len(bytes) = size
    /\ BufferSize(m) = 6 + size

LEMMA ContentTypesAreShorts ==
    /\ CT_NONE \in ShortRange /\ CT_RESULT \in ShortRange /\ CT_VALUE \in ShortRange
    /\ CT_KEY \in ShortRange /\ CT_KEYS \in ShortRange /\ CT_ENTRY \in ShortRange
BY SMT DEF CT_NONE, CT_RESULT, CT_VALUE, CT_KEY, CT_KEYS, CT_ENTRY, ShortRange

LEMMA ResultContent ==
    ASSUME NEW op, NEW table, NEW r \in IntRange
    PROVE  ContentIs(Message(op, CT_RESULT, table, r), IntBytes(r), 4)
<1>1. r \in Int
    BY SMT DEF IntRange
<1>2. IntBytes(r) \in Seq(Byte) /\ Len(IntBytes(r)) = 4
    BY <1>1, IntBytesTypes
<1> DEFINE m == Message(op, CT_RESULT, table, r)
<1>3. ContentBytes(m) = IntBytes(r)
    BY DEF ContentBytes, Message,
           CT_NONE, CT_RESULT, CT_VALUE, CT_KEY, CT_KEYS, CT_ENTRY
<1>4. BufferSize(m) = 6 + 4
    BY DEF BufferSize, Message,
           CT_NONE, CT_RESULT, CT_VALUE, CT_KEY, CT_KEYS, CT_ENTRY
<1>5. QED
    BY <1>2, <1>3, <1>4 DEF ContentIs

LEMMA KeyContent ==
    ASSUME NEW op, NEW table, NEW key \in Seq(Byte)
    PROVE  ContentIs(Message(op, CT_KEY, table, key), KeyBytes(key), 2 + Len(key))
<1> DEFINE m == Message(op, CT_KEY, table, key)
<1>1. m.c_type = CT_KEY /\ m.content = key
    BY DEF Message
<1>2. Len(key) \in Nat
    BY LenProperties
<1> HIDE DEF m
<1>3. ContentBytes(m) = KeyBytes(key)
    BY <1>1 DEF ContentBytes,
           CT_NONE, CT_RESULT, CT_VALUE, CT_KEY, CT_KEYS, CT_ENTRY
<1>4. BufferSize(m) = 6 + (2 + Len(key))
    BY <1>1, <1>2 DEF BufferSize,
           CT_NONE, CT_RESULT, CT_VALUE, CT_KEY, CT_KEYS, CT_ENTRY
<1>5. QED
    BY <1>3, <1>4, KeyBytesTypes DEF ContentIs, m

LEMMA ValueContent ==
    ASSUME NEW op, NEW table, NEW data \in Seq(Byte)
    PROVE  ContentIs(Message(op, CT_VALUE, table, data), DataBytes(data), 4 + Len(data))
<1> DEFINE m == Message(op, CT_VALUE, table, data)
<1>1. m.c_type = CT_VALUE /\ m.content = data
    BY DEF Message
<1>2. Len(data) \in Nat
    BY LenProperties
<1> HIDE DEF m
<1>3. ContentBytes(m) = DataBytes(data)
    BY <1>1 DEF ContentBytes,
           CT_NONE, CT_RESULT, CT_VALUE, CT_KEY, CT_KEYS, CT_ENTRY
<1>4. BufferSize(m) = 6 + (4 + Len(data))
    BY <1>1, <1>2 DEF BufferSize,
           CT_NONE, CT_RESULT, CT_VALUE, CT_KEY, CT_KEYS, CT_ENTRY
<1>5. QED
    BY <1>3, <1>4, DataBytesTypes DEF ContentIs, m

LEMMA EntryContent ==
    ASSUME NEW op, NEW table, NEW key \in Seq(Byte), NEW data \in Seq(Byte)
    PROVE  ContentIs(Message(op, CT_ENTRY, table, Entry(key, data)),
                     KeyBytes(key) \o DataBytes(data), 6 + Len(key) + Len(data))
<1> DEFINE m == Message(op, CT_ENTRY, table, Entry(key, data))
<1>1. m.c_type = CT_ENTRY /\ m.content.key = key /\ m.content.value = data
    BY DEF Message, Entry
<1>2. Len(key) \in Nat /\ Len(data) \in Nat
    BY LenProperties
<1> HIDE DEF m
<1>3. ContentBytes(m) = KeyBytes(key) \o DataBytes(data)
    BY <1>1 DEF ContentBytes,
           CT_NONE, CT_RESULT, CT_VALUE, CT_KEY, CT_KEYS, CT_ENTRY
<1>4. BufferSize(m) = 6 + (6 + Len(key) + Len(data))
    BY <1>1, <1>2 DEF BufferSize,
           CT_NONE, CT_RESULT, CT_VALUE, CT_KEY, CT_KEYS, CT_ENTRY
<1>5. KeyBytes(key) \in Seq(Byte) /\ DataBytes(data) \in Seq(Byte)
    BY KeyBytesTypes, DataBytesTypes
<1>6. /\ KeyBytes(key) \o DataBytes(data) \in Seq(Byte)
      /\ Len(KeyBytes(key) \o DataBytes(data)) = Len(KeyBytes(key)) + Len(DataBytes(data))
    BY ONLY <1>5, TwoParts
<1>7. Len(KeyBytes(key)) + Len(DataBytes(data)) = 6 + Len(key) + Len(data)
    <2>1. Len(KeyBytes(key)) = 2 + Len(key)
        BY KeyBytesTypes
    <2>2. Len(DataBytes(data)) = 4 + Len(data)
        BY DataBytesTypes
    <2>3. QED
        BY <1>2, <2>1, <2>2
<1>8. QED
    BY <1>3, <1>4, <1>6, <1>7 DEF ContentIs, m

LEMMA KeysContent ==
    ASSUME NEW op, NEW table, NEW keys \in Seq(Seq(Byte))
    PROVE  ContentIs(Message(op, CT_KEYS, table, keys),
                     IntBytes(Len(keys)) \o ListBytes(keys), 4 + KeysSize(keys))
<1> DEFINE m == Message(op, CT_KEYS, table, keys)
<1>1. m.c_type = CT_KEYS /\ m.content = keys
    BY DEF Message
<1>2. Len(keys) \in Int
    BY LenProperties
<1>3. /\ ListBytes(keys) \in Seq(Byte) /\ Len(ListBytes(keys)) = KeysSize(keys)
      /\ IntBytes(Len(keys)) \in Seq(Byte) /\ Len(IntBytes(Len(keys))) = 4
    BY <1>2, ListBytesTypes, IntBytesTypes
<1>4. KeysSize(keys) \in Nat
    BY <1>3, LenProperties
<1> HIDE DEF m
<1>5. ContentBytes(m) = IntBytes(Len(keys)) \o ListBytes(keys)
    BY <1>1 DEF ContentBytes, ListBytes,
           CT_NONE, CT_RESULT, CT_VALUE, CT_KEY, CT_KEYS, CT_ENTRY
<1>6. BufferSize(m) = 6 + (4 + KeysSize(keys))
    BY <1>1, <1>4 DEF BufferSize,
           CT_NONE, CT_RESULT, CT_VALUE, CT_KEY, CT_KEYS, CT_ENTRY
<1> DEFINE s == IntBytes(Len(keys))
           t == ListBytes(keys)
<1>7. s \in Seq(Byte) /\ t \in Seq(Byte)
    BY <1>3
<1>8. Len(s) = 4 /\ Len(t) = KeysSize(keys)
    BY <1>3
<1> HIDE DEF s, t
<1>9. s \o t \in Seq(Byte) /\ Len(s \o t) = Len(s) + Len(t)
    BY ONLY <1>7, TwoParts
<1>10. QED
    BY <1>5, <1>6, <1>8, <1>9 DEF ContentIs, m, s, t

LEMMA NoContent ==
    ASSUME NEW op, NEW table
    PROVE  ContentIs(Message(op, CT_NONE, table, <<>>), <<>>, 0)
<1> DEFINE m == Message(op, CT_NONE, table, <<>>)
<1>1. m.c_type = CT_NONE
    BY DEF Message
<1> HIDE DEF m
<1>2. ContentBytes(m) = <<>>
    BY <1>1 DEF ContentBytes,
           CT_NONE, CT_RESULT, CT_VALUE, CT_KEY, CT_KEYS, CT_ENTRY
<1>3. BufferSize(m) = 6 + 0
    BY <1>1 DEF BufferSize,
           CT_NONE, CT_RESULT, CT_VALUE, CT_KEY, CT_KEYS, CT_ENTRY
<1>4. QED
    BY <1>2, <1>3, EmptySeq DEF ContentIs, m

(* The header and the content stand in the buffer one after the other, and *)
(* fill it.                                                                *)
LEMMA EncodedStands ==
    ASSUME NEW op \in ShortRange, NEW ct \in ShortRange, NEW table \in ShortRange,
           NEW content, NEW bytes, NEW size,
           ContentIs(Message(op, ct, table, content), bytes, size)
    PROVE  LET m == Message(op, ct, table, content)
               b == Encode(m)
           IN  /\ b \in Seq(Byte) /\ Len(b) = BufferSize(m)
               /\ ShortAt(b, 1) = op /\ ShortAt(b, 3) = ct /\ ShortAt(b, 5) = table
               /\ Stands(b, 7, bytes)
<1> DEFINE m == Message(op, ct, table, content)
           b == Encode(m)
           h == Header(m)
<1>1. m.opcode = op /\ m.c_type = ct /\ m.table_num = table
    BY DEF Message
<1>2. op \in Int /\ ct \in Int /\ table \in Int
    BY DEF ShortRange
<1>3. bytes \in Seq(Byte) /\ ContentBytes(m) = bytes
    BY DEF ContentIs
<1>4. Len(bytes) = size /\ BufferSize(m) = 6 + size
    BY DEF ContentIs
<1> HIDE DEF m
<1>5. h \in Seq(Byte) /\ Len(h) = 6
    BY <1>1, <1>2, HeaderTypes
<1>6. b = h \o bytes
    BY <1>3 DEF Encode
<1> HIDE DEF b, h
<1>7. h \in Seq(Byte) /\ bytes \in Seq(Byte)
    BY <1>3, <1>5
<1>8. h \o bytes \in Seq(Byte) /\ Len(h \o bytes) = Len(h) + Len(bytes)
    BY ONLY <1>7, TwoParts
<1>9. Stands(h \o bytes, 1, h \o bytes)
    BY StandsAtStart
<1>10. Stands(h \o bytes, 1, h) /\ Stands(h \o bytes, 1 + Len(h), bytes)
    <2> DEFINE w == h \o bytes
    <2>1. Stands(w, 1, h \o bytes) /\ 1 \in Int
        BY <1>9
    <2> HIDE DEF w
    <2>2. Stands(w, 1, h) /\ Stands(w, 1 + Len(h), bytes)
        BY ONLY <1>7, <2>1, StandsInParts
    <2>3. QED
        BY <2>2 DEF w
<1>11. Stands(b, 1, Header(m)) /\ Stands(b, 7, bytes)
    <2>1. 1 + Len(h) = 7
        BY <1>5
    <2>2. QED
        BY <1>6, <1>10, <2>1 DEF h
<1>12. ShortAt(b, 1) = op /\ ShortAt(b, 3) = ct /\ ShortAt(b, 5) = table
    BY <1>1, <1>11, HeaderStands
<1>13. b \in Seq(Byte) /\ Len(b) = BufferSize(m)
    BY <1>4, <1>5, <1>6, <1>8
<1>14. QED
    BY <1>11, <1>12, <1>13 DEF b, m

(* What buffer_to_message returns, when it knows the opcode. *)
LEMMA DecodeKnown ==
    ASSUME NEW b, KnownOpcode(ShortAt(b, 1)), HoldsData(b, ShortAt(b, 3)),
           ShortAt(b, 3) \in {CT_NONE, CT_RESULT, CT_VALUE, CT_KEY, CT_KEYS, CT_ENTRY}
    PROVE  Decode(b) = <<Message(ShortAt(b, 1), ShortAt(b, 3), ShortAt(b, 5),
                                 IF ShortAt(b, 3) = CT_NONE THEN <<>>
                                 ELSE Content(b, ShortAt(b, 3)))>>
BY DEF Decode

(* What buffer_to_message reads of each content that stands at the 7th     *)
(* byte.                                                                   *)
ReadsBack(ct, bytes, content) ==
    \A b : Stands(b, 7, bytes) =>
              HoldsData(b, ct) /\ (ct # CT_NONE => Content(b, ct) = content)

LEMMA NoneReadsBack == ReadsBack(CT_NONE, <<>>, <<>>)
BY DEF ReadsBack, HoldsData, CT_NONE, CT_VALUE, CT_ENTRY

LEMMA ResultReadsBack ==
    ASSUME NEW r \in IntRange
    PROVE  ReadsBack(CT_RESULT, IntBytes(r), r)
<1> SUFFICES ASSUME NEW b, Stands(b, 7, IntBytes(r))
             PROVE  HoldsData(b, CT_RESULT) /\ Content(b, CT_RESULT) = r
    BY DEF ReadsBack
<1>1. IntAt(b, 7) = r
    BY IntStands
<1>2. Content(b, CT_RESULT) = IntAt(b, 7)
    BY DEF Content, CT_NONE, CT_RESULT, CT_VALUE, CT_KEY, CT_KEYS, CT_ENTRY
<1>3. HoldsData(b, CT_RESULT)
    BY DEF HoldsData, CT_RESULT, CT_VALUE, CT_ENTRY
<1>4. QED
    BY <1>1, <1>2, <1>3

LEMMA KeyReadsBack ==
    ASSUME NEW key \in Seq(Byte), KeyFits(key)
    PROVE  ReadsBack(CT_KEY, KeyBytes(key), key)
<1> SUFFICES ASSUME NEW b, Stands(b, 7, KeyBytes(key))
             PROVE  HoldsData(b, CT_KEY) /\ Content(b, CT_KEY) = key
    BY DEF ReadsBack
<1>1. ShortAt(b, 7) = Len(key) /\ BytesAt(b, 9, Len(key)) = key
    <2>1. ShortAt(b, 7) = Len(key) /\ BytesAt(b, 7 + 2, Len(key)) = key
        BY KeyStands
    <2>2. QED
        BY <2>1
<1>2. Len(key) % 65536 = Len(key)
    <2> DEFINE n == Len(key)
    <2>1. n \in Nat /\ n \in ShortRange
        BY LenProperties DEF KeyFits
    <2> HIDE DEF n
    <2>2. n % 65536 = n
        BY ONLY <2>1, SMT DEF ShortRange
    <2>3. QED
        BY <2>2 DEF n
<1>3. Content(b, CT_KEY) = BytesAt(b, 9, ShortAt(b, 7) % 65536)
    BY DEF Content, CT_NONE, CT_RESULT, CT_VALUE, CT_KEY, CT_KEYS, CT_ENTRY
<1>4. HoldsData(b, CT_KEY)
    BY DEF HoldsData, CT_KEY, CT_VALUE, CT_ENTRY
<1>5. QED
    BY <1>1, <1>2, <1>3, <1>4

(* Data that a struct data_t holds: it has an int for its size, and is not *)
(* empty.                                                                  *)
DataFits(data) == data \in Seq(Byte) /\ data # <<>> /\ Len(data) \in IntRange

LEMMA DataIsPositive ==
    ASSUME NEW data, DataFits(data) PROVE Len(data) > 0
BY EmptySeq, LenProperties DEF DataFits

LEMMA ValueReadsBack ==
    ASSUME NEW data, DataFits(data)
    PROVE  ReadsBack(CT_VALUE, DataBytes(data), data)
<1> SUFFICES ASSUME NEW b, Stands(b, 7, DataBytes(data))
             PROVE  HoldsData(b, CT_VALUE) /\ Content(b, CT_VALUE) = data
    BY DEF ReadsBack
<1>1. IntAt(b, 7) = Len(data) /\ BytesAt(b, 11, Len(data)) = data
    <2>1. IntAt(b, 7) = Len(data) /\ BytesAt(b, 7 + 4, Len(data)) = data
        BY DataStands DEF DataFits
    <2>2. QED
        BY <2>1
<1>2. Content(b, CT_VALUE) = BytesAt(b, 11, IntAt(b, 7))
    BY DEF Content, CT_NONE, CT_RESULT, CT_VALUE, CT_KEY, CT_KEYS, CT_ENTRY
<1>3. HoldsData(b, CT_VALUE)
    BY <1>1, DataIsPositive DEF HoldsData, CT_VALUE, CT_ENTRY
<1>4. QED
    BY <1>1, <1>2, <1>3

LEMMA EntryReadsBack ==
    ASSUME NEW key \in Seq(Byte), KeyFits(key), NEW data, DataFits(data)
    PROVE  ReadsBack(CT_ENTRY, KeyBytes(key) \o DataBytes(data), Entry(key, data))
<1> SUFFICES ASSUME NEW b, Stands(b, 7, KeyBytes(key) \o DataBytes(data))
             PROVE  HoldsData(b, CT_ENTRY) /\ Content(b, CT_ENTRY) = Entry(key, data)
    BY DEF ReadsBack
<1> DEFINE s == KeyBytes(key)
           t == DataBytes(data)
           n == Len(key)
           l == Len(data)
<1>1. s \in Seq(Byte) /\ t \in Seq(Byte) /\ 7 \in Int /\ Stands(b, 7, s \o t)
    BY KeyBytesTypes, DataBytesTypes DEF DataFits
<1>2. Stands(b, 7, s) /\ Stands(b, 7 + Len(s), t)
    <2> HIDE DEF s, t
    <2>1. QED
        BY ONLY <1>1, StandsInParts
<1>3. n \in Nat /\ l > 0
    BY LenProperties, DataIsPositive
<1>4. Len(s) = 2 + n
    BY KeyBytesTypes
<1>5. 7 + Len(s) = 9 + n
    <2> HIDE DEF s, n
    <2>1. QED
        BY <1>3, <1>4
<1>6. ShortAt(b, 7) = n /\ BytesAt(b, 9, n) = key
    <2>1. ShortAt(b, 7) = Len(key) /\ BytesAt(b, 7 + 2, Len(key)) = key
        BY <1>2, KeyStands
    <2>2. QED
        BY <2>1
<1>7. IntAt(b, 9 + n) = l /\ BytesAt(b, 13 + n, l) = data
    <2> DEFINE q == 9 + n
    <2>1. Stands(b, q, DataBytes(data)) /\ q \in Int
        BY <1>2, <1>3, <1>5
    <2> HIDE DEF q
    <2>2. IntAt(b, q) = Len(data) /\ BytesAt(b, q + 4, Len(data)) = data
        BY <2>1, DataStands DEF DataFits
    <2>3. q + 4 = 13 + n
        BY <1>3 DEF q
    <2>4. QED
        BY <2>2, <2>3 DEF q
<1> HIDE DEF s, t, n, l
<1>8. Content(b, CT_ENTRY) =
          LET ks == ShortAt(b, 7)
          IN  Entry(BytesAt(b, 9, ks), BytesAt(b, 13 + ks, IntAt(b, 9 + ks)))
    BY DEF Content, CT_NONE, CT_RESULT, CT_VALUE, CT_KEY, CT_KEYS, CT_ENTRY
<1>9. HoldsData(b, CT_ENTRY)
    BY <1>3, <1>6, <1>7 DEF HoldsData, CT_VALUE, CT_ENTRY
<1>10. QED
    BY <1>6, <1>7, <1>8, <1>9

LEMMA KeysReadBack ==
    ASSUME NEW keys \in Seq(Seq(Byte)), Len(keys) \in IntRange,
           \A j \in 1 .. Len(keys) : KeyFits(keys[j])
    PROVE  ReadsBack(CT_KEYS, IntBytes(Len(keys)) \o ListBytes(keys), keys)
<1> SUFFICES ASSUME NEW b, Stands(b, 7, IntBytes(Len(keys)) \o ListBytes(keys))
             PROVE  HoldsData(b, CT_KEYS) /\ Content(b, CT_KEYS) = keys
    BY DEF ReadsBack
<1> DEFINE s == IntBytes(Len(keys))
           t == ListBytes(keys)
<1>1. Len(keys) \in Int
    BY LenProperties
<1>2. s \in Seq(Byte) /\ t \in Seq(Byte) /\ 7 \in Int /\ Stands(b, 7, s \o t)
    BY <1>1, IntBytesTypes, ListBytesTypes
<1>3. Stands(b, 7, s) /\ Stands(b, 7 + Len(s), t)
    <2> HIDE DEF s, t
    <2>1. QED
        BY ONLY <1>2, StandsInParts
<1>4. 7 + Len(s) = 11
    <2>1. Len(s) = 4
        BY <1>1, IntBytesTypes
    <2> HIDE DEF s
    <2>2. QED
        BY <2>1
<1>5. IntAt(b, 7) = Len(keys)
    BY <1>3, IntStands
<1>6. KeyList(b, 11, Len(keys)) = keys
    <2>1. Stands(b, 11, ListBytes(keys))
        BY <1>3, <1>4
    <2>2. QED
        BY <2>1, ListStands
<1>7. Content(b, CT_KEYS) = KeyList(b, 11, IntAt(b, 7))
    BY DEF Content, CT_NONE, CT_RESULT, CT_VALUE, CT_KEY, CT_KEYS, CT_ENTRY
<1>8. HoldsData(b, CT_KEYS)
    BY DEF HoldsData, CT_KEYS, CT_VALUE, CT_ENTRY
<1>9. QED
    BY <1>5, <1>6, <1>7, <1>8

-----------------------------------------------------------------------------
(* The contents a message of type ct can be sent with: what struct         *)
(* message_t holds, within the widths of the fields that carry its sizes.  *)
ContentFits(ct, content) ==
    \/ ct = CT_NONE /\ content = <<>>
    \/ ct = CT_RESULT /\ content \in IntRange
    \/ ct = CT_KEY /\ content \in Seq(Byte) /\ KeyFits(content)
    \/ /\ ct = CT_KEYS /\ content \in Seq(Seq(Byte)) /\ Len(content) \in IntRange
       /\ \A j \in 1 .. Len(content) : KeyFits(content[j])
    \/ ct = CT_VALUE /\ DataFits(content)
    \/ /\ ct = CT_ENTRY
       /\ \E key, data \in Seq(Byte) : /\ KeyFits(key) /\ DataFits(data)
                                       /\ content = Entry(key, data)

LEMMA ContentTypeIsKnown ==
    ASSUME NEW ct, NEW content, ContentFits(ct, content)
    PROVE  /\ ct \in {CT_NONE, CT_RESULT, CT_VALUE, CT_KEY, CT_KEYS, CT_ENTRY}
           /\ ct \in ShortRange
           /\ ct = CT_NONE => content = <<>>
<1>1. ct \in {CT_NONE, CT_RESULT, CT_VALUE, CT_KEY, CT_KEYS, CT_ENTRY}
    BY DEF ContentFits
<1>2. ct = CT_NONE => content = <<>>
    BY DEF ContentFits, CT_NONE, CT_RESULT, CT_VALUE, CT_KEY, CT_KEYS, CT_ENTRY
<1>3. QED
    BY <1>1, <1>2, ContentTypesAreShorts

LEMMA ContentGoesAndComes ==
    ASSUME NEW op, NEW table, NEW ct, NEW content, ContentFits(ct, content)
    PROVE  \E bytes, size : /\ ContentIs(Message(op, ct, table, content), bytes, size)
                            /\ ReadsBack(ct, bytes, content)
<1>1. CASE ct = CT_NONE /\ content = <<>>
    BY <1>1, NoContent, NoneReadsBack
<1>2. CASE ct = CT_RESULT /\ content \in IntRange
    BY <1>2, ResultContent, ResultReadsBack
<1>3. CASE ct = CT_KEY /\ content \in Seq(Byte) /\ KeyFits(content)
    BY <1>3, KeyContent, KeyReadsBack
<1>4. CASE /\ ct = CT_KEYS /\ content \in Seq(Seq(Byte)) /\ Len(content) \in IntRange
           /\ \A j \in 1 .. Len(content) : KeyFits(content[j])
    BY <1>4, KeysContent, KeysReadBack
<1>5. CASE ct = CT_VALUE /\ DataFits(content)
    BY <1>5, ValueContent, ValueReadsBack DEF DataFits
<1>6. CASE /\ ct = CT_ENTRY
           /\ \E key, data \in Seq(Byte) : /\ KeyFits(key) /\ DataFits(data)
                                           /\ content = Entry(key, data)
    BY <1>6, EntryContent, EntryReadsBack DEF DataFits
<1>7. QED
    BY <1>1, <1>2, <1>3, <1>4, <1>5, <1>6 DEF ContentFits

(* message_to_buffer writes bytes, as many as it has allocated, and        *)
(* buffer_to_message makes the same message of them again.                 *)
THEOREM MessageRoundTrip ==
    ASSUME NEW op \in ShortRange, NEW table \in ShortRange, NEW ct, NEW content,
           ContentFits(ct, content)
    PROVE  LET m == Message(op, ct, table, content)
           IN  /\ Encode(m) \in Seq(Byte) /\ Len(Encode(m)) = BufferSize(m)
               /\ KnownOpcode(op) => Decode(Encode(m)) = <<m>>
<1> DEFINE m == Message(op, ct, table, content)
           b == Encode(m)
<1>1. PICK bytes, size : ContentIs(m, bytes, size) /\ ReadsBack(ct, bytes, content)
    <2>1. \E bytes, size : /\ ContentIs(Message(op, ct, table, content), bytes, size)
                           /\ ReadsBack(ct, bytes, content)
        BY ONLY ContentFits(ct, content), ContentGoesAndComes
    <2>2. QED
        BY <2>1
<1>2. /\ ct \in {CT_NONE, CT_RESULT, CT_VALUE, CT_KEY, CT_KEYS, CT_ENTRY}
      /\ ct \in ShortRange /\ (ct = CT_NONE => content = <<>>)
    BY ContentTypeIsKnown
<1>3. /\ b \in Seq(Byte) /\ Len(b) = BufferSize(m)
      /\ ShortAt(b, 1) = op /\ ShortAt(b, 3) = ct /\ ShortAt(b, 5) = table
      /\ Stands(b, 7, bytes)
    BY <1>1, <1>2, EncodedStands
<1> HIDE DEF b
<1>4. ASSUME KnownOpcode(op) PROVE Decode(b) = <<m>>
    <2>1. HoldsData(b, ct) /\ (ct # CT_NONE => Content(b, ct) = content)
        BY <1>1, <1>3 DEF ReadsBack
    <2>2. KnownOpcode(ShortAt(b, 1)) /\ HoldsData(b, ShortAt(b, 3))
        BY <1>3, <1>4, <2>1
    <2>3. Decode(b) = <<Message(op, ct, table, IF ct = CT_NONE THEN <<>> ELSE Content(b, ct))>>
        BY <1>2, <1>3, <2>2, DecodeKnown
    <2>4. (IF ct = CT_NONE THEN <<>> ELSE Content(b, ct)) = content
        BY <1>2, <2>1
    <2>5. QED
        BY <2>3, <2>4
<1>5. QED
    BY <1>3, <1>4 DEF b

=============================================================================
