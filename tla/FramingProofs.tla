--------------------------- MODULE FramingProofs ----------------------------
(***************************************************************************)
(* That write_all and read_all carry messages whole, once and in order,    *)
(* for messages of any number and size and however the bytes are cut up:   *)
(* Framing implements MessageChannel.                                      *)
(***************************************************************************)
EXTENDS Framing, SequenceTheorems, TLAPS

Parts == {"length", "bytes"}
Bytes == (1 .. Posts) \X Parts \X (Nat \ {0})

(* The byte that comes n - j places after byte j of a part, if that is not *)
(* beyond the first byte of the next part.                                 *)
Place(m, p, n) ==
    IF n <= PartSize(m, p) THEN <<m, p, n>>
    ELSE IF p = "length" THEN <<m, "bytes", 1>> ELSE <<m + 1, "length", 1>>

(* The bytes to come, as far as they are known: those on their way and, as *)
(* long as the sender is there, the one it would write next.               *)
Known == Len(stream) + (IF sender = "up" THEN 1 ELSE 0)
Byte(k) == IF k <= Len(stream) THEN stream[k] ELSE <<next, part, written + 1>>

(* They are consecutive.  All distances are compared, not only neighbours: *)
(* a write or a read moves on by any number of bytes at once.              *)
Runs ==
    \A k \in 1 .. Known : \A d \in 0 .. Known - k :
        Byte(k)[3] + d <= PartSize(Byte(k)[1], Byte(k)[2]) + 1 =>
            Byte(k + d) = Place(Byte(k)[1], Byte(k)[2], Byte(k)[3] + d)

(* Is byte j of part p of message m before byte w + 1 of part q of n? *)
Before(m, p, j, n, q, w) ==
    \/ m < n
    \/ m = n /\ p = "length" /\ q = "bytes"
    \/ m = n /\ p = q /\ j <= w

(* The byte the receiver reads next, if it reads one. *)
Awaited ==
    IF place = "decode" THEN <<Len(arrived) + 2, "length", 1>>
    ELSE <<Len(arrived) + 1, place, Len(buf) + 1>>

Run(m, p, n) == [j \in 1 .. n |-> <<m, p, j>>]
HasTorn == Len(arrived) > 0 /\ arrived[Len(arrived)] = Torn

FType ==
    /\ isServer \in BOOLEAN
    /\ next \in 1 .. Posts + 1 /\ part \in Parts /\ written \in Nat
    /\ IF next <= Posts THEN written < PartSize(next, part)
       ELSE part = "length" /\ written = 0
    /\ sender \in {"up", "closed", "reset"}
    /\ stream \in Seq(Bytes) /\ Len(stream) <= Room
    /\ place \in {"length", "bytes", "decode", "gone", "dead"}
    /\ buf \in Seq(Bytes) /\ arrived \in Seq(Nat)

StreamInStep ==
    /\ Runs
    /\ \A k \in 1 .. Len(stream) :
          /\ stream[k][3] <= PartSize(stream[k][1], stream[k][2])
          /\ Before(stream[k][1], stream[k][2], stream[k][3], next, part, written)
    /\ Known > 0 /\ ~Ended => Byte(1) = Awaited

(* What the receiver has read of a message is the beginning of the next    *)
(* one; the exceptions are those of a stream that has ended.               *)
BufferInStep ==
    /\ Receiving =>
          buf = Run(Len(arrived) + 1, place, Len(buf)) /\ Len(buf) < Wanted
    /\ place = "bytes" =>
          \/ Len(arrived) + 1 \in 1 .. Posts /\ size = Sizes[Len(arrived) + 1]
          \/ size = 1 /\ Known = 0
    /\ place = "decode" =>
          \/ /\ Len(arrived) + 1 < next
             /\ buf = PartBytes(Len(arrived) + 1, "bytes")
          \/ Known = 0 /\ ~Complete

ArrivedInStep ==
    /\ \A k \in 1 .. Len(arrived) :
          arrived[k] = k \/ (k = Len(arrived) /\ arrived[k] = Torn)
    /\ IF HasTorn
       THEN /\ Known = 0 /\ Len(arrived) <= next
            /\ (place = "length" /\ isServer) \/ Ended
       ELSE Len(arrived) < next

FInv == FType /\ StreamInStep /\ BufferInStep /\ ArrivedInStep

LEMMA SizeFacts ==
    /\ Posts \in Nat /\ IntSize \in Nat /\ IntSize > 0 /\ Room \in Nat
    /\ \A m \in 1 .. Posts : Sizes[m] \in Nat /\ Sizes[m] > 0
    /\ \A m \in 1 .. Posts, p \in Parts : PartSize(m, p) \in Nat /\ PartSize(m, p) > 0
    /\ \A m : PartSize(m, "length") = IntSize
    /\ \A m : PartSize(m, "bytes") = Sizes[m]
BY FramingAssumption, ElementOfSeq, LenProperties DEF Posts, PartSize, Parts

LEMMA InitInStep == Init => FInv
<1> SUFFICES ASSUME Init PROVE FInv
    OBVIOUS
<1>1. /\ Len(stream) = 0 /\ Len(buf) = 0 /\ Len(arrived) = 0
      /\ stream = <<>> /\ buf = <<>> /\ arrived = <<>>
      /\ next = 1 /\ part = "length" /\ written = 0 /\ place = "length"
    BY DEF Init
<1>2. FType
    BY <1>1, SizeFacts DEF FType, Init, Parts
<1>3. Known = 1 /\ Byte(1) = <<1, "length", 1>>
    BY <1>1 DEF Known, Byte, Init
<1>4. Runs
    BY <1>3, SizeFacts DEF Runs, Place
<1>5. Awaited = <<1, "length", 1>>
    BY <1>1 DEF Awaited
<1>6. StreamInStep
    BY <1>1, <1>3, <1>4, <1>5 DEF StreamInStep
<1>7. buf = Run(Len(arrived) + 1, place, Len(buf))
    BY <1>1 DEF Run
<1>8. BufferInStep
    BY <1>1, <1>7, SizeFacts DEF BufferInStep, Wanted
<1>9. ArrivedInStep
    BY <1>1 DEF ArrivedInStep, HasTorn
<1>10. QED
    BY <1>2, <1>6, <1>8, <1>9 DEF FInv

(* The bytes from w + 1 to w + n of a part. *)
LEMMA PieceOfPart ==
    ASSUME NEW m \in 1 .. Posts, NEW p \in Parts, NEW w \in Nat, NEW n \in Nat,
           n >= 1, w + n <= PartSize(m, p)
    PROVE  LET piece == SubSeq(PartBytes(m, p), w + 1, w + n)
           IN  /\ piece \in Seq(Bytes) /\ Len(piece) = n
               /\ \A e \in 1 .. n : piece[e] = <<m, p, w + e>>
<1> DEFINE s == PartBytes(m, p)
           piece == SubSeq(s, w + 1, w + n)
<1>1. \A e \in w + 1 .. w + n : s[e] = <<m, p, e>>
    BY SizeFacts DEF PartBytes
<1>2. ASSUME NEW e \in w + 1 .. w + n PROVE s[e] \in Bytes
    <2>1. e \in Nat \ {0} /\ s[e] = <<m, p, e>>
        BY <1>1
    <2>2. QED
        BY <2>1 DEF Bytes
<1> HIDE DEF s
<1>3. /\ piece \in Seq(Bytes)
      /\ Len(piece) = IF w + 1 <= w + n THEN (w + n) - (w + 1) + 1 ELSE 0
      /\ \A e \in 1 .. (w + n) - (w + 1) + 1 : piece[e] = s[w + 1 + e - 1]
    <2>1. w + 1 \in Int /\ w + n \in Int
        OBVIOUS
    <2>2. QED
        BY <1>2, <2>1, SubSeqProperties
<1> HIDE DEF piece
<1>4. (w + n) - (w + 1) + 1 = n /\ w + 1 <= w + n
    OBVIOUS
<1>5. Len(piece) = n /\ \A e \in 1 .. n : piece[e] = s[w + 1 + e - 1]
    BY <1>3, <1>4
<1>6. ASSUME NEW e \in 1 .. n PROVE piece[e] = <<m, p, w + e>>
    <2>1. w + 1 + e - 1 = w + e /\ w + e \in w + 1 .. w + n
        OBVIOUS
    <2>2. QED
        BY <1>1, <1>5, <2>1
<1>7. QED
    BY <1>3, <1>5, <1>6 DEF piece, s

(* The sender writes n bytes of a part. *)
LEMMA WriteInStep == FInv /\ Write => FInv'
<1> SUFFICES ASSUME FInv, Write PROVE FInv'
    OBVIOUS
<1> DEFINE P == PartSize(next, part)
<1>0. PICK L \in Nat : L = Len(stream)
    BY LenProperties DEF FInv, FType
<1>1. /\ sender = "up" /\ sender' = "up" /\ next \in 1 .. Posts
      /\ UNCHANGED <<isServer, place, buf, size, arrived>>
      /\ part \in Parts /\ written \in Nat /\ written < P /\ P \in Nat
      /\ stream \in Seq(Bytes) /\ L \in Nat /\ L <= Room /\ Room \in Nat
      /\ Posts \in Nat
    BY <1>0, SizeFacts, LenProperties DEF Write, FInv, FType, receiverVars
<1> HIDE DEF P
<1>2. PICK n \in Takes :
          /\ stream' = stream \o SubSeq(PartBytes(next, part), written + 1, written + n)
          /\ WroteSome(n)
    BY DEF Write
<1>3. n \in Nat /\ n >= 1 /\ written + n <= P /\ L + n <= Room
    BY <1>0, <1>1 DEF Takes, Least, P
<1> DEFINE chunk == SubSeq(PartBytes(next, part), written + 1, written + n)
<1>4. /\ chunk \in Seq(Bytes) /\ Len(chunk) = n
      /\ \A e \in 1 .. n : chunk[e] = <<next, part, written + e>>
    BY <1>1, <1>3, PieceOfPart DEF P
<1> HIDE DEF chunk
<1>5. /\ stream' \in Seq(Bytes) /\ Len(stream') = L + n
      /\ \A k \in 1 .. L + n :
            stream'[k] = IF k <= L THEN stream[k] ELSE <<next, part, written + (k - L)>>
    <2>1. stream' = stream \o chunk
        BY <1>2 DEF chunk
    <2>2. /\ stream \o chunk \in Seq(Bytes) /\ Len(stream \o chunk) = L + Len(chunk)
          /\ \A k \in 1 .. L + Len(chunk) :
                (stream \o chunk)[k] = IF k <= L THEN stream[k] ELSE chunk[k - L]
        BY <1>0, <1>1, <1>4, ConcatProperties
    <2>3. stream' \in Seq(Bytes) /\ Len(stream') = L + n
        BY <1>4, <2>1, <2>2
    <2>4. ASSUME NEW k \in 1 .. L + n
          PROVE  stream'[k] =
                    IF k <= L THEN stream[k] ELSE <<next, part, written + (k - L)>>
        <3>1. stream'[k] = IF k <= L THEN stream[k] ELSE chunk[k - L]
            BY <1>4, <2>1, <2>2
        <3>2. ~(k <= L) => k - L \in 1 .. n
            BY <1>1, <1>3
        <3>3. QED
            BY <1>4, <3>1, <3>2
    <2>5. QED
        BY <2>3, <2>4
<1>6. /\ next' \in 1 .. Posts + 1 /\ part' \in Parts /\ written' \in Nat
      /\ IF next' <= Posts THEN written' < PartSize(next', part')
         ELSE part' = "length" /\ written' = 0
      /\ <<next', part', written' + 1>> = Place(next, part, written + 1 + n)
      /\ next' >= next
    <2>1. CASE written + n < P
        BY <1>1, <1>2, <1>3, <2>1 DEF WroteSome, Place, P
    <2>2. CASE ~(written + n < P)
        <3>1. written + 1 + n > P
            BY <1>1, <1>3, <2>2
        <3>2. CASE part = "length"
            <4>1. next' = next /\ part' = "bytes" /\ written' = 0
                BY <1>2, <2>2, <3>2 DEF WroteSome, P
            <4>2. Place(next, part, written + 1 + n) = <<next, "bytes", 1>>
                BY <1>1, <1>3, <3>1, <3>2 DEF Place, P
            <4>3. QED
                BY <1>1, <4>1, <4>2, SizeFacts DEF Parts
        <3>3. CASE part = "bytes"
            <4>1. next' = next + 1 /\ part' = "length" /\ written' = 0
                BY <1>2, <2>2, <3>3 DEF WroteSome, P
            <4>2. Place(next, part, written + 1 + n) = <<next + 1, "length", 1>>
                BY <1>1, <1>3, <3>1, <3>3 DEF Place, P
            <4>3. QED
                BY <1>1, <4>1, <4>2, SizeFacts DEF Parts
        <3>4. QED
            BY <1>1, <3>2, <3>3 DEF Parts
    <2>3. QED
        BY <2>1, <2>2
<1>7. Known = L + 1 /\ Known' = L + n + 1
    BY <1>0, <1>1, <1>3, <1>5 DEF Known
<1>8. /\ \A k \in 1 .. L + 1 : Byte(k)' = Byte(k)
      /\ \A k \in L + 1 .. L + n + 1 : Byte(k)' = Place(next, part, written + (k - L))
    <2>1. \A k \in 1 .. L : Byte(k)' = Byte(k)
        BY <1>0, <1>1, <1>3, <1>5 DEF Byte
    <2>2. \A k \in L + 1 .. L + n : Byte(k)' = Place(next, part, written + (k - L))
        <3> TAKE k \in L + 1 .. L + n
        <3>1. k \in 1 .. L + n /\ ~(k <= L) /\ written + (k - L) <= P /\ k <= L + n
            BY <1>1, <1>3
        <3>2. QED
            BY <1>0, <1>5, <3>1 DEF Byte, Place, P
    <2>3. ASSUME NEW k, k = L + n + 1
          PROVE  Byte(k)' = Place(next, part, written + (k - L))
        <3>1. ~(k <= L + n) /\ written + (k - L) = written + 1 + n
            BY <1>0, <1>1, <1>3, <2>3
        <3>2. Byte(k)' = <<next', part', written' + 1>>
            BY <1>5, <3>1 DEF Byte
        <3>3. QED
            BY <1>6, <3>1, <3>2
    <2>4. ASSUME NEW k \in L + 1 .. L + n + 1
          PROVE  Byte(k)' = Place(next, part, written + (k - L))
        <3>1. k \in L + 1 .. L + n \/ k = L + n + 1
            BY <1>3
        <3>2. QED
            BY <2>2, <2>3, <3>1
    <2>5. ASSUME NEW k, k = L + 1
          PROVE  Byte(k)' = Byte(k)
        <3>1. k \in L + 1 .. L + n + 1 /\ written + (k - L) = written + 1
              /\ written + 1 <= P /\ ~(k <= L)
            BY <1>1, <1>3, <2>5
        <3>2. Byte(k)' = <<next, part, written + 1>>
            BY <2>4, <3>1 DEF Place, P
        <3>3. QED
            BY <1>0, <3>1, <3>2 DEF Byte
    <2>6. ASSUME NEW k \in 1 .. L + 1 PROVE Byte(k)' = Byte(k)
        <3>1. k \in 1 .. L \/ k = L + 1
            OBVIOUS
        <3>2. QED
            BY <2>1, <2>5, <3>1
    <2>7. QED
        BY <2>4, <2>6
<1>9. Runs'
    <2> SUFFICES ASSUME NEW k \in 1 .. Known', NEW d \in 0 .. Known' - k,
                        Byte(k)'[3] + d <= PartSize(Byte(k)'[1], Byte(k)'[2]) + 1
                 PROVE  Byte(k + d)' =
                            Place(Byte(k)'[1], Byte(k)'[2], Byte(k)'[3] + d)
        BY DEF Runs
    <2>1. k \in Nat /\ k >= 1 /\ d \in Nat /\ k + d <= L + n + 1
        BY <1>1, <1>3, <1>7
    <2>2. CASE k + d <= L + 1
        <3>1. k \in 1 .. Known /\ d \in 0 .. Known - k
              /\ k \in 1 .. L + 1 /\ k + d \in 1 .. L + 1
            BY <1>1, <1>7, <2>1, <2>2
        <3>2. QED
            BY <1>8, <3>1 DEF FInv, StreamInStep, Runs
    <2>3. CASE k <= L + 1 /\ k + d > L + 1
        <3> DEFINE b == Byte(k)
                   e == L + 1 - k
        <3>1. k \in 1 .. Known /\ e \in 0 .. Known - k /\ k + e = L + 1 /\ e < d
              /\ k \in 1 .. L + 1 /\ e \in Nat
            BY <1>1, <1>7, <2>1, <2>3
        <3>2. Byte(k)' = b /\ b[1] \in 1 .. Posts /\ b[2] \in Parts /\ b[3] \in Nat
            <4>1. CASE k <= L
                <5>1. stream[k] \in Bytes /\ k \in 1 .. L + 1
                    BY <1>0, <1>1, <2>1, <4>1, ElementOfSeq
                <5>2. b = stream[k] /\ Byte(k)' = b
                    BY <1>0, <1>8, <4>1, <5>1 DEF Byte
                <5>3. QED
                    BY <5>1, <5>2 DEF Bytes
            <4>2. CASE k = L + 1
                <5>1. b = <<next, part, written + 1>>
                    BY <1>0, <1>1, <4>2 DEF Byte
                <5>2. Byte(k)' = b
                    BY <1>8, <3>1
                <5>3. QED
                    BY <1>1, <5>1, <5>2
            <4>3. QED
                BY <1>1, <2>1, <2>3, <4>1, <4>2
        <3>3. b[3] \in Nat /\ PartSize(b[1], b[2]) \in Nat /\ Byte(k)' = b
            BY <3>2, SizeFacts
        <3>4. b[3] + e <= PartSize(b[1], b[2])
            BY <2>1, <3>1, <3>3
        <3>5. Byte(L + 1) = <<b[1], b[2], b[3] + e>>
            <4>1. Byte(k + e) = Place(b[1], b[2], b[3] + e)
                <5>1. b[3] + e <= PartSize(b[1], b[2]) + 1
                    BY <3>1, <3>3, <3>4
                <5>2. QED
                    BY <3>1, <5>1 DEF FInv, StreamInStep, Runs
            <4>2. QED
                BY <3>1, <3>4, <4>1 DEF Place, P
        <3>6. Byte(L + 1) = <<next, part, written + 1>>
            BY <1>0, <1>1 DEF Byte
        <3>7. b[1] = next /\ b[2] = part /\ b[3] + e = written + 1
            BY <3>5, <3>6
        <3>8. written + ((k + d) - L) = b[3] + d /\ k + d \in L + 1 .. L + n + 1
            <4>1. k + d \in L + 1 .. L + n + 1 /\ (k + d) - L = d - e + 1
                BY <1>3, <2>1, <2>3, <3>1
            <4>2. written = b[3] + e - 1
                BY <1>1, <3>1, <3>3, <3>7
            <4>3. QED
                BY <1>1, <2>1, <3>1, <3>3, <4>1, <4>2
        <3>9. QED
            BY <1>8, <3>3, <3>7, <3>8
    <2>4. CASE k > L + 1
        <3>1. k \in L + 1 .. L + n + 1 /\ k + d \in L + 1 .. L + n + 1
            BY <1>1, <1>3, <2>1, <2>4
        <3>2. CASE written + (k - L) <= P
            <4>1. Byte(k)' = <<next, part, written + (k - L)>>
                BY <1>8, <3>1, <3>2 DEF Place, P
            <4>2. (written + (k - L)) + d = written + ((k + d) - L)
                BY <1>1, <2>1
            <4>3. QED
                BY <1>8, <3>1, <4>1, <4>2
        <3>3. CASE ~(written + (k - L) <= P)
            <4>1. k = L + n + 1 /\ d = 0 /\ k + d = k /\ ~(k <= L + n)
                BY <1>1, <1>3, <2>1, <3>1, <3>3
            <4>2. Byte(k)' = <<next', part', written' + 1>>
                BY <1>0, <1>5, <4>1 DEF Byte
            <4>3. written' + 1 <= PartSize(next', part') /\ (written' + 1) + d = written' + 1
                <5>1. CASE next' <= Posts
                    BY <1>6, <4>1, <5>1, SizeFacts
                <5>2. CASE ~(next' <= Posts)
                    BY <1>6, <4>1, <5>2, SizeFacts
                <5>3. QED
                    BY <5>1, <5>2
            <4>4. QED
                BY <4>1, <4>2, <4>3 DEF Place, P
        <3>4. QED
            BY <3>2, <3>3
    <2>5. QED
        BY <1>1, <2>1, <2>2, <2>3, <2>4
<1>10. \A m \in 1 .. Posts, p \in Parts, j \in Nat :
          Before(m, p, j, next, part, written) =>
              Before(m, p, j, next', part', written')
    <2>1. CASE written + n < P
        BY <1>1, <1>2, <1>3, <2>1 DEF WroteSome, Before, P
    <2>2. CASE ~(written + n < P)
        BY <1>1, <1>2, <1>3, <2>2 DEF WroteSome, Before, P, Parts
    <2>3. QED
        BY <2>1, <2>2
<1>11. \A k \in 1 .. Len(stream') :
          /\ stream'[k][3] <= PartSize(stream'[k][1], stream'[k][2])
          /\ Before(stream'[k][1], stream'[k][2], stream'[k][3],
                    next', part', written')
    <2> TAKE k \in 1 .. Len(stream')
    <2>1. CASE k <= L
        <3>1. /\ k \in 1 .. L /\ stream[k] \in Bytes /\ stream'[k] = stream[k]
            BY <1>0, <1>1, <1>5, <2>1, ElementOfSeq
        <3>2. stream[k][1] \in 1 .. Posts /\ stream[k][2] \in Parts /\ stream[k][3] \in Nat
            BY <3>1 DEF Bytes
        <3>3. /\ stream[k][3] <= PartSize(stream[k][1], stream[k][2])
              /\ Before(stream[k][1], stream[k][2], stream[k][3], next, part, written)
            BY <1>0, <3>1 DEF FInv, StreamInStep
        <3>4. QED
            <4>1. Before(stream[k][1], stream[k][2], stream[k][3],
                         next', part', written')
                BY <1>10, <3>2, <3>3
            <4>2. QED
                BY <3>1, <3>3, <4>1
    <2>2. CASE k > L
        <3>1. stream'[k] = <<next, part, written + (k - L)>>
            BY <1>1, <1>5, <2>2
        <3>2. written + (k - L) <= written + n /\ written + (k - L) <= P
              /\ written + (k - L) \in Nat
            BY <1>1, <1>3, <1>5, <2>2
        <3>3. Before(next, part, written + (k - L), next', part', written')
            <4>1. CASE written + n < P
                BY <1>1, <1>2, <1>3, <3>2, <4>1 DEF WroteSome, Before, P
            <4>2. CASE ~(written + n < P)
                BY <1>1, <1>2, <1>3, <4>2 DEF WroteSome, Before, P, Parts
            <4>3. QED
                BY <4>1, <4>2
        <3>4. QED
            BY <3>1, <3>2, <3>3 DEF P
    <2>3. QED
        BY <1>1, <1>5, <2>1, <2>2
<1>12. Known > 0 /\ Known' > 0 /\ Byte(1)' = Byte(1)
    BY <1>1, <1>3, <1>7, <1>8
<1>13. StreamInStep'
    BY <1>1, <1>9, <1>11, <1>12 DEF FInv, StreamInStep, Awaited, Ended
<1>14. FType'
    BY <1>1, <1>3, <1>5, <1>6 DEF FInv, FType
<1>15. BufferInStep'
    <2>1. Len(arrived) \in Nat
        BY LenProperties DEF FInv, FType
    <2>2. Len(arrived) + 1 < next => Len(arrived) + 1 < next'
        BY <1>1, <1>6, <2>1
    <2>3. QED
        BY <1>1, <1>12, <2>2
           DEF FInv, BufferInStep, Receiving, Wanted, Complete
<1>16. ArrivedInStep'
    <2>1. Len(arrived) \in Nat
        BY LenProperties DEF FInv, FType
    <2>2. QED
        BY <1>1, <1>6, <1>12, <2>1 DEF FInv, ArrivedInStep, HasTorn
<1>17. QED
    BY <1>13, <1>14, <1>15, <1>16 DEF FInv

(* A sequence cut in two. *)
LEMMA CutInTwo ==
    ASSUME NEW S, NEW s \in Seq(S), NEW n \in 0 .. Len(s)
    PROVE  LET front == SubSeq(s, 1, n)
               rest == SubSeq(s, n + 1, Len(s))
           IN  /\ front \in Seq(S) /\ Len(front) = n
               /\ \A k \in 1 .. n : front[k] = s[k]
               /\ rest \in Seq(S) /\ Len(rest) = Len(s) - n
               /\ \A k \in 1 .. Len(s) - n : rest[k] = s[k + n]
<1> DEFINE front == SubSeq(s, 1, n)
           rest == SubSeq(s, n + 1, Len(s))
<1>1. Len(s) \in Nat /\ n \in Nat /\ n <= Len(s) /\ \A i \in 1 .. Len(s) : s[i] \in S
    BY LenProperties, ElementOfSeq
<1>2. /\ front \in Seq(S)
      /\ Len(front) = IF 1 <= n THEN n - 1 + 1 ELSE 0
      /\ \A k \in 1 .. n - 1 + 1 : front[k] = s[1 + k - 1]
    <2>1. 1 \in Int /\ n \in Int /\ \A i \in 1 .. n : s[i] \in S
        BY <1>1
    <2>2. QED
        BY <2>1, SubSeqProperties
<1>3. /\ rest \in Seq(S)
      /\ Len(rest) = IF n + 1 <= Len(s) THEN Len(s) - (n + 1) + 1 ELSE 0
      /\ \A k \in 1 .. Len(s) - (n + 1) + 1 : rest[k] = s[n + 1 + k - 1]
    <2>1. n + 1 \in Int /\ Len(s) \in Int /\ \A i \in n + 1 .. Len(s) : s[i] \in S
        BY <1>1
    <2>2. QED
        BY <2>1, SubSeqProperties
<1> HIDE DEF front, rest
<1>4. Len(front) = n /\ Len(rest) = Len(s) - n
    BY <1>1, <1>2, <1>3
<1>5. ASSUME NEW k \in 1 .. n PROVE front[k] = s[k]
    <2>1. k \in 1 .. n - 1 + 1 /\ 1 + k - 1 = k
        BY <1>1
    <2>2. QED
        BY <1>2, <2>1
<1>6. ASSUME NEW k \in 1 .. Len(s) - n PROVE rest[k] = s[k + n]
    <2>1. k \in 1 .. Len(s) - (n + 1) + 1 /\ n + 1 + k - 1 = k + n
        BY <1>1
    <2>2. QED
        BY <1>3, <2>1
<1>7. QED
    BY <1>2, <1>3, <1>4, <1>5, <1>6 DEF front, rest

(* The receiver reads n bytes of what it wants. *)
LEMMA ReadInStep == FInv /\ Read => FInv'
<1> SUFFICES ASSUME FInv, Read PROVE FInv'
    OBVIOUS
<1>0. PICK L \in Nat : L = Len(stream)
    BY LenProperties DEF FInv, FType
<1>1. PICK A \in Nat : A = Len(arrived)
    BY LenProperties DEF FInv, FType
<1>2. PICK B \in Nat : B = Len(buf)
    BY LenProperties DEF FInv, FType
<1>3. PICK n \in 1 .. Least(Wanted - Len(buf), Len(stream)) :
          /\ stream' = SubSeq(stream, n + 1, Len(stream))
          /\ ReadSome(n)
    BY DEF Read
<1>4. /\ UNCHANGED <<isServer, next, part, written, sender, arrived>>
      /\ place \in {"length", "bytes"} /\ place \in Parts
      /\ stream \in Seq(Bytes) /\ L <= Room /\ Room \in Nat /\ buf \in Seq(Bytes)
      /\ next \in 1 .. Posts + 1 /\ Posts \in Nat /\ written \in Nat
    BY <1>0, SizeFacts DEF Read, Receiving, FInv, FType, senderVars, Parts
<1>5. L >= 1
    <2>1. Wanted \in Nat
        <3>1. place = "length" => Wanted \in Nat
            BY SizeFacts DEF Wanted
        <3>2. place = "bytes" => Wanted = size /\ size \in Nat
            BY SizeFacts DEF FInv, BufferInStep, Wanted
        <3>3. QED
            BY <1>4, <3>1, <3>2
    <2>2. QED
        BY <1>0, <1>2, <1>3, <2>1 DEF Least
<1>6. PICK K \in Nat : K = Known /\ K >= L /\ K > 0
    BY <1>0, <1>5 DEF Known
<1>7. /\ stream[1] = <<A + 1, place, B + 1>> /\ A + 1 \in 1 .. Posts
      /\ Byte(1) = <<A + 1, place, B + 1>>
    <2>1. Byte(1) = stream[1]
        BY <1>0, <1>5 DEF Byte
    <2>2. Byte(1) = <<A + 1, place, B + 1>>
        BY <1>1, <1>2, <1>4, <1>6 DEF FInv, StreamInStep, Awaited, Ended
    <2>3. stream[1] \in Bytes
        BY <1>0, <1>4, <1>5, ElementOfSeq
    <2>4. QED
        BY <2>1, <2>2, <2>3 DEF Bytes
<1> DEFINE W == PartSize(A + 1, place)
<1>8. /\ Wanted = W /\ W \in Nat
      /\ place = "bytes" => size = Sizes[A + 1]
    <2>1. W \in Nat
        BY <1>4, <1>7, SizeFacts
    <2>2. place = "bytes" => size = Sizes[A + 1]
        BY <1>1, <1>6 DEF FInv, BufferInStep
    <2>3. QED
        BY <1>4, <2>1, <2>2 DEF Wanted, PartSize
<1> HIDE DEF W
<1>9. n \in Nat /\ n >= 1 /\ n <= L /\ B + n <= W
    BY <1>0, <1>2, <1>3, <1>8 DEF Least
<1>10. /\ stream' \in Seq(Bytes) /\ Len(stream') = L - n /\ L - n \in Nat
       /\ \A k \in 1 .. L - n : stream'[k] = stream[k + n]
       /\ Len(SubSeq(stream, 1, n)) = n /\ SubSeq(stream, 1, n) \in Seq(Bytes)
       /\ \A k \in 1 .. n : SubSeq(stream, 1, n)[k] = stream[k]
    <2>1. n \in 0 .. Len(stream)
        BY <1>0, <1>9
    <2>2. QED
        BY <1>0, <1>3, <1>4, <1>9, <2>1, CutInTwo
<1>11. Known' = K - n /\ K - n \in Nat
    BY <1>0, <1>4, <1>6, <1>9, <1>10 DEF Known
<1>12. ASSUME NEW k \in 1 .. K - n PROVE Byte(k)' = Byte(k + n)
    <2>1. CASE k <= L - n
        <3>1. k \in 1 .. L - n /\ k + n <= L
            BY <1>9, <2>1
        <3>2. QED
            BY <1>0, <1>10, <2>1, <3>1 DEF Byte
    <2>2. CASE ~(k <= L - n)
        <3>1. ~(k + n <= L)
            BY <1>9, <2>2
        <3>2. QED
            BY <1>0, <1>4, <1>10, <2>2, <3>1 DEF Byte
    <2>3. QED
        BY <2>1, <2>2
<1>13. ASSUME NEW e \in 1 .. n PROVE stream[e] = <<A + 1, place, B + e>>
    <2>1. /\ 1 \in 1 .. Known /\ e - 1 \in 0 .. Known - 1 /\ 1 + (e - 1) = e
          /\ (B + 1) + (e - 1) = B + e /\ B + e <= W /\ B + e <= W + 1 /\ e <= L
        BY <1>6, <1>8, <1>9
    <2>2. Byte(1)[3] + (e - 1) <= PartSize(Byte(1)[1], Byte(1)[2]) + 1
        BY <1>7, <2>1 DEF W
    <2>3. Byte(1 + (e - 1)) = Place(A + 1, place, (B + 1) + (e - 1))
        BY <1>7, <2>1, <2>2 DEF FInv, StreamInStep, Runs
    <2>4. QED
        BY <1>0, <2>1, <2>3 DEF Byte, Place, W
<1>14. Known' > 0 => Byte(1)' = Place(A + 1, place, B + n + 1)
    <2> SUFFICES ASSUME Known' > 0
                 PROVE  Byte(1)' = Place(A + 1, place, B + n + 1)
        OBVIOUS
    <2>1. /\ 1 \in 1 .. Known /\ n \in 0 .. Known - 1 /\ 1 \in 1 .. K - n
          /\ (B + 1) + n = B + n + 1 /\ B + n + 1 <= W + 1
        BY <1>6, <1>8, <1>9, <1>11
    <2>2. Byte(1)' = Byte(1 + n)
        BY <1>12, <2>1
    <2>3. Byte(1)[3] + n <= PartSize(Byte(1)[1], Byte(1)[2]) + 1
        BY <1>7, <2>1 DEF W
    <2>4. Byte(1 + n) = Place(Byte(1)[1], Byte(1)[2], Byte(1)[3] + n)
        BY <2>1, <2>3 DEF FInv, StreamInStep, Runs
    <2>5. QED
        BY <1>7, <2>1, <2>2, <2>4
<1>15. Runs'
    <2> SUFFICES ASSUME NEW k \in 1 .. Known', NEW d \in 0 .. Known' - k,
                        Byte(k)'[3] + d <= PartSize(Byte(k)'[1], Byte(k)'[2]) + 1
                 PROVE  Byte(k + d)' =
                            Place(Byte(k)'[1], Byte(k)'[2], Byte(k)'[3] + d)
        BY DEF Runs
    <2>1. /\ k \in 1 .. K - n /\ k + d \in 1 .. K - n /\ d \in Nat
          /\ k + n \in 1 .. Known /\ d \in 0 .. Known - (k + n)
          /\ (k + d) + n = (k + n) + d
        BY <1>6, <1>9, <1>11
    <2>2. Byte(k)' = Byte(k + n) /\ Byte(k + d)' = Byte((k + n) + d)
        BY <1>12, <2>1
    <2>3. QED
        BY <2>1, <2>2 DEF FInv, StreamInStep, Runs
<1>16. \A k \in 1 .. Len(stream') :
          /\ stream'[k][3] <= PartSize(stream'[k][1], stream'[k][2])
          /\ Before(stream'[k][1], stream'[k][2], stream'[k][3],
                    next', part', written')
    <2> TAKE k \in 1 .. Len(stream')
    <2>1. stream'[k] = stream[k + n] /\ k + n \in 1 .. Len(stream)
        BY <1>0, <1>9, <1>10
    <2>2. QED
        BY <1>4, <2>1 DEF FInv, StreamInStep
<1> DEFINE b == buf \o SubSeq(stream, 1, n)
<1>17. /\ b \in Seq(Bytes) /\ Len(b) = B + n /\ B + n \in Nat
       /\ b = Run(A + 1, place, B + n)
    <2>1. /\ b \in Seq(Bytes) /\ Len(b) = B + n
          /\ \A i \in 1 .. B + n : b[i] =
                 IF i <= B THEN buf[i] ELSE SubSeq(stream, 1, n)[i - B]
        <3> DEFINE t == SubSeq(stream, 1, n)
        <3>1. t \in Seq(Bytes) /\ Len(t) = n
            BY <1>10
        <3> HIDE DEF t
        <3>2. /\ buf \o t \in Seq(Bytes) /\ Len(buf \o t) = Len(buf) + Len(t)
              /\ \A i \in 1 .. Len(buf) + Len(t) :
                    (buf \o t)[i] = IF i <= Len(buf) THEN buf[i] ELSE t[i - Len(buf)]
            BY <1>4, <3>1, ConcatProperties
        <3>3. QED
            BY <1>2, <3>1, <3>2 DEF t
    <2> HIDE DEF b
    <2>2. buf = Run(A + 1, place, B)
        BY <1>1, <1>2, <1>4 DEF FInv, BufferInStep, Receiving
    <2>3. ASSUME NEW i \in 1 .. B + n PROVE b[i] = <<A + 1, place, i>>
        <3>1. CASE i <= B
            <4>1. i \in 1 .. B
                BY <3>1
            <4>2. QED
                BY <2>1, <2>2, <3>1, <4>1 DEF Run
        <3>2. CASE ~(i <= B)
            <4>1. i - B \in 1 .. n /\ B + (i - B) = i
                BY <1>9, <3>2
            <4>2. b[i] = stream[i - B]
                BY <1>10, <2>1, <3>2, <4>1
            <4>3. QED
                BY <1>13, <4>1, <4>2
        <3>3. QED
            BY <3>1, <3>2
    <2>4. b = [i \in 1 .. B + n |-> b[i]]
        BY <2>1, LenProperties
    <2>5. QED
        BY <1>9, <2>1, <2>3, <2>4 DEF Run
<1> HIDE DEF b
<1>18. /\ Len(b) < Wanted => buf' = b /\ UNCHANGED <<place, size>>
       /\ ~(Len(b) < Wanted) => PartRead(b)
    BY <1>3 DEF ReadSome, b
<1>19. ~HasTorn /\ A < next /\ \A k \in 1 .. A : arrived[k] = k
    <2>1. ~HasTorn
        BY <1>6 DEF FInv, ArrivedInStep
    <2>2. QED
        BY <1>1, <2>1 DEF FInv, ArrivedInStep, HasTorn
<1>20. ArrivedInStep'
    <2>1. arrived' = arrived /\ ~HasTorn' /\ next' = next
        BY <1>4, <1>19 DEF HasTorn
    <2>2. QED
        BY <1>1, <1>19, <2>1 DEF ArrivedInStep
<1>21. ASSUME buf' \in Seq(Bytes), place' \in {"length", "bytes", "decode"},
              Known' > 0 => Byte(1)' = Awaited', BufferInStep'
       PROVE  FInv'
    <2>1. FType'
        BY <1>0, <1>4, <1>9, <1>10, <1>21 DEF FInv, FType
    <2>2. StreamInStep'
        BY <1>15, <1>16, <1>21 DEF StreamInStep
    <2>3. QED
        BY <1>20, <1>21, <2>1, <2>2 DEF FInv
<1>22. CASE B + n < W
    <2>1. buf' = b /\ place' = place /\ size' = size
        BY <1>8, <1>17, <1>18, <1>22
    <2>2. Known' > 0 => Byte(1)' = Awaited'
        <3>1. Place(A + 1, place, B + n + 1) = <<A + 1, place, B + n + 1>>
            BY <1>8, <1>9, <1>22 DEF Place, W
        <3>2. QED
            BY <1>1, <1>4, <1>14, <1>17, <2>1, <3>1 DEF Awaited
    <2>3. BufferInStep'
        <3>1. Wanted' = W /\ Len(arrived)' = A /\ Len(buf') = B + n
            BY <1>1, <1>4, <1>8, <1>17, <2>1 DEF Wanted
        <3>2. Receiving' =>
                  buf' = Run(Len(arrived)' + 1, place', Len(buf')) /\ Len(buf') < Wanted'
            BY <1>17, <1>22, <2>1, <3>1
        <3>3. QED
            BY <1>4, <1>7, <1>8, <2>1, <3>1, <3>2 DEF BufferInStep
    <2>4. QED
        BY <1>4, <1>17, <1>21, <2>1, <2>2, <2>3
<1>23. CASE B + n = W /\ place = "length"
    <2>1. PartRead(b)
        BY <1>8, <1>17, <1>18, <1>23
    <2>2. b = PartBytes(A + 1, "length") /\ W = IntSize
        BY <1>17, <1>23 DEF Run, PartBytes, PartSize, W
    <2>3. place' = "bytes" /\ buf' = <<>> /\ size' = Sizes[b[1][1]]
        BY <1>7, <1>23, <2>1, <2>2 DEF PartRead
    <2>4. b[1] = <<A + 1, "length", 1>>
        <3>1. 1 \in 1 .. IntSize
            BY SizeFacts
        <3>2. QED
            BY <2>2, <3>1 DEF PartBytes, PartSize
    <2>5. size' = Sizes[A + 1] /\ Sizes[A + 1] \in Nat /\ Sizes[A + 1] > 0
        BY <1>7, <2>3, <2>4, SizeFacts
    <2>6. Known' > 0 => Byte(1)' = Awaited'
        <3>1. ~(B + n + 1 <= PartSize(A + 1, place))
            BY <1>8, <1>9, <1>23 DEF W
        <3>2. Place(A + 1, place, B + n + 1) = <<A + 1, "bytes", 1>>
            BY <1>23, <3>1 DEF Place
        <3>3. Len(buf') = 0
            BY <2>3
        <3>4. QED
            BY <1>1, <1>4, <1>14, <2>3, <3>2, <3>3 DEF Awaited
    <2>7. BufferInStep'
        <3>1. Len(buf') = 0 /\ buf' = Run(A + 1, "bytes", 0)
            BY <2>3 DEF Run
        <3>2. QED
            BY <1>1, <1>4, <1>7, <2>3, <2>5, <3>1 DEF BufferInStep, Wanted, Receiving
    <2>8. <<>> \in Seq(Bytes)
        OBVIOUS
    <2>9. QED
        BY <1>21, <2>3, <2>6, <2>7, <2>8
<1>24. CASE B + n = W /\ place = "bytes"
    <2>1. PartRead(b)
        BY <1>8, <1>17, <1>18, <1>24
    <2>2. place' = "decode" /\ buf' = b
        BY <1>24, <2>1 DEF PartRead
    <2>3. b = PartBytes(A + 1, "bytes")
        BY <1>17, <1>24 DEF Run, PartBytes, W
    <2>4. A + 1 < next
        <3>1. stream[n] = <<A + 1, "bytes", W>> /\ n \in 1 .. Len(stream)
            BY <1>0, <1>9, <1>13, <1>24
        <3>2. Before(A + 1, "bytes", W, next, part, written)
            BY <3>1 DEF FInv, StreamInStep
        <3>3. ASSUME A + 1 = next PROVE FALSE
            <4>1. next <= Posts
                BY <1>4, <1>7, <3>3
            <4>2. written < PartSize(next, part)
                BY <4>1 DEF FInv, FType
            <4>3. part = "bytes" /\ W <= written
                BY <1>4, <3>2, <3>3 DEF Before
            <4>4. QED
                BY <1>4, <1>8, <1>24, <3>3, <4>2, <4>3 DEF W
        <3>4. QED
            BY <1>4, <3>2, <3>3 DEF Before
    <2>5. Known' > 0 => Byte(1)' = Awaited'
        <3>1. ~(B + n + 1 <= PartSize(A + 1, place))
            BY <1>8, <1>9, <1>24 DEF W
        <3>2. Place(A + 1, place, B + n + 1) = <<A + 1 + 1, "length", 1>>
            BY <1>24, <3>1 DEF Place
        <3>3. QED
            BY <1>1, <1>4, <1>14, <2>2, <3>2 DEF Awaited
    <2>6. BufferInStep'
        BY <1>1, <1>4, <2>2, <2>3, <2>4 DEF BufferInStep, Receiving
    <2>7. QED
        BY <1>17, <1>21, <2>2, <2>5, <2>6
<1>25. QED
    BY <1>4, <1>8, <1>9, <1>22, <1>23, <1>24

(* The sender ends, and part of what is on its way may be lost. *)
LEMMA SenderEndsInStep == FInv /\ (WriteFails \/ EndSender) => FInv'
<1> SUFFICES ASSUME FInv, WriteFails \/ EndSender PROVE FInv'
    OBVIOUS
<1>0. PICK L \in Nat : L = Len(stream)
    BY LenProperties DEF FInv, FType
<1>1. /\ sender = "up" /\ sender' \in {"closed", "reset"}
      /\ UNCHANGED <<isServer, next, part, written, place, buf, size, arrived>>
      /\ stream \in Seq(Bytes) /\ L <= Room /\ Room \in Nat
    BY <1>0, SizeFacts
       DEF WriteFails, EndSender, FInv, FType, senderVars, receiverVars
<1>2. PICK k \in 0 .. L : /\ stream' \in Seq(Bytes) /\ Len(stream') = k
                          /\ \A i \in 1 .. k : stream'[i] = stream[i]
    <2>1. CASE UNCHANGED stream
        BY <1>0, <1>1, <2>1
    <2>2. CASE \E k \in 0 .. Len(stream) : stream' = SubSeq(stream, 1, k)
        <3>1. PICK k \in 0 .. Len(stream) : stream' = SubSeq(stream, 1, k)
            BY <2>2
        <3>2. /\ stream' \in Seq(Bytes) /\ Len(stream') = k
              /\ \A i \in 1 .. k : stream'[i] = stream[i]
            BY <1>1, <3>1, CutInTwo
        <3>3. QED
            BY <1>0, <3>2
    <2>3. QED
        BY <2>1, <2>2 DEF WriteFails, EndSender
<1>3. Known = L + 1 /\ Known' = k /\ k \in Nat /\ k <= L
    BY <1>0, <1>1, <1>2 DEF Known
<1>4. ASSUME NEW i \in 1 .. k PROVE Byte(i)' = Byte(i) /\ stream'[i] = stream[i]
    BY <1>0, <1>2, <1>3 DEF Byte
<1>5. Runs'
    <2> SUFFICES ASSUME NEW i \in 1 .. Known', NEW d \in 0 .. Known' - i,
                        Byte(i)'[3] + d <= PartSize(Byte(i)'[1], Byte(i)'[2]) + 1
                 PROVE  Byte(i + d)' =
                            Place(Byte(i)'[1], Byte(i)'[2], Byte(i)'[3] + d)
        BY DEF Runs
    <2>1. /\ i \in 1 .. k /\ i + d \in 1 .. k
          /\ i \in 1 .. Known /\ d \in 0 .. Known - i
        BY <1>3
    <2>2. Byte(i)' = Byte(i) /\ Byte(i + d)' = Byte(i + d)
        BY <1>4, <2>1
    <2>3. QED
        BY <2>1, <2>2 DEF FInv, StreamInStep, Runs
<1>6. \A i \in 1 .. Len(stream') :
          /\ stream'[i][3] <= PartSize(stream'[i][1], stream'[i][2])
          /\ Before(stream'[i][1], stream'[i][2], stream'[i][3],
                    next', part', written')
    <2> TAKE i \in 1 .. Len(stream')
    <2>1. stream'[i] = stream[i] /\ i \in 1 .. Len(stream)
        BY <1>0, <1>2, <1>3
    <2>2. QED
        BY <1>1, <2>1 DEF FInv, StreamInStep
<1>7. Known' > 0 => Byte(1)' = Byte(1) /\ Known > 0
    BY <1>3, <1>4
<1>8. StreamInStep'
    BY <1>1, <1>5, <1>6, <1>7 DEF FInv, StreamInStep, Awaited, Ended
<1>9. FType'
    BY <1>0, <1>1, <1>2, <1>3 DEF FInv, FType
<1>10. Known # 0
    BY <1>3
<1>11. BufferInStep' /\ ArrivedInStep'
    BY <1>1, <1>10
       DEF FInv, BufferInStep, ArrivedInStep, Receiving, Ended, Wanted, HasTorn
<1>12. QED
    BY <1>8, <1>9, <1>11 DEF FInv

(* Of a stream that has ended and is empty, only what the receiver has     *)
(* read must be in step.                                                   *)
LEMMA AtTheEnd ==
    ASSUME FInv, Known = 0, stream = <<>>, stream' = <<>>,
           sender' # "up", sender' \in {"up", "closed", "reset"},
           UNCHANGED <<isServer, next, part, written>>,
           buf' \in Seq(Bytes), arrived' \in Seq(Nat),
           place' \in {"length", "bytes", "decode", "gone", "dead"},
           BufferInStep', ArrivedInStep'
    PROVE  FInv'
<1>1. Len(stream') = 0 /\ Known' = 0 /\ Len(stream) = 0
    BY DEF Known
<1>2. Runs'
    BY <1>1 DEF Runs
<1>3. StreamInStep'
    BY <1>1, <1>2 DEF StreamInStep
<1>4. FType'
    BY <1>1, SizeFacts DEF FInv, FType
<1>5. QED
    BY <1>3, <1>4 DEF FInv

LEMMA ReadFailsInStep == FInv /\ ReadFails => FInv'
<1> SUFFICES ASSUME FInv, ReadFails PROVE FInv'
    OBVIOUS
<1>1. /\ Receiving /\ stream = <<>> /\ stream' = <<>> /\ sender = "reset"
      /\ sender' = "closed" /\ (place' = "gone" \/ (~isServer /\ place' = place))
      /\ UNCHANGED <<isServer, next, part, written, buf, size, arrived>>
    BY DEF ReadFails, senderVars
<1>2. Known = 0 /\ Known' = 0
    <2>1. Len(stream) = 0 /\ Len(stream') = 0
        BY <1>1
    <2>2. QED
        BY <1>1, <2>1 DEF Known
<1>3. BufferInStep'
    BY <1>1, <1>2
       DEF FInv, BufferInStep, Receiving, Wanted, Complete
<1>4. ArrivedInStep'
    BY <1>1, <1>2 DEF FInv, ArrivedInStep, HasTorn, Ended, Receiving
<1>5. QED
    BY <1>1, <1>2, <1>3, <1>4, AtTheEnd DEF FInv, FType

LEMMA ReadEndOfLengthInStep == FInv /\ ReadEndOfLength => FInv'
<1> SUFFICES ASSUME FInv, ReadEndOfLength PROVE FInv'
    OBVIOUS
<1>1. /\ stream = <<>> /\ stream' = <<>> /\ sender = "closed" /\ sender' = "closed"
      /\ place = "length"
      /\ UNCHANGED <<isServer, next, part, written, arrived>>
      /\ \/ place' = "gone" /\ UNCHANGED <<size, buf>>
         \/ ~isServer /\ place' = "bytes" /\ size' = 1 /\ buf' = <<>>
    BY DEF ReadEndOfLength, AtEnd, senderVars
<1>2. Known = 0 /\ Known' = 0
    <2>1. Len(stream) = 0 /\ Len(stream') = 0
        BY <1>1
    <2>2. QED
        BY <1>1, <2>1 DEF Known
<1>3. buf' \in Seq(Bytes)
    BY <1>1 DEF FInv, FType
<1>4. BufferInStep'
    <2>1. CASE place' = "gone"
        BY <2>1 DEF BufferInStep, Receiving
    <2>2. CASE place' = "bytes" /\ size' = 1 /\ buf' = <<>>
        <3>1. Len(buf') = 0 /\ buf' = Run(Len(arrived') + 1, "bytes", 0)
            BY <2>2 DEF Run
        <3>2. QED
            BY <1>2, <2>2, <3>1 DEF BufferInStep, Receiving, Wanted
    <2>3. QED
        BY <1>1, <2>1, <2>2
<1>5. ArrivedInStep'
    BY <1>1, <1>2 DEF FInv, ArrivedInStep, HasTorn, Ended
<1>6. QED
    BY <1>1, <1>2, <1>3, <1>4, <1>5, AtTheEnd DEF FInv, FType

(* What was cut off is never taken for a whole message.                    *)
LEMMA ReadEndOfBytesInStep == FInv /\ ReadEndOfBytes => FInv'
<1> SUFFICES ASSUME FInv, ReadEndOfBytes PROVE FInv'
    OBVIOUS
<1>1. /\ stream = <<>> /\ stream' = <<>> /\ sender = "closed" /\ sender' = "closed"
      /\ place = "bytes" /\ place' = "decode"
      /\ UNCHANGED <<isServer, next, part, written, buf, size, arrived>>
    BY DEF ReadEndOfBytes, AtEnd, senderVars
<1>2. Known = 0 /\ Known' = 0
    <2>1. Len(stream) = 0 /\ Len(stream') = 0
        BY <1>1
    <2>2. QED
        BY <1>1, <2>1 DEF Known
<1>3. ~Complete
    <2> SUFFICES ASSUME NEW m \in 1 .. Posts, buf = PartBytes(m, "bytes") PROVE FALSE
        BY DEF Complete
    <2> DEFINE A == Len(arrived)
               B == Len(buf)
    <2>1. A \in Nat /\ B \in Nat
        BY LenProperties DEF FInv, FType
    <2>2. buf = Run(A + 1, "bytes", B) /\ B < size
        BY <1>1 DEF FInv, BufferInStep, Receiving, Wanted
    <2>3. Sizes[m] \in Nat /\ Sizes[m] > 0
        BY SizeFacts
    <2> HIDE DEF A, B
    <2>4. DOMAIN buf = 1 .. Sizes[m] /\ DOMAIN buf = 1 .. B
        BY <2>2 DEF PartBytes, PartSize, Run
    <2>5. B = Sizes[m]
        BY <2>1, <2>3, <2>4
    <2>6. buf[1] = <<m, "bytes", 1>> /\ buf[1] = <<A + 1, "bytes", 1>>
        <3>1. 1 \in 1 .. Sizes[m] /\ 1 \in 1 .. B
            BY <2>3, <2>5
        <3>2. buf[1] = <<m, "bytes", 1>>
            BY <3>1 DEF PartBytes, PartSize
        <3>3. buf[1] = <<A + 1, "bytes", 1>>
            BY <2>2, <3>1 DEF Run
        <3>4. QED
            BY <3>2, <3>3
    <2>7. m = A + 1
        BY <2>6
    <2>8. size = Sizes[m] \/ size = 1
        BY <1>1, <2>7 DEF FInv, BufferInStep, A
    <2>9. QED
        BY <2>2, <2>3, <2>5, <2>8
<1>4. BufferInStep'
    BY <1>1, <1>2, <1>3 DEF BufferInStep, Receiving, Complete
<1>5. ArrivedInStep'
    BY <1>1, <1>2 DEF FInv, ArrivedInStep, HasTorn, Ended
<1>6. QED
    BY <1>1, <1>2, <1>4, <1>5, AtTheEnd DEF FInv, FType

(* What the receiver decodes: the next message, or a torn one.             *)
LEMMA WhatIsDecoded ==
    ASSUME FInv, place = "decode"
    PROVE  /\ Len(arrived) \in Nat /\ Len(arrived) < next
           /\ \A k \in 1 .. Len(arrived) : arrived[k] = k
           /\ Complete => /\ Len(arrived) + 1 < next
                          /\ buf[1][1] = Len(arrived) + 1
           /\ ~Complete => Known = 0
<1>1. Len(arrived) \in Nat /\ next \in 1 .. Posts + 1 /\ Posts \in Nat
    BY SizeFacts, LenProperties DEF FInv, FType
<1>2. ~HasTorn
    BY DEF FInv, ArrivedInStep, Ended
<1>3. Len(arrived) < next /\ \A k \in 1 .. Len(arrived) : arrived[k] = k
    BY <1>1, <1>2 DEF FInv, ArrivedInStep, HasTorn
<1>4. CASE Len(arrived) + 1 < next /\ buf = PartBytes(Len(arrived) + 1, "bytes")
    <2>1. Len(arrived) + 1 \in 1 .. Posts
        BY <1>1, <1>4
    <2>2. 1 \in 1 .. Sizes[Len(arrived) + 1]
        BY <2>1, SizeFacts
    <2>3. buf[1] = <<Len(arrived) + 1, "bytes", 1>>
        BY <1>4, <2>2 DEF PartBytes, PartSize
    <2>4. QED
        BY <1>1, <1>3, <1>4, <2>1, <2>3 DEF Complete
<1>5. CASE Known = 0 /\ ~Complete
    BY <1>1, <1>3, <1>5
<1>6. QED
    BY <1>4, <1>5 DEF FInv, BufferInStep

LEMMA DecodeInStep == FInv /\ Decode => FInv'
<1> SUFFICES ASSUME FInv, Decode PROVE FInv'
    OBVIOUS
<1>1. PICK A \in Nat : A = Len(arrived)
    BY LenProperties DEF FInv, FType
<1>2. /\ UNCHANGED <<isServer, next, part, written, sender, stream>>
      /\ place = "decode" /\ buf' = <<>> /\ size' = Unknown
      /\ next \in 1 .. Posts + 1 /\ Posts \in Nat /\ arrived \in Seq(Nat)
    BY SizeFacts DEF Decode, senderVars, FInv, FType
<1>3. /\ A < next
      /\ \A k \in 1 .. A : arrived[k] = k
      /\ Complete => A + 1 < next /\ buf[1][1] = A + 1
      /\ ~Complete => Known = 0
    BY <1>1, <1>2, WhatIsDecoded
<1>4. ASSUME NEW e \in Nat, arrived' = Append(arrived, e)
      PROVE  /\ arrived' \in Seq(Nat) /\ Len(arrived') = A + 1
             /\ arrived'[A + 1] = e /\ \A k \in 1 .. A : arrived'[k] = k
    <2>1. /\ Append(arrived, e) \in Seq(Nat)
          /\ Len(Append(arrived, e)) = Len(arrived) + 1
          /\ \A k \in 1 .. Len(arrived) : Append(arrived, e)[k] = arrived[k]
          /\ Append(arrived, e)[Len(arrived) + 1] = e
        BY <1>2, AppendProperties
    <2>2. QED
        BY <1>1, <1>3, <1>4, <2>1
<1>5. Known' = Known /\ \A k : Byte(k)' = Byte(k)
    BY <1>2 DEF Known, Byte
<1>6. Runs'
    BY <1>5 DEF FInv, StreamInStep, Runs
<1>7. \A i \in 1 .. Len(stream') :
          /\ stream'[i][3] <= PartSize(stream'[i][1], stream'[i][2])
          /\ Before(stream'[i][1], stream'[i][2], stream'[i][3],
                    next', part', written')
    BY <1>2 DEF FInv, StreamInStep
<1>8. BufferInStep' \/ place' = "length"
    BY <1>2 DEF Decode, BufferInStep, Receiving
<1>9. place' = "length" => BufferInStep'
    <2>1. Len(buf') = 0 /\ buf' = Run(Len(arrived') + 1, "length", 0)
        BY <1>2 DEF Run
    <2>2. QED
        BY <2>1, SizeFacts DEF BufferInStep, Receiving, Wanted
<1>10. place' \in {"length", "dead", "gone"}
    BY DEF Decode
<1>11. <<>> \in Seq(Bytes)
    OBVIOUS
<1>12. CASE Complete
    <2>1. arrived' = Append(arrived, A + 1) /\ place' = "length" /\ A + 1 \in Nat
        BY <1>3, <1>12 DEF Decode
    <2>2. /\ arrived' \in Seq(Nat) /\ Len(arrived') = A + 1
          /\ arrived'[A + 1] = A + 1 /\ \A k \in 1 .. A : arrived'[k] = k
        BY <1>4, <2>1
    <2>3. Awaited' = Awaited
        <3>1. Len(buf') = 0 /\ A + 1 + 1 = A + 2
            BY <1>2
        <3>2. QED
            BY <1>1, <1>2, <2>1, <2>2, <3>1 DEF Awaited
    <2>4. StreamInStep'
        BY <1>2, <1>5, <1>6, <1>7, <2>3 DEF FInv, StreamInStep, Ended
    <2>5. ~HasTorn'
        BY <2>2 DEF HasTorn, Torn
    <2>6. ArrivedInStep'
        <3>1. ASSUME NEW k \in 1 .. Len(arrived') PROVE arrived'[k] = k
            <4>1. k \in 1 .. A \/ k = A + 1
                BY <2>2
            <4>2. QED
                BY <2>2, <4>1
        <3>2. Len(arrived') < next'
            BY <1>2, <1>3, <1>12, <2>2
        <3>3. QED
            BY <2>5, <3>1, <3>2 DEF ArrivedInStep
    <2>7. FType'
        BY <1>2, <1>10, <1>11, <2>2 DEF FInv, FType
    <2>8. QED
        BY <1>8, <1>9, <2>4, <2>6, <2>7 DEF FInv
<1>13. CASE ~Complete
    <2>1. arrived' = Append(arrived, 0) /\ Known = 0 /\ Known' = 0
        BY <1>3, <1>5, <1>13 DEF Decode, Torn
    <2>2. /\ arrived' \in Seq(Nat) /\ Len(arrived') = A + 1
          /\ arrived'[A + 1] = 0 /\ \A k \in 1 .. A : arrived'[k] = k
        BY <1>4, <2>1
    <2>3. StreamInStep'
        BY <1>6, <1>7, <2>1 DEF StreamInStep
    <2>4. HasTorn'
        BY <2>2 DEF HasTorn, Torn
    <2>5. (place' = "length" /\ isServer') \/ Ended'
        BY <1>2, <1>13 DEF Decode, Ended
    <2>6. ArrivedInStep'
        <3>1. ASSUME NEW k \in 1 .. Len(arrived')
              PROVE  arrived'[k] = k \/ (k = Len(arrived') /\ arrived'[k] = Torn)
            <4>1. k \in 1 .. A \/ k = A + 1
                BY <2>2
            <4>2. QED
                BY <2>2, <4>1 DEF Torn
        <3>2. Len(arrived') <= next'
            BY <1>2, <1>3, <2>2
        <3>3. QED
            BY <2>1, <2>4, <2>5, <3>1, <3>2 DEF ArrivedInStep
    <2>7. FType'
        BY <1>2, <1>10, <1>11, <2>2 DEF FInv, FType
    <2>8. QED
        BY <1>8, <1>9, <2>3, <2>6, <2>7 DEF FInv
<1>14. QED
    BY <1>12, <1>13

LEMMA EndReceiverInStep == FInv /\ EndReceiver => FInv'
<1> SUFFICES ASSUME FInv, EndReceiver PROVE FInv'
    OBVIOUS
<1>1. /\ UNCHANGED <<isServer, next, part, written, sender, stream, buf, size, arrived>>
      /\ place' = "dead"
    BY DEF EndReceiver, senderVars
<1>2. Known' = Known /\ \A k : Byte(k)' = Byte(k)
    BY <1>1 DEF Known, Byte
<1>3. Runs'
    BY <1>2 DEF FInv, StreamInStep, Runs
<1>4. StreamInStep' /\ FType'
    BY <1>1, <1>3 DEF FInv, FType, StreamInStep, Ended
<1>5. BufferInStep' /\ ArrivedInStep'
    BY <1>1, <1>2
       DEF FInv, BufferInStep, ArrivedInStep, Receiving, HasTorn, Ended
<1>6. QED
    BY <1>4, <1>5 DEF FInv

LEMMA FramingInvariance == Spec => []FInv
<1>1. FInv /\ [Next]_vars => FInv'
    <2> SUFFICES ASSUME FInv, [Next]_vars PROVE FInv'
        OBVIOUS
    <2>1. CASE Next
        BY <2>1, WriteInStep, ReadInStep, SenderEndsInStep, ReadFailsInStep,
           ReadEndOfLengthInStep, ReadEndOfBytesInStep, DecodeInStep,
           EndReceiverInStep
           DEF Next, SenderStep, ReceiverStep
    <2>2. CASE UNCHANGED vars
        <3>1. UNCHANGED <<isServer, next, part, written, sender, stream, place, buf,
                          size, arrived>>
            BY <2>2 DEF vars, senderVars, receiverVars
        <3>2. Known' = Known /\ \A k : Byte(k)' = Byte(k)
            BY <3>1 DEF Known, Byte
        <3>3. StreamInStep' /\ FType'
            BY <3>1, <3>2
               DEF FInv, FType, StreamInStep, Runs, Ended, Awaited
        <3>4. BufferInStep' /\ ArrivedInStep'
            BY <3>1, <3>2
               DEF FInv, BufferInStep, ArrivedInStep, Receiving, HasTorn, Ended,
                   Wanted, Complete
        <3>5. QED
            BY <3>3, <3>4 DEF FInv
    <2>3. QED
        BY <2>1, <2>2
<1>2. QED
    BY <1>1, InitInStep, PTL DEF Spec

(* The variables have their types, and read_all stores no more than it is  *)
(* asked for (message.c:278-293).                                          *)
THEOREM FramingTypes == Spec => []TypeOK
<1>1. FInv => TypeOK
    <2> SUFFICES ASSUME FInv PROVE TypeOK
        OBVIOUS
    <2>1. Posts \in Nat /\ Len(arrived) \in Nat
        BY SizeFacts, LenProperties DEF FInv, FType
    <2>2. next <= Posts => written \in 0 .. PartSize(next, part) - 1
        BY <2>1, SizeFacts DEF FInv, FType
    <2>3. Receiving => Len(buf) < Wanted
        BY DEF FInv, BufferInStep
    <2>4. Len(arrived) <= Posts + 1
        BY <2>1 DEF FInv, FType, ArrivedInStep
    <2>5. QED
        BY <2>2, <2>3, <2>4 DEF FInv, FType, TypeOK, Parts
<1>2. QED
    BY <1>1, FramingInvariance, PTL

-----------------------------------------------------------------------------
(* A step that moves neither what is posted nor the ends is a stutter.     *)
LEMMA ChannelStutters ==
    ASSUME next' = next, arrived' = arrived, (sender' = "up") <=> (sender = "up"),
           Ended' <=> Ended
    PROVE  UNCHANGED Channel!vars
BY DEF Channel!vars

LEMMA WriteMaps == FInv /\ Write => [Channel!Next]_(Channel!vars)
<1> SUFFICES ASSUME FInv, Write PROVE [Channel!Next]_(Channel!vars)
    OBVIOUS
<1>1. /\ sender = "up" /\ sender' = "up" /\ next <= Posts
      /\ UNCHANGED <<place, arrived>>
      /\ next \in 1 .. Posts + 1 /\ Posts \in Nat
      /\ next' = next \/ next' = next + 1
    BY SizeFacts DEF Write, WroteSome, receiverVars, FInv, FType
<1>2. CASE next' = next
    BY <1>1, <1>2, ChannelStutters DEF Ended
<1>3. CASE next' = next + 1
    <2>1. next - 1 < Posts /\ next' - 1 = (next - 1) + 1
        BY <1>1, <1>3
    <2>2. Channel!Post
        BY <1>1, <2>1 DEF Channel!Post, Ended
    <2>3. QED
        BY <2>2 DEF Channel!Next
<1>4. QED
    BY <1>1, <1>2, <1>3

LEMMA EndsMap ==
    FInv /\ (WriteFails \/ EndSender \/ EndReceiver) => [Channel!Next]_(Channel!vars)
<1>1. ASSUME WriteFails \/ EndSender PROVE Channel!EndSender
    BY <1>1 DEF WriteFails, EndSender, senderVars, receiverVars, Channel!EndSender, Ended
<1>2. ASSUME EndReceiver PROVE Channel!EndReceiver
    BY <1>2 DEF EndReceiver, senderVars, Channel!EndReceiver, Ended
<1>3. QED
    BY <1>1, <1>2 DEF Channel!Next

LEMMA ReadsMap ==
    FInv /\ (Read \/ ReadFails \/ ReadEndOfLength \/ ReadEndOfBytes)
        => [Channel!Next]_(Channel!vars)
<1> SUFFICES ASSUME Read \/ ReadFails \/ ReadEndOfLength \/ ReadEndOfBytes
             PROVE  [Channel!Next]_(Channel!vars)
    OBVIOUS
<1>1. /\ next' = next /\ arrived' = arrived /\ ~Ended
      /\ (sender' = "up") <=> (sender = "up")
    BY DEF Read, ReadFails, ReadEndOfLength, ReadEndOfBytes, AtEnd, Receiving,
           Ended, senderVars
<1>2. CASE Ended'
    <2>1. Channel!EndReceiver
        BY <1>1, <1>2 DEF Channel!EndReceiver
    <2>2. QED
        BY <2>1 DEF Channel!Next
<1>3. CASE ~Ended'
    BY <1>1, <1>3, ChannelStutters
<1>4. QED
    BY <1>2, <1>3

LEMMA DecodeMaps == FInv /\ Decode => [Channel!Next]_(Channel!vars)
<1> SUFFICES ASSUME FInv, Decode PROVE [Channel!Next]_(Channel!vars)
    OBVIOUS
<1>1. /\ UNCHANGED <<next, sender>> /\ place = "decode" /\ ~Ended
      /\ next \in 1 .. Posts + 1 /\ Posts \in Nat /\ arrived \in Seq(Nat)
    BY SizeFacts DEF Decode, senderVars, FInv, FType, Ended
<1>2. /\ Len(arrived) \in Nat /\ Len(arrived) < next
      /\ \A k \in 1 .. Len(arrived) : arrived[k] = k
      /\ Complete => Len(arrived) + 1 < next /\ buf[1][1] = Len(arrived) + 1
      /\ ~Complete => Known = 0
    BY <1>1, WhatIsDecoded
<1>3. Channel!Torn \notin Channel!Range(arrived)
    <2>1. DOMAIN arrived = 1 .. Len(arrived)
        BY <1>1, LenProperties
    <2>2. QED
        BY <1>2, <2>1 DEF Channel!Range, Channel!Torn
<1>4. CASE Complete
    <2>1. arrived' = Append(arrived, Len(arrived) + 1) /\ place' = "length"
        BY <1>2, <1>4 DEF Decode
    <2>2. Len(arrived) < next - 1
        BY <1>1, <1>2, <1>4
    <2>3. Channel!Arrive
        BY <1>1, <1>3, <2>1, <2>2 DEF Channel!Arrive, Ended
    <2>4. QED
        BY <2>3 DEF Channel!Next
<1>5. CASE ~Complete
    <2>1. arrived' = Append(arrived, Channel!Torn) /\ sender # "up"
        <3>1. Len(stream) \in Nat
            BY LenProperties DEF FInv, FType
        <3>2. QED
            BY <1>2, <1>5, <3>1 DEF Decode, Known, Torn, Channel!Torn
    <2>2. Len(arrived) <= next - 1
        BY <1>1, <1>2
    <2>3. Channel!Tear
        BY <1>1, <1>3, <2>1, <2>2 DEF Channel!Tear
    <2>4. QED
        BY <2>3 DEF Channel!Next
<1>6. QED
    BY <1>4, <1>5

(* Messages arrive whole, in order and once, however the bytes are cut up  *)
(* by write() and read(); only the end of the sender may leave a torn one, *)
(* and that is the last (write_all, read_all and their callers), for any   *)
(* number of messages of any sizes and any room on the way.                *)
THEOREM MessagesArriveWhole == Spec => IsMessageChannel
<1>1. Init => Channel!Init
    BY DEF Init, Channel!Init, Ended
<1>2. FInv /\ [Next]_vars => [Channel!Next]_(Channel!vars)
    <2> SUFFICES ASSUME FInv, [Next]_vars PROVE [Channel!Next]_(Channel!vars)
        OBVIOUS
    <2>1. CASE Next
        BY <2>1, WriteMaps, EndsMap, ReadsMap, DecodeMaps
           DEF Next, SenderStep, ReceiverStep
    <2>2. CASE UNCHANGED vars
        BY <2>2, ChannelStutters DEF vars, senderVars, receiverVars, Ended
    <2>3. QED
        BY <2>1, <2>2
<1>3. QED
    BY <1>1, <1>2, FramingInvariance, PTL DEF Spec, IsMessageChannel, Channel!Spec
=============================================================================
