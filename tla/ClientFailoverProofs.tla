------------------------ MODULE ClientFailoverProofs ------------------------
(***************************************************************************)
(* Proofs about ClientFailover, for any keys and values, any number of     *)
(* attempts, calls and restarts.                                           *)
(***************************************************************************)
EXTENDS ClientFailover, MessageFormatProofs, FiniteSetTheorems

-----------------------------------------------------------------------------
(* What a server answers.                                                  *)

Links == {"none", "new", "accepted", "cut"}

LEMMA CallTypes ==
    ASSUME NEW c \in Calls
    PROVE  /\ c.op \in {"put", "update", "get", "size"} /\ c.table \in {0, 1}
           /\ c.op \in {"put", "update"} => c.key \in Keys /\ c.value \in Values
           /\ c.op = "get" => c.key \in Keys
<1>1. CASE c \in {Call(op, 0, k, v) : op \in {"put", "update"}, k \in Keys, v \in Values}
    BY <1>1 DEF Call
<1>2. CASE c \in {Call("get", 0, k, <<>>) : k \in Keys}
    BY <1>2 DEF Call
<1>3. CASE c \in {Call("size", t, <<>>, <<>>) : t \in {0, 1}}
    BY <1>3 DEF Call
<1>4. QED
    BY <1>1, <1>2, <1>3 DEF Calls

LEMMA RealTable ==
    ASSUME NEW m \in Tables, m # NoTables
    PROVE  \E K \in SUBSET Keys : m \in [K -> Values]
BY DEF Tables

LEMMA TableSize ==
    ASSUME NEW m \in Tables, m # NoTables
    PROVE  Cardinality(DOMAIN m) \in IntRange
<1>1. PICK K \in SUBSET Keys : m \in [K -> Values]
    BY RealTable
<1>2. IsFiniteSet(K) /\ Cardinality(K) <= Cardinality(Keys)
    BY <1>1, ClientFailoverAssumption, FS_Subset
<1>3. Cardinality(K) \in Nat /\ Cardinality(Keys) \in IntRange
    BY <1>2, ClientFailoverAssumption, FS_CardinalityType
<1>4. Cardinality(K) \in IntRange
    <2> DEFINE x == Cardinality(K)
               y == Cardinality(Keys)
    <2>1. x \in Nat /\ y \in IntRange /\ x <= y
        BY <1>2, <1>3
    <2> HIDE DEF x, y
    <2>2. x \in IntRange
        BY ONLY <2>1, SMT DEF IntRange
    <2>3. QED
        BY <2>2 DEF x
<1>5. DOMAIN m = K
    BY <1>1
<1>6. QED
    BY <1>4, <1>5

LEMMA SmallNumbers ==
    /\ 0 \in ShortRange /\ 1 \in ShortRange /\ 11 \in ShortRange /\ 21 \in ShortRange
    /\ 31 \in ShortRange /\ 41 \in ShortRange /\ 99 \in ShortRange
    /\ KnownOpcode(11) /\ KnownOpcode(21) /\ KnownOpcode(31) /\ KnownOpcode(41)
    /\ KnownOpcode(99)
<1>1. /\ 0 \in ShortRange /\ 1 \in ShortRange /\ 11 \in ShortRange /\ 21 \in ShortRange
      /\ 31 \in ShortRange /\ 41 \in ShortRange /\ 99 \in ShortRange
    BY SMT DEF ShortRange
<1>2. KnownOpcode(11) /\ KnownOpcode(21) /\ KnownOpcode(31) /\ KnownOpcode(41)
    BY SMT DEF KnownOpcode
<1>3. KnownOpcode(99)
    BY SMT DEF KnownOpcode
<1>4. QED
    BY <1>1, <1>2, <1>3

LEMMA SmallInts == 0 \in IntRange /\ -1 \in IntRange /\ 1 \in IntRange /\ 10 \in IntRange
BY SMT DEF IntRange

(* An encoded message whose content is a number or a value. *)
WellFormed(bytes) ==
    /\ bytes \in Seq(Byte) /\ Len(bytes) \in IntRange /\ Len(bytes) >= 6
    /\ Decode(bytes) # NoMessage

LEMMA ResultWellFormed ==
    ASSUME NEW op \in ShortRange, KnownOpcode(op), NEW table_num \in ShortRange,
           NEW r \in IntRange
    PROVE  WellFormed(Encode(Message(op, CT_RESULT, table_num, r)))
<1> DEFINE m == Message(op, CT_RESULT, table_num, r)
<1>1. ContentFits(CT_RESULT, r)
    BY DEF ContentFits
<1>2. /\ Encode(m) \in Seq(Byte) /\ Len(Encode(m)) = BufferSize(m)
      /\ Decode(Encode(m)) = <<m>>
    BY <1>1, MessageRoundTrip
<1>3. BufferSize(m) = 6 + 4
    BY ResultContent DEF ContentIs
<1>4. <<m>> # <<>>
    OBVIOUS
<1> HIDE DEF m
<1>5. QED
    BY <1>2, <1>3, <1>4, SmallInts DEF WellFormed, NoMessage, m

LEMMA ValueWellFormed ==
    ASSUME NEW op \in ShortRange, KnownOpcode(op), NEW table_num \in ShortRange,
           NEW v \in Values
    PROVE  WellFormed(Encode(Message(op, CT_VALUE, table_num, v)))
<1> DEFINE m == Message(op, CT_VALUE, table_num, v)
<1>1. v \in Seq(Byte) /\ v # <<>> /\ 10 + Len(v) \in IntRange
    BY ClientFailoverAssumption
<1>2. Len(v) \in Nat
    BY <1>1, LenProperties
<1>3. Len(v) \in IntRange
    <2> DEFINE n == Len(v)
    <2>1. n \in Nat /\ 10 + n \in IntRange
        BY <1>1, <1>2
    <2> HIDE DEF n
    <2>2. n \in IntRange
        BY ONLY <2>1, SMT DEF IntRange
    <2>3. QED
        BY <2>2 DEF n
<1>4. ContentFits(CT_VALUE, v)
    BY <1>1, <1>3 DEF ContentFits, DataFits
<1>5. /\ Encode(m) \in Seq(Byte) /\ Len(Encode(m)) = BufferSize(m)
      /\ Decode(Encode(m)) = <<m>>
    BY <1>4, MessageRoundTrip
<1>6. BufferSize(m) = 6 + (4 + Len(v))
    BY <1>1, ValueContent DEF ContentIs
<1>7. <<m>> # <<>>
    OBVIOUS
<1> HIDE DEF m
<1>8. Len(Encode(m)) = 10 + Len(v) /\ 10 + Len(v) >= 6
    BY <1>2, <1>5, <1>6
<1>9. QED
    BY <1>1, <1>5, <1>7, <1>8 DEF WellFormed, NoMessage, m

(* A server answers a call with a message that its client can read. *)
LEMMA AnswerWellFormed ==
    ASSUME NEW m \in Tables, NEW c \in Calls, ~Misses(m, c)
    PROVE  WellFormed(Encode(Answer(m, c)))
<1>1. c.table \in ShortRange
    BY CallTypes, SmallNumbers
<1>2. CASE ~Accepts(m, c)
    <2>1. Answer(m, c) = Error
        BY <1>2, CallTypes DEF Answer
    <2>2. QED
        BY <2>1, ResultWellFormed, SmallNumbers, SmallInts DEF Error
<1>3. CASE Accepts(m, c) /\ c.op = "get"
    <2>1. Answer(m, c) = Message(31, CT_VALUE, c.table, m[c.key])
        BY <1>3 DEF Answer
    <2>2. m # NoTables /\ c.key \in DOMAIN m
        BY <1>3 DEF Accepts, Misses
    <2>3. m[c.key] \in Values
        BY <2>2, RealTable
    <2>4. QED
        BY <1>1, <2>1, <2>3, ValueWellFormed, SmallNumbers
<1>4. CASE Accepts(m, c) /\ c.op = "size"
    <2>1. Answer(m, c) = Message(11, CT_RESULT, c.table, Cardinality(DOMAIN m))
        BY <1>4 DEF Answer
    <2>2. Cardinality(DOMAIN m) \in IntRange
        BY <1>4, TableSize DEF Accepts
    <2>3. QED
        BY <1>1, <2>1, <2>2, ResultWellFormed, SmallNumbers
<1>5. CASE Accepts(m, c) /\ c.op = "put"
    <2>1. Answer(m, c) = Message(41, CT_RESULT, c.table, 0)
        BY <1>5 DEF Answer
    <2>2. QED
        BY <1>1, <2>1, ResultWellFormed, SmallNumbers, SmallInts
<1>6. CASE Accepts(m, c) /\ c.op = "update"
    <2>1. Answer(m, c) = Message(21, CT_RESULT, c.table, 0)
        BY <1>6 DEF Answer
    <2>2. QED
        BY <1>1, <2>1, ResultWellFormed, SmallNumbers, SmallInts
<1>7. QED
    BY <1>2, <1>3, <1>4, <1>5, <1>6, CallTypes

LEMMA AfterIsATable ==
    ASSUME NEW m \in Tables, NEW c \in Calls
    PROVE  After(m, c) \in Tables
<1>1. CASE Writes(m, c)
    <2>1. m # NoTables /\ c.key \in Keys /\ c.value \in Values
        BY <1>1, CallTypes DEF Writes, Accepts
    <2>2. PICK K \in SUBSET Keys : m \in [K -> Values]
        BY <2>1, RealTable
    <2> DEFINE t == [k \in DOMAIN m \cup {c.key} |-> IF k = c.key THEN c.value ELSE m[k]]
    <2>3. t \in [K \cup {c.key} -> Values] /\ K \cup {c.key} \in SUBSET Keys
        BY <2>1, <2>2
    <2> HIDE DEF t
    <2>4. t \in Tables
        BY <2>3 DEF Tables
    <2>5. QED
        BY <1>1, <2>4 DEF After, t
<1>2. CASE ~Writes(m, c)
    BY <1>2 DEF After
<1>3. QED
    BY <1>1, <1>2

-----------------------------------------------------------------------------
(* Types.                                                                  *)

ServerType ==
    /\ up \subseteq Servers /\ table \in [Servers -> Tables] /\ original \in BOOLEAN
    /\ applied \in [Servers -> Nat]

ConnType ==
    /\ at \in Servers \cup {Nobody} /\ link \in Links
    /\ stream \in Seq(Byte) /\ wire \in Seq(Calls)
    /\ link # "none" => at \in Servers

(* While a call is made there is an attempt left, and while the client     *)
(* binds, a bind.                                                          *)
ClientType ==
    /\ cPos \in {"bind", "greeting", "idle", "send", "size", "body", "unbound",
                 "undefined", "stuck", "ended", "dead"}
    /\ binds \in 0 .. MaxBinds /\ n_tables \in {-1, 0, 1}
    /\ call \in Calls \cup {NoCall} /\ tries \in 0 .. MAX_TENTATIVA
    /\ rSize \in IntRange
    /\ calls \in 0 .. MaxCalls /\ restarts \in 0 .. MaxRestarts
    /\ Calling => tries < MAX_TENTATIVA /\ call \in Calls
    /\ cPos = "bind" => binds < MaxBinds
    /\ cPos = "body" => 0 <= rSize

(* Until the client has read the greeting, nothing else is in the stream;  *)
(* it can be cut only with its connection.                                 *)
Greeted ==
    cPos = "greeting" =>
        /\ wire = <<>>
        /\ \/ link = "new" /\ stream = <<>>
           \/ link \in {"accepted", "cut"} /\ stream = IntBytes(Greeting(at))
           \/ link = "cut" /\ Len(stream) < 4

TInv == ServerType /\ ConnType /\ ClientType /\ Greeted

(* What the client has left behind at a server are calls.                  *)
LeftType == left \in [Servers -> Seq(Calls)]

LEMMA Bounds ==
    /\ MAX_TENTATIVA \in Nat /\ MAX_TENTATIVA > 0 /\ MaxBinds \in Nat /\ MaxBinds > 0
    /\ MaxCalls \in Nat /\ MaxRestarts \in Nat
BY ClientFailoverAssumption

LEMMA OtherIsAServer == ASSUME NEW s PROVE Other(s) \in Servers
BY DEF Other, Servers

LEMMA GreetingBytes ==
    ASSUME NEW s
    PROVE  /\ Greeting(s) \in {-1, 1} /\ Greeting(s) \in IntRange
           /\ IntBytes(Greeting(s)) \in Seq(Byte) /\ Len(IntBytes(Greeting(s))) = 4
           /\ IntAt(IntBytes(Greeting(s)), 1) = Greeting(s)
<1>1. Greeting(s) \in {-1, 1}
    BY DEF Greeting
<1>2. Greeting(s) \in IntRange /\ Greeting(s) \in Int
    BY <1>1, SmallInts
<1>3. Stands(IntBytes(Greeting(s)), 1, IntBytes(Greeting(s)))
    BY StandsAtStart
<1>4. IntAt(IntBytes(Greeting(s)), 1) = Greeting(s)
    BY <1>2, <1>3, IntStands
<1>5. QED
    BY <1>1, <1>2, <1>4, IntBytesTypes

LEMMA TInit == Init => TInv
<1> SUFFICES ASSUME Init PROVE TInv
    OBVIOUS
<1>1. ServerType
    BY DEF Init, ServerType
<1>2. ConnType
    BY DEF Init, ConnType, Links
<1>3. ClientType
    BY Bounds, SmallInts DEF Init, ClientType, Calling
<1>4. Greeted
    BY DEF Init, Greeted
<1>5. QED
    BY <1>1, <1>2, <1>3, <1>4 DEF TInv

(* The pieces of a stream. *)
LEMMA RestTypes ==
    ASSUME NEW s \in Seq(Byte), NEW n \in Nat
    PROVE  SubSeq(s, n + 1, Len(s)) \in Seq(Byte)
<1>1. Len(s) \in Nat
    BY LenProperties
<1>2. \A i \in n + 1 .. Len(s) : s[i] \in Byte
    <2>1. TAKE i \in n + 1 .. Len(s)
    <2>2. i \in 1 .. Len(s)
        BY <1>1
    <2>3. QED
        BY <2>2, ElementOfSeq
<1>3. QED
    BY <1>1, <1>2, SubSeqProperties

LEMMA FrontTypes ==
    ASSUME NEW s \in Seq(Byte), NEW n \in 0 .. Len(s)
    PROVE  SubSeq(s, 1, n) \in Seq(Byte) /\ Len(SubSeq(s, 1, n)) = n
<1>1. Len(s) \in Nat /\ n \in Nat
    BY LenProperties
<1>2. \A i \in 1 .. n : s[i] \in Byte
    <2>1. TAKE i \in 1 .. n
    <2>2. i \in 1 .. Len(s)
        BY <1>1
    <2>3. QED
        BY <2>2, ElementOfSeq
<1>3. QED
    BY <1>1, <1>2, SubSeqProperties

LEMMA OutcomesAre ==
    ASSUME NEW m
    PROVE  Outcomes(m) \subseteq {"idle", "unbound", "dead"}
BY DEF Outcomes

LEMMA ReturnTypes ==
    ASSUME ConnType, NEW m, NEW s \in Servers \cup {Nobody}, NEW l \in Links,
           l # "none" => s \in Servers, NEW rest \in Seq(Byte), Return(m, s, l, rest)
    PROVE  ConnType' /\ cPos' \in {"idle", "unbound", "dead"}
<1>1. cPos' \in {"idle", "unbound", "dead"}
    BY OutcomesAre DEF Return
<1>2. CASE cPos' = "idle"
    <2>1. at' = s /\ link' = l /\ stream' = rest /\ wire' = IF s = at THEN wire ELSE <<>>
        BY <1>2 DEF Return
    <2>2. wire' \in Seq(Calls)
        BY <2>1, EmptySeq DEF ConnType
    <2>3. QED
        BY <1>1, <2>1, <2>2 DEF ConnType
<1>3. CASE cPos' # "idle"
    <2>1. at' = Nobody /\ link' = "none" /\ stream' = <<>> /\ wire' = <<>>
        BY <1>3 DEF Return, Unbound
    <2>2. QED
        BY <1>1, <2>1, EmptySeq DEF ConnType, Links
<1>4. QED
    BY <1>2, <1>3

LEMMA ConnectTypes ==
    ASSUME NEW s \in Servers, ConnectTo(s)
    PROVE  ConnType'
BY EmptySeq DEF ConnectTo, ConnType, Links

LEMMA AttemptTypes ==
    ASSUME ConnType, tries \in Nat, tries < MAX_TENTATIVA, Attempt
    PROVE  /\ ConnType' /\ tries' \in 0 .. MAX_TENTATIVA
           /\ \/ cPos' \in {"idle", "unbound", "dead"}
              \/ cPos' = "send" /\ tries' < MAX_TENTATIVA
<1>1. tries' = tries + 1 /\ tries' \in 0 .. MAX_TENTATIVA
    BY Bounds DEF Attempt
<1>2. CASE Return(NULL, at, link, stream)
    <2>1. /\ at \in Servers \cup {Nobody} /\ link \in Links /\ (link # "none" => at \in Servers)
          /\ stream \in Seq(Byte)
        BY DEF ConnType
    <2>2. ConnType' /\ cPos' \in {"idle", "unbound", "dead"}
        BY <1>2, <2>1, ReturnTypes
    <2>3. QED
        BY <1>1, <2>2
<1>3. CASE ConnectTo(Other(at)) /\ cPos' = "send" /\ tries + 1 < MAX_TENTATIVA
    BY <1>1, <1>3, ConnectTypes, OtherIsAServer
<1>4. CASE Return(Encode(Error), Other(at), "new", <<>>)
    <2>1. Other(at) \in Servers /\ <<>> \in Seq(Byte) /\ "new" \in Links
        BY OtherIsAServer, EmptySeq DEF Links
    <2>2. ConnType' /\ cPos' \in {"idle", "unbound", "dead"}
        BY <1>4, <2>1, ReturnTypes
    <2>3. QED
        BY <1>1, <2>2
<1>5. QED
    BY <1>2, <1>3, <1>4 DEF Attempt

LEMMA MisreadTypes ==
    ASSUME ConnType, tries \in Nat, tries < MAX_TENTATIVA, NEW rest \in Seq(Byte), Misread(rest)
    PROVE  /\ ConnType' /\ tries' \in 0 .. MAX_TENTATIVA
           /\ \/ cPos' \in {"idle", "unbound", "dead"}
              \/ cPos' = "send" /\ tries' < MAX_TENTATIVA
<1>1. CASE Attempt
    BY <1>1, AttemptTypes
<1>2. CASE Return(Garbage, at, link, rest) /\ UNCHANGED tries
    <2>1. at \in Servers \cup {Nobody} /\ link \in Links /\ (link # "none" => at \in Servers)
        BY DEF ConnType
    <2>2. QED
        BY <1>2, <2>1, ReturnTypes, Bounds
<1>3. QED
    BY <1>1, <1>2 DEF Misread

(* The steps of a server, and of what is around. *)
LEMMA AppliedTypes ==
    ASSUME ServerType, NEW s, NEW c \in Calls, NEW also, Applied(s, c, also),
           up' \subseteq Servers, original' \in BOOLEAN
    PROVE  ServerType'
<1> DEFINE on == {x \in {s} \cup also : Writes(table[x], c)}
<1>1. /\ table' = [x \in Servers |-> IF x \in on THEN After(table[x], c) ELSE table[x]]
      /\ applied' = [x \in Servers |->
                        IF x \in on /\ c = call THEN applied[x] + 1 ELSE applied[x]]
    BY DEF Applied
<1> HIDE DEF on
<1>2. \A x \in Servers : table[x] \in Tables /\ applied[x] \in Nat
    BY DEF ServerType
<1>3. \A x \in Servers : After(table[x], c) \in Tables
    BY <1>2, AfterIsATable
<1>4. table' \in [Servers -> Tables]
    BY <1>1, <1>2, <1>3
<1>5. applied' \in [Servers -> Nat]
    BY <1>1, <1>2
<1>6. QED
    BY <1>4, <1>5 DEF ServerType

LEMMA DiesTypes ==
    ASSUME TInv, NEW s \in Servers, Dies(s)
    PROVE  /\ up' \subseteq Servers /\ link' \in Links
           /\ link' # "none" => link # "none"
           /\ link' = link \/ (at = s /\ link' = "cut")
BY DEF Dies, TInv, ServerType, ConnType, Links

LEMMA ConnSame ==
    ASSUME ConnType, UNCHANGED connVars
    PROVE  ConnType'
BY DEF ConnType, connVars

LEMMA ServerSame ==
    ASSUME ServerType, UNCHANGED <<serverVars, applied>>
    PROVE  ServerType'
BY DEF ServerType, serverVars

LEMMA ClientSame ==
    ASSUME ClientType, UNCHANGED <<cPos, binds, n_tables, call, tries, rSize, calls>>,
           restarts' \in 0 .. MaxRestarts
    PROVE  ClientType'
BY DEF ClientType, Calling

LEMMA GreetedSame ==
    ASSUME Greeted, UNCHANGED <<cPos, at, link, stream, wire>>
    PROVE  Greeted'
BY DEF Greeted

LEMMA NotGreeting == ASSUME cPos' # "greeting" PROVE Greeted'
BY DEF Greeted

LEMMA GreetTypes == ASSUME TInv, Greet PROVE TInv'
<1>1. link = "new" /\ link' = "accepted" /\ at' = at /\ wire' = wire /\ cPos' = cPos
    BY DEF Greet
<1>2. stream' = stream \o IntBytes(Greeting(at)) /\ stream \in Seq(Byte)
    BY DEF Greet, TInv, ConnType
<1>3. IntBytes(Greeting(at)) \in Seq(Byte)
    BY GreetingBytes
<1>4. stream' \in Seq(Byte)
    BY <1>2, <1>3, ConcatProperties
<1>5. ConnType'
    BY <1>1, <1>4 DEF TInv, ConnType, Links
<1>6. ServerType'
    BY ServerSame DEF TInv, Greet, callVars
<1>7. ClientType'
    BY ClientSame DEF TInv, Greet, callVars, ClientType
<1>8. Greeted'
    <2> SUFFICES ASSUME cPos' = "greeting" PROVE Greeted'
        BY NotGreeting
    <2>1. wire = <<>> /\ stream = <<>>
        BY <1>1 DEF TInv, Greeted
    <2>2. stream' = IntBytes(Greeting(at))
        BY <1>2, <1>3, <2>1, EmptyFirst
    <2>3. QED
        BY <1>1, <2>1, <2>2 DEF Greeted
<1>9. QED
    BY <1>5, <1>6, <1>7, <1>8 DEF TInv

(* A request on the wire is one of the client's calls, and it is not       *)
(* binding.                                                                *)
LEMMA WireTypes ==
    ASSUME TInv, wire # <<>>
    PROVE  Head(wire) \in Calls /\ Tail(wire) \in Seq(Calls) /\ cPos # "greeting"
<1>1. wire \in Seq(Calls)
    BY DEF TInv, ConnType
<1>2. QED
    BY <1>1, HeadTailProperties DEF TInv, Greeted

LEMMA ServeTypes ==
    ASSUME TInv, Serve
    PROVE  TInv' /\ WellFormed(reply')
<1>1. PICK also \in Followers(at) : Applied(at, Head(wire), also)
    BY DEF Serve
<1>2. Head(wire) \in Calls /\ Tail(wire) \in Seq(Calls) /\ cPos # "greeting"
    BY WireTypes DEF Serve
<1>3. at \in Servers
    BY DEF Serve, TInv, ConnType
<1>4. table[at] \in Tables
    BY <1>3 DEF TInv, ServerType
<1>5. WellFormed(reply')
    BY <1>2, <1>4, AnswerWellFormed DEF Serve
<1>6. IntBytes(Len(reply')) \in Seq(Byte)
    <2>1. Len(reply') \in Int
        BY <1>5, LenProperties DEF WellFormed
    <2>2. QED
        BY <2>1, IntBytesTypes
<1>7. stream' \in Seq(Byte)
    <2> DEFINE s1 == stream
               s2 == IntBytes(Len(reply'))
               s3 == reply'
    <2>1. s1 \in Seq(Byte) /\ s2 \in Seq(Byte) /\ s3 \in Seq(Byte)
        BY <1>5, <1>6 DEF TInv, ConnType, WellFormed
    <2>2. stream' = (s1 \o s2) \o s3
        BY DEF Serve
    <2> HIDE DEF s1, s2, s3
    <2>3. (s1 \o s2) \o s3 \in Seq(Byte)
        BY <2>1, ThreeParts
    <2>4. QED
        BY <2>2, <2>3
<1>8. ConnType'
    BY <1>2, <1>3, <1>7 DEF TInv, ConnType, Serve
<1>9. ServerType'
    BY <1>1, <1>2, AppliedTypes DEF TInv, Serve, ServerType
<1>10. ClientType'
    BY ClientSame DEF TInv, Serve, ClientType
<1>11. Greeted'
    BY <1>2, NotGreeting DEF Serve
<1>12. QED
    BY <1>5, <1>8, <1>9, <1>10, <1>11 DEF TInv

LEMMA ServeMissTypes == ASSUME TInv, ServeMiss PROVE TInv'
<1>1. at \in Servers /\ Dies(at) /\ cPos # "greeting"
    BY WireTypes DEF ServeMiss, TInv, ConnType
<1>2. up' \subseteq Servers /\ link' \in Links /\ (link' # "none" => link # "none")
    BY <1>1, DiesTypes
<1>3. ConnType'
    BY <1>1, <1>2 DEF TInv, ConnType, ServeMiss
<1>4. ServerType'
    BY <1>2 DEF TInv, ServerType, ServeMiss, callVars
<1>5. ClientType'
    BY ClientSame DEF TInv, ServeMiss, callVars, ClientType
<1>6. Greeted'
    BY <1>1, NotGreeting DEF ServeMiss
<1>7. QED
    BY <1>3, <1>4, <1>5, <1>6 DEF TInv

LEMMA ServeDiesTypes == ASSUME TInv, ServeDies PROVE TInv'
<1>1. at \in Servers /\ Dies(at) /\ cPos # "greeting" /\ Head(wire) \in Calls
    BY WireTypes DEF ServeDies, TInv, ConnType
<1>2. up' \subseteq Servers /\ link' \in Links /\ (link' # "none" => link # "none")
    BY <1>1, DiesTypes
<1>3. PICK also \in {{}} \cup Followers(at) : Applied(at, Head(wire), also)
    BY DEF ServeDies
<1>4. ConnType'
    BY <1>1, <1>2 DEF TInv, ConnType, ServeDies
<1>5. ServerType'
    <2>1. original' \in BOOLEAN
        BY DEF ServeDies, TInv, ServerType
    <2>2. QED
        BY <1>1, <1>2, <1>3, <2>1, AppliedTypes DEF TInv
<1>6. ClientType'
    BY ClientSame DEF TInv, ServeDies, ClientType
<1>7. Greeted'
    BY <1>1, NotGreeting DEF ServeDies
<1>8. QED
    BY <1>4, <1>5, <1>6, <1>7 DEF TInv

LEMMA CrashTypes == ASSUME TInv, NEW s \in Servers, Crash(s) PROVE TInv'
<1>1. up' \subseteq Servers /\ link' \in Links /\ (link' # "none" => link # "none")
    BY DiesTypes DEF Crash
<1>2. link' = link \/ (at = s /\ link' = "cut")
    BY DiesTypes DEF Crash
<1>3. at' = at /\ wire' = wire /\ cPos' = cPos
    BY DEF Crash
<1>4. stream \in Seq(Byte)
    BY DEF TInv, ConnType
<1>5. ASSUME at = s PROVE ConnType' /\ Greeted'
    <2>1. PICK k \in 0 .. Len(stream) : stream' = SubSeq(stream, 1, k)
        BY <1>5 DEF Crash
    <2>2. stream' \in Seq(Byte) /\ Len(stream') = k
        BY <1>4, <2>1, FrontTypes
    <2>3. ConnType'
        BY <1>1, <1>3, <2>2 DEF TInv, ConnType
    <2>4. Greeted'
        <3> SUFFICES ASSUME cPos' = "greeting" PROVE Greeted'
            BY NotGreeting
        <3>1. /\ wire = <<>>
              /\ \/ link = "new" /\ stream = <<>>
                 \/ link \in {"accepted", "cut"} /\ stream = IntBytes(Greeting(at))
                 \/ link = "cut" /\ Len(stream) < 4
            BY <1>3 DEF TInv, Greeted
        <3>2. link' = "cut"
            BY <1>5, <3>1 DEF Crash, Dies
        <3>3. CASE k = Len(stream)
            <4>1. stream' = stream
                BY <1>4, <2>1, <3>3, SubSeqFull
            <4>2. Len(<<>>) < 4
                BY EmptySeq
            <4>3. QED
                BY <1>3, <3>1, <3>2, <4>1, <4>2 DEF Greeted
        <3>4. CASE k < Len(stream)
            <4>1. Len(stream) <= 4
                <5>1. stream = <<>> => Len(stream) = 0
                    BY EmptySeq
                <5>2. stream = IntBytes(Greeting(at)) => Len(stream) = 4
                    BY GreetingBytes
                <5>3. Len(stream) \in Nat
                    BY <1>4, LenProperties
                <5>4. Len(stream) = 0 \/ Len(stream) = 4 \/ Len(stream) < 4
                    BY <3>1, <5>1, <5>2
                <5> DEFINE n == Len(stream)
                <5>5. n \in Nat /\ (n = 0 \/ n = 4 \/ n < 4)
                    BY <5>3, <5>4
                <5> HIDE DEF n
                <5>6. n <= 4
                    BY <5>5
                <5>7. QED
                    BY <5>6 DEF n
            <4>2. Len(stream') < 4
                <5>1. Len(stream) \in Nat
                    BY <1>4, LenProperties
                <5>2. QED
                    BY <2>2, <3>4, <4>1, <5>1
            <4>3. QED
                BY <1>3, <3>1, <3>2, <4>2 DEF Greeted
        <3>5. k = Len(stream) \/ k < Len(stream)
            BY <1>4, LenProperties
        <3>6. QED
            BY <3>3, <3>4, <3>5
    <2>5. QED
        BY <2>3, <2>4
<1>6. ASSUME at # s PROVE ConnType' /\ Greeted'
    <2>1. stream' = stream /\ link' = link
        BY <1>2, <1>6 DEF Crash
    <2>2. ConnType' /\ Greeted'
        BY <1>3, <2>1, GreetedSame DEF TInv, ConnType
    <2>3. QED
        BY <2>2
<1>7. ServerType'
    BY <1>1 DEF TInv, ServerType, Crash, callVars
<1>8. ClientType'
    BY ClientSame DEF TInv, Crash, callVars, ClientType
<1>9. ConnType' /\ Greeted'
    BY <1>5, <1>6
<1>10. QED
    BY <1>7, <1>8, <1>9 DEF TInv

(* What the other server had, of the keys K, is a table. *)
LEMMA PartIsATable ==
    ASSUME NEW m \in Tables, NEW K \in SUBSET DOMAIN m
    PROVE  [k \in K |-> m[k]] \in Tables
<1>1. CASE m # NoTables
    <2>1. PICK D \in SUBSET Keys : m \in [D -> Values]
        BY <1>1, RealTable
    <2>2. [k \in K |-> m[k]] \in [K -> Values] /\ K \in SUBSET Keys
        BY <2>1
    <2>3. QED
        BY <2>2 DEF Tables
<1>2. CASE m = NoTables
    <2>1. CASE K = {}
        <3>1. [k \in K |-> m[k]] \in [{} -> Values]
            BY <2>1
        <3>2. QED
            BY <3>1 DEF Tables
    <2>2. CASE K # {}
        <3>1. K = {<<>>}
            BY <1>2, <2>2 DEF NoTables
        <3>2. [k \in K |-> m[k]] = NoTables
            BY <1>2, <3>1 DEF NoTables
        <3>3. QED
            BY <3>2 DEF Tables
    <2>3. QED
        BY <2>1, <2>2
<1>3. QED
    BY <1>1, <1>2

LEMMA RestartTypes == ASSUME TInv, NEW s \in Servers, Restart(s) PROVE TInv'
<1>1. up' \subseteq Servers /\ original' \in BOOLEAN
    BY DEF Restart, TInv, ServerType
<1>2. \A x \in Servers : table[x] \in Tables /\ applied[x] \in Nat
    BY DEF TInv, ServerType
<1>3. table' \in [Servers -> Tables] /\ applied' \in [Servers -> Nat]
    <2>1. CASE table' = [table EXCEPT ![s] = NoTables] /\ applied' = [applied EXCEPT ![s] = 0]
        BY <2>1 DEF TInv, ServerType, Tables
    <2>2. ASSUME NEW K \in SUBSET DOMAIN table[Other(s)],
                 table' = [table EXCEPT ![s] = [k \in K |-> table[Other(s)][k]]],
                 applied' = [applied EXCEPT
                               ![s] = IF call.key \in K THEN applied[Other(s)] ELSE 0]
          PROVE  table' \in [Servers -> Tables] /\ applied' \in [Servers -> Nat]
        <3>1. Other(s) \in Servers
            BY OtherIsAServer
        <3> DEFINE part == [k \in K |-> table[Other(s)][k]]
                   n == IF call.key \in K THEN applied[Other(s)] ELSE 0
        <3>2. part \in Tables /\ n \in Nat
            BY <1>2, <3>1, PartIsATable
        <3>3. table' = [table EXCEPT ![s] = part] /\ applied' = [applied EXCEPT ![s] = n]
            BY <2>2
        <3> HIDE DEF part, n
        <3>4. QED
            BY <3>2, <3>3 DEF TInv, ServerType
    <2>3. QED
        BY <2>1, <2>2 DEF Restart
<1>4. ServerType'
    BY <1>1, <1>3 DEF ServerType
<1>5. ConnType'
    BY ConnSame DEF TInv, Restart
<1>6. ClientType'
    <2>1. restarts' \in 0 .. MaxRestarts
        BY Bounds DEF Restart, TInv, ClientType
    <2>2. QED
        BY <2>1, ClientSame DEF TInv, Restart
<1>7. Greeted'
    BY GreetedSame DEF TInv, Restart, connVars
<1>8. QED
    BY <1>4, <1>5, <1>6, <1>7 DEF TInv

(* The steps of the client. *)
LEMMA BindTypes == ASSUME TInv, Bind PROVE TInv'
<1>1. PICK s \in Servers : ConnectTo(s)
    BY DEF Bind, Servers
<1>2. ConnType'
    BY <1>1, ConnectTypes
<1>3. ServerType'
    BY ServerSame DEF TInv, Bind, callVars
<1>4. ClientType'
    BY DEF TInv, ClientType, Calling, Bind, callVars
<1>5. Greeted'
    BY <1>1 DEF ConnectTo, Greeted
<1>6. QED
    BY <1>2, <1>3, <1>4, <1>5 DEF TInv

LEMMA BindFailsTypes == ASSUME TInv, BindFails PROVE TInv'
<1>1. ConnType'
    BY ConnSame DEF TInv, BindFails
<1>2. ServerType'
    BY ServerSame DEF TInv, BindFails, callVars
<1>3. binds' \in 0 .. MaxBinds
    BY Bounds DEF TInv, ClientType, BindFails
<1>4. ClientType'
    BY <1>3, Bounds DEF TInv, ClientType, Calling, BindFails, callVars
<1>5. Greeted'
    BY NotGreeting DEF BindFails
<1>6. QED
    BY <1>1, <1>2, <1>4, <1>5 DEF TInv

LEMMA ReadGreetingTypes ==
    ASSUME TInv, ReadGreeting
    PROVE  TInv' /\ stream = IntBytes(Greeting(at)) /\ wire = <<>>
<1>1. wire = <<>> /\ stream \in Seq(Byte) /\ Len(stream) >= 4 /\ stream' = Rest(4)
    BY DEF ReadGreeting, TInv, Greeted, ConnType, Has
<1>2. stream = IntBytes(Greeting(at))
    <2>1. ~(stream = <<>>)
        BY <1>1, EmptySeq
    <2>2. ~(Len(stream) < 4)
        <3> DEFINE n == Len(stream)
        <3>1. n \in Nat /\ n >= 4
            BY <1>1, LenProperties
        <3> HIDE DEF n
        <3>2. ~(n < 4)
            BY <3>1
        <3>3. QED
            BY <3>2 DEF n
    <2>3. QED
        BY <2>1, <2>2 DEF ReadGreeting, TInv, Greeted
<1>3. n_tables' \in {-1, 0, 1}
    <2>1. IntAt(stream, 1) \in {-1, 1}
        BY <1>2, GreetingBytes
    <2>2. QED
        BY <2>1 DEF ReadGreeting
<1>4. stream' \in Seq(Byte)
    BY <1>1, RestTypes DEF Rest
<1>5. ConnType'
    BY <1>4 DEF TInv, ConnType, ReadGreeting
<1>6. ServerType'
    BY ServerSame DEF TInv, ReadGreeting, callVars
<1>7. ClientType'
    BY <1>3 DEF TInv, ClientType, Calling, ReadGreeting, callVars
<1>8. Greeted'
    BY NotGreeting DEF ReadGreeting
<1>9. QED
    BY <1>1, <1>2, <1>5, <1>6, <1>7, <1>8 DEF TInv

LEMMA ReadGreetingEndsTypes == ASSUME TInv, ReadGreetingEnds PROVE TInv'
<1>1. ConnType'
    BY ConnSame DEF TInv, ReadGreetingEnds
<1>2. ServerType'
    BY ServerSame DEF TInv, ReadGreetingEnds, callVars
<1>3. ClientType'
    BY DEF TInv, ClientType, Calling, ReadGreetingEnds, callVars
<1>4. Greeted'
    BY NotGreeting DEF ReadGreetingEnds
<1>5. QED
    BY <1>1, <1>2, <1>3, <1>4 DEF TInv

LEMMA CommandTypes == ASSUME TInv, NEW c \in Calls, Command(c) PROVE TInv'
<1>1. cPos' \in {"unbound", "send"}
    BY DEF Command
<1>2. ConnType'
    <2>1. CASE Unbound
        BY <2>1, EmptySeq DEF Unbound, ConnType, Links
    <2>2. CASE UNCHANGED connVars
        BY <2>2, ConnSame DEF TInv
    <2>3. QED
        BY <2>1, <2>2 DEF Command
<1>3. ServerType'
    BY DEF TInv, ServerType, Command, serverVars
<1>4. tries' = 0 /\ call' = c /\ calls' \in 0 .. MaxCalls
    BY Bounds DEF TInv, ClientType, Command
<1>5. ClientType'
    BY <1>1, <1>4, Bounds DEF TInv, ClientType, Calling, Command
<1>6. Greeted'
    BY <1>1, NotGreeting
<1>7. QED
    BY <1>2, <1>3, <1>5, <1>6 DEF TInv

LEMMA CommandAfterUnbindTypes == ASSUME TInv, CommandAfterUnbind PROVE TInv'
<1>1. ConnType'
    BY ConnSame DEF TInv, CommandAfterUnbind
<1>2. ServerType'
    BY ServerSame DEF TInv, CommandAfterUnbind, callVars
<1>3. ClientType'
    BY DEF TInv, ClientType, Calling, CommandAfterUnbind, callVars
<1>4. Greeted'
    BY NotGreeting DEF CommandAfterUnbind
<1>5. QED
    BY <1>1, <1>2, <1>3, <1>4 DEF TInv

LEMMA QuitTypes == ASSUME TInv, Quit PROVE TInv'
<1>1. ConnType'
    BY EmptySeq DEF Quit, Unbound, ConnType, Links
<1>2. ServerType'
    BY ServerSame DEF TInv, Quit, callVars
<1>3. ClientType'
    BY DEF TInv, ClientType, Calling, Quit, callVars
<1>4. Greeted'
    BY NotGreeting DEF Quit
<1>5. QED
    BY <1>1, <1>2, <1>3, <1>4 DEF TInv

(* Where a step of network_send_receive may leave the client. *)
LEMMA CallStepTypes ==
    ASSUME TInv, Calling, UNCHANGED unchangedByReceive, ConnType',
           rSize' \in IntRange, tries' \in 0 .. MAX_TENTATIVA,
           \/ cPos' \in {"idle", "unbound", "dead", "stuck"}
           \/ cPos' \in {"send", "size"} /\ tries' < MAX_TENTATIVA
           \/ cPos' = "body" /\ tries' < MAX_TENTATIVA /\ 0 <= rSize'
    PROVE  TInv'
<1>1. ServerType'
    BY ServerSame DEF TInv, unchangedByReceive
<1>2. ClientType'
    BY DEF TInv, ClientType, Calling, unchangedByReceive
<1>3. Greeted'
    BY NotGreeting
<1>4. QED
    BY <1>1, <1>2, <1>3 DEF TInv

LEMMA CallingTypes ==
    ASSUME TInv, Calling
    PROVE  /\ ConnType /\ tries \in Nat /\ tries < MAX_TENTATIVA /\ call \in Calls
           /\ tries \in 0 .. MAX_TENTATIVA /\ rSize \in IntRange /\ stream \in Seq(Byte)
BY DEF TInv, ClientType, ConnType

LEMMA SendTypes == ASSUME TInv, Send PROVE TInv'
<1>1. Calling
    BY DEF Send, Calling
<1>2. UNCHANGED unchangedByReceive /\ rSize' \in IntRange
    BY <1>1, CallingTypes DEF Send
<1>3. CASE /\ wire' = IF link = "cut" THEN wire ELSE Append(wire, call)
           /\ cPos' = "size"
           /\ UNCHANGED <<at, link, stream, tries, got>>
    <2>1. wire' \in Seq(Calls)
        BY <1>1, <1>3, CallingTypes, AppendProperties DEF ConnType
    <2>2. ConnType'
        BY <1>3, <2>1 DEF TInv, ConnType
    <2>3. QED
        BY <1>1, <1>2, <1>3, <2>2, CallingTypes, CallStepTypes
<1>4. CASE link = "cut" /\ Attempt
    <2>1. /\ ConnType' /\ tries' \in 0 .. MAX_TENTATIVA
          /\ \/ cPos' \in {"idle", "unbound", "dead"}
             \/ cPos' = "send" /\ tries' < MAX_TENTATIVA
        BY <1>1, <1>4, CallingTypes, AttemptTypes
    <2>2. QED
        BY <1>1, <1>2, <2>1, CallStepTypes
<1>5. CASE cPos' = "stuck" /\ UNCHANGED <<connVars, tries, got>>
    <2>1. ConnType'
        BY <1>5, ConnSame DEF TInv
    <2>2. QED
        BY <1>1, <1>2, <1>5, <2>1, CallingTypes, CallStepTypes
<1>6. QED
    BY <1>3, <1>4, <1>5 DEF Send

LEMMA ReadSizeTypes == ASSUME TInv, ReadSize PROVE TInv'
<1>1. Calling
    BY DEF ReadSize, Calling
<1>2. stream \in Seq(Byte) /\ Len(stream) >= 4 /\ rSize' = IntAt(stream, 1)
    BY <1>1, CallingTypes DEF ReadSize, Has
<1>3. UNCHANGED unchangedByReceive /\ rSize' \in IntRange
    <2>1. 1 \in 1 .. Len(stream) - 3
        <3> DEFINE n == Len(stream)
        <3>1. n \in Nat /\ n >= 4
            BY <1>2, LenProperties
        <3> HIDE DEF n
        <3>2. 1 \in 1 .. n - 3
            BY <3>1
        <3>3. QED
            BY <3>2 DEF n
    <2>2. IntAt(stream, 1) \in IntRange
        BY <1>2, <2>1, IntAtTypes
    <2>3. QED
        BY <1>2, <2>2 DEF ReadSize
<1>4. CASE rSize' < 0 /\ Attempt
    <2>1. /\ ConnType' /\ tries' \in 0 .. MAX_TENTATIVA
          /\ \/ cPos' \in {"idle", "unbound", "dead"}
             \/ cPos' = "send" /\ tries' < MAX_TENTATIVA
        BY <1>1, <1>4, CallingTypes, AttemptTypes
    <2>2. QED
        BY <1>1, <1>3, <2>1, CallStepTypes
<1>5. CASE /\ rSize' >= 0
           /\ cPos' = "body" /\ stream' = Rest(4) /\ UNCHANGED <<at, link, wire, tries, got>>
    <2>1. stream' \in Seq(Byte)
        BY <1>2, <1>5, RestTypes DEF Rest
    <2>2. ConnType'
        BY <1>5, <2>1 DEF TInv, ConnType
    <2>3. 0 <= rSize'
        <3>1. rSize' \in Int
            BY <1>3, SMT DEF IntRange
        <3>2. QED
            BY <1>5, <3>1
    <2>4. QED
        BY <1>1, <1>3, <1>5, <2>2, <2>3, CallingTypes, CallStepTypes
<1>6. QED
    BY <1>4, <1>5 DEF ReadSize

LEMMA ReadBodyTypes == ASSUME TInv, ReadBody PROVE TInv'
<1>1. Calling
    BY DEF ReadBody, Calling
<1>2. UNCHANGED unchangedByReceive /\ rSize' \in IntRange
    BY <1>1, CallingTypes DEF ReadBody
<1>3. Rest(rSize) \in Seq(Byte)
    <2>1. rSize \in Nat
        <3>1. rSize \in Int
            BY <1>1, CallingTypes, SMT DEF IntRange
        <3>2. QED
            BY <3>1 DEF ReadBody, TInv, ClientType
    <2>2. QED
        BY <1>1, <2>1, CallingTypes, RestTypes DEF Rest
<1>4. CASE Misread(Rest(rSize))
    <2>1. /\ ConnType' /\ tries' \in 0 .. MAX_TENTATIVA
          /\ \/ cPos' \in {"idle", "unbound", "dead"}
             \/ cPos' = "send" /\ tries' < MAX_TENTATIVA
        BY <1>1, <1>3, <1>4, CallingTypes, MisreadTypes
    <2>2. QED
        BY <1>1, <1>2, <2>1, CallStepTypes
<1>5. CASE Attempt
    <2>1. /\ ConnType' /\ tries' \in 0 .. MAX_TENTATIVA
          /\ \/ cPos' \in {"idle", "unbound", "dead"}
             \/ cPos' = "send" /\ tries' < MAX_TENTATIVA
        BY <1>1, <1>5, CallingTypes, AttemptTypes
    <2>2. QED
        BY <1>1, <1>2, <2>1, CallStepTypes
<1>6. CASE Return(Body, at, link, Rest(rSize)) /\ UNCHANGED tries
    <2>1. at \in Servers \cup {Nobody} /\ link \in Links /\ (link # "none" => at \in Servers)
        BY DEF TInv, ConnType
    <2>2. ConnType' /\ cPos' \in {"idle", "unbound", "dead"}
        BY <1>1, <1>3, <1>6, <2>1, CallingTypes, ReturnTypes
    <2>3. QED
        BY <1>1, <1>2, <1>6, <2>2, CallingTypes, CallStepTypes
<1>7. QED
    BY <1>4, <1>5, <1>6 DEF ReadBody

LEMMA ReadEndTypes == ASSUME TInv, ReadEnd PROVE TInv'
<1>1. Calling
    BY DEF ReadEnd, Calling
<1>2. UNCHANGED unchangedByReceive /\ rSize' \in IntRange
    BY <1>1, CallingTypes DEF ReadEnd
<1>3. /\ ConnType' /\ tries' \in 0 .. MAX_TENTATIVA
      /\ \/ cPos' \in {"idle", "unbound", "dead"}
         \/ cPos' = "send" /\ tries' < MAX_TENTATIVA
    BY <1>1, CallingTypes, MisreadTypes, EmptySeq DEF ReadEnd
<1>4. QED
    BY <1>1, <1>2, <1>3, CallStepTypes

LEMMA ServeLeftTypes ==
    ASSUME TInv, LeftType, NEW s \in Servers, ServeLeft(s)
    PROVE  TInv'
<1>1. PICK j \in DOMAIN left[s] :
          \/ /\ \E also \in Followers(s) : Applied(s, left[s][j], also)
             /\ UNCHANGED <<up, link>>
          \/ /\ \E also \in {{}} \cup Followers(s) : Applied(s, left[s][j], also)
             /\ Dies(s)
    BY DEF ServeLeft
<1>2. left[s][j] \in Calls
    <2>1. left[s] \in Seq(Calls) /\ j \in 1 .. Len(left[s])
        BY <1>1, LenProperties DEF LeftType
    <2>2. QED
        BY <2>1, ElementOfSeq
<1>3. PICK also : Applied(s, left[s][j], also)
    BY <1>1
<1>4. /\ up' \subseteq Servers /\ link' \in Links /\ (link' # "none" => link # "none")
      /\ link' = link \/ (at = s /\ link' = "cut")
    BY <1>1, DiesTypes DEF TInv, ServerType, ConnType
<1>5. ServerType'
    <2>1. original' \in BOOLEAN
        BY DEF ServeLeft, TInv, ServerType
    <2>2. QED
        BY <1>2, <1>3, <1>4, <2>1, AppliedTypes DEF TInv
<1>6. ConnType'
    BY <1>4 DEF TInv, ConnType, ServeLeft
<1>7. ClientType'
    BY ClientSame DEF TInv, ServeLeft, ClientType
<1>8. Greeted'
    <2>1. UNCHANGED <<at, stream, wire, cPos>>
        BY DEF ServeLeft
    <2>2. CASE link' = link
        BY <2>1, <2>2, GreetedSame DEF TInv
    <2>3. CASE link' = "cut"
        <3>1. Len(<<>>) < 4
            BY EmptySeq
        <3>2. QED
            BY <2>1, <2>3, <3>1 DEF TInv, Greeted
    <2>4. QED
        BY <1>4, <2>2, <2>3
<1>9. QED
    BY <1>5, <1>6, <1>7, <1>8 DEF TInv

LEMMA TNext == TInv /\ LeftType /\ [Next]_vars => TInv'
<1> SUFFICES ASSUME TInv, LeftType, [Next]_vars PROVE TInv'
    OBVIOUS
<1>1. CASE ClientStep
    BY <1>1, BindTypes, BindFailsTypes, ReadGreetingTypes, ReadGreetingEndsTypes,
       SendTypes, ReadSizeTypes, ReadBodyTypes, ReadEndTypes DEF ClientStep
<1>2. CASE ServerStep
    BY <1>2, GreetTypes, ServeTypes, ServeMissTypes DEF ServerStep
<1>3. CASE Environment
    BY <1>3, ServeDiesTypes, ServeLeftTypes, CrashTypes, RestartTypes, CommandTypes,
       CommandAfterUnbindTypes, QuitTypes DEF Environment
<1>4. CASE UNCHANGED vars
    <2>1. UNCHANGED <<up, table, original, at, link, stream, wire, cPos, binds, n_tables,
                      tries, rSize, call, got, reply, applied, calls, restarts>>
        BY <1>4 DEF vars, serverVars, connVars, callVars
    <2>2. ServerType' /\ ConnType' /\ Greeted'
        BY <2>1 DEF TInv, ServerType, ConnType, Greeted
    <2>3. ClientType'
        BY <2>1 DEF TInv, ClientType, Calling
    <2>4. QED
        BY <2>2, <2>3 DEF TInv
<1>5. QED
    BY <1>1, <1>2, <1>3, <1>4 DEF Next

(* A connection that is closed leaves its requests; a server that dies     *)
(* loses what it was left.                                                 *)
LEMMA LeavesTypes ==
    ASSUME ConnType, LeftType, Leaves
    PROVE  LeftType'
<1>1. CASE link \in {"new", "accepted"}
    <2>1. at \in Servers /\ wire \in Seq(Calls) /\ left[at] \in Seq(Calls)
        BY <1>1 DEF ConnType, LeftType
    <2>2. left[at] \o wire \in Seq(Calls)
        BY <2>1, ConcatProperties
    <2>3. QED
        BY <1>1, <2>2 DEF Leaves, LeftType
<1>2. CASE link \notin {"new", "accepted"}
    BY <1>2 DEF Leaves, LeftType
<1>3. QED
    BY <1>1, <1>2

LEMMA DiesLeft ==
    ASSUME LeftType, NEW s, Dies(s)
    PROVE  LeftType'
<1>1. <<>> \in Seq(Calls)
    BY EmptySeq
<1>2. QED
    BY <1>1 DEF Dies, LeftType

LEMMA ReturnLeft ==
    ASSUME ConnType, LeftType, NEW m, NEW s, NEW l, NEW rest, Return(m, s, l, rest)
    PROVE  LeftType'
<1>1. UNCHANGED left \/ Leaves
    BY DEF Return, Unbound
<1>2. QED
    BY <1>1, LeavesTypes DEF LeftType

LEMMA AttemptLeft == ASSUME ConnType, LeftType, Attempt PROVE LeftType'
BY ReturnLeft, LeavesTypes DEF Attempt, ConnectTo

LEMMA MisreadLeft ==
    ASSUME ConnType, LeftType, NEW rest, Misread(rest)
    PROVE  LeftType'
BY AttemptLeft, ReturnLeft DEF Misread

LEMMA ServeLeftLeft ==
    ASSUME LeftType, NEW s \in Servers, ServeLeft(s)
    PROVE  LeftType'
<1>1. CASE Dies(s)
    BY <1>1, DiesLeft
<1>2. ASSUME NEW j \in DOMAIN left[s], left' = [left EXCEPT ![s] = RemoveAt(@, j)]
      PROVE  LeftType'
    <2> DEFINE q == left[s]
    <2>1. q \in Seq(Calls) /\ j \in 1 .. Len(q) /\ Len(q) \in Nat
        BY LenProperties DEF LeftType
    <2>2. \A i \in 1 .. Len(q) : q[i] \in Calls
        BY <2>1, ElementOfSeq
    <2>3. SubSeq(q, 1, j - 1) \in Seq(Calls) /\ SubSeq(q, j + 1, Len(q)) \in Seq(Calls)
        BY <2>1, <2>2, SubSeqProperties
    <2>4. RemoveAt(q, j) \in Seq(Calls)
        BY <2>3, ConcatProperties DEF RemoveAt
    <2>5. QED
        BY <1>2, <2>4 DEF LeftType
<1>3. QED
    BY <1>1, <1>2 DEF ServeLeft

LEMMA LeftNext == TInv /\ LeftType /\ [Next]_vars => LeftType'
<1> SUFFICES ASSUME TInv, LeftType, [Next]_vars PROVE LeftType'
    OBVIOUS
<1>1. ConnType
    BY DEF TInv
<1>2. CASE UNCHANGED left
    BY <1>2 DEF LeftType
<1>3. CASE Bind
    BY <1>1, <1>3, LeavesTypes DEF Bind, ConnectTo
<1>4. CASE BindFails \/ ReadGreeting \/ ReadGreetingEnds \/ CommandAfterUnbind \/ Greet \/ Serve
    BY <1>2, <1>4 DEF BindFails, ReadGreeting, ReadGreetingEnds, CommandAfterUnbind, Greet,
       Serve, connVars
<1>5. CASE Send
    BY <1>1, <1>2, <1>5, AttemptLeft DEF Send, connVars
<1>6. CASE ReadSize
    BY <1>1, <1>2, <1>6, AttemptLeft DEF ReadSize
<1>7. CASE ReadBody
    BY <1>1, <1>7, AttemptLeft, MisreadLeft, ReturnLeft DEF ReadBody
<1>8. CASE ReadEnd
    BY <1>1, <1>8, MisreadLeft DEF ReadEnd
<1>9. CASE ServeMiss \/ ServeDies \/ \E s \in Servers : Crash(s)
    BY <1>9, DiesLeft DEF ServeMiss, ServeDies, Crash
<1>10. CASE \E s \in Servers : ServeLeft(s)
    BY <1>10, ServeLeftLeft
<1>11. CASE \E s \in Servers : Restart(s)
    BY <1>2, <1>11 DEF Restart, connVars
<1>12. CASE Quit \/ \E c \in Calls : Command(c)
    BY <1>1, <1>2, <1>12, LeavesTypes DEF Quit, Command, Unbound, connVars
<1>13. CASE UNCHANGED vars
    BY <1>2, <1>13 DEF vars, connVars
<1>14. QED
    BY <1>3, <1>4, <1>5, <1>6, <1>7, <1>8, <1>9, <1>10, <1>11, <1>12, <1>13
       DEF Next, ClientStep, ServerStep, Environment

LEMMA LeftInit == Init => LeftType
BY EmptySeq DEF Init, LeftType

LEMMA TAlways == Spec => [](TInv /\ LeftType)
<1>1. TInv /\ LeftType /\ [Next]_vars => TInv' /\ LeftType'
    BY TNext, LeftNext
<1>2. QED
    BY <1>1, TInit, LeftInit, PTL DEF Spec

(* Every variable stays within its type: what is read as a length is an    *)
(* int, attempts are bounded, and no number of tables is made up.          *)
THEOREM FailoverTypes == Spec => []TypeOK
<1>1. TInv /\ LeftType => TypeOK
    BY DEF TInv, LeftType, ServerType, ConnType, ClientType, TypeOK, Links
<1>2. QED
    BY <1>1, TAlways, PTL

-----------------------------------------------------------------------------
(* A put takes effect once.                                                *)

(* A server on which the put of this call has had effect holds its key.    *)
PutInv ==
    call.op = "put" =>
        \A s \in Servers : \/ applied[s] = 0
                           \/ applied[s] = 1 /\ call.key \in DOMAIN table[s]

LEMMA PutInit == Init => PutInv
BY DEF Init, PutInv, NoCall, Call

LEMMA AfterKeepsKeys ==
    ASSUME NEW m, NEW c, NEW k \in DOMAIN m
    PROVE  k \in DOMAIN After(m, c)
BY DEF After

LEMMA AfterHasKey ==
    ASSUME NEW m, NEW c, Writes(m, c)
    PROVE  c.key \in DOMAIN After(m, c)
BY DEF After

(* Wherever a request is applied: the put finds the key it has put. *)
LEMMA PutApplied ==
    ASSUME PutInv, NEW s, NEW c, NEW also, Applied(s, c, also), call' = call
    PROVE  PutInv'
<1> SUFFICES ASSUME call.op = "put", NEW x \in Servers
             PROVE  (\/ applied[x] = 0
                     \/ applied[x] = 1 /\ call.key \in DOMAIN table[x])'
    BY DEF PutInv
<1> DEFINE on == {y \in {s} \cup also : Writes(table[y], c)}
<1>1. /\ table'[x] = IF x \in on THEN After(table[x], c) ELSE table[x]
      /\ applied'[x] = IF x \in on /\ c = call THEN applied[x] + 1 ELSE applied[x]
    BY DEF Applied
<1>2. applied[x] = 0 \/ (applied[x] = 1 /\ call.key \in DOMAIN table[x])
    BY DEF PutInv
<1>3. CASE x \in on /\ c = call
    <2>1. Writes(table[x], call)
        BY <1>3
    <2>2. call.key \notin DOMAIN table[x]
        BY <2>1 DEF Writes, Accepts
    <2>3. call.key \in DOMAIN table'[x]
        BY <1>1, <1>3, <2>1, AfterHasKey
    <2>4. QED
        BY <1>1, <1>2, <1>3, <2>2, <2>3
<1>4. CASE ~(x \in on /\ c = call)
    <2>1. applied'[x] = applied[x]
        BY <1>1, <1>4
    <2>2. call.key \in DOMAIN table[x] => call.key \in DOMAIN table'[x]
        BY <1>1, AfterKeepsKeys
    <2>3. QED
        BY <1>2, <2>1, <2>2
<1>5. QED
    BY <1>3, <1>4

(* A server that restarts has what the other one passes on, the effects of *)
(* the call included.                                                      *)
LEMMA PutRestart ==
    ASSUME TInv, PutInv, NEW s \in Servers, Restart(s)
    PROVE  PutInv'
<1> SUFFICES ASSUME call.op = "put", NEW x \in Servers
             PROVE  (\/ applied[x] = 0
                     \/ applied[x] = 1 /\ call.key \in DOMAIN table[x])'
    BY DEF PutInv, Restart
<1>1. call' = call
    BY DEF Restart
<1>2. \A y \in Servers : applied[y] = 0 \/ (applied[y] = 1 /\ call.key \in DOMAIN table[y])
    BY DEF PutInv
<1>3. DOMAIN table = Servers /\ DOMAIN applied = Servers
    BY DEF TInv, ServerType
<1>4. CASE x # s
    <2>1. table'[x] = table[x] /\ applied'[x] = applied[x]
        BY <1>3, <1>4 DEF Restart
    <2>2. QED
        BY <1>1, <1>2, <2>1
<1>5. CASE /\ x = s /\ table' = [table EXCEPT ![s] = NoTables]
           /\ applied' = [applied EXCEPT ![s] = 0]
    BY <1>3, <1>5
<1>6. ASSUME x = s, NEW K \in SUBSET DOMAIN table[Other(s)],
             table' = [table EXCEPT ![s] = [k \in K |-> table[Other(s)][k]]],
             applied' = [applied EXCEPT
                           ![s] = IF call.key \in K THEN applied[Other(s)] ELSE 0]
      PROVE  (\/ applied[x] = 0
              \/ applied[x] = 1 /\ call.key \in DOMAIN table[x])'
    <2>1. /\ table'[x] = [k \in K |-> table[Other(s)][k]]
          /\ applied'[x] = IF call.key \in K THEN applied[Other(s)] ELSE 0
        BY <1>3, <1>6
    <2>2. DOMAIN table'[x] = K
        BY <2>1
    <2>3. applied[Other(s)] \in {0, 1}
        BY <1>2, OtherIsAServer
    <2>4. QED
        BY <1>1, <2>1, <2>2, <2>3
<1>7. QED
    BY <1>4, <1>5, <1>6 DEF Restart

LEMMA PutSame ==
    ASSUME PutInv, UNCHANGED <<call, table, applied>>
    PROVE  PutInv'
BY DEF PutInv

LEMMA PutCommand ==
    ASSUME NEW c, Command(c)
    PROVE  PutInv'
BY DEF PutInv, Command

LEMMA PutNext == TInv /\ PutInv /\ [Next]_vars => PutInv'
<1> SUFFICES ASSUME TInv, PutInv, [Next]_vars PROVE PutInv'
    OBVIOUS
<1>1. CASE Bind \/ BindFails \/ ReadGreeting \/ ReadGreetingEnds
    BY <1>1, PutSame DEF Bind, BindFails, ReadGreeting, ReadGreetingEnds, serverVars, callVars
<1>2. CASE Send \/ ReadSize \/ ReadBody \/ ReadEnd
    BY <1>2, PutSame DEF Send, ReadSize, ReadBody, ReadEnd, unchangedByReceive, serverVars
<1>3. CASE Greet \/ ServeMiss \/ CommandAfterUnbind \/ Quit
    BY <1>3, PutSame DEF Greet, ServeMiss, CommandAfterUnbind, Quit, serverVars, callVars
<1>4. CASE Serve
    BY <1>4, PutApplied DEF Serve
<1>5. CASE ServeDies \/ \E s \in Servers : ServeLeft(s)
    BY <1>5, PutApplied DEF ServeDies, ServeLeft
<1>6. CASE \E s \in Servers : Crash(s)
    BY <1>6, PutSame DEF Crash, callVars
<1>7. CASE \E s \in Servers : Restart(s)
    BY <1>7, PutRestart
<1>8. CASE \E c \in Calls : Command(c)
    BY <1>8, PutCommand
<1>9. CASE UNCHANGED vars
    BY <1>9, PutSame DEF vars, serverVars, callVars
<1>10. QED
    BY <1>1, <1>2, <1>3, <1>4, <1>5, <1>6, <1>7, <1>8, <1>9
       DEF Next, ClientStep, ServerStep, Environment

(* A put that is repeated at the other server takes effect there once,     *)
(* however often the client switches, and whatever the first server passed *)
(* on before it died.                                                      *)
THEOREM PutTakesEffectOnce == Spec => []PutOnce
<1>1. PutInv => PutOnce
    BY DEF PutInv, PutOnce
<1>2. TInv /\ PutInv /\ [Next]_vars => PutInv'
    BY PutNext
<1>3. QED
    BY <1>1, <1>2, TAlways, PutInit, PTL DEF Spec

-----------------------------------------------------------------------------
(* Calls and answers stay in step with the first server.                   *)

(* A is still the process that started the pair, and runs. *)
FirstLife == original /\ "A" \in up

(* Before the first command the client is in no call; and with a stream to *)
(* read from or write to, it is connected.                                 *)
Placed ==
    /\ cPos \in {"bind", "greeting"} => call = NoCall
    /\ cPos \in {"greeting", "idle", "send", "size", "body"} => at \in Servers

(* In its first life A is left by nobody, and what is between it and the   *)
(* client is the request or the answer of the call, or its rest.           *)
InStep ==
    /\ link # "cut"
    /\ cPos \in {"idle", "send", "size", "body"} => link = "accepted"
    /\ cPos \in {"idle", "send"} => stream = <<>> /\ wire = <<>>
    /\ cPos = "idle" /\ call # NoCall => got = reply
    /\ cPos = "size" => \/ wire = <<call>> /\ stream = <<>>
                        \/ /\ wire = <<>> /\ WellFormed(reply)
                           /\ stream = IntBytes(Len(reply)) \o reply
    /\ cPos = "body" => /\ wire = <<>> /\ WellFormed(reply)
                        /\ stream = reply /\ rSize = Len(reply)

SInv == Placed /\ (FirstLife => at # "B") /\ (FirstLife /\ at = "A" => InStep)

(* What stands behind a length in the stream. *)
LEMMA LengthAndRest ==
    ASSUME NEW r, WellFormed(r), NEW s, s = IntBytes(Len(r)) \o r
    PROVE  /\ Len(s) >= 4 /\ IntAt(s, 1) = Len(r)
           /\ SubSeq(s, 5, Len(s)) = r
<1> DEFINE h == IntBytes(Len(r))
<1>1. r \in Seq(Byte) /\ Len(r) \in IntRange /\ Len(r) \in Nat
    BY LenProperties DEF WellFormed
<1>2. h \in Seq(Byte) /\ r \in Seq(Byte)
    BY <1>1, IntBytesTypes
<1>3. Len(h) = 4
    BY <1>1, IntBytesTypes
<1>4. Stands(s, 1, s)
    BY StandsAtStart
<1>5. Stands(s, 1, h) /\ Stands(s, 1 + Len(h), r)
    <2>1. Stands(s, 1, h \o r) /\ 1 \in Int
        BY <1>4
    <2> HIDE DEF h
    <2>2. QED
        BY ONLY <1>2, <2>1, StandsInParts
<1>6. IntAt(s, 1) = Len(r)
    BY <1>1, <1>5, IntStands
<1>7. Len(s) = Len(h) + Len(r)
    <2>1. s = h \o r
        OBVIOUS
    <2> HIDE DEF h
    <2>2. Len(h \o r) = Len(h) + Len(r)
        BY ONLY <1>2, TwoParts
    <2>3. QED
        BY <2>1, <2>2
<1> DEFINE n == Len(s)
           k == Len(r)
<1>8. n = 4 + k /\ k \in Nat
    <2> HIDE DEF h
    <2>1. QED
        BY <1>1, <1>3, <1>7
<1>9. SubSeq(s, 5, n) = r
    <2>1. Stands(s, 5, r)
        <3>1. 1 + Len(h) = 5
            <4> HIDE DEF h
            <4>1. QED
                BY <1>3
        <3>2. QED
            BY <1>5, <3>1
    <2>2. BytesAt(s, 5, k) = r
        BY <1>1, <2>1, BytesStand
    <2> HIDE DEF n, k
    <2>3. 5 + k - 1 = n
        BY <1>8
    <2>4. QED
        BY <2>2, <2>3 DEF BytesAt
<1>10. n >= 4
    <2> HIDE DEF n, k
    <2>1. QED
        BY <1>8
<1>11. QED
    BY <1>6, <1>9, <1>10

LEMMA NothingIsThere == Len(<<>>) = 0 /\ ~(Len(<<>>) >= 4)
<1>1. Len(<<>>) = 0
    BY EmptySeq
<1>2. QED
    BY <1>1

LEMMA SInit == Init => SInv
BY DEF Init, SInv, Placed, FirstLife, Nobody

(* A life that is over does not come back. *)
LEMMA OverIsOver == [Next]_vars /\ FirstLife' => FirstLife
<1> SUFFICES ASSUME [Next]_vars, FirstLife' PROVE FirstLife
    OBVIOUS
<1>1. CASE UNCHANGED <<up, original>>
    BY <1>1 DEF FirstLife
<1>2. CASE ServeMiss \/ ServeDies \/ \E s \in Servers : ServeLeft(s) \/ Crash(s)
    BY <1>2 DEF ServeMiss, ServeDies, ServeLeft, Crash, Dies, FirstLife
<1>3. CASE \E s \in Servers : Restart(s)
    BY <1>3 DEF Restart, FirstLife
<1>4. CASE Bind \/ BindFails \/ ReadGreeting \/ ReadGreetingEnds
    BY <1>1, <1>4 DEF Bind, BindFails, ReadGreeting, ReadGreetingEnds, serverVars
<1>5. CASE Send \/ ReadSize \/ ReadBody \/ ReadEnd
    BY <1>1, <1>5 DEF Send, ReadSize, ReadBody, ReadEnd, unchangedByReceive, serverVars
<1>6. CASE Greet \/ CommandAfterUnbind \/ Quit \/ \E c \in Calls : Command(c)
    BY <1>1, <1>6 DEF Greet, CommandAfterUnbind, Quit, Command, serverVars
<1>7. CASE Serve
    BY <1>1, <1>7 DEF Serve
<1>8. CASE UNCHANGED vars
    BY <1>1, <1>8 DEF vars, serverVars
<1>9. QED
    BY <1>2, <1>3, <1>4, <1>5, <1>6, <1>7, <1>8
       DEF Next, ClientStep, ServerStep, Environment

LEMMA ReturnPlaced ==
    ASSUME NEW m, NEW s \in Servers, NEW l, NEW rest, Return(m, s, l, rest)
    PROVE  Placed'
BY OutcomesAre DEF Return, Placed

LEMMA AttemptPlaced ==
    ASSUME Calling, Placed, Attempt
    PROVE  Placed'
<1>1. at \in Servers /\ Other(at) \in Servers
    BY OtherIsAServer DEF Placed, Calling
<1>2. CASE Return(NULL, at, link, stream)
    BY <1>1, <1>2, ReturnPlaced
<1>3. CASE ConnectTo(Other(at)) /\ cPos' = "send"
    BY <1>1, <1>3 DEF ConnectTo, Placed
<1>4. CASE Return(Encode(Error), Other(at), "new", <<>>)
    BY <1>1, <1>4, ReturnPlaced
<1>5. QED
    BY <1>2, <1>3, <1>4 DEF Attempt

LEMMA MisreadPlaced ==
    ASSUME Calling, Placed, NEW rest, Misread(rest)
    PROVE  Placed'
<1>1. CASE Attempt
    BY <1>1, AttemptPlaced
<1>2. CASE Return(Garbage, at, link, rest)
    BY <1>2, ReturnPlaced DEF Placed, Calling
<1>3. QED
    BY <1>1, <1>2 DEF Misread

LEMMA PlacedNext == TInv /\ Placed /\ [Next]_vars => Placed'
<1> SUFFICES ASSUME TInv, Placed, [Next]_vars PROVE Placed'
    OBVIOUS
<1>1. CASE UNCHANGED <<cPos, call, at>>
    BY <1>1 DEF Placed
<1>2. CASE Bind
    BY <1>2 DEF Bind, ConnectTo, Placed, Servers, callVars
<1>3. CASE BindFails \/ ReadGreeting \/ ReadGreetingEnds
    BY <1>3 DEF BindFails, ReadGreeting, ReadGreetingEnds, Placed, callVars, connVars
<1>4. CASE Send
    <2>1. Calling
        BY <1>4 DEF Send, Calling
    <2>2. CASE Attempt
        BY <2>1, <2>2, AttemptPlaced
    <2>3. CASE cPos' = "size" /\ UNCHANGED at
        BY <2>1, <2>3 DEF Placed, Calling
    <2>4. CASE cPos' = "stuck"
        BY <2>4 DEF Placed
    <2>5. QED
        BY <1>4, <2>2, <2>3, <2>4 DEF Send
<1>5. CASE ReadSize
    <2>1. Calling
        BY <1>5 DEF ReadSize, Calling
    <2>2. CASE Attempt
        BY <2>1, <2>2, AttemptPlaced
    <2>3. CASE cPos' = "body" /\ UNCHANGED at
        BY <2>1, <2>3 DEF Placed, Calling
    <2>4. QED
        BY <1>5, <2>2, <2>3 DEF ReadSize
<1>6. CASE ReadBody
    <2>1. Calling
        BY <1>6 DEF ReadBody, Calling
    <2>2. CASE Attempt
        BY <2>1, <2>2, AttemptPlaced
    <2>3. CASE Misread(Rest(rSize))
        BY <2>1, <2>3, MisreadPlaced
    <2>4. CASE Return(Body, at, link, Rest(rSize))
        BY <2>1, <2>4, ReturnPlaced DEF Placed, Calling
    <2>5. QED
        BY <1>6, <2>2, <2>3, <2>4 DEF ReadBody
<1>7. CASE ReadEnd
    <2>1. Calling /\ Misread(<<>>)
        BY <1>7 DEF ReadEnd, Calling
    <2>2. QED
        BY <2>1, MisreadPlaced
<1>8. CASE Greet \/ Serve \/ ServeMiss \/ ServeDies
    BY <1>1, <1>8 DEF Greet, Serve, ServeMiss, ServeDies, callVars
<1>9. CASE \E s \in Servers : ServeLeft(s) \/ Crash(s) \/ Restart(s)
    BY <1>1, <1>9 DEF ServeLeft, Crash, Restart, callVars, connVars
<1>10. CASE \E c \in Calls : Command(c)
    BY <1>10 DEF Command, Unbound, Placed, connVars
<1>11. CASE CommandAfterUnbind \/ Quit
    BY <1>11 DEF CommandAfterUnbind, Quit, Placed
<1>12. CASE UNCHANGED vars
    BY <1>1, <1>12 DEF vars, connVars, callVars
<1>13. QED
    BY <1>2, <1>3, <1>4, <1>5, <1>6, <1>7, <1>8, <1>9, <1>10, <1>11, <1>12
       DEF Next, ClientStep, ServerStep, Environment

(* In the first life a client that has a stream to use is in step at A. *)
LEMMA InLife ==
    ASSUME SInv, FirstLife, cPos \in {"greeting", "idle", "send", "size", "body"}
    PROVE  at = "A" /\ InStep /\ link # "cut"
<1>1. at \in Servers /\ at # "B"
    BY DEF SInv, Placed
<1>2. at = "A"
    BY <1>1 DEF Servers
<1>3. QED
    BY <1>2 DEF SInv, InStep

(* What a step keeps of its life. *)
Kept == at # "B" /\ (at = "A" => InStep)

LEMMA BindKept == ASSUME FirstLife, Bind PROVE Kept'
BY DEF FirstLife, Bind, ConnectTo, Kept, InStep

LEMMA BindFailsKept == ASSUME FirstLife, BindFails PROVE Kept'
BY DEF FirstLife, BindFails

LEMMA GreetingReadKept ==
    ASSUME TInv, SInv, FirstLife, ReadGreeting
    PROVE  Kept'
<1>1. at = "A" /\ InStep /\ link # "cut"
    BY InLife DEF ReadGreeting
<1>2. stream = IntBytes(Greeting(at)) /\ wire = <<>>
    BY ReadGreetingTypes
<1>3. Len(stream) = 4
    BY <1>2, GreetingBytes
<1>4. stream' = <<>>
    BY <1>3, SubSeqEmpty DEF ReadGreeting, Rest
<1>5. link = "accepted"
    <2>1. stream # <<>>
        BY <1>3, NothingIsThere
    <2>2. QED
        BY <1>1, <2>1 DEF ReadGreeting, TInv, Greeted
<1>6. call = NoCall /\ call' = call
    BY DEF ReadGreeting, SInv, Placed, callVars
<1>7. QED
    BY <1>1, <1>2, <1>4, <1>5, <1>6 DEF ReadGreeting, Kept, InStep

(* The stream ends only with the life of A. *)
LEMMA EndIsOver ==
    ASSUME SInv, FirstLife, ReadGreetingEnds \/ ReadEnd
    PROVE  FALSE
<1>1. link # "cut"
    BY InLife DEF ReadGreetingEnds, ReadEnd
<1>2. QED
    BY <1>1 DEF ReadGreetingEnds, ReadEnd, AtEnd

LEMMA SendKept == ASSUME TInv, SInv, FirstLife, Send PROVE Kept'
<1>1. at = "A" /\ InStep /\ link = "accepted" /\ stream = <<>> /\ wire = <<>>
    BY InLife DEF Send, InStep
<1>2. wire' = <<call>> /\ UNCHANGED <<at, link, stream>> /\ cPos' = "size" /\ call' = call
    <2>1. Append(<<>>, call) = <<call>>
        OBVIOUS
    <2>2. QED
        BY <1>1, <2>1 DEF Send, unchangedByReceive
<1>3. QED
    BY <1>1, <1>2 DEF Kept, InStep

LEMMA ReadSizeKept == ASSUME TInv, SInv, FirstLife, ReadSize PROVE Kept'
<1>1. at = "A" /\ InStep /\ link = "accepted"
    BY InLife DEF ReadSize, InStep
<1>2. wire = <<>> /\ WellFormed(reply) /\ stream = IntBytes(Len(reply)) \o reply
    <2>1. stream # <<>>
        BY NothingIsThere DEF ReadSize, Has
    <2>2. QED
        BY <1>1, <2>1 DEF ReadSize, InStep
<1>3. IntAt(stream, 1) = Len(reply) /\ SubSeq(stream, 5, Len(stream)) = reply
    BY <1>2, LengthAndRest
<1>4. ~(rSize' < 0)
    <2> DEFINE n == Len(reply)
    <2>1. n \in Nat /\ rSize' = n
        BY <1>2, <1>3, LenProperties DEF ReadSize, WellFormed
    <2> HIDE DEF n
    <2>2. QED
        BY <2>1
<1>5. cPos' = "body" /\ stream' = reply /\ UNCHANGED <<at, link, wire>>
    <2>1. Rest(4) = SubSeq(stream, 5, Len(stream))
        BY DEF Rest
    <2>2. QED
        BY <1>3, <1>4, <2>1 DEF ReadSize
<1>6. reply' = reply /\ rSize' = Len(reply)
    BY <1>3 DEF ReadSize, unchangedByReceive
<1>7. QED
    BY <1>1, <1>2, <1>5, <1>6 DEF Kept, InStep

LEMMA ReadBodyKept == ASSUME TInv, SInv, FirstLife, ReadBody PROVE Kept'
<1>1. at = "A" /\ InStep /\ link = "accepted"
    BY InLife DEF ReadBody, InStep
<1>2. wire = <<>> /\ WellFormed(reply) /\ stream = reply /\ rSize = Len(reply)
    BY <1>1 DEF ReadBody, InStep
<1>3. reply \in Seq(Byte) /\ Len(reply) \in Nat /\ Decode(reply) # NoMessage
    BY <1>2, LenProperties DEF WellFormed
<1>4. Body = reply
    BY <1>2, <1>3, SubSeqFull DEF Body
<1>5. Rest(rSize) = <<>>
    <2> DEFINE n == Len(reply)
    <2>1. n \in Nat
        BY <1>3
    <2>2. Rest(rSize) = SubSeq(stream, n + 1, n)
        BY <1>2 DEF Rest
    <2> HIDE DEF n
    <2>3. n < n + 1 /\ n + 1 \in Int /\ n \in Int
        BY <2>1
    <2>4. QED
        BY <2>2, <2>3, SubSeqEmpty
<1>6. ~(rSize < 6)
    <2> DEFINE n == rSize
    <2>1. n \in Nat /\ n >= 6
        BY <1>2, <1>3 DEF WellFormed
    <2> HIDE DEF n
    <2>2. ~(n < 6)
        BY <2>1
    <2>3. QED
        BY <2>2 DEF n
<1>7. Return(reply, at, link, <<>>)
    BY <1>3, <1>4, <1>5, <1>6 DEF ReadBody
<1>8. cPos' \in {"idle", "unbound", "dead"}
    BY <1>7, OutcomesAre DEF Return
<1>9. CASE cPos' = "idle"
    <2>1. at' = at /\ link' = link /\ stream' = <<>> /\ wire' = wire /\ got' = reply
        BY <1>7, <1>9 DEF Return
    <2>2. reply' = reply
        BY DEF ReadBody, unchangedByReceive
    <2>3. QED
        BY <1>1, <1>2, <1>9, <2>1, <2>2 DEF Kept, InStep
<1>10. CASE cPos' # "idle"
    BY <1>7, <1>10 DEF Return, Unbound, Nobody, Kept
<1>11. QED
    BY <1>9, <1>10

LEMMA GreetKept == ASSUME SInv, FirstLife, Greet PROVE Kept'
<1>1. at # "B"
    BY DEF SInv
<1>2. ASSUME at = "A" PROVE InStep'
    <2>1. cPos \notin {"idle", "send", "size", "body"}
        BY <1>2 DEF SInv, InStep, Greet
    <2>2. QED
        BY <2>1 DEF Greet, InStep
<1>3. QED
    BY <1>1, <1>2 DEF Greet, Kept

(* The server has the request, and the client waits for its answer. *)
LEMMA RequestIsHere ==
    ASSUME TInv, SInv, FirstLife, link = "accepted", wire # <<>>
    PROVE  at = "A" /\ (cPos = "size" => wire = <<call>> /\ stream = <<>>)
           /\ cPos \notin {"greeting", "idle", "send", "body"}
<1>1. at \in Servers /\ at # "B"
    BY DEF TInv, ConnType, SInv
<1>2. at = "A" /\ InStep
    BY <1>1 DEF Servers, SInv
<1>3. QED
    BY <1>2 DEF InStep, TInv, Greeted

LEMMA ServeKept == ASSUME TInv, SInv, FirstLife, Serve PROVE Kept'
<1>1. at = "A" /\ (cPos = "size" => wire = <<call>> /\ stream = <<>>)
      /\ cPos \notin {"greeting", "idle", "send", "body"}
    BY RequestIsHere DEF Serve
<1>2. WellFormed(reply')
    BY ServeTypes
<1>3. wire' = Tail(wire) /\ stream' = stream \o IntBytes(Len(reply')) \o reply'
      /\ cPos' = cPos /\ at' = at /\ link' = "accepted"
    BY DEF Serve
<1>4. ASSUME cPos = "size"
      PROVE  wire' = <<>> /\ stream' = IntBytes(Len(reply')) \o reply'
    <2>1. Tail(<<call>>) = <<>>
        OBVIOUS
    <2>2. IntBytes(Len(reply')) \in Seq(Byte)
        <3>1. Len(reply') \in Int
            BY <1>2, LenProperties DEF WellFormed
        <3>2. QED
            BY <3>1, IntBytesTypes
    <2>3. <<>> \o IntBytes(Len(reply')) = IntBytes(Len(reply'))
        BY <2>2, EmptyFirst
    <2>4. QED
        BY <1>1, <1>3, <1>4, <2>1, <2>3
<1>5. QED
    BY <1>1, <1>2, <1>3, <1>4 DEF Kept, InStep

(* With the death of A its first life is over. *)
LEMMA DiesIsOver ==
    ASSUME TInv, SInv, FirstLife, ServeMiss \/ ServeDies
    PROVE  ~FirstLife'
<1>1. at = "A"
    BY RequestIsHere DEF ServeMiss, ServeDies
<1>2. QED
    BY <1>1 DEF ServeMiss, ServeDies, Dies, FirstLife

LEMMA CrashKept ==
    ASSUME SInv, FirstLife, NEW s \in Servers, Crash(s), FirstLife'
    PROVE  Kept'
<1>1. s = "B"
    BY DEF Crash, Dies, FirstLife, Servers
<1>2. at # "B"
    BY DEF SInv
<1>3. UNCHANGED <<at, link, stream, wire, cPos, call, got, reply, rSize>>
    BY <1>1, <1>2 DEF Crash, Dies, callVars
<1>4. at = "A" => InStep
    BY DEF SInv
<1>5. QED
    BY <1>2, <1>3, <1>4 DEF Kept, InStep

LEMMA ServeLeftKept ==
    ASSUME SInv, FirstLife, NEW s \in Servers, ServeLeft(s), FirstLife'
    PROVE  Kept'
<1>1. at # "B"
    BY DEF SInv
<1>2. link' = link
    BY <1>1 DEF ServeLeft, Dies, FirstLife, Servers
<1>3. UNCHANGED <<at, stream, wire, cPos, call, got, reply, rSize>>
    BY DEF ServeLeft
<1>4. at = "A" => InStep
    BY DEF SInv
<1>5. QED
    BY <1>1, <1>2, <1>3, <1>4 DEF Kept, InStep

LEMMA SameKept ==
    ASSUME SInv, FirstLife, UNCHANGED <<connVars, cPos, call, got, reply, rSize>>
    PROVE  Kept'
BY DEF SInv, connVars, Kept, InStep

LEMMA CommandKept ==
    ASSUME SInv, FirstLife, NEW c, Command(c)
    PROVE  Kept'
<1>1. at = "A" /\ link = "accepted" /\ stream = <<>> /\ wire = <<>>
    BY InLife DEF Command, InStep
<1>2. CASE cPos' = "unbound" /\ Unbound
    BY <1>2 DEF Unbound, Nobody, Kept
<1>3. CASE cPos' = "send" /\ UNCHANGED connVars
    BY <1>1, <1>3 DEF connVars, Kept, InStep
<1>4. QED
    BY <1>2, <1>3 DEF Command

LEMMA CommandAfterUnbindKept ==
    ASSUME SInv, FirstLife, CommandAfterUnbind
    PROVE  Kept'
BY DEF SInv, CommandAfterUnbind, connVars, Kept, InStep

LEMMA QuitKept == ASSUME Quit PROVE Kept'
BY DEF Quit, Unbound, Nobody, Kept

LEMMA SNext == TInv /\ SInv /\ [Next]_vars => SInv'
<1> SUFFICES ASSUME TInv, SInv, [Next]_vars PROVE SInv'
    OBVIOUS
<1>1. Placed'
    BY PlacedNext DEF SInv
<1>2. ASSUME FirstLife' PROVE Kept'
    <2>1. FirstLife
        BY <1>2, OverIsOver
    <2>2. CASE ClientStep
        BY <2>1, <2>2, BindKept, BindFailsKept, GreetingReadKept, EndIsOver, SendKept,
           ReadSizeKept, ReadBodyKept DEF ClientStep
    <2>3. CASE ServerStep
        BY <1>2, <2>1, <2>3, GreetKept, ServeKept, DiesIsOver DEF ServerStep
    <2>4. CASE Environment
        <3>1. CASE ServeDies
            BY <1>2, <2>1, <3>1, DiesIsOver
        <3>2. CASE \E s \in Servers : ServeLeft(s) \/ Crash(s)
            BY <1>2, <2>1, <3>2, ServeLeftKept, CrashKept
        <3>3. CASE \E s \in Servers : Restart(s)
            BY <2>1, <3>3, SameKept DEF Restart
        <3>4. CASE (\E c \in Calls : Command(c)) \/ CommandAfterUnbind \/ Quit
            BY <2>1, <3>4, CommandKept, CommandAfterUnbindKept, QuitKept
        <3>5. QED
            BY <2>4, <3>1, <3>2, <3>3, <3>4 DEF Environment
    <2>5. CASE UNCHANGED vars
        BY <2>1, <2>5, SameKept DEF vars, callVars
    <2>6. QED
        BY <2>2, <2>3, <2>4, <2>5 DEF Next
<1>3. QED
    BY <1>1, <1>2 DEF SInv, Kept

(* As long as the client has not lost a server, each call gets the answer  *)
(* to itself, and nothing of it stays behind for the next one: the lengths *)
(* the client reads are the lengths the server wrote, and every answer of  *)
(* a server can be read.                                                   *)
THEOREM AnswersStayInStep == Spec => []AnswersInStep
<1>1. SInv => AnswersInStep
    BY DEF SInv, InStep, FirstLife, AnswersInStep
<1>2. TInv /\ SInv /\ [Next]_vars => SInv'
    BY SNext
<1>3. QED
    BY <1>1, <1>2, TAlways, SInit, PTL DEF Spec

=============================================================================
