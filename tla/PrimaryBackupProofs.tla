------------------------ MODULE PrimaryBackupProofs -------------------------
(***************************************************************************)
(* That the backup is in step with the primary, for any number of clients, *)
(* keys, values and crashes, and whether or not clients reach the backup   *)
(* while the primary is alive; and that the two servers are one            *)
(* ReplicatedMap to clients that turn to the backup only when the primary  *)
(* is dead.  A client that reaches the backup earlier makes it a second    *)
(* primary, so ~SplitBrain is what the clients owe the servers.            *)
(***************************************************************************)
EXTENDS PrimaryBackup, FiniteSetTheorems, TLAPS

Controls == {Control(p) : p \in HandshakePcs}

-----------------------------------------------------------------------------
(* What invoke does to tables.                                             *)

LEMMA TableTypes ==
    /\ EmptyTables \in Tables
    /\ NoTables \notin Tables
    /\ \A m \in Tables : DOMAIN m \subseteq Keys /\ m \in [DOMAIN m -> Values]
<1>1. EmptyTables \in [{} -> Values]
    BY DEF EmptyTables
<1>2. EmptyTables \in Tables
    BY <1>1 DEF Tables
<1>3. ASSUME NEW m \in Tables
      PROVE  DOMAIN m \subseteq Keys /\ m \in [DOMAIN m -> Values]
    <2>1. PICK D \in SUBSET Keys : m \in [D -> Values]
        BY DEF Tables
    <2>2. QED
        BY <2>1
<1>4. QED
    BY <1>2, <1>3, PrimaryBackupAssumption

(* Control messages are neither client requests nor None. *)
LEMMA RequestTypes ==
    /\ None \notin ClientRequests /\ None \notin Controls /\ None \notin Replies
    /\ None \notin Clients /\ None \notin Servers /\ Servers \cap Clients = {}
    /\ WriteRequests \subseteq ClientRequests
    /\ \A r \in WriteRequests :
          r.op \in {"put", "update"} /\ r.key \in Keys /\ r.value \in Values
    /\ \A r \in ClientRequests :
          r.op \in {"put", "update"} => r \in WriteRequests
    /\ \A p \in HandshakePcs :
          /\ Control(p).op = p
          /\ Control(p) \in Controls
          /\ Control(p) \notin WriteRequests
    /\ \A r \in Controls : r.op \in HandshakePcs
<1>1. None \notin Controls
    BY PrimaryBackupAssumption DEF Controls, Control, HandshakePcs
<1>2. \A r \in WriteRequests :
          r.op \in {"put", "update"} /\ r.key \in Keys /\ r.value \in Values
    BY DEF WriteRequests, Request
<1>3. \A p \in HandshakePcs : Control(p).op = p /\ Control(p) \in Controls
    BY DEF Controls, Control, Request
<1>4. \A p \in HandshakePcs : Control(p) \notin WriteRequests
    BY <1>2, <1>3 DEF HandshakePcs
<1>5. \A r \in ClientRequests :
          r.op \in {"put", "update"} => r \in WriteRequests
    BY DEF ClientRequests, ReadRequests, Request
<1>6. QED
    BY <1>1, <1>2, <1>3, <1>4, <1>5, PrimaryBackupAssumption
       DEF ClientRequests, Controls

LEMMA AfterType ==
    ASSUME NEW m \in Tables, NEW r \in ClientRequests \cup Controls,
           Accepted(m, r)
    PROVE  After(m, r) \in Tables
<1>1. CASE r.op \in {"put", "update"}
    <2>1. r \in WriteRequests
        BY <1>1, RequestTypes DEF HandshakePcs
    <2>2. r.key \in Keys /\ r.value \in Values
        BY <2>1, RequestTypes
    <2>3. DOMAIN m \cup {r.key} \in SUBSET Keys
        BY <2>2, TableTypes
    <2>4. After(m, r) \in [DOMAIN m \cup {r.key} -> Values]
        BY <1>1, <2>2, TableTypes DEF After
    <2>5. QED
        BY <2>3, <2>4 DEF Tables
<1>2. CASE r.op \notin {"put", "update"}
    BY <1>2 DEF After
<1>3. QED
    BY <1>1, <1>2

LEMMA ReplyType ==
    ASSUME NEW ok \in BOOLEAN, NEW v \in Values \cup {NoValue}, NEW n \in Nat
    PROVE  Reply(ok, v, n) \in Replies /\ Reply(ok, v, n).ok = ok
BY DEF Reply, Replies

LEMMA AnswerType ==
    ASSUME NEW m \in Tables \cup {NoTables},
           NEW r \in ClientRequests \cup Controls
    PROVE  /\ Answer(m, r) \in Replies
           /\ Answer(m, r).ok <=> Accepted(m, r)
<1>1. CASE ~Accepted(m, r)
    BY <1>1, ReplyType DEF Answer
<1>2. CASE Accepted(m, r)
    <2>1. m \in Tables /\ IsFiniteSet(DOMAIN m)
        BY <1>2, TableTypes, FS_Subset, PrimaryBackupAssumption DEF Accepted
    <2>2. Cardinality(DOMAIN m) \in Nat
        BY <2>1, FS_CardinalityType
    <2>3. r.key \in DOMAIN m => m[r.key] \in Values
        BY <2>1, TableTypes
    <2>4. CASE r.op = "get"
        <3>1. Answer(m, r) = Reply(TRUE,
                    IF r.key \in DOMAIN m THEN m[r.key] ELSE NoValue, 0)
            BY <1>2, <2>4 DEF Answer
        <3>2. QED
            BY <3>1, <2>3, <1>2, ReplyType
    <2>5. CASE r.op = "stat"
        <3>1. Answer(m, r) = Reply(TRUE, NoValue, Cardinality(DOMAIN m))
            BY <1>2, <2>5 DEF Answer
        <3>2. QED
            BY <3>1, <2>2, <1>2, ReplyType
    <2>6. CASE r.op \notin {"get", "stat"}
        <3>1. Answer(m, r) = Reply(TRUE, NoValue, 0)
            BY <1>2, <2>6 DEF Answer, Accepted
        <3>2. QED
            BY <3>1, <1>2, ReplyType
    <2>7. QED
        BY <2>4, <2>5, <2>6
<1>3. QED
    BY <1>1, <1>2
-----------------------------------------------------------------------------
(* The inductive invariant.  BackupInStep is not inductive by itself: that *)
(* no message but a write reaches B's tables once they are set up, and no  *)
(* message but the answer to it reaches A, is ProtocolInStep.              *)
PInv ==
    /\ TypeOK
    /\ ProtocolInStep
    /\ BackupInStep
    /\ BackupNeverRefuses

USE DEF PInv, ProtocolInStep, Servers, HandshakePcs, Alive, HasTables

LEMMA StartAStep ==
    ASSUME PInv, StartA
    PROVE  PInv'
<1>1. TypeOK'
    BY TableTypes DEF StartA, wireVars, clientVars, TypeOK, Pcs
<1>2. LifeInStep'
    BY TableTypes DEF StartA, wireVars, TypeOK, LifeInStep
<1>3. SnapshotInStep'
    BY DEF StartA, wireVars, SnapshotInStep
<1>4. HandshakeInStep'
    BY DEF StartA, HandshakeInStep
<1>5. PairInStep'
    BY DEF StartA, PairInStep
<1>6. BackupInStep'
    BY DEF StartA, LifeInStep, BackupInStep
<1>7. BackupNeverRefuses'
    BY DEF StartA, wireVars, BackupNeverRefuses
<1>8. QED
    BY <1>1, <1>2, <1>3, <1>4, <1>5, <1>6, <1>7

LEMMA ConnectStep ==
    ASSUME PInv, Connect
    PROVE  PInv'
<1>1. TypeOK'
    BY DEF Connect, clientVars, TypeOK, Pcs
<1>2. LifeInStep'
    BY RequestTypes DEF Connect, TypeOK, LifeInStep
<1>3. SnapshotInStep'
    BY DEF Connect, LifeInStep, SnapshotInStep
<1>4. HandshakeInStep'
    BY RequestTypes DEF Connect, TypeOK, LifeInStep, HandshakeInStep
<1>5. PairInStep'
    BY DEF Connect, PairInStep
<1>6. BackupInStep'
    BY DEF Connect, LifeInStep, BackupInStep
<1>7. BackupNeverRefuses'
    BY DEF Connect, BackupNeverRefuses
<1>8. QED
    BY <1>1, <1>2, <1>3, <1>4, <1>5, <1>6, <1>7

LEMMA ConnectFailsStep ==
    ASSUME PInv, ConnectFails
    PROVE  PInv'
<1>1. TypeOK'
    BY DEF ConnectFails, wireVars, clientVars, TypeOK, Pcs
<1>2. LifeInStep'
    BY DEF ConnectFails, wireVars, LifeInStep
<1>3. SnapshotInStep'
    BY DEF ConnectFails, wireVars, SnapshotInStep
<1>4. HandshakeInStep'
    BY DEF ConnectFails, HandshakeInStep
<1>5. PairInStep'
    BY DEF ConnectFails, wireVars, LifeInStep, PairInStep
<1>6. BackupInStep'
    BY DEF ConnectFails, LifeInStep, BackupInStep
<1>7. BackupNeverRefuses'
    BY DEF ConnectFails, wireVars, BackupNeverRefuses
<1>8. QED
    BY <1>1, <1>2, <1>3, <1>4, <1>5, <1>6, <1>7

LEMMA HandshakeReplyStep ==
    ASSUME PInv, HandshakeReply
    PROVE  PInv'
<1>1. TypeOK'
    BY DEF HandshakeReply, NextHandshakeMessage, Successor, Sent, clientVars,
           TypeOK, Pcs
<1>2. LifeInStep'
    BY RequestTypes
       DEF HandshakeReply, NextHandshakeMessage, Successor, Sent,
           HandshakeInStep, LifeInStep
<1>3. SnapshotInStep'
    BY DEF HandshakeReply, NextHandshakeMessage, HandshakeInStep,
           SnapshotInStep
<1>4. HandshakeInStep'
    BY DEF HandshakeReply, NextHandshakeMessage, Successor, Sent, TypeOK,
           HandshakeInStep
<1>5. PairInStep'
    BY DEF HandshakeReply, NextHandshakeMessage, Successor, TypeOK,
           LifeInStep, HandshakeInStep, PairInStep
<1>6. BackupInStep'
    BY DEF HandshakeReply, NextHandshakeMessage, Successor, InFlight,
           BackupInStep
<1>7. BackupNeverRefuses'
    BY DEF HandshakeReply, BackupNeverRefuses
<1>8. QED
    BY <1>1, <1>2, <1>3, <1>4, <1>5, <1>6, <1>7

LEMMA HandshakeGoesOnStep ==
    ASSUME PInv, pc["A"] \in HandshakePcs, ~Alive("B"), wireRep = None,
           NextHandshakeMessage,
           UNCHANGED <<primario, state, store, peer, pend, served, ready, cur,
                       wireRep, clientVars, crashes>>
    PROVE  PInv'
<1>1. TypeOK'
    BY DEF NextHandshakeMessage, Successor, Sent, clientVars, TypeOK, Pcs
<1>2. LifeInStep'
    BY DEF NextHandshakeMessage, Successor, Sent, LifeInStep
<1>3. SnapshotInStep'
    BY DEF NextHandshakeMessage, SnapshotInStep
<1>4. HandshakeInStep'
    BY DEF NextHandshakeMessage, HandshakeInStep
<1>5. PairInStep'
    BY DEF NextHandshakeMessage, Successor, LifeInStep, PairInStep
<1>6. BackupInStep'
    BY DEF LifeInStep, BackupInStep
<1>7. BackupNeverRefuses'
    BY DEF BackupNeverRefuses
<1>8. QED
    BY <1>1, <1>2, <1>3, <1>4, <1>5, <1>6, <1>7

LEMMA StartBStep ==
    ASSUME PInv, StartB
    PROVE  PInv'
<1>1. TypeOK'
    BY DEF StartB, wireVars, clientVars, TypeOK, Pcs
<1>2. LifeInStep'
    BY DEF StartB, wireVars, LifeInStep
<1>3. SnapshotInStep'
    BY DEF StartB, SnapshotInStep
<1>4. HandshakeInStep'
    BY DEF StartB, LifeInStep, HandshakeInStep
<1>5. PairInStep'
    BY DEF StartB, wireVars, PairInStep
<1>6. BackupInStep'
    BY DEF StartB, LifeInStep, BackupInStep
<1>7. BackupNeverRefuses'
    BY DEF StartB, wireVars, BackupNeverRefuses
<1>8. QED
    BY <1>1, <1>2, <1>3, <1>4, <1>5, <1>6, <1>7

LEMMA AcceptPeerStep ==
    ASSUME PInv, AcceptPeer
    PROVE  PInv'
<1>1. TypeOK'
    BY DEF AcceptPeer, wireVars, clientVars, TypeOK, Pcs
<1>2. LifeInStep'
    BY DEF AcceptPeer, wireVars, TypeOK, LifeInStep
<1>3. SnapshotInStep'
    BY DEF AcceptPeer, SnapshotInStep
<1>4. HandshakeInStep'
    BY RequestTypes
       DEF AcceptPeer, wireVars, TypeOK, LifeInStep, HandshakeInStep
<1>5. PairInStep'
    BY DEF AcceptPeer, wireVars, PairInStep
<1>6. BackupInStep'
    BY DEF AcceptPeer, LifeInStep, BackupInStep
<1>7. BackupNeverRefuses'
    BY DEF AcceptPeer, wireVars, BackupNeverRefuses
<1>8. QED
    BY <1>1, <1>2, <1>3, <1>4, <1>5, <1>6, <1>7

LEMMA SyncStepStep ==
    ASSUME PInv, SyncStep
    PROVE  PInv'
<1>1. TypeOK'
    BY TableTypes, ReplyType DEF SyncStep, TypeOK, Pcs, clientVars
<1>2. pc["A"] \notin {"off", "connect", "loop", "replicate", "stuck"}
    BY DEF SyncStep, LifeInStep, PairInStep
<1>3. LifeInStep' /\ HandshakeInStep'
    <2>1. CASE pc["A"] = "dead"
        <3>1. pc'["A"] = "dead" /\ wireReq' = None /\ wireRep' = None
            BY <2>1 DEF SyncStep
        <3>2. LifeInStep'
            BY <2>1, RequestTypes DEF SyncStep, LifeInStep, TypeOK
        <3>3. QED
            BY <3>1, <3>2 DEF HandshakeInStep
    <2>2. CASE pc["A"] \in HandshakePcs
        <3>1. wireReq = Control(pc["A"]) /\ wireRep = None
            BY <2>2 DEF SyncStep, HandshakeInStep
        <3>2. wireReq.op = pc["A"]
            BY <2>2, <3>1, RequestTypes
        <3>3. wireRep' # None /\ wireReq' = None /\ pc'["A"] = pc["A"]
            <4>1. Reply(TRUE, NoValue, 0) \in Replies
                BY ReplyType
            <4>2. QED
                BY <2>2, <4>1, RequestTypes DEF SyncStep, TypeOK
        <3>4. LifeInStep'
            BY <2>2, <3>3, RequestTypes DEF SyncStep, LifeInStep, TypeOK
        <3>5. HandshakeInStep'
            BY <3>2, <3>3 DEF SyncStep, LifeInStep, HandshakeInStep, TypeOK
        <3>6. QED
            BY <3>4, <3>5
    <2>3. QED
        BY <1>2, <2>1, <2>2 DEF TypeOK, Pcs, LifeInStep
<1>4. SnapshotInStep'
    BY DEF SyncStep, SnapshotInStep
<1>5. PairInStep'
    BY DEF SyncStep, PairInStep
<1>6. BackupInStep'
    <2>1. HasTables("A")' => store'["A"] = EmptyTables
        BY <1>2 DEF SyncStep, LifeInStep, TypeOK, Pcs
    <2>2. HasTables("B")' => store'["B"] = EmptyTables
        BY DEF SyncStep, LifeInStep
    <2>3. ~InFlight'
        BY DEF SyncStep, InFlight
    <2>4. QED
        BY <2>1, <2>2, <2>3 DEF BackupInStep
<1>7. BackupNeverRefuses'
    BY ReplyType DEF SyncStep, BackupNeverRefuses
<1>8. QED
    BY <1>1, <1>3, <1>4, <1>5, <1>6, <1>7

LEMMA PollStep ==
    ASSUME PInv, NEW s \in Servers, Poll(s)
    PROVE  PInv'
<1>1. TypeOK'
    BY DEF Poll, Events, wireVars, clientVars, TypeOK
<1>2. LifeInStep'
    BY DEF Poll, wireVars, LifeInStep
<1>3. SnapshotInStep'
    BY PrimaryBackupAssumption
       DEF Poll, Events, ServerReadable, Other, wireVars, TypeOK, LifeInStep,
           SnapshotInStep
<1>4. HandshakeInStep'
    BY DEF Poll, wireVars, HandshakeInStep
<1>5. PairInStep'
    BY DEF Poll, wireVars, PairInStep
<1>6. BackupInStep'
    BY DEF Poll, wireVars, InFlight, BackupInStep
<1>7. BackupNeverRefuses'
    BY DEF Poll, wireVars, BackupNeverRefuses
<1>8. QED
    BY <1>1, <1>2, <1>3, <1>4, <1>5, <1>6, <1>7

LEMMA AcceptStep ==
    ASSUME PInv, NEW s \in Servers, Accept(s)
    PROVE  PInv'
<1>1. TypeOK'
    BY DEF Accept, wireVars, TypeOK
<1>2. LifeInStep'
    BY RequestTypes DEF Accept, wireVars, LifeInStep
<1>3. SnapshotInStep'
    BY DEF Accept, wireVars, TypeOK, SnapshotInStep
<1>4. HandshakeInStep'
    BY DEF Accept, wireVars, HandshakeInStep
<1>5. PairInStep'
    BY DEF Accept, wireVars, LifeInStep, PairInStep
<1>6. BackupInStep'
    BY DEF Accept, TypeOK, InFlight, BackupInStep
<1>7. BackupNeverRefuses'
    BY DEF Accept, wireVars, BackupNeverRefuses
<1>8. QED
    BY <1>1, <1>2, <1>3, <1>4, <1>5, <1>6, <1>7

LEMMA AcceptWhenFullStep ==
    ASSUME PInv, NEW s \in Servers, AcceptWhenFull(s)
    PROVE  PInv'
<1>1. TypeOK'
    BY DEF AcceptWhenFull, wireVars, clientVars, TypeOK
<1>2. LifeInStep'
    BY DEF AcceptWhenFull, wireVars, LifeInStep
<1>3. SnapshotInStep'
    BY DEF AcceptWhenFull, wireVars, SnapshotInStep
<1>4. HandshakeInStep'
    BY DEF AcceptWhenFull, wireVars, HandshakeInStep
<1>5. PairInStep'
    BY DEF AcceptWhenFull, wireVars, PairInStep
<1>6. BackupInStep'
    BY DEF AcceptWhenFull, wireVars, InFlight, BackupInStep
<1>7. BackupNeverRefuses'
    BY DEF AcceptWhenFull, wireVars, BackupNeverRefuses
<1>8. QED
    BY <1>1, <1>2, <1>3, <1>4, <1>5, <1>6, <1>7

LEMMA ServeServerStep ==
    ASSUME PInv, ServeServer
    PROVE  PInv'
<1>1. wireReq \in ClientRequests \cup Controls
    BY RequestTypes DEF ServeServer, TypeOK
<1>2. store["B"] \in Tables /\ HasTables("B")
    BY DEF ServeServer, LifeInStep, TypeOK
<1>3. Answer(store["B"], wireReq) \in Replies
    BY <1>1, <1>2, AnswerType
<1>4. Accepted(store["B"], wireReq) => After(store["B"], wireReq) \in Tables
    BY <1>1, <1>2, AfterType
<1>5. pc["A"] \in {"replicate", "dead"}
    BY DEF ServeServer, LifeInStep, HandshakeInStep, PairInStep, TypeOK, Pcs
<1>6. HasTables("B")'
    BY <1>2, <1>4, TableTypes DEF ServeServer
<1>7. ~primario["B"] /\ Alive("A") =>
        Accepted(store["B"], wireReq) /\ store["A"] = After(store["B"], wireReq)
    BY <1>5 DEF ServeServer, BackupInStep, InFlight, LifeInStep
<1>8. TypeOK'
    BY <1>3, <1>4 DEF ServeServer, TypeOK, clientVars
<1>9. LifeInStep'
    BY <1>5, <1>6 DEF ServeServer, LifeInStep
<1>10. SnapshotInStep'
    BY DEF ServeServer, SnapshotInStep, TypeOK
<1>11. HandshakeInStep'
    BY DEF ServeServer, HandshakeInStep
<1>12. PairInStep'
    BY <1>6 DEF ServeServer, PairInStep
<1>13. BackupInStep'
    BY <1>7 DEF ServeServer, BackupInStep, InFlight, LifeInStep, TypeOK
<1>14. BackupNeverRefuses'
    BY <1>1, <1>2, <1>7, AnswerType DEF ServeServer, BackupNeverRefuses
<1>15. QED
    BY <1>8, <1>9, <1>10, <1>11, <1>12, <1>13, <1>14

LEMMA ServerGoneStep ==
    ASSUME PInv, NEW s \in Servers, ServerGone(s)
    PROVE  PInv'
<1>1. TypeOK'
    BY DEF ServerGone, wireVars, clientVars, TypeOK
<1>2. LifeInStep'
    BY DEF ServerGone, wireVars, LifeInStep
<1>3. SnapshotInStep'
    BY DEF ServerGone, SnapshotInStep
<1>4. HandshakeInStep'
    BY DEF ServerGone, SnapshotInStep, HandshakeInStep
<1>5. PairInStep'
    BY DEF ServerGone, wireVars, SnapshotInStep, PairInStep
<1>6. BackupInStep'
    BY DEF ServerGone, wireVars, InFlight, BackupInStep
<1>7. BackupNeverRefuses'
    BY DEF ServerGone, wireVars, BackupNeverRefuses
<1>8. QED
    BY <1>1, <1>2, <1>3, <1>4, <1>5, <1>6, <1>7

LEMMA ClientGoneStep ==
    ASSUME PInv, NEW s \in Servers, NEW c \in Clients, ClientGone(s, c)
    PROVE  PInv'
<1>1. TypeOK'
    BY DEF ClientGone, wireVars, clientVars, TypeOK
<1>2. LifeInStep'
    BY DEF ClientGone, wireVars, LifeInStep
<1>3. SnapshotInStep'
    BY DEF ClientGone, TypeOK, PairInStep, SnapshotInStep
<1>4. HandshakeInStep'
    BY DEF ClientGone, wireVars, HandshakeInStep
<1>5. PairInStep'
    BY DEF ClientGone, wireVars, PairInStep
<1>6. BackupInStep'
    BY DEF ClientGone, wireVars, InFlight, BackupInStep
<1>7. BackupNeverRefuses'
    BY DEF ClientGone, wireVars, BackupNeverRefuses
<1>8. QED
    BY <1>1, <1>2, <1>3, <1>4, <1>5, <1>6, <1>7

LEMMA ServeStep ==
    ASSUME PInv, NEW s \in Servers, NEW c \in Clients, Serve(s, c)
    PROVE  PInv'
<1>1. req[c] \in ClientRequests /\ store[s] \in Tables \cup {NoTables}
    BY DEF Serve, Invoking, TypeOK
<1>2. Answer(store[s], req[c]) \in Replies
    BY <1>1, AnswerType
<1>3. Accepted(store[s], req[c]) =>
        store[s] \in Tables /\ After(store[s], req[c]) \in Tables
    BY <1>1, AfterType DEF Accepted
<1>4. TypeOK'
    BY <1>2, <1>3 DEF Serve, Respond, TypeOK, wireVars
<1>5. \A t \in Servers : HasTables(t)' <=> HasTables(t)
    BY <1>3, TableTypes DEF Serve
<1>6. pc[s] = "loop" /\ c \in served[s]
    BY DEF Serve, Invoking, SnapshotInStep
<1>7. LifeInStep'
    BY <1>5, <1>6 DEF Serve, LifeInStep, wireVars
<1>8. SnapshotInStep'
    BY DEF Serve, Respond, SnapshotInStep, wireVars
<1>9. HandshakeInStep'
    BY <1>5 DEF Serve, HandshakeInStep, wireVars
<1>10. PairInStep'
    BY <1>5 DEF Serve, PairInStep, wireVars
<1>11. BackupInStep'
    <2>1. CASE s = "A" /\ HasTables("B")
        <3>1. state["A"] = 1 /\ primario["A"]
            BY <1>6, <2>1 DEF PairInStep, LifeInStep
        <3>2. Accepted(store["A"], req[c]) => After(store["A"], req[c]) = store["A"]
            BY <2>1, <3>1 DEF Serve, Replicates, After
        <3>3. store' = store
            BY <2>1, <3>2 DEF Serve, TypeOK
        <3>4. QED
            BY <3>3 DEF Serve, BackupInStep, InFlight, wireVars
    <2>2. CASE s = "B"
        <3>1. primario["B"]
            BY <1>6, <2>2 DEF SnapshotInStep
        <3>2. QED
            BY <3>1 DEF Serve, BackupInStep
    <2>3. QED
        BY <1>5, <2>1, <2>2 DEF BackupInStep
<1>12. BackupNeverRefuses'
    BY DEF Serve, BackupNeverRefuses, wireVars
<1>13. QED
    BY <1>4, <1>7, <1>8, <1>9, <1>10, <1>11, <1>12

LEMMA ReplicateStep ==
    ASSUME PInv, NEW c \in Clients, Replicate(c)
    PROVE  PInv'
<1>1. TypeOK'
    BY RequestTypes, AfterType
       DEF Replicate, Invoking, Replicates, Sent, clientVars, TypeOK, Pcs,
           LifeInStep
<1>2. LifeInStep'
    BY TableTypes, AfterType
       DEF Replicate, Invoking, Replicates, Sent, TypeOK, PairInStep,
           LifeInStep
<1>3. SnapshotInStep'
    BY DEF Replicate, Invoking, TypeOK, PairInStep, SnapshotInStep
<1>4. HandshakeInStep'
    BY DEF Replicate, TypeOK, HandshakeInStep
<1>5. PairInStep'
    BY RequestTypes
       DEF Replicate, Invoking, Replicates, Sent, TypeOK, PairInStep
<1>6. BackupInStep'
    BY DEF Replicate, Invoking, Replicates, Sent, TypeOK, InFlight,
           LifeInStep, BackupInStep
<1>7. BackupNeverRefuses'
    BY DEF Replicate, BackupNeverRefuses
<1>8. QED
    BY <1>1, <1>2, <1>3, <1>4, <1>5, <1>6, <1>7

LEMMA ReplicatedStep ==
    ASSUME PInv, Replicated
    PROVE  PInv'
<1>1. TypeOK'
    BY ReplyType DEF Replicated, EndReplicate, Respond, TypeOK, Pcs
<1>2. LifeInStep'
    BY DEF Replicated, EndReplicate, TypeOK, LifeInStep
<1>3. SnapshotInStep'
    BY DEF Replicated, EndReplicate, Respond, SnapshotInStep
<1>4. HandshakeInStep'
    BY DEF Replicated, EndReplicate, HandshakeInStep
<1>5. PairInStep'
    BY DEF Replicated, EndReplicate, LifeInStep, PairInStep
<1>6. BackupInStep'
    BY DEF Replicated, InFlight, LifeInStep, BackupInStep
<1>7. BackupNeverRefuses'
    BY DEF Replicated, BackupNeverRefuses
<1>8. QED
    BY <1>1, <1>2, <1>3, <1>4, <1>5, <1>6, <1>7

LEMMA ReplicateGoesOnStep ==
    ASSUME PInv, pc["A"] = "replicate", ~Alive("B"), wireRep = None, EndReplicate,
           UNCHANGED <<primario, state, store, peer, pend, served, wireVars,
                       at, open, crashes>>
    PROVE  PInv'
<1>1. TypeOK'
    BY ReplyType DEF EndReplicate, Respond, wireVars, TypeOK, Pcs
<1>2. LifeInStep'
    BY DEF EndReplicate, wireVars, TypeOK, LifeInStep
<1>3. SnapshotInStep'
    BY DEF EndReplicate, Respond, SnapshotInStep
<1>4. HandshakeInStep'
    BY DEF EndReplicate, HandshakeInStep
<1>5. PairInStep'
    BY DEF EndReplicate, wireVars, LifeInStep, PairInStep
<1>6. BackupInStep'
    BY DEF PairInStep, BackupInStep
<1>7. BackupNeverRefuses'
    BY DEF wireVars, BackupNeverRefuses
<1>8. QED
    BY <1>1, <1>2, <1>3, <1>4, <1>5, <1>6, <1>7

LEMMA ClientConnectStep ==
    ASSUME PInv, NEW c \in Clients, NEW s \in Servers, ClientConnect(c, s)
    PROVE  PInv'
<1>1. TypeOK'
    BY DEF ClientConnect, serverVars, wireVars, TypeOK
<1>2. LifeInStep'
    BY RequestTypes DEF ClientConnect, serverVars, wireVars, LifeInStep
<1>3. SnapshotInStep'
    BY DEF ClientConnect, serverVars, wireVars, SnapshotInStep
<1>4. HandshakeInStep'
    BY RequestTypes DEF ClientConnect, serverVars, wireVars, HandshakeInStep
<1>5. PairInStep'
    BY DEF ClientConnect, serverVars, wireVars, PairInStep
<1>6. BackupInStep'
    BY DEF ClientConnect, serverVars, wireVars, InFlight, BackupInStep
<1>7. BackupNeverRefuses'
    BY DEF ClientConnect, serverVars, wireVars, BackupNeverRefuses
<1>8. QED
    BY <1>1, <1>2, <1>3, <1>4, <1>5, <1>6, <1>7

LEMMA DiesStep ==
    ASSUME PInv, NEW s \in Servers, Alive(s), crashes' \in 0 .. MaxCrashes, Dies(s)
    PROVE  PInv'
<1>1. TypeOK'
    BY DEF Dies, TypeOK, Pcs
<1>2. LifeInStep'
    BY RequestTypes DEF Dies, TypeOK, LifeInStep
<1>3. SnapshotInStep'
    BY DEF Dies, TypeOK, SnapshotInStep
<1>4. HandshakeInStep'
    BY DEF Dies, TypeOK, HandshakeInStep
<1>5. PairInStep'
    BY DEF Dies, TypeOK, PairInStep
<1>6. BackupInStep'
    BY DEF Dies, TypeOK, BackupInStep
<1>7. BackupNeverRefuses'
    BY DEF Dies, BackupNeverRefuses
<1>8. QED
    BY <1>1, <1>2, <1>3, <1>4, <1>5, <1>6, <1>7

(* What clients send, and what they are answered before there are tables,  *)
(* is not seen by the protocol.                                            *)
LEMMA FrameStep ==
    ASSUME PInv, TypeOK', UNCHANGED <<pc, primario, state, store, peer, pend,
                                      served, ready, cur, wireReq, wireRep>>
    PROVE  PInv'
<1>1. LifeInStep'
    BY DEF LifeInStep
<1>2. SnapshotInStep'
    BY DEF SnapshotInStep
<1>3. HandshakeInStep'
    BY DEF HandshakeInStep
<1>4. PairInStep'
    BY DEF PairInStep
<1>5. BackupInStep'
    BY DEF BackupInStep, InFlight
<1>6. BackupNeverRefuses'
    BY DEF BackupNeverRefuses
<1>7. QED
    BY <1>1, <1>2, <1>3, <1>4, <1>5, <1>6

LEMMA ClientStep ==
    ASSUME PInv, NEW c \in Clients,
           ClientClose(c) \/ \E r \in ClientRequests : ClientSend(c, r)
    PROVE  PInv'
<1>1. TypeOK'
    <2>1. CASE ClientClose(c)
        BY <2>1 DEF ClientClose, TypeOK, serverVars, wireVars
    <2>2. ASSUME NEW r \in ClientRequests, ClientSend(c, r) PROVE TypeOK'
        BY <2>2 DEF ClientSend, TypeOK, serverVars, wireVars
    <2>3. QED
        BY <2>1, <2>2
<1>2. QED
    BY <1>1, FrameStep DEF ClientClose, ClientSend, serverVars, wireVars

LEMMA SyncClientStep ==
    ASSUME PInv, SyncClient
    PROVE  PInv'
<1>1. Answer(store["B"], req[peer["B"]]) \in Replies
    BY AnswerType DEF SyncClient, TypeOK
<1>2. TypeOK'
    BY <1>1 DEF SyncClient, TypeOK, serverVars, wireVars
<1>3. QED
    BY <1>2, FrameStep DEF SyncClient, serverVars, wireVars

-----------------------------------------------------------------------------
LEMMA PInvInit == Init => PInv
<1>1. Init => TypeOK
    BY PrimaryBackupAssumption DEF Init, TypeOK, Pcs
<1>2. Init => ProtocolInStep
    BY PrimaryBackupAssumption
       DEF Init, LifeInStep, SnapshotInStep, HandshakeInStep, PairInStep, Control,
           Request
<1>3. Init => BackupInStep /\ BackupNeverRefuses
    BY DEF Init, BackupInStep, BackupNeverRefuses
<1>4. QED
    BY <1>1, <1>2, <1>3

LEMMA PInvStep == PInv /\ [Next]_vars => PInv'
<1> SUFFICES ASSUME PInv, [Next]_vars PROVE PInv'
    OBVIOUS
<1>1. ASSUME NEW s \in Servers, Crash(s) PROVE PInv'
    <2>1. crashes' \in 0 .. MaxCrashes
        BY <1>1, PrimaryBackupAssumption DEF Crash, TypeOK
    <2>2. QED
        BY <1>1, <2>1, DiesStep DEF Crash
<1>2. ASSUME NEW s \in Servers, Alive(s), Dies(s), UNCHANGED crashes PROVE PInv'
    BY <1>2, DiesStep DEF TypeOK
<1>3. CASE HandshakeFails
    BY <1>2, <1>3, HandshakeGoesOnStep DEF HandshakeFails
<1>4. CASE SyncFails
    BY <1>2, <1>4 DEF SyncFails
<1>5. CASE ReplicateFails
    BY <1>2, <1>5, ReplicateGoesOnStep DEF ReplicateFails
<1>6. ASSUME NEW s \in Servers, NEW c \in Clients, ServeMiss(s, c) PROVE PInv'
    BY <1>2, <1>6 DEF ServeMiss, Invoking
<1>7. CASE AStep
    BY <1>3, <1>5, <1>6, <1>7, ConnectStep, ConnectFailsStep, HandshakeReplyStep,
       PollStep, AcceptStep, AcceptWhenFullStep, ServerGoneStep, ClientGoneStep,
       ServeStep, ReplicateStep, ReplicatedStep
       DEF AStep
<1>8. CASE BStep
    BY <1>4, <1>6, <1>8, AcceptPeerStep, SyncStepStep, SyncClientStep, PollStep,
       AcceptStep, AcceptWhenFullStep, ServeServerStep, ServerGoneStep,
       ClientGoneStep, ServeStep
       DEF BStep
<1>9. CASE Environment
    BY <1>1, <1>9, StartAStep, StartBStep, ClientConnectStep, ClientStep
       DEF Environment
<1>10. CASE UNCHANGED vars
    <2>1. TypeOK'
        BY <1>10 DEF vars, serverVars, wireVars, clientVars, TypeOK
    <2>2. QED
        BY <1>10, <2>1, FrameStep DEF vars, serverVars, wireVars
<1>11. QED
    BY <1>7, <1>8, <1>9, <1>10 DEF Next

LEMMA PairInvariance == Spec => []PInv
<1>1. QED
    BY PInvInit, PInvStep, PTL DEF Spec
-----------------------------------------------------------------------------
(* The variables of both servers and the messages between them keep their  *)
(* types.                                                                  *)
THEOREM PairTypeCorrect == Spec => []TypeOK
<1>1. PInv => TypeOK
    OBVIOUS
<1>2. QED
    BY <1>1, PairInvariance, PTL

(* The start-up handshake, the requests A passes on, B's answers and what  *)
(* each server believes of the other fit together message by message,      *)
(* whatever dies and whoever connects (main, table-server.c:367).          *)
THEOREM ProtocolCorrect == Spec => []ProtocolInStep
<1>1. PInv => ProtocolInStep
    OBVIOUS
<1>2. QED
    BY <1>1, PairInvariance, PTL

(* Until a client reaches B, B holds the tables of A but for the write on  *)
(* its way (network_receive_send, table-server.c:216-244): B can take over *)
(* at any moment without losing a write that was answered.                 *)
THEOREM BackupCorrect == Spec => []BackupInStep
<1>1. PInv => BackupInStep
    OBVIOUS
<1>2. QED
    BY <1>1, PairInvariance, PTL

(* B accepts every write A passes on, so it does no harm that pthread_main *)
(* ignores B's answer (table-server.c:336).                                *)
THEOREM BackupAccepts == Spec => []BackupNeverRefuses
<1>1. PInv => BackupNeverRefuses
    OBVIOUS
<1>2. QED
    BY <1>1, PairInvariance, PTL

-----------------------------------------------------------------------------
(* PrimaryBackup implements ReplicatedMap.                                 *)

(* Whose request is where.  A client stays with the server it has chosen,  *)
(* and B has none before A is dead; A waits for the thread with one        *)
(* client's write, and nothing else is sent to B; and of a write that is   *)
(* still on its way when A dies, the client is waiting no more.            *)
ClientsInStep ==
    /\ \A c \in Clients : at[c] = "B" => pc["A"] = "dead"
    /\ primario["B"] => pc["A"] = "dead"
    /\ \A s \in Servers :
          /\ \A c \in served[s] : at[c] = s
          /\ pend[s] \in Clients => at[pend[s]] = s
    /\ peer["B"] \in Clients => at[peer["B"]] = "B" /\ ~HasTables("B")
    /\ pc["A"] \in {"replicate", "stuck"} =>
          /\ cur \in Clients /\ at[cur] = "A" /\ req[cur] \in WriteRequests
          /\ wireReq \in {None, req[cur]}
    /\ Orphan =>
          /\ cur \in Clients /\ at[cur] = "A" /\ req[cur] = None
          /\ pc["B"] = "loop"

RInv == PInv /\ ClientsInStep

USE DEF PInv, ProtocolInStep, Servers, HandshakePcs, Alive, HasTables, RInv

(* A control message is nobody's request. *)
LEMMA OnlyWritesWrite ==
    \A w \in WriteRequests \cup {Control(p) : p \in HandshakePcs} \cup {None} :
        w # None /\ w.op \in {"put", "update"} <=> w \in WriteRequests
BY RequestTypes DEF Controls

(* Steps that leave the clients' part of the state alone.                  *)
LEMMA ClientsFrame ==
    ASSUME RInv, PInv',
           UNCHANGED <<peer, pend, served, at, req, cur>>,
           primario'["B"] = primario["B"],
           wireReq' = wireReq \/ wireReq' \notin WriteRequests,
           pc["A"] = "dead" <=> pc'["A"] = "dead",
           pc'["A"] \in {"replicate", "stuck"} =>
              pc'["A"] = pc["A"] /\ wireReq' \in {None, wireReq},
           pc["B"] = "loop" => pc'["B"] = "loop",
           peer["B"] \in Clients => store'["B"] = store["B"]
    PROVE  ClientsInStep'
<1>1. Orphan' => Orphan
    BY OnlyWritesWrite DEF Orphan, TypeOK
<1>2. QED
    BY <1>1 DEF ClientsInStep

LEMMA ClientsDies ==
    ASSUME RInv, PInv', NEW s \in Servers, Dies(s), Alive(s)
    PROVE  ClientsInStep'
<1>1. CASE s = "A"
    <2>1. pc'["A"] = "dead" /\ pc'["B"] = pc["B"]
        BY <1>1 DEF Dies, TypeOK
    <2>2. Orphan' => wireReq \in WriteRequests /\ wireReq' = wireReq
        BY <1>1, OnlyWritesWrite DEF Dies, Orphan, TypeOK
    <2>3. Orphan' => pc["A"] = "replicate"
        BY <1>1, <2>2, RequestTypes
           DEF PairInStep, LifeInStep, HandshakeInStep, TypeOK, Pcs
    <2>4. Orphan' => pc["B"] = "loop"
        BY <2>2, <2>3, RequestTypes DEF PairInStep, LifeInStep
    <2>5. Orphan' => cur' \in Clients /\ at'[cur'] = "A" /\ req'[cur'] = None
        BY <1>1, <2>3 DEF Dies, ClientsInStep
    <2>6. \A t \in Servers :
            /\ \A c \in served'[t] : at'[c] = t
            /\ pend'[t] \in Clients => at'[pend'[t]] = t
        BY <1>1, RequestTypes DEF Dies, ClientsInStep, TypeOK
    <2>7. peer'["B"] = peer["B"] /\ store'["B"] = store["B"] /\ at' = at
        BY <1>1 DEF Dies, TypeOK
    <2>8. QED
        BY <2>1, <2>4, <2>5, <2>6, <2>7 DEF ClientsInStep
<1>2. CASE s = "B"
    BY <1>2, RequestTypes DEF Dies, ClientsInStep, TypeOK, Orphan
<1>3. QED
    BY <1>1, <1>2

LEMMA ClientsServe ==
    ASSUME RInv, PInv', NEW s \in Servers, NEW c \in Clients, Serve(s, c)
    PROVE  ClientsInStep'
<1>1. pc[s] = "loop" /\ c \in served[s] /\ at[c] = s
    BY DEF Serve, Invoking, SnapshotInStep, ClientsInStep
<1>2. Orphan' <=> Orphan
    BY DEF Serve, Orphan, wireVars
<1>3. Orphan => c # cur
    BY <1>1 DEF ClientsInStep, Orphan
<1>4. peer["B"] \in Clients => s = "A"
    BY <1>1 DEF ClientsInStep, LifeInStep
<1>5. pc["A"] \in {"replicate", "stuck"} => c # cur
    BY <1>1 DEF ClientsInStep
<1>6. QED
    BY <1>1, <1>2, <1>3, <1>4, <1>5
       DEF Serve, Respond, ClientsInStep, TypeOK, wireVars

LEMMA ClientsReplicate ==
    ASSUME RInv, PInv', NEW c \in Clients, Replicate(c)
    PROVE  ClientsInStep'
<1>1. pc["A"] = "loop" /\ c \in served["A"] /\ at[c] = "A"
    BY DEF Replicate, Invoking, SnapshotInStep, ClientsInStep
<1>2. pc'["A"] \in {"replicate", "stuck"} /\ pc'["B"] = pc["B"]
    BY DEF Replicate, TypeOK
<1>3. req[c] \in WriteRequests
    BY RequestTypes DEF Replicate, Replicates, Invoking, TypeOK
<1>4. QED
    BY <1>1, <1>2, <1>3
       DEF Replicate, Sent, ClientsInStep, Orphan, TypeOK, clientVars

LEMMA ClientsEndReplicate ==
    ASSUME RInv, PInv', pc["A"] = "replicate", EndReplicate,
           UNCHANGED <<primario, store, peer, pend, served, wireReq, at>>
    PROVE  ClientsInStep'
BY DEF EndReplicate, Respond, ClientsInStep, Orphan, TypeOK

LEMMA ClientsStep ==
    ASSUME ~SplitBrain, RInv, PInv', [Next]_vars
    PROVE  ClientsInStep'
<1> USE DEF wireVars, clientVars, serverVars
<1>1. ASSUME NEW s \in Servers, Alive(s), Dies(s) PROVE ClientsInStep'
    BY <1>1, ClientsDies
<1>2. CASE HandshakeFails
    <2>1. CASE Dies("A")
        BY <1>1, <1>2, <2>1 DEF HandshakeFails
    <2>2. CASE /\ NextHandshakeMessage
               /\ UNCHANGED <<primario, state, store, peer, pend, served, ready,
                              cur, wireRep, clientVars>>
        BY <1>2, <2>2, RequestTypes, ClientsFrame
           DEF HandshakeFails, NextHandshakeMessage, Successor, Sent, TypeOK
    <2>3. QED
        BY <1>2, <2>1, <2>2 DEF HandshakeFails
<1>3. CASE SyncFails
    BY <1>1, <1>3 DEF SyncFails
<1>4. CASE ReplicateFails
    BY <1>1, <1>4, ClientsEndReplicate DEF ReplicateFails
<1>5. ASSUME NEW s \in Servers, NEW c \in Clients, ServeMiss(s, c)
      PROVE  ClientsInStep'
    BY <1>1, <1>5 DEF ServeMiss, Invoking
<1>6. CASE HandshakeReply
    BY <1>6, RequestTypes, ClientsFrame
       DEF HandshakeReply, NextHandshakeMessage, Successor, Sent, TypeOK
<1>7. CASE StartA
    BY <1>7, ClientsFrame DEF StartA, TypeOK
<1>8. CASE Connect
    BY <1>8, RequestTypes DEF Connect, TypeOK, ClientsInStep, Orphan
<1>9. CASE ConnectFails \/ StartB
    BY <1>9, ClientsFrame DEF ConnectFails, StartB, TypeOK
<1>10. CASE AcceptPeer
    BY <1>10, RequestTypes
       DEF AcceptPeer, TypeOK, ClientsInStep, LifeInStep, Orphan
<1>11. CASE SyncStep
    BY <1>11, RequestTypes, ClientsFrame DEF SyncStep, TypeOK
<1>12. CASE SyncClient
    BY <1>12, RequestTypes DEF SyncClient, TypeOK, ClientsInStep, Orphan
<1>13. ASSUME NEW s \in Servers, Poll(s) \/ AcceptWhenFull(s)
       PROVE  ClientsInStep'
    BY <1>13, ClientsFrame DEF Poll, AcceptWhenFull
<1>14. ASSUME NEW s \in Servers, Accept(s)
       PROVE  ClientsInStep'
    BY <1>14, RequestTypes DEF Accept, TypeOK, ClientsInStep, Orphan
<1>15. CASE ServeServer
    BY <1>15, RequestTypes DEF ServeServer, TypeOK, ClientsInStep, LifeInStep, Orphan
<1>16. ASSUME NEW s \in Servers, ServerGone(s)
       PROVE  ClientsInStep'
    BY <1>16, RequestTypes DEF ServerGone, TypeOK, ClientsInStep, Orphan
<1>17. ASSUME NEW s \in Servers, NEW c \in Clients, ClientGone(s, c)
       PROVE  ClientsInStep'
    BY <1>17 DEF ClientGone, TypeOK, ClientsInStep, Orphan
<1>18. CASE Replicated
    BY <1>18, ClientsEndReplicate DEF Replicated
<1>19. ASSUME NEW c \in Clients, NEW s \in Servers, ClientConnect(c, s)
       PROVE  ClientsInStep'
    BY <1>19, RequestTypes DEF ClientConnect, TypeOK, ClientsInStep, Orphan
<1>20. ASSUME NEW c \in Clients, NEW r \in ClientRequests, ClientSend(c, r)
       PROVE  ClientsInStep'
    BY <1>20, RequestTypes DEF ClientSend, TypeOK, ClientsInStep, Orphan
<1>21. ASSUME NEW c \in Clients, ClientClose(c)
       PROVE  ClientsInStep'
    BY <1>21, ClientsFrame DEF ClientClose
<1>22. ASSUME NEW s \in Servers, Crash(s)
       PROVE  ClientsInStep'
    BY <1>1, <1>22 DEF Crash
<1>23. CASE UNCHANGED vars
    BY <1>23, ClientsFrame DEF vars
<1>24. CASE AStep
    BY <1>2, <1>4, <1>5, <1>6, <1>8, <1>9, <1>13, <1>14, <1>16, <1>17, <1>18,
       <1>24, ClientsServe, ClientsReplicate
       DEF AStep
<1>25. CASE BStep
    BY <1>3, <1>5, <1>10, <1>11, <1>12, <1>13, <1>14, <1>15, <1>16, <1>17, <1>25,
       ClientsServe
       DEF BStep
<1>26. CASE Environment
    BY <1>7, <1>9, <1>19, <1>20, <1>21, <1>22, <1>26 DEF Environment
<1>27. QED
    BY <1>23, <1>24, <1>25, <1>26 DEF Next

LEMMA ClientsInvariance ==
    ASSUME ~SplitBrain
    PROVE  Spec => []RInv
<1>1. Init => RInv
    BY PInvInit, PrimaryBackupAssumption DEF Init, ClientsInStep, Orphan
<1>2. RInv /\ [Next]_vars => RInv'
    BY ClientsStep, PInvStep
<1>3. QED
    BY <1>1, <1>2, PTL DEF Spec
-----------------------------------------------------------------------------
(* The abstract map takes requests as the servers do.                      *)
LEMMA SameOperations ==
    /\ Service!EmptyTables = EmptyTables
    /\ Service!ClientRequests = ClientRequests
    /\ \A ok, v, n : Service!Reply(ok, v, n) = Reply(ok, v, n)
    /\ \A m, r :
          /\ Service!Accepted(m, r) <=> Accepted(m, r)
          /\ Service!After(m, r) = After(m, r)
          /\ Service!Answer(m, r) = Answer(m, r)
<1>0. \A S : Service!Cardinality(S) = Cardinality(S)
    BY DEF Service!Cardinality, Cardinality
<1>1. /\ Service!EmptyTables = EmptyTables
      /\ \A ok, v, n : Service!Reply(ok, v, n) = Reply(ok, v, n)
    BY DEF Service!EmptyTables, EmptyTables, Service!Reply, Reply
<1>2. Service!ClientRequests = ClientRequests
    BY DEF Service!ClientRequests, ClientRequests, Service!WriteRequests,
           WriteRequests, Service!ReadRequests, ReadRequests, Service!Request, Request
<1>3. \A m, r : Service!Accepted(m, r) <=> Accepted(m, r)
    BY <1>0 DEF Service!Accepted, Accepted
<1>4. \A m, r : Service!After(m, r) = After(m, r)
    BY DEF Service!After, After
<1>5. \A m, r : Service!Answer(m, r) = Answer(m, r)
    BY <1>0, <1>1, <1>3 DEF Service!Answer, Answer
<1>6. QED
    BY <1>1, <1>2, <1>3, <1>4, <1>5

Copies == Cardinality({s \in Servers : HasTables(s)})

LEMMA CopiesCounted ==
    /\ Copies = (IF HasTables("A") THEN 1 ELSE 0) + (IF HasTables("B") THEN 1 ELSE 0)
    /\ Copies' = (IF HasTables("A")' THEN 1 ELSE 0) + (IF HasTables("B")' THEN 1 ELSE 0)
<1>1. ASSUME NEW held
      PROVE  Cardinality({s \in Servers : held[s] # NoTables}) =
                (IF held["A"] # NoTables THEN 1 ELSE 0)
                    + (IF held["B"] # NoTables THEN 1 ELSE 0)
    <2> DEFINE H == {s \in Servers : held[s] # NoTables}
    <2>1. Cardinality({}) = 0 /\ IsFiniteSet({})
        BY FS_EmptySet
    <2>2. \A s : Cardinality({s}) = 1 /\ IsFiniteSet({s})
        BY FS_Singleton
    <2>3. Cardinality({"A", "B"}) = 2
        <3>1. {"A", "B"} = {"A"} \cup {"B"} /\ "B" \notin {"A"}
            OBVIOUS
        <3>2. Cardinality({"A"} \cup {"B"}) = Cardinality({"A"}) + 1
            BY <3>1, <2>2, FS_AddElement
        <3>3. QED
            BY <3>1, <3>2, <2>2
    <2>4. \/ H = {} /\ held["A"] = NoTables /\ held["B"] = NoTables
          \/ H = {"A"} /\ held["A"] # NoTables /\ held["B"] = NoTables
          \/ H = {"B"} /\ held["A"] = NoTables /\ held["B"] # NoTables
          \/ H = {"A", "B"} /\ held["A"] # NoTables /\ held["B"] # NoTables
        OBVIOUS
    <2>5. QED
        BY <2>1, <2>2, <2>3, <2>4
<1>2. QED
    BY <1>1 DEF Copies

(* An answer to a write that is accepted says no more than that.           *)
LEMMA WriteAnswer ==
    ASSUME NEW m, NEW r \in WriteRequests, Accepted(m, r)
    PROVE  Answer(m, r) = Reply(TRUE, NoValue, 0)
BY RequestTypes DEF Answer

-----------------------------------------------------------------------------
(* What each step is to the one map.                                       *)
MapStep == Service!Next \/ UNCHANGED <<LogicalMap, Copies, PendingRequests, Executed, rep>>

Waiting == pc["A"] \in {"replicate", "stuck"}

(* Steps between which and its clients there is nothing to be seen.        *)
LEMMA Unseen ==
    ASSUME UNCHANGED <<store, cur, req, rep>>,
           InFlight' <=> InFlight, Orphan' <=> Orphan, Waiting' <=> Waiting,
           Orphan => wireReq' = wireReq
    PROVE  MapStep
<1>1. UNCHANGED <<LogicalMap, PendingRequests>>
    BY DEF LogicalMap, PendingRequests
<1>2. UNCHANGED Copies
    BY DEF Copies
<1>3. UNCHANGED Executed
    BY DEF Executed, Waiting
<1>4. QED
    BY <1>1, <1>2, <1>3 DEF MapStep

LEMMA LocalUnseen ==
    ASSUME RInv,
           \/ StartB \/ AcceptPeer \/ UNCHANGED vars
           \/ \E s \in Servers :
                 \/ Poll(s) \/ Accept(s) \/ AcceptWhenFull(s) \/ ServerGone(s)
                 \/ \E c \in Clients : ClientGone(s, c) \/ ClientConnect(c, s)
           \/ \E c \in Clients : ClientClose(c)
    PROVE  MapStep
<1>1. UNCHANGED <<store, cur, req, rep, wireReq>> /\ pc'["A"] = pc["A"]
    BY DEF StartB, AcceptPeer, Poll, Accept, AcceptWhenFull, ServerGone, ClientGone,
           ClientConnect, ClientClose, TypeOK, vars, serverVars, wireVars, clientVars
<1>2. QED
    BY <1>1, Unseen DEF InFlight, Orphan, Waiting

LEMMA StartUpUnseen ==
    ASSUME RInv,
           \/ Connect \/ ConnectFails \/ HandshakeReply
           \/ /\ pc["A"] \in HandshakePcs /\ NextHandshakeMessage
              /\ UNCHANGED <<store, cur, clientVars>>
    PROVE  MapStep
<1>1. UNCHANGED <<store, cur, req, rep>>
    BY DEF Connect, ConnectFails, HandshakeReply, clientVars
<1>2. pc["A"] \notin {"replicate", "stuck", "dead"}
    BY DEF Connect, ConnectFails, HandshakeReply
<1>3. pc'["A"] \notin {"replicate", "stuck", "dead"}
    BY DEF Connect, ConnectFails, HandshakeReply, NextHandshakeMessage, Successor, TypeOK
<1>4. QED
    BY <1>1, <1>2, <1>3, Unseen DEF InFlight, Orphan, Waiting

(* A server with fresh tables is one more copy of the empty map.           *)
LEMMA SetUpRefines ==
    ASSUME RInv, StartA \/ SyncStep
    PROVE  MapStep
<1>1. UNCHANGED <<cur, req, rep>>
    BY DEF StartA, SyncStep, clientVars
<1>2. ~Orphan /\ ~Orphan' /\ ~Waiting /\ ~Waiting' /\ ~InFlight /\ ~InFlight'
    BY DEF StartA, SyncStep, wireVars, Orphan, Waiting, InFlight, TypeOK, LifeInStep,
           PairInStep, ClientsInStep
<1>3. UNCHANGED <<PendingRequests, Executed, rep>>
    BY <1>1, <1>2 DEF PendingRequests, Executed, Waiting
<1>4. CASE store' = store
    BY <1>1, <1>2, <1>4, Unseen
<1>5. CASE store' # store
    <2>1. LogicalMap = EmptyTables /\ LogicalMap' = EmptyTables
        BY <1>2, <1>5 DEF StartA, SyncStep, LogicalMap, TypeOK, LifeInStep, PairInStep, Pcs
    <2>2. Copies' = Copies + 1
        <3>1. CASE StartA
            BY <3>1, <1>5, CopiesCounted, TableTypes DEF StartA, TypeOK, LifeInStep
        <3>2. CASE SyncStep
            <4>1. ~HasTables("B") /\ HasTables("B")' /\ HasTables("A")' = HasTables("A")
                BY <3>2, <1>5, TableTypes DEF SyncStep, TypeOK, LifeInStep
            <4>2. QED
                BY <4>1, CopiesCounted
        <3>3. QED
            BY <3>1, <3>2
    <2>3. Service!AddCopy
        BY <1>3, <2>1, <2>2, SameOperations DEF Service!AddCopy, Copies
    <2>4. QED
        BY <2>3 DEF MapStep, Service!Next
<1>6. QED
    BY <1>4, <1>5

LEMMA SendRefines ==
    ASSUME RInv, NEW c \in Clients, NEW r \in ClientRequests, ClientSend(c, r)
    PROVE  MapStep
<1> USE DEF ClientSend, serverVars, wireVars
<1>1. Orphan => c # cur
    BY DEF ClientsInStep, Orphan
<1>2. UNCHANGED <<LogicalMap, Copies, Executed>>
    BY DEF LogicalMap, Copies, Executed, InFlight
<1>3. PendingRequests[c] = None
    BY <1>1 DEF PendingRequests
<1>4. PendingRequests' = [PendingRequests EXCEPT ![c] = r]
    BY <1>1 DEF PendingRequests, Orphan, TypeOK
<1>5. Service!Send(c, r)
    BY <1>2, <1>3, <1>4 DEF Service!Send, Copies
<1>6. QED
    BY <1>5, SameOperations DEF MapStep, Service!Next

(* A server answers a client by itself: A when it has no backup, or the    *)
(* request changes nothing; B when A is dead.                              *)
LEMMA ServeRefines ==
    ASSUME RInv, RInv', NEW s \in Servers, NEW c \in Clients, Serve(s, c)
    PROVE  MapStep
<1>1. pc[s] = "loop" /\ c \in served[s] /\ at[c] = s /\ req[c] # None
    BY DEF Serve, Invoking, SnapshotInStep, ClientsInStep
<1>2. ~Waiting /\ ~Waiting' /\ ~InFlight /\ ~InFlight'
    BY <1>1 DEF Serve, Waiting, InFlight, ClientsInStep
<1>3. (Orphan' <=> Orphan) /\ (Orphan => c # cur)
    BY <1>1 DEF Serve, Orphan, wireVars, ClientsInStep
<1>4. PendingRequests[c] = req[c]
    BY <1>3 DEF PendingRequests
<1>5. PendingRequests' = [PendingRequests EXCEPT ![c] = None]
    BY <1>3 DEF Serve, Respond, PendingRequests, TypeOK, wireVars
<1>6. Executed = [d \in Clients |-> None] /\ Executed' = Executed
    BY <1>2 DEF Executed, Waiting
<1>7. HasTables("A")' = HasTables("A") /\ HasTables("B")' = HasTables("B")
    <2>1. pc' = pc /\ store'[Other(s)] = store[Other(s)] /\ HasTables(s)
        BY <1>1 DEF Serve, TypeOK, LifeInStep, Other
    <2>2. HasTables(s)'
        BY <1>1, <2>1 DEF LifeInStep
    <2>3. QED
        BY <2>1, <2>2 DEF Other
<1>8. LogicalMap = store[s] /\ LogicalMap' = store'[s] /\ HasTables(s)
    BY <1>1, <1>2, <1>7 DEF LogicalMap, LifeInStep, ClientsInStep
<1>9. Copies' = Copies /\ Copies > 0
    BY <1>7, <1>8, CopiesCounted
<1>10. store'[s] = IF Accepted(store[s], req[c]) THEN After(store[s], req[c]) ELSE store[s]
    BY DEF Serve, TypeOK
<1>11. rep' = [rep EXCEPT ![c] = Answer(store[s], req[c])]
    BY DEF Serve, Respond
<1>12. Service!ExecuteAndRespond(c)
    BY <1>1, <1>4, <1>5, <1>6, <1>8, <1>9, <1>10, <1>11, SameOperations
       DEF Service!ExecuteAndRespond, Service!Takes, Copies
<1>13. QED
    BY <1>12 DEF MapStep, Service!Next

(* A client that took B for the server before B had tables.                *)
LEMMA SyncClientRefines ==
    ASSUME RInv, SyncClient
    PROVE  MapStep
<1>1. PICK c \in Clients :
        /\ c = peer["B"] /\ req[c] # None
        /\ req' = [req EXCEPT ![c] = None]
        /\ rep' = [rep EXCEPT ![c] = Answer(store["B"], req[c])]
    BY DEF SyncClient
<1>2. at[c] = "B" /\ ~HasTables("B") /\ ~HasTables("A")
    BY <1>1 DEF SyncClient, ClientsInStep, LifeInStep
<1>3. UNCHANGED <<pc, store, wireReq, cur>>
    BY DEF SyncClient, serverVars, wireVars
<1>4. Orphan => c # cur
    BY <1>2 DEF ClientsInStep
<1>5. UNCHANGED <<LogicalMap, Copies, Executed>> /\ Copies = 0
    BY <1>2, <1>3, CopiesCounted DEF LogicalMap, Copies, Executed, InFlight
<1>6. PendingRequests[c] # None /\ PendingRequests' = [PendingRequests EXCEPT ![c] = None]
    BY <1>1, <1>3, <1>4 DEF PendingRequests, Orphan, TypeOK
<1>7. Answer(store["B"], req[c]) = Reply(FALSE, NoValue, 0)
    BY <1>2 DEF Answer, Accepted
<1>8. Service!Refuse(c)
    BY <1>1, <1>5, <1>6, <1>7, SameOperations DEF Service!Refuse, Copies
<1>9. QED
    BY <1>8 DEF MapStep, Service!Next

(* What is known while a write of A's is on its way to B ...               *)
LEMMA InFlightFacts ==
    ASSUME RInv, InFlight
    PROVE  /\ HasTables("A") /\ HasTables("B") /\ pc["A"] = "replicate"
           /\ cur \in Clients /\ at[cur] = "A"
           /\ wireReq = req[cur] /\ wireReq \in WriteRequests /\ wireReq # None
           /\ Accepted(store["B"], wireReq)
           /\ store["A"] = After(store["B"], wireReq)
           /\ LogicalMap = store["B"] /\ Copies = 2
           /\ PendingRequests = req /\ Executed = [c \in Clients |-> None]
<1>1. pc["A"] = "replicate" /\ wireReq # None /\ HasTables("A")
    BY DEF InFlight, LifeInStep
<1>2. HasTables("B")
    BY <1>1 DEF LifeInStep, PairInStep
<1>3. /\ cur \in Clients /\ at[cur] = "A" /\ wireReq = req[cur]
      /\ wireReq \in WriteRequests
    BY <1>1 DEF ClientsInStep
<1>4. Accepted(store["B"], wireReq) /\ store["A"] = After(store["B"], wireReq)
    BY <1>1, <1>2 DEF BackupInStep, ClientsInStep
<1>5. LogicalMap = store["B"] /\ Copies = 2
    BY <1>1, <1>2, CopiesCounted DEF LogicalMap
<1>6. PendingRequests = req
    BY <1>1 DEF PendingRequests, Orphan, TypeOK
<1>7. Executed = [c \in Clients |-> None]
    BY DEF Executed
<1>8. QED
    BY <1>1, <1>2, <1>3, <1>4, <1>5, <1>6, <1>7

(* ... and when A waits with none: the client's write has taken effect.    *)
LEMMA AppliedFacts ==
    ASSUME RInv, Waiting, ~InFlight
    PROVE  /\ HasTables("A") /\ cur \in Clients /\ at[cur] = "A" /\ req[cur] # None
           /\ wireReq = None /\ LogicalMap = store["A"]
           /\ PendingRequests = req
           /\ Executed[cur] = Reply(TRUE, NoValue, 0) /\ Executed[cur] # None
           /\ Executed = [c \in Clients |->
                            IF c = cur THEN Reply(TRUE, NoValue, 0) ELSE None]
<1>1. pc["A"] \in {"replicate", "stuck"} /\ HasTables("A")
    BY DEF Waiting, LifeInStep
<1>2. cur \in Clients /\ at[cur] = "A" /\ req[cur] \in WriteRequests
    BY <1>1 DEF ClientsInStep
<1>3. wireReq = None
    BY <1>1 DEF InFlight, PairInStep
<1>4. PendingRequests = req
    BY <1>1 DEF PendingRequests, Orphan, TypeOK
<1>5. Executed = [c \in Clients |->
                    IF c = cur THEN Reply(TRUE, NoValue, 0) ELSE None]
    BY <1>1 DEF Executed
<1>6. Reply(TRUE, NoValue, 0) # None
    <2>1. Reply(TRUE, NoValue, 0) \in Replies
        BY ReplyType
    <2>2. QED
        BY <2>1, RequestTypes
<1>7. QED
    BY <1>1, <1>2, <1>3, <1>4, <1>5, <1>6, RequestTypes DEF LogicalMap

(* A passes a write on.  It has not taken effect yet: should A die, B has  *)
(* it to execute.  When B is dead, nobody has.                             *)
LEMMA ReplicateRefines ==
    ASSUME RInv, RInv', NEW c \in Clients, Replicate(c)
    PROVE  MapStep
<1>1. /\ pc["A"] = "loop" /\ c \in served["A"] /\ at[c] = "A"
      /\ state["A"] = 1 /\ HasTables("A") /\ Accepted(store["A"], req[c])
      /\ req[c] # None /\ req[c] \in ClientRequests
    BY DEF Replicate, Replicates, Invoking, SnapshotInStep, ClientsInStep, LifeInStep,
           TypeOK
<1>2. req[c] \in WriteRequests
    BY <1>1, RequestTypes DEF Replicate, Replicates
<1>3. ~Waiting /\ ~InFlight /\ ~Orphan /\ Waiting' /\ cur' = c /\ rep' = rep /\ req' = req
    BY <1>1 DEF Replicate, Waiting, InFlight, Orphan, TypeOK, clientVars
<1>4. LogicalMap = store["A"] /\ PendingRequests = req
    BY <1>1, <1>3, RequestTypes DEF LogicalMap, PendingRequests, TypeOK
<1>5. Executed = [d \in Clients |-> None]
    BY <1>3 DEF Executed, Waiting
<1>6. store'["A"] = After(store["A"], req[c]) /\ store'["B"] = store["B"]
    BY DEF Replicate, TypeOK
<1>7. HasTables("A")'
    BY <1>1, <1>6, AfterType, TableTypes DEF TypeOK
<1>8. PendingRequests' = req'
    BY <1>3 DEF PendingRequests, Orphan, Waiting, TypeOK
<1>9. Copies' = Copies /\ Copies > 0
    BY <1>1, <1>6, <1>7, CopiesCounted
<1>10. CASE Alive("B")
    <2>1. HasTables("B") /\ store["A"] = store["B"]
        BY <1>1, <1>3, <1>10 DEF PairInStep, BackupInStep, ClientsInStep
    <2>2. InFlight'
        BY <1>1, <1>10 DEF Replicate, Sent, InFlight, TypeOK
    <2>3. LogicalMap' = store'["B"] /\ Executed' = [d \in Clients |-> None]
        BY <1>6, <2>1, <2>2 DEF LogicalMap, Executed
    <2>4. UNCHANGED <<LogicalMap, Copies, PendingRequests, Executed, rep>>
        BY <1>3, <1>4, <1>5, <1>6, <1>8, <1>9, <2>1, <2>3
    <2>5. QED
        BY <2>4 DEF MapStep
<1>11. CASE ~Alive("B")
    <2>1. ~InFlight'
        BY <1>11 DEF Replicate, Sent, InFlight
    <2>2. LogicalMap' = store'["A"]
        BY <1>7, <2>1 DEF LogicalMap
    <2>3. Executed' = [Executed EXCEPT ![c] = Reply(TRUE, NoValue, 0)]
        BY <1>3, <1>5, <2>1 DEF Executed, Waiting
    <2>4. Answer(store["A"], req[c]) = Reply(TRUE, NoValue, 0)
        BY <1>1, <1>2, WriteAnswer
    <2>5. Service!Execute(c)
        BY <1>1, <1>3, <1>4, <1>5, <1>6, <1>8, <1>9, <2>2, <2>3, <2>4, SameOperations
           DEF Service!Execute, Service!Takes, Copies
    <2>6. QED
        BY <2>5 DEF MapStep, Service!Next
<1>12. QED
    BY <1>10, <1>11

(* B reads a write of A's: now it has taken effect, whether A lives to     *)
(* tell its client or not.                                                 *)
LEMMA ServeServerRefines ==
    ASSUME RInv, RInv', ServeServer
    PROVE  MapStep
<1>1. HasTables("B") /\ wireReq # None /\ wireReq' = None
    BY DEF ServeServer, LifeInStep
<1>2. UNCHANGED <<pc, cur, req, rep, at>> /\ store'["A"] = store["A"]
    BY DEF ServeServer, clientVars, TypeOK
<1>3. HasTables("B")'
    BY <1>2 DEF ServeServer, LifeInStep
<1>4. Copies' = Copies /\ Copies > 0
    BY <1>1, <1>2, <1>3, CopiesCounted
<1>5. ~InFlight' /\ ~Orphan'
    BY <1>1 DEF InFlight, Orphan
<1>6. PendingRequests' = req
    BY <1>2, <1>5 DEF PendingRequests, TypeOK
<1>7. store'["B"] = IF Accepted(store["B"], wireReq) THEN After(store["B"], wireReq)
                                                     ELSE store["B"]
    BY DEF ServeServer, TypeOK
<1>8. CASE InFlight
    <2>1. store'["B"] = After(store["B"], wireReq) /\ LogicalMap' = store["A"]
        BY <1>2, <1>5, <1>7, <1>8, InFlightFacts DEF LogicalMap
    <2>2. Executed' = [Executed EXCEPT ![cur] = Reply(TRUE, NoValue, 0)]
        BY <1>2, <1>5, <1>8, InFlightFacts DEF Executed
    <2>3. Answer(store["B"], wireReq) = Reply(TRUE, NoValue, 0)
        BY <1>8, InFlightFacts, WriteAnswer
    <2>4. Service!Execute(cur)
        BY <1>2, <1>4, <1>6, <1>8, <2>1, <2>2, <2>3, InFlightFacts, SameOperations
           DEF Service!Execute, Service!Takes, Copies
    <2>5. QED
        BY <1>8, <2>4, InFlightFacts DEF MapStep, Service!Next
<1>9. CASE Orphan
    <2>1. pc["A"] = "dead" /\ ~HasTables("A") /\ cur \in Clients /\ req[cur] = None
        BY <1>9 DEF Orphan, LifeInStep, ClientsInStep
    <2>2. LogicalMap = store["B"] /\ LogicalMap' = store'["B"]
        BY <1>1, <1>2, <1>3, <2>1 DEF LogicalMap
    <2>3. Executed = [c \in Clients |-> None] /\ Executed' = Executed
        BY <1>2, <2>1 DEF Executed
    <2>4. PendingRequests[cur] = wireReq
        BY <1>9, <2>1 DEF PendingRequests
    <2>5. PendingRequests' = [PendingRequests EXCEPT ![cur] = None]
        BY <1>6, <1>9, <2>1 DEF PendingRequests, TypeOK
    <2>6. Service!ExecuteForgotten(cur)
        BY <1>1, <1>2, <1>4, <1>7, <2>1, <2>2, <2>3, <2>4, <2>5, SameOperations
           DEF Service!ExecuteForgotten, Service!Takes, Copies
    <2>7. QED
        BY <2>1, <2>6 DEF MapStep, Service!Next
<1>10. CASE ~InFlight /\ ~Orphan
    <2>1. pc["A"] = "dead"
        BY <1>1, <1>10
           DEF InFlight, ServeServer, LifeInStep, HandshakeInStep, PairInStep, TypeOK, Pcs
    <2>2. store' = store
        BY <1>1, <1>10, <2>1, RequestTypes
           DEF ServeServer, Orphan, Accepted, After, TypeOK, Controls
    <2>3. QED
        BY <1>2, <1>5, <1>10, <2>2, Unseen DEF Waiting
<1>11. QED
    BY <1>8, <1>9, <1>10

(* A answers the client whose write has taken effect.                      *)
LEMMA EndReplicateRefines ==
    ASSUME RInv, pc["A"] = "replicate", wireReq = None, EndReplicate,
           UNCHANGED <<store, wireReq>>
    PROVE  MapStep
<1>1. Waiting /\ ~InFlight /\ ~InFlight' /\ ~Waiting' /\ ~Orphan'
    BY DEF Waiting, InFlight, EndReplicate, Orphan, TypeOK
<1>2. rep' = [rep EXCEPT ![cur] = Reply(TRUE, NoValue, 0)] /\ req' = [req EXCEPT ![cur] = None]
    BY DEF EndReplicate, Respond
<1>3. LogicalMap' = LogicalMap /\ Copies' = Copies
    BY <1>1 DEF LogicalMap, Copies
<1>4. PendingRequests' = [PendingRequests EXCEPT ![cur] = None]
    BY <1>1, <1>2, AppliedFacts DEF PendingRequests, TypeOK
<1>5. Executed' = [Executed EXCEPT ![cur] = None]
    BY <1>1, AppliedFacts DEF Executed, Waiting
<1>6. Service!Respond(cur)
    BY <1>1, <1>2, <1>3, <1>4, <1>5, AppliedFacts DEF Service!Respond, Copies
<1>7. QED
    BY <1>1, <1>6, AppliedFacts DEF MapStep, Service!Next

(* A dies.  B, when it has tables, goes on with all that has taken effect, *)
(* and with the write that is on its way to it.                            *)
LEMMA ADiesRefines ==
    ASSUME RInv, RInv', Alive("A"), Dies("A")
    PROVE  MapStep
<1> DEFINE Left == {c \in Clients : at[c] = "A" /\ ~(InFlight /\ c = cur)}
<1>1. /\ HasTables("A") /\ ~HasTables("A")' /\ store'["B"] = store["B"]
      /\ pc'["A"] = "dead" /\ UNCHANGED <<cur, rep, at, wireReq>>
      /\ req' = [c \in Clients |-> IF at[c] = "A" THEN None ELSE req[c]]
    BY DEF Dies, LifeInStep, TypeOK
<1>2. ~InFlight' /\ ~Waiting' /\ ~Orphan
    BY <1>1 DEF InFlight, Waiting, Orphan
<1>3. Orphan' <=> InFlight
    <2>1. InFlight => Orphan'
        BY <1>1, OnlyWritesWrite, InFlightFacts DEF Orphan
    <2>2. Orphan' => wireReq \in WriteRequests
        BY <1>1, OnlyWritesWrite DEF Orphan, TypeOK
    <2>3. wireReq \in WriteRequests => pc["A"] = "replicate"
        BY RequestTypes
           DEF PairInStep, LifeInStep, HandshakeInStep, TypeOK, Pcs
    <2>4. QED
        BY <2>1, <2>2, <2>3, RequestTypes DEF InFlight
<1>4. Copies > 0 /\ Copies' = Copies - 1
    BY <1>1, CopiesCounted
<1>5. LogicalMap' = IF HasTables("B") THEN store["B"] ELSE EmptyTables
    BY <1>1 DEF LogicalMap
<1>6. LogicalMap' = IF Copies = 1 THEN EmptyTables ELSE LogicalMap
    <2>1. CASE InFlight
        BY <1>5, <2>1, InFlightFacts
    <2>2. CASE ~InFlight /\ HasTables("B")
        <3>1. store["A"] = store["B"]
            BY <1>1, <2>2 DEF BackupInStep, ClientsInStep
        <3>2. QED
            BY <1>1, <1>5, <2>2, <3>1, CopiesCounted DEF LogicalMap
    <2>3. CASE ~HasTables("B")
        BY <1>1, <1>5, <2>3, CopiesCounted
    <2>4. QED
        BY <2>1, <2>2, <2>3
<1>7. PendingRequests = req
    BY <1>2 DEF PendingRequests, TypeOK
<1>8. PendingRequests' = [c \in Clients |-> IF c \in Left THEN None ELSE PendingRequests[c]]
    BY <1>1, <1>3, <1>7, InFlightFacts DEF PendingRequests
<1>9. Executed' = [c \in Clients |-> IF c \in Left THEN None ELSE Executed[c]]
    <2>1. Executed' = [c \in Clients |-> None]
        BY <1>2 DEF Executed, Waiting
    <2>2. \A c \in Clients : c \notin Left => Executed[c] = None
        BY AppliedFacts DEF Executed, Waiting
    <2>3. QED
        BY <2>1, <2>2
<1>10. Service!LoseCopy(Left)
    BY <1>1, <1>4, <1>6, <1>8, <1>9, SameOperations
       DEF Service!LoseCopy, Service!Forget, Copies
<1>11. Left \in SUBSET Clients
    OBVIOUS
<1>12. QED
    BY <1>10, <1>11 DEF MapStep, Service!Next

(* B dies.  A write on its way to it has taken effect on A alone; one that *)
(* A has left behind is lost with its last copy.                           *)
LEMMA BDiesRefines ==
    ASSUME RInv, RInv', Alive("B"), Dies("B")
    PROVE  MapStep
<1> DEFINE Left == {c \in Clients : at[c] = "B" \/ (Orphan /\ c = cur)}
<1>1. /\ ~HasTables("B")' /\ store'["A"] = store["A"]
      /\ pc'["A"] = pc["A"] /\ UNCHANGED <<cur, rep, at>> /\ wireReq' = None
      /\ req' = [c \in Clients |-> IF at[c] = "B" THEN None ELSE req[c]]
    BY DEF Dies, LifeInStep, TypeOK
<1>2. ~InFlight' /\ ~Orphan' /\ (Waiting' <=> Waiting)
    BY <1>1 DEF InFlight, Waiting, Orphan
<1>3. Copies' = IF HasTables("B") THEN Copies - 1 ELSE Copies
    BY <1>1, CopiesCounted
<1>4. LogicalMap' = IF HasTables("A") THEN store["A"] ELSE EmptyTables
    BY <1>1, <1>2 DEF LogicalMap
<1>5. PendingRequests' = [c \in Clients |-> IF c \in Left THEN None ELSE PendingRequests[c]]
    <2>1. PendingRequests' = [c \in Clients |-> req'[c]]
        BY <1>2 DEF PendingRequests
    <2>2. \A c \in Clients : c \in Left => req'[c] = None
        BY <1>1 DEF ClientsInStep
    <2>3. \A c \in Clients : c \notin Left => req'[c] = PendingRequests[c]
        BY <1>1 DEF PendingRequests
    <2>4. QED
        BY <2>1, <2>2, <2>3
<1>6. CASE InFlight
    <2>1. PendingRequests' = PendingRequests
        BY <1>1, <1>2, <1>6, InFlightFacts
           DEF PendingRequests, ClientsInStep, TypeOK
    <2>2. Executed' = [Executed EXCEPT ![cur] = Reply(TRUE, NoValue, 0)]
        BY <1>1, <1>2, <1>6, InFlightFacts DEF Executed
    <2>3. Answer(store["B"], wireReq) = Reply(TRUE, NoValue, 0)
        BY <1>6, InFlightFacts, WriteAnswer
    <2>4. Copies > 1 /\ Copies' = Copies - 1
        BY <1>3, <1>6, InFlightFacts
    <2>5. Service!LoseCopyExecuting(cur)
        <3>1. /\ PendingRequests[cur] = wireReq /\ wireReq # None
              /\ Executed[cur] = None /\ Copies > 0
            BY <1>6, InFlightFacts
        <3>2. LogicalMap' = After(LogicalMap, wireReq) /\ Accepted(LogicalMap, wireReq)
            BY <1>4, <1>6, InFlightFacts
        <3>3. Service!Takes(cur)
            BY <3>1, <3>2, SameOperations DEF Service!Takes, Copies
        <3>4. Executed' = [Executed EXCEPT ![cur] = Answer(LogicalMap, wireReq)]
            BY <1>6, <2>2, <2>3, InFlightFacts
        <3>5. QED
            BY <1>1, <2>1, <2>4, <3>1, <3>3, <3>4, SameOperations
               DEF Service!LoseCopyExecuting, Copies
    <2>6. QED
        BY <1>6, <2>5, InFlightFacts DEF MapStep, Service!Next
<1>7. CASE ~InFlight
    <2>1. Executed' = [c \in Clients |-> IF c \in Left THEN None ELSE Executed[c]]
        <3>1. Executed' = Executed
            BY <1>1, <1>2, <1>7 DEF Executed, Waiting
        <3>2. \A c \in Left : Executed[c] = None
            BY DEF Executed, Orphan, ClientsInStep
        <3>3. QED
            BY <3>1, <3>2 DEF Executed
    <2>2. Left \in SUBSET Clients
        OBVIOUS
    <2>3. CASE HasTables("B")
        <3>1. LogicalMap' = IF Copies = 1 THEN EmptyTables ELSE LogicalMap
            BY <1>4, <1>7, <2>3, CopiesCounted DEF LogicalMap
        <3>2. Copies > 0 /\ Copies' = Copies - 1
            BY <1>3, <2>3, CopiesCounted
        <3>3. Service!LoseCopy(Left)
            BY <1>1, <1>5, <2>1, <3>1, <3>2, SameOperations
               DEF Service!LoseCopy, Service!Forget, Copies
        <3>4. QED
            BY <2>2, <3>3 DEF MapStep, Service!Next
    <2>4. CASE ~HasTables("B")
        <3>1. LogicalMap' = LogicalMap
            BY <1>4, <1>7, <2>4 DEF LogicalMap
        <3>2. Service!Drop(Left)
            BY <1>1, <1>3, <1>5, <2>1, <2>4, <3>1
               DEF Service!Drop, Service!Forget, Copies
        <3>3. QED
            BY <2>2, <3>2 DEF MapStep, Service!Next
    <2>5. QED
        BY <2>3, <2>4
<1>8. QED
    BY <1>6, <1>7
-----------------------------------------------------------------------------
LEMMA PairInitRefines == Init => Service!Init
<1> SUFFICES ASSUME Init PROVE Service!Init
    OBVIOUS
<1>1. LogicalMap = EmptyTables /\ Copies = 0
    BY CopiesCounted DEF Init, LogicalMap, InFlight
<1>2. PendingRequests = [c \in Clients |-> None] /\ Executed = [c \in Clients |-> None]
    BY DEF Init, PendingRequests, Executed, Orphan
<1>3. QED
    BY <1>1, <1>2, SameOperations DEF Init, Service!Init, Copies

LEMMA PairStepRefines ==
    ASSUME RInv, RInv', [Next]_vars
    PROVE  MapStep
<1>1. ASSUME NEW s \in Servers, Alive(s), Dies(s) PROVE MapStep
    BY <1>1, ADiesRefines, BDiesRefines
<1>2. CASE HandshakeFails
    BY <1>1, <1>2, StartUpUnseen DEF HandshakeFails
<1>3. CASE SyncFails
    BY <1>1, <1>3 DEF SyncFails
<1>4. CASE Replicated \/ ReplicateFails
    <2>1. wireReq = None
        BY <1>4 DEF Replicated, ReplicateFails, LifeInStep
    <2>2. QED
        BY <1>1, <1>4, <2>1, EndReplicateRefines
           DEF Replicated, ReplicateFails, wireVars
<1>5. ASSUME NEW s \in Servers, NEW c \in Clients, ServeMiss(s, c)
      PROVE  MapStep
    BY <1>1, <1>5 DEF ServeMiss, Invoking
<1>6. CASE AStep
    BY <1>2, <1>4, <1>5, <1>6, StartUpUnseen, LocalUnseen, ServeRefines,
       ReplicateRefines
       DEF AStep
<1>7. CASE BStep
    BY <1>3, <1>5, <1>7, LocalUnseen, SetUpRefines, SyncClientRefines, ServeRefines,
       ServeServerRefines
       DEF BStep
<1>8. CASE Environment
    BY <1>1, <1>8, LocalUnseen, SetUpRefines, SendRefines DEF Environment, Crash
<1>9. QED
    BY <1>6, <1>7, <1>8, LocalUnseen DEF Next

(* To clients that turn to B only when A is dead, no write that was        *)
(* answered is lost, no request takes effect twice and no read goes back   *)
(* in time, whichever server dies and when: A changes its tables, passes   *)
(* the write on and answers after B has (network_receive_send,             *)
(* table-server.c:216-244).                                                *)
THEOREM PairIsReplicatedMap ==
    ASSUME ~SplitBrain
    PROVE  Spec => IsReplicatedMap
<1>1. Init => Service!Init
    BY PairInitRefines
<1>2. RInv /\ RInv' /\ [Next]_vars => [Service!Next]_Service!absVars
    BY PairStepRefines DEF MapStep, Service!absVars, Copies
<1>3. QED
    BY <1>1, <1>2, ClientsInvariance, PTL DEF Spec, IsReplicatedMap, Service!Spec
=============================================================================
