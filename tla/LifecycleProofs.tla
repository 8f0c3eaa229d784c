-------------------------- MODULE LifecycleProofs ---------------------------
(***************************************************************************)
(* Lifecycle, for any number of restarts: a server that serves has its     *)
(* file, and as long as nobody quits the files tell of the past: if B has  *)
(* tables, A has its file, and is not about to start afresh.               *)
(***************************************************************************)
EXTENDS Lifecycle, TLAPS

USE DEF Servers, Other, OwnFile, FILE_PATH_1, FILE_PATH_2

(* A server that is past the reading of its arguments has its file.        *)
HasFile ==
    \A s \in Servers :
        pos[s] \in {"handshake", "update", "loop", "transfer", "stuck"} =>
            OwnFile(s) \in files[s]

(* No server of a pair that has once been in step starts afresh: B has got *)
(* its tables from A.                                                      *)
NoFreshPrimary ==
    quitted = {} /\ store["B"] # "none" =>
        FILE_PATH_1 \in files["A"] /\ pos["A"] \notin {"primary", "handshake"}

IInv == TypeOK /\ HasFile /\ NoFreshPrimary

(* The end of a process, in whatever step, keeps the invariant. *)
LEMMA EndsKeeps ==
    ASSUME IInv, NEW s \in Servers, Ends(s),
           primario' \in [Servers -> BOOLEAN],
           UNCHANGED fileVars
    PROVE  IInv'
<1> USE DEF IInv, Ends, Goto, fileVars
<1>1. TypeOK'  BY LifecycleAssumption DEF TypeOK, FirstClient
<1>2. HasFile'  BY DEF TypeOK, HasFile
<1>3. NoFreshPrimary'  BY DEF TypeOK, NoFreshPrimary
<1>4. QED  BY <1>1, <1>2, <1>3

(* So does a server that enters its loop and has its file. *)
LEMMA EntersKeeps ==
    ASSUME IInv, NEW s \in Servers, Enters(s), OwnFile(s) \in files[s],
           primario' \in [Servers -> BOOLEAN],
           UNCHANGED <<store, slotVars, peer, fileVars>>
    PROVE  IInv'
<1> USE DEF IInv, Enters, Goto, slotVars, fileVars
<1>1. TypeOK'  BY DEF TypeOK
<1>2. HasFile'  BY DEF TypeOK, HasFile
<1>3. NoFreshPrimary'  BY DEF TypeOK, NoFreshPrimary
<1>4. QED  BY <1>1, <1>2, <1>3

LEMMA InitIInv == Init => IInv
BY LifecycleAssumption
   DEF FirstClient, Init, IInv, TypeOK, HasFile, NoFreshPrimary

LEMMA StartKeeps ==
    ASSUME IInv, NEW s \in Servers, Start(s)
    PROVE  IInv'
<1> USE DEF IInv, Start, fl_exist, Goto, slotVars
<1>1. TypeOK'  BY LifecycleAssumption DEF TypeOK
<1>2. HasFile'  BY DEF TypeOK, HasFile
<1>3. NoFreshPrimary'  BY DEF TypeOK, NoFreshPrimary
<1>4. QED  BY <1>1, <1>2, <1>3

LEMMA StartPrimaryKeeps ==
    ASSUME IInv, StartPrimary
    PROVE  IInv'
<1> USE DEF IInv, StartPrimary, Connects, Enters, Goto, slotVars
<1>1. TypeOK'  BY DEF TypeOK
<1>2. HasFile'  BY DEF TypeOK, HasFile
<1>3. NoFreshPrimary'  BY DEF TypeOK, NoFreshPrimary
<1>4. QED  BY <1>1, <1>2, <1>3

(* The steps of the first start of B, and of A with it. *)
LEMMA FirstStartKeeps ==
    ASSUME IInv,
           \/ \E p \in {"A", "client"} : AcceptPeer(p)
           \/ ClientLeaves \/ Handshake \/ CreateFile \/ SyncFails
    PROVE  IInv'
<1> USE DEF IInv
<1>1. ASSUME NEW p \in {"A", "client"}, AcceptPeer(p) PROVE IInv'
    BY <1>1 DEF AcceptPeer, TypeOK, HasFile, NoFreshPrimary, slotVars, fileVars
<1>2. CASE ClientLeaves
    BY <1>2 DEF ClientLeaves, TypeOK, HasFile, NoFreshPrimary, slotVars, fileVars
<1>3. CASE Handshake
    <2> USE <1>3 DEF Handshake, slotVars, fileVars
    <2>1. TypeOK'  BY DEF TypeOK
    <2>2. HasFile'  BY DEF TypeOK, HasFile
    <2>3. NoFreshPrimary'  BY DEF TypeOK, HasFile, NoFreshPrimary
    <2>4. QED  BY <2>1, <2>2, <2>3
<1>4. CASE CreateFile
    <2> USE <1>4 DEF CreateFile, Enters, Goto, slotVars
    <2>1. TypeOK'  BY DEF TypeOK
    <2>2. HasFile'  BY DEF TypeOK, HasFile
    <2>3. NoFreshPrimary'  BY DEF TypeOK, NoFreshPrimary
    <2>4. QED  BY <2>1, <2>2, <2>3
<1>5. CASE SyncFails
    <2> USE <1>5 DEF SyncFails, Ends, Goto
    <2>1. TypeOK'  BY LifecycleAssumption DEF TypeOK, FirstClient
    <2>2. HasFile'  BY DEF TypeOK, HasFile
    <2>3. NoFreshPrimary'  BY DEF TypeOK, NoFreshPrimary
    <2>4. QED  BY <2>1, <2>2, <2>3
<1>6. QED  BY <1>1, <1>2, <1>3, <1>4, <1>5

(* A, started afresh, and the end of its handshake. *)
LEMMA FreshKeeps ==
    ASSUME IInv, HandshakeFails \/ HandshakeWithLoop
    PROVE  IInv'
<1>1. primario' \in [Servers -> BOOLEAN]
    BY DEF IInv, TypeOK, HandshakeFails, HandshakeWithLoop
<1>2. UNCHANGED fileVars
    BY DEF HandshakeFails, HandshakeWithLoop
<1>3. "A" \in Servers /\ "B" \in Servers  OBVIOUS
<1>4. OwnFile("A") \in files["A"]
    BY <1>3 DEF IInv, HasFile, HandshakeFails, HandshakeWithLoop
<1>5. CASE Ends("A") \/ Ends("B")
    BY <1>1, <1>2, <1>3, <1>5, EndsKeeps
<1>6. CASE /\ Enters("A") /\ UNCHANGED peer
           /\ store' \in [Servers -> {"none", "empty", "data"}]
           /\ clients' = clients /\ link' \in [Servers -> {"none", "open", "closed"}]
    <2> USE <1>1, <1>2, <1>4, <1>6 DEF IInv, Enters, Goto, fileVars
    <2>1. TypeOK'  BY DEF TypeOK
    <2>2. HasFile'  BY DEF TypeOK, HasFile
    <2>3. NoFreshPrimary'  BY DEF TypeOK, NoFreshPrimary
    <2>4. QED  BY <2>1, <2>2, <2>3
<1>7. QED
    BY <1>5, <1>6 DEF HandshakeFails, HandshakeWithLoop, IInv, TypeOK, slotVars

(* A server that recovers, and the one it recovers from. *)
LEMMA RecoveryKeeps ==
    ASSUME IInv, NEW s \in Servers,
           \/ OpenFails(s) \/ Hello(s) \/ AnswerHello(s) \/ Transfer(s)
           \/ TransferFails(s) \/ UpdateFails(s) \/ UpdateFromSecondary
    PROVE  IInv'
<1>0. Other(s) \in Servers /\ "A" \in Servers /\ "B" \in Servers  OBVIOUS
<1>1. primario \in [Servers -> BOOLEAN]  BY DEF IInv, TypeOK
<1>2. CASE OpenFails(s)
    BY <1>1, <1>2, EndsKeeps DEF OpenFails
<1>3. CASE Hello(s)
    <2>1. CASE Goto(s, "update") /\ conn' = [conn EXCEPT ![s] = "queued"]
        <3> USE <1>3, <2>1 DEF IInv, Hello, Goto, slotVars, fileVars
        <3>1. TypeOK'  BY DEF TypeOK
        <3>2. HasFile'  BY DEF TypeOK, HasFile
        <3>3. NoFreshPrimary'  BY DEF TypeOK, NoFreshPrimary
        <3>4. QED  BY <3>1, <3>2, <3>3
    <2>2. CASE Enters(s)
        BY <1>1, <1>3, <2>2, EntersKeeps DEF Hello
    <2>3. QED  BY <1>3, <2>1, <2>2 DEF Hello, Connects
<1>4. CASE AnswerHello(s)
    <2> USE <1>4 DEF IInv, AnswerHello, accepts, Goto, fileVars
    <2>1. TypeOK'  BY DEF TypeOK
    <2>2. HasFile'  BY DEF TypeOK, HasFile
    <2>3. NoFreshPrimary'  BY DEF TypeOK, NoFreshPrimary
    <2>4. QED  BY <2>1, <2>2, <2>3
<1>5. CASE Transfer(s)
    <2>1. CASE Ends(s) \/ Ends(Other(s))
        BY <1>0, <1>1, <1>5, <2>1, EndsKeeps DEF Transfer
    <2>2. CASE /\ \E got \in {store[s], "empty", "none"} :
                     store' = [store EXCEPT ![Other(s)] = got]
               /\ pos' = [x \in Servers |-> "loop"]
               /\ conn' = [x \in Servers |-> "none"]
               /\ \E l \in {"open", "none"} : link' = [link EXCEPT ![s] = l]
               /\ UNCHANGED <<clients, peer>>
        <3> USE <1>5, <2>2 DEF IInv, Transfer, fileVars
        <3>1. TypeOK'  BY DEF TypeOK
        <3>2. HasFile'  BY DEF TypeOK, HasFile
        <3>3. NoFreshPrimary'  BY DEF TypeOK, HasFile, NoFreshPrimary
        <3>4. QED  BY <3>1, <3>2, <3>3
    <2>3. QED  BY <1>5, <2>1, <2>2 DEF Transfer
<1>6. CASE TransferFails(s)
    <2>1. CASE Ends(s)
        BY <1>1, <1>6, <2>1, EndsKeeps DEF TransferFails
    <2>2. CASE Enters(s) /\ UNCHANGED <<store, slotVars, peer>>
        BY <1>1, <1>6, <2>2, EntersKeeps DEF TransferFails, IInv, HasFile, fileVars
    <2>3. CASE Goto(s, "stuck") /\ UNCHANGED <<store, conn, slotVars, peer>>
        <3> USE <1>6, <2>3 DEF IInv, TransferFails, Goto, slotVars, fileVars
        <3>1. TypeOK'  BY DEF TypeOK
        <3>2. HasFile'  BY DEF TypeOK, HasFile
        <3>3. NoFreshPrimary'  BY DEF TypeOK, NoFreshPrimary
        <3>4. QED  BY <3>1, <3>2, <3>3
    <2>4. QED  BY <1>6, <2>1, <2>2, <2>3 DEF TransferFails
<1>7. CASE UpdateFails(s)
    <2>1. CASE Ends(s)
        BY <1>1, <1>7, <2>1, EndsKeeps DEF UpdateFails
    <2>2. CASE Enters(s) /\ UNCHANGED <<store, slotVars, peer>>
        BY <1>1, <1>7, <2>2, EntersKeeps DEF UpdateFails, IInv, HasFile, fileVars
    <2>3. QED  BY <1>7, <2>1, <2>2 DEF UpdateFails
<1>8. CASE UpdateFromSecondary
    <2>1. CASE Ends("B")
        BY <1>0, <1>1, <1>8, <2>1, EndsKeeps DEF UpdateFromSecondary
    <2>2. CASE Enters("A") /\ UNCHANGED <<store, slotVars, peer>>
        BY <1>0, <1>1, <1>8, <2>2, EntersKeeps
           DEF UpdateFromSecondary, IInv, HasFile, fileVars
    <2>3. QED  BY <1>8, <2>1, <2>2 DEF UpdateFromSecondary
<1>9. QED  BY <1>2, <1>3, <1>4, <1>5, <1>6, <1>7, <1>8

(* A server that serves, is told to quit, or is killed. *)
LEMMA ServiceKeeps ==
    ASSUME IInv, NEW s \in Servers,
           \/ ServeClient(s) \/ Quit(s) \/ Crash(s)
           \/ AcceptClient(s) \/ CloseClient(s) \/ OtherCloses(s) \/ CloseOther(s)
    PROVE  IInv'
<1>1. CASE ServeClient(s)
    <2> USE <1>1 DEF IInv, ServeClient, slotVars, fileVars
    <2>1. TypeOK'  BY DEF TypeOK
    <2>2. HasFile'  BY DEF TypeOK, HasFile
    <2>3. NoFreshPrimary'  BY DEF TypeOK, NoFreshPrimary
    <2>4. QED  BY <2>1, <2>2, <2>3
<1>2. CASE Quit(s)
    <2> USE <1>2 DEF IInv, Quit, Ends, Goto, file_remove
    <2>1. TypeOK'  BY LifecycleAssumption DEF TypeOK, FirstClient
    <2>2. HasFile'  BY DEF TypeOK, HasFile
    <2>3. NoFreshPrimary'  BY DEF NoFreshPrimary
    <2>4. QED  BY <2>1, <2>2, <2>3
<1>3. CASE Crash(s)
    BY <1>3, EndsKeeps DEF Crash, IInv, TypeOK
<1>4. CASE AcceptClient(s) \/ CloseClient(s)
    <2>1. clients' \in [Servers -> 0 .. SOCKETS_NUMBER - FirstClient]
        <3> DEFINE n == clients[s]
                   max == SOCKETS_NUMBER - FirstClient
        <3>1. n \in 0 .. max /\ max \in Nat
            BY LifecycleAssumption DEF IInv, TypeOK, FirstClient
        <3>2. CASE AcceptClient(s)
            <4>1. n < max
                BY <3>1, <3>2, LifecycleAssumption
                   DEF AcceptClient, accepts, nSockets, FirstClient
            <4>2. QED
                BY <3>1, <3>2, <4>1 DEF AcceptClient, IInv, TypeOK
        <3>3. CASE CloseClient(s)
            BY <3>1, <3>3 DEF CloseClient, IInv, TypeOK
        <3>4. QED  BY <1>4, <3>2, <3>3
    <2> USE <1>4, <2>1 DEF IInv, AcceptClient, CloseClient, fileVars
    <2>2. TypeOK'  BY DEF TypeOK
    <2>3. HasFile'  BY DEF TypeOK, HasFile
    <2>4. NoFreshPrimary'  BY DEF TypeOK, NoFreshPrimary
    <2>5. QED  BY <2>2, <2>3, <2>4
<1>5. CASE OtherCloses(s) \/ CloseOther(s)
    <2> USE <1>5 DEF IInv, OtherCloses, CloseOther, fileVars
    <2>1. TypeOK'  BY DEF TypeOK
    <2>2. HasFile'  BY DEF TypeOK, HasFile
    <2>3. NoFreshPrimary'  BY DEF TypeOK, NoFreshPrimary
    <2>4. QED  BY <2>1, <2>2, <2>3
<1>6. QED  BY <1>1, <1>2, <1>3, <1>4, <1>5

LEMMA StutterKeeps ==
    ASSUME IInv, UNCHANGED vars
    PROVE  IInv'
BY DEF IInv, TypeOK, HasFile, NoFreshPrimary, vars, slotVars, fileVars

LEMMA NextKeeps ==
    ASSUME IInv, [Next]_vars
    PROVE  IInv'
<1>1. "A" \in Servers /\ "B" \in Servers  OBVIOUS
<1>2. CASE AStep
    BY <1>1, <1>2, StartPrimaryKeeps, FirstStartKeeps, FreshKeeps, RecoveryKeeps,
       ServiceKeeps DEF AStep
<1>3. CASE BStep
    BY <1>1, <1>3, FirstStartKeeps, RecoveryKeeps, ServiceKeeps DEF BStep
<1>4. CASE Environment
    BY <1>4, FirstStartKeeps, StartKeeps, RecoveryKeeps, ServiceKeeps
       DEF Environment
<1>5. CASE UNCHANGED vars
    BY <1>5, StutterKeeps
<1>6. QED  BY <1>2, <1>3, <1>4, <1>5 DEF Next

(* The invariant holds in every state, whatever the files of earlier lives *)
(* are.                                                                    *)
THEOREM SpecIInv == Spec => []IInv
<1>1. IInv /\ [Next]_vars => IInv'  BY NextKeeps
<1>2. QED  BY InitIInv, <1>1, PTL DEF Spec

(* The variables have their types, however often the servers restart.      *)
THEOREM TypesHold == Spec => []TypeOK
<1>1. IInv => TypeOK  BY DEF IInv
<1>2. QED  BY SpecIInv, <1>1, PTL

(* A server that serves has its file, whatever was created and removed     *)
(* before: a crash of it is followed by a recovery.                        *)
THEOREM ServersHaveFiles == Spec => []RunningHasFile
<1>1. IInv => RunningHasFile  BY DEF IInv, HasFile, RunningHasFile
<1>2. QED  BY SpecIInv, <1>1, PTL

(* One step does not take stored data from a server that goes on.          *)
LEMMA StepKeepsData ==
    ASSUME IInv, [Next]_vars, quitted = {}
    PROVE  KeepsData
<1> SUFFICES ASSUME NEW s \in Servers, pos[s] = "loop", pos'[s] = "loop",
                    store[s] = "data"
             PROVE  store'[s] = "data"
    BY DEF KeepsData
<1>0. /\ pos = [x \in Servers |-> pos[x]]
      /\ store \in [Servers -> {"none", "empty", "data"}]
      /\ OwnFile(s) \in files[s]
    BY DEF IInv, TypeOK, HasFile
<1>1. ASSUME NEW x \in Servers, Ends(x) PROVE store'[s] = "data"
    BY <1>0, <1>1 DEF Ends, Goto
<1>2. CASE UNCHANGED store
    BY <1>2
<1>3. CASE StartPrimary \/ Handshake
    BY <1>0, <1>3 DEF StartPrimary, Handshake, IInv, NoFreshPrimary
<1>4. CASE HandshakeWithLoop
    <2>1. s = "B" /\ pos["A"] = "handshake"
        BY <1>4 DEF HandshakeWithLoop
    <2>2. QED  BY <2>1 DEF IInv, NoFreshPrimary
<1>5. ASSUME NEW x \in Servers, Transfer(x) PROVE store'[s] = "data"
    BY <1>0, <1>1, <1>5 DEF Transfer
<1>6. ASSUME NEW x \in Servers, ServeClient(x) PROVE store'[s] = "data"
    BY <1>0, <1>6 DEF ServeClient
<1>7. ASSUME NEW x \in Servers,
             \/ OpenFails(x) \/ Hello(x) \/ AnswerHello(x) \/ TransferFails(x)
             \/ UpdateFails(x) \/ Start(x) \/ Quit(x) \/ Crash(x)
             \/ AcceptClient(x) \/ CloseClient(x) \/ OtherCloses(x) \/ CloseOther(x)
      PROVE  store'[s] = "data"
    BY <1>1, <1>2, <1>7 DEF OpenFails, Hello, AnswerHello, TransferFails,
       UpdateFails, Start, Quit, Crash, AcceptClient, CloseClient, OtherCloses, CloseOther
<1>8. CASE \/ \E p \in {"A", "client"} : AcceptPeer(p)
           \/ ClientLeaves \/ CreateFile \/ SyncFails \/ HandshakeFails
           \/ UpdateFromSecondary
    <2>1. "A" \in Servers /\ "B" \in Servers  OBVIOUS
    <2>2. QED
        BY <1>1, <1>2, <1>8, <2>1 DEF AcceptPeer, ClientLeaves, CreateFile,
           SyncFails, HandshakeFails, UpdateFromSecondary
<1>9. "A" \in Servers /\ "B" \in Servers  OBVIOUS
<1>10. CASE AStep
    BY <1>3, <1>4, <1>7, <1>8, <1>9, <1>10 DEF AStep
<1>11. CASE BStep
    BY <1>7, <1>8, <1>9, <1>11 DEF BStep
<1>12. CASE Environment
    BY <1>5, <1>6, <1>7, <1>8, <1>12 DEF Environment
<1>13. CASE UNCHANGED vars
    BY <1>2, <1>13 DEF vars
<1>14. QED  BY <1>10, <1>11, <1>12, <1>13 DEF Next

(* As long as no server was told to quit, no crash, restart, handshake or  *)
(* recovery takes from a server that goes on what clients have stored.     *)
THEOREM DataKept == Spec => WritesKept
<1>1. IInv /\ [Next]_vars => (quitted = {} => KeepsData)
    BY StepKeepsData
<1>2. IInv /\ [Next]_vars => [quitted = {} => KeepsData]_vars
    BY <1>1
<1>3. QED  BY SpecIInv, <1>2, PTL DEF Spec, WritesKept
=============================================================================
