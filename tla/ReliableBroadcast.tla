--------------------------- MODULE ReliableBroadcast ---------------------------
(***************************************************************************)
(* The broadcast protocol of src/src: the nodes of one chain run one       *)
(* session, i.e. the messages of one Session::Id (chain, client, nonce).   *)
(* Sessions share nothing but the pool that holds them, so one is enough.  *)
(*                                                                         *)
(* A handler runs as one step here, with every call it makes: processing   *)
(* a SEND broadcasts ECHO and counts the node's own ECHO, which may        *)
(* broadcast READY and count the node's own READY, which may deliver.      *)
(* That is the program on one io_service thread whose Redis is reachable   *)
(* when it delivers; module NodeThreads takes the handlers of one node     *)
(* apart and has the connection.                                           *)
(*                                                                         *)
(* The network is UDP: a datagram may be handled late, in any order, more  *)
(* than once or never.  "wire" only grows, and a step that handles a       *)
(* datagram leaves it there.  A node that stops is one that handles        *)
(* nothing more.  A node of Faulty may send ECHO and READY messages under  *)
(* its own id, to whom it likes.                                           *)
(***************************************************************************)
EXTENDS Thresholds, FiniteSets, Sequences

CONSTANTS
    Node,        \* the parties of the chain
    Faulty,      \* the parties that do not follow the protocol
    Data,        \* the payloads a message may carry
    NoData,      \* the value of readyData before READY was broadcast
    SessionNodes, \* SessionNodes[n]: the ids in the chain's config on node n
                 \* when n makes its session, which keeps their number
    ChainNodes,  \* ChainNodes[n]: the ids in that config, or in one that n
                 \* loads while the session lives
    ClientNodes  \* ClientNodes[v]: the nodes the client of payload v knows

ASSUME NodeAssumption ==
    /\ IsFiniteSet(Node)
    /\ Faulty \subseteq Node
    /\ SessionNodes \in [Node -> SUBSET Node]
    /\ ChainNodes \in [Node -> SUBSET Node]
    /\ ClientNodes \in [Data -> SUBSET Node]
    /\ NoData \notin Data
    /\ 3 * Cardinality(Node) < SIZE_MOD

VARIABLES
    requested,   \* payloads of the SEND messages clients sent to the nodes
    wire,        \* ECHO and READY messages correct nodes have broadcast
    echoes,      \* Session::mEchoMessageCounter of each correct node
    readies,     \* Session::mReadyMessageCounter
    readyData,   \* what READY was broadcast for; mReadyMessageWasSent is
                 \* readyData[n] # NoData
    delivered,   \* Session::mDelivered
    log          \* the payloads the node appended to its Redis list

vars == <<requested, wire, echoes, readies, readyData, delivered, log>>

Correct == Node \ Faulty

MessageType == {"ECHO", "READY"}
Message == [type: MessageType, nodeId: Correct, data: Data]

NodesCount(n) == Cardinality(SessionNodes[n])
T(n) == GetT(NodesCount(n))
EchoTarget(n) == GetEchoMessageCountTarget(NodesCount(n), T(n))

TypeOK ==
    /\ requested \in SUBSET Data
    /\ wire \in SUBSET Message
    /\ echoes \in [Correct -> [Data -> SUBSET Node]]
    /\ readies \in [Correct -> [Data -> SUBSET Node]]
    /\ readyData \in [Correct -> Data \cup {NoData}]
    /\ delivered \in [Correct -> BOOLEAN]
    /\ log \in [Correct -> Seq(Data)]

Init ==
    /\ requested = {}
    /\ wire = {}
    /\ echoes = [n \in Correct |-> [v \in Data |-> {}]]
    /\ readies = [n \in Correct |-> [v \in Data |-> {}]]
    /\ readyData = [n \in Correct |-> NoData]
    /\ delivered = [n \in Correct |-> FALSE]
    /\ log = [n \in Correct |-> <<>>]

-----------------------------------------------------------------------------
(* Slips the properties below tell from the code.                          *)

\* The message keeps the id it came with (no setNodeId).
BroadcastUnsigned(n, types, v) ==
    wire' = wire \cup [type: types, nodeId: {NoData}, data: {v}]

\* t READYs make a node send its own, instead of t + 1.
AmplifiesAtT(n, seen) ==
    readyData[n] = NoData /\ Cardinality(seen) >= T(n)

\* The READY branch does not exchange mReadyMessageWasSent.
AmplifiesAgain(n, seen) == Cardinality(seen) > T(n)

\* Only echoes make a node send READY.
AmplifiesNever(n, seen) == FALSE

\* ECHOs are counted per datagram, not per sender.
EchoQuorumRecounted(n, q, v) ==
    Cardinality(echoes[n][v]) + 1 >= EchoTarget(n)

-----------------------------------------------------------------------------
(* A client sends data to every node in a SEND message.  Two clients that  *)
(* share an id and pick the same nonce, or one that reuses a nonce, open   *)
(* one session with two payloads.                                          *)
ClientSend(v) ==
    /\ requested' = requested \cup {v}
    /\ UNCHANGED <<wire, echoes, readies, readyData, delivered, log>>

(* asyncBroadcast: one record stands for the datagrams to every entry of   *)
(* the chain config of the moment, but the node itself.                    *)
Broadcast(n, types, v) ==
    wire' = wire \cup [type: types, nodeId: {n}, data: {v}]

(* A message of node q that node n may receive.                            *)
Receivable(n, type, q, v) ==
    /\ n \in ChainNodes[q] \ {q}
    /\ q \in Faulty \/ [type |-> type, nodeId |-> q, data |-> v] \in wire

(* The count of READY messages becomes "seen"; the node commits when more  *)
(* than 2 * t are seen, once.                                              *)
CountReadies(n, seen, v) ==
    /\ readies' = [readies EXCEPT ![n][v] = seen]
    /\ IF Cardinality(seen) > DeliverThreshold(T(n))
       THEN /\ delivered' = [delivered EXCEPT ![n] = TRUE]
            /\ log' = [log EXCEPT ![n] = Append(@, v)]
       ELSE UNCHANGED <<delivered, log>>

(* Broadcasting READY ends in processMessage of the node's own READY.      *)
CountOwnReady(n, v) ==
    IF delivered[n]
    THEN UNCHANGED <<readies, delivered, log>>
    ELSE CountReadies(n, readies[n][v] \cup {n}, v)

EchoQuorumWith(n, q, v) ==
    Cardinality(echoes[n][v] \cup {q}) >= EchoTarget(n)

(* SEND: broadcast ECHO and count the node's own ECHO.  When that completes *)
(* the quorum, the same message object is turned into READY while the      *)
(* posted task that encodes the ECHO may not have run: then that task      *)
(* sends READY as well, and no ECHO leaves the node.                       *)
HandleSend(n, v) ==
    /\ v \in requested /\ n \in ClientNodes[v]
    /\ \/ /\ readyData[n] # NoData
          /\ Broadcast(n, {"ECHO"}, v)
          /\ UNCHANGED <<echoes, readies, readyData, delivered, log>>
       \/ /\ readyData[n] = NoData
          /\ ~EchoQuorumWith(n, n, v)
          /\ echoes' = [echoes EXCEPT ![n][v] = @ \cup {n}]
          /\ Broadcast(n, {"ECHO"}, v)
          /\ UNCHANGED <<readies, readyData, delivered, log>>
       \/ /\ readyData[n] = NoData
          /\ EchoQuorumWith(n, n, v)
          /\ echoes' = [echoes EXCEPT ![n][v] = @ \cup {n}]
          /\ readyData' = [readyData EXCEPT ![n] = v]
          /\ \E encoded \in {"ECHO", "READY"} :
                Broadcast(n, {encoded, "READY"}, v)
          /\ CountOwnReady(n, v)
    /\ UNCHANGED requested

(* ECHO from q: ignored once READY was sent.                               *)
HandleEcho(n, q, v) ==
    /\ Receivable(n, "ECHO", q, v)
    /\ readyData[n] = NoData
    /\ echoes' = [echoes EXCEPT ![n][v] = @ \cup {q}]
    /\ IF EchoQuorumWith(n, q, v)
       THEN /\ readyData' = [readyData EXCEPT ![n] = v]
            /\ Broadcast(n, {"READY"}, v)
            /\ CountOwnReady(n, v)
       ELSE UNCHANGED <<wire, readies, readyData, delivered, log>>
    /\ UNCHANGED requested

Amplifies(n, seen) ==
    readyData[n] = NoData /\ Cardinality(seen) > T(n)

\* Slip: READY is handled after the commit as before.
HandleReadyAgain(n, q, v) ==
    LET seen == readies[n][v] \cup {q}
    IN  /\ Receivable(n, "READY", q, v)
        /\ readyData' = [readyData EXCEPT ![n] = IF Amplifies(n, seen) THEN v ELSE @]
        /\ IF Amplifies(n, seen) THEN Broadcast(n, {"READY"}, v) ELSE wire' = wire
        /\ CountReadies(n, seen, v)
        /\ UNCHANGED <<requested, echoes>>

(* READY from q: ignored once delivered.  More than t of them make the     *)
(* node broadcast its own READY, which it counts before it goes on to the  *)
(* commit test.                                                            *)
HandleReady(n, q, v) ==
    LET seen == readies[n][v] \cup {q}
    IN  /\ Receivable(n, "READY", q, v)
        /\ ~delivered[n]
        /\ IF Amplifies(n, seen)
           THEN /\ readyData' = [readyData EXCEPT ![n] = v]
                /\ Broadcast(n, {"READY"}, v)
                /\ CountReadies(n, seen \cup {n}, v)
           ELSE /\ CountReadies(n, seen, v)
                /\ UNCHANGED <<wire, readyData>>
        /\ UNCHANGED <<requested, echoes>>

Next ==
    \/ \E v \in Data : ClientSend(v)
    \/ \E n \in Correct, v \in Data : HandleSend(n, v)
    \/ \E n \in Correct, q \in Node, v \in Data : HandleEcho(n, q, v)
    \/ \E n \in Correct, q \in Node, v \in Data : HandleReady(n, q, v)

Spec == Init /\ [][Next]_vars

(* A node has handled the SEND of v: it counted its own ECHO, or skipped   *)
(* the count and sent it.                                                  *)
SendHandled(n, v) ==
    n \in echoes[n][v] \/ [type |-> "ECHO", nodeId |-> n, data |-> v] \in wire

(* What keeps happening on a correct node that runs: its io_service threads *)
(* handle the messages of clients and of other correct nodes.  A SEND is   *)
(* sent once, so a second copy of it may come but need not.                *)
HandleCorrect(n) ==
    \/ \E v \in Data : ~SendHandled(n, v) /\ HandleSend(n, v)
    \/ \E q \in Correct, v \in Data : HandleEcho(n, q, v)
    \/ \E q \in Correct, v \in Data : HandleReady(n, q, v)

(* The sockets lose nothing (an assumption: nothing is ever sent again) and *)
(* the threads of correct nodes keep running, which they do not while one  *)
(* that delivers finds Redis away.                                         *)
FairSpec == Spec /\ \A n \in Correct : WF_vars(HandleCorrect(n))

-----------------------------------------------------------------------------
(* Conditions on the deployment, named where a property needs them.        *)

(* Every correct node's chain config lists every node, itself included,    *)
(* and no reload changes it.                                               *)
CompleteConfig ==
    \A n \in Correct : SessionNodes[n] = Node /\ ChainNodes[n] = Node

(* No more nodes are faulty than a complete config tolerates.              *)
FewFaulty == Cardinality(Faulty) <= GetT(Cardinality(Node))

(* n = 3 * t + 1, the size at which any two sets of 2 * t + 1 nodes share  *)
(* more than t.  getT also gives the same t to n + 1 and n + 2.            *)
TightSize == Cardinality(Node) = 3 * GetT(Cardinality(Node)) + 1

(* The clients send their payloads to every node.                          *)
ClientsKnowAll == \A v \in Data : ClientNodes[v] = Node

(* Without the t nodes whose ECHO may go out as READY and without the      *)
(* faulty ones there are still enough nodes for a quorum of echoes.  With  *)
(* no faulty node this is 3 * t < n; with one it is n = 3 * t + 3; more    *)
(* are never to spare.                                                     *)
EchoesToSpare ==
    Cardinality(Node) > 3 * GetT(Cardinality(Node)) + 2 * Cardinality(Faulty)

(* The READY quorums of two correct nodes share a correct node, whatever   *)
(* config each of them made its session from.                              *)
QuorumsOverlap ==
    \A m, n \in Correct :
        DeliverThreshold(T(m)) + DeliverThreshold(T(n)) + 2
            > Cardinality(Node) + Cardinality(Faulty)

-----------------------------------------------------------------------------
(* Safety.                                                                 *)

(* Two correct nodes never commit different payloads and none commits      *)
(* twice, although every node echoes every payload it is sent, clients may *)
(* send several in one session, and READYs of faulty nodes count.          *)
Agreement ==
    \A m, n \in Correct :
        /\ Len(log[n]) <= 1
        /\ log[m] # <<>> /\ log[n] # <<>> => log[m] = log[n]

(* A correct node commits only what a client sent, whatever faulty nodes   *)
(* echo: neither quorum can be filled without a correct node that handled  *)
(* the SEND.                                                               *)
NoFabrication ==
    \A n \in Correct : \A i \in DOMAIN log[n] : log[n][i] \in requested

(* mReadyMessageWasSent is exchanged in two branches of processMessage;    *)
(* together they let a node broadcast READY for one payload of a session   *)
(* only, even when a retyped ECHO went out as READY.                       *)
OneReadyPerSession ==
    \A l, m \in wire :
        l.type = "READY" /\ m.type = "READY" /\ l.nodeId = m.nodeId
            => l.data = m.data

(* READY never starts from READYs alone: behind any READY of a correct     *)
(* node there is a correct node that counted a full echo quorum for the    *)
(* same payload.                                                           *)
ReadyRootedInEchoes ==
    \A n \in Correct :
        readyData[n] # NoData =>
            \E p \in Correct :
                Cardinality(echoes[p][readyData[n]]) >= EchoTarget(p)

(* When a correct node commits, more than t correct nodes have broadcast   *)
(* READY for that payload: enough for every other node's READY branch.     *)
CommitIsAmplified ==
    \A n \in Correct : \A i \in DOMAIN log[n] :
        Cardinality({q \in Correct : readyData[q] = log[n][i]}) > T(n)

(* The session keeps the promise of BroadcastSpec.                         *)
Promise == INSTANCE BroadcastSpec WITH Party <- Correct
KeepsPromise == Promise!Spec

(* The messages node n may have received.                                  *)
Received(n) ==
    {m \in [type: MessageType, nodeId: Node, data: Data] :
        Receivable(n, m.type, m.nodeId, m.data)}
    \cup {m \in [type: {"SEND"}, nodeId: Node, data: requested] :
        n \in ClientNodes[m.data]}

(* Every correct node keeps NodeContract, which the threads of one node    *)
(* are shown to keep in NodeThreads: handling a message as one step leaves *)
(* out nothing that the contract tells apart.                              *)
Contract(n) == INSTANCE NodeContract WITH
    Self <- n, EchoQuorum <- EchoTarget(n), Tolerated <- T(n),
    received <- Received(n), echoes <- echoes[n], readies <- readies[n],
    readyData <- readyData[n], sent <- {m \in wire : m.nodeId = n},
    log <- log[n]
NodesKeepContract ==
    /\ \A n \in Correct : Contract(n)!Init
    /\ [][\A n \in Correct : [Contract(n)!Next]_(Contract(n)!vars)]_vars

-----------------------------------------------------------------------------
(* Progress.                                                               *)

(* If one correct node commits, all of them do, as long as clients sent    *)
(* one payload: more than t READYs of correct nodes reach every node.      *)
Totality ==
    (\E m \in Correct : log[m] # <<>>) ~> (\A n \in Correct : log[n] # <<>>)

(* What a client sent to every node is committed by every correct node.    *)
Validity ==
    (requested # {}) ~> (\A n \in Correct : log[n] # <<>>)

(* Everything that correct nodes were sent, by clients or by each other,   *)
(* was handled: it was counted, or it came too late to count.              *)
Settled ==
    \A n \in Correct :
        /\ \A v \in requested : n \in ClientNodes[v] => SendHandled(n, v)
        /\ \A q \in Correct, v \in Data :
              /\ Receivable(n, "ECHO", q, v) => readyData[n] # NoData \/ q \in echoes[n][v]
              /\ Receivable(n, "READY", q, v) => delivered[n] \/ q \in readies[n][v]

(* The order in which the nodes handle the messages of a payload never     *)
(* leaves one of them without a quorum, although a node whose own ECHO     *)
(* completes its quorum may withhold it from the others.                   *)
SettledMeansCommitted ==
    \A v \in Data :
        Settled /\ requested = {v} => \A n \in Correct : log[n] = <<v>>

(* Where one correct node committed, all of them have once everything was  *)
(* handled, whatever the faulty nodes sent, and to whom.                   *)
SettledMeansTotal ==
    \A v \in Data :
        Settled /\ requested = {v} /\ (\E m \in Correct : log[m] # <<>>)
            => \A n \in Correct : log[n] = <<v>>

=============================================================================
