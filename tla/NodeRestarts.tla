------------------------------ MODULE NodeRestarts ------------------------------
(* One node whose process may stop and start again.  A session lives in    *)
(* memory, what the node committed in Redis: after a restart the node has  *)
(* forgotten what it counted, sent and delivered, but not its list.        *)
(*                                                                         *)
(* The other nodes follow the protocol and keep running, and the network   *)
(* loses or delays but does not repeat datagrams: what one life of the     *)
(* process has read, the next one does not see.  A node decides on READY   *)
(* once, but when its own ECHO completes its quorum the two tasks posted   *)
(* on the one message object may both send READY: the copies of a READY    *)
(* are datagrams of their own.  A handler is one step, as in               *)
(* ReliableBroadcast.                                                      *)
EXTENDS Thresholds, FiniteSets, Sequences

CONSTANTS
    Self,         \* the node that restarts
    Node,         \* the nodes of the chain
    Data,         \* payloads
    NoData,       \* no payload
    MaxRestarts   \* bound on the restarts explored

ASSUME RestartAssumption ==
    /\ IsFiniteSet(Node) /\ Self \in Node
    /\ 3 * Cardinality(Node) < SIZE_MOD
    /\ NoData \notin Data
    /\ MaxRestarts \in Nat

VARIABLES
    asked,       \* payloads of the SENDs that have not been handled yet
    echoInbox,   \* echoInbox[q]: payloads whose ECHO from q is not handled yet
    readySent,   \* the READY datagrams that are ever sent to the node
    readyInbox,  \* those of them that are not handled yet
    echoes,      \* Session::mEchoMessageCounter
    readies,     \* Session::mReadyMessageCounter
    readyData,   \* NoData while mReadyMessageWasSent is false
    delivered,   \* Session::mDelivered
    delivering,  \* the payload a thread in deliver() has still to append
    connected,   \* mRedisClient.is_connected()
    list,        \* the Redis list: the payloads of this session on it
    restarts

inboxes == <<asked, echoInbox, readySent, readyInbox>>
memory == <<echoes, readies, readyData, delivered, delivering, connected>>
vars == <<inboxes, memory, list, restarts>>

Other == Node \ {Self}
t == GetT(Cardinality(Node))
EchoTarget == GetEchoMessageCountTarget(Cardinality(Node), t)

\* A READY on the network.
Ready == [nodeId : Other, data : Data, copy : {1, 2}]

TypeOK ==
    /\ asked \in SUBSET Data
    /\ echoInbox \in [Other -> SUBSET Data]
    /\ readySent \in SUBSET Ready
    /\ readyInbox \in SUBSET readySent
    /\ echoes \in [Data -> SUBSET Node]
    /\ readies \in [Data -> SUBSET Node]
    /\ readyData \in Data \cup {NoData}
    /\ delivered \in BOOLEAN
    /\ delivering \in Data \cup {NoData}
    /\ connected \in BOOLEAN
    /\ list \in Seq(Data)
    /\ restarts \in 0..MaxRestarts

\* The process has no session and no connection yet.
NothingInMemory ==
    /\ echoes' = [v \in Data |-> {}]
    /\ readies' = [v \in Data |-> {}]
    /\ readyData' = NoData
    /\ delivered' = FALSE
    /\ delivering' = NoData
    /\ connected' = FALSE

(* Node q sends READY of data[q], and a second copy when it is in twice.   *)
ReadiesOf(data, twice) ==
    {d \in Ready : d.data = data[d.nodeId] /\ (d.copy = 1 \/ d.nodeId \in twice)}

(* Every datagram that is ever sent to the node is there from the start:   *)
(* one that is not handled is late or lost.  A node that sends READY twice *)
(* had counted the ECHOs of EchoTarget - 1 others, which sent them as      *)
(* ECHO, so these are not among the nodes that send READY twice.           *)
Init ==
    /\ asked = Data
    /\ echoInbox = [q \in Other |-> Data]
    /\ \E data \in [Other -> Data], twice \in SUBSET Other :
          /\ \A v \in Data : Cardinality({q \in twice : data[q] = v})
                              <= Cardinality(Node) - EchoTarget + 1
          /\ readySent = ReadiesOf(data, twice)
    /\ readyInbox = readySent
    /\ echoes = [v \in Data |-> {}]
    /\ readies = [v \in Data |-> {}]
    /\ readyData = NoData
    /\ delivered = FALSE
    /\ delivering = NoData
    /\ connected = FALSE
    /\ list = <<>>
    /\ restarts = 0

-----------------------------------------------------------------------------
\* Slip: 2 * t READYs commit.
CountReadiesAtLeast(seen, v) ==
    /\ readies' = [readies EXCEPT ![v] = seen]
    /\ IF Cardinality(seen) >= DeliverThreshold(t)
       THEN delivered' = TRUE /\ delivering' = v
       ELSE UNCHANGED <<delivered, delivering>>

(* Count READYs; with more than 2 * t the thread goes on into deliver().   *)
CountReadies(seen, v) ==
    /\ readies' = [readies EXCEPT ![v] = seen]
    /\ IF Cardinality(seen) > DeliverThreshold(t)
       THEN delivered' = TRUE /\ delivering' = v
       ELSE UNCHANGED <<delivered, delivering>>

(* Broadcasting READY ends in counting the node's own.                     *)
CountOwnReady(v) ==
    IF delivered
    THEN UNCHANGED <<readies, delivered, delivering>>
    ELSE CountReadies(readies[v] \cup {Self}, v)

(* Count ECHOs; a quorum makes the node broadcast READY.                   *)
CountEchoes(seen, v) ==
    /\ echoes' = [echoes EXCEPT ![v] = seen]
    /\ IF Cardinality(seen) >= EchoTarget
       THEN readyData' = v /\ CountOwnReady(v)
       ELSE UNCHANGED <<readies, readyData, delivered, delivering>>

(* An ECHO, the node's own included, is ignored once READY was sent.       *)
ProcessEcho(q, v) ==
    IF readyData # NoData
    THEN UNCHANGED memory
    ELSE CountEchoes(echoes[v] \cup {q}, v) /\ UNCHANGED connected

HandleSend(v) ==
    /\ v \in asked
    /\ asked' = asked \ {v}
    /\ ProcessEcho(Self, v)
    /\ UNCHANGED <<echoInbox, readySent, readyInbox, list, restarts>>

HandleEcho(q, v) ==
    /\ v \in echoInbox[q]
    /\ echoInbox' = [echoInbox EXCEPT ![q] = @ \ {v}]
    /\ ProcessEcho(q, v)
    /\ UNCHANGED <<asked, readySent, readyInbox, list, restarts>>

(* READY is ignored once delivered; more than t of them make the node send *)
(* its own, and count it, before the commit test.                          *)
HandleReady(d) ==
    LET seen == readies[d.data] \cup {d.nodeId}
        amplifies == readyData = NoData /\ Cardinality(seen) > t
    IN  /\ d \in readyInbox
        /\ readyInbox' = readyInbox \ {d}
        /\ \/ /\ delivered
              /\ UNCHANGED memory
           \/ /\ ~delivered
              /\ readyData' = IF amplifies THEN d.data ELSE readyData
              /\ CountReadies(seen \cup {x \in {Self} : amplifies}, d.data)
              /\ UNCHANGED <<echoes, connected>>
        /\ UNCHANGED <<asked, echoInbox, readySent, list, restarts>>

\* Slip: what was appended is appended again.
AppendAgain ==
    /\ connected
    /\ list' = Append(list, delivering)
    /\ delivering' = NoData
    /\ UNCHANGED <<inboxes, echoes, readies, readyData, delivered, connected, restarts>>

(* deliver() finds the client connected and appends.                       *)
AppendToList ==
    /\ delivering # NoData /\ connected
    /\ list' = Append(list, delivering)
    /\ delivering' = NoData
    /\ UNCHANGED <<inboxes, echoes, readies, readyData, delivered, connected, restarts>>

(* deliver() finds it disconnected, connects and calls itself; while       *)
(* connecting fails it goes on doing so.                                   *)
ConnectToRedis ==
    /\ delivering # NoData /\ ~connected
    /\ connected' = TRUE
    /\ UNCHANGED <<inboxes, echoes, readies, readyData, delivered, delivering,
                   list, restarts>>

LoseRedis ==
    /\ connected
    /\ connected' = FALSE
    /\ UNCHANGED <<inboxes, echoes, readies, readyData, delivered, delivering,
                   list, restarts>>

(* The process ends at any point and is started again.                     *)
Restart ==
    /\ restarts < MaxRestarts
    /\ restarts' = restarts + 1
    /\ NothingInMemory
    /\ UNCHANGED <<inboxes, list>>

Next ==
    \/ \E v \in Data : HandleSend(v)
    \/ \E q \in Other, v \in Data : HandleEcho(q, v)
    \/ \E d \in Ready : HandleReady(d)
    \/ AppendToList
    \/ ConnectToRedis
    \/ LoseRedis
    \/ Restart

Spec == Init /\ [][Next]_vars

-----------------------------------------------------------------------------
(* mDelivered is forgotten at a restart, and the node may commit again;    *)
(* but every commit on its list has used up READYs of 2 * t other nodes    *)
(* that no other life of the process has read.  So the READYs sent bound   *)
(* the commits of a session, however often the process starts anew.        *)
CommitsWithinReadies == 2 * t * Len(list) <= Cardinality(readySent)

(* n = 3 * t + 1 with t > 0.  With a node more, as many as 2 * t READYs    *)
(* may be left after a commit, and they bring about a second one.          *)
TightSize == t > 0 /\ Cardinality(Node) = 3 * t + 1

(* The nodes that send READY twice.                                        *)
Repeating == {q \in Other : \E d \in readySent : d.nodeId = q /\ d.copy = 2}

(* With fewer than t of them the list holds one payload of the session at  *)
(* most.  With t of them it may hold two.                                  *)
CommitsOnce == Cardinality(Repeating) < t => Len(list) <= 1

=============================================================================
