------------------------------ MODULE NodeThreads ------------------------------
(* One node of ReliableBroadcast with its io_service and the threads that  *)
(* run it: the handlers of several messages of one session interleave, the *)
(* session may be created by two of them at once, and a message that was   *)
(* broadcast is encoded later, by whichever thread runs the posted task.   *)
(*                                                                         *)
(* A step is what a thread does between two points where another thread    *)
(* can see or change what it uses: an atomic load or exchange, or a block  *)
(* under a mutex.                                                          *)
EXTENDS Thresholds, FiniteSets, Sequences

CONSTANTS
    Thread,     \* the threads of ReliableBroadcast::start
    Self,       \* the id of this node
    Node,       \* the ids of the chain
    Data,       \* payloads
    NoData,     \* readyData before READY was decided
    Datagram,   \* the datagrams that may arrive
    Content,    \* Content[d]: the message in datagram d
    NoDatagram,
    NoSession

ASSUME ThreadAssumption ==
    /\ IsFiniteSet(Node)
    /\ 3 * Cardinality(Node) < SIZE_MOD
    /\ Self \in Node
    /\ Content \in [Datagram -> [type: {"SEND", "ECHO", "READY"},
                                 nodeId: Node \ {Self}, data: Data]]
    /\ NoData \notin Data /\ NoDatagram \notin Datagram /\ NoSession \notin Thread

VARIABLES
    arrived,    \* datagrams that have arrived
    posted,     \* datagrams whose processMessage task waits in the io_service
    message,    \* message[d]: type and nodeId of the message object of d
    sendTasks,  \* sendTasks[d]: tasks of asyncBroadcast that wait in the
                \* io_service; they hold the message object, not its bytes
    pool,       \* the session in SessionsPool::mSessions
    counters,   \* counters[s]: the counters and flags of session object s,
                \* named after the thread that made it
    thread,     \* thread[th]: where the thread is and its local variables
    sent,       \* messages that went out
    log,        \* payloads appended to the Redis list
    connected   \* mRedisClient.is_connected()

nodeVars == <<arrived, posted, message, sendTasks, pool, counters, thread, sent, log>>
vars == <<nodeVars, connected>>

Steps == {"idle", "getSession", "addSession", "dispatch", "countEcho",
          "exchangeOnEcho", "countReady", "testReadySent", "exchangeOnReady",
          "testDelivered", "exchangeDelivered", "deliver"}

t == GetT(Cardinality(Node))
EchoTarget == GetEchoMessageCountTarget(Cardinality(Node), t)

NewSession ==
    [echoes |-> [v \in Data |-> {}], readies |-> [v \in Data |-> {}],
     readyData |-> NoData, delivered |-> FALSE]

\* "interrupted" is the count of a READY handler whose broadcast call runs.
Idle == [pc |-> "idle", datagram |-> NoDatagram, session |-> NoSession,
         count |-> 0, interrupted |-> {}]

Counts == 0..Cardinality(Node)

NodeTypeOK ==
    /\ posted \subseteq arrived /\ arrived \subseteq Datagram
    /\ message \in [Datagram -> [type: {"SEND", "ECHO", "READY"}, nodeId: Node]]
    /\ sendTasks \in [Datagram -> 0..2]
    /\ pool \in Thread \cup {NoSession}
    /\ counters \in [Thread -> [echoes: [Data -> SUBSET Node],
                                readies: [Data -> SUBSET Node],
                                readyData: Data \cup {NoData},
                                delivered: BOOLEAN]]
    /\ thread \in [Thread -> [pc: Steps,
                              datagram: Datagram \cup {NoDatagram},
                              session: Thread \cup {NoSession},
                              count: Counts,
                              interrupted: SUBSET Counts]]
    /\ sent \subseteq [type: {"SEND", "ECHO", "READY"}, nodeId: Node, data: Data]
    /\ log \in Seq(Data)

TypeOK == NodeTypeOK /\ connected \in BOOLEAN

Init ==
    /\ arrived = {} /\ posted = {}
    /\ message = [d \in Datagram |->
                    [type |-> Content[d].type, nodeId |-> Content[d].nodeId]]
    /\ sendTasks = [d \in Datagram |-> 0]
    /\ pool = NoSession
    /\ counters = [s \in Thread |-> NewSession]
    /\ thread = [th \in Thread |-> Idle]
    /\ sent = {}
    /\ log = <<>>
    /\ connected = FALSE

-----------------------------------------------------------------------------
(* What a step of thread th works on.                                      *)

At(th, step) == thread[th].pc = step
Session(th) == counters[thread[th].session]
Payload(th) == Content[thread[th].datagram].data
Sender(th) == message[thread[th].datagram].nodeId

Goto(th, step) == thread' = [thread EXCEPT ![th].pc = step]

(* Return from processMessage.  Inside the broadcast call of a READY       *)
(* handler this returns to that handler, which goes on with its count.     *)
Return(th) ==
    LET me == thread[th]
    IN  IF me.interrupted = {}
        THEN thread' = [thread EXCEPT ![th] = Idle]
        ELSE thread' = [thread EXCEPT
                          ![th].pc = "testDelivered",
                          ![th].count = CHOOSE c \in me.interrupted : TRUE,
                          ![th].interrupted = {}]

SetSession(th, field, value) ==
    counters' = [counters EXCEPT ![thread[th].session][field] = value]

\* Slip: the send task is posted before and after the message is changed.
BroadcastTwice(th, type) ==
    LET d == thread[th].datagram
    IN  /\ message' = [message EXCEPT ![d] = [type |-> type, nodeId |-> Self]]
        /\ sendTasks' = [sendTasks EXCEPT ![d] = @ + 2]

(* ReliableBroadcast::broadcast up to its call of processMessage: the      *)
(* message object is changed in place and a send task is posted for it.    *)
Broadcast(th, type) ==
    LET d == thread[th].datagram
    IN  /\ message' = [message EXCEPT ![d] = [type |-> type, nodeId |-> Self]]
        /\ sendTasks' = [sendTasks EXCEPT ![d] = @ + 1]

-----------------------------------------------------------------------------
(* Slips the properties below tell from the code.                          *)

\* addSession does not look again under the unique lock.
AddSessionBlindly(th) ==
    /\ At(th, "addSession")
    /\ pool' = th
    /\ thread' = [thread EXCEPT ![th].pc = "dispatch", ![th].session = th]
    /\ UNCHANGED <<arrived, posted, message, sendTasks, counters, sent, log, connected>>

\* The size of the set is taken before the sender is inserted.
CountReadyBeforeInsert(th) ==
    LET senders == Session(th).readies[Payload(th)]
    IN  /\ At(th, "countReady")
        /\ SetSession(th, "readies", [Session(th).readies EXCEPT
                                        ![Payload(th)] = senders \cup {Sender(th)}])
        /\ thread' = [thread EXCEPT ![th].pc = "testReadySent",
                                    ![th].count = Cardinality(senders)]
        /\ UNCHANGED <<arrived, posted, message, sendTasks, pool, sent, log, connected>>

\* mReadyMessageWasSent is stored, not exchanged.
StoreReadySent(th) ==
    /\ At(th, "exchangeOnReady")
    /\ SetSession(th, "readyData", Payload(th))
    /\ Broadcast(th, "READY")
    /\ thread' = [thread EXCEPT ![th].pc = "getSession",
                                ![th].interrupted = {thread[th].count}]
    /\ UNCHANGED <<arrived, posted, pool, sent, log, connected>>

\* deliver() connects and does not call itself again.
ConnectAndReturn(th) ==
    /\ At(th, "deliver") /\ ~connected
    /\ connected' = TRUE
    /\ Return(th)
    /\ UNCHANGED <<arrived, posted, message, sendTasks, pool, counters, sent, log>>

\* mDelivered is stored, not exchanged.
StoreDelivered(th) ==
    /\ At(th, "exchangeDelivered")
    /\ SetSession(th, "delivered", TRUE)
    /\ Goto(th, "deliver")
    /\ UNCHANGED <<arrived, posted, message, sendTasks, pool, sent, log, connected>>

-----------------------------------------------------------------------------
(* The socket's handler parses a datagram and posts it.                    *)
Arrive(d) ==
    /\ d \notin arrived
    /\ arrived' = arrived \cup {d}
    /\ posted' = posted \cup {d}
    /\ UNCHANGED <<message, sendTasks, pool, counters, thread, sent, log, connected>>

(* A free thread runs a processMessage task.                               *)
StartMessage(th, d) ==
    /\ At(th, "idle") /\ d \in posted
    /\ posted' = posted \ {d}
    /\ thread' = [thread EXCEPT ![th].pc = "getSession", ![th].datagram = d]
    /\ UNCHANGED <<arrived, message, sendTasks, pool, counters, sent, log, connected>>

(* A free thread runs a send task: it encodes the message as it is now.    *)
RunSend(th, d) ==
    /\ At(th, "idle") /\ sendTasks[d] > 0
    /\ sendTasks' = [sendTasks EXCEPT ![d] = @ - 1]
    /\ sent' = sent \cup {[type |-> message[d].type, nodeId |-> message[d].nodeId,
                           data |-> Content[d].data]}
    /\ UNCHANGED <<arrived, posted, message, pool, counters, thread, log, connected>>

(* getSession looks the session up under the shared lock.                  *)
GetSession(th) ==
    /\ At(th, "getSession")
    /\ thread' = [thread EXCEPT
                    ![th].pc = IF pool = NoSession THEN "addSession" ELSE "dispatch",
                    ![th].session = pool]
    /\ UNCHANGED <<arrived, posted, message, sendTasks, pool, counters, sent, log, connected>>

(* addSession has made a session object; under the unique lock it looks    *)
(* again and keeps the one that is there.                                  *)
AddSession(th) ==
    /\ At(th, "addSession")
    /\ pool' = IF pool = NoSession THEN th ELSE pool
    /\ thread' = [thread EXCEPT ![th].pc = "dispatch", ![th].session = pool']
    /\ UNCHANGED <<arrived, posted, message, sendTasks, counters, sent, log, connected>>

(* The type test of Session::processMessage with the flag it loads first.  *)
HandleSend(th) ==
    /\ At(th, "dispatch")
    /\ message[thread[th].datagram].type = "SEND"
    /\ Broadcast(th, "ECHO")
    /\ Goto(th, "getSession")
    /\ UNCHANGED <<arrived, posted, pool, counters, sent, log, connected>>

HandleEcho(th) ==
    /\ At(th, "dispatch")
    /\ message[thread[th].datagram].type = "ECHO"
    /\ IF Session(th).readyData = NoData
       THEN Goto(th, "countEcho")
       ELSE Return(th)
    /\ UNCHANGED <<arrived, posted, message, sendTasks, pool, counters, sent, log, connected>>

HandleReady(th) ==
    /\ At(th, "dispatch")
    /\ message[thread[th].datagram].type = "READY"
    /\ IF ~Session(th).delivered
       THEN Goto(th, "countReady")
       ELSE Return(th)
    /\ UNCHANGED <<arrived, posted, message, sendTasks, pool, counters, sent, log, connected>>

(* Under the mutex of the ECHO counters: insert the sender, take the size. *)
CountEcho(th) ==
    LET senders == Session(th).echoes[Payload(th)] \cup {Sender(th)}
    IN  /\ At(th, "countEcho")
        /\ SetSession(th, "echoes", [Session(th).echoes EXCEPT ![Payload(th)] = senders])
        /\ IF Cardinality(senders) >= EchoTarget
           THEN Goto(th, "exchangeOnEcho")
           ELSE Return(th)
        /\ UNCHANGED <<arrived, posted, message, sendTasks, pool, sent, log, connected>>

(* Exchange mReadyMessageWasSent; who succeeds broadcasts READY.           *)
ExchangeOnEcho(th) ==
    /\ At(th, "exchangeOnEcho")
    /\ IF Session(th).readyData = NoData
       THEN /\ SetSession(th, "readyData", Payload(th))
            /\ Broadcast(th, "READY")
            /\ Goto(th, "getSession")
       ELSE /\ Return(th)
            /\ UNCHANGED <<counters, message, sendTasks>>
    /\ UNCHANGED <<arrived, posted, pool, sent, log, connected>>

CountReady(th) ==
    LET senders == Session(th).readies[Payload(th)] \cup {Sender(th)}
    IN  /\ At(th, "countReady")
        /\ SetSession(th, "readies", [Session(th).readies EXCEPT ![Payload(th)] = senders])
        /\ thread' = [thread EXCEPT ![th].pc = "testReadySent",
                                    ![th].count = Cardinality(senders)]
        /\ UNCHANGED <<arrived, posted, message, sendTasks, pool, sent, log, connected>>

TestReadySent(th) ==
    /\ At(th, "testReadySent")
    /\ IF Session(th).readyData = NoData /\ thread[th].count > t
       THEN Goto(th, "exchangeOnReady")
       ELSE Goto(th, "testDelivered")
    /\ UNCHANGED <<arrived, posted, message, sendTasks, pool, counters, sent, log, connected>>

(* The READY handler broadcasts its own READY before its commit test; its  *)
(* count waits for the nested call to return.                              *)
ExchangeOnReady(th) ==
    /\ At(th, "exchangeOnReady")
    /\ IF Session(th).readyData = NoData
       THEN /\ SetSession(th, "readyData", Payload(th))
            /\ Broadcast(th, "READY")
            /\ thread' = [thread EXCEPT ![th].pc = "getSession",
                                        ![th].interrupted = {thread[th].count}]
       ELSE /\ Goto(th, "testDelivered")
            /\ UNCHANGED <<counters, message, sendTasks>>
    /\ UNCHANGED <<arrived, posted, pool, sent, log, connected>>

TestDelivered(th) ==
    /\ At(th, "testDelivered")
    /\ IF ~Session(th).delivered /\ thread[th].count > DeliverThreshold(t)
       THEN Goto(th, "exchangeDelivered")
       ELSE Return(th)
    /\ UNCHANGED <<arrived, posted, message, sendTasks, pool, counters, sent, log, connected>>

ExchangeDelivered(th) ==
    /\ At(th, "exchangeDelivered")
    /\ IF ~Session(th).delivered
       THEN SetSession(th, "delivered", TRUE) /\ Goto(th, "deliver")
       ELSE Return(th) /\ UNCHANGED counters
    /\ UNCHANGED <<arrived, posted, message, sendTasks, pool, sent, log, connected>>

(* ReliableBroadcast::deliver appends the payload to the chain's list when *)
(* it finds the client connected.                                          *)
Deliver(th) ==
    /\ At(th, "deliver") /\ connected
    /\ log' = Append(log, Payload(th))
    /\ Return(th)
    /\ UNCHANGED <<arrived, posted, message, sendTasks, pool, counters, sent, connected>>

(* Otherwise it connects and calls itself.  An attempt that fails leaves   *)
(* everything as it was, the thread in deliver() included.                 *)
ConnectToRedis(th) ==
    /\ At(th, "deliver") /\ ~connected
    /\ connected' = TRUE
    /\ UNCHANGED nodeVars

(* The connection breaks.                                                  *)
LoseRedis ==
    /\ connected
    /\ connected' = FALSE
    /\ UNCHANGED nodeVars

ThreadStep(th) ==
    \/ \E d \in Datagram : StartMessage(th, d) \/ RunSend(th, d)
    \/ GetSession(th) \/ AddSession(th)
    \/ HandleSend(th) \/ HandleEcho(th) \/ HandleReady(th)
    \/ CountEcho(th) \/ ExchangeOnEcho(th)
    \/ CountReady(th) \/ TestReadySent(th) \/ ExchangeOnReady(th)
    \/ TestDelivered(th) \/ ExchangeDelivered(th) \/ Deliver(th)

Next ==
    \/ \E d \in Datagram : Arrive(d)
    \/ \E th \in Thread : ThreadStep(th) \/ ConnectToRedis(th)
    \/ LoseRedis

Spec == Init /\ [][Next]_vars

(* Every thread of the pool keeps running.  Whether an attempt to connect  *)
(* succeeds is up to Redis.                                                *)
FairSpec == Spec /\ \A th \in Thread : WF_vars(ThreadStep(th))

-----------------------------------------------------------------------------
(* Properties.                                                             *)

Arrived(type, v) ==
    {q \in Node : \E d \in arrived :
        Content[d] = [type |-> type, nodeId |-> q, data |-> v]}

State == IF pool = NoSession THEN NewSession ELSE counters[pool]

(* Whatever its threads do, the node takes only steps NodeContract allows: *)
(* the session object is the one in the pool, READY and commit are decided *)
(* once, on counts that are still covered by the counters when they are    *)
(* acted on, and what is sent is what was decided.                         *)
Contract == INSTANCE NodeContract WITH
    received <- {Content[d] : d \in arrived},
    echoes <- State.echoes, readies <- State.readies,
    readyData <- State.readyData, EchoQuorum <- EchoTarget, Tolerated <- t
KeepsContract == Contract!Spec

(* Senders the node has to count for v: those whose message arrived, and   *)
(* itself when it was asked for an ECHO, or decided READY.                 *)
EchoSenders(v) == Arrived("ECHO", v) \cup {q \in {Self} : Arrived("SEND", v) # {}}
ReadySenders(v) == Arrived("READY", v) \cup {q \in {Self} : State.readyData = v}

Settled == posted = {} /\ \A th \in Thread : At(th, "idle")

(* No interleaving of the counts, the unlocked tests and the exchanges     *)
(* loses a quorum: when everything that arrived was handled, enough ECHOs  *)
(* or READYs have led to a READY and enough READYs to a commit.            *)
SettledQuorums ==
    Settled => \A v \in Data :
        /\ \/ Cardinality(EchoSenders(v)) >= EchoTarget
           \/ Cardinality(ReadySenders(v)) > t
           => State.readyData # NoData
        /\ Cardinality(ReadySenders(v)) > 2 * t => log # <<>>

(* Redis accepts a connection that is asked for again and again, and from  *)
(* some point on does not break it.                                        *)
RedisHolds ==
    /\ \A th \in Thread : WF_vars(ConnectToRedis(th))
    /\ <>[][~LoseRedis]_vars

(* A quorum of READYs ends in a commit while the threads run, if Redis     *)
(* can be reached in the end: it may be down when deliver() is called, and *)
(* break off between the connection and the append.                        *)
QuorumCommits ==
    RedisHolds => \A v \in Data :
        (Cardinality(ReadySenders(v)) > 2 * t) ~> (log # <<>>)
=============================================================================
