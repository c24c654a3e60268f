--------------------------- MODULE NodeThreadsProofs ---------------------------
(* Proof that a node keeps NodeContract however its threads interleave,    *)
(* for any number of threads and any messages, and that they lose no       *)
(* quorum.                                                                 *)
EXTENDS NodeThreads, ThresholdsProofs, FiniteSetTheorems

(* The message object of d is as it was parsed, or broadcast has made it   *)
(* an ECHO of this node, which a SEND asked for, or its READY.             *)
MessageSound(d) ==
    \/ /\ message[d] = [type |-> Content[d].type, nodeId |-> Content[d].nodeId]
       /\ sendTasks[d] = 0
    \/ /\ message[d] = [type |-> "ECHO", nodeId |-> Self]
       /\ sendTasks[d] <= 1
       /\ d \in arrived /\ Content[d].type = "SEND"
    \/ /\ message[d] = [type |-> "READY", nodeId |-> Self]
       /\ State.readyData = Content[d].data

HandlesEcho == {"countEcho", "exchangeOnEcho"}
HandlesReady == {"countReady", "testReadySent", "exchangeOnReady",
                 "testDelivered", "exchangeDelivered", "deliver"}
InSession == {"dispatch"} \cup HandlesEcho \cup HandlesReady

\* READYs of the thread's payload that the session counts.
Readies(th) == Cardinality(State.readies[Payload(th)])

(* What a thread has read still holds when it acts on it: its session is   *)
(* the one in the pool, its message has the type it was tested for, and    *)
(* the counters cover what it counted.                                     *)
ThreadSound(th) ==
    LET me == thread[th]
    IN  /\ me.pc = "idle" => me = Idle
        /\ me.pc # "idle" => me.datagram \in arrived \ posted
        /\ me.pc \in InSession => me.session = pool /\ pool # NoSession
        /\ me.pc \in HandlesEcho => message[me.datagram].type = "ECHO"
        /\ me.pc \in HandlesReady \/ me.interrupted # {}
              => message[me.datagram].type = "READY"
        /\ me.pc = "exchangeOnEcho"
              => Cardinality(State.echoes[Payload(th)]) >= EchoTarget
        /\ me.pc \in HandlesReady \ {"countReady"} => me.count <= Readies(th)
        /\ \A c \in me.interrupted : c <= Readies(th)
        /\ me.pc = "exchangeOnReady" => me.count > t
        /\ me.pc \in {"exchangeDelivered", "deliver"}
              => me.count > DeliverThreshold(t)
        /\ me.pc = "deliver" => State.delivered /\ log = <<>>

\* No two threads handle one message, and one delivers at most.
Apart ==
    \A th, u \in Thread :
        th # u /\ thread[th].pc # "idle" =>
            /\ thread[u].datagram # thread[th].datagram
            /\ ~(thread[th].pc = "deliver" /\ thread[u].pc = "deliver")

SessionSound ==
    /\ \A s \in Thread : s # pool => counters[s] = NewSession
    /\ \A v \in Data : Self \in State.readies[v] => State.readyData = v
    /\ State.delivered \/ log = <<>>

ThreadsInv ==
    /\ NodeTypeOK
    /\ \A d \in Datagram : MessageSound(d)
    /\ \A th \in Thread : ThreadSound(th)
    /\ Apart
    /\ SessionSound

-----------------------------------------------------------------------------
(* Facts about the node's numbers.                                         *)

LEMMA SetSize ==
    ASSUME NEW S \in SUBSET Node
    PROVE  /\ IsFiniteSet(S) /\ Cardinality(S) \in Counts
           /\ Cardinality(S) \in Nat
           /\ \A R \in SUBSET S : Cardinality(R) \in Nat
                                  /\ Cardinality(R) <= Cardinality(S)
<1>1. IsFiniteSet(Node) /\ Cardinality(Node) \in Nat
  BY ThreadAssumption, FS_CardinalityType
<1>2. IsFiniteSet(S) /\ Cardinality(S) <= Cardinality(Node)
  BY <1>1, FS_Subset
<1>3. Cardinality(S) \in Nat
  BY <1>2, FS_CardinalityType
<1>4. ASSUME NEW R \in SUBSET S
      PROVE  Cardinality(R) \in Nat /\ Cardinality(R) <= Cardinality(S)
  BY <1>2, FS_Subset, FS_CardinalityType
<1>5. QED
  BY <1>1, <1>2, <1>3, <1>4 DEF Counts

LEMMA NodeNumbers ==
    /\ t \in Nat /\ EchoTarget \in Nat
    /\ DeliverThreshold(t) = 2 * t
<1> DEFINE N == Cardinality(Node)
<1>1. N \in Nat /\ N # 0
  BY ThreadAssumption, FS_CardinalityType, FS_EmptySet
<1>2. 3 * N < SIZE_MOD
  BY ThreadAssumption
<1>3. t = GetT(N) /\ EchoTarget = GetEchoMessageCountTarget(N, GetT(N))
  BY DEF t, EchoTarget
<1> HIDE DEF N
<1>4. N < SIZE_MOD
  BY <1>1, <1>2, SizeAssumption
<1>5. QED
  BY <1>1, <1>2, <1>3, <1>4, GetTIsLargest, EchoQuorumsShareMoreThanT,
     ReadyQuorumReachable

-----------------------------------------------------------------------------
(* The session of the pool, and how a thread changes it.                   *)

SessionType == [echoes: [Data -> SUBSET Node], readies: [Data -> SUBSET Node],
                readyData: Data \cup {NoData}, delivered: BOOLEAN]

LEMMA StateType ==
    /\ NodeTypeOK => State \in SessionType
    /\ NodeTypeOK' => State' \in SessionType
<1>1. NewSession \in SessionType
  BY DEF NewSession, SessionType
<1>2. NodeTypeOK /\ pool # NoSession => counters[pool] \in SessionType
  BY DEF NodeTypeOK, SessionType
<1>3. NodeTypeOK' /\ pool' # NoSession => counters'[pool'] \in SessionType
  BY DEF NodeTypeOK, SessionType
<1>4. QED
  BY <1>1, <1>2, <1>3 DEF State

\* A thread in the session works on the one in the pool.
LEMMA SessionIsState ==
    ASSUME ThreadsInv, NEW th \in Thread, thread[th].pc \in InSession
    PROVE  /\ thread[th].session = pool /\ pool \in Thread /\ pool # NoSession
           /\ Session(th) = State
  BY ThreadAssumption DEF ThreadsInv, NodeTypeOK, ThreadSound, Session, State

LEMMA SetSessionEffect ==
    ASSUME ThreadsInv, NEW th \in Thread, thread[th].pc \in InSession,
           NEW field, NEW value, SetSession(th, field, value), pool' = pool
    PROVE  /\ State' = [State EXCEPT ![field] = value]
           /\ \A s \in Thread : s # pool' => counters'[s] = counters[s]
           /\ State' \in SessionType
                 => counters' \in [Thread -> SessionType]
<1>1. /\ thread[th].session = pool /\ pool \in Thread /\ pool # NoSession
      /\ State = counters[pool]
  BY SessionIsState DEF Session
<1>2. counters \in [Thread -> SessionType]
  BY DEF ThreadsInv, NodeTypeOK, SessionType
<1>3. counters' = [counters EXCEPT ![pool][field] = value]
  BY <1>1 DEF SetSession
<1>4. State' = counters'[pool]
  BY <1>1 DEF State
<1>5. QED
  BY <1>1, <1>2, <1>3, <1>4

(* What the session never takes back.                                      *)
SessionGrows ==
    /\ pool # NoSession => pool' = pool
    /\ \A v \in Data : State.echoes[v] \subseteq State'.echoes[v]
    /\ \A v \in Data : State.readies[v] \subseteq State'.readies[v]
    /\ State.readyData # NoData => State'.readyData = State.readyData
    /\ State.delivered => State'.delivered

LEMMA SameSession ==
    ASSUME pool' = pool, counters' = counters
    PROVE  State' = State /\ SessionGrows
  BY DEF State, SessionGrows

-----------------------------------------------------------------------------
(* A thread that takes no step is not disturbed by one that does.          *)

LEMMA CountsGrow ==
    ASSUME ThreadsInv, NodeTypeOK', SessionGrows,
           NEW u \in Thread, thread[u].pc # "idle", NEW v, v = Payload(u)
    PROVE  /\ thread[u].datagram \in Datagram /\ v \in Data
           /\ thread[u].count \in Nat
           /\ \A c \in thread[u].interrupted : c \in Nat
           /\ Cardinality(State.echoes[v]) \in Nat
           /\ Cardinality(State'.echoes[v]) \in Nat
           /\ Cardinality(State.echoes[v]) <= Cardinality(State'.echoes[v])
           /\ Readies(u) \in Nat
           /\ Cardinality(State'.readies[v]) \in Nat
           /\ Readies(u) <= Cardinality(State'.readies[v])
<1> DEFINE me == thread[u]
<1>1. me.datagram \in Datagram /\ me.count \in Nat
      /\ \A c \in me.interrupted : c \in Nat
  <2>1. Cardinality(Node) \in Nat
    BY SetSize
  <2>2. me.count \in Counts /\ me.interrupted \in SUBSET Counts
    BY DEF ThreadsInv, NodeTypeOK
  <2>3. me.datagram \in Datagram
    BY DEF ThreadsInv, NodeTypeOK, ThreadSound
  <2>4. QED
    BY <2>1, <2>2, <2>3 DEF Counts
<1>2. v \in Data
  BY <1>1, ThreadAssumption DEF Payload
<1>3. State \in SessionType /\ State' \in SessionType
  BY StateType DEF ThreadsInv
<1>4. /\ State.echoes[v] \in SUBSET State'.echoes[v]
      /\ State.readies[v] \in SUBSET State'.readies[v]
      /\ State'.echoes[v] \in SUBSET Node /\ State'.readies[v] \in SUBSET Node
  BY <1>2, <1>3 DEF SessionGrows, SessionType
<1>5. QED
  BY <1>1, <1>2, <1>4, SetSize DEF Readies

LEMMA Undisturbed ==
    ASSUME ThreadsInv, NodeTypeOK', SessionGrows,
           NEW u \in Thread, thread'[u] = thread[u],
           thread[u].pc # "idle"
              => /\ message'[thread[u].datagram] = message[thread[u].datagram]
                 /\ thread[u].datagram \in arrived' \ posted',
           thread[u].pc = "deliver" => log' = log
    PROVE  ThreadSound(u)'
<1> DEFINE me == thread[u]
           v == Payload(u)
<1>1. ThreadSound(u)
  BY DEF ThreadsInv
<1>2. Payload(u)' = v
  BY DEF Payload
<1>3. CASE me.pc = "idle"
  <2>1. thread'[u] = Idle
    BY <1>1, <1>3 DEF ThreadSound
  <2>2. Idle.pc = "idle" /\ Idle.interrupted = {}
    BY DEF Idle
  <2>3. QED
    BY <2>1, <2>2 DEF ThreadSound, InSession, HandlesEcho, HandlesReady
<1>4. CASE me.pc # "idle"
  <2>1. /\ me.count \in Nat /\ \A c \in me.interrupted : c \in Nat
        /\ Cardinality(State.echoes[v]) <= Cardinality(State'.echoes[v])
        /\ Cardinality(State.echoes[v]) \in Nat
        /\ Cardinality(State'.echoes[v]) \in Nat
        /\ Readies(u) <= Readies(u)' /\ Readies(u) \in Nat /\ Readies(u)' \in Nat
    BY <1>2, <1>4, CountsGrow DEF Readies
  <2>2. me.pc = "exchangeOnEcho" => Cardinality(State'.echoes[v]) >= EchoTarget
    BY <1>1, <2>1, NodeNumbers DEF ThreadSound
  <2>3. /\ me.pc \in HandlesReady \ {"countReady"} => me.count <= Readies(u)'
        /\ \A c \in me.interrupted : c <= Readies(u)'
    BY <1>1, <2>1 DEF ThreadSound
  <2>4. me.pc \in InSession => me.session = pool' /\ pool' # NoSession
    BY <1>1 DEF ThreadSound, SessionGrows
  <2>5. /\ me.pc \in HandlesEcho => message'[me.datagram].type = "ECHO"
        /\ me.pc \in HandlesReady \/ me.interrupted # {}
              => message'[me.datagram].type = "READY"
    BY <1>1, <1>4 DEF ThreadSound
  <2>6. /\ me.pc = "exchangeOnReady" => me.count > t
        /\ me.pc \in {"exchangeDelivered", "deliver"} => me.count > DeliverThreshold(t)
        /\ me.pc = "deliver" => State'.delivered /\ log' = <<>>
    BY <1>1 DEF ThreadSound, SessionGrows
  <2>7. QED
    BY <1>2, <1>4, <2>2, <2>3, <2>4, <2>5, <2>6 DEF ThreadSound
<1>5. QED
  BY <1>3, <1>4

-----------------------------------------------------------------------------
(* How the thread that takes the step moves.                               *)

ThreadRecord == [pc: Steps, datagram: Datagram \cup {NoDatagram},
                 session: Thread \cup {NoSession}, count: Counts,
                 interrupted: SUBSET Counts]

MovesTo(th, me) ==
    /\ me \in ThreadRecord
    /\ thread' = [thread EXCEPT ![th] = me]

LEMMA IdleRecord ==
    /\ Idle \in ThreadRecord /\ Idle.pc = "idle" /\ Idle.interrupted = {}
    /\ Idle.datagram = NoDatagram
<1>1. 0 \in Counts
  BY ThreadAssumption, FS_CardinalityType DEF Counts
<1>2. QED
  BY <1>1 DEF Idle, ThreadRecord, Steps

LEMMA GotoMoves ==
    ASSUME NodeTypeOK, NEW th \in Thread, NEW step \in Steps, Goto(th, step)
    PROVE  MovesTo(th, [thread[th] EXCEPT !.pc = step])
<1>1. thread \in [Thread -> ThreadRecord]
  BY DEF NodeTypeOK, ThreadRecord
<1>2. [thread[th] EXCEPT !.pc = step] \in ThreadRecord
  BY <1>1 DEF ThreadRecord
<1>3. QED
  BY <1>1, <1>2 DEF Goto, MovesTo

\* A thread that returned to a READY handler whose count was c.
Resumed(th, c) ==
    [thread[th] EXCEPT !.pc = "testDelivered", !.count = c, !.interrupted = {}]

LEMMA ReturnMoves ==
    ASSUME NodeTypeOK, NEW th \in Thread, Return(th)
    PROVE  \/ MovesTo(th, Idle)
           \/ \E c \in thread[th].interrupted : MovesTo(th, Resumed(th, c))
<1>1. thread \in [Thread -> ThreadRecord]
  BY DEF NodeTypeOK, ThreadRecord
<1>2. CASE thread[th].interrupted = {}
  BY <1>1, <1>2, IdleRecord DEF Return, MovesTo
<1>3. CASE thread[th].interrupted # {}
  <2> DEFINE c == CHOOSE c \in thread[th].interrupted : TRUE
  <2>1. c \in thread[th].interrupted
    BY <1>3
  <2>2. c \in Counts
    BY <1>1, <2>1 DEF ThreadRecord
  <2>3. thread' = [thread EXCEPT ![th].pc = "testDelivered", ![th].count = c,
                                 ![th].interrupted = {}]
    BY <1>3 DEF Return
  <2> HIDE DEF c
  <2>4. Resumed(th, c) \in ThreadRecord
    BY <1>1, <2>2 DEF Resumed, ThreadRecord, Steps
  <2>5. thread' = [thread EXCEPT ![th] = Resumed(th, c)]
    BY <1>1, <2>3 DEF Resumed
  <2>6. QED
    BY <2>1, <2>4, <2>5 DEF MovesTo
<1>4. QED
  BY <1>2, <1>3

LEMMA IdleIsSound ==
    ASSUME NEW th \in Thread, thread'[th] = Idle
    PROVE  ThreadSound(th)'
  BY IdleRecord DEF ThreadSound, InSession, HandlesEcho, HandlesReady

(* A thread that returns has nothing left to rely on, or goes on with the  *)
(* count of the handler it returns to.                                     *)
LEMMA ReturnIsSound ==
    ASSUME ThreadsInv, NodeTypeOK', SessionGrows, pool' = pool,
           NEW th \in Thread, thread[th].pc \in InSession, Return(th),
           message'[thread[th].datagram] = message[thread[th].datagram],
           UNCHANGED <<arrived, posted>>
    PROVE  ThreadSound(th)'
<1> DEFINE d == thread[th].datagram
<1>1. NodeTypeOK /\ ThreadSound(th)
  BY DEF ThreadsInv
<1>2. thread \in [Thread -> ThreadRecord]
  BY <1>1 DEF NodeTypeOK, ThreadRecord
<1>3. CASE MovesTo(th, Idle)
  <2>1. thread'[th] = Idle
    BY <1>2, <1>3 DEF MovesTo
  <2>2. QED
    BY <2>1, IdleIsSound
<1>4. ASSUME NEW c \in thread[th].interrupted, MovesTo(th, Resumed(th, c))
      PROVE  ThreadSound(th)'
  <2>1. /\ thread'[th] = Resumed(th, c)
        /\ thread'[th].pc = "testDelivered" /\ thread'[th].datagram = d
        /\ thread'[th].session = thread[th].session
        /\ thread'[th].count = c /\ thread'[th].interrupted = {}
    BY <1>2, <1>4 DEF MovesTo, Resumed, ThreadRecord
  <2>2. thread[th].pc # "idle"
    BY DEF InSession, HandlesEcho, HandlesReady
  <2>3. Payload(th)' = Payload(th)
    BY <2>1 DEF Payload
  <2>4. c <= Readies(th)'
    <3>1. c <= Readies(th)
      BY <1>1 DEF ThreadSound
    <3>2. c \in Nat /\ Readies(th) \in Nat /\ Readies(th)' \in Nat
          /\ Readies(th) <= Readies(th)'
      BY <2>2, <2>3, CountsGrow DEF Readies
    <3>3. QED
      BY <3>1, <3>2
  <2>5. d \in arrived' \ posted' /\ message'[d].type = "READY"
    BY <1>1, <2>2 DEF ThreadSound
  <2>6. thread'[th].session = pool' /\ pool' # NoSession
    BY <1>1, <2>1 DEF ThreadSound
  <2>7. QED
    BY <2>1, <2>4, <2>5, <2>6 DEF ThreadSound, HandlesEcho
<1>5. QED
  BY <1>1, <1>3, <1>4, ReturnMoves

(* A step of a thread that is sound itself and moves on with its message,  *)
(* or lets go of it, keeps the invariant.                                  *)
LEMMA StepKeepsInv ==
    ASSUME ThreadsInv, NodeTypeOK', SessionGrows, NEW th \in Thread, NEW me,
           MovesTo(th, me), thread[th].pc # "idle",
           me = Idle \/ me.datagram = thread[th].datagram,
           me.pc = "deliver" => ~State.delivered,
           UNCHANGED <<arrived, posted>>,
           \A d \in Datagram : d # thread[th].datagram => message'[d] = message[d],
           log' = log \/ thread[th].pc = "deliver",
           \A d \in Datagram : MessageSound(d)', ThreadSound(th)', SessionSound'
    PROVE  ThreadsInv'
<1>1. thread \in [Thread -> ThreadRecord]
  BY DEF ThreadsInv, NodeTypeOK, ThreadRecord
<1>2. thread'[th] = me /\ \A u \in Thread : u # th => thread'[u] = thread[u]
  BY <1>1 DEF MovesTo
<1>3. ASSUME NEW u \in Thread, u # th PROVE ThreadSound(u)'
  <2>1. thread[u].datagram # thread[th].datagram
        /\ ~(thread[th].pc = "deliver" /\ thread[u].pc = "deliver")
    BY <1>3 DEF ThreadsInv, Apart
  <2>2. thread[u].pc # "idle" => /\ thread[u].datagram \in arrived \ posted
                                 /\ thread[u].datagram \in Datagram
    BY DEF ThreadsInv, NodeTypeOK, ThreadSound
  <2>3. QED
    BY <1>2, <1>3, <2>1, <2>2, Undisturbed
<1>4. Apart'
  <2> SUFFICES ASSUME NEW u \in Thread, NEW w \in Thread, u # w,
                      thread'[u].pc # "idle"
               PROVE  /\ thread'[w].datagram # thread'[u].datagram
                      /\ ~(thread'[u].pc = "deliver" /\ thread'[w].pc = "deliver")
    BY DEF Apart
  <2>1. \A x \in Thread : x # th => thread[x].datagram # thread[th].datagram
    BY DEF ThreadsInv, Apart
  <2>2. \A x \in Thread : thread[x].pc = "deliver" => State.delivered
    BY DEF ThreadsInv, ThreadSound
  <2>3. \A x \in Thread : thread[x].pc # "idle" => thread[x].datagram # NoDatagram
    BY ThreadAssumption DEF ThreadsInv, NodeTypeOK, ThreadSound
  <2>4. CASE u # th /\ w # th
    BY <1>2, <2>4 DEF ThreadsInv, Apart
  <2>5. CASE u = th
    <3>1. me # Idle
      BY <1>2, <2>5, IdleRecord
    <3>2. QED
      BY <1>2, <2>1, <2>2, <2>5, <3>1
  <2>6. CASE w = th
    BY <1>2, <2>1, <2>2, <2>3, <2>6, IdleRecord
  <2>7. QED
    BY <2>4, <2>5, <2>6
<1>5. \A u \in Thread : ThreadSound(u)'
  BY <1>3
<1>6. QED
  BY <1>4, <1>5 DEF ThreadsInv

(* A thread that goes on with its message may rely on what it just read.   *)
LEMMA GoesOnSound ==
    ASSUME ThreadsInv, NodeTypeOK', SessionGrows,
           NEW th \in Thread, thread[th].pc # "idle", NEW me, me = thread'[th],
           me.pc # "idle", me.datagram = thread[th].datagram,
           me.interrupted = thread[th].interrupted,
           UNCHANGED <<arrived, posted>>,
           message'[me.datagram] = message[me.datagram],
           me.pc \in InSession => me.session = pool' /\ pool' # NoSession,
           me.pc \in HandlesEcho => message[me.datagram].type = "ECHO",
           me.pc \in HandlesReady => message[me.datagram].type = "READY",
           me.pc = "exchangeOnEcho"
              => Cardinality(State'.echoes[Payload(th)]) >= EchoTarget,
           me.pc \in HandlesReady \ {"countReady"}
              => me.count <= Cardinality(State'.readies[Payload(th)]),
           me.pc = "exchangeOnReady" => me.count > t,
           me.pc \in {"exchangeDelivered", "deliver"}
              => me.count > DeliverThreshold(t),
           me.pc = "deliver" => State'.delivered /\ log' = <<>>
    PROVE  ThreadSound(th)'
<1>1. ThreadSound(th)
  BY DEF ThreadsInv
<1>2. Payload(th)' = Payload(th)
  BY DEF Payload
<1>3. \A c \in me.interrupted : c <= Readies(th)'
  <2>1. /\ \A c \in me.interrupted : c \in Nat /\ c <= Readies(th)
        /\ Readies(th) \in Nat /\ Readies(th)' \in Nat
        /\ Readies(th) <= Readies(th)'
    BY <1>1, <1>2, CountsGrow DEF Readies, ThreadSound
  <2>2. QED
    BY <2>1
<1>4. me.datagram \in arrived' \ posted'
  BY <1>1 DEF ThreadSound
<1>5. me.pc \in HandlesReady \/ me.interrupted # {}
         => message'[me.datagram].type = "READY"
  BY <1>1 DEF ThreadSound
<1>6. QED
  BY <1>2, <1>3, <1>4, <1>5 DEF ThreadSound, Readies

-----------------------------------------------------------------------------
(* Steps that only move the thread.                                        *)

Others == <<arrived, posted, message, sendTasks, pool, counters, sent, log>>

LEMMA LocalType ==
    ASSUME ThreadsInv, UNCHANGED Others, NEW th \in Thread, NEW me, MovesTo(th, me)
    PROVE  /\ NodeTypeOK' /\ SessionGrows /\ State' = State /\ SessionSound'
           /\ \A d \in Datagram : MessageSound(d)'
<1>1. State' = State /\ SessionGrows
  BY SameSession DEF Others
<1>2. thread' \in [Thread -> ThreadRecord]
  BY DEF MovesTo, ThreadsInv, NodeTypeOK, ThreadRecord
<1>3. NodeTypeOK'
  BY <1>2 DEF Others, ThreadsInv, NodeTypeOK, ThreadRecord
<1>4. SessionSound'
  BY <1>1 DEF Others, ThreadsInv, SessionSound
<1>5. ASSUME NEW d \in Datagram PROVE MessageSound(d)'
  BY <1>1 DEF Others, ThreadsInv, MessageSound
<1>6. QED
  BY <1>1, <1>3, <1>4, <1>5

LEMMA LocalKeepsInv ==
    ASSUME ThreadsInv, UNCHANGED Others, NEW th \in Thread, NEW me,
           MovesTo(th, me), thread[th].pc # "idle",
           me = Idle \/ me.datagram = thread[th].datagram,
           me.pc # "deliver", ThreadSound(th)'
    PROVE  ThreadsInv'
  BY LocalType, StepKeepsInv DEF Others

LEMMA Moved ==
    ASSUME NodeTypeOK, NEW th \in Thread, NEW me, MovesTo(th, me)
    PROVE  thread'[th] = me
  BY DEF MovesTo, NodeTypeOK

LEMMA ReturnKeepsInv ==
    ASSUME ThreadsInv, UNCHANGED Others, NEW th \in Thread,
           thread[th].pc \in InSession, Return(th)
    PROVE  ThreadsInv'
<1>1. NodeTypeOK /\ pool' = pool /\ UNCHANGED <<arrived, posted>> /\ message' = message
  BY DEF ThreadsInv, Others
<1>2. thread[th].pc # "idle"
  BY DEF InSession, HandlesEcho, HandlesReady
<1>3. CASE MovesTo(th, Idle)
  <2>1. ThreadSound(th)'
    BY <1>1, <1>3, Moved, IdleIsSound
  <2>2. QED
    BY <1>2, <1>3, <2>1, IdleRecord, LocalKeepsInv
<1>4. ASSUME NEW c \in thread[th].interrupted, MovesTo(th, Resumed(th, c))
      PROVE  ThreadsInv'
  <2>1. ThreadSound(th)'
    BY <1>1, <1>4, LocalType, ReturnIsSound
  <2>2. thread[th] \in ThreadRecord
    BY <1>1 DEF NodeTypeOK, ThreadRecord
  <2>3. Resumed(th, c).datagram = thread[th].datagram
        /\ Resumed(th, c).pc # "deliver"
    BY <2>2 DEF Resumed, ThreadRecord
  <2>4. QED
    BY <1>2, <1>4, <2>1, <2>3, LocalKeepsInv
<1>5. QED
  BY <1>1, <1>3, <1>4, ReturnMoves

LEMMA GotoKeepsInv ==
    ASSUME ThreadsInv, UNCHANGED Others, NEW th \in Thread, NEW step \in Steps,
           thread[th].pc \in InSession, Goto(th, step),
           step \in InSession \ {"exchangeOnEcho", "deliver"},
           step \in HandlesEcho => message[thread[th].datagram].type = "ECHO",
           step \in HandlesReady => message[thread[th].datagram].type = "READY",
           step \in HandlesReady \ {"countReady"} => thread[th].count <= Readies(th),
           step = "exchangeOnReady" => thread[th].count > t,
           step = "exchangeDelivered" => thread[th].count > DeliverThreshold(t)
    PROVE  ThreadsInv'
<1> DEFINE me == [thread[th] EXCEPT !.pc = step]
<1>1. NodeTypeOK /\ ThreadSound(th)
  BY DEF ThreadsInv
<1>2. MovesTo(th, me)
  BY <1>1, GotoMoves
<1>3. thread[th] \in ThreadRecord
  BY <1>1 DEF NodeTypeOK, ThreadRecord
<1>4. /\ me.pc = step /\ me.datagram = thread[th].datagram
      /\ me.session = thread[th].session /\ me.count = thread[th].count
      /\ me.interrupted = thread[th].interrupted
  BY <1>3 DEF ThreadRecord
<1> HIDE DEF me
<1>5. thread'[th] = me
  BY <1>1, <1>2, Moved
<1>6. step # "idle" /\ thread[th].pc # "idle"
  BY DEF InSession, HandlesEcho, HandlesReady
<1>7. NodeTypeOK' /\ SessionGrows /\ State' = State
  BY <1>2, LocalType
<1>8. me.session = pool /\ pool # NoSession
  BY <1>4, SessionIsState
<1>9. ThreadSound(th)'
  BY <1>4, <1>5, <1>6, <1>7, <1>8, GoesOnSound DEF Others, Readies
<1>10. QED
  BY <1>2, <1>4, <1>6, <1>9, LocalKeepsInv

LEMMA HandleEchoKeepsInv ==
    ASSUME ThreadsInv, NEW th \in Thread, HandleEcho(th) PROVE ThreadsInv'
<1>1. UNCHANGED Others /\ thread[th].pc \in InSession
  BY DEF HandleEcho, Others, At, InSession
<1>2. CASE Goto(th, "countEcho")
  BY <1>1, <1>2, GotoKeepsInv
  DEF HandleEcho, Steps, InSession, HandlesEcho, HandlesReady
<1>3. CASE Return(th)
  BY <1>1, <1>3, ReturnKeepsInv
<1>4. QED
  BY <1>2, <1>3 DEF HandleEcho

LEMMA HandleReadyKeepsInv ==
    ASSUME ThreadsInv, NEW th \in Thread, HandleReady(th) PROVE ThreadsInv'
<1>1. UNCHANGED Others /\ thread[th].pc \in InSession
  BY DEF HandleReady, Others, At, InSession
<1>2. CASE Goto(th, "countReady")
  BY <1>1, <1>2, GotoKeepsInv
  DEF HandleReady, Steps, InSession, HandlesEcho, HandlesReady
<1>3. CASE Return(th)
  BY <1>1, <1>3, ReturnKeepsInv
<1>4. QED
  BY <1>2, <1>3 DEF HandleReady

LEMMA TestReadySentKeepsInv ==
    ASSUME ThreadsInv, NEW th \in Thread, TestReadySent(th) PROVE ThreadsInv'
<1>1. UNCHANGED Others /\ thread[th].pc = "testReadySent"
  BY DEF TestReadySent, Others, At
<1>2. thread[th].pc \in InSession /\ thread[th].pc \in HandlesReady \ {"countReady"}
  BY <1>1 DEF InSession, HandlesReady
<1>3. /\ message[thread[th].datagram].type = "READY"
      /\ thread[th].count <= Readies(th)
  BY <1>2 DEF ThreadsInv, ThreadSound
<1>4. CASE thread[th].count > t /\ Goto(th, "exchangeOnReady")
  BY <1>1, <1>2, <1>3, <1>4, GotoKeepsInv DEF Steps, InSession, HandlesEcho, HandlesReady
<1>5. CASE Goto(th, "testDelivered")
  BY <1>1, <1>2, <1>3, <1>5, GotoKeepsInv DEF Steps, InSession, HandlesEcho, HandlesReady
<1>6. QED
  BY <1>4, <1>5 DEF TestReadySent

LEMMA TestDeliveredKeepsInv ==
    ASSUME ThreadsInv, NEW th \in Thread, TestDelivered(th) PROVE ThreadsInv'
<1>1. UNCHANGED Others /\ thread[th].pc = "testDelivered"
  BY DEF TestDelivered, Others, At
<1>2. thread[th].pc \in InSession /\ thread[th].pc \in HandlesReady \ {"countReady"}
  BY <1>1 DEF InSession, HandlesReady
<1>3. /\ message[thread[th].datagram].type = "READY"
      /\ thread[th].count <= Readies(th)
  BY <1>2 DEF ThreadsInv, ThreadSound
<1>4. CASE /\ thread[th].count > DeliverThreshold(t)
           /\ Goto(th, "exchangeDelivered")
  BY <1>1, <1>2, <1>3, <1>4, GotoKeepsInv DEF Steps, InSession, HandlesEcho, HandlesReady
<1>5. CASE Return(th)
  BY <1>1, <1>2, <1>5, ReturnKeepsInv
<1>6. QED
  BY <1>4, <1>5 DEF TestDelivered

LEMMA GetSessionKeepsInv ==
    ASSUME ThreadsInv, NEW th \in Thread, GetSession(th) PROVE ThreadsInv'
<1> DEFINE step == IF pool = NoSession THEN "addSession" ELSE "dispatch"
           me == [thread[th] EXCEPT !.pc = step, !.session = pool]
<1>1. UNCHANGED Others /\ NodeTypeOK /\ thread[th].pc = "getSession"
  BY DEF GetSession, Others, ThreadsInv, At
<1>2. thread[th] \in ThreadRecord /\ pool \in Thread \cup {NoSession}
  BY <1>1 DEF NodeTypeOK, ThreadRecord
<1>3. step \in Steps /\ step \in {"addSession", "dispatch"}
      /\ (step = "dispatch" => pool # NoSession)
  BY DEF Steps
<1>4. thread' = [thread EXCEPT ![th].pc = step, ![th].session = pool]
  BY DEF GetSession
<1> HIDE DEF step
<1>5. MovesTo(th, me)
  <2>1. me \in ThreadRecord
    BY <1>2, <1>3 DEF ThreadRecord
  <2>2. thread' = [thread EXCEPT ![th] = me]
    BY <1>1, <1>4 DEF NodeTypeOK
  <2>3. QED
    BY <2>1, <2>2 DEF MovesTo
<1>6. /\ me.pc = step /\ me.datagram = thread[th].datagram
      /\ me.session = pool /\ me.interrupted = thread[th].interrupted
  BY <1>2 DEF ThreadRecord
<1> HIDE DEF me
<1>7. thread'[th] = me /\ NodeTypeOK' /\ SessionGrows
  BY <1>1, <1>5, Moved, LocalType
<1>8. ThreadSound(th)'
  <2>1. /\ me.pc # "idle" /\ me.pc \notin HandlesEcho /\ me.pc \notin HandlesReady
        /\ me.pc \notin {"exchangeOnEcho", "exchangeOnReady",
                         "exchangeDelivered", "deliver"}
        /\ me.pc \in InSession => pool # NoSession
    BY <1>3, <1>6 DEF InSession, HandlesEcho, HandlesReady
  <2>2. pool' = pool /\ message' = message /\ UNCHANGED <<arrived, posted>>
    BY <1>1 DEF Others
  <2>3. QED
    BY <1>1, <1>6, <1>7, <2>1, <2>2, GoesOnSound
<1>9. QED
  BY <1>1, <1>3, <1>5, <1>6, <1>8, LocalKeepsInv

-----------------------------------------------------------------------------
(* Messages come, and are taken up.                                        *)

LEMMA ArriveKeepsInv ==
    ASSUME ThreadsInv, NEW d \in Datagram, Arrive(d) PROVE ThreadsInv'
<1>1. /\ arrived' = arrived \cup {d} /\ posted' = posted \cup {d}
      /\ d \notin arrived
      /\ UNCHANGED <<message, sendTasks, pool, counters, thread, sent, log>>
  BY DEF Arrive
<1>2. State' = State /\ SessionGrows
  BY <1>1, SameSession
<1>3. NodeTypeOK'
  BY <1>1 DEF ThreadsInv, NodeTypeOK
<1>4. SessionSound' /\ Apart'
  BY <1>1, <1>2 DEF ThreadsInv, SessionSound, Apart
<1>5. ASSUME NEW e \in Datagram PROVE MessageSound(e)'
  BY <1>1, <1>2 DEF ThreadsInv, MessageSound
<1>6. ASSUME NEW u \in Thread PROVE ThreadSound(u)'
  <2>1. thread[u].pc # "idle" => thread[u].datagram \in arrived' \ posted'
    BY <1>1 DEF ThreadsInv, ThreadSound
  <2>2. QED
    BY <1>1, <1>2, <1>3, <2>1, Undisturbed
<1>7. QED
  BY <1>3, <1>4, <1>5, <1>6 DEF ThreadsInv

LEMMA StartMessageKeepsInv ==
    ASSUME ThreadsInv, NEW th \in Thread, NEW d \in Datagram, StartMessage(th, d)
    PROVE  ThreadsInv'
<1> DEFINE me == [thread[th] EXCEPT !.pc = "getSession", !.datagram = d]
<1>1. /\ thread[th].pc = "idle" /\ d \in posted /\ posted' = posted \ {d}
      /\ thread' = [thread EXCEPT ![th].pc = "getSession", ![th].datagram = d]
      /\ UNCHANGED <<arrived, message, sendTasks, pool, counters, sent, log>>
  BY DEF StartMessage, At
<1>2. State' = State /\ SessionGrows
  BY <1>1, SameSession
<1>3. thread \in [Thread -> ThreadRecord] /\ thread[th] = Idle
  BY <1>1 DEF ThreadsInv, NodeTypeOK, ThreadRecord, ThreadSound
<1>4. /\ me \in ThreadRecord /\ thread' = [thread EXCEPT ![th] = me]
      /\ me.pc = "getSession" /\ me.datagram = d /\ me.interrupted = {}
  BY <1>1, <1>3, IdleRecord DEF ThreadRecord, Steps
<1> HIDE DEF me
<1>5. thread'[th] = me /\ \A u \in Thread : u # th => thread'[u] = thread[u]
  BY <1>3, <1>4
<1>6. NodeTypeOK'
  <2>1. thread' \in [Thread -> ThreadRecord]
    BY <1>3, <1>4
  <2>2. QED
    BY <1>1, <2>1 DEF ThreadsInv, NodeTypeOK, ThreadRecord
<1>7. SessionSound'
  BY <1>1, <1>2 DEF ThreadsInv, SessionSound
<1>8. ASSUME NEW e \in Datagram PROVE MessageSound(e)'
  BY <1>1, <1>2 DEF ThreadsInv, MessageSound
<1>9. ASSUME NEW u \in Thread, u # th, thread[u].pc # "idle"
      PROVE  thread[u].datagram \in arrived \ posted /\ thread[u].datagram # d
  BY <1>1, <1>9 DEF ThreadsInv, ThreadSound
<1>10. ASSUME NEW u \in Thread PROVE ThreadSound(u)'
  <2>1. CASE u = th
    <3>1. d \in arrived
      BY <1>1 DEF ThreadsInv, NodeTypeOK
    <3>2. QED
      BY <1>1, <1>4, <1>5, <2>1, <3>1
      DEF ThreadSound, InSession, HandlesEcho, HandlesReady
  <2>2. CASE u # th
    BY <1>1, <1>2, <1>5, <1>6, <1>9, <2>2, Undisturbed
  <2>3. QED
    BY <2>1, <2>2
<1>11. Apart'
  <2> SUFFICES ASSUME NEW u \in Thread, NEW w \in Thread, u # w,
                      thread'[u].pc # "idle"
               PROVE  /\ thread'[w].datagram # thread'[u].datagram
                      /\ ~(thread'[u].pc = "deliver" /\ thread'[w].pc = "deliver")
    BY DEF Apart
  <2>1. \A x \in Thread : thread[x].pc = "idle" => thread[x].datagram = NoDatagram
    BY IdleRecord DEF ThreadsInv, ThreadSound
  <2>2. d # NoDatagram
    BY ThreadAssumption
  <2>3. \A x \in Thread : x # th => thread[x].datagram # d
    BY <1>9, <2>1, <2>2
  <2>4. CASE u # th /\ w # th
    BY <1>5, <2>4 DEF ThreadsInv, Apart
  <2>5. CASE u = th \/ w = th
    BY <1>4, <1>5, <2>3, <2>5
  <2>6. QED
    BY <2>4, <2>5
<1>12. QED
  BY <1>6, <1>7, <1>8, <1>10, <1>11 DEF ThreadsInv

LEMMA RunSendKeepsInv ==
    ASSUME ThreadsInv, NEW th \in Thread, NEW d \in Datagram, RunSend(th, d)
    PROVE  ThreadsInv'
<1> DEFINE m == [type |-> message[d].type, nodeId |-> message[d].nodeId,
                 data |-> Content[d].data]
<1>1. /\ sendTasks[d] > 0
      /\ sendTasks' = [sendTasks EXCEPT ![d] = @ - 1]
      /\ sent' = sent \cup {m}
      /\ UNCHANGED <<arrived, posted, message, pool, counters, thread, log>>
  BY DEF RunSend
<1>2. State' = State /\ SessionGrows
  BY <1>1, SameSession
<1>3. NodeTypeOK'
  <2>1. sendTasks' \in [Datagram -> 0..2]
    BY <1>1 DEF ThreadsInv, NodeTypeOK
  <2>2. m \in [type: {"SEND", "ECHO", "READY"}, nodeId: Node, data: Data]
    BY ThreadAssumption DEF ThreadsInv, NodeTypeOK
  <2> HIDE DEF m
  <2>3. QED
    BY <1>1, <2>1, <2>2 DEF ThreadsInv, NodeTypeOK
<1>4. SessionSound' /\ Apart'
  BY <1>1, <1>2 DEF ThreadsInv, SessionSound, Apart
<1>5. ASSUME NEW e \in Datagram PROVE MessageSound(e)'
  <2>1. sendTasks[e] \in Nat /\ sendTasks'[e] = IF e = d THEN sendTasks[e] - 1 ELSE sendTasks[e]
    BY <1>1 DEF ThreadsInv, NodeTypeOK
  <2>2. MessageSound(e)
    BY DEF ThreadsInv
  <2>3. QED
    BY <1>1, <1>2, <2>1, <2>2 DEF MessageSound
<1>6. ASSUME NEW u \in Thread PROVE ThreadSound(u)'
  <2>1. thread[u].pc # "idle" => thread[u].datagram \in arrived' \ posted'
    BY <1>1 DEF ThreadsInv, ThreadSound
  <2>2. QED
    BY <1>1, <1>2, <1>3, <2>1, Undisturbed
<1>7. QED
  BY <1>3, <1>4, <1>5, <1>6 DEF ThreadsInv

(* Whoever makes the session, it starts empty.                             *)
LEMMA AddSessionSame ==
    ASSUME ThreadsInv, NEW th \in Thread, AddSession(th)
    PROVE  /\ State' = State /\ SessionGrows
           /\ pool' \in Thread /\ pool' # NoSession
           /\ \A s \in Thread : s # pool' => counters'[s] = NewSession
<1>1. /\ pool' = IF pool = NoSession THEN th ELSE pool
      /\ counters' = counters
  BY DEF AddSession
<1>2. pool \in Thread \cup {NoSession} /\ NoSession \notin Thread
  BY ThreadAssumption DEF ThreadsInv, NodeTypeOK
<1>3. \A s \in Thread : s # pool => counters[s] = NewSession
  BY DEF ThreadsInv, SessionSound
<1>4. State' = State
  BY <1>1, <1>2, <1>3 DEF State
<1>5. QED
  BY <1>1, <1>2, <1>3, <1>4 DEF SessionGrows

LEMMA AddSessionKeepsInv ==
    ASSUME ThreadsInv, NEW th \in Thread, AddSession(th) PROVE ThreadsInv'
<1> DEFINE me == [thread[th] EXCEPT !.pc = "dispatch", !.session = pool']
<1>1. /\ thread[th].pc = "addSession"
      /\ thread' = [thread EXCEPT ![th].pc = "dispatch", ![th].session = pool']
      /\ UNCHANGED <<arrived, posted, message, sendTasks, counters, sent, log>>
  BY DEF AddSession, At
<1>2. /\ State' = State /\ SessionGrows
      /\ pool' \in Thread /\ pool' # NoSession
      /\ \A s \in Thread : s # pool' => counters'[s] = NewSession
  BY AddSessionSame
<1>3. thread \in [Thread -> ThreadRecord]
  BY DEF ThreadsInv, NodeTypeOK, ThreadRecord
<1>4. /\ me \in ThreadRecord /\ thread' = [thread EXCEPT ![th] = me]
      /\ me.pc = "dispatch" /\ me.datagram = thread[th].datagram
      /\ me.session = pool' /\ me.interrupted = thread[th].interrupted
  BY <1>1, <1>2, <1>3 DEF ThreadRecord, Steps
<1> HIDE DEF me
<1>5. MovesTo(th, me) /\ thread'[th] = me
  BY <1>3, <1>4 DEF MovesTo
<1>6. NodeTypeOK'
  <2>1. thread' \in [Thread -> ThreadRecord]
    BY <1>3, <1>4
  <2>2. QED
    BY <1>1, <1>2, <2>1 DEF ThreadsInv, NodeTypeOK, ThreadRecord
<1>7. SessionSound'
  BY <1>1, <1>2 DEF ThreadsInv, SessionSound
<1>8. ASSUME NEW e \in Datagram PROVE MessageSound(e)'
  BY <1>1, <1>2 DEF ThreadsInv, MessageSound
<1>9. ThreadSound(th)'
  <2>1. me.pc \notin HandlesEcho /\ me.pc \notin HandlesReady
    BY <1>4 DEF HandlesEcho, HandlesReady
  <2>2. QED
    BY <1>1, <1>2, <1>4, <1>5, <1>6, <2>1, GoesOnSound
<1>10. QED
  BY <1>1, <1>2, <1>4, <1>5, <1>6, <1>7, <1>8, <1>9, StepKeepsInv

-----------------------------------------------------------------------------
(* Steps that change a message object.                                     *)

\* The message object after broadcast, for all that the others rely on.
LEMMA BroadcastEffect ==
    ASSUME ThreadsInv, NEW th \in Thread, thread[th].pc # "idle",
           NEW type \in {"ECHO", "READY"}, Broadcast(th, type),
           sendTasks[thread[th].datagram] <= 1
    PROVE  LET d == thread[th].datagram
           IN  /\ d \in Datagram /\ d \in arrived
               /\ message' \in [Datagram -> [type: {"SEND", "ECHO", "READY"}, nodeId: Node]]
               /\ sendTasks' \in [Datagram -> 0..2]
               /\ message'[d] = [type |-> type, nodeId |-> Self]
               /\ sendTasks'[d] = sendTasks[d] + 1
               /\ \A e \in Datagram : e # d =>
                     message'[e] = message[e] /\ sendTasks'[e] = sendTasks[e]
<1> DEFINE d == thread[th].datagram
<1>1. d \in Datagram /\ d \in arrived
  BY DEF ThreadsInv, NodeTypeOK, ThreadSound
<1>2. /\ message' = [message EXCEPT ![d] = [type |-> type, nodeId |-> Self]]
      /\ sendTasks' = [sendTasks EXCEPT ![d] = @ + 1]
  BY DEF Broadcast
<1>3. /\ message \in [Datagram -> [type: {"SEND", "ECHO", "READY"}, nodeId: Node]]
      /\ sendTasks \in [Datagram -> 0..2]
  BY DEF ThreadsInv, NodeTypeOK
<1> HIDE DEF d
<1>4. sendTasks[d] + 1 \in 0..2
  BY <1>1, <1>3 DEF d
<1>5. [type |-> type, nodeId |-> Self] \in [type: {"SEND", "ECHO", "READY"}, nodeId: Node]
  BY ThreadAssumption
<1>6. QED
  BY <1>1, <1>2, <1>3, <1>4, <1>5 DEF d

LEMMA HandleSendKeepsInv ==
    ASSUME ThreadsInv, NEW th \in Thread, HandleSend(th) PROVE ThreadsInv'
<1> DEFINE d == thread[th].datagram
           me == [thread[th] EXCEPT !.pc = "getSession"]
<1>1. /\ thread[th].pc = "dispatch" /\ message[d].type = "SEND"
      /\ Broadcast(th, "ECHO") /\ Goto(th, "getSession")
      /\ UNCHANGED <<arrived, posted, pool, counters, sent, log>>
  BY DEF HandleSend, At
<1>2. d \in Datagram /\ d \in arrived \ posted
  BY <1>1 DEF ThreadsInv, NodeTypeOK, ThreadSound
<1>3. /\ message[d] = [type |-> Content[d].type, nodeId |-> Content[d].nodeId]
      /\ sendTasks[d] = 0 /\ Content[d].type = "SEND"
  BY <1>1, <1>2 DEF ThreadsInv, MessageSound
<1>4. /\ message' \in [Datagram -> [type: {"SEND", "ECHO", "READY"}, nodeId: Node]]
      /\ sendTasks' \in [Datagram -> 0..2]
      /\ message'[d] = [type |-> "ECHO", nodeId |-> Self] /\ sendTasks'[d] = 1
      /\ \A e \in Datagram : e # d =>
            message'[e] = message[e] /\ sendTasks'[e] = sendTasks[e]
  BY <1>1, <1>3, BroadcastEffect
<1>5. State' = State /\ SessionGrows
  BY <1>1, SameSession
<1>6. thread \in [Thread -> ThreadRecord]
  BY DEF ThreadsInv, NodeTypeOK, ThreadRecord
<1>7. MovesTo(th, me) /\ thread'[th] = me
  BY <1>1, GotoMoves, Moved DEF ThreadsInv, Steps
<1>8. /\ me.pc = "getSession" /\ me.datagram = d
      /\ me.interrupted = thread[th].interrupted
  BY <1>6 DEF ThreadRecord
<1> HIDE DEF me, d
<1>9. NodeTypeOK'
  <2>1. thread' \in [Thread -> ThreadRecord]
    BY <1>6, <1>7 DEF MovesTo
  <2>2. QED
    BY <1>1, <1>4, <2>1 DEF ThreadsInv, NodeTypeOK, ThreadRecord
<1>10. SessionSound'
  BY <1>1, <1>5 DEF ThreadsInv, SessionSound
<1>11. ASSUME NEW e \in Datagram PROVE MessageSound(e)'
  <2>1. CASE e = d
    BY <1>1, <1>2, <1>3, <1>4, <2>1 DEF MessageSound
  <2>2. CASE e # d
    BY <1>1, <1>4, <1>5, <2>2 DEF ThreadsInv, MessageSound
  <2>3. QED
    BY <2>1, <2>2
<1>12. ThreadSound(th)'
  <2>1. me.interrupted = {}
    BY <1>1, <1>8 DEF ThreadsInv, ThreadSound, d
  <2>2. QED
    BY <1>1, <1>2, <1>7, <1>8, <2>1
    DEF ThreadSound, InSession, HandlesEcho, HandlesReady
<1>13. QED
  BY <1>1, <1>4, <1>5, <1>7, <1>8, <1>9, <1>10, <1>11, <1>12, StepKeepsInv DEF d

-----------------------------------------------------------------------------
(* Steps that change the counters and flags of the session.                *)

LEMMA ThreadType ==
    ASSUME ThreadsInv, NEW th \in Thread, NEW me, MovesTo(th, me)
    PROVE  thread' \in [Thread -> ThreadRecord]
  BY DEF MovesTo, ThreadsInv, NodeTypeOK, ThreadRecord

LEMMA ReturnType ==
    ASSUME ThreadsInv, NEW th \in Thread, Return(th)
    PROVE  thread' \in [Thread -> ThreadRecord]
  BY ReturnMoves, ThreadType DEF ThreadsInv

\* A step of th in the session that decides no READY and appends nothing.
SessionStep(th) ==
    /\ thread[th].pc \in InSession
    /\ UNCHANGED <<arrived, posted, message, sendTasks, pool, sent, log>>
    /\ \A s \in Thread : s # pool' => counters'[s] = counters[s]
    /\ counters' \in [Thread -> SessionType]
    /\ SessionGrows
    /\ State'.readyData = State.readyData
    /\ \A v \in Data : Self \in State'.readies[v]
                         => Self \in State.readies[v] \/ State.readyData = v

LEMMA SessionStepSound ==
    ASSUME ThreadsInv, NEW th \in Thread, SessionStep(th),
           thread' \in [Thread -> ThreadRecord]
    PROVE  /\ NodeTypeOK' /\ SessionSound'
           /\ \A d \in Datagram : MessageSound(d)'
<1>1. NodeTypeOK'
  BY DEF SessionStep, ThreadsInv, NodeTypeOK, SessionType, ThreadRecord
<1>2. SessionSound'
  BY DEF SessionStep, SessionGrows, ThreadsInv, SessionSound
<1>3. ASSUME NEW d \in Datagram PROVE MessageSound(d)'
  BY DEF SessionStep, ThreadsInv, MessageSound
<1>4. QED
  BY <1>1, <1>2, <1>3

LEMMA ReturningKeepsInv ==
    ASSUME ThreadsInv, NodeTypeOK', SessionGrows, pool' = pool,
           NEW th \in Thread, thread[th].pc \in InSession, Return(th),
           message' = message, UNCHANGED <<arrived, posted>>,
           log' = log \/ thread[th].pc = "deliver",
           \A d \in Datagram : MessageSound(d)', SessionSound'
    PROVE  ThreadsInv'
<1>1. ThreadSound(th)'
  BY ReturnIsSound
<1>2. thread[th].pc # "idle" /\ NodeTypeOK
  BY DEF InSession, HandlesEcho, HandlesReady, ThreadsInv
<1>3. CASE MovesTo(th, Idle)
  BY <1>1, <1>2, <1>3, IdleRecord, StepKeepsInv
<1>4. ASSUME NEW c \in thread[th].interrupted, MovesTo(th, Resumed(th, c))
      PROVE  ThreadsInv'
  <2>1. thread[th] \in ThreadRecord
    BY <1>2 DEF NodeTypeOK, ThreadRecord
  <2>2. Resumed(th, c).datagram = thread[th].datagram
        /\ Resumed(th, c).pc # "deliver"
    BY <2>1 DEF Resumed, ThreadRecord
  <2>3. QED
    BY <1>1, <1>2, <1>4, <2>2, StepKeepsInv
<1>5. QED
  BY <1>2, <1>3, <1>4, ReturnMoves

\* What a handler of th works with.
LEMMA HandlerValues ==
    ASSUME ThreadsInv, NEW th \in Thread, thread[th].pc # "idle"
    PROVE  /\ thread[th] \in ThreadRecord
           /\ thread[th].datagram \in Datagram
           /\ thread[th].datagram \in arrived \ posted
           /\ Payload(th) \in Data /\ Sender(th) \in Node
           /\ MessageSound(thread[th].datagram)
<1>1. /\ thread[th].datagram \in Datagram
      /\ thread[th].datagram \in arrived \ posted
  BY DEF ThreadsInv, NodeTypeOK, ThreadSound
<1>2. Payload(th) \in Data /\ Sender(th) \in Node
  BY <1>1, ThreadAssumption DEF Payload, Sender, ThreadsInv, NodeTypeOK
<1>3. QED
  BY <1>1, <1>2 DEF ThreadsInv, NodeTypeOK, ThreadRecord

LEMMA CountEchoKeepsInv ==
    ASSUME ThreadsInv, NEW th \in Thread, CountEcho(th) PROVE ThreadsInv'
<1> DEFINE v == Payload(th)
           senders == State.echoes[v] \cup {Sender(th)}
           counted == [State.echoes EXCEPT ![v] = senders]
           me == [thread[th] EXCEPT !.pc = "exchangeOnEcho"]
<1>1. /\ thread[th].pc = "countEcho" /\ thread[th].pc \in InSession
      /\ Session(th) = State /\ State \in SessionType
      /\ v \in Data /\ Sender(th) \in Node /\ thread[th] \in ThreadRecord
      /\ message[thread[th].datagram].type = "ECHO"
  <2>1. thread[th].pc = "countEcho"
    BY DEF CountEcho, At
  <2>2. thread[th].pc \in InSession /\ thread[th].pc \in HandlesEcho
        /\ thread[th].pc # "idle"
    BY <2>1 DEF InSession, HandlesEcho
  <2>3. message[thread[th].datagram].type = "ECHO"
    BY <2>2 DEF ThreadsInv, ThreadSound
  <2>4. QED
    BY <2>1, <2>2, <2>3, SessionIsState, StateType, HandlerValues DEF ThreadsInv
<1>2. /\ SetSession(th, "echoes", counted)
      /\ UNCHANGED <<arrived, posted, message, sendTasks, pool, sent, log>>
      /\ \/ Cardinality(senders) >= EchoTarget /\ Goto(th, "exchangeOnEcho")
         \/ Return(th)
  BY <1>1 DEF CountEcho
<1>3. /\ senders \in SUBSET Node /\ counted \in [Data -> SUBSET Node]
      /\ counted[v] = senders
      /\ \A w \in Data : State.echoes[w] \subseteq counted[w]
  BY <1>1 DEF SessionType
<1> HIDE DEF senders, counted
<1>4. /\ State' = [State EXCEPT !.echoes = counted]
      /\ \A s \in Thread : s # pool' => counters'[s] = counters[s]
      /\ State' \in SessionType => counters' \in [Thread -> SessionType]
  BY <1>1, <1>2, SetSessionEffect
<1>5. /\ State'.echoes = counted /\ State'.readies = State.readies
      /\ State'.readyData = State.readyData
      /\ State'.delivered = State.delivered
      /\ State' \in SessionType
  BY <1>1, <1>3, <1>4 DEF SessionType
<1>6. SessionGrows
  BY <1>2, <1>3, <1>5 DEF SessionGrows
<1>7. SessionStep(th)
  BY <1>1, <1>2, <1>4, <1>5, <1>6 DEF SessionStep
<1>8. CASE Return(th)
  <2>1. NodeTypeOK' /\ SessionSound' /\ \A d \in Datagram : MessageSound(d)'
    BY <1>7, <1>8, ReturnType, SessionStepSound
  <2>2. QED
    BY <1>1, <1>2, <1>6, <1>8, <2>1, ReturningKeepsInv
<1>9. CASE Cardinality(senders) >= EchoTarget /\ Goto(th, "exchangeOnEcho")
  <2>1. MovesTo(th, me) /\ thread'[th] = me
    BY <1>9, GotoMoves, Moved DEF ThreadsInv, Steps
  <2>2. /\ me.pc = "exchangeOnEcho" /\ me.datagram = thread[th].datagram
        /\ me.session = thread[th].session
        /\ me.interrupted = thread[th].interrupted
    BY <1>1 DEF ThreadRecord
  <2> HIDE DEF me
  <2>3. NodeTypeOK' /\ SessionSound' /\ \A d \in Datagram : MessageSound(d)'
    BY <1>7, <2>1, ThreadType, SessionStepSound
  <2>4. me.session = pool' /\ pool' # NoSession
    BY <1>1, <1>2, <2>2, SessionIsState
  <2>5. ThreadSound(th)'
    <3>1. me.pc \notin HandlesReady
      BY <2>2 DEF HandlesReady
    <3>2. Cardinality(State'.echoes[v]) >= EchoTarget
      BY <1>3, <1>5, <1>9
    <3>3. QED
      BY <1>1, <1>2, <1>6, <2>1, <2>2, <2>3, <2>4, <3>1, <3>2, GoesOnSound
  <2>6. QED
    BY <1>1, <1>2, <1>6, <2>1, <2>2, <2>3, <2>5, StepKeepsInv
<1>10. QED
  BY <1>2, <1>8, <1>9

LEMMA CountReadyKeepsInv ==
    ASSUME ThreadsInv, NEW th \in Thread, CountReady(th) PROVE ThreadsInv'
<1> DEFINE v == Payload(th)
           senders == State.readies[v] \cup {Sender(th)}
           counted == [State.readies EXCEPT ![v] = senders]
           me == [thread[th] EXCEPT !.pc = "testReadySent",
                                    !.count = Cardinality(senders)]
<1>1. /\ thread[th].pc = "countReady" /\ thread[th].pc \in InSession
      /\ Session(th) = State /\ State \in SessionType
      /\ v \in Data /\ Sender(th) \in Node /\ thread[th] \in ThreadRecord
      /\ message[thread[th].datagram].type = "READY"
      /\ MessageSound(thread[th].datagram) /\ thread[th].datagram \in Datagram
  <2>1. thread[th].pc = "countReady"
    BY DEF CountReady, At
  <2>2. thread[th].pc \in InSession /\ thread[th].pc \in HandlesReady
        /\ thread[th].pc # "idle"
    BY <2>1 DEF InSession, HandlesReady
  <2>3. message[thread[th].datagram].type = "READY"
    BY <2>2 DEF ThreadsInv, ThreadSound
  <2>4. QED
    BY <2>1, <2>2, <2>3, SessionIsState, StateType, HandlerValues DEF ThreadsInv
<1>2. /\ SetSession(th, "readies", counted)
      /\ UNCHANGED <<arrived, posted, message, sendTasks, pool, sent, log>>
      /\ thread' = [thread EXCEPT ![th].pc = "testReadySent",
                                  ![th].count = Cardinality(senders)]
  BY <1>1 DEF CountReady
<1>3. /\ senders \in SUBSET Node /\ counted \in [Data -> SUBSET Node]
      /\ counted[v] = senders
      /\ \A w \in Data : State.readies[w] \subseteq counted[w]
      /\ \A w \in Data : w # v => counted[w] = State.readies[w]
  BY <1>1 DEF SessionType
<1>4. Self \in senders => Self \in State.readies[v] \/ State.readyData = v
  <2>1. Sender(th) = Self => State.readyData = v
    BY <1>1, ThreadAssumption DEF MessageSound, Sender, Payload
  <2>2. QED
    BY <2>1
<1> HIDE DEF senders, counted
<1>5. /\ State' = [State EXCEPT !.readies = counted]
      /\ \A s \in Thread : s # pool' => counters'[s] = counters[s]
      /\ State' \in SessionType => counters' \in [Thread -> SessionType]
  BY <1>1, <1>2, SetSessionEffect
<1>6. /\ State'.readies = counted /\ State'.echoes = State.echoes
      /\ State'.readyData = State.readyData
      /\ State'.delivered = State.delivered
      /\ State' \in SessionType
  BY <1>1, <1>3, <1>5 DEF SessionType
<1>7. SessionGrows
  BY <1>2, <1>3, <1>6 DEF SessionGrows
<1>8. SessionStep(th)
  <2>1. \A w \in Data : Self \in State'.readies[w]
                          => Self \in State.readies[w] \/ State.readyData = w
    BY <1>3, <1>4, <1>6
  <2>2. QED
    BY <1>1, <1>2, <1>5, <1>6, <1>7, <2>1 DEF SessionStep
<1>9. Cardinality(senders) \in Counts /\ Cardinality(senders) \in Nat
  BY <1>3, SetSize
<1>10. /\ me \in ThreadRecord /\ thread' = [thread EXCEPT ![th] = me]
       /\ me.pc = "testReadySent" /\ me.datagram = thread[th].datagram
       /\ me.session = thread[th].session /\ me.count = Cardinality(senders)
       /\ me.interrupted = thread[th].interrupted
  <2>1. thread \in [Thread -> ThreadRecord]
    BY DEF ThreadsInv, NodeTypeOK, ThreadRecord
  <2>2. QED
    BY <1>1, <1>2, <1>9, <2>1 DEF ThreadRecord, Steps
<1> HIDE DEF me
<1>11. MovesTo(th, me) /\ thread'[th] = me
  BY <1>10, Moved DEF MovesTo, ThreadsInv
<1>12. NodeTypeOK' /\ SessionSound' /\ \A d \in Datagram : MessageSound(d)'
  BY <1>8, <1>11, ThreadType, SessionStepSound
<1>13. ThreadSound(th)'
  <2>1. me.session = pool' /\ pool' # NoSession
    BY <1>1, <1>2, <1>10, SessionIsState
  <2>2. me.count <= Cardinality(State'.readies[v])
    BY <1>3, <1>6, <1>9, <1>10
  <2>3. me.pc \notin HandlesEcho
    BY <1>10 DEF HandlesEcho
  <2>4. QED
    BY <1>1, <1>2, <1>7, <1>10, <1>11, <1>12, <2>1, <2>2, <2>3, GoesOnSound
<1>14. QED
  BY <1>1, <1>2, <1>7, <1>10, <1>11, <1>12, <1>13, StepKeepsInv

(* The thread whose exchange of mReadyMessageWasSent succeeds broadcasts   *)
(* READY, with the count it will come back to.                             *)
LEMMA DecidingKeepsInv ==
    ASSUME ThreadsInv, NEW th \in Thread, thread[th].pc \in InSession,
           State.readyData = NoData,
           SetSession(th, "readyData", Payload(th)), Broadcast(th, "READY"),
           UNCHANGED <<arrived, posted, pool, sent, log>>,
           NEW me, MovesTo(th, me), me.pc = "getSession",
           me.datagram = thread[th].datagram,
           \A c \in me.interrupted : c <= Readies(th)
    PROVE  ThreadsInv'
<1> DEFINE d == thread[th].datagram
           v == Payload(th)
<1>1. thread[th].pc # "idle"
  BY DEF InSession, HandlesEcho, HandlesReady
<1>2. /\ d \in Datagram /\ d \in arrived \ posted /\ v \in Data
      /\ v = Content[d].data /\ State \in SessionType
  BY <1>1, HandlerValues, StateType DEF Payload, ThreadsInv
<1>3. \A e \in Datagram : State.readyData # Content[e].data
  BY ThreadAssumption
<1>4. sendTasks[d] <= 1
  <2>1. MessageSound(d)
    BY <1>2 DEF ThreadsInv
  <2>2. QED
    BY <1>2, <1>3, <2>1 DEF MessageSound
<1>5. /\ message' \in [Datagram -> [type: {"SEND", "ECHO", "READY"}, nodeId: Node]]
      /\ sendTasks' \in [Datagram -> 0..2]
      /\ message'[d] = [type |-> "READY", nodeId |-> Self]
      /\ \A e \in Datagram : e # d =>
            message'[e] = message[e] /\ sendTasks'[e] = sendTasks[e]
  BY <1>1, <1>4, BroadcastEffect
<1>6. /\ State' = [State EXCEPT !.readyData = v]
      /\ \A s \in Thread : s # pool' => counters'[s] = counters[s]
      /\ State' \in SessionType => counters' \in [Thread -> SessionType]
  BY SetSessionEffect
<1>7. /\ State'.readyData = v /\ State'.readies = State.readies
      /\ State'.echoes = State.echoes /\ State'.delivered = State.delivered
      /\ State' \in SessionType
  BY <1>2, <1>6 DEF SessionType
<1>8. SessionGrows
  BY <1>7 DEF SessionGrows
<1>9. thread'[th] = me /\ thread' \in [Thread -> ThreadRecord]
  BY Moved, ThreadType DEF ThreadsInv
<1> HIDE DEF d, v
<1>10. NodeTypeOK'
  BY <1>5, <1>6, <1>7, <1>9 DEF ThreadsInv, NodeTypeOK, SessionType, ThreadRecord
<1>11. SessionSound'
  <2>1. \A w \in Data : Self \notin State.readies[w]
    BY ThreadAssumption DEF ThreadsInv, SessionSound
  <2>2. QED
    BY <1>6, <1>7, <2>1 DEF ThreadsInv, SessionSound
<1>12. ASSUME NEW e \in Datagram PROVE MessageSound(e)'
  <2>1. CASE e = d
    BY <1>2, <1>5, <1>7, <2>1 DEF MessageSound
  <2>2. CASE e # d
    BY <1>3, <1>5, <2>2 DEF ThreadsInv, MessageSound
  <2>3. QED
    BY <2>1, <2>2
<1>13. ThreadSound(th)'
  <2>1. Readies(th)' = Readies(th)
    BY <1>7, <1>9 DEF Readies, Payload
  <2>2. me.datagram \in arrived' \ posted' /\ message'[me.datagram].type = "READY"
    BY <1>2, <1>5 DEF d
  <2>3. QED
    BY <1>9, <2>1, <2>2 DEF ThreadSound, InSession, HandlesEcho, HandlesReady
<1>14. QED
  BY <1>1, <1>5, <1>8, <1>10, <1>11, <1>12, <1>13, StepKeepsInv DEF d

LEMMA ExchangeOnEchoKeepsInv ==
    ASSUME ThreadsInv, NEW th \in Thread, ExchangeOnEcho(th) PROVE ThreadsInv'
<1> DEFINE me == [thread[th] EXCEPT !.pc = "getSession"]
<1>1. thread[th].pc = "exchangeOnEcho" /\ thread[th].pc \in InSession
      /\ thread[th].pc \in HandlesEcho
  BY DEF ExchangeOnEcho, At, InSession, HandlesEcho
<1>2. Session(th) = State
  BY <1>1, SessionIsState
<1>3. CASE State.readyData = NoData
  <2>1. /\ SetSession(th, "readyData", Payload(th)) /\ Broadcast(th, "READY")
        /\ Goto(th, "getSession")
        /\ UNCHANGED <<arrived, posted, pool, sent, log>>
    BY <1>2, <1>3 DEF ExchangeOnEcho
  <2>2. MovesTo(th, me)
    BY <2>1, GotoMoves DEF ThreadsInv, Steps
  <2>3. thread[th].interrupted = {}
    <3>1. message[thread[th].datagram].type = "ECHO"
      BY <1>1 DEF ThreadsInv, ThreadSound
    <3>2. QED
      BY <3>1 DEF ThreadsInv, ThreadSound
  <2>4. /\ me.pc = "getSession" /\ me.datagram = thread[th].datagram
        /\ me.interrupted = {}
    BY <2>3 DEF ThreadsInv, NodeTypeOK
  <2>5. QED
    BY <1>1, <1>3, <2>1, <2>2, <2>4, DecidingKeepsInv
<1>4. CASE State.readyData # NoData
  BY <1>1, <1>2, <1>4, ReturnKeepsInv DEF ExchangeOnEcho, Others
<1>5. QED
  BY <1>3, <1>4

LEMMA ExchangeOnReadyKeepsInv ==
    ASSUME ThreadsInv, NEW th \in Thread, ExchangeOnReady(th) PROVE ThreadsInv'
<1> DEFINE me == [thread[th] EXCEPT !.pc = "getSession",
                                    !.interrupted = {thread[th].count}]
<1>1. thread[th].pc = "exchangeOnReady" /\ thread[th].pc \in InSession
      /\ thread[th].pc \in HandlesReady \ {"countReady"}
  BY DEF ExchangeOnReady, At, InSession, HandlesReady
<1>2. /\ Session(th) = State /\ thread[th].count <= Readies(th)
      /\ message[thread[th].datagram].type = "READY"
  BY <1>1, SessionIsState DEF ThreadsInv, ThreadSound
<1>3. CASE State.readyData = NoData
  <2>1. /\ SetSession(th, "readyData", Payload(th)) /\ Broadcast(th, "READY")
        /\ thread' = [thread EXCEPT ![th].pc = "getSession",
                                    ![th].interrupted = {thread[th].count}]
        /\ UNCHANGED <<arrived, posted, pool, sent, log>>
    BY <1>2, <1>3 DEF ExchangeOnReady
  <2>2. thread \in [Thread -> ThreadRecord]
    BY DEF ThreadsInv, NodeTypeOK, ThreadRecord
  <2>3. /\ me \in ThreadRecord /\ thread' = [thread EXCEPT ![th] = me]
        /\ me.pc = "getSession" /\ me.datagram = thread[th].datagram
        /\ me.interrupted = {thread[th].count}
    BY <2>1, <2>2 DEF ThreadRecord, Steps
  <2> HIDE DEF me
  <2>4. MovesTo(th, me) /\ \A c \in me.interrupted : c <= Readies(th)
    BY <1>2, <2>3 DEF MovesTo
  <2>5. QED
    BY <1>1, <1>3, <2>1, <2>3, <2>4, DecidingKeepsInv
<1>4. CASE State.readyData # NoData
  <2>1. Goto(th, "testDelivered") /\ UNCHANGED Others
    BY <1>2, <1>4 DEF ExchangeOnReady, Others
  <2>2. QED
    BY <1>1, <1>2, <2>1, GotoKeepsInv
    DEF Steps, InSession, HandlesEcho, HandlesReady
<1>5. QED
  BY <1>3, <1>4

-----------------------------------------------------------------------------
(* The commit.                                                             *)

LEMMA ExchangeDeliveredKeepsInv ==
    ASSUME ThreadsInv, NEW th \in Thread, ExchangeDelivered(th) PROVE ThreadsInv'
<1> DEFINE me == [thread[th] EXCEPT !.pc = "deliver"]
<1>1. thread[th].pc = "exchangeDelivered" /\ thread[th].pc \in InSession
      /\ thread[th].pc \in HandlesReady \ {"countReady"} /\ thread[th].pc # "idle"
  BY DEF ExchangeDelivered, At, InSession, HandlesReady
<1>2. /\ Session(th) = State /\ thread[th].count <= Readies(th)
      /\ thread[th].count > DeliverThreshold(t)
      /\ message[thread[th].datagram].type = "READY"
      /\ thread[th].session = pool /\ pool # NoSession
  BY <1>1, SessionIsState DEF ThreadsInv, ThreadSound
<1>3. CASE ~State.delivered
  <2>1. /\ SetSession(th, "delivered", TRUE) /\ Goto(th, "deliver")
        /\ UNCHANGED <<arrived, posted, message, sendTasks, pool, sent, log>>
    BY <1>2, <1>3 DEF ExchangeDelivered
  <2>2. /\ State' = [State EXCEPT !.delivered = TRUE]
        /\ \A s \in Thread : s # pool' => counters'[s] = counters[s]
        /\ State' \in SessionType => counters' \in [Thread -> SessionType]
    BY <1>1, <2>1, SetSessionEffect
  <2>3. /\ State'.readyData = State.readyData /\ State'.readies = State.readies
        /\ State'.echoes = State.echoes /\ State'.delivered = TRUE
        /\ State' \in SessionType
    BY <2>2, StateType DEF SessionType, ThreadsInv
  <2>4. SessionGrows
    BY <2>1, <2>3 DEF SessionGrows
  <2>5. SessionStep(th)
    BY <1>1, <2>1, <2>2, <2>3, <2>4 DEF SessionStep
  <2>6. MovesTo(th, me) /\ thread'[th] = me
    BY <2>1, GotoMoves, Moved DEF ThreadsInv, Steps
  <2>7. /\ me.pc = "deliver" /\ me.datagram = thread[th].datagram
        /\ me.session = thread[th].session /\ me.count = thread[th].count
        /\ me.interrupted = thread[th].interrupted
    BY DEF ThreadsInv, NodeTypeOK
  <2> HIDE DEF me
  <2>8. NodeTypeOK' /\ SessionSound' /\ \A d \in Datagram : MessageSound(d)'
    BY <2>5, <2>6, ThreadType, SessionStepSound
  <2>9. log' = <<>>
    BY <1>3, <2>1 DEF ThreadsInv, SessionSound
  <2>10. ThreadSound(th)'
    <3>1. me.count <= Cardinality(State'.readies[Payload(th)])
      BY <1>2, <2>3, <2>7 DEF Readies
    <3>2. me.pc \notin HandlesEcho
      BY <2>7 DEF HandlesEcho
    <3>3. message'[me.datagram] = message[me.datagram]
          /\ UNCHANGED <<arrived, posted>> /\ pool' = pool
      BY <2>1
    <3>4. QED
      BY <1>1, <1>2, <2>3, <2>4, <2>6, <2>7, <2>8, <2>9, <3>1, <3>2, <3>3,
         GoesOnSound
  <2>11. QED
    BY <1>1, <1>3, <2>1, <2>4, <2>6, <2>7, <2>8, <2>10, StepKeepsInv
<1>4. CASE State.delivered
  BY <1>1, <1>2, <1>4, ReturnKeepsInv DEF ExchangeDelivered, Others
<1>5. QED
  BY <1>3, <1>4

LEMMA DeliverKeepsInv ==
    ASSUME ThreadsInv, NEW th \in Thread, Deliver(th) PROVE ThreadsInv'
<1>1. /\ thread[th].pc = "deliver" /\ Return(th)
      /\ log' = Append(log, Payload(th))
      /\ UNCHANGED <<arrived, posted, message, sendTasks, pool, counters, sent>>
  BY DEF Deliver, At
<1>2. thread[th].pc \in InSession /\ thread[th].pc # "idle"
  BY <1>1 DEF InSession, HandlesReady
<1>3. State' = State /\ SessionGrows /\ State.delivered
  BY <1>1, SameSession DEF ThreadsInv, ThreadSound
<1>4. NodeTypeOK'
  <2>1. Payload(th) \in Data /\ thread' \in [Thread -> ThreadRecord]
    BY <1>1, <1>2, HandlerValues, ReturnType
  <2>2. log' \in Seq(Data)
    BY <1>1, <2>1 DEF ThreadsInv, NodeTypeOK
  <2>3. QED
    BY <1>1, <2>1, <2>2 DEF ThreadsInv, NodeTypeOK, ThreadRecord
<1>5. SessionSound' /\ \A d \in Datagram : MessageSound(d)'
  BY <1>1, <1>3 DEF ThreadsInv, SessionSound, MessageSound
<1>6. QED
  BY <1>1, <1>2, <1>3, <1>4, <1>5, ReturningKeepsInv

-----------------------------------------------------------------------------
(* The invariant.                                                          *)

LEMMA ThreadsInvInit == Init => ThreadsInv
<1> SUFFICES ASSUME Init PROVE ThreadsInv
  OBVIOUS
<1>1. /\ arrived = {} /\ posted = {} /\ pool = NoSession /\ sent = {} /\ log = <<>>
      /\ message = [d \in Datagram |->
                      [type |-> Content[d].type, nodeId |-> Content[d].nodeId]]
      /\ sendTasks = [d \in Datagram |-> 0]
      /\ counters = [s \in Thread |-> NewSession]
      /\ thread = [th \in Thread |-> Idle]
  BY DEF Init
<1>2. NewSession \in SessionType /\ State = NewSession
  BY <1>1 DEF NewSession, SessionType, State
<1>3. NodeTypeOK
  <2>1. message \in [Datagram -> [type: {"SEND", "ECHO", "READY"}, nodeId: Node]]
    BY <1>1, ThreadAssumption
  <2>2. thread \in [Thread -> ThreadRecord] /\ counters \in [Thread -> SessionType]
    BY <1>1, <1>2, IdleRecord
  <2>3. log \in Seq(Data)
    BY <1>1
  <2>4. QED
    BY <1>1, <2>1, <2>2, <2>3 DEF NodeTypeOK, ThreadRecord, SessionType
<1>4. \A d \in Datagram : MessageSound(d)
  BY <1>1 DEF MessageSound
<1>5. \A th \in Thread : ThreadSound(th)
  BY <1>1, IdleRecord DEF ThreadSound, InSession, HandlesEcho, HandlesReady
<1>6. Apart
  BY <1>1, IdleRecord DEF Apart
<1>7. SessionSound
  BY <1>1, <1>2 DEF SessionSound, NewSession
<1>8. QED
  BY <1>3, <1>4, <1>5, <1>6, <1>7 DEF ThreadsInv

LEMMA ThreadsInvNext == ThreadsInv /\ [Next]_vars => ThreadsInv'
<1> SUFFICES ASSUME ThreadsInv, [Next]_vars PROVE ThreadsInv'
  OBVIOUS
<1>1. CASE \E d \in Datagram : Arrive(d)
  BY <1>1, ArriveKeepsInv
<1>2. ASSUME NEW th \in Thread, ThreadStep(th) PROVE ThreadsInv'
  <2>1. CASE \E d \in Datagram : StartMessage(th, d) \/ RunSend(th, d)
    BY <2>1, StartMessageKeepsInv, RunSendKeepsInv
  <2>2. CASE GetSession(th) \/ AddSession(th)
    BY <2>2, GetSessionKeepsInv, AddSessionKeepsInv
  <2>3. CASE HandleSend(th) \/ HandleEcho(th) \/ HandleReady(th)
    BY <2>3, HandleSendKeepsInv, HandleEchoKeepsInv, HandleReadyKeepsInv
  <2>4. CASE CountEcho(th) \/ ExchangeOnEcho(th)
    BY <2>4, CountEchoKeepsInv, ExchangeOnEchoKeepsInv
  <2>5. CASE CountReady(th) \/ TestReadySent(th) \/ ExchangeOnReady(th)
    BY <2>5, CountReadyKeepsInv, TestReadySentKeepsInv, ExchangeOnReadyKeepsInv
  <2>6. CASE TestDelivered(th) \/ ExchangeDelivered(th) \/ Deliver(th)
    BY <2>6, TestDeliveredKeepsInv, ExchangeDeliveredKeepsInv, DeliverKeepsInv
  <2>7. QED
    BY <1>2, <2>1, <2>2, <2>3, <2>4, <2>5, <2>6 DEF ThreadStep
<1>3. CASE UNCHANGED nodeVars
  <2>1. State' = State
    BY <1>3, SameSession DEF nodeVars
  <2>2. NodeTypeOK'
    BY <1>3 DEF ThreadsInv, nodeVars, NodeTypeOK
  <2>3. SessionSound' /\ Apart'
    BY <1>3, <2>1 DEF ThreadsInv, nodeVars, SessionSound, Apart
  <2>4. \A d \in Datagram : MessageSound(d)'
    BY <1>3, <2>1 DEF ThreadsInv, nodeVars, MessageSound
  <2>5. \A th \in Thread : ThreadSound(th)'
    BY <1>3, <2>1 DEF ThreadsInv, nodeVars, ThreadSound, Readies, Payload
  <2>6. QED
    BY <2>2, <2>3, <2>4, <2>5 DEF ThreadsInv
<1>4. QED
  BY <1>1, <1>2, <1>3 DEF Next, ConnectToRedis, LoseRedis, vars

(* In every state of every interleaving: the variables keep their types,   *)
(* no message has more than two send tasks waiting, for its ECHO and its   *)
(* READY, and no count exceeds the chain.                                  *)
THEOREM NodeThreadsTypeCorrect == Spec => []TypeOK
<1>1. Init => connected \in BOOLEAN
  BY DEF Init
<1>2. connected \in BOOLEAN /\ [Next]_vars => (connected \in BOOLEAN)'
  <2> SUFFICES ASSUME connected \in BOOLEAN, [Next]_vars
               PROVE  connected' \in BOOLEAN
    OBVIOUS
  <2>1. CASE connected' = connected
    BY <2>1
  <2>2. ASSUME NEW th \in Thread, ThreadStep(th) PROVE connected' = connected
    BY <2>2 DEF ThreadStep, StartMessage, RunSend, GetSession, AddSession,
       HandleSend, HandleEcho, HandleReady, CountEcho, ExchangeOnEcho, CountReady,
       TestReadySent, ExchangeOnReady, TestDelivered, ExchangeDelivered, Deliver
  <2>3. CASE \E d \in Datagram : Arrive(d)
    BY <2>1, <2>3 DEF Arrive
  <2>4. CASE \/ \E th \in Thread : ConnectToRedis(th)
             \/ LoseRedis
    BY <2>4 DEF ConnectToRedis, LoseRedis
  <2>5. QED
    BY <2>1, <2>2, <2>3, <2>4 DEF Next, vars
<1>3. ThreadsInv /\ connected \in BOOLEAN => TypeOK
  BY DEF ThreadsInv, TypeOK
<1>4. QED
  BY <1>1, <1>2, <1>3, ThreadsInvInit, ThreadsInvNext, PTL DEF Spec

-----------------------------------------------------------------------------
(* Every step is one the contract allows.                                  *)

ContractStep == [Contract!Next]_(Contract!vars)

LEMMA ContractCardinality ==
    ASSUME NEW S PROVE Contract!Cardinality(S) = Cardinality(S)
  BY DEF Contract!Cardinality, Cardinality

\* Nothing the contract speaks of changes.
LEMMA Stutters ==
    ASSUME State'.echoes = State.echoes, State'.readies = State.readies,
           State'.readyData = State.readyData,
           UNCHANGED <<arrived, sent, log>>
    PROVE  ContractStep
<1>1. UNCHANGED Contract!vars
  BY DEF Contract!vars
<1>2. QED
  BY <1>1 DEF ContractStep

LEMMA LocalStutters ==
    ASSUME UNCHANGED <<pool, counters, arrived, sent, log>> PROVE ContractStep
  BY SameSession, Stutters

LEMMA CountsNoEcho ==
    ASSUME ThreadsInv, State'.echoes = State.echoes, NEW q, NEW v \in Data
    PROVE  Contract!CountEchoes(q, v)
<1>1. State.echoes \in [Data -> SUBSET Node]
  BY StateType DEF ThreadsInv, SessionType
<1>2. State'.echoes = [State.echoes EXCEPT ![v] = @ \cup {}]
  BY <1>1
<1>3. {} \in SUBSET {Self, q} /\ q \notin {} /\ Self \notin {}
  OBVIOUS
<1>4. QED
  BY <1>2, <1>3 DEF Contract!CountEchoes

LEMMA CountsNoReady ==
    ASSUME ThreadsInv, State'.readies = State.readies, NEW q, NEW v \in Data
    PROVE  Contract!CountReadies(q, v)
<1>1. State.readies \in [Data -> SUBSET Node]
  BY StateType DEF ThreadsInv, SessionType
<1>2. State'.readies = [State.readies EXCEPT ![v] = @ \cup {}]
  BY <1>1
<1>3. {} \in SUBSET {Self, q} /\ q \notin {} /\ Self \notin {}
  OBVIOUS
<1>4. QED
  BY <1>2, <1>3 DEF Contract!CountReadies

LEMMA SendsNothing ==
    ASSUME sent' = sent, NEW v PROVE Contract!Send(v)
<1>1. [type: {}, nodeId: {Self}, data: {v}] = {}
  OBVIOUS
<1>2. /\ {} \in SUBSET {"ECHO", "READY"}
      /\ sent' = sent \cup [type: {}, nodeId: {Self}, data: {v}]
      /\ "READY" \notin {} /\ "ECHO" \notin {}
  BY <1>1
<1>3. QED
  BY <1>2 DEF Contract!Send

LEMMA Handles ==
    ASSUME NEW q \in Node, NEW v \in Data, arrived' = arrived,
           Contract!CountEchoes(q, v), Contract!CountReadies(q, v),
           Contract!DecideReady(v), Contract!Send(v), Contract!CommitOnce(v)
    PROVE  ContractStep
<1>1. {Content[d] : d \in arrived'} = {Content[d] : d \in arrived}
  OBVIOUS
<1>2. Contract!Handle(q, v)
  BY <1>1 DEF Contract!Handle
<1>3. QED
  BY <1>2 DEF ContractStep, Contract!Next

\* What a SEND asked for, and what a message that came unchanged says.
LEMMA CameAs ==
    ASSUME ThreadsInv, NEW d \in Datagram, d \in arrived
    PROVE  /\ Content[d].type = "SEND" => Contract!Asked(Content[d].data)
           /\ \A ty, q : Content[d].type = ty /\ Content[d].nodeId = q =>
                 Contract!From(ty, q, Content[d].data) \in {Content[e] : e \in arrived}
<1>1. Content[d] \in [type: {"SEND", "ECHO", "READY"}, nodeId: Node \ {Self}, data: Data]
  BY ThreadAssumption
<1>2. Content[d] = [type |-> Content[d].type, nodeId |-> Content[d].nodeId,
                    data |-> Content[d].data]
  BY <1>1
<1>3. \A ty, q : Content[d].type = ty /\ Content[d].nodeId = q =>
         Contract!From(ty, q, Content[d].data) = Content[d]
  BY <1>2 DEF Contract!From
<1>4. Content[d] \in {Content[e] : e \in arrived}
  OBVIOUS
<1>5. QED
  BY <1>1, <1>3, <1>4 DEF Contract!Asked

LEMMA ArriveAllowed ==
    ASSUME ThreadsInv, NEW d \in Datagram, Arrive(d) PROVE ContractStep
<1>1. /\ arrived' = arrived \cup {d}
      /\ UNCHANGED <<pool, counters, sent, log>>
  BY DEF Arrive
<1>2. State' = State
  BY <1>1, SameSession
<1>3. arrived' \subseteq Datagram
  BY <1>1 DEF ThreadsInv, NodeTypeOK
<1>4. \A e \in arrived' : Content[e] \in Contract!Incoming
  BY <1>3, ThreadAssumption DEF Contract!Incoming
<1>5. /\ {Content[e] : e \in arrived} \subseteq {Content[e] : e \in arrived'}
      /\ {Content[e] : e \in arrived'} \in SUBSET Contract!Incoming
  BY <1>1, <1>4
<1>6. Contract!Receive
  BY <1>1, <1>2, <1>5 DEF Contract!Receive
<1>7. QED
  BY <1>6 DEF ContractStep, Contract!Next

LEMMA RunSendAllowed ==
    ASSUME ThreadsInv, NEW th \in Thread, NEW d \in Datagram, RunSend(th, d)
    PROVE  ContractStep
<1> DEFINE v == Content[d].data
<1>1. /\ sendTasks[d] > 0
      /\ sent' = sent \cup {[type |-> message[d].type, nodeId |-> message[d].nodeId,
                             data |-> v]}
      /\ UNCHANGED <<arrived, pool, counters, log>>
  BY DEF RunSend
<1>2. State' = State
  BY <1>1, SameSession
<1>3. v \in Data /\ Self \in Node
  BY ThreadAssumption
<1>4. PICK ty \in {"ECHO", "READY"} :
        /\ message[d] = [type |-> ty, nodeId |-> Self]
        /\ ty = "READY" => State.readyData = v
        /\ ty = "ECHO" => Contract!Asked(v)
  <2>1. MessageSound(d)
    BY DEF ThreadsInv
  <2>2. QED
    BY <1>1, <2>1, CameAs DEF MessageSound
<1>5. Contract!Send(v)
  <2>1. [type: {ty}, nodeId: {Self}, data: {v}]
          = {[type |-> ty, nodeId |-> Self, data |-> v]}
    <3>1. ASSUME NEW m \in [type: {ty}, nodeId: {Self}, data: {v}]
          PROVE  m = [type |-> ty, nodeId |-> Self, data |-> v]
      OBVIOUS
    <3>2. [type |-> ty, nodeId |-> Self, data |-> v]
            \in [type: {ty}, nodeId: {Self}, data: {v}]
      OBVIOUS
    <3>3. QED
      BY <3>1, <3>2
  <2>2. /\ {ty} \in SUBSET {"ECHO", "READY"}
        /\ sent' = sent \cup [type: {ty}, nodeId: {Self}, data: {v}]
        /\ "READY" \in {ty} => State'.readyData = v
        /\ "ECHO" \in {ty} => Contract!Asked(v)
    BY <1>1, <1>2, <1>4, <2>1
  <2>3. QED
    BY <2>2 DEF Contract!Send
<1>6. Contract!CountEchoes(Self, v) /\ Contract!CountReadies(Self, v)
  BY <1>2, <1>3, CountsNoEcho, CountsNoReady
<1>7. Contract!DecideReady(v) /\ Contract!CommitOnce(v)
  BY <1>1, <1>2 DEF Contract!DecideReady, Contract!CommitOnce
<1>8. QED
  BY <1>1, <1>3, <1>5, <1>6, <1>7, Handles

LEMMA CountEchoAllowed ==
    ASSUME ThreadsInv, NEW th \in Thread, CountEcho(th) PROVE ContractStep
<1> DEFINE d == thread[th].datagram
           v == Payload(th)
           q == Sender(th)
           counted == [State.echoes EXCEPT ![v] = State.echoes[v] \cup {q}]
<1>1. /\ thread[th].pc \in InSession /\ thread[th].pc \in HandlesEcho
      /\ thread[th].pc # "idle"
  BY DEF CountEcho, At, InSession, HandlesEcho
<1>2. /\ Session(th) = State /\ State \in SessionType
      /\ d \in Datagram /\ d \in arrived /\ v \in Data /\ q \in Node
      /\ MessageSound(d) /\ message[d].type = "ECHO"
      /\ v = Content[d].data /\ q = message[d].nodeId
  BY <1>1, SessionIsState, StateType, HandlerValues
  DEF ThreadsInv, ThreadSound, Payload, Sender
<1>3. /\ SetSession(th, "echoes", counted)
      /\ UNCHANGED <<arrived, pool, sent, log>>
  BY <1>2 DEF CountEcho
<1> HIDE DEF counted
<1>4. State' = [State EXCEPT !.echoes = counted]
  BY <1>1, <1>3, SetSessionEffect
<1>5. /\ State'.echoes = counted /\ State'.readies = State.readies
      /\ State'.readyData = State.readyData
  BY <1>2, <1>4 DEF SessionType
<1>6. /\ q = Self => Contract!Asked(v)
      /\ q # Self => Contract!From("ECHO", q, v) \in {Content[e] : e \in arrived}
  <2>1. \/ Content[d].type = "ECHO" /\ Content[d].nodeId = q /\ q # Self
        \/ Content[d].type = "SEND" /\ q = Self
    BY <1>2, ThreadAssumption DEF MessageSound
  <2>2. QED
    BY <1>2, <2>1, CameAs
<1>7. Contract!CountEchoes(q, v)
  <2>1. {q} \in SUBSET {Self, q}
    OBVIOUS
  <2>2. State'.echoes = [State.echoes EXCEPT ![v] = @ \cup {q}]
    BY <1>2, <1>5 DEF counted, SessionType
  <2>3. QED
    BY <1>6, <2>1, <2>2 DEF Contract!CountEchoes
<1>8. Contract!CountReadies(q, v) /\ Contract!Send(v)
  BY <1>2, <1>3, <1>5, CountsNoReady, SendsNothing
<1>9. Contract!DecideReady(v) /\ Contract!CommitOnce(v)
  BY <1>3, <1>5 DEF Contract!DecideReady, Contract!CommitOnce
<1>10. QED
  BY <1>2, <1>3, <1>7, <1>8, <1>9, Handles

LEMMA CountReadyAllowed ==
    ASSUME ThreadsInv, NEW th \in Thread, CountReady(th) PROVE ContractStep
<1> DEFINE d == thread[th].datagram
           v == Payload(th)
           q == Sender(th)
           counted == [State.readies EXCEPT ![v] = State.readies[v] \cup {q}]
<1>1. /\ thread[th].pc \in InSession /\ thread[th].pc \in HandlesReady
      /\ thread[th].pc # "idle"
  BY DEF CountReady, At, InSession, HandlesReady
<1>2. /\ Session(th) = State /\ State \in SessionType
      /\ d \in Datagram /\ d \in arrived /\ v \in Data /\ q \in Node
      /\ MessageSound(d) /\ message[d].type = "READY"
      /\ v = Content[d].data /\ q = message[d].nodeId
  BY <1>1, SessionIsState, StateType, HandlerValues
  DEF ThreadsInv, ThreadSound, Payload, Sender
<1>3. /\ SetSession(th, "readies", counted)
      /\ UNCHANGED <<arrived, pool, sent, log>>
  BY <1>2 DEF CountReady
<1> HIDE DEF counted
<1>4. State' = [State EXCEPT !.readies = counted]
  BY <1>1, <1>3, SetSessionEffect
<1>5. /\ State'.readies = counted /\ State'.echoes = State.echoes
      /\ State'.readyData = State.readyData
  BY <1>2, <1>4 DEF SessionType
<1>6. /\ q = Self => State'.readyData = v
      /\ q # Self => Contract!From("READY", q, v) \in {Content[e] : e \in arrived}
  <2>1. \/ Content[d].type = "READY" /\ Content[d].nodeId = q /\ q # Self
        \/ State.readyData = v /\ q = Self
    BY <1>2, ThreadAssumption DEF MessageSound
  <2>2. QED
    BY <1>2, <1>5, <2>1, CameAs
<1>7. Contract!CountReadies(q, v)
  <2>1. {q} \in SUBSET {Self, q}
    OBVIOUS
  <2>2. State'.readies = [State.readies EXCEPT ![v] = @ \cup {q}]
    BY <1>2, <1>5 DEF counted, SessionType
  <2>3. QED
    BY <1>6, <2>1, <2>2 DEF Contract!CountReadies
<1>8. Contract!CountEchoes(q, v) /\ Contract!Send(v)
  BY <1>2, <1>3, <1>5, CountsNoEcho, SendsNothing
<1>9. Contract!DecideReady(v) /\ Contract!CommitOnce(v)
  BY <1>3, <1>5 DEF Contract!DecideReady, Contract!CommitOnce
<1>10. QED
  BY <1>2, <1>3, <1>7, <1>8, <1>9, Handles

LEMMA DecidingAllowed ==
    ASSUME ThreadsInv, NEW th \in Thread, thread[th].pc \in InSession,
           State.readyData = NoData, SetSession(th, "readyData", Payload(th)),
           UNCHANGED <<arrived, pool, sent, log>>,
           \/ Cardinality(State.echoes[Payload(th)]) >= EchoTarget
           \/ Cardinality(State.readies[Payload(th)]) > t
    PROVE  ContractStep
<1> DEFINE v == Payload(th)
<1>1. v \in Data /\ State \in SessionType
  <2>1. thread[th].pc # "idle"
    BY DEF InSession, HandlesEcho, HandlesReady
  <2>2. QED
    BY <2>1, HandlerValues, StateType DEF ThreadsInv
<1> HIDE DEF v
<1>2. State' = [State EXCEPT !.readyData = v]
  BY SetSessionEffect DEF v
<1>3. /\ State'.readyData = v /\ State'.echoes = State.echoes
      /\ State'.readies = State.readies
  BY <1>1, <1>2 DEF SessionType
<1>4. State.readies[v] \ {Self} = State.readies[v]
  BY <1>1, ThreadAssumption DEF ThreadsInv, SessionSound
<1>5. Contract!DecideReady(v)
  BY <1>3, <1>4, ContractCardinality DEF Contract!DecideReady, v
<1>6. /\ Contract!CountEchoes(Self, v) /\ Contract!CountReadies(Self, v)
      /\ Contract!Send(v) /\ Contract!CommitOnce(v)
  BY <1>1, <1>3, CountsNoEcho, CountsNoReady, SendsNothing DEF Contract!CommitOnce
<1>7. QED
  BY <1>1, <1>5, <1>6, Handles, ThreadAssumption

LEMMA ExchangesAllowed ==
    ASSUME ThreadsInv, NEW th \in Thread,
           ExchangeOnEcho(th) \/ ExchangeOnReady(th)
    PROVE  ContractStep
<1>1. /\ thread[th].pc \in {"exchangeOnEcho", "exchangeOnReady"}
      /\ UNCHANGED <<arrived, pool, sent, log>>
  BY DEF ExchangeOnEcho, ExchangeOnReady, At
<1>2. thread[th].pc \in InSession /\ thread[th].pc # "idle"
  BY <1>1 DEF InSession, HandlesEcho, HandlesReady
<1>3. Session(th) = State
  BY <1>2, SessionIsState
<1>4. CASE State.readyData # NoData
  BY <1>1, <1>3, <1>4, LocalStutters DEF ExchangeOnEcho, ExchangeOnReady
<1>5. CASE State.readyData = NoData
  <2>1. SetSession(th, "readyData", Payload(th))
    BY <1>3, <1>5 DEF ExchangeOnEcho, ExchangeOnReady
  <2>2. thread[th].pc = "exchangeOnEcho"
          => Cardinality(State.echoes[Payload(th)]) >= EchoTarget
    BY DEF ThreadsInv, ThreadSound
  <2>3. thread[th].pc = "exchangeOnReady" => Readies(th) > t
    <3>1. thread[th].pc = "exchangeOnReady"
            => thread[th].count > t /\ thread[th].count <= Readies(th)
      BY DEF ThreadsInv, ThreadSound, HandlesReady
    <3>2. thread[th].count \in Nat /\ Readies(th) \in Nat
      <4>1. /\ thread[th].count \in Counts /\ Payload(th) \in Data
            /\ State \in SessionType
        BY <1>2, HandlerValues, StateType DEF ThreadsInv, ThreadRecord
      <4>2. State.readies[Payload(th)] \in SUBSET Node
        BY <4>1 DEF SessionType
      <4>3. QED
        BY <4>1, <4>2, SetSize DEF Counts, Readies
    <3>3. QED
      BY <3>1, <3>2, NodeNumbers
  <2>4. QED
    BY <1>1, <1>2, <1>5, <2>1, <2>2, <2>3, DecidingAllowed DEF Readies
<1>6. QED
  BY <1>4, <1>5

LEMMA ExchangeDeliveredAllowed ==
    ASSUME ThreadsInv, NEW th \in Thread, ExchangeDelivered(th)
    PROVE  ContractStep
<1>1. /\ thread[th].pc \in InSession
      /\ UNCHANGED <<arrived, pool, sent, log>>
  BY DEF ExchangeDelivered, At, InSession, HandlesReady
<1>2. CASE counters' = counters
  BY <1>1, <1>2, LocalStutters
<1>3. CASE SetSession(th, "delivered", TRUE)
  <2>1. State' = [State EXCEPT !.delivered = TRUE]
    BY <1>1, <1>3, SetSessionEffect
  <2>2. /\ State'.echoes = State.echoes /\ State'.readies = State.readies
        /\ State'.readyData = State.readyData
    BY <2>1, StateType DEF ThreadsInv, SessionType
  <2>3. QED
    BY <1>1, <2>2, Stutters
<1>4. QED
  BY <1>2, <1>3 DEF ExchangeDelivered

LEMMA DeliverAllowed ==
    ASSUME ThreadsInv, NEW th \in Thread, Deliver(th) PROVE ContractStep
<1> DEFINE v == Payload(th)
<1>1. /\ thread[th].pc = "deliver" /\ log' = Append(log, v)
      /\ UNCHANGED <<arrived, pool, counters, sent>>
  BY DEF Deliver, At
<1>2. /\ thread[th].pc \in InSession /\ thread[th].pc # "idle"
      /\ thread[th].pc \in HandlesReady \ {"countReady"}
  BY <1>1 DEF InSession, HandlesReady
<1>3. v \in Data /\ State \in SessionType /\ thread[th].count \in Counts
  BY <1>2, HandlerValues, StateType DEF ThreadsInv, ThreadRecord
<1>4. State' = State
  BY <1>1, SameSession
<1>5. log = <<>> /\ log' = <<v>>
  <2>1. log = <<>>
    BY <1>1 DEF ThreadsInv, ThreadSound
  <2> HIDE DEF v
  <2>2. Append(<<>>, v) = <<v>>
    BY <1>3
  <2>3. QED
    BY <1>1, <2>1, <2>2
<1>6. Cardinality(State.readies[v]) > 2 * t
  <2>1. /\ thread[th].count > 2 * t
        /\ thread[th].count <= Cardinality(State.readies[v])
    BY <1>1, <1>2, NodeNumbers DEF ThreadsInv, ThreadSound, Readies
  <2>2. State.readies[v] \in SUBSET Node
    BY <1>3 DEF SessionType
  <2>3. thread[th].count \in Nat /\ Cardinality(State.readies[v]) \in Nat
    BY <1>3, <2>2, SetSize DEF Counts
  <2>4. QED
    BY <2>1, <2>3, NodeNumbers
<1> HIDE DEF v
<1>7. Contract!CommitOnce(v)
  BY <1>4, <1>5, <1>6, ContractCardinality DEF Contract!CommitOnce
<1>8. /\ Contract!CountEchoes(Self, v) /\ Contract!CountReadies(Self, v)
      /\ Contract!DecideReady(v) /\ Contract!Send(v)
  BY <1>1, <1>3, <1>4, CountsNoEcho, CountsNoReady, SendsNothing
  DEF Contract!DecideReady
<1>9. QED
  BY <1>1, <1>3, <1>7, <1>8, Handles, ThreadAssumption

LEMMA NextAllowed == ThreadsInv /\ [Next]_vars => ContractStep
<1> SUFFICES ASSUME ThreadsInv, [Next]_vars PROVE ContractStep
  OBVIOUS
<1>1. CASE \E d \in Datagram : Arrive(d)
  BY <1>1, ArriveAllowed
<1>2. ASSUME NEW th \in Thread, ThreadStep(th) PROVE ContractStep
  <2>1. CASE \E d \in Datagram : RunSend(th, d)
    BY <2>1, RunSendAllowed
  <2>2. CASE \/ \E d \in Datagram : StartMessage(th, d)
             \/ GetSession(th) \/ HandleSend(th) \/ HandleEcho(th)
             \/ HandleReady(th) \/ TestReadySent(th) \/ TestDelivered(th)
    BY <2>2, LocalStutters
    DEF StartMessage, GetSession, HandleSend, HandleEcho, HandleReady,
        TestReadySent, TestDelivered
  <2>3. CASE AddSession(th)
    BY <2>3, AddSessionSame, Stutters DEF AddSession
  <2>4. CASE CountEcho(th) \/ CountReady(th)
    BY <2>4, CountEchoAllowed, CountReadyAllowed
  <2>5. CASE ExchangeOnEcho(th) \/ ExchangeOnReady(th)
    BY <2>5, ExchangesAllowed
  <2>6. CASE ExchangeDelivered(th) \/ Deliver(th)
    BY <2>6, ExchangeDeliveredAllowed, DeliverAllowed
  <2>7. QED
    BY <1>2, <2>1, <2>2, <2>3, <2>4, <2>5, <2>6 DEF ThreadStep
<1>3. CASE UNCHANGED nodeVars
  BY <1>3, LocalStutters DEF nodeVars
<1>4. QED
  BY <1>1, <1>2, <1>3 DEF Next, ConnectToRedis, LoseRedis, vars

(* However many threads run the node and whatever messages arrive, the     *)
(* node takes only steps the contract allows: READY and commit are decided *)
(* once, on counts the counters still cover, and what is sent was decided. *)
THEOREM ThreadsKeepContract == Spec => KeepsContract
<1>1. Init => Contract!Init
  <2> SUFFICES ASSUME Init PROVE Contract!Init
    OBVIOUS
  <2>1. State = NewSession
    BY DEF Init, State
  <2>2. {Content[d] : d \in arrived} = {}
    BY DEF Init
  <2>3. QED
    BY <2>1, <2>2 DEF Init, NewSession, Contract!Init
<1>2. ThreadsInv /\ [Next]_vars => [Contract!Next]_(Contract!vars)
  BY NextAllowed DEF ContractStep
<1>3. QED
  BY <1>1, <1>2, ThreadsInvInit, ThreadsInvNext, PTL
  DEF Spec, KeepsContract, Contract!Spec

-----------------------------------------------------------------------------
(* No quorum is lost.                                                      *)

Enters == {"getSession", "addSession", "dispatch"}

\* Datagram d waits for a thread, or its thread has yet to count it.
Held(d, counting) ==
    \/ d \in posted
    \/ \E u \in Thread : /\ thread[u].datagram = d
                         /\ thread[u].pc \in Enters \cup {counting}

Parsed(d) == [type |-> Content[d].type, nodeId |-> Content[d].nodeId]

\* Whose ECHO follows from d: its sender's, or this node's own after a SEND.
Echoing(d) == IF Content[d].type = "SEND" THEN Self ELSE Content[d].nodeId

EchoTracked(d) ==
    Content[d].type # "READY" =>
        \/ Echoing(d) \in State.echoes[Content[d].data]
        \/ State.readyData # NoData
        \/ /\ Held(d, "countEcho")
           /\ message[d].type = "ECHO" => message[d].nodeId = Echoing(d)

ReadyTracked(d) ==
    Content[d].type = "READY" =>
        \/ Content[d].nodeId \in State.readies[Content[d].data]
        \/ State.delivered
        \/ Held(d, "countReady") /\ message[d] = Parsed(d)

CountsOwnReady(u) ==
    /\ thread[u].pc \in Enters \cup {"countReady"}
    /\ message[thread[u].datagram] = [type |-> "READY", nodeId |-> Self]

(* Each message that came, and the READY of the node itself, is counted,   *)
(* will be, or comes too late to matter.                                   *)
MessagesTracked ==
    /\ \A d \in Datagram \ arrived : message[d] = Parsed(d)
    /\ \A d \in arrived : EchoTracked(d) /\ ReadyTracked(d)
    /\ \/ State.readyData = NoData
       \/ Self \in State.readies[State.readyData]
       \/ State.delivered
       \/ \E u \in Thread : CountsOwnReady(u)

WillDecide(u) ==
    \/ thread[u].pc \in {"exchangeOnEcho", "exchangeOnReady"}
    \/ thread[u].pc = "testReadySent" /\ thread[u].count > t

WillCommit(u) ==
    \/ /\ thread[u].pc \in {"testReadySent", "exchangeOnReady",
                            "testDelivered", "exchangeDelivered"}
       /\ thread[u].count > 2 * t
    \/ \E c \in thread[u].interrupted : c > 2 * t

\* A thread that has come to the commit test has seen to READY.
SawToReady(u) ==
    /\ \/ thread[u].interrupted # {}
       \/ /\ thread[u].pc \in {"testDelivered", "exchangeDelivered"}
          /\ thread[u].count > t
       => State.readyData # NoData
    /\ \A c, e \in thread[u].interrupted : c = e

(* A quorum has been acted on, or is in the hands of a thread that will.   *)
QuorumsSeen ==
    /\ \/ \E v \in Data : \/ Cardinality(State.echoes[v]) >= EchoTarget
                          \/ Cardinality(State.readies[v]) > t
       => State.readyData # NoData \/ \E u \in Thread : WillDecide(u)
    /\ (\E v \in Data : Cardinality(State.readies[v]) > 2 * t)
       => State.delivered \/ \E u \in Thread : WillCommit(u)
    /\ State.delivered
       => log # <<>> \/ \E u \in Thread : thread[u].pc = "deliver"
    /\ State.delivered => State.readyData # NoData
    /\ \A u \in Thread : SawToReady(u)

NothingLost == MessagesTracked /\ QuorumsSeen

-----------------------------------------------------------------------------
(* What a step of one thread does to it.                                   *)

\* A step of th, which handles d, as the others see it.
StepOf(th, d) ==
    /\ UNCHANGED <<arrived, posted>>
    /\ \A u \in Thread : u # th => thread'[u] = thread[u]
    /\ thread'[th].datagram = d \/ thread'[th] = Idle
    /\ \A e \in Datagram : e # d => message'[e] = message[e]
    /\ SessionGrows
    /\ log # <<>> => log' # <<>>

\* What th had in hand is done, or still in its hands.
HandsOn(th) ==
    /\ WillDecide(th) => State'.readyData # NoData \/ WillDecide(th)'
    /\ WillCommit(th) => State'.delivered \/ WillCommit(th)'
    /\ thread[th].pc = "deliver" => log' # <<>>
    /\ CountsOwnReady(th)
       => Self \in State'.readies[State'.readyData] \/ State'.delivered
          \/ CountsOwnReady(th)'
    /\ SawToReady(th)'

\* What th brings about is in its hands.
TakesOn(th) ==
    /\ \A v \in Data : Cardinality(State'.echoes[v]) >= EchoTarget
         => Cardinality(State.echoes[v]) >= EchoTarget \/ WillDecide(th)'
    /\ \A v \in Data : Cardinality(State'.readies[v]) > t
         => Cardinality(State.readies[v]) > t \/ WillDecide(th)'
    /\ \A v \in Data : Cardinality(State'.readies[v]) > 2 * t
         => Cardinality(State.readies[v]) > 2 * t \/ WillCommit(th)'
    /\ State'.readyData = State.readyData \/ CountsOwnReady(th)'
    /\ State'.delivered
         => State.delivered
            \/ (thread'[th].pc = "deliver" /\ State'.readyData # NoData)

LEMMA StepKeepsMessages ==
    ASSUME ThreadsInv, MessagesTracked, NEW th \in Thread, NEW d \in Datagram,
           thread[th].datagram = d, thread[th].pc # "idle", StepOf(th, d),
           EchoTracked(d)', ReadyTracked(d)', HandsOn(th), TakesOn(th)
    PROVE  MessagesTracked'
<1>1. \A u \in Thread : u # th => thread[u].datagram # d
  BY DEF ThreadsInv, Apart
<1>2. /\ arrived' = arrived /\ posted' = posted /\ arrived \subseteq Datagram
      /\ d \in arrived \ posted
  BY DEF StepOf, ThreadsInv, NodeTypeOK, ThreadSound
<1>3. ASSUME NEW e \in Datagram, e # d, NEW step, Held(e, step)
      PROVE  Held(e, step)'
  <2>1. CASE e \in posted
    BY <1>2, <2>1 DEF Held
  <2>2. ASSUME NEW u \in Thread, thread[u].datagram = e,
               thread[u].pc \in Enters \cup {step}
        PROVE  Held(e, step)'
    <3>1. u # th /\ thread'[u] = thread[u]
      BY <1>3, <2>2 DEF StepOf
    <3>2. QED
      BY <2>2, <3>1 DEF Held
  <2>3. QED
    BY <1>3, <2>1, <2>2 DEF Held
<1>4. ASSUME NEW e \in arrived PROVE EchoTracked(e)' /\ ReadyTracked(e)'
  <2>1. CASE e = d
    BY <2>1
  <2>2. CASE e # d
    <3>1. /\ e \in Datagram /\ message'[e] = message[e] /\ Content[e].data \in Data
          /\ EchoTracked(e) /\ ReadyTracked(e)
      BY <1>2, <2>2, ThreadAssumption DEF StepOf, MessagesTracked
    <3>2. EchoTracked(e)'
      BY <1>3, <2>2, <3>1 DEF EchoTracked, StepOf, SessionGrows
    <3>3. ReadyTracked(e)'
      BY <1>3, <2>2, <3>1 DEF ReadyTracked, StepOf, SessionGrows
    <3>4. QED
      BY <3>2, <3>3
  <2>3. QED
    BY <2>1, <2>2
<1>5. \A e \in Datagram \ arrived' : message'[e] = Parsed(e)
  BY <1>2 DEF MessagesTracked, StepOf
<1>6. \/ State'.readyData = NoData
      \/ Self \in State'.readies[State'.readyData]
      \/ State'.delivered
      \/ \E u \in Thread : CountsOwnReady(u)'
  <2>1. CASE State'.readyData # State.readyData
    BY <2>1 DEF TakesOn
  <2>2. CASE State'.readyData = State.readyData
    <3>1. CASE State.readyData = NoData
      BY <2>2, <3>1
    <3>2. CASE State.delivered
      BY <3>2 DEF StepOf, SessionGrows
    <3>3. CASE Self \in State.readies[State.readyData] /\ State.readyData # NoData
      <4>1. State.readyData \in Data
        BY <3>3, StateType DEF ThreadsInv, SessionType
      <4>2. QED
        BY <2>2, <3>3, <4>1 DEF StepOf, SessionGrows
    <3>4. CASE CountsOwnReady(th)
      BY <3>4 DEF HandsOn
    <3>5. ASSUME NEW u \in Thread, u # th, CountsOwnReady(u)
          PROVE  CountsOwnReady(u)'
      <4>1. thread[u].pc # "idle"
        BY <3>5 DEF CountsOwnReady, Enters
      <4>2. thread[u].datagram \in Datagram
        BY <4>1 DEF ThreadsInv, NodeTypeOK, ThreadSound
      <4>3. QED
        BY <1>1, <3>5, <4>2 DEF CountsOwnReady, StepOf
    <3>6. QED
      BY <3>1, <3>2, <3>3, <3>4, <3>5 DEF MessagesTracked
  <2>3. QED
    BY <2>1, <2>2
<1>7. QED
  BY <1>2, <1>4, <1>5, <1>6 DEF MessagesTracked, Parsed

LEMMA StepKeepsQuorums ==
    ASSUME ThreadsInv, QuorumsSeen, NEW th \in Thread, NEW d \in Datagram,
           StepOf(th, d), HandsOn(th), TakesOn(th)
    PROVE  QuorumsSeen'
<1>1. \A u \in Thread : u # th => thread'[u] = thread[u]
  BY DEF StepOf
<1>2. /\ State.readyData # NoData => State'.readyData # NoData
      /\ State.delivered => State'.delivered
  BY DEF StepOf, SessionGrows
<1>3. ASSUME NEW u \in Thread, WillDecide(u)
      PROVE  State'.readyData # NoData \/ WillDecide(u)'
  <2>1. CASE u = th
    BY <1>3, <2>1 DEF HandsOn
  <2>2. CASE u # th
    BY <1>1, <1>3, <2>2 DEF WillDecide
  <2>3. QED
    BY <2>1, <2>2
<1>4. ASSUME NEW u \in Thread, WillCommit(u)
      PROVE  State'.delivered \/ WillCommit(u)'
  <2>1. CASE u = th
    BY <1>4, <2>1 DEF HandsOn
  <2>2. CASE u # th
    BY <1>1, <1>4, <2>2 DEF WillCommit
  <2>3. QED
    BY <2>1, <2>2
<1>5. (\E v \in Data : \/ Cardinality(State'.echoes[v]) >= EchoTarget
                       \/ Cardinality(State'.readies[v]) > t)
      => State'.readyData # NoData \/ \E u \in Thread : WillDecide(u)'
  BY <1>2, <1>3 DEF TakesOn, QuorumsSeen
<1>6. (\E v \in Data : Cardinality(State'.readies[v]) > 2 * t)
      => State'.delivered \/ \E u \in Thread : WillCommit(u)'
  BY <1>2, <1>4 DEF TakesOn, QuorumsSeen
<1>7. State'.delivered
      => log' # <<>> \/ \E u \in Thread : thread'[u].pc = "deliver"
  <2>1. ASSUME NEW u \in Thread, thread[u].pc = "deliver"
        PROVE  log' # <<>> \/ thread'[u].pc = "deliver"
    BY <1>1, <2>1 DEF HandsOn
  <2>2. log # <<>> => log' # <<>>
    BY DEF StepOf
  <2>3. State'.delivered => State.delivered \/ thread'[th].pc = "deliver"
    BY DEF TakesOn
  <2>4. QED
    BY <2>1, <2>2, <2>3 DEF QuorumsSeen
<1>8. State'.delivered => State'.readyData # NoData
  BY <1>2 DEF TakesOn, QuorumsSeen
<1>9. ASSUME NEW u \in Thread PROVE SawToReady(u)'
  <2>1. CASE u = th
    BY <2>1 DEF HandsOn
  <2>2. CASE u # th
    BY <1>1, <1>2, <2>2 DEF QuorumsSeen, SawToReady
  <2>3. QED
    BY <2>1, <2>2
<1>10. QED
  BY <1>5, <1>6, <1>7, <1>8, <1>9 DEF QuorumsSeen

\* A message object that became READY did so after READY was decided.
LEMMA ReadyObject ==
    ASSUME ThreadsInv, SessionGrows, NEW d \in Datagram, message[d].type = "READY"
    PROVE  EchoTracked(d)'
<1>1. MessageSound(d)
  BY DEF ThreadsInv
<1>2. Content[d].type = "READY" \/ State.readyData = Content[d].data
  BY <1>1 DEF MessageSound
<1>3. State.readyData = Content[d].data => State'.readyData # NoData
  BY ThreadAssumption DEF SessionGrows
<1>4. QED
  BY <1>2, <1>3 DEF EchoTracked

LEMMA OtherObject ==
    ASSUME ThreadsInv, NEW d \in Datagram, message[d].type # "READY"
    PROVE  ReadyTracked(d)'
<1>1. MessageSound(d)
  BY DEF ThreadsInv
<1>2. Content[d].type # "READY"
  BY <1>1 DEF MessageSound
<1>3. QED
  BY <1>2 DEF ReadyTracked

\* What its thread has passed need not be counted any more.
LEMMA Passed ==
    ASSUME ThreadsInv, MessagesTracked, SessionGrows, NEW th \in Thread,
           NEW d \in Datagram, thread[th].datagram = d, thread[th].pc # "idle",
           thread[th].pc \notin Enters
    PROVE  /\ thread[th].pc # "countEcho" => EchoTracked(d)'
           /\ thread[th].pc # "countReady" => ReadyTracked(d)'
<1>1. d \in arrived \ posted /\ Content[d].data \in Data
  BY ThreadAssumption DEF ThreadsInv, ThreadSound
<1>2. \A u \in Thread : u # th => thread[u].datagram # d
  BY DEF ThreadsInv, Apart
<1>3. \A step : thread[th].pc # step => ~Held(d, step)
  BY <1>1, <1>2 DEF Held
<1>4. EchoTracked(d) /\ ReadyTracked(d)
  BY <1>1 DEF MessagesTracked
<1>5. thread[th].pc # "countEcho" => EchoTracked(d)'
  BY <1>1, <1>3, <1>4 DEF EchoTracked, SessionGrows
<1>6. thread[th].pc # "countReady" => ReadyTracked(d)'
  BY <1>1, <1>3, <1>4 DEF ReadyTracked, SessionGrows
<1>7. QED
  BY <1>5, <1>6

LEMMA OthersStay ==
    ASSUME NodeTypeOK, NEW th \in Thread, NEW me, MovesTo(th, me)
    PROVE  \A u \in Thread : u # th => thread'[u] = thread[u]
  BY DEF MovesTo, NodeTypeOK

(* A thread that returns from processMessage goes on with the count that   *)
(* waited for it.                                                          *)
LEMMA ReturnHandsOn ==
    ASSUME ThreadsInv, QuorumsSeen, SessionGrows, NEW th \in Thread,
           NEW d \in Datagram, thread[th].datagram = d, Return(th)
    PROVE  /\ \A u \in Thread : u # th => thread'[u] = thread[u]
           /\ thread'[th].datagram = d \/ thread'[th] = Idle
           /\ (\E c \in thread[th].interrupted : c > 2 * t) => WillCommit(th)'
           /\ SawToReady(th)'
<1>1. NodeTypeOK /\ SawToReady(th)
  BY DEF ThreadsInv, QuorumsSeen
<1>2. thread[th] \in ThreadRecord
  BY <1>1 DEF NodeTypeOK, ThreadRecord
<1>3. CASE thread[th].interrupted = {}
  <2>1. thread' = [thread EXCEPT ![th] = Idle]
    BY <1>3 DEF Return
  <2>2. thread'[th] = Idle /\ \A u \in Thread : u # th => thread'[u] = thread[u]
    BY <1>1, <2>1 DEF NodeTypeOK
  <2>3. SawToReady(th)'
    BY <2>2, IdleRecord DEF SawToReady
  <2>4. QED
    BY <1>3, <2>2, <2>3
<1>4. CASE thread[th].interrupted # {}
  <2>1. PICK c \in thread[th].interrupted : MovesTo(th, Resumed(th, c))
    <3>1. ~MovesTo(th, Idle)
      <4>1. thread'[th].pc = "testDelivered"
        <5>1. thread' = [thread EXCEPT
                           ![th].pc = "testDelivered",
                           ![th].count = CHOOSE c \in thread[th].interrupted : TRUE,
                           ![th].interrupted = {}]
          BY <1>4 DEF Return
        <5>2. thread \in [Thread -> ThreadRecord]
          BY <1>1 DEF NodeTypeOK, ThreadRecord
        <5> DEFINE c == CHOOSE c \in thread[th].interrupted : TRUE
        <5> HIDE DEF c
        <5>3. thread' = [thread EXCEPT ![th].pc = "testDelivered", ![th].count = c,
                                       ![th].interrupted = {}]
          BY <5>1 DEF c
        <5>4. QED
          BY <5>2, <5>3 DEF ThreadRecord
      <4>2. QED
        BY <1>1, <4>1, Moved, IdleRecord
    <3>2. QED
      BY <1>1, <3>1, ReturnMoves
  <2>2. thread'[th] = Resumed(th, c)
    BY <1>1, <2>1, Moved
  <2>3. /\ thread'[th].pc = "testDelivered" /\ thread'[th].count = c
        /\ thread'[th].interrupted = {} /\ thread'[th].datagram = d
    BY <1>2, <2>2 DEF Resumed, ThreadRecord
  <2>4. \A e \in thread[th].interrupted : e = c
    BY <1>1 DEF SawToReady
  <2>5. (\E e \in thread[th].interrupted : e > 2 * t) => WillCommit(th)'
    BY <2>3, <2>4 DEF WillCommit
  <2>6. State'.readyData # NoData
    BY <1>1, <1>4 DEF SawToReady, SessionGrows
  <2>7. SawToReady(th)'
    BY <2>3, <2>6 DEF SawToReady
  <2>8. QED
    BY <1>1, <2>1, <2>3, <2>5, <2>7, OthersStay
<1>5. QED
  BY <1>3, <1>4

LEMMA StepLosesNothing ==
    ASSUME ThreadsInv, NothingLost, NEW th \in Thread, NEW d \in Datagram,
           thread[th].datagram = d, thread[th].pc # "idle", StepOf(th, d),
           EchoTracked(d)', ReadyTracked(d)', HandsOn(th), TakesOn(th)
    PROVE  NothingLost'
  BY StepKeepsMessages, StepKeepsQuorums DEF NothingLost

\* A step that leaves the session as it is.
LEMMA QuietLosesNothing ==
    ASSUME ThreadsInv, NothingLost, NEW th \in Thread, NEW d \in Datagram,
           thread[th].datagram = d, thread[th].pc # "idle", State' = State,
           StepOf(th, d), EchoTracked(d)', ReadyTracked(d)', HandsOn(th)
    PROVE  NothingLost'
<1>1. /\ State'.echoes = State.echoes /\ State'.readies = State.readies
      /\ State'.readyData = State.readyData /\ State'.delivered = State.delivered
  OBVIOUS
<1>2. TakesOn(th)
  BY <1>1 DEF TakesOn
<1>3. QED
  BY <1>2, StepLosesNothing

\* A step that leaves the session as it is brings nothing about.
LEMMA QuietTakesOn ==
    ASSUME State' = State, NEW th \in Thread
    PROVE  TakesOn(th)
<1>1. /\ State'.echoes = State.echoes /\ State'.readies = State.readies
      /\ State'.readyData = State.readyData /\ State'.delivered = State.delivered
  OBVIOUS
<1>2. QED
  BY <1>1 DEF TakesOn

LEMMA GotoOutcome ==
    ASSUME NodeTypeOK, NEW th \in Thread, NEW step \in Steps, Goto(th, step)
    PROVE  /\ thread'[th].pc = step
           /\ thread'[th].datagram = thread[th].datagram
           /\ thread'[th].count = thread[th].count
           /\ thread'[th].interrupted = thread[th].interrupted
           /\ \A u \in Thread : u # th => thread'[u] = thread[u]
<1>1. thread \in [Thread -> ThreadRecord]
  BY DEF NodeTypeOK, ThreadRecord
<1>2. QED
  BY <1>1 DEF Goto, ThreadRecord

(* A thread on its way to the counters still has its message with it.      *)
LEMMA EnteringLosesNothing ==
    ASSUME ThreadsInv, NothingLost, NEW th \in Thread, NEW d \in Datagram,
           thread[th].datagram = d, thread[th].pc \in Enters,
           thread'[th].datagram = d,
           thread'[th].interrupted = thread[th].interrupted,
           \/ thread'[th].pc \in Enters
           \/ thread'[th].pc = "countEcho" /\ message[d].type = "ECHO"
           \/ thread'[th].pc = "countReady" /\ message[d].type = "READY",
           \A u \in Thread : u # th => thread'[u] = thread[u],
           State' = State, SessionGrows,
           UNCHANGED <<arrived, posted, message, log>>
    PROVE  NothingLost'
<1>1. thread[th].pc # "idle"
  BY DEF Enters
<1>2. /\ d \in arrived /\ EchoTracked(d) /\ ReadyTracked(d) /\ SawToReady(th)
  BY <1>1 DEF ThreadsInv, ThreadSound, NothingLost, MessagesTracked, QuorumsSeen
<1>3. EchoTracked(d)'
  <2>1. CASE message[d].type = "READY"
    BY <2>1, ReadyObject
  <2>2. CASE message[d].type # "READY"
    <3>1. Held(d, "countEcho")' /\ Held(d, "countEcho")
      BY <2>2 DEF Held
    <3>2. message'[d] = message[d] /\ arrived' = arrived
      OBVIOUS
    <3>3. QED
      BY <1>2, <3>1, <3>2 DEF EchoTracked
  <2>3. QED
    BY <2>1, <2>2
<1>4. ReadyTracked(d)'
  <2>1. CASE message[d].type # "READY"
    BY <2>1, OtherObject
  <2>2. CASE message[d].type = "READY"
    <3>1. Held(d, "countReady")' /\ Held(d, "countReady")
      BY <2>2 DEF Held
    <3>2. message'[d] = message[d] /\ arrived' = arrived
      OBVIOUS
    <3>3. QED
      BY <1>2, <3>1, <3>2 DEF ReadyTracked, Parsed
  <2>3. QED
    BY <2>1, <2>2
<1>5. HandsOn(th)
  <2>1. ~WillDecide(th) /\ thread[th].pc # "deliver"
    BY DEF WillDecide, Enters
  <2>2. WillCommit(th) => WillCommit(th)'
    BY DEF WillCommit, Enters
  <2>3. CountsOwnReady(th) => CountsOwnReady(th)'
    BY DEF CountsOwnReady
  <2>4. SawToReady(th)'
    BY <1>2 DEF SawToReady, Enters
  <2>5. QED
    BY <2>1, <2>2, <2>3, <2>4 DEF HandsOn
<1>6. StepOf(th, d)
  BY DEF StepOf
<1>7. QED
  BY <1>1, <1>3, <1>4, <1>5, <1>6, QuietTakesOn, StepLosesNothing

(* A thread may return if it has seen to what it counted.                  *)
LEMMA ReturnLosesNothing ==
    ASSUME ThreadsInv, NothingLost, NEW th \in Thread, NEW d \in Datagram,
           thread[th].datagram = d, thread[th].pc \in InSession, Return(th),
           UNCHANGED <<arrived, posted, message>>, SessionGrows, TakesOn(th),
           log # <<>> => log' # <<>>,
           EchoTracked(d)', ReadyTracked(d)',
           thread[th].pc = "exchangeOnEcho" => State'.readyData # NoData,
           thread[th].pc \notin {"testReadySent", "exchangeOnReady"},
           thread[th].pc \in {"testDelivered", "exchangeDelivered"}
              => State'.delivered \/ ~(thread[th].count > 2 * t),
           thread[th].pc = "deliver" => log' # <<>>,
           CountsOwnReady(th) => State'.delivered
    PROVE  NothingLost'
<1>1. thread[th].pc # "idle" /\ QuorumsSeen
  BY DEF InSession, HandlesEcho, HandlesReady, NothingLost
<1>2. /\ \A u \in Thread : u # th => thread'[u] = thread[u]
      /\ thread'[th].datagram = d \/ thread'[th] = Idle
      /\ (\E c \in thread[th].interrupted : c > 2 * t) => WillCommit(th)'
      /\ SawToReady(th)'
  BY <1>1, ReturnHandsOn
<1>3. StepOf(th, d)
  BY <1>2 DEF StepOf
<1>4. HandsOn(th)
  <2>1. WillDecide(th) => State'.readyData # NoData
    BY DEF WillDecide
  <2>2. WillCommit(th) => State'.delivered \/ WillCommit(th)'
    BY <1>2 DEF WillCommit
  <2>3. QED
    BY <1>2, <2>1, <2>2 DEF HandsOn
<1>5. QED
  BY <1>1, <1>3, <1>4, StepLosesNothing

LEMMA LookUpLosesNothing ==
    ASSUME ThreadsInv, NothingLost, NEW th \in Thread,
           GetSession(th) \/ AddSession(th)
    PROVE  NothingLost'
<1>1. thread[th].pc \in Enters /\ thread[th].pc # "idle"
  BY DEF GetSession, AddSession, At, Enters
<1>2. thread \in [Thread -> ThreadRecord] /\ thread[th].datagram \in Datagram
  BY <1>1, HandlerValues DEF ThreadsInv, NodeTypeOK, ThreadRecord
<1>3. /\ thread'[th].datagram = thread[th].datagram /\ thread'[th].pc \in Enters
      /\ thread'[th].interrupted = thread[th].interrupted
      /\ \A u \in Thread : u # th => thread'[u] = thread[u]
  BY <1>2 DEF GetSession, AddSession, Enters, ThreadRecord
<1>4. State' = State /\ SessionGrows
  BY AddSessionSame, SameSession DEF GetSession
<1>5. UNCHANGED <<arrived, posted, message, log>>
  BY DEF GetSession, AddSession
<1>6. QED
  BY <1>1, <1>2, <1>3, <1>4, <1>5, EnteringLosesNothing

LEMMA HandleEchoLosesNothing ==
    ASSUME ThreadsInv, NothingLost, NEW th \in Thread, HandleEcho(th)
    PROVE  NothingLost'
<1>1. /\ thread[th].pc = "dispatch" /\ message[thread[th].datagram].type = "ECHO"
      /\ UNCHANGED <<arrived, posted, message, pool, counters, log>>
  BY DEF HandleEcho, At
<1>2. /\ thread[th].pc \in Enters /\ thread[th].pc \in InSession
      /\ thread[th].pc # "idle"
  BY <1>1 DEF Enters, InSession
<1>3. PICK d \in Datagram : d = thread[th].datagram
  BY <1>2, HandlerValues
<1>4. State' = State /\ SessionGrows /\ Session(th) = State
  BY <1>1, <1>2, SameSession, SessionIsState
<1>5. CASE Goto(th, "countEcho")
  BY <1>1, <1>2, <1>3, <1>4, <1>5, GotoOutcome, EnteringLosesNothing
  DEF ThreadsInv, Steps
<1>6. CASE State.readyData # NoData /\ Return(th)
  <2>1. EchoTracked(d)' /\ ReadyTracked(d)'
    BY <1>1, <1>3, <1>4, <1>6, OtherObject DEF EchoTracked
  <2>2. TakesOn(th)
    BY <1>4, QuietTakesOn
  <2>3. ~CountsOwnReady(th)
    BY <1>1 DEF CountsOwnReady
  <2>4. /\ UNCHANGED <<arrived, posted, message>>
        /\ thread[th].pc \notin {"exchangeOnEcho", "testReadySent", "exchangeOnReady",
                                 "testDelivered", "exchangeDelivered", "deliver"}
        /\ log # <<>> => log' # <<>>
    BY <1>1
  <2>5. QED
    BY <1>2, <1>3, <1>4, <1>6, <2>1, <2>2, <2>3, <2>4, ReturnLosesNothing
<1>7. QED
  BY <1>4, <1>5, <1>6 DEF HandleEcho

LEMMA HandleReadyLosesNothing ==
    ASSUME ThreadsInv, NothingLost, NEW th \in Thread, HandleReady(th)
    PROVE  NothingLost'
<1>1. /\ thread[th].pc = "dispatch" /\ message[thread[th].datagram].type = "READY"
      /\ UNCHANGED <<arrived, posted, message, pool, counters, log>>
  BY DEF HandleReady, At
<1>2. /\ thread[th].pc \in Enters /\ thread[th].pc \in InSession
      /\ thread[th].pc # "idle"
  BY <1>1 DEF Enters, InSession
<1>3. PICK d \in Datagram : d = thread[th].datagram
  BY <1>2, HandlerValues
<1>4. State' = State /\ SessionGrows /\ Session(th) = State
  BY <1>1, <1>2, SameSession, SessionIsState
<1>5. CASE Goto(th, "countReady")
  BY <1>1, <1>2, <1>3, <1>4, <1>5, GotoOutcome, EnteringLosesNothing
  DEF ThreadsInv, Steps
<1>6. CASE State.delivered /\ Return(th)
  <2>1. EchoTracked(d)' /\ ReadyTracked(d)'
    BY <1>1, <1>3, <1>4, <1>6, ReadyObject DEF ReadyTracked
  <2>2. TakesOn(th)
    BY <1>4, QuietTakesOn
  <2>3. /\ UNCHANGED <<arrived, posted, message>>
        /\ thread[th].pc \notin {"exchangeOnEcho", "testReadySent", "exchangeOnReady",
                                 "testDelivered", "exchangeDelivered", "deliver"}
        /\ log # <<>> => log' # <<>>
    BY <1>1
  <2>4. QED
    BY <1>2, <1>3, <1>4, <1>6, <2>1, <2>2, <2>3, ReturnLosesNothing
<1>7. QED
  BY <1>4, <1>5, <1>6 DEF HandleReady

LEMMA HandleSendLosesNothing ==
    ASSUME ThreadsInv, NothingLost, NEW th \in Thread, HandleSend(th)
    PROVE  NothingLost'
<1>1. /\ thread[th].pc = "dispatch" /\ message[thread[th].datagram].type = "SEND"
      /\ message' = [message EXCEPT ![thread[th].datagram] =
                        [type |-> "ECHO", nodeId |-> Self]]
      /\ Goto(th, "getSession")
      /\ UNCHANGED <<arrived, posted, pool, counters, log>>
  BY DEF HandleSend, At, Broadcast
<1>2. thread[th].pc # "idle"
  BY <1>1
<1>3. PICK d \in Datagram : d = thread[th].datagram
  BY <1>2, HandlerValues
<1>4. State' = State /\ SessionGrows
  BY <1>1, SameSession
<1>5. /\ thread'[th].pc = "getSession" /\ thread'[th].datagram = d
      /\ thread'[th].interrupted = thread[th].interrupted
      /\ \A u \in Thread : u # th => thread'[u] = thread[u]
  BY <1>1, <1>3, GotoOutcome DEF ThreadsInv, Steps
<1>6. /\ message'[d] = [type |-> "ECHO", nodeId |-> Self]
      /\ \A e \in Datagram : e # d => message'[e] = message[e]
  BY <1>1, <1>3 DEF ThreadsInv, NodeTypeOK
<1>7. Content[d].type = "SEND"
  <2>1. MessageSound(d)
    BY DEF ThreadsInv
  <2>2. QED
    BY <1>1, <1>3, <2>1 DEF MessageSound
<1>8. EchoTracked(d)'
  <2>1. Held(d, "countEcho")'
    BY <1>5 DEF Held, Enters
  <2>2. QED
    BY <1>6, <1>7, <2>1 DEF EchoTracked, Echoing
<1>9. ReadyTracked(d)'
  BY <1>7 DEF ReadyTracked
<1>10. StepOf(th, d)
  BY <1>1, <1>4, <1>5, <1>6 DEF StepOf
<1>11. HandsOn(th)
  <2>1. /\ ~WillDecide(th) /\ thread[th].pc # "deliver"
        /\ ~CountsOwnReady(th)
    BY <1>1 DEF WillDecide, CountsOwnReady
  <2>2. WillCommit(th) => WillCommit(th)'
    BY <1>1, <1>5 DEF WillCommit
  <2>3. SawToReady(th)'
    BY <1>4, <1>5 DEF SawToReady, NothingLost, QuorumsSeen
  <2>4. QED
    BY <2>1, <2>2, <2>3 DEF HandsOn
<1>12. TakesOn(th)
  BY <1>4, QuietTakesOn
<1>13. QED
  BY <1>2, <1>3, <1>8, <1>9, <1>10, <1>11, <1>12, StepLosesNothing

\* What counting an ECHO or a READY does to the session.
LEMMA CountEchoEffect ==
    ASSUME ThreadsInv, NEW th \in Thread, CountEcho(th),
           NEW v \in Data, v = Payload(th)
    PROVE  /\ SessionGrows /\ State' \in SessionType
           /\ State'.echoes[v] = State.echoes[v] \cup {Sender(th)}
           /\ \A w \in Data : w # v => State'.echoes[w] = State.echoes[w]
           /\ State'.readies = State.readies
           /\ State'.readyData = State.readyData
           /\ State'.delivered = State.delivered
<1> DEFINE counted == [State.echoes EXCEPT ![v] = State.echoes[v] \cup {Sender(th)}]
<1>1. /\ thread[th].pc = "countEcho" /\ thread[th].pc \in InSession
      /\ thread[th].pc # "idle"
  BY DEF CountEcho, At, InSession, HandlesEcho
<1>2. /\ Session(th) = State /\ State \in SessionType /\ Sender(th) \in Node
  BY <1>1, SessionIsState, StateType, HandlerValues DEF ThreadsInv
<1>3. SetSession(th, "echoes", counted) /\ pool' = pool
  BY <1>2 DEF CountEcho
<1>4. /\ counted \in [Data -> SUBSET Node]
      /\ counted[v] = State.echoes[v] \cup {Sender(th)}
      /\ \A w \in Data : w # v => counted[w] = State.echoes[w]
  BY <1>2 DEF SessionType
<1> HIDE DEF counted
<1>5. State' = [State EXCEPT !.echoes = counted]
  BY <1>1, <1>3, SetSessionEffect
<1>6. /\ State'.echoes = counted /\ State'.readies = State.readies
      /\ State'.readyData = State.readyData /\ State'.delivered = State.delivered
      /\ State' \in SessionType
  BY <1>2, <1>4, <1>5 DEF SessionType
<1>7. SessionGrows
  BY <1>3, <1>4, <1>6 DEF SessionGrows
<1>8. QED
  BY <1>4, <1>6, <1>7

LEMMA CountReadyEffect ==
    ASSUME ThreadsInv, NEW th \in Thread, CountReady(th),
           NEW v \in Data, v = Payload(th)
    PROVE  /\ SessionGrows /\ State' \in SessionType
           /\ State'.readies[v] = State.readies[v] \cup {Sender(th)}
           /\ \A w \in Data : w # v => State'.readies[w] = State.readies[w]
           /\ State'.echoes = State.echoes
           /\ State'.readyData = State.readyData
           /\ State'.delivered = State.delivered
<1> DEFINE counted == [State.readies EXCEPT ![v] = State.readies[v] \cup {Sender(th)}]
<1>1. /\ thread[th].pc = "countReady" /\ thread[th].pc \in InSession
      /\ thread[th].pc # "idle"
  BY DEF CountReady, At, InSession, HandlesReady
<1>2. /\ Session(th) = State /\ State \in SessionType /\ Sender(th) \in Node
  BY <1>1, SessionIsState, StateType, HandlerValues DEF ThreadsInv
<1>3. SetSession(th, "readies", counted) /\ pool' = pool
  BY <1>2 DEF CountReady
<1>4. /\ counted \in [Data -> SUBSET Node]
      /\ counted[v] = State.readies[v] \cup {Sender(th)}
      /\ \A w \in Data : w # v => counted[w] = State.readies[w]
  BY <1>2 DEF SessionType
<1> HIDE DEF counted
<1>5. State' = [State EXCEPT !.readies = counted]
  BY <1>1, <1>3, SetSessionEffect
<1>6. /\ State'.readies = counted /\ State'.echoes = State.echoes
      /\ State'.readyData = State.readyData /\ State'.delivered = State.delivered
      /\ State' \in SessionType
  BY <1>2, <1>4, <1>5 DEF SessionType
<1>7. SessionGrows
  BY <1>3, <1>4, <1>6 DEF SessionGrows
<1>8. QED
  BY <1>4, <1>6, <1>7

LEMMA CountEchoLosesNothing ==
    ASSUME ThreadsInv, NothingLost, NEW th \in Thread, CountEcho(th)
    PROVE  NothingLost'
<1>1. /\ thread[th].pc = "countEcho" /\ thread[th].pc \in InSession
      /\ thread[th].pc \in HandlesEcho
      /\ thread[th].pc # "idle" /\ thread[th].pc \notin Enters
      /\ UNCHANGED <<arrived, posted, message, log>>
  BY DEF CountEcho, At, InSession, HandlesEcho, Enters
<1>2. PICK d \in Datagram : d = thread[th].datagram
  BY <1>1, HandlerValues
<1>3. PICK v \in Data : v = Payload(th)
  BY <1>1, HandlerValues
<1>4. /\ SessionGrows
      /\ State'.echoes[v] = State.echoes[v] \cup {Sender(th)}
      /\ \A w \in Data : w # v => State'.echoes[w] = State.echoes[w]
      /\ State'.readies = State.readies
      /\ State'.readyData = State.readyData
      /\ State'.delivered = State.delivered
  BY <1>3, CountEchoEffect
<1>5. /\ message[d].type = "ECHO" /\ Sender(th) = message[d].nodeId
      /\ v = Content[d].data /\ d \in arrived
  BY <1>1, <1>2, <1>3 DEF ThreadsInv, ThreadSound, Sender, Payload
<1>6. EchoTracked(d)'
  <2>1. EchoTracked(d)
    BY <1>5 DEF NothingLost, MessagesTracked
  <2>2. QED
    BY <1>4, <1>5, <2>1 DEF EchoTracked
<1>7. ReadyTracked(d)'
  BY <1>5, OtherObject
<1>8. Session(th) = State
  BY <1>1, SessionIsState
<1>9. \/ Cardinality(State'.echoes[v]) >= EchoTarget /\ Goto(th, "exchangeOnEcho")
      \/ ~(Cardinality(State'.echoes[v]) >= EchoTarget) /\ Return(th)
  BY <1>3, <1>4, <1>8 DEF CountEcho
<1>10. WillDecide(th)' \/ ~(Cardinality(State'.echoes[v]) >= EchoTarget) => TakesOn(th)
  BY <1>4 DEF TakesOn
<1>11. CASE Goto(th, "exchangeOnEcho")
  <2>1. /\ thread'[th].pc = "exchangeOnEcho" /\ thread'[th].datagram = d
        /\ thread'[th].interrupted = thread[th].interrupted
        /\ \A u \in Thread : u # th => thread'[u] = thread[u]
    BY <1>2, <1>11, GotoOutcome DEF ThreadsInv, Steps
  <2>2. StepOf(th, d)
    BY <1>1, <1>4, <2>1 DEF StepOf
  <2>3. HandsOn(th)
    <3>1. /\ ~WillDecide(th) /\ thread[th].pc # "deliver"
          /\ ~CountsOwnReady(th)
      BY <1>1 DEF WillDecide, CountsOwnReady, Enters
    <3>2. WillCommit(th) => WillCommit(th)'
      BY <1>1, <2>1 DEF WillCommit
    <3>3. SawToReady(th)'
      BY <1>4, <2>1 DEF SawToReady, NothingLost, QuorumsSeen
    <3>4. QED
      BY <3>1, <3>2, <3>3 DEF HandsOn
  <2>4. TakesOn(th)
    BY <1>10, <2>1 DEF WillDecide
  <2>5. QED
    BY <1>1, <1>2, <1>6, <1>7, <2>2, <2>3, <2>4, StepLosesNothing
<1>12. CASE ~(Cardinality(State'.echoes[v]) >= EchoTarget) /\ Return(th)
  <2>1. TakesOn(th) /\ ~CountsOwnReady(th)
    BY <1>1, <1>10, <1>12 DEF CountsOwnReady, Enters
  <2>2. /\ thread[th].pc \notin {"exchangeOnEcho", "testReadySent", "exchangeOnReady",
                                 "testDelivered", "exchangeDelivered", "deliver"}
        /\ log # <<>> => log' # <<>>
    BY <1>1
  <2>3. QED
    BY <1>1, <1>2, <1>4, <1>6, <1>7, <1>12, <2>1, <2>2, ReturnLosesNothing
<1>13. QED
  BY <1>9, <1>11, <1>12

LEMMA CountReadyLosesNothing ==
    ASSUME ThreadsInv, NothingLost, NEW th \in Thread, CountReady(th)
    PROVE  NothingLost'
<1>1. /\ thread[th].pc = "countReady" /\ thread[th].pc \in InSession
      /\ thread[th].pc \in HandlesReady
      /\ thread[th].pc # "idle" /\ thread[th].pc \notin Enters
      /\ UNCHANGED <<arrived, posted, message, log>>
  BY DEF CountReady, At, InSession, HandlesReady, Enters
<1>2. PICK d \in Datagram : d = thread[th].datagram
  BY <1>1, HandlerValues
<1>3. PICK v \in Data : v = Payload(th)
  BY <1>1, HandlerValues
<1>4. /\ SessionGrows
      /\ State'.readies[v] = State.readies[v] \cup {Sender(th)}
      /\ \A w \in Data : w # v => State'.readies[w] = State.readies[w]
      /\ State'.echoes = State.echoes
      /\ State'.readyData = State.readyData
      /\ State'.delivered = State.delivered
  BY <1>3, CountReadyEffect
<1>5. /\ message[d].type = "READY" /\ Sender(th) = message[d].nodeId
      /\ v = Content[d].data /\ d \in arrived /\ MessageSound(d)
  BY <1>1, <1>2, <1>3 DEF ThreadsInv, ThreadSound, Sender, Payload
<1>6. EchoTracked(d)'
  BY <1>4, <1>5, ReadyObject
<1>7. ReadyTracked(d)'
  <2>1. ReadyTracked(d)
    BY <1>5 DEF NothingLost, MessagesTracked
  <2>2. QED
    BY <1>4, <1>5, <2>1 DEF ReadyTracked, Parsed
<1>8. Session(th) = State /\ thread \in [Thread -> ThreadRecord]
  BY <1>1, SessionIsState DEF ThreadsInv, NodeTypeOK, ThreadRecord
<1>9. /\ thread'[th].pc = "testReadySent" /\ thread'[th].datagram = d
      /\ thread'[th].interrupted = thread[th].interrupted
      /\ thread'[th].count = Cardinality(State'.readies[v])
      /\ \A u \in Thread : u # th => thread'[u] = thread[u]
  <2>1. thread' = [thread EXCEPT ![th].pc = "testReadySent",
                                 ![th].count = Cardinality(State'.readies[v])]
    BY <1>3, <1>4, <1>8 DEF CountReady
  <2>2. QED
    BY <1>2, <1>8, <2>1 DEF ThreadRecord
<1>10. StepOf(th, d)
  BY <1>1, <1>4, <1>9 DEF StepOf
<1>11. HandsOn(th)
  <2>1. ~WillDecide(th) /\ thread[th].pc # "deliver"
    BY <1>1 DEF WillDecide
  <2>2. WillCommit(th) => WillCommit(th)'
    BY <1>1, <1>9 DEF WillCommit
  <2>3. CountsOwnReady(th) => Self \in State'.readies[State'.readyData]
    <3>1. CountsOwnReady(th) => message[d] = [type |-> "READY", nodeId |-> Self]
      BY <1>2 DEF CountsOwnReady
    <3>2. CountsOwnReady(th) => State.readyData = v /\ Sender(th) = Self
      BY <1>5, <3>1, ThreadAssumption DEF MessageSound
    <3>3. QED
      BY <1>4, <3>2
  <2>4. SawToReady(th)'
    BY <1>4, <1>9 DEF SawToReady, NothingLost, QuorumsSeen
  <2>5. QED
    BY <2>1, <2>2, <2>3, <2>4 DEF HandsOn
<1>12. TakesOn(th)
  <2>1. Cardinality(State'.readies[v]) > t => WillDecide(th)'
    BY <1>9 DEF WillDecide
  <2>2. Cardinality(State'.readies[v]) > 2 * t => WillCommit(th)'
    BY <1>9 DEF WillCommit
  <2>3. QED
    BY <1>4, <2>1, <2>2 DEF TakesOn
<1>13. QED
  BY <1>1, <1>2, <1>6, <1>7, <1>10, <1>11, <1>12, StepLosesNothing

\* A thread that goes on after its count has nothing left to be counted.
LEMMA GoingOnLosesNothing ==
    ASSUME ThreadsInv, NothingLost, NEW th \in Thread, NEW step \in Steps,
           thread[th].pc \in HandlesReady \ {"countReady"}, Goto(th, step),
           UNCHANGED <<arrived, posted, message, log>>, SessionGrows,
           HandsOn(th), TakesOn(th)
    PROVE  NothingLost'
<1>1. /\ thread[th].pc # "idle" /\ thread[th].pc \notin Enters
      /\ thread[th].pc \notin {"countEcho", "countReady"}
  BY DEF HandlesReady, Enters
<1>2. PICK d \in Datagram : d = thread[th].datagram
  BY <1>1, HandlerValues
<1>3. EchoTracked(d)' /\ ReadyTracked(d)'
  BY <1>1, <1>2, Passed DEF NothingLost
<1>4. StepOf(th, d)
  BY <1>2, GotoOutcome DEF StepOf, ThreadsInv
<1>5. QED
  BY <1>1, <1>2, <1>3, <1>4, StepLosesNothing

\* So has a thread that returns after it.
LEMMA LeavingLosesNothing ==
    ASSUME ThreadsInv, NothingLost, NEW th \in Thread,
           thread[th].pc \in {"testDelivered", "exchangeDelivered", "deliver"},
           Return(th), UNCHANGED <<arrived, posted, message, pool, counters>>,
           log # <<>> => log' # <<>>,
           thread[th].pc # "deliver"
              => State.delivered \/ ~(thread[th].count > 2 * t),
           thread[th].pc = "deliver" => log' # <<>>
    PROVE  NothingLost'
<1>1. /\ thread[th].pc # "idle" /\ thread[th].pc \notin Enters
      /\ thread[th].pc \notin {"countEcho", "countReady"}
      /\ thread[th].pc \in InSession
  BY DEF HandlesReady, InSession, Enters
<1>2. PICK d \in Datagram : d = thread[th].datagram
  BY <1>1, HandlerValues
<1>3. State' = State /\ SessionGrows
  BY SameSession
<1>4. EchoTracked(d)' /\ ReadyTracked(d)'
  BY <1>1, <1>2, <1>3, Passed DEF NothingLost
<1>5. TakesOn(th) /\ ~CountsOwnReady(th)
  BY <1>1, <1>3, QuietTakesOn DEF CountsOwnReady
<1>6. thread[th].pc \in {"testDelivered", "exchangeDelivered"}
        => State'.delivered \/ ~(thread[th].count > 2 * t)
  BY <1>3
<1>7. /\ UNCHANGED <<arrived, posted, message>>
      /\ thread[th].pc \notin {"exchangeOnEcho", "testReadySent", "exchangeOnReady"}
  OBVIOUS
<1>8. QED
  BY <1>1, <1>2, <1>3, <1>4, <1>5, <1>6, <1>7, ReturnLosesNothing

LEMMA TestReadySentLosesNothing ==
    ASSUME ThreadsInv, NothingLost, NEW th \in Thread, TestReadySent(th)
    PROVE  NothingLost'
<1>1. /\ thread[th].pc = "testReadySent" /\ thread[th].pc \in InSession
      /\ thread[th].pc \in HandlesReady \ {"countReady"}
      /\ UNCHANGED <<arrived, posted, message, pool, counters, log>>
  BY DEF TestReadySent, At, InSession, HandlesReady
<1>2. State' = State /\ SessionGrows /\ Session(th) = State
  BY <1>1, SameSession, SessionIsState
<1>3. TakesOn(th) /\ SawToReady(th)
  BY <1>2, QuietTakesOn DEF NothingLost, QuorumsSeen
<1>4. PICK step \in {"exchangeOnReady", "testDelivered"} :
         /\ Goto(th, step)
         /\ step = "testDelivered"
              => State.readyData # NoData \/ ~(thread[th].count > t)
  BY <1>2 DEF TestReadySent
<1>5. step \in Steps
  BY <1>4 DEF Steps
<1>6. /\ thread'[th].pc = step /\ thread'[th].count = thread[th].count
      /\ thread'[th].interrupted = thread[th].interrupted
  BY <1>4, <1>5, GotoOutcome DEF ThreadsInv
<1>7. HandsOn(th)
  <2>1. WillDecide(th) => State'.readyData # NoData \/ WillDecide(th)'
    BY <1>1, <1>2, <1>4, <1>6 DEF WillDecide
  <2>2. WillCommit(th) => WillCommit(th)'
    BY <1>1, <1>4, <1>6 DEF WillCommit
  <2>3. ~CountsOwnReady(th) /\ thread[th].pc # "deliver"
    BY <1>1 DEF CountsOwnReady, Enters
  <2>4. SawToReady(th)'
    BY <1>2, <1>3, <1>4, <1>6 DEF SawToReady
  <2>5. QED
    BY <2>1, <2>2, <2>3, <2>4 DEF HandsOn
<1>8. QED
  BY <1>1, <1>2, <1>3, <1>4, <1>5, <1>7, GoingOnLosesNothing

LEMMA TestDeliveredLosesNothing ==
    ASSUME ThreadsInv, NothingLost, NEW th \in Thread, TestDelivered(th)
    PROVE  NothingLost'
<1>1. /\ thread[th].pc = "testDelivered" /\ thread[th].pc \in InSession
      /\ thread[th].pc \in HandlesReady \ {"countReady"}
      /\ UNCHANGED <<arrived, posted, message, pool, counters, log>>
  BY DEF TestDelivered, At, InSession, HandlesReady
<1>2. State' = State /\ SessionGrows /\ Session(th) = State
  BY <1>1, SameSession, SessionIsState
<1>3. TakesOn(th) /\ SawToReady(th)
  BY <1>2, QuietTakesOn DEF NothingLost, QuorumsSeen
<1>4. CASE Goto(th, "exchangeDelivered")
  <2>1. /\ thread'[th].pc = "exchangeDelivered"
        /\ thread'[th].count = thread[th].count
        /\ thread'[th].interrupted = thread[th].interrupted
    BY <1>4, GotoOutcome DEF ThreadsInv, Steps
  <2>2. HandsOn(th)
    <3>1. /\ ~WillDecide(th) /\ thread[th].pc # "deliver"
          /\ ~CountsOwnReady(th)
      BY <1>1 DEF WillDecide, CountsOwnReady, Enters
    <3>2. WillCommit(th) => WillCommit(th)'
      BY <1>1, <2>1 DEF WillCommit
    <3>3. SawToReady(th)'
      BY <1>1, <1>2, <1>3, <2>1 DEF SawToReady
    <3>4. QED
      BY <3>1, <3>2, <3>3 DEF HandsOn
  <2>3. QED
    BY <1>1, <1>2, <1>3, <1>4, <2>2, GoingOnLosesNothing DEF Steps
<1>5. CASE Return(th) /\ (State.delivered \/ ~(thread[th].count > 2 * t))
  BY <1>1, <1>5, LeavingLosesNothing
<1>6. QED
  BY <1>2, <1>4, <1>5, NodeNumbers DEF TestDelivered

LEMMA ExchangeDeliveredLosesNothing ==
    ASSUME ThreadsInv, NothingLost, NEW th \in Thread, ExchangeDelivered(th)
    PROVE  NothingLost'
<1>1. /\ thread[th].pc = "exchangeDelivered" /\ thread[th].pc \in InSession
      /\ thread[th].pc \in HandlesReady \ {"countReady"}
      /\ thread[th].pc # "idle"
      /\ UNCHANGED <<arrived, posted, message, pool, log>>
  BY DEF ExchangeDelivered, At, InSession, HandlesReady
<1>2. Session(th) = State /\ State \in SessionType
  BY <1>1, SessionIsState, StateType DEF ThreadsInv
<1>3. CASE State.delivered
  BY <1>1, <1>2, <1>3, LeavingLosesNothing DEF ExchangeDelivered
<1>4. CASE ~State.delivered
  <2>1. SetSession(th, "delivered", TRUE) /\ Goto(th, "deliver") /\ pool' = pool
    BY <1>1, <1>2, <1>4 DEF ExchangeDelivered
  <2>2. State' = [State EXCEPT !.delivered = TRUE]
    <3>1. thread[th].pc \in InSession /\ pool' = pool
      BY <1>1
    <3>2. QED
      BY <2>1, <3>1, SetSessionEffect
  <2>3. /\ State'.echoes = State.echoes /\ State'.readies = State.readies
        /\ State'.readyData = State.readyData /\ State'.delivered
    BY <1>2, <2>2 DEF SessionType
  <2>4. SessionGrows
    BY <1>1, <2>3 DEF SessionGrows
  <2>5. /\ thread'[th].pc = "deliver" /\ thread'[th].count = thread[th].count
        /\ thread'[th].interrupted = thread[th].interrupted
    BY <2>1, GotoOutcome DEF ThreadsInv, Steps
  <2>6. SawToReady(th) /\ State.readyData # NoData
    <3>1. SawToReady(th)
      BY DEF NothingLost, QuorumsSeen
    <3>2. thread[th].count > t
      <4>1. thread[th].count > 2 * t /\ thread[th].count \in Counts
        BY <1>1, HandlerValues, NodeNumbers DEF ThreadsInv, ThreadSound, ThreadRecord
      <4>2. thread[th].count \in Nat
        BY <4>1, SetSize DEF Counts
      <4>3. QED
        BY <4>1, <4>2, NodeNumbers
    <3>3. QED
      BY <1>1, <3>1, <3>2 DEF SawToReady
  <2>7. HandsOn(th)
    <3>1. SawToReady(th)'
      BY <2>3, <2>5, <2>6 DEF SawToReady
    <3>2. ~WillDecide(th) /\ thread[th].pc # "deliver"
      BY <1>1 DEF WillDecide
    <3>3. QED
      BY <2>3, <3>1, <3>2 DEF HandsOn
  <2>8. TakesOn(th)
    BY <2>3, <2>5, <2>6 DEF TakesOn
  <2>9. QED
    BY <1>1, <2>1, <2>4, <2>7, <2>8, GoingOnLosesNothing DEF Steps
<1>5. QED
  BY <1>3, <1>4

LEMMA DeliverLosesNothing ==
    ASSUME ThreadsInv, NothingLost, NEW th \in Thread, Deliver(th)
    PROVE  NothingLost'
<1>1. /\ thread[th].pc = "deliver" /\ Return(th)
      /\ log' = Append(log, Payload(th))
      /\ UNCHANGED <<arrived, posted, message, pool, counters>>
  BY DEF Deliver, At
<1>2. log' # <<>>
  <2>1. Payload(th) \in Data /\ log \in Seq(Data)
    BY <1>1, HandlerValues DEF ThreadsInv, NodeTypeOK
  <2>2. QED
    BY <1>1, <2>1
<1>3. QED
  BY <1>1, <1>2, LeavingLosesNothing

-----------------------------------------------------------------------------
(* READY is decided.                                                       *)

(* Who decides READY has its own READY to count, and its count of others   *)
(* waits meanwhile.                                                        *)
LEMMA DecidingLosesNothing ==
    ASSUME ThreadsInv, NothingLost, NEW th \in Thread,
           thread[th].pc \in {"exchangeOnEcho", "exchangeOnReady"},
           State.readyData = NoData,
           SetSession(th, "readyData", Payload(th)), Broadcast(th, "READY"),
           UNCHANGED <<arrived, posted, pool, log>>,
           thread'[th].pc = "getSession",
           thread'[th].datagram = thread[th].datagram,
           thread'[th].interrupted
             = IF thread[th].pc = "exchangeOnEcho" THEN {} ELSE {thread[th].count},
           \A u \in Thread : u # th => thread'[u] = thread[u]
    PROVE  NothingLost'
<1>1. /\ thread[th].pc \in InSession
      /\ thread[th].pc # "idle" /\ thread[th].pc \notin Enters
      /\ thread[th].pc \notin {"countEcho", "countReady"}
  BY DEF InSession, HandlesEcho, HandlesReady, Enters
<1>2. PICK d \in Datagram : d = thread[th].datagram
  BY <1>1, HandlerValues
<1>3. PICK v \in Data : v = Payload(th)
  BY <1>1, HandlerValues
<1>4. State' = [State EXCEPT !.readyData = v]
  BY <1>1, <1>3, SetSessionEffect
<1>5. /\ State'.echoes = State.echoes /\ State'.readies = State.readies
      /\ State'.readyData = v /\ State'.readyData # NoData
      /\ State'.delivered = State.delivered
  BY <1>4, StateType, ThreadAssumption DEF SessionType, ThreadsInv
<1>6. SessionGrows
  BY <1>5 DEF SessionGrows
<1>7. EchoTracked(d)' /\ ReadyTracked(d)'
  BY <1>1, <1>2, <1>6, Passed DEF NothingLost
<1>8. /\ message'[d] = [type |-> "READY", nodeId |-> Self]
      /\ \A e \in Datagram : e # d => message'[e] = message[e]
  BY <1>2 DEF Broadcast, ThreadsInv, NodeTypeOK
<1>9. StepOf(th, d)
  BY <1>2, <1>6, <1>8 DEF StepOf
<1>10. CountsOwnReady(th)'
  BY <1>2, <1>8 DEF CountsOwnReady, Enters
<1>11. thread[th].interrupted = {}
  BY DEF NothingLost, QuorumsSeen, SawToReady
<1>12. HandsOn(th)
  <2>1. WillCommit(th) => WillCommit(th)'
    BY <1>11 DEF WillCommit
  <2>2. SawToReady(th)'
    BY <1>5 DEF SawToReady
  <2>3. thread[th].pc # "deliver" /\ ~CountsOwnReady(th)
    BY <1>1 DEF CountsOwnReady
  <2>4. QED
    BY <1>5, <2>1, <2>2, <2>3 DEF HandsOn
<1>13. TakesOn(th)
  BY <1>5, <1>10 DEF TakesOn
<1>14. QED
  BY <1>1, <1>2, <1>7, <1>9, <1>12, <1>13, StepLosesNothing

LEMMA ExchangeOnEchoLosesNothing ==
    ASSUME ThreadsInv, NothingLost, NEW th \in Thread, ExchangeOnEcho(th)
    PROVE  NothingLost'
<1>1. /\ thread[th].pc = "exchangeOnEcho" /\ thread[th].pc \in InSession
      /\ thread[th].pc \in HandlesEcho
      /\ thread[th].pc # "idle" /\ thread[th].pc \notin Enters
      /\ UNCHANGED <<arrived, posted, pool, log>>
  BY DEF ExchangeOnEcho, At, InSession, HandlesEcho, Enters
<1>2. Session(th) = State
  BY <1>1, SessionIsState
<1>3. CASE State.readyData = NoData
  <2>1. /\ SetSession(th, "readyData", Payload(th)) /\ Broadcast(th, "READY")
        /\ Goto(th, "getSession")
    BY <1>2, <1>3 DEF ExchangeOnEcho
  <2>2. thread[th].interrupted = {}
    BY <1>3 DEF NothingLost, QuorumsSeen, SawToReady
  <2>3. /\ thread'[th].pc = "getSession"
        /\ thread'[th].datagram = thread[th].datagram
        /\ thread'[th].interrupted = {}
        /\ \A u \in Thread : u # th => thread'[u] = thread[u]
    BY <2>1, <2>2, GotoOutcome DEF ThreadsInv, Steps
  <2>4. QED
    BY <1>1, <1>3, <2>1, <2>3, DecidingLosesNothing
<1>4. CASE State.readyData # NoData
  <2>1. Return(th) /\ UNCHANGED <<arrived, posted, message, pool, counters, log>>
    BY <1>1, <1>2, <1>4 DEF ExchangeOnEcho
  <2>2. PICK d \in Datagram : d = thread[th].datagram
    BY <1>1, HandlerValues
  <2>3. State' = State /\ SessionGrows
    BY <2>1, SameSession
  <2>4. EchoTracked(d)' /\ ReadyTracked(d)'
    BY <1>1, <2>2, <2>3, Passed DEF NothingLost
  <2>5. TakesOn(th) /\ ~CountsOwnReady(th)
    BY <1>1, <2>3, QuietTakesOn DEF CountsOwnReady
  <2>6. /\ thread[th].pc \notin {"testReadySent", "exchangeOnReady",
                                 "testDelivered", "exchangeDelivered", "deliver"}
        /\ State'.readyData # NoData
        /\ log # <<>> => log' # <<>>
    BY <1>1, <1>4, <2>1, <2>3
  <2>7. QED
    BY <1>1, <2>1, <2>2, <2>3, <2>4, <2>5, <2>6, ReturnLosesNothing
<1>5. QED
  BY <1>3, <1>4

LEMMA ExchangeOnReadyLosesNothing ==
    ASSUME ThreadsInv, NothingLost, NEW th \in Thread, ExchangeOnReady(th)
    PROVE  NothingLost'
<1>1. /\ thread[th].pc = "exchangeOnReady" /\ thread[th].pc \in InSession
      /\ thread[th].pc \in HandlesReady \ {"countReady"}
      /\ UNCHANGED <<arrived, posted, pool, log>>
  BY DEF ExchangeOnReady, At, InSession, HandlesReady
<1>2. Session(th) = State /\ thread \in [Thread -> ThreadRecord]
  BY <1>1, SessionIsState DEF ThreadsInv, NodeTypeOK, ThreadRecord
<1>3. CASE State.readyData = NoData
  <2>1. /\ SetSession(th, "readyData", Payload(th)) /\ Broadcast(th, "READY")
        /\ thread' = [thread EXCEPT ![th].pc = "getSession",
                                    ![th].interrupted = {thread[th].count}]
    BY <1>2, <1>3 DEF ExchangeOnReady
  <2>2. /\ thread'[th].pc = "getSession"
        /\ thread'[th].datagram = thread[th].datagram
        /\ thread'[th].interrupted = {thread[th].count}
        /\ \A u \in Thread : u # th => thread'[u] = thread[u]
    BY <1>2, <2>1 DEF ThreadRecord
  <2>3. QED
    BY <1>1, <1>3, <2>1, <2>2, DecidingLosesNothing
<1>4. CASE State.readyData # NoData
  <2>1. /\ Goto(th, "testDelivered")
        /\ UNCHANGED <<arrived, posted, message, pool, counters, log>>
    BY <1>1, <1>2, <1>4 DEF ExchangeOnReady
  <2>2. State' = State /\ SessionGrows
    BY <2>1, SameSession
  <2>3. /\ thread'[th].pc = "testDelivered"
        /\ thread'[th].count = thread[th].count
        /\ thread'[th].interrupted = thread[th].interrupted
    BY <2>1, GotoOutcome DEF ThreadsInv, Steps
  <2>4. HandsOn(th)
    <3>1. WillCommit(th) => WillCommit(th)'
      BY <1>1, <2>3 DEF WillCommit
    <3>2. ~CountsOwnReady(th) /\ thread[th].pc # "deliver"
      BY <1>1 DEF CountsOwnReady, Enters
    <3>3. SawToReady(th)'
      BY <1>4, <2>2, <2>3 DEF SawToReady, NothingLost, QuorumsSeen
    <3>4. QED
      BY <1>4, <2>2, <3>1, <3>2, <3>3 DEF HandsOn
  <2>5. QED
    BY <1>1, <2>1, <2>2, <2>4, QuietTakesOn, GoingOnLosesNothing DEF Steps
<1>5. QED
  BY <1>3, <1>4

-----------------------------------------------------------------------------
(* Messages come and are taken up, and the invariant as a whole.           *)

LEMMA HeldStays ==
    ASSUME NEW d, NEW step, Held(d, step), posted \subseteq posted',
           thread' = thread
    PROVE  Held(d, step)'
  BY DEF Held

LEMMA QuorumsStay ==
    ASSUME QuorumsSeen, State' = State, log' = log, thread' = thread
    PROVE  QuorumsSeen'
<1>1. /\ State'.echoes = State.echoes /\ State'.readies = State.readies
      /\ State'.readyData = State.readyData /\ State'.delivered = State.delivered
  OBVIOUS
<1>2. \A u \in Thread : /\ WillDecide(u)' = WillDecide(u)
                        /\ WillCommit(u)' = WillCommit(u)
                        /\ SawToReady(u)' = SawToReady(u)
  BY <1>1 DEF WillDecide, WillCommit, SawToReady
<1>3. QED
  BY <1>1, <1>2 DEF QuorumsSeen

LEMMA ArriveLosesNothing ==
    ASSUME ThreadsInv, NothingLost, NEW d \in Datagram, Arrive(d)
    PROVE  NothingLost'
<1>1. /\ arrived' = arrived \cup {d} /\ posted' = posted \cup {d}
      /\ d \notin arrived
      /\ UNCHANGED <<message, pool, counters, thread, log>>
  BY DEF Arrive
<1>2. State' = State
  BY <1>1, SameSession
<1>3. ASSUME NEW e \in arrived PROVE EchoTracked(e)' /\ ReadyTracked(e)'
  <2>1. EchoTracked(e) /\ ReadyTracked(e)
    BY DEF NothingLost, MessagesTracked
  <2>2. \A step : Held(e, step) => Held(e, step)'
    BY <1>1, HeldStays
  <2>3. QED
    BY <1>1, <1>2, <2>1, <2>2 DEF EchoTracked, ReadyTracked, Parsed
<1>4. EchoTracked(d)' /\ ReadyTracked(d)'
  <2>1. \A step : Held(d, step)'
    BY <1>1 DEF Held
  <2>2. message'[d] = Parsed(d)
    BY <1>1 DEF NothingLost, MessagesTracked
  <2>3. message'[d].type = "ECHO" => message'[d].nodeId = Echoing(d)
    BY <2>2 DEF Parsed, Echoing
  <2>4. QED
    BY <2>1, <2>2, <2>3 DEF EchoTracked, ReadyTracked, Parsed
<1>5. MessagesTracked'
  <2>1. \A e \in Datagram \ arrived' : message'[e] = Parsed(e)
    BY <1>1 DEF NothingLost, MessagesTracked
  <2>2. \A u \in Thread : CountsOwnReady(u)' = CountsOwnReady(u)
    BY <1>1 DEF CountsOwnReady
  <2>3. \/ State.readyData = NoData
        \/ Self \in State.readies[State.readyData]
        \/ State.delivered
        \/ \E u \in Thread : CountsOwnReady(u)
    BY DEF NothingLost, MessagesTracked
  <2>4. QED
    BY <1>1, <1>2, <1>3, <1>4, <2>1, <2>2, <2>3 DEF MessagesTracked, Parsed
<1>6. QED
  BY <1>1, <1>2, <1>5, QuorumsStay DEF NothingLost

LEMMA StillLosesNothing ==
    ASSUME NothingLost,
           UNCHANGED <<arrived, posted, message, pool, counters, thread, log>>
    PROVE  NothingLost'
<1>1. State' = State
  BY SameSession
<1>2. \A d \in arrived : EchoTracked(d)' /\ ReadyTracked(d)'
  BY <1>1 DEF NothingLost, MessagesTracked, EchoTracked, ReadyTracked, Held, Parsed
<1>3. \A u \in Thread : CountsOwnReady(u)' = CountsOwnReady(u)
  BY DEF CountsOwnReady
<1>4. MessagesTracked'
  BY <1>1, <1>2, <1>3 DEF NothingLost, MessagesTracked, Parsed
<1>5. QED
  BY <1>1, <1>4, QuorumsStay DEF NothingLost

LEMMA StartMessageLosesNothing ==
    ASSUME ThreadsInv, NothingLost, NEW th \in Thread, NEW d \in Datagram,
           StartMessage(th, d)
    PROVE  NothingLost'
<1>1. /\ thread[th].pc = "idle" /\ d \in posted /\ posted' = posted \ {d}
      /\ thread' = [thread EXCEPT ![th].pc = "getSession", ![th].datagram = d]
      /\ UNCHANGED <<arrived, message, pool, counters, log>>
  BY DEF StartMessage, At
<1>2. State' = State
  BY <1>1, SameSession
<1>3. thread \in [Thread -> ThreadRecord] /\ thread[th] = Idle
  BY <1>1 DEF ThreadsInv, NodeTypeOK, ThreadRecord, ThreadSound
<1>4. /\ thread'[th].pc = "getSession" /\ thread'[th].datagram = d
      /\ thread'[th].interrupted = {}
      /\ \A u \in Thread : u # th => thread'[u] = thread[u]
  BY <1>1, <1>3, IdleRecord DEF ThreadRecord
<1>5. ASSUME NEW e, NEW step \in {"countEcho", "countReady"}, Held(e, step)
      PROVE  Held(e, step)'
  <2>1. CASE e = d
    BY <1>4, <2>1 DEF Held, Enters
  <2>2. CASE e # d /\ e \in posted
    BY <1>1, <2>2 DEF Held
  <2>3. ASSUME NEW u \in Thread, thread[u].datagram = e,
               thread[u].pc \in Enters \cup {step}
        PROVE  Held(e, step)'
    <3>1. u # th
      BY <1>1, <2>3 DEF Enters
    <3>2. QED
      BY <1>4, <2>3, <3>1 DEF Held
  <2>4. QED
    BY <1>5, <2>1, <2>2, <2>3 DEF Held
<1>6. \A e \in arrived : EchoTracked(e)' /\ ReadyTracked(e)'
  <2> SUFFICES ASSUME NEW e \in arrived PROVE EchoTracked(e)' /\ ReadyTracked(e)'
    OBVIOUS
  <2>1. EchoTracked(e) /\ ReadyTracked(e)
    BY DEF NothingLost, MessagesTracked
  <2>2. /\ Held(e, "countEcho") => Held(e, "countEcho")'
        /\ Held(e, "countReady") => Held(e, "countReady")'
    BY <1>5
  <2>3. QED
    BY <1>1, <1>2, <2>1, <2>2 DEF EchoTracked, ReadyTracked, Parsed
<1>7. MessagesTracked'
  <2>1. ASSUME NEW u \in Thread, CountsOwnReady(u) PROVE CountsOwnReady(u)'
    <3>1. u # th
      BY <1>1, <2>1 DEF CountsOwnReady, Enters
    <3>2. QED
      BY <1>1, <1>4, <2>1, <3>1 DEF CountsOwnReady
  <2>2. QED
    BY <1>1, <1>2, <1>6, <2>1 DEF NothingLost, MessagesTracked, Parsed
<1>8. QuorumsSeen'
  <2>1. ~WillDecide(th) /\ ~WillCommit(th)
    BY <1>1, <1>3, IdleRecord DEF WillDecide, WillCommit
  <2>2. \A u \in Thread : /\ WillDecide(u) => WillDecide(u)'
                          /\ WillCommit(u) => WillCommit(u)'
    BY <1>4, <2>1 DEF WillDecide, WillCommit
  <2>3. \A u \in Thread : SawToReady(u)'
    BY <1>2, <1>4 DEF SawToReady, NothingLost, QuorumsSeen
  <2>4. \A u \in Thread : thread[u].pc = "deliver" => thread'[u].pc = "deliver"
    BY <1>1, <1>4
  <2>5. /\ State'.echoes = State.echoes /\ State'.readies = State.readies
        /\ State'.readyData = State.readyData /\ State'.delivered = State.delivered
    BY <1>2
  <2>6. QED
    BY <1>1, <2>2, <2>3, <2>4, <2>5 DEF NothingLost, QuorumsSeen
<1>9. QED
  BY <1>7, <1>8 DEF NothingLost

LEMMA EchoTargetPositive == EchoTarget > 0
<1> DEFINE N == Cardinality(Node)
<1>1. N \in Nat /\ N # 0 /\ 3 * N < SIZE_MOD
  BY ThreadAssumption, FS_CardinalityType, FS_EmptySet
<1>2. t = GetT(N) /\ EchoTarget = GetEchoMessageCountTarget(N, GetT(N))
  BY DEF t, EchoTarget
<1> HIDE DEF N
<1>3. 2 * EchoTarget > N + t
  BY <1>1, <1>2, EchoQuorumsShareMoreThanT
<1>4. QED
  BY <1>1, <1>3, NodeNumbers

LEMMA NothingLostInit == Init => NothingLost
<1> SUFFICES ASSUME Init PROVE NothingLost
  OBVIOUS
<1>1. /\ arrived = {} /\ pool = NoSession
      /\ message = [d \in Datagram |-> Parsed(d)]
      /\ thread = [th \in Thread |-> Idle]
  BY DEF Init, Parsed
<1>2. /\ State.readyData = NoData /\ ~State.delivered
      /\ \A v \in Data : State.echoes[v] = {} /\ State.readies[v] = {}
  BY <1>1 DEF State, NewSession
<1>3. MessagesTracked
  BY <1>1, <1>2 DEF MessagesTracked
<1>4. \A u \in Thread : SawToReady(u)
  BY <1>1, IdleRecord DEF SawToReady
<1>5. Cardinality({}) = 0
  BY FS_EmptySet
<1>6. \A v \in Data : /\ ~(Cardinality(State.echoes[v]) >= EchoTarget)
                      /\ ~(Cardinality(State.readies[v]) > t)
                      /\ ~(Cardinality(State.readies[v]) > 2 * t)
  <2>1. ~(0 >= EchoTarget) /\ ~(0 > t) /\ ~(0 > 2 * t)
    BY EchoTargetPositive, NodeNumbers
  <2>2. TAKE v \in Data
  <2>3. Cardinality(State.echoes[v]) = 0 /\ Cardinality(State.readies[v]) = 0
    BY <1>2, <1>5
  <2>4. QED
    BY <2>1, <2>3
<1>7. QuorumsSeen
  BY <1>2, <1>4, <1>6 DEF QuorumsSeen
<1>8. QED
  BY <1>3, <1>7 DEF NothingLost

LEMMA NothingLostNext == ThreadsInv /\ NothingLost /\ [Next]_vars => NothingLost'
<1> SUFFICES ASSUME ThreadsInv, NothingLost, [Next]_vars PROVE NothingLost'
  OBVIOUS
<1>1. CASE \E d \in Datagram : Arrive(d)
  BY <1>1, ArriveLosesNothing
<1>2. ASSUME NEW th \in Thread, ThreadStep(th) PROVE NothingLost'
  <2>1. ASSUME NEW d \in Datagram, StartMessage(th, d) \/ RunSend(th, d)
        PROVE  NothingLost'
    BY <2>1, StartMessageLosesNothing, StillLosesNothing DEF RunSend
  <2>2. CASE GetSession(th) \/ AddSession(th)
    BY <2>2, LookUpLosesNothing
  <2>3. CASE HandleSend(th) \/ HandleEcho(th) \/ HandleReady(th)
    BY <2>3, HandleSendLosesNothing, HandleEchoLosesNothing,
       HandleReadyLosesNothing
  <2>4. CASE CountEcho(th) \/ ExchangeOnEcho(th)
    BY <2>4, CountEchoLosesNothing, ExchangeOnEchoLosesNothing
  <2>5. CASE CountReady(th) \/ TestReadySent(th) \/ ExchangeOnReady(th)
    BY <2>5, CountReadyLosesNothing, TestReadySentLosesNothing,
       ExchangeOnReadyLosesNothing
  <2>6. CASE TestDelivered(th) \/ ExchangeDelivered(th) \/ Deliver(th)
    BY <2>6, TestDeliveredLosesNothing, ExchangeDeliveredLosesNothing,
       DeliverLosesNothing
  <2>7. QED
    BY <1>2, <2>1, <2>2, <2>3, <2>4, <2>5, <2>6 DEF ThreadStep
<1>3. CASE UNCHANGED nodeVars
  BY <1>3, StillLosesNothing DEF nodeVars
<1>4. QED
  BY <1>1, <1>2, <1>3 DEF Next, ConnectToRedis, LoseRedis, vars

\* When every thread is idle, what came was counted or came too late.
LEMMA SettledCounts ==
    ASSUME ThreadsInv, NothingLost, Settled, NEW v \in Data
    PROVE  /\ State.readyData = NoData => EchoSenders(v) \subseteq State.echoes[v]
           /\ ~State.delivered => ReadySenders(v) \subseteq State.readies[v]
<1>1. /\ arrived \subseteq Datagram
      /\ \A d \in arrived : EchoTracked(d) /\ ReadyTracked(d)
  BY DEF ThreadsInv, NodeTypeOK, NothingLost, MessagesTracked
<1>2. \A d : ~Held(d, "countEcho") /\ ~Held(d, "countReady")
  BY DEF Held, Settled, At, Enters
<1>3. \A u \in Thread : ~CountsOwnReady(u)
  BY DEF CountsOwnReady, Settled, At, Enters
<1>4. ASSUME State.readyData = NoData, NEW q \in EchoSenders(v)
      PROVE  q \in State.echoes[v]
  <2>1. ASSUME NEW d \in arrived,
               Content[d] = [type |-> "ECHO", nodeId |-> q, data |-> v]
        PROVE  q \in State.echoes[v]
    <3>1. /\ Content[d].type = "ECHO" /\ Content[d].nodeId = q
          /\ Content[d].data = v
      BY <2>1
    <3>2. QED
      BY <1>1, <1>2, <1>4, <3>1 DEF EchoTracked, Echoing
  <2>2. ASSUME q = Self, NEW d \in arrived, NEW p,
               Content[d] = [type |-> "SEND", nodeId |-> p, data |-> v]
        PROVE  q \in State.echoes[v]
    <3>1. Content[d].type = "SEND" /\ Content[d].data = v
      BY <2>2
    <3>2. QED
      BY <1>1, <1>2, <1>4, <2>2, <3>1 DEF EchoTracked, Echoing
  <2>3. QED
    BY <1>4, <2>1, <2>2 DEF EchoSenders, Arrived
<1>5. ASSUME ~State.delivered, NEW q \in ReadySenders(v)
      PROVE  q \in State.readies[v]
  <2>1. ASSUME NEW d \in arrived,
               Content[d] = [type |-> "READY", nodeId |-> q, data |-> v]
        PROVE  q \in State.readies[v]
    <3>1. /\ Content[d].type = "READY" /\ Content[d].nodeId = q
          /\ Content[d].data = v
      BY <2>1
    <3>2. QED
      BY <1>1, <1>2, <1>5, <3>1 DEF ReadyTracked
  <2>2. CASE q = Self /\ State.readyData = v
    BY <1>3, <1>5, <2>2, ThreadAssumption DEF NothingLost, MessagesTracked
  <2>3. QED
    BY <1>5, <2>1, <2>2 DEF ReadySenders, Arrived
<1>6. QED
  BY <1>4, <1>5

LEMMA SettledQuorumsHold ==
    ASSUME ThreadsInv, NothingLost
    PROVE  SettledQuorums
<1> SUFFICES ASSUME Settled, NEW v \in Data
             PROVE  /\ \/ Cardinality(EchoSenders(v)) >= EchoTarget
                       \/ Cardinality(ReadySenders(v)) > t
                       => State.readyData # NoData
                    /\ Cardinality(ReadySenders(v)) > 2 * t => log # <<>>
  BY DEF SettledQuorums
<1>1. State \in SessionType
  BY StateType DEF ThreadsInv
<1>2. \A u \in Thread : /\ thread[u].pc = "idle" /\ thread[u].interrupted = {}
                        /\ ~WillDecide(u) /\ ~WillCommit(u)
  BY IdleRecord DEF Settled, At, ThreadsInv, ThreadSound, WillDecide, WillCommit
<1>3. /\ State.readyData = NoData
           => /\ ~(Cardinality(State.echoes[v]) >= EchoTarget)
              /\ ~(Cardinality(State.readies[v]) > t)
              /\ ~State.delivered
      /\ ~State.delivered => ~(Cardinality(State.readies[v]) > 2 * t)
      /\ State.delivered => log # <<>>
  BY <1>2 DEF NothingLost, QuorumsSeen
<1>4. State.echoes[v] \in SUBSET Node /\ State.readies[v] \in SUBSET Node
  BY <1>1 DEF SessionType
<1>5. ASSUME State.readyData = NoData
      PROVE  /\ ~(Cardinality(EchoSenders(v)) >= EchoTarget)
             /\ ~(Cardinality(ReadySenders(v)) > t)
  <2>1. /\ EchoSenders(v) \in SUBSET State.echoes[v]
        /\ ReadySenders(v) \in SUBSET State.readies[v]
    BY <1>3, <1>5, SettledCounts
  <2>2. /\ Cardinality(EchoSenders(v)) \in Nat
        /\ Cardinality(EchoSenders(v)) <= Cardinality(State.echoes[v])
        /\ Cardinality(State.echoes[v]) \in Nat
    BY <1>4, <2>1, SetSize
  <2>3. /\ Cardinality(ReadySenders(v)) \in Nat
        /\ Cardinality(ReadySenders(v)) <= Cardinality(State.readies[v])
        /\ Cardinality(State.readies[v]) \in Nat
    BY <1>4, <2>1, SetSize
  <2>4. QED
    BY <1>3, <1>5, <2>2, <2>3, NodeNumbers
<1>6. ASSUME log = <<>>
      PROVE  ~(Cardinality(ReadySenders(v)) > 2 * t)
  <2>1. ReadySenders(v) \in SUBSET State.readies[v]
    BY <1>3, <1>6, SettledCounts
  <2>2. /\ Cardinality(ReadySenders(v)) \in Nat
        /\ Cardinality(ReadySenders(v)) <= Cardinality(State.readies[v])
        /\ Cardinality(State.readies[v]) \in Nat
    BY <1>4, <2>1, SetSize
  <2>3. QED
    BY <1>3, <1>6, <2>2, NodeNumbers
<1>7. QED
  BY <1>5, <1>6

(* No interleaving of any number of threads loses a quorum: once they have *)
(* handled all that arrived, enough ECHOs or READYs, the node's own among  *)
(* them, have made it send READY, and enough READYs have made it commit.   *)
THEOREM QuorumsAreNotLost == Spec => []SettledQuorums
<1>1. Init => ThreadsInv /\ NothingLost
  BY ThreadsInvInit, NothingLostInit
<1>2. (ThreadsInv /\ NothingLost) /\ [Next]_vars => (ThreadsInv /\ NothingLost)'
  BY ThreadsInvNext, NothingLostNext
<1>3. ThreadsInv /\ NothingLost => SettledQuorums
  BY SettledQuorumsHold
<1>4. QED
  BY <1>1, <1>2, <1>3, PTL DEF Spec
=============================================================================
