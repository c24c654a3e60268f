------------------------ MODULE ReliableBroadcastProofs ------------------------
(* Proofs about ReliableBroadcast, for every set of nodes, of faulty nodes *)
(* and of payloads: what holds of a session at one node, what its quorums  *)
(* imply between nodes, that a session implements BroadcastSpec, what is   *)
(* committed once all was handled, and that each node keeps NodeContract,  *)
(* from which alone agreement follows.  The last part is about nodes that  *)
(* restart (RestartingChain).                                              *)
EXTENDS RestartingChain, ThresholdsProofs, FiniteSetTheorems

(* Every handler keeps the types.                                          *)
LEMMA NextType == TypeOK /\ [Next]_vars => TypeOK'
<1> SUFFICES ASSUME TypeOK, [Next]_vars PROVE TypeOK'
  OBVIOUS
<1> USE DEF TypeOK
<1>1. ASSUME NEW n \in Correct, NEW v \in Data, NEW types \in SUBSET MessageType,
             Broadcast(n, types, v)
      PROVE  wire' \in SUBSET Message
  BY <1>1 DEF Broadcast, Message
<1>2. ASSUME NEW n \in Correct, NEW v \in Data, NEW seen \in SUBSET Node,
             CountReadies(n, seen, v)
      PROVE  /\ readies' \in [Correct -> [Data -> SUBSET Node]]
             /\ delivered' \in [Correct -> BOOLEAN]
             /\ log' \in [Correct -> Seq(Data)]
  <2>1. readies' \in [Correct -> [Data -> SUBSET Node]]
    BY <1>2 DEF CountReadies
  <2>2. delivered' \in [Correct -> BOOLEAN]
    BY <1>2 DEF CountReadies
  <2>3. log' \in [Correct -> Seq(Data)]
    <3>1. Append(log[n], v) \in Seq(Data)
      OBVIOUS
    <3>2. log' = log \/ log' = [log EXCEPT ![n] = Append(log[n], v)]
      BY <1>2 DEF CountReadies
    <3>3. QED
      BY <3>1, <3>2
  <2>4. QED
    BY <2>1, <2>2, <2>3
<1>3. ASSUME NEW n \in Correct, NEW v \in Data, CountOwnReady(n, v)
      PROVE  /\ readies' \in [Correct -> [Data -> SUBSET Node]]
             /\ delivered' \in [Correct -> BOOLEAN]
             /\ log' \in [Correct -> Seq(Data)]
  <2>1. readies[n][v] \cup {n} \in SUBSET Node
    BY DEF Correct
  <2>2. QED
    BY <1>2, <1>3, <2>1 DEF CountOwnReady
<1>4. ASSUME NEW v \in Data, ClientSend(v) PROVE TypeOK'
  BY <1>4 DEF ClientSend
<1>5. ASSUME NEW n \in Correct, NEW v \in Data, HandleSend(n, v) PROVE TypeOK'
  <2>1. {"ECHO"} \in SUBSET MessageType /\ {"READY"} \in SUBSET MessageType
        /\ {"ECHO", "READY"} \in SUBSET MessageType
    BY DEF MessageType
  <2>2. wire' \in SUBSET Message
    <3>1. \E types \in SUBSET MessageType : Broadcast(n, types, v)
      <4>1. ASSUME NEW encoded \in {"ECHO", "READY"}
            PROVE  {encoded, "READY"} \in SUBSET MessageType
        BY DEF MessageType
      <4>2. \/ Broadcast(n, {"ECHO"}, v)
            \/ \E encoded \in {"ECHO", "READY"} : Broadcast(n, {encoded, "READY"}, v)
        BY <1>5 DEF HandleSend
      <4>3. QED
        BY <2>1, <4>1, <4>2
    <3>2. QED
      BY <1>1, <3>1
  <2>3. /\ requested' \in SUBSET Data
        /\ echoes' \in [Correct -> [Data -> SUBSET Node]]
        /\ readyData' \in [Correct -> Data \cup {NoData}]
    <3>1. n \in Node
      BY DEF Correct
    <3>2. echoes' \in [Correct -> [Data -> SUBSET Node]]
      <4>1. echoes' = echoes \/ echoes' = [echoes EXCEPT ![n][v] = @ \cup {n}]
        BY <1>5 DEF HandleSend
      <4>2. [echoes EXCEPT ![n][v] = @ \cup {n}] \in [Correct -> [Data -> SUBSET Node]]
        BY <3>1
      <4>3. QED
        BY <4>1, <4>2
    <3>3. readyData' \in [Correct -> Data \cup {NoData}]
      BY <1>5 DEF HandleSend
    <3>4. requested' \in SUBSET Data
      BY <1>5 DEF HandleSend
    <3>5. QED
      BY <3>2, <3>3, <3>4
  <2>4. /\ readies' \in [Correct -> [Data -> SUBSET Node]]
        /\ delivered' \in [Correct -> BOOLEAN]
        /\ log' \in [Correct -> Seq(Data)]
    BY <1>3, <1>5 DEF HandleSend
  <2>5. QED
    BY <2>2, <2>3, <2>4
<1>6. ASSUME NEW n \in Correct, NEW q \in Node, NEW v \in Data, HandleEcho(n, q, v)
      PROVE  TypeOK'
  <2>1. {"READY"} \in SUBSET MessageType
    BY DEF MessageType
  <2>2. wire' \in SUBSET Message
    BY <1>1, <1>6, <2>1 DEF HandleEcho
  <2>3. /\ requested' \in SUBSET Data
        /\ echoes' \in [Correct -> [Data -> SUBSET Node]]
        /\ readyData' \in [Correct -> Data \cup {NoData}]
    BY <1>6 DEF HandleEcho, Correct
  <2>4. /\ readies' \in [Correct -> [Data -> SUBSET Node]]
        /\ delivered' \in [Correct -> BOOLEAN]
        /\ log' \in [Correct -> Seq(Data)]
    BY <1>3, <1>6 DEF HandleEcho
  <2>5. QED
    BY <2>2, <2>3, <2>4
<1>7. ASSUME NEW n \in Correct, NEW q \in Node, NEW v \in Data, HandleReady(n, q, v)
      PROVE  TypeOK'
  <2> DEFINE seen == readies[n][v] \cup {q}
  <2>1. seen \in SUBSET Node /\ seen \cup {n} \in SUBSET Node
        /\ {"READY"} \in SUBSET MessageType
    BY DEF Correct, MessageType
  <2>2. wire' \in SUBSET Message
    BY <1>1, <1>7, <2>1 DEF HandleReady
  <2>3. /\ requested' \in SUBSET Data
        /\ echoes' \in [Correct -> [Data -> SUBSET Node]]
        /\ readyData' \in [Correct -> Data \cup {NoData}]
    BY <1>7 DEF HandleReady
  <2>4. CountReadies(n, seen, v) \/ CountReadies(n, seen \cup {n}, v)
    BY <1>7 DEF HandleReady
  <2> HIDE DEF seen
  <2>5. /\ readies' \in [Correct -> [Data -> SUBSET Node]]
        /\ delivered' \in [Correct -> BOOLEAN]
        /\ log' \in [Correct -> Seq(Data)]
    BY <1>2, <2>1, <2>4
  <2>6. QED
    BY <2>2, <2>3, <2>5
<1>8. CASE UNCHANGED vars
  BY <1>8 DEF vars
<1>9. QED
  BY <1>4, <1>5, <1>6, <1>7, <1>8 DEF Next

(* Every field keeps its type: ids that are counted are ids of nodes, and  *)
(* messages carry the id of the node that sent them.                       *)
THEOREM TypeCorrect == Spec => []TypeOK
<1>1. Init => TypeOK
  BY DEF Init, TypeOK
<1>2. TypeOK /\ [Next]_vars => TypeOK'
  BY NextType
<1>3. QED
  BY <1>1, <1>2, PTL DEF Spec

-----------------------------------------------------------------------------
(* The invariant.  It is what the counters of a node say about the rest.   *)

(* A READY on the wire is the one its sender counts as sent, and only what *)
(* a client asked for is echoed.                                           *)
WireSound ==
    \A m \in wire :
        /\ m.type = "READY" => readyData[m.nodeId] = m.data
        /\ m.type = "ECHO" => m.data \in requested

(* An ECHO counted for a correct node was for a requested payload.         *)
EchoesSound ==
    \A n \in Correct : \A v \in Data :
        echoes[n][v] \cap Correct # {} => v \in requested

(* A READY counted for a correct node was sent by it.                      *)
ReadiesSound ==
    \A n \in Correct : \A v \in Data :
        \A q \in readies[n][v] \cap Correct : readyData[q] = v

(* A correct node sends READY for a requested payload only.                *)
ReadyRequested ==
    \A n \in Correct : readyData[n] # NoData => readyData[n] \in requested

(* A node has committed once if mDelivered says so, and not at all if not; *)
(* the READYs that let it are still counted.                               *)
LogSound ==
    \A n \in Correct :
        IF delivered[n]
        THEN \E v \in Data :
                /\ log[n] = <<v>>
                /\ Cardinality(readies[n][v]) > DeliverThreshold(T(n))
        ELSE log[n] = <<>>

(* The part of it that holds whatever the configs and however many nodes   *)
(* are faulty.                                                             *)
CountersInv ==
    /\ TypeOK
    /\ WireSound
    /\ ReadiesSound
    /\ LogSound

SessionInv ==
    /\ TypeOK
    /\ WireSound
    /\ EchoesSound
    /\ ReadiesSound
    /\ ReadyRequested
    /\ ReadyRootedInEchoes
    /\ LogSound

-----------------------------------------------------------------------------
(* Facts about sets of nodes.                                              *)

(* The number of nodes that a set of more than |Faulty| nodes has in       *)
(* excess of the faulty ones are correct.                                  *)
LEMMA CorrectInSet ==
    ASSUME NEW S \in SUBSET Node
    PROVE  /\ IsFiniteSet(S)
           /\ Cardinality(S) \in Nat
           /\ Cardinality(Faulty) \in Nat
           /\ Cardinality(S \cap Correct) \in Nat
           /\ Cardinality(S \cap Correct) >= Cardinality(S) - Cardinality(Faulty)
           /\ Cardinality(S) > Cardinality(Faulty) => \E q \in S : q \in Correct
<1>1. IsFiniteSet(Node) /\ Faulty \subseteq Node
  BY NodeAssumption
<1>2. IsFiniteSet(S) /\ IsFiniteSet(Faulty)
  BY <1>1, FS_Subset
<1>3. Cardinality(S) \in Nat /\ Cardinality(Faulty) \in Nat
  BY <1>2, FS_CardinalityType
<1>4. S \cap Correct = S \ Faulty
  BY DEF Correct
<1>5. IsFiniteSet(S \ Faulty)
      /\ Cardinality(S \ Faulty) = Cardinality(S) - Cardinality(S \cap Faulty)
  BY <1>2, FS_Difference
<1>6. Cardinality(S \cap Faulty) <= Cardinality(Faulty)
      /\ IsFiniteSet(S \cap Faulty)
  BY <1>2, FS_Intersection
<1>7. Cardinality(S \ Faulty) \in Nat /\ Cardinality(S \cap Faulty) \in Nat
  BY <1>5, <1>6, FS_CardinalityType
<1>8. Cardinality(S \cap Correct) >= Cardinality(S) - Cardinality(Faulty)
  BY <1>3, <1>4, <1>5, <1>6, <1>7
<1>9. Cardinality(S) > Cardinality(Faulty) => \E q \in S : q \in Correct
  <2> SUFFICES ASSUME Cardinality(S) > Cardinality(Faulty), S \ Faulty = {}
               PROVE  FALSE
    BY DEF Correct
  <2>1. Cardinality(S \ Faulty) = 0
    BY FS_EmptySet
  <2>2. QED
    BY <1>3, <1>4, <1>7, <1>8, <2>1
<1>10. QED
  BY <1>2, <1>3, <1>4, <1>7, <1>8, <1>9

(* A set of nodes only grows in number when nodes are added to it.         *)
LEMMA CardinalityMonotone ==
    ASSUME NEW S \in SUBSET Node, NEW R \in SUBSET S
    PROVE  Cardinality(R) \in Nat /\ Cardinality(S) \in Nat
           /\ Cardinality(R) <= Cardinality(S)
<1>1. IsFiniteSet(S)
  BY CorrectInSet
<1>2. IsFiniteSet(R) /\ Cardinality(R) <= Cardinality(S)
  BY <1>1, FS_Subset
<1>3. QED
  BY <1>1, <1>2, FS_CardinalityType

(* The thresholds of every correct node, when its chain config is complete *)
(* and no more than t nodes are faulty.                                    *)
LEMMA NodeThresholds ==
    ASSUME CompleteConfig, FewFaulty, NEW n \in Correct
    PROVE  /\ T(n) \in Nat
           /\ T(n) = GetT(Cardinality(Node))
           /\ 3 * T(n) < Cardinality(Node)
           /\ Cardinality(Faulty) \in Nat
           /\ Cardinality(Faulty) <= T(n)
           /\ EchoTarget(n) \in Nat
           /\ EchoTarget(n) > T(n)
           /\ DeliverThreshold(T(n)) = 2 * T(n)
<1> DEFINE N == Cardinality(Node)
<1>1. n \in Node /\ IsFiniteSet(Node)
  BY NodeAssumption DEF Correct
<1>2. N \in Nat \ {0} /\ 3 * N < SIZE_MOD
  BY <1>1, NodeAssumption, FS_CardinalityType, FS_EmptySet
<1>3. NodesCount(n) = N
  BY DEF CompleteConfig, NodesCount
<1> HIDE DEF N
<1>4. T(n) = GetT(N) /\ EchoTarget(n) = GetEchoMessageCountTarget(N, GetT(N))
  BY <1>3 DEF T, EchoTarget
<1>5. GetT(N) \in Nat /\ 3 * GetT(N) < N
  BY <1>2, SizeAssumption, GetTIsLargest
<1>6. /\ GetEchoMessageCountTarget(N, GetT(N)) \in Nat
      /\ 2 * GetEchoMessageCountTarget(N, GetT(N)) > N + GetT(N)
  BY <1>2, EchoQuorumsShareMoreThanT
<1>7. DeliverThreshold(GetT(N)) = 2 * GetT(N)
  BY <1>2, ReadyQuorumReachable
<1>8. GetEchoMessageCountTarget(N, GetT(N)) > GetT(N)
  BY <1>2, <1>5, <1>6
<1>9. Cardinality(Faulty) \in Nat /\ Cardinality(Faulty) <= GetT(N)
  BY CorrectInSet DEF FewFaulty, N
<1>10. QED
  BY <1>4, <1>5, <1>6, <1>7, <1>8, <1>9 DEF N

(* The commit threshold is a number, whatever the config.                  *)
LEMMA ThresholdType ==
    ASSUME NEW n \in Correct
    PROVE  T(n) \in Nat /\ DeliverThreshold(T(n)) \in Nat
<1>1. SessionNodes[n] \in SUBSET Node
  BY NodeAssumption DEF Correct
<1>2. NodesCount(n) \in Nat
  BY <1>1, NodeAssumption, FS_Subset, FS_CardinalityType DEF NodesCount
<1>3. SIZE_MOD \in Nat \ {0}
  BY SizeAssumption
<1>4. \A k \in Nat : GetT(k) \in Nat
  BY <1>3 DEF GetT
<1>5. T(n) \in Nat
  BY <1>2, <1>4 DEF T
<1>6. \A k \in Nat : DeliverThreshold(k) \in Nat
  BY <1>3 DEF DeliverThreshold
<1>7. QED
  BY <1>5, <1>6

LEMMA ThresholdNotAbove ==
    ASSUME NEW n \in Correct
    PROVE  DeliverThreshold(T(n)) <= 2 * T(n)
<1>1. T(n) \in Nat /\ SIZE_MOD \in Nat \ {0}
  BY ThresholdType, SizeAssumption
<1>2. \A k \in Nat, m \in Nat \ {0} : k % m <= k
  BY SMT
<1>3. QED
  BY <1>1, <1>2 DEF DeliverThreshold

-----------------------------------------------------------------------------
(* What the handlers have in common.  A handler of node n works on the     *)
(* counters of one payload v; besides n's own, it counts the message of    *)
(* one other node q at most.                                               *)

\* The SEND of v has been sent to n.
AskedFor(n, v) == v \in requested /\ n \in ClientNodes[v]

EchoesGrow(n, q, v) ==
    \E seen \in SUBSET {n, q} :
        /\ echoes' = [echoes EXCEPT ![n][v] = @ \cup seen]
        /\ n \in seen => AskedFor(n, v)
        /\ q \in seen /\ q # n => Receivable(n, "ECHO", q, v)

ReadiesGrow(n, q, v) ==
    \E seen \in SUBSET {n, q} :
        /\ readies' = [readies EXCEPT ![n][v] = @ \cup seen]
        /\ n \in seen => readyData'[n] = v
        /\ q \in seen /\ q # n => Receivable(n, "READY", q, v)

\* READY is decided on a quorum of echoes, or on more than t READYs.
DecidesReady(n, q, v) ==
    /\ readyData[n] = NoData
    /\ readyData' = [readyData EXCEPT ![n] = v]
    /\ \/ Cardinality(echoes'[n][v]) >= EchoTarget(n)
       \/ /\ q # n
          /\ Receivable(n, "READY", q, v)
          /\ readies[n][v] \cup {q} \subseteq readies'[n][v]
          /\ Cardinality(readies[n][v] \cup {q}) > T(n)

Sends(n, v) ==
    \E types \in SUBSET MessageType :
        /\ wire' = wire \cup [type: types, nodeId: {n}, data: {v}]
        /\ "READY" \in types => readyData'[n] = v
        /\ "ECHO" \in types => AskedFor(n, v)

CommitsOnce(n, v) ==
    /\ ~delivered[n]
    /\ delivered' = [delivered EXCEPT ![n] = TRUE]
    /\ log' = [log EXCEPT ![n] = Append(@, v)]
    /\ Cardinality(readies'[n][v]) > DeliverThreshold(T(n))

HandlerStep(n, q, v) ==
    /\ requested' = requested
    /\ EchoesGrow(n, q, v)
    /\ ReadiesGrow(n, q, v)
    /\ readyData' = readyData \/ DecidesReady(n, q, v)
    /\ Sends(n, v)
    /\ (log' = log /\ delivered' = delivered) \/ CommitsOnce(n, v)

(* Counting the node's own READY, as the end of a broadcast does.          *)
LEMMA CountOwnReadyStep ==
    ASSUME TypeOK, NEW n \in Correct, NEW q \in Node, NEW v \in Data,
           CountOwnReady(n, v), readyData'[n] = v
    PROVE  /\ ReadiesGrow(n, q, v)
           /\ (log' = log /\ delivered' = delivered) \/ CommitsOnce(n, v)
<1>1. CASE delivered[n]
  <2>1. readies' = readies /\ log' = log /\ delivered' = delivered
    BY <1>1 DEF CountOwnReady
  <2>2. readies' = [readies EXCEPT ![n][v] = @ \cup {}]
    BY <2>1 DEF TypeOK
  <2>3. {} \in SUBSET {n, q} /\ n \notin {} /\ q \notin {}
    OBVIOUS
  <2>4. ReadiesGrow(n, q, v)
    BY <2>2, <2>3, Zenon DEF ReadiesGrow
  <2>5. QED
    BY <2>1, <2>4
<1>2. CASE ~delivered[n]
  <2>1. CountReadies(n, readies[n][v] \cup {n}, v)
    BY <1>2 DEF CountOwnReady
  <2>2. readies' = [readies EXCEPT ![n][v] = @ \cup {n}]
    BY <2>1 DEF CountReadies
  <2>3. readies'[n][v] = readies[n][v] \cup {n}
    BY <2>2 DEF TypeOK
  <2>4. ReadiesGrow(n, q, v)
    <3>1. n \in {n} /\ (q \in {n} => q = n) /\ {n} \in SUBSET {n, q}
      OBVIOUS
    <3>2. QED
      BY <2>2, <3>1 DEF ReadiesGrow
  <2>5. (log' = log /\ delivered' = delivered) \/ CommitsOnce(n, v)
    BY <1>2, <2>1, <2>3 DEF CountReadies, CommitsOnce
  <2>6. QED
    BY <2>4, <2>5
<1>3. QED
  BY <1>1, <1>2

LEMMA UnchangedReadies ==
    ASSUME TypeOK, readies' = readies, NEW n \in Correct, NEW q, NEW v \in Data
    PROVE  ReadiesGrow(n, q, v)
<1>1. readies' = [readies EXCEPT ![n][v] = @ \cup {}]
  BY DEF TypeOK
<1>2. {} \in SUBSET {n, q} /\ n \notin {} /\ q \notin {}
  OBVIOUS
<1>3. QED
  BY <1>1, <1>2, Zenon DEF ReadiesGrow

LEMMA UnchangedEchoes ==
    ASSUME TypeOK, echoes' = echoes, NEW n \in Correct, NEW q, NEW v \in Data
    PROVE  EchoesGrow(n, q, v)
<1>1. echoes' = [echoes EXCEPT ![n][v] = @ \cup {}]
  BY DEF TypeOK
<1>2. {} \in SUBSET {n, q} /\ n \notin {} /\ q \notin {}
  OBVIOUS
<1>3. QED
  BY <1>1, <1>2, Zenon DEF EchoesGrow

(* Messages that leave with types in "types".                              *)
LEMMA BroadcastSends ==
    ASSUME NEW n \in Correct, NEW v \in Data, NEW types \in SUBSET MessageType,
           Broadcast(n, types, v),
           "READY" \in types => readyData'[n] = v,
           "ECHO" \in types => AskedFor(n, v)
    PROVE  Sends(n, v)
  BY DEF Broadcast, Sends

LEMMA NothingSent ==
    ASSUME wire' = wire, NEW n \in Correct, NEW v \in Data
    PROVE  Sends(n, v)
<1>1. wire' = wire \cup [type: {}, nodeId: {n}, data: {v}]
  OBVIOUS
<1>2. {} \in SUBSET MessageType /\ "READY" \notin {} /\ "ECHO" \notin {}
  OBVIOUS
<1>3. QED
  BY <1>1, <1>2, Zenon DEF Sends

LEMMA HandleSendStep ==
    ASSUME TypeOK, NEW n \in Correct, NEW v \in Data, HandleSend(n, v)
    PROVE  HandlerStep(n, n, v)
<1>1. AskedFor(n, v) /\ requested' = requested /\ n \in Node
  BY DEF HandleSend, Correct, AskedFor
<1>2. {"ECHO"} \in SUBSET MessageType /\ {"READY"} \in SUBSET MessageType
      /\ {"ECHO", "READY"} \in SUBSET MessageType
  BY DEF MessageType
<1>3. CASE /\ Broadcast(n, {"ECHO"}, v)
           /\ UNCHANGED <<echoes, readies, readyData, delivered, log>>
  <2>1. Sends(n, v)
    BY <1>1, <1>2, <1>3, BroadcastSends
  <2>2. QED
    BY <1>1, <1>3, <2>1, UnchangedEchoes, UnchangedReadies DEF HandlerStep
<1>4. ASSUME echoes' = [echoes EXCEPT ![n][v] = @ \cup {n}]
      PROVE  EchoesGrow(n, n, v)
  <2>1. {n} \in SUBSET {n, n}
    OBVIOUS
  <2>2. QED
    BY <1>1, <1>4, <2>1, Zenon DEF EchoesGrow
<1>5. CASE /\ echoes' = [echoes EXCEPT ![n][v] = @ \cup {n}]
           /\ Broadcast(n, {"ECHO"}, v)
           /\ UNCHANGED <<readies, readyData, delivered, log>>
  <2>1. Sends(n, v)
    BY <1>1, <1>2, <1>5, BroadcastSends
  <2>2. QED
    BY <1>1, <1>4, <1>5, <2>1, UnchangedReadies DEF HandlerStep
<1>6. CASE /\ readyData[n] = NoData
           /\ EchoQuorumWith(n, n, v)
           /\ echoes' = [echoes EXCEPT ![n][v] = @ \cup {n}]
           /\ readyData' = [readyData EXCEPT ![n] = v]
           /\ \E encoded \in {"ECHO", "READY"} :
                 Broadcast(n, {encoded, "READY"}, v)
           /\ CountOwnReady(n, v)
  <2>1. readyData'[n] = v
    BY <1>6 DEF TypeOK
  <2>2. Sends(n, v)
    BY <1>1, <1>2, <1>6, <2>1, BroadcastSends
  <2>3. DecidesReady(n, n, v)
    <3>1. echoes'[n][v] = echoes[n][v] \cup {n}
      BY <1>6 DEF TypeOK
    <3>2. QED
      BY <1>6, <3>1 DEF DecidesReady, EchoQuorumWith
  <2>4. QED
    BY <1>1, <1>4, <1>6, <2>1, <2>2, <2>3, CountOwnReadyStep DEF HandlerStep
<1>7. QED
  BY <1>3, <1>5, <1>6 DEF HandleSend

LEMMA HandleEchoStep ==
    ASSUME TypeOK, NEW n \in Correct, NEW q \in Node, NEW v \in Data,
           HandleEcho(n, q, v)
    PROVE  HandlerStep(n, q, v)
<1>1. /\ Receivable(n, "ECHO", q, v) /\ q # n
      /\ readyData[n] = NoData
      /\ echoes' = [echoes EXCEPT ![n][v] = @ \cup {q}]
      /\ requested' = requested
  BY DEF HandleEcho, Receivable
<1>2. EchoesGrow(n, q, v)
  <2>1. {q} \in SUBSET {n, q} /\ n \notin {q}
    BY <1>1
  <2>2. QED
    BY <1>1, <2>1, Zenon DEF EchoesGrow
<1>3. CASE UNCHANGED <<wire, readies, readyData, delivered, log>>
  BY <1>1, <1>2, <1>3, NothingSent, UnchangedReadies DEF HandlerStep
<1>4. CASE /\ EchoQuorumWith(n, q, v)
           /\ readyData' = [readyData EXCEPT ![n] = v]
           /\ Broadcast(n, {"READY"}, v)
           /\ CountOwnReady(n, v)
  <2>1. readyData'[n] = v
    BY <1>4 DEF TypeOK
  <2>2. {"READY"} \in SUBSET MessageType /\ "ECHO" \notin {"READY"}
    BY DEF MessageType
  <2>3. Sends(n, v)
    BY <1>4, <2>1, <2>2, BroadcastSends
  <2>4. DecidesReady(n, q, v)
    <3>1. echoes'[n][v] = echoes[n][v] \cup {q}
      BY <1>1 DEF TypeOK
    <3>2. QED
      BY <1>1, <1>4, <3>1 DEF DecidesReady, EchoQuorumWith
  <2>5. QED
    BY <1>1, <1>2, <1>4, <2>1, <2>3, <2>4, CountOwnReadyStep DEF HandlerStep
<1>5. QED
  BY <1>3, <1>4 DEF HandleEcho

LEMMA HandleReadyStep ==
    ASSUME TypeOK, NEW n \in Correct, NEW q \in Node, NEW v \in Data,
           HandleReady(n, q, v)
    PROVE  HandlerStep(n, q, v)
<1> DEFINE seen == readies[n][v] \cup {q}
<1>1. /\ Receivable(n, "READY", q, v) /\ q # n
      /\ ~delivered[n]
      /\ requested' = requested /\ echoes' = echoes
  BY DEF HandleReady, Receivable
<1>2. ASSUME NEW all \in SUBSET {n, q}, n \in all => readyData'[n] = v,
             CountReadies(n, readies[n][v] \cup all, v)
      PROVE  /\ ReadiesGrow(n, q, v)
             /\ (log' = log /\ delivered' = delivered) \/ CommitsOnce(n, v)
  <2>1. readies' = [readies EXCEPT ![n][v] = @ \cup all]
    BY <1>2 DEF CountReadies
  <2>2. readies'[n][v] = readies[n][v] \cup all
    BY <2>1 DEF TypeOK
  <2>3. ReadiesGrow(n, q, v)
    BY <1>1, <1>2, <2>1, Zenon DEF ReadiesGrow
  <2>4. (log' = log /\ delivered' = delivered) \/ CommitsOnce(n, v)
    BY <1>1, <1>2, <2>2 DEF CountReadies, CommitsOnce
  <2>5. QED
    BY <2>3, <2>4
<1>3. CASE /\ Amplifies(n, seen)
           /\ readyData' = [readyData EXCEPT ![n] = v]
           /\ Broadcast(n, {"READY"}, v)
           /\ CountReadies(n, seen \cup {n}, v)
  <2>1. readyData'[n] = v
    BY <1>3 DEF TypeOK
  <2>2. {"READY"} \in SUBSET MessageType /\ "ECHO" \notin {"READY"}
    BY DEF MessageType
  <2>3. Sends(n, v)
    BY <1>3, <2>1, <2>2, BroadcastSends
  <2>4. DecidesReady(n, q, v)
    <3>1. seen \subseteq readies'[n][v]
      BY <1>3 DEF CountReadies, TypeOK
    <3>2. QED
      BY <1>1, <1>3, <3>1 DEF DecidesReady, Amplifies
  <2>5. seen \cup {n} = readies[n][v] \cup {n, q}
    OBVIOUS
  <2>6. /\ ReadiesGrow(n, q, v)
        /\ (log' = log /\ delivered' = delivered) \/ CommitsOnce(n, v)
    <3> HIDE DEF seen
    <3>1. CountReadies(n, readies[n][v] \cup {n, q}, v)
      BY <1>3, <2>5
    <3>2. QED
      BY <1>2, <2>1, <3>1
  <2>7. QED
    BY <1>1, <2>3, <2>4, <2>6, UnchangedEchoes DEF HandlerStep
<1>4. CASE /\ CountReadies(n, seen, v)
           /\ UNCHANGED <<wire, readyData>>
  <2>1. {q} \in SUBSET {n, q} /\ n \notin {q}
    BY <1>1
  <2>2. /\ ReadiesGrow(n, q, v)
        /\ (log' = log /\ delivered' = delivered) \/ CommitsOnce(n, v)
    BY <1>2, <1>4, <2>1
  <2>3. QED
    BY <1>1, <1>4, <2>2, NothingSent, UnchangedEchoes DEF HandlerStep
<1>5. QED
  BY <1>3, <1>4 DEF HandleReady

-----------------------------------------------------------------------------
(* A handler's step keeps the invariant.                                   *)
LEMMA HandlerKeepsCounters ==
    ASSUME CountersInv, TypeOK',
           NEW n \in Correct, NEW q \in Node, NEW v \in Data,
           HandlerStep(n, q, v)
    PROVE  CountersInv'
<1> USE DEF CountersInv
<1>1. v # NoData /\ n \in Node
  BY NodeAssumption DEF Correct
<1>2. \A p \in Correct : Receivable(n, "READY", p, v) => readyData[p] = v
  BY DEF Receivable, WireSound, Correct
<1>3. \A p \in Correct : readyData[p] # NoData => readyData'[p] = readyData[p]
  BY DEF HandlerStep, DecidesReady, TypeOK
<1>4. PICK ready \in SUBSET {n, q} :
        /\ readies' = [readies EXCEPT ![n][v] = @ \cup ready]
        /\ n \in ready => readyData'[n] = v
        /\ q \in ready /\ q # n => Receivable(n, "READY", q, v)
  BY DEF HandlerStep, ReadiesGrow
<1>5. \A m \in Correct, w \in Data :
        /\ readies[m][w] \in SUBSET Node /\ readies'[m][w] \in SUBSET Node
        /\ readies[m][w] \in SUBSET readies'[m][w]
        /\ readies'[m][w] = IF m = n /\ w = v THEN readies[m][w] \cup ready
                                               ELSE readies[m][w]
  <2> TAKE m \in Correct, w \in Data
  <2>1. readies[m][w] \in SUBSET Node /\ readies'[m][w] \in SUBSET Node
    BY DEF TypeOK
  <2>2. readies'[m][w] = IF m = n /\ w = v THEN readies[m][w] \cup ready
                                      ELSE readies[m][w]
    BY <1>4 DEF TypeOK
  <2>3. QED
    BY <2>1, <2>2
<1>6. requested' = requested
  BY DEF HandlerStep
<1>7. WireSound'
  <2> SUFFICES ASSUME NEW m \in wire'
               PROVE  /\ m.type = "READY" => readyData'[m.nodeId] = m.data
                      /\ m.type = "ECHO" => m.data \in requested'
    BY DEF WireSound
  <2>1. CASE m \in wire
    <3>1. m.nodeId \in Correct /\ m.data \in Data
      BY <2>1 DEF TypeOK, Message
    <3>2. m.data # NoData
      BY <3>1, NodeAssumption
    <3>3. QED
      BY <1>3, <1>6, <2>1, <3>1, <3>2 DEF WireSound
  <2>2. CASE m \notin wire
    BY <1>6, <2>2 DEF HandlerStep, Sends, AskedFor
  <2>3. QED
    BY <2>1, <2>2
<1>8. ReadiesSound'
  <2> SUFFICES ASSUME NEW m \in Correct, NEW w \in Data,
                      NEW p \in readies'[m][w], p \in Correct
               PROVE  readyData'[p] = w
    BY DEF ReadiesSound
  <2>1. CASE p \in readies[m][w]
    <3>1. readyData[p] = w /\ w # NoData
      BY <2>1, NodeAssumption DEF ReadiesSound
    <3>2. QED
      BY <1>3, <3>1
  <2>2. CASE m = n /\ w = v /\ p \in ready
    BY <1>1, <1>2, <1>3, <1>4, <2>2
  <2>3. QED
    BY <1>5, <2>1, <2>2
<1>9. LogSound'
  <2> SUFFICES ASSUME NEW m \in Correct
               PROVE  IF delivered'[m]
                      THEN \E w \in Data :
                              /\ log'[m] = <<w>>
                              /\ Cardinality(readies'[m][w]) > DeliverThreshold(T(m))
                      ELSE log'[m] = <<>>
    BY DEF LogSound
  <2>1. CASE delivered'[m] = delivered[m] /\ log'[m] = log[m]
    <3>1. CASE ~delivered[m]
      BY <2>1, <3>1 DEF LogSound
    <3>2. CASE delivered[m]
      <4>1. PICK w \in Data : /\ log[m] = <<w>>
                              /\ Cardinality(readies[m][w]) > DeliverThreshold(T(m))
        BY <3>2 DEF LogSound
      <4>2. DeliverThreshold(T(m)) \in Nat
        BY ThresholdType
      <4>3. Cardinality(readies'[m][w]) > DeliverThreshold(T(m))
        <5>1. /\ Cardinality(readies[m][w]) \in Nat
              /\ Cardinality(readies'[m][w]) \in Nat
              /\ Cardinality(readies[m][w]) <= Cardinality(readies'[m][w])
          BY <1>5, CardinalityMonotone
        <5>2. QED
          BY <4>1, <4>2, <5>1
      <4>4. QED
        BY <2>1, <3>2, <4>1, <4>3
    <3>3. QED
      BY <3>1, <3>2
  <2>2. CASE m = n /\ CommitsOnce(n, v)
    <3>1. log[n] = <<>>
      BY <2>2 DEF CommitsOnce, LogSound
    <3>2. delivered'[n] /\ log'[n] = Append(<<>>, v)
      BY <2>2, <3>1 DEF CommitsOnce, TypeOK
    <3>3. log'[n] = <<v>>
      BY <3>2
    <3>4. QED
      BY <2>2, <3>2, <3>3 DEF CommitsOnce
  <2>3. QED
    BY <2>1, <2>2 DEF HandlerStep, CommitsOnce, TypeOK
<1>10. QED
  BY <1>7, <1>8, <1>9

LEMMA HandlerKeepsInv ==
    ASSUME CompleteConfig, FewFaulty, SessionInv, TypeOK',
           NEW n \in Correct, NEW q \in Node, NEW v \in Data,
           HandlerStep(n, q, v)
    PROVE  SessionInv'
<1> USE DEF SessionInv
<1>1. v # NoData /\ n \in Node
  BY NodeAssumption DEF Correct
<1>2. \A p \in Correct : Receivable(n, "READY", p, v) => readyData[p] = v
  BY DEF Receivable, WireSound, Correct
<1>3. \A p \in Correct : Receivable(n, "ECHO", p, v) => v \in requested
  BY DEF Receivable, WireSound, Correct
<1>4. \A p \in Correct : readyData[p] # NoData => readyData'[p] = readyData[p]
  BY DEF HandlerStep, DecidesReady, TypeOK
<1>5. PICK echoed \in SUBSET {n, q} :
        /\ echoes' = [echoes EXCEPT ![n][v] = @ \cup echoed]
        /\ n \in echoed => v \in requested
        /\ q \in echoed /\ q # n => Receivable(n, "ECHO", q, v)
  BY DEF HandlerStep, EchoesGrow, AskedFor
<1>6. \A m \in Correct, w \in Data :
        /\ echoes[m][w] \in SUBSET Node /\ echoes'[m][w] \in SUBSET Node
        /\ echoes[m][w] \in SUBSET echoes'[m][w]
        /\ echoes'[m][w] = IF m = n /\ w = v THEN echoes[m][w] \cup echoed
                                              ELSE echoes[m][w]
  <2> TAKE m \in Correct, w \in Data
  <2>1. echoes[m][w] \in SUBSET Node /\ echoes'[m][w] \in SUBSET Node
    BY DEF TypeOK
  <2>2. echoes'[m][w] = IF m = n /\ w = v THEN echoes[m][w] \cup echoed
                                      ELSE echoes[m][w]
    BY <1>5 DEF TypeOK
  <2>3. QED
    BY <2>1, <2>2
<1>7. \A m \in Correct, w \in Data : readies[m][w] \in SUBSET Node
  BY DEF TypeOK
<1>8. requested' = requested
  BY DEF HandlerStep
<1>9. EchoesSound'
  <2> SUFFICES ASSUME NEW m \in Correct, NEW w \in Data,
                      NEW p \in echoes'[m][w], p \in Correct
               PROVE  w \in requested
    BY <1>8 DEF EchoesSound
  <2>1. CASE p \in echoes[m][w]
    BY <2>1 DEF EchoesSound
  <2>2. CASE m = n /\ w = v /\ p \in echoed
    BY <1>3, <1>5, <2>2
  <2>3. QED
    BY <1>6, <2>1, <2>2
<1>10. ASSUME DecidesReady(n, q, v)
       PROVE  /\ v \in requested
              /\ \E p \in Correct : Cardinality(echoes'[p][v]) >= EchoTarget(p)
  <2>1. /\ T(n) \in Nat /\ EchoTarget(n) \in Nat /\ EchoTarget(n) > T(n)
        /\ Cardinality(Faulty) \in Nat /\ Cardinality(Faulty) <= T(n)
    BY NodeThresholds
  <2>2. CASE Cardinality(echoes'[n][v]) >= EchoTarget(n)
    <3>1. echoes'[n][v] \in SUBSET Node
      BY <1>6
    <3>2. Cardinality(echoes'[n][v]) \in Nat
          /\ Cardinality(echoes'[n][v]) > Cardinality(Faulty)
      <4>1. Cardinality(echoes'[n][v]) \in Nat
        BY <3>1, CorrectInSet
      <4>2. QED
        BY <2>1, <2>2, <4>1
    <3>3. \E p \in echoes'[n][v] : p \in Correct
      BY <3>1, <3>2, CorrectInSet
    <3>4. v \in requested
      BY <1>8, <1>9, <3>3 DEF EchoesSound
    <3>5. QED
      BY <2>2, <3>4
  <2>3. CASE /\ q # n
             /\ Receivable(n, "READY", q, v)
             /\ Cardinality(readies[n][v] \cup {q}) > T(n)
    <3> DEFINE seen == readies[n][v] \cup {q}
    <3>1. seen \in SUBSET Node
      BY <1>7
    <3>2. Cardinality(seen) \in Nat /\ Cardinality(seen) > Cardinality(Faulty)
      <4>1. Cardinality(seen) > T(n)
        BY <2>3
      <4> HIDE DEF seen
      <4>2. Cardinality(seen) \in Nat
        BY <3>1, CorrectInSet
      <4>3. QED
        BY <2>1, <4>1, <4>2
    <3>3. PICK r \in seen : r \in Correct
      <4> HIDE DEF seen
      <4>1. QED
        BY <3>1, <3>2, CorrectInSet
    <3>4. readyData[r] = v
      BY <1>2, <2>3, <3>3 DEF ReadiesSound
    <3>5. v \in requested
      BY <1>1, <3>3, <3>4 DEF ReadyRequested
    <3>6. PICK p \in Correct : Cardinality(echoes[p][v]) >= EchoTarget(p)
      BY <1>1, <3>3, <3>4 DEF ReadyRootedInEchoes
    <3>7. EchoTarget(p) \in Nat
      BY NodeThresholds
    <3>8. Cardinality(echoes'[p][v]) >= EchoTarget(p)
      <4>1. /\ Cardinality(echoes[p][v]) \in Nat
            /\ Cardinality(echoes'[p][v]) \in Nat
            /\ Cardinality(echoes[p][v]) <= Cardinality(echoes'[p][v])
        BY <1>6, CardinalityMonotone
      <4>2. QED
        BY <3>6, <3>7, <4>1
    <3>9. QED
      BY <3>5, <3>8
  <2>4. QED
    BY <1>10, <2>2, <2>3 DEF DecidesReady
<1>11. \A m \in Correct : \/ readyData'[m] = readyData[m]
                          \/ DecidesReady(n, q, v) /\ readyData'[m] = v
  BY DEF HandlerStep, DecidesReady, TypeOK
<1>12. ReadyRequested'
  BY <1>8, <1>10, <1>11 DEF ReadyRequested
<1>13. ReadyRootedInEchoes'
  <2> SUFFICES ASSUME NEW m \in Correct, readyData'[m] # NoData
               PROVE  \E p \in Correct :
                        Cardinality(echoes'[p][readyData'[m]]) >= EchoTarget(p)
    BY DEF ReadyRootedInEchoes
  <2>1. CASE readyData'[m] = readyData[m]
    <3>1. PICK p \in Correct : Cardinality(echoes[p][readyData[m]]) >= EchoTarget(p)
      BY <2>1 DEF ReadyRootedInEchoes
    <3>2. readyData[m] \in Data /\ EchoTarget(p) \in Nat
      BY <2>1, NodeThresholds DEF TypeOK
    <3> DEFINE w == readyData[m]
    <3>3. /\ Cardinality(echoes[p][w]) \in Nat
          /\ Cardinality(echoes'[p][w]) \in Nat
          /\ Cardinality(echoes[p][w]) <= Cardinality(echoes'[p][w])
      BY <1>6, <3>2, CardinalityMonotone
    <3>4. Cardinality(echoes'[p][w]) >= EchoTarget(p)
      BY <3>1, <3>2, <3>3
    <3>5. QED
      BY <2>1, <3>4
  <2>2. CASE DecidesReady(n, q, v) /\ readyData'[m] = v
    BY <1>10, <2>2
  <2>3. QED
    BY <1>11, <2>1, <2>2
<1>14. WireSound' /\ ReadiesSound' /\ LogSound'
  BY HandlerKeepsCounters DEF CountersInv
<1>15. QED
  BY <1>9, <1>12, <1>13, <1>14

LEMMA InitInv == Init => SessionInv
<1> SUFFICES ASSUME Init PROVE SessionInv
  OBVIOUS
<1>1. TypeOK
  BY DEF Init, TypeOK
<1>2. WireSound /\ EchoesSound /\ ReadiesSound
  BY DEF Init, WireSound, EchoesSound, ReadiesSound
<1>3. ReadyRequested /\ ReadyRootedInEchoes /\ LogSound
  BY DEF Init, ReadyRequested, ReadyRootedInEchoes, LogSound
<1>4. QED
  BY <1>1, <1>2, <1>3 DEF SessionInv

LEMMA NextKeepsCounters == CountersInv /\ [Next]_vars => CountersInv'
<1> SUFFICES ASSUME CountersInv, [Next]_vars PROVE CountersInv'
  OBVIOUS
<1>1. TypeOK /\ TypeOK'
  BY NextType DEF CountersInv
<1>2. ASSUME NEW v \in Data, ClientSend(v) PROVE CountersInv'
  BY <1>1, <1>2
  DEF ClientSend, CountersInv, WireSound, ReadiesSound, LogSound
<1>3. ASSUME NEW n \in Correct, NEW v \in Data, HandleSend(n, v)
      PROVE  CountersInv'
  BY <1>1, <1>3, HandleSendStep, HandlerKeepsCounters DEF Correct
<1>4. ASSUME NEW n \in Correct, NEW q \in Node, NEW v \in Data, HandleEcho(n, q, v)
      PROVE  CountersInv'
  BY <1>1, <1>4, HandleEchoStep, HandlerKeepsCounters
<1>5. ASSUME NEW n \in Correct, NEW q \in Node, NEW v \in Data, HandleReady(n, q, v)
      PROVE  CountersInv'
  BY <1>1, <1>5, HandleReadyStep, HandlerKeepsCounters
<1>6. CASE UNCHANGED vars
  BY <1>1, <1>6 DEF vars, CountersInv, WireSound, ReadiesSound, LogSound
<1>7. QED
  BY <1>2, <1>3, <1>4, <1>5, <1>6 DEF Next

(* A node's counters and its log say what was sent to it and what it sent, *)
(* under every config, reloads included, and with any number of faulty     *)
(* nodes.                                                                  *)
THEOREM CountersInvariant == Spec => []CountersInv
<1>1. Init => CountersInv
  BY InitInv DEF SessionInv, CountersInv
<1>2. CountersInv /\ [Next]_vars => CountersInv'
  BY NextKeepsCounters
<1>3. QED
  BY <1>1, <1>2, PTL DEF Spec

LEMMA NextKeepsInv ==
    ASSUME CompleteConfig, FewFaulty, SessionInv, [Next]_vars
    PROVE  SessionInv'
<1>1. TypeOK /\ TypeOK'
  BY NextType DEF SessionInv
<1>2. ASSUME NEW v \in Data, ClientSend(v) PROVE SessionInv'
  <2> USE <1>2 DEF ClientSend, SessionInv
  <2>1. WireSound' /\ EchoesSound' /\ ReadiesSound'
    BY DEF WireSound, EchoesSound, ReadiesSound
  <2>2. ReadyRequested' /\ ReadyRootedInEchoes' /\ LogSound'
    BY DEF ReadyRequested, ReadyRootedInEchoes, LogSound
  <2>3. QED
    BY <1>1, <2>1, <2>2
<1>3. ASSUME NEW n \in Correct, NEW v \in Data, HandleSend(n, v) PROVE SessionInv'
  BY <1>1, <1>3, HandleSendStep, HandlerKeepsInv DEF Correct
<1>4. ASSUME NEW n \in Correct, NEW q \in Node, NEW v \in Data, HandleEcho(n, q, v)
      PROVE  SessionInv'
  BY <1>1, <1>4, HandleEchoStep, HandlerKeepsInv
<1>5. ASSUME NEW n \in Correct, NEW q \in Node, NEW v \in Data, HandleReady(n, q, v)
      PROVE  SessionInv'
  BY <1>1, <1>5, HandleReadyStep, HandlerKeepsInv
<1>6. CASE UNCHANGED vars
  <2> USE <1>6 DEF vars, SessionInv
  <2>1. WireSound' /\ EchoesSound' /\ ReadiesSound'
    BY DEF WireSound, EchoesSound, ReadiesSound
  <2>2. ReadyRequested' /\ ReadyRootedInEchoes' /\ LogSound'
    BY DEF ReadyRequested, ReadyRootedInEchoes, LogSound
  <2>3. QED
    BY <1>1, <2>1, <2>2
<1>7. QED
  BY <1>2, <1>3, <1>4, <1>5, <1>6 DEF Next

(* The counters of every node stay sound, as long as its chain config is   *)
(* complete and no more than t nodes are faulty.                           *)
THEOREM SessionInvariant ==
    ASSUME CompleteConfig, FewFaulty
    PROVE  Spec => []SessionInv
<1>1. Init => SessionInv
  BY InitInv
<1>2. SessionInv /\ [Next]_vars => SessionInv'
  BY NextKeepsInv
<1>3. QED
  BY <1>1, <1>2, PTL DEF Spec

-----------------------------------------------------------------------------
(* What the invariant means for the properties of ReliableBroadcast.       *)

LEMMA LogOfCommitted ==
    ASSUME CountersInv, NEW n \in Correct, log[n] # <<>>
    PROVE  \E v \in Data :
             /\ log[n] = <<v>>
             /\ Cardinality(readies[n][v]) > DeliverThreshold(T(n))
  BY DEF CountersInv, LogSound

LEMMA InvImpliesCounters == SessionInv => CountersInv
  BY DEF SessionInv, CountersInv

(* Behind a commit of v there are more than t correct nodes that sent      *)
(* READY for v: 2 * t + 1 READYs were counted and at most t are faulty.    *)
LEMMA CommitImpliesReadies ==
    ASSUME CompleteConfig, FewFaulty, SessionInv,
           NEW n \in Correct, NEW v \in Data, log[n] = <<v>>
    PROVE  /\ v \in requested
           /\ readies[n][v] \in SUBSET Node
           /\ Cardinality(readies[n][v]) > 2 * T(n)
           /\ Cardinality({q \in Correct : readyData[q] = v}) > T(n)
<1> DEFINE R == readies[n][v]
           Sent == {q \in Correct : readyData[q] = v}
<1>1. /\ T(n) \in Nat /\ DeliverThreshold(T(n)) = 2 * T(n)
      /\ Cardinality(Faulty) \in Nat /\ Cardinality(Faulty) <= T(n)
  BY NodeThresholds
<1>2. R \in SUBSET Node
  BY DEF SessionInv, TypeOK
<1>3. Cardinality(R) > 2 * T(n)
  <2>1. log[n] # <<>>
    OBVIOUS
  <2>2. PICK w \in Data : /\ log[n] = <<w>>
                          /\ Cardinality(readies[n][w]) > DeliverThreshold(T(n))
    BY <2>1, LogOfCommitted, InvImpliesCounters
  <2>3. w = v
    BY <2>2
  <2>4. QED
    BY <1>1, <2>2, <2>3
<1>4. R \cap Correct \in SUBSET Sent /\ Sent \in SUBSET Node
  BY DEF SessionInv, ReadiesSound, Correct
<1>5. /\ Cardinality(R) \in Nat /\ Cardinality(R \cap Correct) \in Nat
      /\ Cardinality(R \cap Correct) >= Cardinality(R) - Cardinality(Faulty)
  BY <1>2, CorrectInSet
<1>6. Cardinality(Sent) \in Nat /\ Cardinality(R \cap Correct) <= Cardinality(Sent)
  BY <1>4, CardinalityMonotone
<1> HIDE DEF R, Sent
<1>7. Cardinality(R \cap Correct) > T(n)
  BY <1>1, <1>3, <1>5
<1>8. Cardinality(Sent) > T(n)
  BY <1>1, <1>5, <1>6, <1>7
<1>9. \E q \in Sent : TRUE
  BY <1>1, <1>8, FS_EmptySet
<1>10. v \in requested
  BY <1>9, NodeAssumption DEF Sent, SessionInv, ReadyRequested
<1>11. QED
  BY <1>2, <1>3, <1>8, <1>10 DEF R, Sent

(* READY quorums that overlap share a correct node.                        *)
LEMMA QuorumsShareCorrect ==
    ASSUME QuorumsOverlap, NEW m \in Correct, NEW n \in Correct,
           NEW R \in SUBSET Node, NEW S \in SUBSET Node,
           Cardinality(R) > DeliverThreshold(T(m)),
           Cardinality(S) > DeliverThreshold(T(n))
    PROVE  \E q \in Correct : q \in R /\ q \in S
<1> DEFINE r == DeliverThreshold(T(m))
           s == DeliverThreshold(T(n))
<1>1. r \in Nat /\ s \in Nat
  BY ThresholdType
<1>2. Cardinality(R) > r /\ Cardinality(S) > s
  OBVIOUS
<1>3. r + s + 2 > Cardinality(Node) + Cardinality(Faulty)
  BY DEF QuorumsOverlap
<1> HIDE DEF r, s
<1>4. /\ IsFiniteSet(R) /\ Cardinality(R) \in Nat
      /\ IsFiniteSet(S) /\ Cardinality(S) \in Nat
      /\ Cardinality(Faulty) \in Nat
  BY CorrectInSet
<1>5. Cardinality(R \cup S) = Cardinality(R) + Cardinality(S) - Cardinality(R \cap S)
  BY <1>4, FS_Union
<1>6. /\ Cardinality(R \cup S) <= Cardinality(Node)
      /\ Cardinality(R \cup S) \in Nat /\ Cardinality(Node) \in Nat
  BY CardinalityMonotone
<1>7. R \cap S \in SUBSET Node /\ Cardinality(R \cap S) \in Nat
  BY CorrectInSet
<1>8. Cardinality(R \cap S) > Cardinality(Faulty)
  BY <1>1, <1>2, <1>3, <1>4, <1>5, <1>6, <1>7
<1>9. QED
  BY <1>7, <1>8, CorrectInSet

(* Two correct nodes commit the same when their READY quorums overlap: the *)
(* correct node they share sent READY for one payload.                     *)
LEMMA CommitsAgree ==
    ASSUME QuorumsOverlap, CountersInv,
           NEW m \in Correct, NEW n \in Correct, NEW v \in Data, NEW w \in Data,
           log[m] = <<v>>, log[n] = <<w>>
    PROVE  v = w
<1>1. log[m] # <<>> /\ log[n] # <<>>
  OBVIOUS
<1>2. PICK x \in Data : /\ log[m] = <<x>>
                        /\ Cardinality(readies[m][x]) > DeliverThreshold(T(m))
  BY <1>1, LogOfCommitted
<1>3. PICK y \in Data : /\ log[n] = <<y>>
                        /\ Cardinality(readies[n][y]) > DeliverThreshold(T(n))
  BY <1>1, LogOfCommitted
<1>4. x = v /\ y = w
  BY <1>2, <1>3
<1>5. readies[m][v] \in SUBSET Node /\ readies[n][w] \in SUBSET Node
  BY DEF CountersInv, TypeOK
<1>6. PICK q \in Correct : q \in readies[m][v] /\ q \in readies[n][w]
  BY <1>2, <1>3, <1>4, <1>5, QuorumsShareCorrect
<1>7. readyData[q] = v /\ readyData[q] = w
  BY <1>6 DEF CountersInv, ReadiesSound
<1>8. QED
  BY <1>7

LEMMA InvImpliesNoFabrication ==
    ASSUME CompleteConfig, FewFaulty
    PROVE  SessionInv => NoFabrication
<1> SUFFICES ASSUME SessionInv, NEW n \in Correct, NEW i \in DOMAIN log[n]
             PROVE  log[n][i] \in requested
  BY DEF NoFabrication
<1>1. log[n] # <<>>
  OBVIOUS
<1>2. PICK v \in Data : log[n] = <<v>>
  BY <1>1, LogOfCommitted, InvImpliesCounters
<1>3. log[n][i] = v
  BY <1>2
<1>4. QED
  BY <1>2, <1>3, CommitImpliesReadies

(* A correct node commits only what a client sent, for any number of nodes *)
(* of which no more than t are faulty.                                     *)
THEOREM NothingFabricated ==
    ASSUME CompleteConfig, FewFaulty
    PROVE  Spec => []NoFabrication
<1>1. SessionInv => NoFabrication
  BY InvImpliesNoFabrication
<1>2. QED
  BY <1>1, SessionInvariant, PTL

(* No node sends READY unless a correct node counted a quorum of echoes.   *)
THEOREM ReadyStartsFromEchoes ==
    ASSUME CompleteConfig, FewFaulty
    PROVE  Spec => []ReadyRootedInEchoes
<1>1. SessionInv => ReadyRootedInEchoes
  BY DEF SessionInv
<1>2. QED
  BY <1>1, SessionInvariant, PTL

(* A correct node broadcasts READY for one payload of a session, whatever  *)
(* its config and however many of the others are faulty.                   *)
THEOREM ReadyIsUnique == Spec => []OneReadyPerSession
<1>1. CountersInv => OneReadyPerSession
  BY DEF CountersInv, WireSound, OneReadyPerSession
<1>2. QED
  BY <1>1, CountersInvariant, PTL

(* A commit leaves more than t correct nodes that sent READY, which is     *)
(* what makes every other node send its own.                               *)
THEOREM CommitsAreAmplified ==
    ASSUME CompleteConfig, FewFaulty
    PROVE  Spec => []CommitIsAmplified
<1>1. SessionInv => CommitIsAmplified
  <2> SUFFICES ASSUME SessionInv, NEW n \in Correct, NEW i \in DOMAIN log[n]
               PROVE  Cardinality({q \in Correct : readyData[q] = log[n][i]}) > T(n)
    BY DEF CommitIsAmplified
  <2>1. log[n] # <<>>
    OBVIOUS
  <2>2. PICK v \in Data : log[n] = <<v>>
    BY <2>1, LogOfCommitted, InvImpliesCounters
  <2>3. log[n][i] = v
    BY <2>2
  <2>4. QED
    BY <2>2, <2>3, CommitImpliesReadies
<1>2. QED
  BY <1>1, SessionInvariant, PTL

LEMMA InvImpliesAgreement ==
    ASSUME QuorumsOverlap
    PROVE  CountersInv => Agreement
<1> SUFFICES ASSUME CountersInv, NEW m \in Correct, NEW n \in Correct
             PROVE  /\ Len(log[n]) <= 1
                    /\ log[m] # <<>> /\ log[n] # <<>> => log[m] = log[n]
  BY DEF Agreement
<1>1. Len(log[n]) <= 1
  <2>1. CASE log[n] = <<>>
    BY <2>1
  <2>2. CASE log[n] # <<>>
    <3>1. PICK v \in Data : log[n] = <<v>>
      BY <2>2, LogOfCommitted
    <3>2. Len(<<v>>) = 1
      OBVIOUS
    <3>3. QED
      BY <3>1, <3>2
  <2>3. QED
    BY <2>1, <2>2
<1>2. ASSUME log[m] # <<>>, log[n] # <<>> PROVE log[m] = log[n]
  <2>1. PICK v \in Data : log[m] = <<v>>
    BY <1>2, LogOfCommitted
  <2>2. PICK w \in Data : log[n] = <<w>>
    BY <1>2, LogOfCommitted
  <2>3. QED
    BY <2>1, <2>2, CommitsAgree
<1>3. QED
  BY <1>1, <1>2

(* Correct nodes commit one payload of a session at most, and the same     *)
(* one, whatever configs they made it from and reload while it lives, as   *)
(* long as any two of their READY quorums share a correct node.            *)
THEOREM AgreementAcrossReloads ==
    ASSUME QuorumsOverlap
    PROVE  Spec => []Agreement
<1>1. CountersInv => Agreement
  BY InvImpliesAgreement
<1>2. QED
  BY <1>1, CountersInvariant, PTL

(* A session made from a config with any node in it commits above 2 * t.   *)
LEMMA SessionThresholds ==
    ASSUME NEW n \in Correct, SessionNodes[n] # {}
    PROVE  T(n) \in Nat /\ DeliverThreshold(T(n)) = 2 * T(n)
<1>1. SessionNodes[n] \in SUBSET Node
  BY NodeAssumption DEF Correct
<1>2. NodesCount(n) \in Nat /\ NodesCount(n) <= Cardinality(Node)
      /\ Cardinality(Node) \in Nat
  BY <1>1, CardinalityMonotone DEF NodesCount
<1>3. NodesCount(n) # 0
  BY <1>1, CorrectInSet, FS_EmptySet DEF NodesCount
<1>4. 3 * NodesCount(n) < SIZE_MOD
  BY <1>2, NodeAssumption, SizeAssumption
<1>5. DeliverThreshold(GetT(NodesCount(n))) = 2 * GetT(NodesCount(n))
  BY <1>2, <1>3, <1>4, ReadyQuorumReachable
<1>6. QED
  BY <1>5, ThresholdType DEF T

(* What that allows a chain that grows: its first 3 * t + 1 nodes may have *)
(* t faulty ones, and each node that is added while a session lives costs  *)
(* one of these t.                                                         *)
THEOREM GrowingChainAgrees ==
    ASSUME NEW t \in Nat,
           \A n \in Correct : SessionNodes[n] # {} /\ T(n) >= t,
           Cardinality(Node) + Cardinality(Faulty) <= 4 * t + 1
    PROVE  Spec => []Agreement
<1>1. \A n \in Correct : DeliverThreshold(T(n)) = 2 * T(n) /\ T(n) \in Nat
  BY SessionThresholds
<1>2. QuorumsOverlap
  <2> SUFFICES ASSUME NEW m \in Correct, NEW n \in Correct
               PROVE  DeliverThreshold(T(m)) + DeliverThreshold(T(n)) + 2
                          > Cardinality(Node) + Cardinality(Faulty)
    BY DEF QuorumsOverlap
  <2>1. Cardinality(Node) \in Nat /\ Cardinality(Faulty) \in Nat
    BY NodeAssumption, CorrectInSet
  <2>2. QED
    BY <1>1, <2>1
<1>3. QED
  BY <1>2, AgreementAcrossReloads

(* Agreement in every chain of 3 * t + 1 nodes that does not change and of *)
(* which t may be faulty.                                                  *)
THEOREM CorrectNodesAgree ==
    ASSUME CompleteConfig, FewFaulty, TightSize
    PROVE  Spec => []Agreement
<1>1. QuorumsOverlap
  <2> SUFFICES ASSUME NEW m \in Correct, NEW n \in Correct
               PROVE  DeliverThreshold(T(m)) + DeliverThreshold(T(n)) + 2
                          > Cardinality(Node) + Cardinality(Faulty)
    BY DEF QuorumsOverlap
  <2>1. \A p \in Correct : DeliverThreshold(T(p)) = 2 * T(p)
                          /\ T(p) = GetT(Cardinality(Node)) /\ T(p) \in Nat
    BY NodeThresholds
  <2>2. Cardinality(Faulty) \in Nat /\ Cardinality(Faulty) <= T(m)
    BY NodeThresholds
  <2>3. Cardinality(Node) = 3 * T(m) + 1
    BY <2>1 DEF TightSize
  <2>4. QED
    BY <2>1, <2>2, <2>3
<1>2. QED
  BY <1>1, AgreementAcrossReloads

-----------------------------------------------------------------------------
(* A session implements BroadcastSpec.                                     *)

(* A handler appends nothing, or the first payload of its node: one that   *)
(* was requested, and that nobody's log contradicts.                       *)
LEMMA HandlerImplementsPromise ==
    ASSUME SessionInv, NoFabrication', Agreement',
           NEW n \in Correct, NEW q \in Node, NEW v \in Data,
           HandlerStep(n, q, v)
    PROVE  UNCHANGED <<requested, log>> \/ Promise!Commit(n, v)
<1>1. requested' = requested
  BY DEF HandlerStep
<1>2. CASE log' = log
  BY <1>1, <1>2
<1>3. CASE CommitsOnce(n, v)
  <2>1. log[n] = <<>>
    BY <1>3 DEF CommitsOnce, SessionInv, LogSound
  <2>2. log \in [Correct -> Seq(Data)]
    BY DEF SessionInv, TypeOK
  <2>3. log' = [log EXCEPT ![n] = <<v>>]
    <3>1. Append(<<>>, v) = <<v>>
      OBVIOUS
    <3>2. QED
      BY <1>3, <2>1, <3>1 DEF CommitsOnce
  <2>4. log'[n] = <<v>> /\ log'[n] # <<>>
    BY <2>2, <2>3
  <2>5. v \in requested
    BY <1>1, <2>4 DEF NoFabrication
  <2>6. \A p \in Correct : log[p] \in {<<>>, <<v>>}
    <3> SUFFICES ASSUME NEW p \in Correct, log[p] # <<>>
                 PROVE  log[p] = <<v>>
      OBVIOUS
    <3>1. log'[p] = log[p]
      BY <2>1, <2>2, <2>3
    <3>2. QED
      BY <2>4, <3>1 DEF Agreement
  <2>7. QED
    BY <1>1, <2>1, <2>3, <2>5, <2>6 DEF Promise!Commit
<1>4. QED
  BY <1>2, <1>3 DEF HandlerStep

(* Seen through what clients sent and what nodes appended to their lists,  *)
(* the session does only what BroadcastSpec allows.                        *)
THEOREM ImplementsPromise ==
    ASSUME CompleteConfig, FewFaulty, TightSize
    PROVE  Spec => KeepsPromise
<1>1. Init => Promise!Init
  BY DEF Init, Promise!Init
<1>2. SessionInv /\ NoFabrication' /\ Agreement' /\ [Next]_vars
      => [Promise!Next]_(Promise!vars)
  <2> SUFFICES ASSUME SessionInv, NoFabrication', Agreement', [Next]_vars
               PROVE  [Promise!Next]_(Promise!vars)
    OBVIOUS
  <2>1. TypeOK
    BY DEF SessionInv
  <2>2. ASSUME NEW v \in Data, ClientSend(v) PROVE Promise!Next
    BY <2>2 DEF ClientSend, Promise!Next, Promise!Request
  <2>3. ASSUME NEW n \in Correct, NEW q \in Node, NEW v \in Data,
               HandlerStep(n, q, v)
        PROVE  [Promise!Next]_(Promise!vars)
    BY <2>3, HandlerImplementsPromise DEF Promise!Next, Promise!vars
  <2>4. CASE UNCHANGED vars
    BY <2>4 DEF vars, Promise!vars
  <2>5. QED
    BY <2>1, <2>2, <2>3, <2>4, HandleSendStep, HandleEchoStep, HandleReadyStep
    DEF Next, Correct
<1>3. QED
  BY <1>1, <1>2, SessionInvariant, NothingFabricated, CorrectNodesAgree, PTL
  DEF Spec, KeepsPromise, Promise!Spec

-----------------------------------------------------------------------------
(* What a correct node never leaves undone.                                *)
EchoOf(n, v) == [type |-> "ECHO", nodeId |-> n, data |-> v]
ReadyOf(n, v) == [type |-> "READY", nodeId |-> n, data |-> v]

(* A node that decided READY sent it and counted it; one that did not has  *)
(* sent the ECHOs it counted and has no quorum; one that did not commit    *)
(* has no count to commit on.                                              *)
Attentive(n) ==
    /\ readyData[n] # NoData =>
           /\ ReadyOf(n, readyData[n]) \in wire
           /\ delivered[n] \/ n \in readies[n][readyData[n]]
    /\ readyData[n] = NoData => \A v \in Data :
           /\ EchoOf(n, v) \in wire => n \in echoes[n][v]
           /\ n \in echoes[n][v] => EchoOf(n, v) \in wire
           /\ Cardinality(echoes[n][v]) < EchoTarget(n)
           /\ Cardinality(readies[n][v]) <= T(n)
    /\ ~delivered[n] =>
           \A v \in Data : Cardinality(readies[n][v]) <= DeliverThreshold(T(n))

AllAttentive == \A n \in Correct : Attentive(n)

(* A node is not disturbed by what others send and count.                  *)
LEMMA OthersStayAttentive ==
    ASSUME TypeOK, NEW n \in Correct, NEW q \in Node, NEW v \in Data,
           HandlerStep(n, q, v), NEW m \in Correct, m # n, Attentive(m)
    PROVE  Attentive(m)'
<1>1. /\ readyData'[m] = readyData[m] /\ delivered'[m] = delivered[m]
      /\ echoes'[m] = echoes[m] /\ readies'[m] = readies[m]
  BY DEF HandlerStep, EchoesGrow, ReadiesGrow, DecidesReady, CommitsOnce, TypeOK
<1>2. \A type, w : [type |-> type, nodeId |-> m, data |-> w] \in wire'
                    <=> [type |-> type, nodeId |-> m, data |-> w] \in wire
  BY DEF HandlerStep, Sends
<1>3. QED
  BY <1>1, <1>2 DEF Attentive, EchoOf, ReadyOf

(* The node's own state after it counted READYs.                           *)
LEMMA CountReadiesAttentive ==
    ASSUME TypeOK, NEW n \in Correct, NEW v \in Data, NEW seen \in SUBSET Node,
           Attentive(n), ~delivered[n], CountReadies(n, seen, v)
    PROVE  /\ readies'[n][v] = seen
           /\ \A w \in Data : w # v => readies'[n][w] = readies[n][w]
           /\ ~delivered'[n] =>
                 \A w \in Data : Cardinality(readies'[n][w]) <= DeliverThreshold(T(n))
<1>1. /\ readies'[n][v] = seen
      /\ \A w \in Data : w # v => readies'[n][w] = readies[n][w]
  BY DEF CountReadies, TypeOK
<1>2. ASSUME ~delivered'[n] PROVE Cardinality(seen) <= DeliverThreshold(T(n))
  <2>1. ~(Cardinality(seen) > DeliverThreshold(T(n)))
    BY <1>2 DEF CountReadies, TypeOK
  <2>2. Cardinality(seen) \in Nat /\ DeliverThreshold(T(n)) \in Nat
    BY CorrectInSet, ThresholdType
  <2>3. QED
    BY <2>1, <2>2
<1>3. QED
  BY <1>1, <1>2 DEF Attentive

(* A node that decides READY sends it and counts it.                       *)
LEMMA DecisionAttentive ==
    ASSUME TypeOK, NEW n \in Correct, NEW v \in Data, Attentive(n),
           readyData' = [readyData EXCEPT ![n] = v],
           ReadyOf(n, v) \in wire',
           \/ CountOwnReady(n, v)
           \/ /\ ~delivered[n]
              /\ \E seen \in SUBSET Node : n \in seen /\ CountReadies(n, seen, v)
    PROVE  Attentive(n)'
<1>1. readyData'[n] = v /\ v # NoData /\ n \in Node
  BY NodeAssumption DEF TypeOK, Correct
<1>2. CASE delivered[n]
  <2>1. delivered' = delivered
    BY <1>2 DEF CountOwnReady
  <2>2. QED
    BY <1>1, <1>2, <2>1 DEF Attentive
<1>3. CASE ~delivered[n]
  <2>1. PICK seen \in SUBSET Node : n \in seen /\ CountReadies(n, seen, v)
    <3>1. readies[n][v] \cup {n} \in SUBSET Node
      BY <1>1 DEF TypeOK
    <3>2. QED
      BY <1>3, <3>1 DEF CountOwnReady
  <2>2. /\ readies'[n][v] = seen
        /\ ~delivered'[n] =>
              \A w \in Data : Cardinality(readies'[n][w]) <= DeliverThreshold(T(n))
    BY <1>3, <2>1, CountReadiesAttentive
  <2>3. QED
    BY <1>1, <2>1, <2>2 DEF Attentive
<1>4. QED
  BY <1>2, <1>3

LEMMA EchoTargetType ==
    ASSUME NEW n \in Correct
    PROVE  EchoTarget(n) \in Nat
<1>1. T(n) \in Nat /\ NodesCount(n) \in Nat
  <2>1. SessionNodes[n] \in SUBSET Node
    BY NodeAssumption DEF Correct
  <2>2. QED
    BY <2>1, ThresholdType, CorrectInSet DEF NodesCount
<1>2. SIZE_MOD \in Nat \ {0}
  BY SizeAssumption
<1>3. QED
  BY <1>1, <1>2 DEF EchoTarget, GetEchoMessageCountTarget

LEMMA SenderStaysAttentive ==
    ASSUME TypeOK, TypeOK', NEW n \in Correct, NEW v \in Data, Attentive(n), HandleSend(n, v)
    PROVE  Attentive(n)'
<1>1. n \in Node /\ EchoTarget(n) \in Nat
  BY EchoTargetType DEF Correct
<1>2. CASE /\ readyData[n] # NoData
           /\ Broadcast(n, {"ECHO"}, v)
           /\ UNCHANGED <<echoes, readies, readyData, delivered, log>>
  BY <1>2 DEF Attentive, Broadcast, ReadyOf
<1>3. CASE /\ readyData[n] = NoData
           /\ ~EchoQuorumWith(n, n, v)
           /\ echoes' = [echoes EXCEPT ![n][v] = @ \cup {n}]
           /\ Broadcast(n, {"ECHO"}, v)
           /\ UNCHANGED <<readies, readyData, delivered, log>>
  <2>1. /\ echoes'[n][v] = echoes[n][v] \cup {n}
        /\ \A w \in Data : w # v => echoes'[n][w] = echoes[n][w]
    BY <1>3 DEF TypeOK
  <2>2. Cardinality(echoes'[n][v]) < EchoTarget(n)
    <3>1. echoes'[n][v] \in SUBSET Node
      BY DEF TypeOK
    <3>2. Cardinality(echoes'[n][v]) \in Nat
      BY <3>1, CorrectInSet
    <3>3. QED
      BY <1>1, <1>3, <2>1, <3>2 DEF EchoQuorumWith
  <2>3. \A w \in Data : EchoOf(n, w) \in wire' <=> w = v \/ EchoOf(n, w) \in wire
    BY <1>3 DEF Broadcast, EchoOf
  <2>4. QED
    BY <1>3, <2>1, <2>2, <2>3 DEF Attentive
<1>4. CASE /\ readyData' = [readyData EXCEPT ![n] = v]
           /\ \E encoded \in {"ECHO", "READY"} :
                 Broadcast(n, {encoded, "READY"}, v)
           /\ CountOwnReady(n, v)
  <2>1. ReadyOf(n, v) \in wire'
    BY <1>4 DEF Broadcast, ReadyOf
  <2>2. QED
    BY <1>4, <2>1, DecisionAttentive
<1>5. QED
  BY <1>2, <1>3, <1>4 DEF HandleSend

LEMMA EchoHandlerStaysAttentive ==
    ASSUME TypeOK, TypeOK', NEW n \in Correct, NEW q \in Node, NEW v \in Data,
           Attentive(n), HandleEcho(n, q, v)
    PROVE  Attentive(n)'
<1>1. n \in Node /\ EchoTarget(n) \in Nat /\ q # n
  BY EchoTargetType DEF Correct, HandleEcho, Receivable
<1>2. /\ echoes'[n][v] = echoes[n][v] \cup {q}
      /\ \A w \in Data : w # v => echoes'[n][w] = echoes[n][w]
      /\ readyData[n] = NoData
  BY DEF HandleEcho, TypeOK
<1>3. CASE /\ ~EchoQuorumWith(n, q, v)
           /\ UNCHANGED <<wire, readies, readyData, delivered, log>>
  <2>1. echoes'[n][v] \in SUBSET Node
    BY DEF TypeOK
  <2>2. Cardinality(echoes'[n][v]) \in Nat
    BY <2>1, CorrectInSet
  <2>3. Cardinality(echoes'[n][v]) < EchoTarget(n)
    BY <1>1, <1>2, <1>3, <2>2 DEF EchoQuorumWith
  <2>4. QED
    BY <1>1, <1>2, <1>3, <2>3 DEF Attentive
<1>4. CASE /\ readyData' = [readyData EXCEPT ![n] = v]
           /\ Broadcast(n, {"READY"}, v)
           /\ CountOwnReady(n, v)
  <2>1. ReadyOf(n, v) \in wire'
    BY <1>4 DEF Broadcast, ReadyOf
  <2>2. QED
    BY <1>4, <2>1, DecisionAttentive
<1>5. QED
  BY <1>3, <1>4 DEF HandleEcho

LEMMA ReadyHandlerStaysAttentive ==
    ASSUME TypeOK, TypeOK', NEW n \in Correct, NEW q \in Node, NEW v \in Data,
           Attentive(n), HandleReady(n, q, v)
    PROVE  Attentive(n)'
<1> DEFINE seen == readies[n][v] \cup {q}
<1>1. n \in Node /\ ~delivered[n] /\ seen \in SUBSET Node /\ echoes' = echoes
  BY DEF HandleReady, TypeOK, Correct
<1>2. CASE /\ readyData' = [readyData EXCEPT ![n] = v]
           /\ Broadcast(n, {"READY"}, v)
           /\ CountReadies(n, seen \cup {n}, v)
  <2>1. ReadyOf(n, v) \in wire'
    BY <1>2 DEF Broadcast, ReadyOf
  <2>2. n \in seen \cup {n} /\ seen \cup {n} \in SUBSET Node
    BY <1>1
  <2> HIDE DEF seen
  <2>3. QED
    BY <1>1, <1>2, <2>1, <2>2, DecisionAttentive
<1>3. CASE /\ ~Amplifies(n, seen)
           /\ CountReadies(n, seen, v)
           /\ UNCHANGED <<wire, readyData>>
  <2>1. Cardinality(seen) \in Nat /\ T(n) \in Nat
    BY <1>1, CorrectInSet, ThresholdType
  <2>2. readyData[n] = NoData => Cardinality(seen) <= T(n)
    BY <1>3, <2>1 DEF Amplifies
  <2>3. readies[n][v] \subseteq seen
    OBVIOUS
  <2> HIDE DEF seen
  <2>4. /\ readies'[n][v] = seen
        /\ \A w \in Data : w # v => readies'[n][w] = readies[n][w]
        /\ ~delivered'[n] =>
              \A w \in Data : Cardinality(readies'[n][w]) <= DeliverThreshold(T(n))
    BY <1>1, <1>3, CountReadiesAttentive
  <2>5. readyData[n] # NoData => readyData[n] \in Data
    BY DEF TypeOK
  <2>6. QED
    BY <1>1, <1>3, <2>2, <2>3, <2>4, <2>5 DEF Attentive
<1>4. QED
  BY <1>2, <1>3 DEF HandleReady

(* Every correct node stays attentive, if its config has a node: an empty  *)
(* one makes the echo target 0.                                            *)
LEMMA AttentiveInvariant ==
    ASSUME \A n \in Correct : EchoTarget(n) > 0
    PROVE  Spec => []AllAttentive
<1>1. Init => AllAttentive
  <2> SUFFICES ASSUME Init, NEW n \in Correct PROVE Attentive(n)
    BY DEF AllAttentive
  <2>1. Cardinality({}) = 0
    BY FS_EmptySet
  <2>2. T(n) \in Nat /\ DeliverThreshold(T(n)) \in Nat /\ EchoTarget(n) \in Nat
    BY ThresholdType, EchoTargetType
  <2>3. EchoTarget(n) > 0
    OBVIOUS
  <2>4. \A w \in Data : echoes[n][w] = {} /\ readies[n][w] = {}
    BY DEF Init
  <2>5. wire = {} /\ readyData[n] = NoData
    BY DEF Init
  <2>6. ASSUME NEW w \in Data
        PROVE  /\ n \notin echoes[n][w] /\ EchoOf(n, w) \notin wire
               /\ Cardinality(echoes[n][w]) < EchoTarget(n)
               /\ Cardinality(readies[n][w]) <= T(n)
               /\ Cardinality(readies[n][w]) <= DeliverThreshold(T(n))
    <3>1. Cardinality(echoes[n][w]) = 0 /\ Cardinality(readies[n][w]) = 0
      BY <2>1, <2>4
    <3>2. n \notin echoes[n][w] /\ EchoOf(n, w) \notin wire
      BY <2>4, <2>5
    <3>3. QED
      BY <2>2, <2>3, <3>1, <3>2
  <2>7. QED
    BY <2>5, <2>6 DEF Attentive
<1>2. TypeOK /\ AllAttentive /\ [Next]_vars => AllAttentive'
  <2> SUFFICES ASSUME TypeOK, AllAttentive, [Next]_vars, NEW m \in Correct
               PROVE  Attentive(m)'
    BY DEF AllAttentive
  <2>1. Attentive(m) /\ TypeOK'
    BY NextType DEF AllAttentive
  <2>2. ASSUME NEW v \in Data, ClientSend(v) PROVE Attentive(m)'
    BY <2>1, <2>2 DEF ClientSend, Attentive
  <2>3. ASSUME NEW n \in Correct, NEW v \in Data, HandleSend(n, v)
        PROVE  Attentive(m)'
    BY <2>1, <2>3, HandleSendStep, OthersStayAttentive, SenderStaysAttentive DEF Correct
  <2>4. ASSUME NEW n \in Correct, NEW q \in Node, NEW v \in Data, HandleEcho(n, q, v)
        PROVE  Attentive(m)'
    BY <2>1, <2>4, HandleEchoStep, OthersStayAttentive, EchoHandlerStaysAttentive
  <2>5. ASSUME NEW n \in Correct, NEW q \in Node, NEW v \in Data, HandleReady(n, q, v)
        PROVE  Attentive(m)'
    BY <2>1, <2>5, HandleReadyStep, OthersStayAttentive, ReadyHandlerStaysAttentive
  <2>6. CASE UNCHANGED vars
    BY <2>1, <2>6 DEF vars, Attentive
  <2>7. QED
    BY <2>2, <2>3, <2>4, <2>5, <2>6 DEF Next
<1>3. QED
  BY <1>1, <1>2, TypeCorrect, PTL DEF Spec

-----------------------------------------------------------------------------
(* What that means once everything was handled.                            *)

(* When more than t correct nodes sent READY for the only payload, every   *)
(* correct node commits it.                                                *)
LEMMA AmplifiedMeansCommitted ==
    ASSUME CompleteConfig, FewFaulty, SessionInv, AllAttentive, Settled,
           NEW v \in Data, requested = {v}, NEW p \in Correct,
           Cardinality({q \in Correct : readyData[q] = v}) > T(p),
           NEW n \in Correct
    PROVE  log[n] = <<v>>
<1> DEFINE Sent == {q \in Correct : readyData[q] = v}
<1>1. v # NoData /\ Correct \in SUBSET Node
  BY NodeAssumption DEF Correct
<1>2. \A m \in Correct : readyData[m] # NoData => readyData[m] = v
  BY DEF SessionInv, ReadyRequested
<1>3. ASSUME NEW m \in Correct, NEW q \in Sent
      PROVE  delivered[m] \/ q \in readies[m][v]
  <2>1. ReadyOf(q, v) \in wire /\ (delivered[q] \/ q \in readies[q][v])
    BY <1>1 DEF AllAttentive, Attentive
  <2>2. CASE q = m
    BY <2>1, <2>2
  <2>3. CASE q # m
    <3>1. Receivable(m, "READY", q, v)
      BY <1>1, <2>1, <2>3 DEF Receivable, ReadyOf, CompleteConfig
    <3>2. QED
      BY <3>1 DEF Settled
  <2>4. QED
    BY <2>2, <2>3
<1>4. ASSUME NEW m \in Correct PROVE readyData[m] = v
  <2>1. T(m) = T(p) /\ T(m) \in Nat
    BY NodeThresholds
  <2>2. CASE delivered[m]
    <3>1. PICK w \in Data : /\ log[m] = <<w>>
                            /\ Cardinality(readies[m][w]) > DeliverThreshold(T(m))
      BY <2>2 DEF SessionInv, LogSound
    <3>2. w \in requested
      BY <3>1, CommitImpliesReadies
    <3>3. Cardinality(readies[m][v]) > T(m)
      <4>1. DeliverThreshold(T(m)) = 2 * T(m)
        BY NodeThresholds
      <4>2. readies[m][v] \in SUBSET Node
        BY DEF SessionInv, TypeOK
      <4>3. Cardinality(readies[m][v]) \in Nat
        BY <4>2, CorrectInSet
      <4>4. w = v
        BY <3>2
      <4>5. QED
        BY <2>1, <3>1, <4>1, <4>3, <4>4
    <3>4. readyData[m] # NoData
      <4>1. readies[m][v] \in SUBSET Node
        BY DEF SessionInv, TypeOK
      <4>2. Cardinality(readies[m][v]) \in Nat
        BY <4>1, CorrectInSet
      <4>3. QED
        BY <2>1, <3>3, <4>2 DEF AllAttentive, Attentive
    <3>5. QED
      BY <1>2, <3>4
  <2>3. CASE ~delivered[m]
    <3>1. Sent \in SUBSET readies[m][v] /\ readies[m][v] \in SUBSET Node
      BY <1>3, <2>3 DEF SessionInv, TypeOK
    <3>2. /\ Cardinality(Sent) \in Nat /\ Cardinality(readies[m][v]) \in Nat
          /\ Cardinality(Sent) <= Cardinality(readies[m][v])
      BY <3>1, CardinalityMonotone
    <3>3. Cardinality(Sent) > T(p)
      OBVIOUS
    <3> HIDE DEF Sent
    <3>4. ~(Cardinality(readies[m][v]) <= T(m))
      BY <2>1, <3>2, <3>3
    <3>5. readyData[m] # NoData
      BY <3>4 DEF AllAttentive, Attentive
    <3>6. QED
      BY <1>2, <3>5
  <2>4. QED
    BY <2>2, <2>3
<1>5. Sent = Correct
  BY <1>4
<1>6. delivered[n]
  <2> SUFFICES ASSUME ~delivered[n] PROVE FALSE
    OBVIOUS
  <2>1. Correct \in SUBSET readies[n][v] /\ readies[n][v] \in SUBSET Node
    BY <1>3, <1>5 DEF SessionInv, TypeOK
  <2>2. /\ Cardinality(Correct) \in Nat /\ Cardinality(readies[n][v]) \in Nat
        /\ Cardinality(Correct) <= Cardinality(readies[n][v])
    BY <2>1, CardinalityMonotone
  <2>3. Cardinality(Correct) >= Cardinality(Node) - Cardinality(Faulty)
    <3>1. Node \cap Correct = Correct /\ Node \in SUBSET Node
      BY <1>1
    <3>2. QED
      BY <3>1, CorrectInSet
  <2>4. /\ T(n) \in Nat /\ 3 * T(n) < Cardinality(Node)
        /\ Cardinality(Faulty) \in Nat /\ Cardinality(Faulty) <= T(n)
        /\ DeliverThreshold(T(n)) = 2 * T(n)
    BY NodeThresholds
  <2>5. Cardinality(Node) \in Nat
    BY CorrectInSet
  <2>6. ~(Cardinality(readies[n][v]) <= DeliverThreshold(T(n)))
    BY <2>2, <2>3, <2>4, <2>5
  <2>7. QED
    BY <2>6 DEF AllAttentive, Attentive
<1>7. PICK w \in Data : log[n] = <<w>>
  BY <1>6 DEF SessionInv, LogSound
<1>8. w \in requested
  BY <1>7, CommitImpliesReadies
<1>9. QED
  BY <1>7, <1>8

(* In chains with up to t faulty nodes, a commit of one correct node is    *)
(* followed by the others': when all was handled, each has its quorum.     *)
THEOREM SettledSessionsAreTotal ==
    ASSUME CompleteConfig, FewFaulty
    PROVE  Spec => []SettledMeansTotal
<1>1. SessionInv /\ AllAttentive => SettledMeansTotal
  <2> SUFFICES ASSUME SessionInv, AllAttentive, NEW v \in Data,
                      Settled, requested = {v}, NEW m \in Correct, log[m] # <<>>,
                      NEW n \in Correct
               PROVE  log[n] = <<v>>
    BY DEF SettledMeansTotal
  <2>1. PICK w \in Data : log[m] = <<w>>
    BY LogOfCommitted, InvImpliesCounters
  <2>2. /\ w \in requested
        /\ Cardinality({q \in Correct : readyData[q] = w}) > T(m)
    BY <2>1, CommitImpliesReadies
  <2>3. w = v
    BY <2>2
  <2>4. QED
    BY <2>2, <2>3, AmplifiedMeansCommitted
<1>2. \A n \in Correct : EchoTarget(n) > 0
  BY NodeThresholds
<1>3. QED
  BY <1>1, <1>2, SessionInvariant, AttentiveInvariant, PTL

(* In such chains with echoes to spare, one payload that every node was    *)
(* sent is committed by every correct node when all was handled: either    *)
(* more than t of them sent READY, or those that did not have each         *)
(* other's ECHO, and they are enough for a quorum.                         *)
THEOREM SettledChainsCommit ==
    ASSUME CompleteConfig, FewFaulty, ClientsKnowAll, EchoesToSpare
    PROVE  Spec => []SettledMeansCommitted
<1>1. SessionInv /\ AllAttentive => SettledMeansCommitted
  <2> SUFFICES ASSUME SessionInv, AllAttentive, NEW v \in Data,
                      Settled, requested = {v}, NEW n \in Correct
               PROVE  log[n] = <<v>>
    BY DEF SettledMeansCommitted
  <2> DEFINE Sent == {q \in Correct : readyData[q] = v}
             Rest == Correct \ Sent
  <2>1. v # NoData /\ Correct \in SUBSET Node /\ n \in Node
    BY NodeAssumption DEF Correct
  <2>2. \A m \in Correct : readyData[m] # NoData => readyData[m] = v
    BY DEF SessionInv, ReadyRequested
  <2>3. /\ T(n) \in Nat /\ T(n) = GetT(Cardinality(Node))
        /\ NodesCount(n) = Cardinality(Node)
        /\ Cardinality(Faulty) \in Nat
    BY NodeThresholds DEF CompleteConfig, T, NodesCount
  <2>4. SUFFICES ASSUME ~(Cardinality(Sent) > T(n)) PROVE FALSE
    BY AmplifiedMeansCommitted
  <2>5. ASSUME NEW m \in Rest, NEW q \in Rest PROVE q \in echoes[m][v]
    <3>1. m \in Correct /\ q \in Correct /\ readyData[m] = NoData /\ readyData[q] = NoData
      BY <2>2
    <3>2. SendHandled(q, v)
      BY <2>1, <3>1 DEF Settled, ClientsKnowAll
    <3>3. EchoOf(q, v) \in wire /\ q \in echoes[q][v]
      BY <3>1, <3>2 DEF SendHandled, AllAttentive, Attentive, EchoOf
    <3>4. CASE m = q
      BY <3>3, <3>4
    <3>5. CASE m # q
      <4>1. Receivable(m, "ECHO", q, v)
        BY <2>1, <3>1, <3>3, <3>5 DEF Receivable, EchoOf, CompleteConfig
      <4>2. QED
        BY <3>1, <4>1 DEF Settled
    <3>6. QED
      BY <3>4, <3>5
  <2>6. Cardinality(Rest) \in Nat /\ Cardinality(Rest) >= Cardinality(Node) - Cardinality(Faulty) - T(n)
    <3>1. Sent \in SUBSET Node /\ Rest \in SUBSET Node
      BY <2>1
    <3>2. /\ Cardinality(Sent) \in Nat /\ Cardinality(Rest) \in Nat
          /\ Cardinality(Correct) \in Nat /\ Cardinality(Node) \in Nat
          /\ IsFiniteSet(Correct)
      BY <2>1, <3>1, CorrectInSet
    <3>3. Cardinality(Correct) >= Cardinality(Node) - Cardinality(Faulty)
      <4>1. Node \cap Correct = Correct /\ Node \in SUBSET Node
        BY <2>1
      <4>2. QED
        BY <4>1, CorrectInSet
    <3>4. Cardinality(Rest) = Cardinality(Correct) - Cardinality(Correct \cap Sent)
      BY <3>2, FS_Difference
    <3>5. Correct \cap Sent = Sent
      OBVIOUS
    <3> HIDE DEF Sent, Rest
    <3>6. QED
      BY <2>3, <2>4, <3>2, <3>3, <3>4, <3>5
  <2>7. /\ 2 * Cardinality(Rest) > Cardinality(Node) + T(n)
        /\ Cardinality(Rest) > 0
    <3>1. Cardinality(Node) > 3 * T(n) + 2 * Cardinality(Faulty)
      BY <2>3 DEF EchoesToSpare
    <3>2. Cardinality(Node) \in Nat
      BY CorrectInSet
    <3> HIDE DEF Rest
    <3>3. QED
      BY <2>3, <2>6, <3>1, <3>2
  <2>8. PICK m \in Rest : TRUE
    <3>1. Rest # {}
      BY <2>7, FS_EmptySet
    <3>2. QED
      BY <3>1
  <2>9. Cardinality(echoes[m][v]) >= Cardinality(Rest)
    <3>1. Rest \in SUBSET echoes[m][v] /\ echoes[m][v] \in SUBSET Node
      BY <2>5, <2>8 DEF SessionInv, TypeOK
    <3>2. QED
      BY <3>1, CardinalityMonotone
  <2>10. EchoTarget(m) \in Nat /\ EchoTarget(m) <= Cardinality(Rest)
    <3>1. EchoTarget(m) = GetEchoMessageCountTarget(Cardinality(Node), GetT(Cardinality(Node)))
      BY <2>8 DEF EchoTarget, T, NodesCount, CompleteConfig
    <3>2. Cardinality(Node) \in Nat \ {0} /\ 3 * Cardinality(Node) < SIZE_MOD
      BY <2>1, NodeAssumption, FS_CardinalityType, FS_EmptySet
    <3>3. EchoTarget(m) \in Nat
      BY <2>8, NodeThresholds
    <3> HIDE DEF Rest
    <3>4. QED
      BY <2>3, <2>6, <2>7, <3>1, <3>2, <3>3, EchoTargetIsLeast
  <2>11. m \in Correct /\ readyData[m] = NoData
    BY <2>2, <2>8
  <2>12. Cardinality(echoes[m][v]) < EchoTarget(m)
    BY <2>11 DEF AllAttentive, Attentive
  <2>13. Cardinality(echoes[m][v]) \in Nat
    <3>1. echoes[m][v] \in SUBSET Node
      BY <2>11 DEF SessionInv, TypeOK
    <3>2. QED
      BY <3>1, CorrectInSet
  <2> HIDE DEF Rest
  <2>14. QED
    BY <2>6, <2>9, <2>10, <2>12, <2>13
<1>2. \A n \in Correct : EchoTarget(n) > 0
  BY NodeThresholds
<1>3. QED
  BY <1>1, <1>2, SessionInvariant, AttentiveInvariant, PTL

-----------------------------------------------------------------------------
(* Every correct node keeps NodeContract, and nodes that keep it agree.    *)

\* No config is empty.
SomeNodes == \A n \in Correct : SessionNodes[n] # {}

Keeps(n) == [Contract(n)!Next]_(Contract(n)!vars)

\* The contract counts as the session does.
LEMMA SameCardinality ==
    ASSUME NEW n \in Correct, NEW S
    PROVE  Contract(n)!Cardinality(S) = Cardinality(S)
  BY DEF Contract!Cardinality, Cardinality

(* A message that reached a node of a correct sender stays on the wire.    *)
LEMMA ReceivedGrows ==
    ASSUME TypeOK, TypeOK', wire \subseteq wire', requested \subseteq requested',
           NEW n \in Correct
    PROVE  /\ Received(n) \subseteq Received(n)'
           /\ Received(n)' \in SUBSET Contract(n)!Incoming
<1>1. Received(n) \subseteq Received(n)'
  BY DEF Received, Receivable
<1>2. Received(n)' \subseteq Contract(n)!Incoming
  BY DEF Received, Receivable, TypeOK, MessageType, Contract!Incoming
<1>3. QED
  BY <1>1, <1>2

(* What a node does not send itself leaves it where it was.                *)
LEMMA BystanderReceives ==
    ASSUME TypeOK, TypeOK', wire \subseteq wire', requested \subseteq requested',
           NEW n \in Correct,
           echoes'[n] = echoes[n], readies'[n] = readies[n],
           readyData'[n] = readyData[n], log'[n] = log[n],
           \A m \in wire' \ wire : m.nodeId # n
    PROVE  Keeps(n)
<1>1. {m \in wire : m.nodeId = n}' = {m \in wire : m.nodeId = n}
  OBVIOUS
<1>2. Contract(n)!Receive
  BY <1>1, ReceivedGrows DEF Contract!Receive
<1>3. QED
  BY <1>2 DEF Keeps, Contract!Next

LEMMA HandlerKeepsContract ==
    ASSUME SomeNodes, CountersInv, TypeOK',
           NEW n \in Correct, NEW q \in Node, NEW v \in Data, HandlerStep(n, q, v)
    PROVE  Contract(n)!Handle(q, v)
<1> DEFINE Sent == {m \in wire : m.nodeId = n}
<1>1. TypeOK
  BY DEF CountersInv
<1>2. Received(n)' = Received(n)
  <2>1. requested' = requested
    BY DEF HandlerStep
  <2>2. \A m \in wire' \ wire : m.nodeId = n
    BY DEF HandlerStep, Sends
  <2>3. wire \subseteq wire'
    BY DEF HandlerStep, Sends
  <2>4. QED
    BY <2>1, <2>2, <2>3 DEF Received, Receivable
<1>3. Contract(n)!CountEchoes(q, v)
  <2>1. PICK seen \in SUBSET {n, q} :
               /\ echoes' = [echoes EXCEPT ![n][v] = @ \cup seen]
               /\ n \in seen => AskedFor(n, v)
               /\ q \in seen /\ q # n => Receivable(n, "ECHO", q, v)
    BY DEF HandlerStep, EchoesGrow
  <2>2. echoes'[n] = [echoes[n] EXCEPT ![v] = @ \cup seen]
    BY <1>1, <2>1 DEF TypeOK
  <2>3. n \in seen => Contract(n)!Asked(v)
    BY <2>1 DEF AskedFor, Contract!Asked, Contract!From, Received, Correct
  <2>4. q \in seen /\ q # n => Contract(n)!From("ECHO", q, v) \in Received(n)
    BY <2>1 DEF Contract!From, Received, MessageType
  <2>5. QED
    BY <2>2, <2>3, <2>4 DEF Contract!CountEchoes
<1>4. Contract(n)!CountReadies(q, v)
  <2>1. PICK seen \in SUBSET {n, q} :
               /\ readies' = [readies EXCEPT ![n][v] = @ \cup seen]
               /\ n \in seen => readyData'[n] = v
               /\ q \in seen /\ q # n => Receivable(n, "READY", q, v)
    BY DEF HandlerStep, ReadiesGrow
  <2>2. readies'[n] = [readies[n] EXCEPT ![v] = @ \cup seen]
    BY <1>1, <2>1 DEF TypeOK
  <2>3. q \in seen /\ q # n => Contract(n)!From("READY", q, v) \in Received(n)
    BY <2>1 DEF Contract!From, Received, MessageType
  <2>4. QED
    BY <2>1, <2>2, <2>3 DEF Contract!CountReadies
<1>5. Contract(n)!DecideReady(v)
  <2>1. CASE readyData' = readyData
    BY <2>1 DEF Contract!DecideReady
  <2>2. CASE DecidesReady(n, q, v)
    <3>1. readyData[n] = NoData /\ readyData'[n] = v
      BY <1>1, <2>2 DEF DecidesReady, TypeOK
    <3>2. CASE Cardinality(echoes'[n][v]) >= EchoTarget(n)
      BY <3>1, <3>2, SameCardinality DEF Contract!DecideReady
    <3>3. CASE /\ q # n
               /\ readies[n][v] \cup {q} \subseteq readies'[n][v]
               /\ Cardinality(readies[n][v] \cup {q}) > T(n)
      <4>1. n \notin readies[n][v]
        BY <3>1, NodeAssumption DEF CountersInv, ReadiesSound
      <4>2. readies[n][v] \cup {q} \subseteq readies'[n][v] \ {n}
        BY <3>3, <4>1
      <4>3. readies'[n][v] \ {n} \in SUBSET Node
        BY DEF TypeOK
      <4>4. /\ Cardinality(readies[n][v] \cup {q}) \in Nat
            /\ Cardinality(readies'[n][v] \ {n}) \in Nat
            /\ Cardinality(readies[n][v] \cup {q}) <= Cardinality(readies'[n][v] \ {n})
        BY <4>2, <4>3, CardinalityMonotone
      <4>5. T(n) \in Nat
        BY SessionThresholds DEF SomeNodes
      <4>6. Cardinality(readies'[n][v] \ {n}) > T(n)
        BY <3>3, <4>4, <4>5
      <4>7. QED
        BY <3>1, <4>6, SameCardinality DEF Contract!DecideReady
    <3>4. QED
      BY <2>2, <3>2, <3>3 DEF DecidesReady
  <2>3. QED
    BY <2>1, <2>2 DEF HandlerStep
<1>6. Contract(n)!Send(v)
  <2>1. PICK types \in SUBSET MessageType :
               /\ wire' = wire \cup [type: types, nodeId: {n}, data: {v}]
               /\ "READY" \in types => readyData'[n] = v
               /\ "ECHO" \in types => AskedFor(n, v)
    BY DEF HandlerStep, Sends
  <2>2. Sent' = Sent \cup [type: types, nodeId: {n}, data: {v}]
    BY <2>1
  <2>3. "ECHO" \in types => Contract(n)!Asked(v)
    BY <2>1 DEF AskedFor, Contract!Asked, Contract!From, Received, Correct
  <2>4. QED
    BY <2>1, <2>2, <2>3 DEF Contract!Send, MessageType
<1>7. Contract(n)!CommitOnce(v)
  <2>1. CASE log' = log
    BY <2>1 DEF Contract!CommitOnce
  <2>2. CASE CommitsOnce(n, v)
    <3>1. log[n] = <<>>
      BY <2>2 DEF CommitsOnce, CountersInv, LogSound
    <3>2. log'[n] = Append(log[n], v)
      BY <1>1, <2>2 DEF CommitsOnce, TypeOK
    <3>3. log'[n] = <<v>>
      BY <3>1, <3>2
    <3>4. Cardinality(readies'[n][v]) > 2 * T(n)
      BY <2>2, SessionThresholds DEF CommitsOnce, SomeNodes
    <3>5. QED
      BY <3>1, <3>3, <3>4, SameCardinality DEF Contract!CommitOnce
  <2>3. QED
    BY <2>1, <2>2 DEF HandlerStep
<1>8. QED
  BY <1>2, <1>3, <1>4, <1>5, <1>6, <1>7 DEF Contract!Handle

(* A step of one handler is Handle at its node and at most Receive at the  *)
(* others.                                                                 *)
LEMMA HandlerKeepsContracts ==
    ASSUME SomeNodes, CountersInv, TypeOK',
           NEW n \in Correct, NEW q \in Node, NEW v \in Data, HandlerStep(n, q, v)
    PROVE  \A p \in Correct : Keeps(p)
<1>1. TypeOK
  BY DEF CountersInv
<1>2. /\ requested' = requested /\ wire \subseteq wire'
      /\ \A m \in wire' \ wire : m.nodeId = n
  BY DEF HandlerStep, Sends
<1>3. ASSUME NEW p \in Correct, p # n PROVE Keeps(p)
  <2>1. /\ echoes'[p] = echoes[p] /\ readies'[p] = readies[p]
        /\ readyData'[p] = readyData[p] /\ log'[p] = log[p]
    <3>1. echoes'[p] = echoes[p] /\ readies'[p] = readies[p]
      BY <1>1, <1>3 DEF HandlerStep, EchoesGrow, ReadiesGrow, TypeOK
    <3>2. readyData'[p] = readyData[p] /\ log'[p] = log[p]
      BY <1>1, <1>3 DEF HandlerStep, DecidesReady, CommitsOnce, TypeOK
    <3>3. QED
      BY <3>1, <3>2
  <2>2. \A m \in wire' \ wire : m.nodeId # p
    BY <1>2, <1>3
  <2>3. QED
    BY <1>1, <1>2, <2>1, <2>2, BystanderReceives
<1>4. Keeps(n)
  BY HandlerKeepsContract DEF Keeps, Contract!Next
<1>5. QED
  BY <1>3, <1>4

LEMMA NextKeepsContracts ==
    ASSUME SomeNodes, CountersInv, TypeOK', [Next]_vars
    PROVE  \A n \in Correct : Keeps(n)
<1>1. TypeOK
  BY DEF CountersInv
<1>2. ASSUME NEW v \in Data, ClientSend(v), NEW n \in Correct PROVE Keeps(n)
  BY <1>1, <1>2, BystanderReceives DEF ClientSend
<1>3. ASSUME NEW n \in Correct, NEW q \in Node, NEW v \in Data, HandlerStep(n, q, v)
      PROVE  \A p \in Correct : Keeps(p)
  BY <1>3, HandlerKeepsContracts
<1>4. ASSUME UNCHANGED vars, NEW n \in Correct PROVE Keeps(n)
  BY <1>1, <1>4, BystanderReceives DEF vars
<1>5. QED
  BY <1>1, <1>2, <1>3, <1>4, HandleSendStep, HandleEchoStep, HandleReadyStep
  DEF Next, Correct

(* Every correct node takes only the steps of NodeContract, the contract   *)
(* that its threads are checked to keep: one step per handler loses        *)
(* nothing that the contract tells apart, whatever configs with some node  *)
(* in them the sessions count with and however many nodes are faulty.      *)
THEOREM NodesKeepTheirContract ==
    ASSUME SomeNodes
    PROVE  Spec => NodesKeepContract
<1>1. Init => \A n \in Correct : Contract(n)!Init
  <2> SUFFICES ASSUME Init, NEW n \in Correct PROVE Contract(n)!Init
    OBVIOUS
  <2>1. TypeOK
    BY DEF Init, TypeOK
  <2>2. Received(n) \in SUBSET Contract(n)!Incoming
    BY <2>1 DEF Received, Receivable, TypeOK, MessageType, Contract!Incoming
  <2>3. QED
    BY <2>2 DEF Init, Contract!Init
<1>2. CountersInv /\ CountersInv' /\ [Next]_vars
      => [\A n \in Correct : [Contract(n)!Next]_(Contract(n)!vars)]_vars
  BY NextKeepsContracts DEF CountersInv, Keeps
<1>3. QED
  BY <1>1, <1>2, CountersInvariant, PTL DEF Spec, NodesKeepContract

-----------------------------------------------------------------------------
(* What the contracts imply by themselves.  Nothing below uses the actions *)
(* of ReliableBroadcast: it holds of any nodes that keep their contracts   *)
(* and read what the others sent, those that run several threads included. *)

\* A node stands by the READYs it sent.
StandsBy(n) ==
    \A m \in wire :
        m.nodeId = n /\ m.type = "READY" => m.data \in Data /\ readyData[n] = m.data

\* A node commits once, on a full count of READYs.
CommitCounted(n) ==
    \/ log[n] = <<>>
    \/ \E v \in Data : log[n] = <<v>> /\ Cardinality(readies[n][v]) > 2 * T(n)

ContractsInv ==
    /\ \A n \in Correct : readies[n] \in [Data -> SUBSET Node]
    /\ \A n \in Correct : StandsBy(n) /\ CommitCounted(n)
    /\ ReadiesSound

\* READYs of v that n counts in a step: its own, or one that came.
CountsWhatCame(n) ==
    \A v \in Data : \A q \in readies'[n][v] \ readies[n][v] :
        \/ q = n /\ readyData'[n] = v
        \/ Receivable(n, "READY", q, v)

(* What a step that keeps the contract of n does to its half of the        *)
(* invariant.                                                              *)
LEMMA KeptContract ==
    ASSUME ContractsInv, NEW n \in Correct, Keeps(n)
    PROVE  /\ readyData[n] # NoData => readyData'[n] = readyData[n]
           /\ StandsBy(n)'
           /\ readies'[n] \in [Data -> SUBSET Node]
           /\ CountsWhatCame(n)
           /\ CommitCounted(n)'
<1> DEFINE Sent == {m \in wire : m.nodeId = n}
<1>1. /\ n \in Node /\ readies[n] \in [Data -> SUBSET Node]
      /\ StandsBy(n) /\ CommitCounted(n)
  BY DEF Correct, ContractsInv
<1>2. T(n)' = T(n)
  BY DEF T, NodesCount
<1>3. CASE /\ readies'[n] = readies[n] /\ readyData'[n] = readyData[n]
           /\ log'[n] = log[n] /\ Sent' = Sent
  <2>1. StandsBy(n)'
    BY <1>1, <1>3 DEF StandsBy
  <2>2. CountsWhatCame(n)
    BY <1>3 DEF CountsWhatCame
  <2>3. CommitCounted(n)'
    BY <1>1, <1>2, <1>3 DEF CommitCounted
  <2>4. QED
    BY <1>1, <1>3, <2>1, <2>2, <2>3
<1>4. ASSUME NEW q \in Node, NEW v \in Data, Contract(n)!Handle(q, v)
      PROVE  /\ readyData[n] # NoData => readyData'[n] = readyData[n]
             /\ StandsBy(n)'
             /\ readies'[n] \in [Data -> SUBSET Node]
             /\ CountsWhatCame(n)
             /\ CommitCounted(n)'
  <2>1. PICK seen \in SUBSET {n, q} :
               /\ readies'[n] = [readies[n] EXCEPT ![v] = @ \cup seen]
               /\ n \in seen => readyData'[n] = v
               /\ q \in seen /\ q # n => Contract(n)!From("READY", q, v) \in Received(n)
    BY <1>4 DEF Contract!Handle, Contract!CountReadies
  <2>2. /\ readies'[n] \in [Data -> SUBSET Node]
        /\ \A w \in Data : readies'[n][w] = IF w = v THEN readies[n][w] \cup seen
                                                     ELSE readies[n][w]
    BY <1>1, <2>1
  <2>3. q \in seen /\ q # n => Receivable(n, "READY", q, v)
    BY <2>1 DEF Contract!From, Received
  <2>4. CountsWhatCame(n)
    <3> SUFFICES ASSUME NEW w \in Data, NEW p \in readies'[n][w] \ readies[n][w]
                 PROVE  \/ p = n /\ readyData'[n] = w
                        \/ Receivable(n, "READY", p, w)
      BY DEF CountsWhatCame
    <3>1. w = v /\ p \in seen
      BY <2>2
    <3>2. QED
      BY <2>1, <2>3, <3>1
  <2>5. readyData'[n] = readyData[n] \/ readyData[n] = NoData
    BY <1>4 DEF Contract!Handle, Contract!DecideReady
  <2>6. StandsBy(n)'
    <3>1. PICK types \in SUBSET {"ECHO", "READY"} :
                 /\ Sent' = Sent \cup [type: types, nodeId: {n}, data: {v}]
                 /\ "READY" \in types => readyData'[n] = v
      BY <1>4 DEF Contract!Handle, Contract!Send
    <3> SUFFICES ASSUME NEW m \in wire', m.nodeId = n, m.type = "READY"
                 PROVE  m.data \in Data /\ readyData'[n] = m.data
      BY DEF StandsBy
    <3>2. m \in Sent'
      OBVIOUS
    <3>3. CASE m \in Sent
      <4>1. m.data \in Data /\ readyData[n] = m.data
        BY <1>1, <3>3 DEF StandsBy
      <4>2. readyData[n] # NoData
        BY <4>1, NodeAssumption
      <4>3. QED
        BY <2>5, <4>1, <4>2
    <3>4. CASE m \in [type: types, nodeId: {n}, data: {v}]
      BY <3>1, <3>4
    <3> HIDE DEF Sent
    <3>5. QED
      BY <3>1, <3>2, <3>3, <3>4
  <2>7. CommitCounted(n)'
    <3>1. CASE log'[n] = log[n]
      <4>1. CASE log[n] = <<>>
        BY <3>1, <4>1 DEF CommitCounted
      <4>2. CASE log[n] # <<>>
        <5>1. PICK w \in Data : log[n] = <<w>> /\ Cardinality(readies[n][w]) > 2 * T(n)
          BY <1>1, <4>2 DEF CommitCounted
        <5>2. readies'[n][w] \in SUBSET Node /\ readies[n][w] \in SUBSET readies'[n][w]
          BY <2>2
        <5>3. /\ Cardinality(readies[n][w]) \in Nat
              /\ Cardinality(readies'[n][w]) \in Nat
              /\ Cardinality(readies[n][w]) <= Cardinality(readies'[n][w])
          BY <5>2, CardinalityMonotone
        <5>4. T(n) \in Nat
          BY ThresholdType
        <5>5. Cardinality(readies'[n][w]) > 2 * T(n)
          BY <5>1, <5>3, <5>4
        <5>6. QED
          BY <1>2, <3>1, <5>1, <5>5 DEF CommitCounted
      <4>3. QED
        BY <4>1, <4>2
    <3>2. CASE log'[n] = <<v>> /\ Contract(n)!Cardinality(readies'[n][v]) > 2 * T(n)
      BY <1>2, <3>2, SameCardinality DEF CommitCounted
    <3>3. QED
      BY <1>4, <3>1, <3>2 DEF Contract!Handle, Contract!CommitOnce
  <2>8. QED
    BY <2>2, <2>4, <2>5, <2>6, <2>7
<1>5. QED
  BY <1>3, <1>4 DEF Keeps, Contract!Next, Contract!Receive, Contract!vars

LEMMA KeptContracts ==
    ASSUME ContractsInv, \A n \in Correct : Keeps(n)
    PROVE  ContractsInv'
<1>1. ReadiesSound'
  <2> SUFFICES ASSUME NEW n \in Correct, NEW v \in Data,
                      NEW q \in readies'[n][v], q \in Correct
               PROVE  readyData'[q] = v
    BY DEF ReadiesSound
  <2>1. CountsWhatCame(n)
    BY KeptContract
  <2>2. readyData[q] = v => readyData'[q] = v
    BY KeptContract, NodeAssumption
  <2>3. CASE q \in readies[n][v]
    BY <2>2, <2>3 DEF ContractsInv, ReadiesSound
  <2>4. CASE Receivable(n, "READY", q, v)
    <3>1. [type |-> "READY", nodeId |-> q, data |-> v] \in wire
      BY <2>4 DEF Receivable, Correct
    <3>2. readyData[q] = v
      BY <3>1 DEF ContractsInv, StandsBy
    <3>3. QED
      BY <2>2, <3>2
  <2>5. QED
    BY <2>1, <2>3, <2>4 DEF CountsWhatCame
<1>2. QED
  BY <1>1, KeptContract DEF ContractsInv

LEMMA ContractsInvImpliesAgreement ==
    ASSUME QuorumsOverlap, ContractsInv
    PROVE  Agreement
<1> SUFFICES ASSUME NEW m \in Correct, NEW n \in Correct
             PROVE  /\ Len(log[n]) <= 1
                    /\ log[m] # <<>> /\ log[n] # <<>> => log[m] = log[n]
  BY DEF Agreement
<1>1. Len(log[n]) <= 1
  <2>1. \A v \in Data : Len(<<v>>) = 1
    OBVIOUS
  <2>2. log[n] = <<>> \/ \E v \in Data : log[n] = <<v>>
    BY DEF ContractsInv, CommitCounted
  <2>3. CASE log[n] = <<>>
    BY <2>3
  <2>4. ASSUME NEW v \in Data, log[n] = <<v>> PROVE Len(log[n]) <= 1
    BY <2>1, <2>4
  <2>5. QED
    BY <2>2, <2>3, <2>4
<1>2. ASSUME log[m] # <<>>, log[n] # <<>> PROVE log[m] = log[n]
  <2>1. PICK v \in Data : log[m] = <<v>> /\ Cardinality(readies[m][v]) > 2 * T(m)
    BY <1>2 DEF ContractsInv, CommitCounted
  <2>2. PICK w \in Data : log[n] = <<w>> /\ Cardinality(readies[n][w]) > 2 * T(n)
    BY <1>2 DEF ContractsInv, CommitCounted
  <2>3. readies[m][v] \in SUBSET Node /\ readies[n][w] \in SUBSET Node
    BY DEF ContractsInv
  <2>4. \E q \in Correct : q \in readies[m][v] /\ q \in readies[n][w]
    <3>1. /\ DeliverThreshold(T(m)) <= 2 * T(m) /\ DeliverThreshold(T(m)) \in Nat
          /\ DeliverThreshold(T(n)) <= 2 * T(n) /\ DeliverThreshold(T(n)) \in Nat
          /\ T(m) \in Nat /\ T(n) \in Nat
      BY ThresholdType, ThresholdNotAbove
    <3>2. /\ Cardinality(readies[m][v]) > DeliverThreshold(T(m))
          /\ Cardinality(readies[n][w]) > DeliverThreshold(T(n))
      <4>1. /\ Cardinality(readies[m][v]) \in Nat
            /\ Cardinality(readies[n][w]) \in Nat
        BY <2>3, CorrectInSet
      <4>2. QED
        BY <2>1, <2>2, <3>1, <4>1
    <3>3. QED
      BY <2>3, <3>2, QuorumsShareCorrect
  <2>5. v = w
    BY <2>4 DEF ContractsInv, ReadiesSound
  <2>6. QED
    BY <2>1, <2>2, <2>5
<1>3. QED
  BY <1>1, <1>2

(* Nodes that keep NodeContract agree, whatever else they do: any two of   *)
(* them commit one payload of a session at most, and the same one.  By     *)
(* ThreadsKeepContract of NodeThreadsProofs a node keeps it that runs any  *)
(* number of threads.                                                      *)
THEOREM ContractsAgree ==
    ASSUME QuorumsOverlap
    PROVE  NodesKeepContract => []Agreement
<1>1. (\A n \in Correct : Contract(n)!Init) => ContractsInv
  <2> SUFFICES ASSUME \A n \in Correct : Contract(n)!Init PROVE ContractsInv
    OBVIOUS
  <2>1. \A n \in Correct : /\ readies[n] = [v \in Data |-> {}]
                           /\ {m \in wire : m.nodeId = n} = {}
                           /\ log[n] = <<>>
    BY DEF Contract!Init
  <2>2. \A n \in Correct : StandsBy(n) /\ CommitCounted(n)
    BY <2>1 DEF StandsBy, CommitCounted
  <2>3. ReadiesSound
    BY <2>1 DEF ReadiesSound
  <2>4. QED
    BY <2>1, <2>2, <2>3 DEF ContractsInv
<1>2. ContractsInv /\ [\A n \in Correct : Keeps(n)]_vars => ContractsInv'
  <2>1. CASE \A n \in Correct : Keeps(n)
    BY <2>1, KeptContracts
  <2>2. CASE UNCHANGED vars
    <3>1. UNCHANGED <<wire, readies, readyData, log>>
      BY <2>2 DEF vars
    <3>2. QED
      BY <3>1 DEF ContractsInv, StandsBy, CommitCounted, ReadiesSound
  <2>3. QED
    BY <2>1, <2>2
<1>3. ContractsInv => Agreement
  BY ContractsInvImpliesAgreement
<1>4. QED
  BY <1>1, <1>2, <1>3, PTL DEF NodesKeepContract, Keeps

-----------------------------------------------------------------------------
(* Restarts.  A node that restarts forgets which READY it has sent, so the *)
(* invariant speaks of the steady nodes only, and of a list it says who    *)
(* must have sent READY for what is on it, as counters may be gone.        *)

SteadyWireSound ==
    \A m \in wire : m.type = "READY" /\ m.nodeId \in Steady => readyData[m.nodeId] = m.data

SteadyReadiesSound ==
    \A n \in Correct : \A v \in Data : \A q \in readies[n][v] \cap Steady : readyData[q] = v

ListsRooted ==
    \A n \in Correct : \A i \in DOMAIN log[n] : \E S \in SUBSET Node :
        /\ Cardinality(S) > DeliverThreshold(T(n))
        /\ \A q \in S \cap Steady : readyData[q] = log[n][i]

SteadyListsSound ==
    \A n \in Steady : Len(log[n]) <= 1 /\ (~delivered[n] => log[n] = <<>>)

RestartInv ==
    /\ ChainTypeOK
    /\ SteadyWireSound
    /\ SteadyReadiesSound
    /\ ListsRooted
    /\ SteadyListsSound

LEMMA SteadyAre == Steady \subseteq Correct /\ Correct \subseteq Node /\ Steady \cap Restarting = {}
  BY RestartAssumption DEF Steady, Correct

(* Of all of that only the READYs of the steady nodes and the lists count. *)
LEMMA RootsStay ==
    ASSUME ListsRooted, log' = log,
           \A q \in Steady, w \in Data : readyData[q] = w => readyData'[q] = w,
           TypeOK
    PROVE  ListsRooted'
<1> SUFFICES ASSUME NEW n \in Correct, NEW i \in DOMAIN log[n]
             PROVE  \E S \in SUBSET Node :
                       /\ Cardinality(S) > DeliverThreshold(T(n))
                       /\ \A q \in S \cap Steady : readyData'[q] = log[n][i]
  BY DEF ListsRooted, T, NodesCount
<1>1. PICK S \in SUBSET Node :
        /\ Cardinality(S) > DeliverThreshold(T(n))
        /\ \A q \in S \cap Steady : readyData[q] = log[n][i]
  BY DEF ListsRooted
<1>2. log[n][i] \in Data
  BY DEF TypeOK
<1>3. QED
  BY <1>1, <1>2

LEMMA HandlerKeepsRestartInv ==
    ASSUME RestartInv, TypeOK', restarts' = restarts,
           NEW n \in Correct, NEW q \in Node, NEW v \in Data, HandlerStep(n, q, v)
    PROVE  RestartInv'
<1> USE SteadyAre
<1>1. TypeOK /\ ChainTypeOK'
  BY DEF RestartInv, ChainTypeOK
<1>2. \A x \in Correct, w \in Data : readyData[x] = w => readyData'[x] = w
  <2>1. readyData' = readyData \/ (readyData[n] = NoData /\ readyData' = [readyData EXCEPT ![n] = v])
    BY DEF HandlerStep, DecidesReady
  <2>2. NoData \notin Data
    BY NodeAssumption
  <2>3. QED
    BY <1>1, <2>1, <2>2 DEF TypeOK
<1>3. SteadyWireSound'
  <2> SUFFICES ASSUME NEW m \in wire', m.type = "READY", m.nodeId \in Steady
               PROVE  readyData'[m.nodeId] = m.data
    BY DEF SteadyWireSound, Steady, Correct
  <2>1. CASE m \in wire
    <3>1. m.data \in Data
      BY <1>1, <2>1 DEF TypeOK, Message
    <3>2. QED
      BY <1>2, <2>1, <3>1 DEF RestartInv, SteadyWireSound
  <2>2. CASE m \notin wire
    BY <2>2 DEF HandlerStep, Sends
  <2>3. QED
    BY <2>1, <2>2
<1>4. PICK seen \in SUBSET {n, q} :
        /\ readies' = [readies EXCEPT ![n][v] = @ \cup seen]
        /\ n \in seen => readyData'[n] = v
        /\ q \in seen /\ q # n => Receivable(n, "READY", q, v)
  BY DEF HandlerStep, ReadiesGrow
<1>5. q \in seen /\ q # n /\ q \in Steady => readyData'[q] = v
  <2> SUFFICES ASSUME q \in seen, q # n, q \in Steady PROVE readyData[q] = v
    BY <1>2
  <2>1. [type |-> "READY", nodeId |-> q, data |-> v] \in wire
    BY <1>4 DEF Receivable, Steady, Correct
  <2>2. QED
    BY <2>1 DEF RestartInv, SteadyWireSound
<1>6. SteadyReadiesSound'
  <2> SUFFICES ASSUME NEW p \in Correct, NEW w \in Data, NEW x \in readies'[p][w] \cap Steady
               PROVE  readyData'[x] = w
    BY DEF SteadyReadiesSound, Steady, Correct
  <2>1. CASE x \in readies[p][w]
    BY <1>2, <2>1 DEF RestartInv, SteadyReadiesSound
  <2>2. CASE x \notin readies[p][w]
    <3>1. readies'[p][w] = IF p = n /\ w = v THEN readies[n][v] \cup seen ELSE readies[p][w]
      BY <1>1, <1>4 DEF TypeOK
    <3>2. p = n /\ w = v /\ x \in seen
      BY <2>2, <3>1
    <3>3. x = n \/ x = q
      BY <1>4, <3>2
    <3>4. QED
      BY <1>4, <1>5, <3>2, <3>3
  <2>3. QED
    BY <2>1, <2>2
<1>7. ListsRooted'
  <2>1. CASE log' = log
    BY <1>1, <1>2, <2>1, RootsStay DEF RestartInv
  <2>2. CASE CommitsOnce(n, v)
    <3> SUFFICES ASSUME NEW p \in Correct, NEW i \in DOMAIN log'[p]
                 PROVE  \E S \in SUBSET Node :
                           /\ Cardinality(S) > DeliverThreshold(T(p))
                           /\ \A x \in S \cap Steady : readyData'[x] = log'[p][i]
      BY DEF ListsRooted, T, NodesCount
    <3>1. log' = [log EXCEPT ![n] = Append(@, v)]
      BY <2>2 DEF CommitsOnce
    <3>2. log[p] \in Seq(Data)
      BY <1>1 DEF TypeOK
    <3>3. CASE i \in DOMAIN log[p]
      <4>1. log'[p][i] = log[p][i] /\ log[p][i] \in Data
        BY <1>1, <3>1, <3>2, <3>3 DEF TypeOK
      <4>2. PICK S \in SUBSET Node :
              /\ Cardinality(S) > DeliverThreshold(T(p))
              /\ \A x \in S \cap Steady : readyData[x] = log[p][i]
        BY <3>3 DEF RestartInv, ListsRooted
      <4>3. QED
        BY <1>2, <4>1, <4>2
    <3>4. CASE i \notin DOMAIN log[p]
      <4>1. p = n /\ log'[p][i] = v
        BY <1>1, <3>1, <3>2, <3>4 DEF TypeOK
      <4>2. Cardinality(readies'[n][v]) > DeliverThreshold(T(n))
        BY <2>2 DEF CommitsOnce
      <4>3. readies'[n][v] \in SUBSET Node
        BY DEF TypeOK
      <4>4. \A x \in readies'[n][v] \cap Steady : readyData'[x] = v
        BY <1>6 DEF SteadyReadiesSound, Steady, Correct
      <4>5. QED
        BY <4>1, <4>2, <4>3, <4>4
    <3>5. QED
      BY <3>3, <3>4
  <2>3. QED
    BY <2>1, <2>2 DEF HandlerStep
<1>8. SteadyListsSound'
  <2> SUFFICES ASSUME NEW x \in Steady
               PROVE  Len(log'[x]) <= 1 /\ (~delivered'[x] => log'[x] = <<>>)
    BY DEF SteadyListsSound, Steady, Correct
  <2>1. Len(log[x]) <= 1 /\ (~delivered[x] => log[x] = <<>>)
    BY DEF RestartInv, SteadyListsSound
  <2>2. CASE CommitsOnce(n, v) /\ x = n
    <3>1. log'[x] = Append(<<>>, v) /\ delivered'[x]
      BY <1>1, <2>1, <2>2 DEF CommitsOnce, TypeOK
    <3>2. Len(Append(<<>>, v)) = 1
      OBVIOUS
    <3>3. QED
      BY <3>1, <3>2
  <2>3. CASE ~(CommitsOnce(n, v) /\ x = n)
    <3>1. log'[x] = log[x] /\ delivered'[x] = delivered[x]
      BY <1>1, <2>3 DEF HandlerStep, CommitsOnce, TypeOK
    <3>2. QED
      BY <2>1, <3>1
  <2>4. QED
    BY <2>2, <2>3
<1>9. QED
  BY <1>1, <1>3, <1>6, <1>7, <1>8 DEF RestartInv

LEMMA RestartKeepsRestartInv ==
    ASSUME RestartInv, NEW n \in Restarting, Restart(n)
    PROVE  RestartInv'
<1> USE SteadyAre, RestartAssumption
<1>1. TypeOK /\ restarts \in 0..MaxRestarts /\ n \in Correct
  BY DEF RestartInv, ChainTypeOK
<1>2. PICK types \in SUBSET MessageType, v \in Data : Broadcast(n, types, v)
  BY DEF Restart
<1>3. /\ echoes' = [echoes EXCEPT ![n] = [w \in Data |-> {}]]
      /\ readies' = [readies EXCEPT ![n] = [w \in Data |-> {}]]
      /\ readyData' = [readyData EXCEPT ![n] = NoData]
      /\ delivered' = [delivered EXCEPT ![n] = FALSE]
      /\ requested' = requested /\ log' = log
  BY DEF Restart, Forget
<1>4. ChainTypeOK'
  <2>1. TypeOK'
    <3>1. wire' \in SUBSET Message
      BY <1>1, <1>2 DEF Broadcast, TypeOK, Message
    <3>2. QED
      BY <1>1, <1>3, <3>1 DEF TypeOK
  <2>2. restarts' \in 0..MaxRestarts
    BY <1>1 DEF Restart
  <2>3. QED
    BY <2>1, <2>2 DEF ChainTypeOK
<1>5. \A x \in Steady : readyData'[x] = readyData[x] /\ delivered'[x] = delivered[x]
  BY <1>1, <1>3 DEF TypeOK
<1>6. SteadyWireSound'
  <2> SUFFICES ASSUME NEW m \in wire', m.type = "READY", m.nodeId \in Steady
               PROVE  readyData'[m.nodeId] = m.data
    BY DEF SteadyWireSound, Steady, Correct
  <2>1. m \in wire
    BY <1>2 DEF Broadcast
  <2>2. QED
    BY <1>5, <2>1 DEF RestartInv, SteadyWireSound
<1>7. SteadyReadiesSound'
  <2> SUFFICES ASSUME NEW p \in Correct, NEW w \in Data, NEW x \in readies'[p][w] \cap Steady
               PROVE  readyData'[x] = w
    BY DEF SteadyReadiesSound, Steady, Correct
  <2>1. x \in readies[p][w]
    BY <1>1, <1>3 DEF TypeOK
  <2>2. QED
    BY <1>5, <2>1 DEF RestartInv, SteadyReadiesSound
<1>8. ListsRooted'
  BY <1>1, <1>3, <1>5, RootsStay DEF RestartInv
<1>9. SteadyListsSound'
  BY <1>3, <1>5 DEF RestartInv, SteadyListsSound, Steady, Correct
<1>10. QED
  BY <1>4, <1>6, <1>7, <1>8, <1>9 DEF RestartInv

LEMMA InitRestartInv == ChainInit => RestartInv
<1> SUFFICES ASSUME ChainInit PROVE RestartInv
  OBVIOUS
<1> USE SteadyAre
<1>1. ChainTypeOK
  BY RestartAssumption DEF ChainInit, Init, ChainTypeOK, TypeOK
<1>2. wire = {} /\ \A n \in Correct : log[n] = <<>> /\ \A v \in Data : readies[n][v] = {}
  BY DEF ChainInit, Init
<1>3. DOMAIN <<>> = {} /\ Len(<<>>) = 0
  OBVIOUS
<1>4. SteadyWireSound /\ SteadyReadiesSound
  BY <1>2 DEF SteadyWireSound, SteadyReadiesSound
<1>5. ListsRooted
  BY <1>2, <1>3 DEF ListsRooted
<1>6. SteadyListsSound
  BY <1>2, <1>3 DEF SteadyListsSound
<1>7. QED
  BY <1>1, <1>4, <1>5, <1>6 DEF RestartInv

LEMMA NextKeepsRestartInv == RestartInv /\ [ChainNext]_chainVars => RestartInv'
<1> SUFFICES ASSUME RestartInv, [ChainNext]_chainVars PROVE RestartInv'
  OBVIOUS
<1> USE SteadyAre
<1>1. TypeOK
  BY DEF RestartInv, ChainTypeOK
<1>2. ASSUME log' = log, wire' = wire, readies' = readies, readyData' = readyData,
             delivered' = delivered, ChainTypeOK'
      PROVE  RestartInv'
  <2>1. ListsRooted'
    BY <1>1, <1>2, RootsStay DEF RestartInv
  <2>2. SteadyWireSound' /\ SteadyReadiesSound' /\ SteadyListsSound'
    BY <1>2 DEF RestartInv, SteadyWireSound, SteadyReadiesSound, SteadyListsSound, Steady, Correct
  <2>3. QED
    BY <1>2, <2>1, <2>2 DEF RestartInv
<1>3. CASE Next /\ UNCHANGED restarts
  <2>1. TypeOK'
    BY <1>1, <1>3, NextType
  <2>2. ChainTypeOK'
    BY <1>3, <2>1 DEF RestartInv, ChainTypeOK
  <2>3. CASE \E v \in Data : ClientSend(v)
    BY <1>2, <2>2, <2>3 DEF ClientSend
  <2>4. ASSUME NEW n \in Correct, NEW v \in Data, HandleSend(n, v) PROVE RestartInv'
    BY <1>1, <1>3, <2>1, <2>4, HandleSendStep, HandlerKeepsRestartInv
  <2>5. ASSUME NEW n \in Correct, NEW q \in Node, NEW v \in Data, HandleEcho(n, q, v)
        PROVE  RestartInv'
    BY <1>1, <1>3, <2>1, <2>5, HandleEchoStep, HandlerKeepsRestartInv
  <2>6. ASSUME NEW n \in Correct, NEW q \in Node, NEW v \in Data, HandleReady(n, q, v)
        PROVE  RestartInv'
    BY <1>1, <1>3, <2>1, <2>6, HandleReadyStep, HandlerKeepsRestartInv
  <2>7. QED
    BY <1>3, <2>3, <2>4, <2>5, <2>6 DEF Next
<1>4. CASE \E n \in Restarting : Restart(n)
  BY <1>4, RestartKeepsRestartInv
<1>5. CASE UNCHANGED chainVars
  <2>1. ChainTypeOK'
    BY <1>5 DEF RestartInv, ChainTypeOK, TypeOK, chainVars, vars
  <2>2. QED
    BY <1>2, <1>5, <2>1 DEF chainVars, vars
<1>6. QED
  BY <1>3, <1>4, <1>5 DEF ChainNext

LEMMA RestartInvariant == ChainSpec => []RestartInv
<1>1. QED
  BY InitRestartInv, NextKeepsRestartInv, PTL DEF ChainSpec

(* The types are kept.                                                     *)
THEOREM RestartsTypeCorrect == ChainSpec => []ChainTypeOK
<1>1. RestartInv => ChainTypeOK
  BY DEF RestartInv
<1>2. QED
  BY <1>1, RestartInvariant, PTL

(* Two quorums, however the nodes in them change their minds.              *)
LEMMA QuorumsShareASteadyNode ==
    ASSUME QuorumsShareSteady, NEW m \in Correct, NEW n \in Correct,
           NEW Q \in SUBSET Node, NEW R \in SUBSET Node,
           Cardinality(Q) > DeliverThreshold(T(m)),
           Cardinality(R) > DeliverThreshold(T(n))
    PROVE  \E q \in Q \cap R : q \in Steady
<1> DEFINE B == Faulty \cup Restarting
<1>1. IsFiniteSet(Node) /\ B \in SUBSET Node /\ Steady = Node \ B
  BY NodeAssumption, RestartAssumption DEF Steady, Correct
<1>2. IsFiniteSet(Q) /\ IsFiniteSet(R) /\ IsFiniteSet(B)
  BY <1>1, FS_Subset
<1>3. /\ IsFiniteSet(Q \cup R)
      /\ Cardinality(Q \cup R) = Cardinality(Q) + Cardinality(R) - Cardinality(Q \cap R)
  BY <1>2, FS_Union
<1>4. Cardinality(Q \cup R) <= Cardinality(Node)
  BY <1>1, FS_Subset
<1>5. IsFiniteSet(Q \cap R)
  BY <1>2, FS_Intersection
<1>6. /\ Cardinality(Q) \in Nat /\ Cardinality(R) \in Nat /\ Cardinality(B) \in Nat
      /\ Cardinality(Q \cap R) \in Nat /\ Cardinality(Node) \in Nat
      /\ Cardinality(Q \cup R) \in Nat
  BY <1>1, <1>2, <1>3, <1>5, FS_CardinalityType
<1>7. DeliverThreshold(T(m)) \in Nat /\ DeliverThreshold(T(n)) \in Nat
  BY ThresholdType
<1>8. DeliverThreshold(T(m)) + DeliverThreshold(T(n)) + 2 > Cardinality(Node) + Cardinality(B)
  BY DEF QuorumsShareSteady
<1>9. Cardinality(Q \cap R) > Cardinality(B)
  BY <1>3, <1>4, <1>6, <1>7, <1>8
<1>10. ~(Q \cap R \subseteq B)
  <2>1. Q \cap R \subseteq B => Cardinality(Q \cap R) <= Cardinality(B)
    BY <1>2, FS_Subset
  <2>2. QED
    BY <1>6, <1>9, <2>1
<1>11. QED
  BY <1>1, <1>10

(* Nodes that restart and forget what they sent do not lead to different   *)
(* payloads on two lists, nor on one, as long as any two READY quorums     *)
(* share a node that is neither faulty nor restarts.                       *)
THEOREM RestartsKeepAgreement ==
    ASSUME QuorumsShareSteady
    PROVE  ChainSpec => []AgreementAcrossRestarts
<1>1. RestartInv => AgreementAcrossRestarts
  <2> SUFFICES ASSUME RestartInv PROVE AgreementAcrossRestarts
    OBVIOUS
  <2>1. \A n \in Steady : Len(log[n]) <= 1
    BY DEF RestartInv, SteadyListsSound
  <2>2. ASSUME NEW m \in Correct, NEW n \in Correct,
               NEW i \in DOMAIN log[m], NEW j \in DOMAIN log[n]
        PROVE  log[m][i] = log[n][j]
    <3>1. PICK Q \in SUBSET Node :
            /\ Cardinality(Q) > DeliverThreshold(T(m))
            /\ \A q \in Q \cap Steady : readyData[q] = log[m][i]
      BY DEF RestartInv, ListsRooted
    <3>2. PICK R \in SUBSET Node :
            /\ Cardinality(R) > DeliverThreshold(T(n))
            /\ \A q \in R \cap Steady : readyData[q] = log[n][j]
      BY DEF RestartInv, ListsRooted
    <3>3. PICK q \in Q \cap R : q \in Steady
      BY <3>1, <3>2, QuorumsShareASteadyNode
    <3>4. QED
      BY <3>1, <3>2, <3>3
  <2>3. QED
    BY <2>1, <2>2 DEF AgreementAcrossRestarts
<1>2. QED
  BY <1>1, RestartInvariant, PTL

(* With one complete config everywhere and n = 3 * t + 1 that is so as     *)
(* long as no more than t nodes are faulty or restart.                     *)
THEOREM RestartsWithinTolerance ==
    ASSUME CompleteConfig, TightSize,
           Cardinality(Faulty \cup Restarting) <= GetT(Cardinality(Node))
    PROVE  ChainSpec => []AgreementAcrossRestarts
<1>1. FewFaulty
  <2>1. IsFiniteSet(Faulty \cup Restarting) /\ Faulty \subseteq Faulty \cup Restarting
    BY NodeAssumption, RestartAssumption, FS_Subset DEF Correct
  <2>2. /\ Cardinality(Faulty) <= Cardinality(Faulty \cup Restarting)
        /\ Cardinality(Faulty) \in Nat /\ Cardinality(Faulty \cup Restarting) \in Nat
    BY <2>1, FS_Subset, FS_CardinalityType
  <2>3. Cardinality(Node) \in Nat
    BY NodeAssumption, FS_CardinalityType
  <2>4. GetT(Cardinality(Node)) \in Int
    BY <2>3, SizeAssumption DEF GetT
  <2>5. QED
    BY <2>2, <2>4 DEF FewFaulty
<1>2. QuorumsShareSteady
  <2> SUFFICES ASSUME NEW m \in Correct, NEW n \in Correct
               PROVE  DeliverThreshold(T(m)) + DeliverThreshold(T(n)) + 2
                          > Cardinality(Node) + Cardinality(Faulty \cup Restarting)
    BY DEF QuorumsShareSteady
  <2>1. \A p \in Correct : DeliverThreshold(T(p)) = 2 * T(p)
                          /\ T(p) = GetT(Cardinality(Node)) /\ T(p) \in Nat
    BY <1>1, NodeThresholds
  <2>2. Cardinality(Node) = 3 * T(m) + 1
    BY <2>1 DEF TightSize
  <2>3. Cardinality(Faulty \cup Restarting) \in Nat
    BY NodeAssumption, RestartAssumption, FS_Subset, FS_CardinalityType DEF Correct
  <2>4. QED
    BY <2>1, <2>2, <2>3
<1>3. QED
  BY <1>2, RestartsKeepAgreement

(* The refinement.                                                         *)
LEMMA SteadySets ==
    /\ SteadyChain!Correct = Steady
    /\ SteadyChain!MessageType = MessageType
    /\ Steady \subseteq Correct /\ Correct \subseteq Node
    /\ Restarting \cap Steady = {}
  BY SteadyAre DEF SteadyChain!Correct, SteadyChain!MessageType, MessageType, Steady, Correct

LEMMA SteadyCardinality ==
    ASSUME NEW S PROVE SteadyChain!Cardinality(S) = Cardinality(S)
  BY DEF SteadyChain!Cardinality, Cardinality

LEMMA SteadyThresholds ==
    ASSUME NEW n
    PROVE  /\ SteadyChain!T(n) = T(n)
           /\ SteadyChain!EchoTarget(n) = EchoTarget(n)
           /\ \A k : SteadyChain!DeliverThreshold(k) = DeliverThreshold(k)
<1>1. \A k : SteadyChain!GetT(k) = GetT(k)
  BY DEF SteadyChain!GetT, GetT
<1>2. \A k, t : SteadyChain!GetEchoMessageCountTarget(k, t) = GetEchoMessageCountTarget(k, t)
  BY DEF SteadyChain!GetEchoMessageCountTarget, GetEchoMessageCountTarget
<1>3. \A k : SteadyChain!DeliverThreshold(k) = DeliverThreshold(k)
  BY DEF SteadyChain!DeliverThreshold, DeliverThreshold
<1>4. SteadyChain!NodesCount(n) = NodesCount(n)
  BY SteadyCardinality DEF SteadyChain!NodesCount, NodesCount
<1>5. QED
  BY <1>1, <1>2, <1>3, <1>4 DEF SteadyChain!T, T, SteadyChain!EchoTarget, EchoTarget

(* What a steady node receives it may receive in the abstract chain too.   *)
LEMMA SteadyReceives ==
    ASSUME NEW n \in Steady, NEW type, NEW q \in Node, NEW v, Receivable(n, type, q, v)
    PROVE  SteadyChain!Receivable(n, type, q, v)
<1> DEFINE m == [type |-> type, nodeId |-> q, data |-> v]
<1>1. n \in ChainNodes[q] \ {q} /\ (q \in Faulty \/ m \in wire) /\ m.nodeId = q
  BY DEF Receivable
<1>2. q \in Faulty \cup Restarting \/ q \in Steady
  BY DEF Steady, Correct
<1>3. q \in Faulty \cup Restarting \/ m \in {x \in wire : x.nodeId \in Steady}
  BY <1>1, <1>2, SteadySets DEF Steady, Correct
<1>4. QED
  BY <1>1, <1>3 DEF SteadyChain!Receivable

LEMMA SteadyBroadcasts ==
    ASSUME NEW n \in Steady, NEW types, NEW v, Broadcast(n, types, v)
    PROVE  SteadyChain!Broadcast(n, types, v)
<1>1. \A m \in [type: types, nodeId: {n}, data: {v}] : m.nodeId = n
  OBVIOUS
<1>2. wire' = wire \cup [type: types, nodeId: {n}, data: {v}]
  BY DEF Broadcast
<1>3. {m \in wire' : m.nodeId \in Steady}
      = {m \in wire : m.nodeId \in Steady} \cup [type: types, nodeId: {n}, data: {v}]
  BY <1>1, <1>2
<1>4. QED
  BY <1>3 DEF SteadyChain!Broadcast, Steady, Correct

(* A function on the correct nodes, seen by the steady ones, after a step. *)
LEMMA OfNext ==
    /\ Of(echoes)' = [x \in Steady |-> echoes'[x]]
    /\ Of(readies)' = [x \in Steady |-> readies'[x]]
    /\ Of(readyData)' = [x \in Steady |-> readyData'[x]]
    /\ Of(delivered)' = [x \in Steady |-> delivered'[x]]
    /\ Of(log)' = [x \in Steady |-> log'[x]]
  BY DEF Of, Steady, Correct

(* Changed at a steady node.                                               *)
LEMMA OfChanged ==
    ASSUME NEW n \in Steady, NEW e
    PROVE  /\ DOMAIN echoes = Correct /\ echoes' = [echoes EXCEPT ![n] = e]
              => Of(echoes)' = [Of(echoes) EXCEPT ![n] = e]
           /\ DOMAIN readies = Correct /\ readies' = [readies EXCEPT ![n] = e]
              => Of(readies)' = [Of(readies) EXCEPT ![n] = e]
           /\ DOMAIN readyData = Correct /\ readyData' = [readyData EXCEPT ![n] = e]
              => Of(readyData)' = [Of(readyData) EXCEPT ![n] = e]
           /\ DOMAIN delivered = Correct /\ delivered' = [delivered EXCEPT ![n] = e]
              => Of(delivered)' = [Of(delivered) EXCEPT ![n] = e]
           /\ DOMAIN log = Correct /\ log' = [log EXCEPT ![n] = e]
              => Of(log)' = [Of(log) EXCEPT ![n] = e]
<1>2. /\ Of(echoes) = [x \in Steady |-> echoes[x]] /\ Of(readies) = [x \in Steady |-> readies[x]]
      /\ Of(readyData) = [x \in Steady |-> readyData[x]]
      /\ Of(delivered) = [x \in Steady |-> delivered[x]] /\ Of(log) = [x \in Steady |-> log[x]]
  BY DEF Of
<1>3. DOMAIN echoes = Correct /\ echoes' = [echoes EXCEPT ![n] = e]
      => Of(echoes)' = [Of(echoes) EXCEPT ![n] = e]
  BY SteadySets, <1>2, OfNext
<1>4. DOMAIN readies = Correct /\ readies' = [readies EXCEPT ![n] = e]
      => Of(readies)' = [Of(readies) EXCEPT ![n] = e]
  BY SteadySets, <1>2, OfNext
<1>5. DOMAIN readyData = Correct /\ readyData' = [readyData EXCEPT ![n] = e]
      => Of(readyData)' = [Of(readyData) EXCEPT ![n] = e]
  BY SteadySets, <1>2, OfNext
<1>6. DOMAIN delivered = Correct /\ delivered' = [delivered EXCEPT ![n] = e]
      => Of(delivered)' = [Of(delivered) EXCEPT ![n] = e]
  BY SteadySets, <1>2, OfNext
<1>7. DOMAIN log = Correct /\ log' = [log EXCEPT ![n] = e]
      => Of(log)' = [Of(log) EXCEPT ![n] = e]
  BY SteadySets, <1>2, OfNext
<1>8. QED
  BY <1>3, <1>4, <1>5, <1>6, <1>7

LEMMA SteadyCounts ==
    ASSUME TypeOK, NEW n \in Steady, NEW seen, NEW v \in Data, CountReadies(n, seen, v)
    PROVE  SteadyChain!CountReadies(n, seen, v)
<1>1. DOMAIN readies = Correct /\ DOMAIN delivered = Correct /\ DOMAIN log = Correct /\ n \in Correct
  BY SteadySets DEF TypeOK
<1>2. Of(readies)' = [Of(readies) EXCEPT ![n] = [Of(readies)[n] EXCEPT ![v] = seen]]
  <2>1. readies' = [readies EXCEPT ![n] = [readies[n] EXCEPT ![v] = seen]]
    BY DEF CountReadies
  <2>2. Of(readies)[n] = readies[n]
    BY DEF Of
  <2>3. QED
    BY <1>1, <2>1, <2>2, OfChanged
<1>3. SteadyChain!Cardinality(seen) > SteadyChain!DeliverThreshold(SteadyChain!T(n))
      <=> Cardinality(seen) > DeliverThreshold(T(n))
  BY SteadyThresholds, SteadyCardinality
<1>4. CASE Cardinality(seen) > DeliverThreshold(T(n))
  <2>1. delivered' = [delivered EXCEPT ![n] = TRUE] /\ log' = [log EXCEPT ![n] = Append(log[n], v)]
    BY <1>4 DEF CountReadies
  <2>2. Of(delivered)' = [Of(delivered) EXCEPT ![n] = TRUE]
    BY <1>1, <2>1, OfChanged
  <2>3. Of(log)' = [Of(log) EXCEPT ![n] = Append(Of(log)[n], v)]
    <3>1. Of(log)[n] = log[n]
      BY DEF Of
    <3>2. QED
      BY <1>1, <2>1, <3>1, OfChanged
  <2>4. QED
    BY <1>2, <1>3, <1>4, <2>2, <2>3 DEF SteadyChain!CountReadies
<1>5. CASE ~(Cardinality(seen) > DeliverThreshold(T(n)))
  <2>1. Of(delivered)' = Of(delivered) /\ Of(log)' = Of(log)
    BY <1>5, OfNext DEF CountReadies, Of
  <2>2. QED
    BY <1>2, <1>3, <1>5, <2>1 DEF SteadyChain!CountReadies
<1>6. QED
  BY <1>4, <1>5

LEMMA SteadyStays ==
    /\ wire' = wire => {m \in wire : m.nodeId \in Steady}' = {m \in wire : m.nodeId \in Steady}
    /\ echoes' = echoes => Of(echoes)' = Of(echoes)
    /\ readies' = readies => Of(readies)' = Of(readies)
    /\ readyData' = readyData => Of(readyData)' = Of(readyData)
    /\ delivered' = delivered => Of(delivered)' = Of(delivered)
    /\ log' = log => Of(log)' = Of(log)
  BY DEF Of, Steady, Correct

LEMMA SteadyCountsOwn ==
    ASSUME TypeOK, NEW n \in Steady, NEW v \in Data, CountOwnReady(n, v)
    PROVE  SteadyChain!CountOwnReady(n, v)
<1>1. Of(delivered)[n] = delivered[n] /\ Of(readies)[n] = readies[n]
  BY DEF Of
<1>2. CASE delivered[n]
  BY <1>1, <1>2, SteadyStays DEF CountOwnReady, SteadyChain!CountOwnReady
<1>3. CASE ~delivered[n]
  <2>1. SteadyChain!CountReadies(n, readies[n][v] \cup {n}, v)
    BY <1>3, SteadyCounts DEF CountOwnReady
  <2>2. QED
    BY <1>1, <1>3, <2>1 DEF SteadyChain!CountOwnReady
<1>4. QED
  BY <1>2, <1>3

LEMMA SteadyQuorum ==
    ASSUME NEW n \in Steady, NEW q, NEW v
    PROVE  /\ SteadyChain!EchoQuorumWith(n, q, v) <=> EchoQuorumWith(n, q, v)
           /\ \A seen : SteadyChain!Amplifies(n, seen) <=> Amplifies(n, seen)
<1>1. Of(echoes)[n] = echoes[n] /\ Of(readyData)[n] = readyData[n]
  BY DEF Of
<1>2. QED
  BY <1>1, SteadyThresholds, SteadyCardinality
  DEF SteadyChain!EchoQuorumWith, EchoQuorumWith, SteadyChain!Amplifies, Amplifies

(* Counting an ECHO, and deciding READY, in both chains.                   *)
LEMMA SteadyEchoes ==
    ASSUME TypeOK, NEW n \in Steady, NEW q, NEW v \in Data,
           echoes' = [echoes EXCEPT ![n][v] = @ \cup {q}]
    PROVE  Of(echoes)' = [Of(echoes) EXCEPT ![n][v] = @ \cup {q}]
<1>1. DOMAIN echoes = Correct
  BY DEF TypeOK
<1>2. PICK e : e = [echoes[n] EXCEPT ![v] = echoes[n][v] \cup {q}]
  OBVIOUS
<1>3. echoes' = [echoes EXCEPT ![n] = e]
  BY <1>2
<1>4. Of(echoes)[n] = echoes[n]
  BY DEF Of
<1>5. Of(echoes)' = [Of(echoes) EXCEPT ![n] = e]
  BY <1>1, <1>3, OfChanged
<1>6. QED
  BY <1>2, <1>4, <1>5

LEMMA SteadyDecides ==
    ASSUME TypeOK, NEW n \in Steady, NEW v \in Data,
           readyData' = [readyData EXCEPT ![n] = v]
    PROVE  Of(readyData)' = [Of(readyData) EXCEPT ![n] = v]
<1>1. DOMAIN readyData = Correct
  BY DEF TypeOK
<1>2. QED
  BY <1>1, OfChanged

LEMMA SteadySend ==
    ASSUME TypeOK, NEW n \in Steady, NEW v \in Data, HandleSend(n, v)
    PROVE  SteadyChain!HandleSend(n, v)
<1>1. v \in requested /\ n \in ClientNodes[v] /\ requested' = requested
      /\ Of(readyData)[n] = readyData[n]
  BY DEF HandleSend, Of
<1>2. CASE /\ readyData[n] # NoData
           /\ Broadcast(n, {"ECHO"}, v)
           /\ UNCHANGED <<echoes, readies, readyData, delivered, log>>
  BY <1>1, <1>2, SteadyBroadcasts, SteadyStays DEF SteadyChain!HandleSend
<1>3. CASE /\ readyData[n] = NoData
           /\ ~EchoQuorumWith(n, n, v)
           /\ echoes' = [echoes EXCEPT ![n][v] = @ \cup {n}]
           /\ Broadcast(n, {"ECHO"}, v)
           /\ UNCHANGED <<readies, readyData, delivered, log>>
  <2>1. SteadyChain!Broadcast(n, {"ECHO"}, v) /\ ~SteadyChain!EchoQuorumWith(n, n, v)
    BY <1>3, SteadyBroadcasts, SteadyQuorum
  <2>2. Of(echoes)' = [Of(echoes) EXCEPT ![n][v] = @ \cup {n}]
    BY <1>3, SteadyEchoes
  <2>3. QED
    BY <1>1, <1>3, <2>1, <2>2, SteadyStays DEF SteadyChain!HandleSend
<1>4. CASE /\ readyData[n] = NoData
           /\ EchoQuorumWith(n, n, v)
           /\ echoes' = [echoes EXCEPT ![n][v] = @ \cup {n}]
           /\ readyData' = [readyData EXCEPT ![n] = v]
           /\ \E encoded \in {"ECHO", "READY"} : Broadcast(n, {encoded, "READY"}, v)
           /\ CountOwnReady(n, v)
  <2>1. PICK encoded \in {"ECHO", "READY"} : Broadcast(n, {encoded, "READY"}, v)
    BY <1>4
  <2>2. SteadyChain!Broadcast(n, {encoded, "READY"}, v)
    BY <2>1, SteadyBroadcasts
  <2>3. SteadyChain!EchoQuorumWith(n, n, v) /\ SteadyChain!CountOwnReady(n, v)
    BY <1>4, SteadyQuorum, SteadyCountsOwn
  <2>4. Of(echoes)' = [Of(echoes) EXCEPT ![n][v] = @ \cup {n}]
    BY <1>4, SteadyEchoes
  <2>5. Of(readyData)' = [Of(readyData) EXCEPT ![n] = v]
    BY <1>4, SteadyDecides
  <2>6. QED
    BY <1>1, <1>4, <2>2, <2>3, <2>4, <2>5 DEF SteadyChain!HandleSend
<1>5. QED
  BY <1>2, <1>3, <1>4 DEF HandleSend

LEMMA SteadyEcho ==
    ASSUME TypeOK, NEW n \in Steady, NEW q \in Node, NEW v \in Data, HandleEcho(n, q, v)
    PROVE  SteadyChain!HandleEcho(n, q, v)
<1>1. /\ SteadyChain!Receivable(n, "ECHO", q, v)
      /\ Of(readyData)[n] = NoData
      /\ requested' = requested
      /\ Of(echoes)' = [Of(echoes) EXCEPT ![n][v] = @ \cup {q}]
  BY SteadyReceives, SteadyEchoes DEF HandleEcho, Of
<1>2. CASE EchoQuorumWith(n, q, v)
  <2>1. readyData' = [readyData EXCEPT ![n] = v] /\ Broadcast(n, {"READY"}, v) /\ CountOwnReady(n, v)
    BY <1>2 DEF HandleEcho
  <2>2. /\ SteadyChain!EchoQuorumWith(n, q, v)
        /\ Of(readyData)' = [Of(readyData) EXCEPT ![n] = v]
        /\ SteadyChain!Broadcast(n, {"READY"}, v)
        /\ SteadyChain!CountOwnReady(n, v)
    BY <1>2, <2>1, SteadyQuorum, SteadyDecides, SteadyBroadcasts, SteadyCountsOwn
  <2>3. QED
    BY <1>1, <2>2 DEF SteadyChain!HandleEcho
<1>3. CASE ~EchoQuorumWith(n, q, v)
  <2>1. UNCHANGED <<wire, readies, readyData, delivered, log>>
    BY <1>3 DEF HandleEcho
  <2>2. ~SteadyChain!EchoQuorumWith(n, q, v)
    BY <1>3, SteadyQuorum
  <2>3. QED
    BY <1>1, <2>1, <2>2, SteadyStays DEF SteadyChain!HandleEcho
<1>4. QED
  BY <1>2, <1>3

LEMMA SteadyReady ==
    ASSUME TypeOK, NEW n \in Steady, NEW q \in Node, NEW v \in Data, HandleReady(n, q, v)
    PROVE  SteadyChain!HandleReady(n, q, v)
<1> DEFINE seen == readies[n][v] \cup {q}
<1>1. /\ SteadyChain!Receivable(n, "READY", q, v)
      /\ ~Of(delivered)[n]
      /\ Of(readies)[n] = readies[n]
      /\ requested' = requested /\ Of(echoes)' = Of(echoes)
  BY SteadyReceives, SteadyStays DEF HandleReady, Of
<1>2. CASE Amplifies(n, seen)
  <2>1. /\ readyData' = [readyData EXCEPT ![n] = v] /\ Broadcast(n, {"READY"}, v)
        /\ CountReadies(n, seen \cup {n}, v)
    BY <1>2 DEF HandleReady
  <2>2. /\ SteadyChain!Amplifies(n, seen)
        /\ Of(readyData)' = [Of(readyData) EXCEPT ![n] = v]
        /\ SteadyChain!Broadcast(n, {"READY"}, v)
        /\ SteadyChain!CountReadies(n, seen \cup {n}, v)
    <3> HIDE DEF seen
    <3>1. QED
      BY <1>2, <2>1, SteadyQuorum, SteadyDecides, SteadyBroadcasts, SteadyCounts
  <2>3. QED
    BY <1>1, <2>2 DEF SteadyChain!HandleReady
<1>3. CASE ~Amplifies(n, seen)
  <2>1. CountReadies(n, seen, v) /\ wire' = wire /\ readyData' = readyData
    BY <1>3 DEF HandleReady
  <2>2. ~SteadyChain!Amplifies(n, seen) /\ SteadyChain!CountReadies(n, seen, v)
    <3> HIDE DEF seen
    <3>1. QED
      BY <1>3, <2>1, SteadyQuorum, SteadyCounts
  <2>3. QED
    BY <1>1, <2>1, <2>2, SteadyStays DEF SteadyChain!HandleReady
<1>4. QED
  BY <1>2, <1>3

(* What another node does the steady ones do not see.                      *)
SteadyUnmoved ==
    /\ requested' = requested
    /\ {m \in wire : m.nodeId \in Steady}' = {m \in wire : m.nodeId \in Steady}
    /\ Of(echoes)' = Of(echoes) /\ Of(readies)' = Of(readies) /\ Of(readyData)' = Of(readyData)
    /\ Of(delivered)' = Of(delivered) /\ Of(log)' = Of(log)

LEMMA OthersUnseen ==
    ASSUME NEW n, n \notin Steady, NEW types, NEW v,
           requested' = requested,
           wire' = wire \cup [type: types, nodeId: {n}, data: {v}],
           \A x \in Steady : /\ echoes'[x] = echoes[x] /\ readies'[x] = readies[x]
                             /\ readyData'[x] = readyData[x] /\ delivered'[x] = delivered[x]
                             /\ log'[x] = log[x]
    PROVE  SteadyUnmoved
<1>1. {m \in wire' : m.nodeId \in Steady} = {m \in wire : m.nodeId \in Steady}
  <2>1. \A m \in [type: types, nodeId: {n}, data: {v}] : m.nodeId = n
    OBVIOUS
  <2>2. QED
    BY <2>1
<1>2. QED
  BY <1>1 DEF SteadyUnmoved, Of, Steady, Correct

LEMMA RestartingHandlerUnseen ==
    ASSUME TypeOK, NEW n \in Correct, n \notin Steady, NEW q \in Node, NEW v \in Data,
           HandlerStep(n, q, v)
    PROVE  SteadyUnmoved
<1>1. PICK types \in SUBSET MessageType : wire' = wire \cup [type: types, nodeId: {n}, data: {v}]
  BY DEF HandlerStep, Sends
<1>2. \A x \in Steady : echoes'[x] = echoes[x] /\ readies'[x] = readies[x]
  BY SteadySets DEF HandlerStep, EchoesGrow, ReadiesGrow, TypeOK
<1>3. \A x \in Steady : /\ readyData'[x] = readyData[x] /\ delivered'[x] = delivered[x]
                        /\ log'[x] = log[x]
  BY SteadySets DEF HandlerStep, DecidesReady, CommitsOnce, TypeOK
<1>4. QED
  BY <1>1, <1>2, <1>3, OthersUnseen DEF HandlerStep

LEMMA RestartUnseen ==
    ASSUME TypeOK, NEW n \in Restarting, Restart(n)
    PROVE  SteadyUnmoved
<1>1. n \notin Steady
  BY SteadySets
<1>2. PICK types \in SUBSET MessageType, v \in Data : Broadcast(n, types, v)
  BY DEF Restart
<1>3. wire' = wire \cup [type: types, nodeId: {n}, data: {v}]
  BY <1>2 DEF Broadcast
<1>4. \A x \in Steady : /\ echoes'[x] = echoes[x] /\ readies'[x] = readies[x]
                        /\ readyData'[x] = readyData[x] /\ delivered'[x] = delivered[x]
                        /\ log'[x] = log[x]
  BY <1>1, SteadySets DEF Restart, Forget, TypeOK
<1>5. QED
  BY <1>1, <1>3, <1>4, OthersUnseen DEF Restart

LEMMA ChainStepMaps ==
    ASSUME TypeOK, [ChainNext]_chainVars
    PROVE  [SteadyChain!Next]_(SteadyChain!vars)
<1>1. SteadyUnmoved => UNCHANGED SteadyChain!vars
  BY DEF SteadyUnmoved, SteadyChain!vars
<1>2. CASE \E v \in Data : ClientSend(v)
  <2>1. PICK v \in Data : ClientSend(v)
    BY <1>2
  <2>2. SteadyChain!ClientSend(v)
    BY <2>1, SteadyStays DEF ClientSend, SteadyChain!ClientSend
  <2>3. QED
    BY <2>2 DEF SteadyChain!Next
<1>3. ASSUME NEW n \in Correct, NEW v \in Data, HandleSend(n, v)
      PROVE  [SteadyChain!Next]_(SteadyChain!vars)
  <2>1. CASE n \in Steady
    BY <1>3, <2>1, SteadySend, SteadySets DEF SteadyChain!Next
  <2>2. CASE n \notin Steady
    BY <1>1, <1>3, <2>2, HandleSendStep, RestartingHandlerUnseen, SteadySets
  <2>3. QED
    BY <2>1, <2>2
<1>4. ASSUME NEW n \in Correct, NEW q \in Node, NEW v \in Data, HandleEcho(n, q, v)
      PROVE  [SteadyChain!Next]_(SteadyChain!vars)
  <2>1. CASE n \in Steady
    BY <1>4, <2>1, SteadyEcho, SteadySets DEF SteadyChain!Next
  <2>2. CASE n \notin Steady
    BY <1>1, <1>4, <2>2, HandleEchoStep, RestartingHandlerUnseen
  <2>3. QED
    BY <2>1, <2>2
<1>5. ASSUME NEW n \in Correct, NEW q \in Node, NEW v \in Data, HandleReady(n, q, v)
      PROVE  [SteadyChain!Next]_(SteadyChain!vars)
  <2>1. CASE n \in Steady
    BY <1>5, <2>1, SteadyReady, SteadySets DEF SteadyChain!Next
  <2>2. CASE n \notin Steady
    BY <1>1, <1>5, <2>2, HandleReadyStep, RestartingHandlerUnseen
  <2>3. QED
    BY <2>1, <2>2
<1>6. CASE \E n \in Restarting : Restart(n)
  BY <1>1, <1>6, RestartUnseen
<1>7. CASE UNCHANGED chainVars
  BY <1>7, SteadyStays DEF chainVars, vars, SteadyChain!vars
<1>8. QED
  BY <1>2, <1>3, <1>4, <1>5, <1>6, <1>7 DEF ChainNext, Next

LEMMA ChainInitMaps == ChainInit => SteadyChain!Init
<1> SUFFICES ASSUME ChainInit PROVE SteadyChain!Init
  OBVIOUS
<1>1. /\ Of(echoes) = [n \in Steady |-> [v \in Data |-> {}]]
      /\ Of(readies) = [n \in Steady |-> [v \in Data |-> {}]]
      /\ Of(readyData) = [n \in Steady |-> NoData]
      /\ Of(delivered) = [n \in Steady |-> FALSE]
      /\ Of(log) = [n \in Steady |-> <<>>]
  BY SteadySets DEF ChainInit, Init, Of
<1>2. requested = {} /\ {m \in wire : m.nodeId \in Steady} = {}
  BY DEF ChainInit, Init
<1>3. QED
  BY <1>1, <1>2, SteadySets DEF SteadyChain!Init

(* To the nodes that never restart, one that does is a faulty node: what   *)
(* holds of them in ReliableBroadcast with Faulty \cup Restarting for      *)
(* Faulty holds of them here.                                              *)
THEOREM RestartsAreFaults == ChainSpec => SteadyNodesKeepSpec
<1>1. ChainInit => SteadyChain!Init
  BY ChainInitMaps
<1>2. ChainTypeOK /\ [ChainNext]_chainVars => [SteadyChain!Next]_(SteadyChain!vars)
  BY ChainStepMaps DEF ChainTypeOK
<1>3. QED
  BY <1>1, <1>2, RestartsTypeCorrect, PTL DEF ChainSpec, SteadyNodesKeepSpec, SteadyChain!Spec

=============================================================================
