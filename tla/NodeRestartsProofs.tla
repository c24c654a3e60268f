--------------------------- MODULE NodeRestartsProofs ---------------------------
(* Proofs about NodeRestarts: however often the process starts anew, every *)
(* commit uses up READYs of 2 * t other nodes that no other life has read. *)
EXTENDS NodeRestarts, ThresholdsProofs, FiniteSetTheorems

\* The READYs that some life of the process has read.
Read == readySent \ readyInbox

RestartInv ==
    /\ readies \in [Data -> SUBSET Node]
    /\ readySent \in SUBSET Ready
    /\ readyInbox \in SUBSET readySent
    \* A node sends READY for one payload of the session.
    /\ \A d, e \in readySent : d.nodeId = e.nodeId => d.data = e.data
    /\ list \in Seq(Data)
    /\ delivering \in Data \cup {NoData}
    /\ 2 * t * Len(list) <= Cardinality(Read)
    \* What this life counts for a payload it has not appended was read
    \* beside what the commits on the list have used up.
    /\ \/ delivered /\ delivering = NoData
       \/ \A v \in Data :
             2 * t * Len(list) + Cardinality(readies[v] \ {Self}) <= Cardinality(Read)
    \* A commit is backed by READYs that are counted.
    /\ delivering # NoData => delivered /\ Cardinality(readies[delivering]) > 2 * t

-----------------------------------------------------------------------------
LEMMA NodeFinite ==
    ASSUME NEW S \in SUBSET Node
    PROVE  IsFiniteSet(S) /\ Cardinality(S) \in Nat
  BY RestartAssumption, FS_Subset, FS_CardinalityType

LEMMA Monotone ==
    ASSUME NEW S \in SUBSET Node, NEW R \in SUBSET S
    PROVE  Cardinality(R) <= Cardinality(S)
  BY NodeFinite, FS_Subset

(* A set of nodes has at most one more than its members other than Self.   *)
LEMMA WithoutSelf ==
    ASSUME NEW S \in SUBSET Node
    PROVE  Cardinality(S \ {Self}) \in Nat
           /\ Cardinality(S) <= Cardinality(S \ {Self}) + 1
<1>1. IsFiniteSet(S) /\ Cardinality(S) \in Nat
  BY NodeFinite
<1>2. S \ {Self} \in SUBSET Node
  OBVIOUS
<1>3. Cardinality(S \ {Self}) \in Nat
  BY <1>2, NodeFinite
<1>4. Cardinality(S \ {Self}) = IF Self \in S THEN Cardinality(S) - 1 ELSE Cardinality(S)
  BY <1>1, FS_RemoveElement
<1>5. QED
  BY <1>1, <1>3, <1>4

LEMMA NodeThresholds == t \in Nat /\ DeliverThreshold(t) = 2 * t
<1>1. Cardinality(Node) \in Nat /\ Cardinality(Node) # 0 /\ 3 * Cardinality(Node) < SIZE_MOD
  BY RestartAssumption, NodeFinite, FS_EmptySet
<1>2. QED
  BY <1>1, SizeAssumption, GetTIsLargest, ReadyQuorumReachable DEF t

(* READYs of different nodes only: there are no more of them than nodes.   *)
LEMMA ReadiesByNode ==
    ASSUME NEW S \in SUBSET Ready, NEW N \in SUBSET Node,
           \A d \in S : d.nodeId \in N,
           \A d, e \in S : d.nodeId = e.nodeId => d = e
    PROVE  IsFiniteSet(S) /\ Cardinality(S) <= Cardinality(N)
<1> DEFINE sender == [d \in S |-> d.nodeId]
<1>1. sender \in Injection(S, N)
  BY DEF Injection, IsInjective
<1>2. IsFiniteSet(N)
  BY NodeFinite
<1> HIDE DEF sender
<1>3. QED
  BY <1>1, <1>2, FS_Injection

(* The others send READY once each, and those that repeat it once more.    *)
LEMMA ReadiesSent ==
    ASSUME RestartInv
    PROVE  /\ IsFiniteSet(readySent)
           /\ Cardinality(readySent) <= Cardinality(Other) + Cardinality(Repeating)
<1> DEFINE Copies(c) == {d \in readySent : d.copy = c}
<1>1. /\ readySent \in SUBSET Ready
      /\ \A d, e \in readySent : d.nodeId = e.nodeId => d.data = e.data
  BY DEF RestartInv
<1>2. Other \in SUBSET Node /\ Repeating \in SUBSET Node
  BY DEF Other, Repeating
<1>3. \A d, e \in readySent : d.nodeId = e.nodeId /\ d.copy = e.copy => d = e
  <2> SUFFICES ASSUME NEW d \in Ready, NEW e \in Ready, d.data = e.data,
                      d.nodeId = e.nodeId, d.copy = e.copy
               PROVE  d = e
    BY <1>1
  <2>1. /\ d = [nodeId |-> d.nodeId, data |-> d.data, copy |-> d.copy]
        /\ e = [nodeId |-> e.nodeId, data |-> e.data, copy |-> e.copy]
    BY DEF Ready
  <2>2. QED
    BY <2>1
<1>4. IsFiniteSet(Copies(1)) /\ Cardinality(Copies(1)) <= Cardinality(Other)
  <2>1. \A d \in Copies(1) : d.nodeId \in Other
    BY <1>1 DEF Ready
  <2>2. QED
    BY <1>1, <1>2, <1>3, <2>1, ReadiesByNode
<1>5. IsFiniteSet(Copies(2)) /\ Cardinality(Copies(2)) <= Cardinality(Repeating)
  <2>1. \A d \in Copies(2) : d.nodeId \in Repeating
    BY <1>1 DEF Ready, Repeating
  <2>2. QED
    BY <1>1, <1>2, <1>3, <2>1, ReadiesByNode
<1>6. readySent = Copies(1) \cup Copies(2) /\ Copies(1) \cap Copies(2) = {}
  BY <1>1 DEF Ready
<1> HIDE DEF Copies
<1>7. /\ IsFiniteSet(readySent)
      /\ Cardinality(readySent) = Cardinality(Copies(1)) + Cardinality(Copies(2))
                                    - Cardinality(Copies(1) \cap Copies(2))
  BY <1>4, <1>5, <1>6, FS_Union
<1>8. Cardinality(Copies(1) \cap Copies(2)) = 0
  BY <1>6, FS_EmptySet
<1>9. /\ Cardinality(Copies(1)) \in Nat /\ Cardinality(Copies(2)) \in Nat
      /\ Cardinality(Other) \in Nat /\ Cardinality(Repeating) \in Nat
  BY <1>2, <1>4, <1>5, NodeFinite, FS_CardinalityType
<1>10. QED
  BY <1>4, <1>5, <1>7, <1>8, <1>9

-----------------------------------------------------------------------------
(* Every field keeps its type, in every life of the process.               *)
LEMMA NextType == TypeOK /\ [Next]_vars => TypeOK'
<1> SUFFICES ASSUME TypeOK, [Next]_vars PROVE TypeOK'
  OBVIOUS
<1> USE DEF TypeOK
<1>1. ASSUME NEW seen \in SUBSET Node, NEW v \in Data, CountReadies(seen, v)
      PROVE  /\ readies' \in [Data -> SUBSET Node]
             /\ delivered' \in BOOLEAN
             /\ delivering' \in Data \cup {NoData}
  BY <1>1 DEF CountReadies
<1>2. ASSUME NEW v \in Data, CountOwnReady(v)
      PROVE  /\ readies' \in [Data -> SUBSET Node]
             /\ delivered' \in BOOLEAN
             /\ delivering' \in Data \cup {NoData}
  <2>1. readies[v] \cup {Self} \in SUBSET Node
    BY RestartAssumption
  <2>2. QED
    BY <1>1, <1>2, <2>1 DEF CountOwnReady
<1>3. ASSUME NEW q \in Node, NEW v \in Data, ProcessEcho(q, v)
      PROVE  /\ echoes' \in [Data -> SUBSET Node]
             /\ readies' \in [Data -> SUBSET Node]
             /\ readyData' \in Data \cup {NoData}
             /\ delivered' \in BOOLEAN
             /\ delivering' \in Data \cup {NoData}
             /\ connected' \in BOOLEAN
  <2>1. CASE readyData # NoData
    BY <1>3, <2>1 DEF ProcessEcho, memory
  <2>2. CASE readyData = NoData
    <3>1. connected' = connected /\ CountEchoes(echoes[v] \cup {q}, v)
      BY <1>3, <2>2 DEF ProcessEcho
    <3>2. echoes' \in [Data -> SUBSET Node] /\ readyData' \in Data \cup {NoData}
      BY <3>1 DEF CountEchoes
    <3>3. CASE CountOwnReady(v)
      BY <1>2, <3>1, <3>2, <3>3
    <3>4. CASE UNCHANGED <<readies, readyData, delivered, delivering>>
      BY <3>1, <3>2, <3>4
    <3>5. QED
      BY <3>1, <3>3, <3>4 DEF CountEchoes
  <2>3. QED
    BY <2>1, <2>2
<1>4. ASSUME NEW v \in Data, HandleSend(v) PROVE TypeOK'
  BY <1>3, <1>4, RestartAssumption DEF HandleSend
<1>5. ASSUME NEW q \in Other, NEW v \in Data, HandleEcho(q, v) PROVE TypeOK'
  BY <1>3, <1>5 DEF HandleEcho, Other
<1>6. ASSUME NEW d \in Ready, HandleReady(d) PROVE TypeOK'
  <2>1. d.nodeId \in Other /\ d.data \in Data
    BY DEF Ready
  <2>2. readyInbox' \in SUBSET readySent'
    BY <1>6 DEF HandleReady
  <2>3. CASE UNCHANGED memory
    BY <1>6, <2>2, <2>3 DEF HandleReady, memory
  <2>4. ASSUME NEW own \in SUBSET {Self},
               CountReadies(readies[d.data] \cup {d.nodeId} \cup own, d.data),
               readyData' \in {d.data, readyData}, UNCHANGED <<echoes, connected>>
        PROVE  TypeOK'
    <3>1. readies[d.data] \cup {d.nodeId} \cup own \in SUBSET Node
      BY <2>1, RestartAssumption DEF Other
    <3>2. QED
      BY <1>1, <1>6, <2>1, <2>2, <2>4, <3>1 DEF HandleReady
  <2>5. QED
    BY <1>6, <2>3, <2>4 DEF HandleReady
<1>7. CASE AppendToList
  <2>1. delivering \in Data
    BY <1>7 DEF AppendToList
  <2>2. list' \in Seq(Data)
    BY <1>7, <2>1 DEF AppendToList
  <2>3. QED
    BY <1>7, <2>2 DEF AppendToList, inboxes
<1>8. CASE ConnectToRedis \/ LoseRedis
  BY <1>8 DEF ConnectToRedis, LoseRedis, inboxes
<1>9. CASE Restart
  <2>1. restarts' \in 0..MaxRestarts
    BY <1>9, RestartAssumption DEF Restart
  <2>2. NothingInMemory /\ UNCHANGED <<inboxes, list>>
    BY <1>9 DEF Restart
  <2>3. /\ echoes' \in [Data -> SUBSET Node]
        /\ readies' \in [Data -> SUBSET Node]
    BY <2>2 DEF NothingInMemory
  <2>4. QED
    BY <2>1, <2>2, <2>3 DEF NothingInMemory, inboxes
<1>10. CASE UNCHANGED vars
  BY <1>10 DEF vars, inboxes, memory
<1>11. QED
  BY <1>4, <1>5, <1>6, <1>7, <1>8, <1>9, <1>10 DEF Next

(* A node's memory, its inboxes and its list keep their types through any  *)
(* number of restarts.                                                     *)
THEOREM NodeRestartsTypeCorrect == Spec => []TypeOK
<1>1. Init => TypeOK
  <2> SUFFICES ASSUME Init PROVE TypeOK
    OBVIOUS
  <2>1. /\ readySent \in SUBSET Ready /\ readyInbox \in SUBSET readySent
        /\ echoInbox \in [Other -> SUBSET Data]
    BY DEF Init, ReadiesOf
  <2>2. asked \in SUBSET Data /\ list \in Seq(Data) /\ restarts \in 0..MaxRestarts
    BY RestartAssumption DEF Init
  <2>3. echoes \in [Data -> SUBSET Node] /\ readies \in [Data -> SUBSET Node]
    BY DEF Init
  <2>4. QED
    BY <2>1, <2>2, <2>3 DEF Init, TypeOK
<1>2. TypeOK /\ [Next]_vars => TypeOK'
  BY NextType
<1>3. QED
  BY <1>1, <1>2, PTL DEF Spec

-----------------------------------------------------------------------------
(* What the handlers have in common: they read k READYs, count one of v    *)
(* from k other nodes at most, and may commit.                             *)
MemoryStep(v, k) ==
    /\ list' = list /\ readySent' = readySent
    /\ readyInbox' \in SUBSET readySent'
    /\ Cardinality(Read') = Cardinality(Read) + k
    /\ readies' \in [Data -> SUBSET Node]
    /\ \A w \in Data : w # v => readies'[w] = readies[w]
    /\ readies[v] \subseteq readies'[v]
    /\ Cardinality(readies'[v] \ {Self}) <= Cardinality(readies[v] \ {Self}) + k
    /\ \/ delivered' = delivered /\ delivering' = delivering
       \/ /\ ~delivered
          /\ delivered' = TRUE
          /\ delivering' = v
          /\ Cardinality(readies'[v]) > DeliverThreshold(t)

LEMMA ReadFinite ==
    ASSUME RestartInv
    PROVE  IsFiniteSet(Read) /\ Cardinality(Read) \in Nat
  BY ReadiesSent, FS_Subset, FS_CardinalityType DEF Read

LEMMA ProcessEchoStep ==
    ASSUME RestartInv, NEW q \in Node, NEW v \in Data, ProcessEcho(q, v),
           list' = list, readySent' = readySent, readyInbox' = readyInbox
    PROVE  MemoryStep(v, 0)
<1>1. /\ Self \in Node /\ readies \in [Data -> SUBSET Node]
      /\ readyInbox' \in SUBSET readySent'
  BY RestartAssumption DEF RestartInv
<1>2. Cardinality(Read') = Cardinality(Read) + 0
  BY ReadFinite DEF Read
<1>3. readies[v] \ {Self} \in SUBSET Node
  BY <1>1
<1>4. Cardinality(readies[v] \ {Self}) <= Cardinality(readies[v] \ {Self}) + 0
  BY <1>3, NodeFinite
<1>5. CASE UNCHANGED <<readies, delivered, delivering>>
  BY <1>1, <1>2, <1>4, <1>5 DEF MemoryStep
<1>6. CASE ~delivered /\ CountReadies(readies[v] \cup {Self}, v)
  <2>1. readies' = [readies EXCEPT ![v] = readies[v] \cup {Self}]
    BY <1>6 DEF CountReadies
  <2>2. /\ readies'[v] = readies[v] \cup {Self}
        /\ \A w \in Data : w # v => readies'[w] = readies[w]
        /\ readies' \in [Data -> SUBSET Node]
    BY <1>1, <2>1
  <2>3. readies'[v] \ {Self} = readies[v] \ {Self}
    BY <2>2
  <2>4. \/ delivered' = delivered /\ delivering' = delivering
        \/ /\ ~delivered
           /\ delivered' = TRUE
           /\ delivering' = v
           /\ Cardinality(readies'[v]) > DeliverThreshold(t)
    BY <1>6, <2>2 DEF CountReadies
  <2>5. readies[v] \subseteq readies'[v]
    BY <2>2
  <2>6. Cardinality(readies'[v] \ {Self}) <= Cardinality(readies[v] \ {Self}) + 0
    BY <1>4, <2>3
  <2>7. QED
    BY <1>1, <1>2, <2>2, <2>4, <2>5, <2>6 DEF MemoryStep
<1>7. QED
  BY <1>5, <1>6 DEF ProcessEcho, CountEchoes, CountOwnReady, memory

LEMMA HandleReadyStep ==
    ASSUME RestartInv, NEW d \in Ready, HandleReady(d)
    PROVE  MemoryStep(d.data, 1)
<1> DEFINE v == d.data
           seen == readies[v] \cup {d.nodeId}
           amplifies == readyData = NoData /\ Cardinality(seen) > t
           own == {x \in {Self} : amplifies}
<1>1. /\ d \in readyInbox /\ readyInbox' = readyInbox \ {d}
      /\ list' = list /\ readySent' = readySent
      /\ readyInbox' \in SUBSET readySent'
      /\ readies \in [Data -> SUBSET Node]
      /\ v \in Data /\ d.nodeId \in Node /\ Self \in Node
  BY RestartAssumption DEF HandleReady, RestartInv, Ready, Other
<1>2. Cardinality(Read') = Cardinality(Read) + 1
  <2>1. Read' = Read \cup {d} /\ d \notin Read
    BY <1>1 DEF RestartInv, Read
  <2>2. QED
    BY <2>1, ReadFinite, FS_AddElement
<1>3. readies[v] \in SUBSET Node /\ readies[v] \ {Self} \in SUBSET Node
  BY <1>1
<1>4. CASE delivered /\ UNCHANGED memory
  <2>1. Cardinality(readies[v] \ {Self}) <= Cardinality(readies[v] \ {Self}) + 1
    BY <1>3, NodeFinite
  <2>2. readies' = readies /\ delivered' = delivered /\ delivering' = delivering
    BY <1>4 DEF memory
  <2> HIDE DEF v
  <2>3. MemoryStep(v, 1)
    BY <1>1, <1>2, <2>1, <2>2 DEF MemoryStep
  <2>4. QED
    BY <2>3 DEF v
<1>5. CASE ~delivered /\ CountReadies(seen \cup own, v)
  <2>1. own \in SUBSET {Self}
    OBVIOUS
  <2> HIDE DEF v, own
  <2>2. /\ readies'[v] = readies[v] \cup {d.nodeId} \cup own
        /\ \A w \in Data : w # v => readies'[w] = readies[w]
        /\ readies' \in [Data -> SUBSET Node]
    BY <1>1, <1>5, <2>1 DEF CountReadies
  <2>3. Cardinality(readies'[v] \ {Self}) <= Cardinality(readies[v] \ {Self}) + 1
    <3>1. IsFiniteSet(readies[v] \ {Self})
      BY <1>3, NodeFinite
    <3>2. /\ IsFiniteSet((readies[v] \ {Self}) \cup {d.nodeId})
          /\ Cardinality((readies[v] \ {Self}) \cup {d.nodeId})
               <= Cardinality(readies[v] \ {Self}) + 1
      <4> DEFINE R == readies[v] \ {Self}
      <4>1. IsFiniteSet(R) /\ Cardinality(R) \in Nat
        BY <3>1, FS_CardinalityType
      <4> HIDE DEF R
      <4>2. /\ IsFiniteSet(R \cup {d.nodeId})
            /\ Cardinality(R \cup {d.nodeId}) <= Cardinality(R) + 1
        <5>1. /\ IsFiniteSet(R \cup {d.nodeId})
              /\ Cardinality(R \cup {d.nodeId}) =
                   IF d.nodeId \in R THEN Cardinality(R) ELSE Cardinality(R) + 1
          BY <4>1, FS_AddElement, Zenon
        <5>2. QED
          BY <4>1, <5>1
      <4>3. QED
        BY <4>2 DEF R
    <3>3. readies'[v] \ {Self} \subseteq (readies[v] \ {Self}) \cup {d.nodeId}
      BY <2>1, <2>2
    <3>4. Cardinality(readies'[v] \ {Self})
            <= Cardinality((readies[v] \ {Self}) \cup {d.nodeId})
      BY <3>2, <3>3, FS_Subset
    <3>5. /\ Cardinality(readies'[v] \ {Self}) \in Nat
          /\ Cardinality((readies[v] \ {Self}) \cup {d.nodeId}) \in Nat
          /\ Cardinality(readies[v] \ {Self}) \in Nat
      BY <3>1, <3>2, <3>3, FS_Subset, FS_CardinalityType
    <3>6. QED
      BY <3>2, <3>4, <3>5
  <2>4. \/ delivered' = delivered /\ delivering' = delivering
        \/ /\ ~delivered
           /\ delivered' = TRUE
           /\ delivering' = v
           /\ Cardinality(readies'[v]) > DeliverThreshold(t)
    BY <1>5, <2>2 DEF CountReadies
  <2>5. readies[v] \subseteq readies'[v]
    BY <2>2
  <2>6. MemoryStep(v, 1)
    BY <1>1, <1>2, <2>2, <2>3, <2>4, <2>5 DEF MemoryStep
  <2>7. QED
    BY <2>6 DEF v
<1>6. QED
  BY <1>4, <1>5 DEF HandleReady

-----------------------------------------------------------------------------
(* A handler keeps the invariant: what it counts it has also read.         *)
LEMMA MemoryStepKeepsInv ==
    ASSUME RestartInv, NEW v \in Data, NEW k \in {0, 1}, MemoryStep(v, k)
    PROVE  RestartInv'
<1>1. /\ list' = list /\ readySent' = readySent
      /\ readyInbox' \in SUBSET readySent'
      /\ Cardinality(Read') = Cardinality(Read) + k
      /\ readies' \in [Data -> SUBSET Node]
      /\ \A w \in Data : w # v => readies'[w] = readies[w]
      /\ readies[v] \subseteq readies'[v]
      /\ Cardinality(readies'[v] \ {Self}) <= Cardinality(readies[v] \ {Self}) + k
  BY DEF MemoryStep
<1>2. /\ t \in Nat /\ DeliverThreshold(t) = 2 * t
      /\ Cardinality(Read) \in Nat /\ Len(list) \in Nat
  BY NodeThresholds, ReadFinite DEF RestartInv
<1> DEFINE used == 2 * t * Len(list)
<1>3. used \in Nat /\ used <= Cardinality(Read) /\ used' = used
  BY <1>1, <1>2 DEF RestartInv, t
<1>4. \A w \in Data : /\ Cardinality(readies[w] \ {Self}) \in Nat
                      /\ Cardinality(readies'[w] \ {Self}) \in Nat
                      /\ Cardinality(readies[w]) \in Nat
                      /\ Cardinality(readies'[w]) \in Nat
                      /\ Cardinality(readies[w]) <= Cardinality(readies'[w])
  <2> SUFFICES ASSUME NEW w \in Data
               PROVE  /\ Cardinality(readies[w] \ {Self}) \in Nat
                      /\ Cardinality(readies'[w] \ {Self}) \in Nat
                      /\ Cardinality(readies[w]) \in Nat
                      /\ Cardinality(readies'[w]) \in Nat
                      /\ Cardinality(readies[w]) <= Cardinality(readies'[w])
    OBVIOUS
  <2>1. readies[w] \in SUBSET Node /\ readies'[w] \in SUBSET Node
    BY <1>1 DEF RestartInv
  <2>2. readies[w] \subseteq readies'[w]
    BY <1>1
  <2>3. QED
    BY <2>1, <2>2, NodeFinite, Monotone
<1> HIDE DEF used
<1>5. used' <= Cardinality(Read')
  BY <1>1, <1>2, <1>3
<1>6. ASSUME \A w \in Data : used + Cardinality(readies[w] \ {Self}) <= Cardinality(Read)
      PROVE  \A w \in Data : used' + Cardinality(readies'[w] \ {Self}) <= Cardinality(Read')
  <2> SUFFICES ASSUME NEW w \in Data
               PROVE  used' + Cardinality(readies'[w] \ {Self}) <= Cardinality(Read')
    OBVIOUS
  <2>1. Cardinality(readies'[w] \ {Self}) <= Cardinality(readies[w] \ {Self}) + k
    <3>1. CASE w = v
      BY <1>1, <3>1
    <3>2. CASE w # v
      <4>1. readies'[w] \ {Self} = readies[w] \ {Self}
        BY <1>1, <3>2
      <4>2. Cardinality(readies'[w] \ {Self}) = Cardinality(readies[w] \ {Self})
        BY <4>1
      <4>3. Cardinality(readies[w] \ {Self}) \in Nat
        BY <1>4
      <4>4. QED
        BY <4>2, <4>3
    <3>3. QED
      BY <3>1, <3>2
  <2>2. used + Cardinality(readies[w] \ {Self}) <= Cardinality(Read)
    BY <1>6
  <2>3. QED
    BY <1>1, <1>2, <1>3, <1>4, <2>1, <2>2
<1>7. \/ delivered' = delivered /\ delivering' = delivering
      \/ /\ ~delivered
         /\ delivered' = TRUE
         /\ delivering' = v
         /\ Cardinality(readies'[v]) > 2 * t
  BY <1>2 DEF MemoryStep
<1>8. \/ delivered' /\ delivering' = NoData
      \/ \A w \in Data : used' + Cardinality(readies'[w] \ {Self}) <= Cardinality(Read')
  <2>1. \/ delivered /\ delivering = NoData
        \/ \A w \in Data : used + Cardinality(readies[w] \ {Self}) <= Cardinality(Read)
    BY DEF RestartInv, used
  <2>2. QED
    BY <1>6, <1>7, <2>1
<1>9. delivering' # NoData => delivered' /\ Cardinality(readies'[delivering']) > 2 * t
  <2>1. CASE delivered' = delivered /\ delivering' = delivering
    <3>1. delivering # NoData => /\ delivered /\ delivering \in Data
                                 /\ Cardinality(readies[delivering]) > 2 * t
      BY DEF RestartInv
    <3>2. SUFFICES ASSUME delivering # NoData
                   PROVE  Cardinality(readies'[delivering]) > 2 * t
      BY <2>1, <3>1
    <3>3. delivering \in Data /\ Cardinality(readies[delivering]) > 2 * t
      BY <3>1, <3>2
    <3>4. /\ Cardinality(readies[delivering]) \in Nat
          /\ Cardinality(readies'[delivering]) \in Nat
          /\ Cardinality(readies[delivering]) <= Cardinality(readies'[delivering])
      BY <1>4, <3>3, Zenon
    <3>5. QED
      BY <1>2, <3>3, <3>4
  <2>2. QED
    BY <1>7, <2>1
<1>10. delivering' \in Data \cup {NoData}
  BY <1>7 DEF RestartInv
<1>11. t' = t
  BY DEF t
<1>12. used' = 2 * t' * Len(list')
  BY DEF used
<1>13. list' \in Seq(Data) /\ readySent' \in SUBSET Ready
       /\ \A d, e \in readySent' : d.nodeId = e.nodeId => d.data = e.data
  BY <1>1 DEF RestartInv
<1>14. QED
  BY <1>1, <1>5, <1>8, <1>9, <1>10, <1>11, <1>12, <1>13 DEF RestartInv

(* The commit that an append adds to the list is backed by READYs of 2 * t *)
(* other nodes, which this life has read.                                  *)
LEMMA AppendKeepsInv ==
    ASSUME RestartInv, AppendToList
    PROVE  RestartInv'
<1>1. /\ delivering \in Data /\ delivered
      /\ list' = Append(list, delivering) /\ delivering' = NoData
      /\ delivered' = delivered /\ readies' = readies
      /\ readySent' = readySent /\ readyInbox' = readyInbox
      /\ Cardinality(readies[delivering]) > 2 * t
  BY DEF AppendToList, RestartInv, inboxes
<1>2. /\ t \in Nat /\ Len(list) \in Nat
      /\ Cardinality(Read) \in Nat /\ Read' = Read
  <2>1. Read' = Read
    BY <1>1 DEF Read
  <2>2. Len(list) \in Nat
    BY DEF RestartInv
  <2>3. QED
    BY <2>1, <2>2, NodeThresholds, ReadFinite
<1>3. list' \in Seq(Data) /\ Len(list') = Len(list) + 1
  BY <1>1 DEF RestartInv
<1>4. 2 * t * Len(list) + Cardinality(readies[delivering] \ {Self}) <= Cardinality(Read)
  BY <1>1, RestartAssumption DEF RestartInv
<1>5. /\ Cardinality(readies[delivering] \ {Self}) \in Nat
      /\ Cardinality(readies[delivering] \ {Self}) >= 2 * t
  <2>1. readies[delivering] \in SUBSET Node
    BY <1>1 DEF RestartInv
  <2>2. QED
    BY <1>1, <1>2, <2>1, WithoutSelf, NodeFinite
<1>6. 2 * t * Len(list') = 2 * t * Len(list) + 2 * t
  BY <1>2, <1>3
<1>7. 2 * t * Len(list) \in Nat
  BY <1>2
<1>8. 2 * t * Len(list') <= Cardinality(Read')
  BY <1>2, <1>4, <1>5, <1>6, <1>7
<1>9. t' = t
  BY DEF t
<1>10. QED
  BY <1>1, <1>3, <1>8, <1>9 DEF RestartInv

(* A restart empties the counters.                                         *)
LEMMA RestartKeepsInv ==
    ASSUME RestartInv, Restart
    PROVE  RestartInv'
<1>1. /\ readies' = [v \in Data |-> {}]
      /\ delivered' = FALSE /\ delivering' = NoData
      /\ list' = list /\ readySent' = readySent /\ readyInbox' = readyInbox
  BY DEF Restart, NothingInMemory, inboxes
<1>2. t \in Nat /\ Len(list) \in Nat /\ Cardinality(Read) \in Nat /\ Read' = Read
  <2>1. Read' = Read
    BY <1>1 DEF Read
  <2>2. Len(list) \in Nat
    BY DEF RestartInv
  <2>3. QED
    BY <2>1, <2>2, NodeThresholds, ReadFinite
<1>3. 2 * t * Len(list) \in Nat /\ 2 * t * Len(list) <= Cardinality(Read)
  BY <1>2 DEF RestartInv
<1>4. \A v \in Data : Cardinality(readies'[v] \ {Self}) = 0
  <2>1. \A v \in Data : readies'[v] \ {Self} = {}
    BY <1>1
  <2>2. QED
    BY <2>1, FS_EmptySet
<1>5. \A v \in Data : 2 * t * Len(list') + Cardinality(readies'[v] \ {Self})
                        <= Cardinality(Read')
  BY <1>1, <1>2, <1>3, <1>4
<1>6. t' = t
  BY DEF t
<1>7. readies' \in [Data -> SUBSET Node]
  BY <1>1
<1>8. QED
  BY <1>1, <1>2, <1>3, <1>5, <1>6, <1>7 DEF RestartInv

(* What a chain counts and reads, through any number of restarts.          *)
LEMMA RestartInvariant == Spec => []RestartInv
<1>1. Init => RestartInv
  <2> SUFFICES ASSUME Init PROVE RestartInv
    OBVIOUS
  <2>1. /\ readySent \in SUBSET Ready /\ readyInbox \in SUBSET readySent
        /\ \A d, e \in readySent : d.nodeId = e.nodeId => d.data = e.data
    BY DEF Init, ReadiesOf
  <2>2. readies \in [Data -> SUBSET Node] /\ list \in Seq(Data)
    BY DEF Init
  <2>3. Read = {} /\ Len(list) = 0 /\ \A v \in Data : readies[v] \ {Self} = {}
    BY DEF Init, Read
  <2>4. /\ Cardinality(Read) = 0
        /\ \A v \in Data : Cardinality(readies[v] \ {Self}) = 0
    BY <2>3, FS_EmptySet
  <2>5. 2 * t * Len(list) = 0
    BY <2>3, NodeThresholds
  <2>6. QED
    BY <2>1, <2>2, <2>4, <2>5 DEF Init, RestartInv
<1>2. RestartInv /\ [Next]_vars => RestartInv'
  <2> SUFFICES ASSUME RestartInv, [Next]_vars PROVE RestartInv'
    OBVIOUS
  <2>1. ASSUME NEW v \in Data, HandleSend(v) PROVE RestartInv'
    <3>1. /\ Self \in Node /\ list' = list
          /\ readySent' = readySent /\ readyInbox' = readyInbox
      BY <2>1, RestartAssumption DEF HandleSend
    <3>2. MemoryStep(v, 0)
      BY <2>1, <3>1, ProcessEchoStep DEF HandleSend
    <3>3. QED
      BY <3>2, MemoryStepKeepsInv
  <2>2. ASSUME NEW q \in Other, NEW v \in Data, HandleEcho(q, v) PROVE RestartInv'
    <3>1. /\ q \in Node /\ list' = list
          /\ readySent' = readySent /\ readyInbox' = readyInbox
      BY <2>2 DEF HandleEcho, Other
    <3>2. MemoryStep(v, 0)
      BY <2>2, <3>1, ProcessEchoStep DEF HandleEcho
    <3>3. QED
      BY <3>2, MemoryStepKeepsInv
  <2>3. ASSUME NEW d \in Ready, HandleReady(d) PROVE RestartInv'
    <3>1. d.data \in Data /\ MemoryStep(d.data, 1)
      BY <2>3, HandleReadyStep DEF Ready
    <3>2. QED
      BY <3>1, MemoryStepKeepsInv
  <2>4. CASE AppendToList
    BY <2>4, AppendKeepsInv
  <2>5. CASE UNCHANGED <<readies, readySent, readyInbox, list, delivering, delivered>>
    <3>1. Read' = Read /\ t' = t
      BY <2>5 DEF Read, t
    <3>2. QED
      BY <2>5, <3>1 DEF RestartInv
  <2>6. CASE ConnectToRedis
    BY <2>5, <2>6 DEF ConnectToRedis, inboxes
  <2>7. CASE LoseRedis
    BY <2>5, <2>7 DEF LoseRedis, inboxes
  <2>8. CASE Restart
    BY <2>8, RestartKeepsInv
  <2>9. CASE UNCHANGED vars
    BY <2>5, <2>9 DEF vars, inboxes, memory
  <2>10. QED
    BY <2>1, <2>2, <2>3, <2>4, <2>6, <2>7, <2>8, <2>9 DEF Next
<1>3. QED
  BY <1>1, <1>2, PTL DEF Spec

(* However often a node is started anew, and although it forgets that it   *)
(* has delivered, each commit on its list takes READYs of 2 * t other      *)
(* nodes that no other life of its process has read.                       *)
THEOREM RestartsCommitWithinReadies == Spec => []CommitsWithinReadies
<1>1. RestartInv => CommitsWithinReadies
  <2> SUFFICES ASSUME RestartInv PROVE CommitsWithinReadies
    OBVIOUS
  <2>1. t \in Nat /\ Len(list) \in Nat /\ 2 * t * Len(list) <= Cardinality(Read)
    BY NodeThresholds DEF RestartInv
  <2>2. Read \subseteq readySent /\ IsFiniteSet(readySent)
    BY ReadiesSent DEF Read
  <2>3. /\ Cardinality(Read) <= Cardinality(readySent)
        /\ Cardinality(Read) \in Nat /\ Cardinality(readySent) \in Nat
    BY <2>2, FS_Subset, FS_CardinalityType
  <2>4. 2 * t * Len(list) \in Nat
    BY <2>1
  <2>5. QED
    BY <2>1, <2>3, <2>4 DEF CommitsWithinReadies
<1>2. QED
  BY <1>1, RestartInvariant, PTL

(* A node of a chain of 3 * t + 1 nodes appends one payload of a session   *)
(* at most, whatever order the READYs come in and however often it is      *)
(* started anew, as long as fewer than t other nodes send READY twice.     *)
THEOREM RestartsCommitOnce ==
    ASSUME TightSize
    PROVE  Spec => []CommitsOnce
<1>1. RestartInv /\ CommitsWithinReadies => CommitsOnce
  <2> SUFFICES ASSUME RestartInv, CommitsWithinReadies, Cardinality(Repeating) < t
               PROVE  Len(list) <= 1
    BY DEF CommitsOnce
  <2>1. /\ t \in Nat /\ t > 0 /\ Len(list) \in Nat
        /\ Cardinality(Node) = 3 * t + 1
    BY NodeThresholds DEF RestartInv, TightSize
  <2>2. Cardinality(Other) = 3 * t
    <3>1. Cardinality(Other) = Cardinality(Node) - 1
      BY RestartAssumption, FS_RemoveElement DEF Other
    <3>2. QED
      BY <2>1, <3>1
  <2>3. Repeating \in SUBSET Node
    BY DEF Repeating, Other
  <2>4. /\ Cardinality(Repeating) \in Nat /\ Cardinality(readySent) \in Nat
        /\ Cardinality(readySent) <= 3 * t + Cardinality(Repeating)
    BY <2>2, <2>3, NodeFinite, ReadiesSent, FS_CardinalityType
  <2>5. 2 * t * Len(list) < 4 * t
    <3>1. 2 * t * Len(list) \in Nat
      BY <2>1
    <3>2. QED
      BY <2>1, <2>4, <3>1 DEF CommitsWithinReadies
  <2>6. ASSUME Len(list) >= 2 PROVE FALSE
    <3>1. PICK m \in Nat : Len(list) = m + 2
      BY <2>1, <2>6
    <3>2. 2 * t * Len(list) = 2 * t * m + 4 * t
      BY <2>1, <3>1
    <3>3. 2 * t * m \in Nat
      BY <2>1
    <3>4. QED
      BY <2>1, <2>5, <3>2, <3>3
  <2>7. QED
    BY <2>1, <2>6
<1>2. QED
  BY <1>1, RestartInvariant, RestartsCommitWithinReadies, PTL
=============================================================================
