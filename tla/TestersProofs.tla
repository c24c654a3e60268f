------------------------------ MODULE TestersProofs ------------------------------
(* Proofs about Testers, for any nodes, iterations and messages: what the  *)
(* testers report is never better than what happened.                      *)
EXTENDS Testers, FiniteSetTheorems, SequenceTheorems, WellFoundedInduction, TLAPS

-----------------------------------------------------------------------------
(* Induction over the numbers, in the form of a set that is all of them:   *)
(* from the least number outside it.                                       *)
LEMMA NatSetInduction ==
    ASSUME NEW S \in SUBSET Nat, 0 \in S, \A n \in S : n + 1 \in S
    PROVE  S = Nat
<1> SUFFICES ASSUME Nat \ S # {} PROVE FALSE
  OBVIOUS
<1>1. IsWellFoundedOn(OpToRel(<, Nat), Nat)
  BY NatLessThanWellFounded
<1>2. PICK x \in Nat \ S : \A y \in Nat \ S : ~ (<<y, x>> \in OpToRel(<, Nat))
  BY <1>1, WFMin
<1>3. x # 0 /\ x - 1 \in Nat /\ x - 1 < x /\ (x - 1) + 1 = x
  <2>1. x \in Nat /\ x # 0
    OBVIOUS
  <2>2. \A i \in Nat : i # 0 => i - 1 \in Nat /\ i - 1 < i /\ (i - 1) + 1 = i
    OBVIOUS
  <2>3. QED
    BY <2>1, <2>2
<1>4. x - 1 \notin S
  BY <1>2, <1>3
<1>5. <<x - 1, x>> \in OpToRel(<, Nat)
  BY <1>2, <1>3 DEF OpToRel
<1>6. QED
  BY <1>2, <1>3, <1>4, <1>5

-----------------------------------------------------------------------------
(* The queue's sizes.                                                      *)
Log == Seq({-1, 0, 1})

\* g is QueueSize(log) up to the n-th event.
Sums(log, n, g) == g = [i \in 0..n |-> IF i = 0 THEN 0 ELSE g[i - 1] + log[i]]

(* There are such sums, *)
LEMMA SumsExist ==
    ASSUME NEW log, NEW n \in Nat
    PROVE  \E g : Sums(log, n, g)
<1> DEFINE S == {k \in Nat : \E g : Sums(log, k, g)}
<1>1. 0 \in S
  <2> DEFINE g == [i \in 0..0 |-> 0]
  <2>1. Sums(log, 0, g)
    BY DEF Sums
  <2>2. QED
    BY <2>1
<1>2. ASSUME NEW k \in S PROVE k + 1 \in S
  <2>1. k \in Nat /\ k + 1 \in Nat
    OBVIOUS
  <2>2. PICK g : Sums(log, k, g)
    OBVIOUS
  <2> DEFINE h == [i \in 0..(k + 1) |-> IF i = k + 1 THEN g[k] + log[k + 1] ELSE g[i]]
  <2>3. ASSUME NEW i \in 0..(k + 1)
        PROVE  h[i] = IF i = 0 THEN 0 ELSE h[i - 1] + log[i]
    <3>1. CASE i = k + 1
      <4>1. h[i] = g[k] + log[k + 1] /\ i # 0 /\ i - 1 = k /\ k \in 0..(k + 1) /\ k # k + 1
        BY <2>1, <3>1
      <4>2. h[i - 1] = g[k]
        BY <4>1
      <4>3. QED
        BY <3>1, <4>1, <4>2
    <3>2. CASE i # k + 1
      <4>1. i \in 0..k /\ h[i] = g[i]
        BY <2>1, <3>2
      <4>2. g[i] = IF i = 0 THEN 0 ELSE g[i - 1] + log[i]
        BY <2>2, <4>1 DEF Sums
      <4>3. i # 0 => i - 1 \in 0..(k + 1) /\ i - 1 # k + 1
        BY <2>1, <4>1
      <4>4. i # 0 => h[i - 1] = g[i - 1]
        BY <4>3
      <4>5. QED
        BY <4>1, <4>2, <4>4
    <3>3. QED
      BY <3>1, <3>2
  <2>4. Sums(log, k + 1, h)
    BY <2>3 DEF Sums
  <2>5. QED
    BY <2>1, <2>4
<1> HIDE DEF S
<1>3. S = Nat
  BY <1>1, <1>2, NatSetInduction DEF S
<1>4. QED
  BY <1>3 DEF S

(* so that QueueSize begins with 0 and changes by each event.              *)
LEMMA QueueSizeUnfolds ==
    ASSUME NEW log \in Log
    PROVE  /\ QueueSize(log)[0] = 0
           /\ \A i \in 1..Len(log) : QueueSize(log)[i] = QueueSize(log)[i - 1] + log[i]
<1> DEFINE g == QueueSize(log)
<1>0. Len(log) \in Nat
  BY DEF Log
<1>1. Sums(log, Len(log), g)
  BY <1>0, SumsExist DEF Sums, QueueSize
<1> HIDE DEF g
<1>2. \A i \in 0..Len(log) : g[i] = IF i = 0 THEN 0 ELSE g[i - 1] + log[i]
  BY <1>1 DEF Sums
<1>3. QED
  BY <1>0, <1>2 DEF g

LEMMA QueueSizeType ==
    ASSUME NEW log \in Log
    PROVE  \A i \in 0..Len(log) : QueueSize(log)[i] \in Int
<1> DEFINE S == {i \in Nat : i <= Len(log) => QueueSize(log)[i] \in Int}
<1>0. Len(log) \in Nat
  BY DEF Log
<1>1. 0 \in S
  BY QueueSizeUnfolds
<1>2. ASSUME NEW i \in S PROVE i + 1 \in S
  <2> SUFFICES ASSUME i + 1 <= Len(log) PROVE QueueSize(log)[i + 1] \in Int
    OBVIOUS
  <2>1. i + 1 \in 1..Len(log) /\ (i + 1) - 1 = i
    BY <1>0
  <2>2. log[i + 1] \in Int
    BY <2>1 DEF Log
  <2>3. QueueSize(log)[i] \in Int
    BY <1>0
  <2>4. QED
    BY <2>1, <2>2, <2>3, QueueSizeUnfolds
<1> HIDE DEF S
<1>3. S = Nat
  BY <1>1, <1>2, NatSetInduction DEF S
<1>4. QED
  BY <1>0, <1>3 DEF S

(* What a log begins with is summed up as before.                          *)
LEMMA QueueSizePrefix ==
    ASSUME NEW log \in Log, NEW longer \in Log, Len(log) <= Len(longer),
           \A i \in 1..Len(log) : longer[i] = log[i]
    PROVE  \A i \in 0..Len(log) : QueueSize(longer)[i] = QueueSize(log)[i]
<1> DEFINE S == {i \in Nat : i <= Len(log) => QueueSize(longer)[i] = QueueSize(log)[i]}
<1>0. Len(log) \in Nat /\ Len(longer) \in Nat
  BY DEF Log
<1>1. 0 \in S
  BY QueueSizeUnfolds
<1>2. ASSUME NEW i \in S PROVE i + 1 \in S
  <2> SUFFICES ASSUME i + 1 <= Len(log)
               PROVE  QueueSize(longer)[i + 1] = QueueSize(log)[i + 1]
    OBVIOUS
  <2>1. i + 1 \in 1..Len(log) /\ i + 1 \in 1..Len(longer) /\ (i + 1) - 1 = i
    BY <1>0
  <2>2. QueueSize(longer)[i] = QueueSize(log)[i]
    BY <1>0
  <2>3. longer[i + 1] = log[i + 1]
    BY <2>1
  <2>4. QED
    BY <2>1, <2>2, <2>3, QueueSizeUnfolds
<1> HIDE DEF S
<1>3. S = Nat
  BY <1>1, <1>2, NatSetInduction DEF S
<1>4. QED
  BY <1>0, <1>3 DEF S

(* One event more changes the size by one at most.                         *)
LEMMA QueueSizeAppend ==
    ASSUME NEW log \in Log, NEW type \in {-1, 0, 1}
    PROVE  /\ Append(log, type) \in Log
           /\ \A i \in 0..Len(log) : QueueSize(Append(log, type))[i] = QueueSize(log)[i]
           /\ QueueSize(Append(log, type))[Len(log) + 1] = QueueSize(log)[Len(log)] + type
<1> DEFINE longer == Append(log, type)
<1>1. /\ longer \in Log /\ Len(longer) = Len(log) + 1 /\ longer[Len(log) + 1] = type
      /\ Len(log) \in Nat /\ \A i \in 1..Len(log) : longer[i] = log[i]
  BY AppendProperties DEF Log
<1> HIDE DEF longer
<1>2. \A i \in 0..Len(log) : QueueSize(longer)[i] = QueueSize(log)[i]
  BY <1>1, QueueSizePrefix
<1>3. Len(log) + 1 \in 1..Len(longer) /\ (Len(log) + 1) - 1 = Len(log)
  BY <1>1
<1>4. QueueSize(longer)[Len(log) + 1] = QueueSize(longer)[Len(log)] + type
  BY <1>1, <1>3, QueueSizeUnfolds
<1>5. QED
  BY <1>1, <1>2, <1>4 DEF longer

(* Each of a row of deliveries takes one off.                              *)
LEMMA QueueSizeDeliveries ==
    ASSUME NEW log \in Log, NEW count \in Nat
    PROVE  LET longer == log \o [i \in 1..count |-> -1]
           IN  /\ longer \in Log /\ Len(longer) = Len(log) + count
               /\ \A i \in 0..Len(log) : QueueSize(longer)[i] = QueueSize(log)[i]
               /\ \A k \in 0..count :
                      QueueSize(longer)[Len(log) + k] = QueueSize(log)[Len(log)] - k
<1> DEFINE row == [i \in 1..count |-> -1]
           longer == log \o row
           S == {k \in Nat : k <= count =>
                     QueueSize(longer)[Len(log) + k] = QueueSize(log)[Len(log)] - k}
<1>1. row \in Log /\ Len(row) = count /\ \A i \in 1..count : row[i] = -1
  <2>1. row \in [1..count -> {-1, 0, 1}]
    OBVIOUS
  <2>2. row \in Log
    BY <2>1, IsASeq DEF Log
  <2>3. DOMAIN row = 1..count
    OBVIOUS
  <2> HIDE DEF row
  <2>4. Len(row) = count
    BY <2>2, <2>3, LenProperties DEF Log
  <2>5. QED
    BY <2>2, <2>4 DEF row
<1> HIDE DEF row
<1>2. /\ longer \in Log /\ Len(longer) = Len(log) + count /\ Len(log) \in Nat
      /\ \A i \in 1..Len(log) : longer[i] = log[i]
      /\ \A k \in 1..count : longer[Len(log) + k] = -1
  <2>1. /\ longer \in Seq({-1, 0, 1}) /\ Len(longer) = Len(log) + Len(row)
        /\ \A i \in 1..(Len(log) + Len(row)) :
               longer[i] = IF i <= Len(log) THEN log[i] ELSE row[i - Len(log)]
    BY <1>1, ConcatProperties DEF Log
  <2>2. Len(log) \in Nat
    BY DEF Log
  <2> HIDE DEF longer
  <2>3. \A i \in 1..Len(log) : longer[i] = log[i]
    BY <1>1, <2>1, <2>2
  <2>4. ASSUME NEW k \in 1..count PROVE longer[Len(log) + k] = -1
    <3>1. /\ Len(log) + k \in 1..(Len(log) + Len(row)) /\ ~ (Len(log) + k <= Len(log))
          /\ (Len(log) + k) - Len(log) = k
      BY <1>1, <2>2
    <3>2. QED
      BY <1>1, <2>1, <3>1
  <2>5. QED
    BY <1>1, <2>1, <2>2, <2>3, <2>4 DEF Log
<1> HIDE DEF longer
<1>3. \A i \in 0..Len(log) : QueueSize(longer)[i] = QueueSize(log)[i]
  BY <1>2, QueueSizePrefix
<1>4. QueueSize(log)[Len(log)] \in Int
  BY <1>2, QueueSizeType
<1>5. 0 \in S
  <2>1. Len(log) + 0 = Len(log) /\ Len(log) \in 0..Len(log)
    BY <1>2
  <2>2. QED
    BY <1>3, <1>4, <2>1
<1>6. ASSUME NEW k \in S PROVE k + 1 \in S
  <2> SUFFICES ASSUME k + 1 <= count
               PROVE  QueueSize(longer)[Len(log) + (k + 1)] = QueueSize(log)[Len(log)] - (k + 1)
    OBVIOUS
  <2>1. /\ k + 1 \in 1..count /\ Len(log) + (k + 1) \in 1..Len(longer)
        /\ (Len(log) + (k + 1)) - 1 = Len(log) + k
    BY <1>2
  <2>2. QueueSize(longer)[Len(log) + (k + 1)] = QueueSize(longer)[Len(log) + k] - 1
    BY <1>2, <2>1, QueueSizeUnfolds, QueueSizeType
  <2>3. QueueSize(longer)[Len(log) + k] = QueueSize(log)[Len(log)] - k
    OBVIOUS
  <2>4. QED
    BY <1>4, <2>2, <2>3
<1> HIDE DEF S
<1>7. S = Nat
  BY <1>5, <1>6, NatSetInduction DEF S
<1>8. \A k \in 0..count : QueueSize(longer)[Len(log) + k] = QueueSize(log)[Len(log)] - k
  BY <1>7 DEF S
<1>9. QED
  BY <1>2, <1>3, <1>8 DEF longer, row

-----------------------------------------------------------------------------
(* What each iteration has sent, and what of it left "messages".           *)
Sent == {<<iteration, k>> : k \in 1..total}
Done == Sent \ DOMAIN messages

(* Entries of a node's list, and answers of it, are the node's: *)
AnswersSound ==
    /\ \A n \in Node : \A i \in DOMAIN lists[n] : lists[n][i] \in appended[n]
    /\ \A n \in Node : popped[n] \in appended[n] \cup {Nothing}

(* "messages" has what was sent and is not known to be on all nodes; of an *)
(* iteration before there is nothing left in it.                           *)
MessagesSound ==
    /\ DOMAIN messages \subseteq Sent
    /\ \A m \in DOMAIN messages : messages[m] \subseteq {n \in Node : m \in appended[n]}
    /\ \A m \in Done : \A n \in Node : m \in appended[n]

\* Each tester counts what left "messages" in its own way.
CountsSound ==
    IF tester = "consistency"
    THEN good = Cardinality(Done) /\ events = <<>>
    ELSE /\ good = 0
         /\ Len(events) = total + Cardinality(Done) + (IF phase = "sending" THEN 0 ELSE 1)
         /\ \A i \in 0..Len(events) : QueueSize(events)[i] >= 0
         /\ QueueSize(events)[Len(events)] = Cardinality(DOMAIN messages)

Tally == [good : Nat, partial : Nat, lost : Nat]
Plot == [sizes : UNION {[at -> Int] : at \in SUBSET Nat}]

ResultsSound ==
    /\ results \in Seq(Tally \cup Plot)
    /\ Len(results) = IF phase = "ended" THEN iteration ELSE iteration - 1
    /\ tester = "consistency" =>
           \A i \in DOMAIN results :
               /\ results[i] \in Tally
               /\ results[i].good <= Cardinality(Everywhere(i))
               /\ results[i].good + results[i].partial <= Cardinality(Somewhere(i))

StateSound ==
    /\ lists \in [Node -> Seq(Entry)]
    /\ appended \in [Node -> SUBSET Entry] /\ extras \in 0..MaxExtras
    /\ popped \in [Node -> Entry \cup {Nothing}]
    /\ tester \in {"consistency", "queue"} /\ held \in BOOLEAN
    /\ phase \in {"sending", "waiting", "ended"}
    /\ iteration \in 1..Iterations
    /\ total \in 0..MaxSends
    /\ events \in Seq({-1, 0, 1})

TestersInv ==
    StateSound /\ AnswersSound /\ MessagesSound /\ CountsSound /\ ResultsSound

-----------------------------------------------------------------------------
(* Sets of messages.                                                       *)
LEMMA MsgFinite == IsFiniteSet(Msg)
<1>1. IsFiniteSet(1..Iterations) /\ IsFiniteSet(1..MaxSends)
  BY TesterAssumption, FS_Interval
<1>2. QED
  BY <1>1, FS_Product DEF Msg

LEMMA MsgSubsetFinite ==
    ASSUME NEW S \in SUBSET Msg
    PROVE  IsFiniteSet(S) /\ Cardinality(S) \in Nat
BY MsgFinite, FS_Subset, FS_CardinalityType

LEMMA SubsetCounts ==
    ASSUME NEW S \in SUBSET Msg, NEW T \in SUBSET S
    PROVE  Cardinality(T) <= Cardinality(S)
BY MsgSubsetFinite, FS_Subset

\* Two sets without a common element.
LEMMA DisjointCounts ==
    ASSUME NEW S \in SUBSET Msg, NEW T \in SUBSET Msg, S \cap T = {}
    PROVE  Cardinality(S \cup T) = Cardinality(S) + Cardinality(T)
<1>1. IsFiniteSet(S) /\ IsFiniteSet(T) /\ Cardinality(S) \in Nat /\ Cardinality(T) \in Nat
  BY MsgSubsetFinite
<1>2. Cardinality(S \cup T) = Cardinality(S) + Cardinality(T) - Cardinality(S \cap T)
  BY <1>1, FS_Union
<1>3. Cardinality(S \cap T) = 0
  BY FS_EmptySet
<1>4. QED
  BY <1>1, <1>2, <1>3

(* As many messages were sent as were counted.                             *)
LEMMA SentCount ==
    ASSUME StateSound
    PROVE  Sent \in SUBSET Msg /\ Cardinality(Sent) = total
<1>1. iteration \in 1..Iterations /\ total \in 0..MaxSends /\ MaxSends \in Nat
  BY TesterAssumption DEF StateSound
<1>2. Sent \in SUBSET Msg
  BY <1>1 DEF Sent, Msg
<1> DEFINE f == [k \in 1..total |-> <<iteration, k>>]
<1>3. f \in Bijection(1..total, Sent)
  <2>1. f \in [1..total -> Sent]
    BY DEF Sent
  <2>2. \A j, k \in 1..total : f[j] = f[k] => j = k
    OBVIOUS
  <2>3. \A m \in Sent : \E k \in 1..total : f[k] = m
    BY DEF Sent
  <2>4. QED
    BY <2>1, <2>2, <2>3 DEF Bijection, Injection, Surjection, IsInjective
<1>4. IsFiniteSet(1..total) /\ Cardinality(1..total) = total
  BY <1>1, FS_Interval
<1>5. ExistsBijection(1..total, Sent)
  BY <1>3 DEF ExistsBijection
<1>6. Cardinality(Sent) = Cardinality(1..total)
  BY <1>4, <1>5, FS_Bijection
<1>7. QED
  BY <1>2, <1>4, <1>6

(* What was sent is in "messages" or done.                                 *)
LEMMA SentSplits ==
    ASSUME StateSound, MessagesSound
    PROVE  /\ DOMAIN messages \in SUBSET Msg /\ Done \in SUBSET Msg
           /\ Cardinality(DOMAIN messages) \in Nat /\ Cardinality(Done) \in Nat
           /\ Cardinality(DOMAIN messages) + Cardinality(Done) = total
<1>1. DOMAIN messages \in SUBSET Sent /\ Done \in SUBSET Sent /\ Sent \in SUBSET Msg
  BY SentCount DEF MessagesSound, Done
<1>2. Sent = DOMAIN messages \cup Done /\ DOMAIN messages \cap Done = {}
  BY <1>1 DEF Done
<1>3. DOMAIN messages \in SUBSET Msg /\ Done \in SUBSET Msg
  BY <1>1
<1>4. Cardinality(DOMAIN messages \cup Done) = Cardinality(DOMAIN messages) + Cardinality(Done)
  BY <1>2, <1>3, DisjointCounts
<1>5. Cardinality(DOMAIN messages) \in Nat /\ Cardinality(Done) \in Nat
  BY <1>3, MsgSubsetFinite
<1>6. QED
  BY <1>2, <1>3, <1>4, <1>5, SentCount

LEMMA PlacesFinite ==
    ASSUME NEW i
    PROVE  /\ Everywhere(i) \in SUBSET Msg /\ Somewhere(i) \in SUBSET Msg
           /\ Everywhere(i) \subseteq Somewhere(i)
           /\ Cardinality(Everywhere(i)) \in Nat /\ Cardinality(Somewhere(i)) \in Nat
<1>1. Everywhere(i) \in SUBSET Msg /\ Somewhere(i) \in SUBSET Msg
  BY DEF Everywhere, Somewhere
<1>2. Everywhere(i) \subseteq Somewhere(i)
  BY TesterAssumption DEF Everywhere, Somewhere
<1>3. QED
  BY <1>1, <1>2, MsgSubsetFinite

(* What nodes have stays with them, so places and results stand.           *)
LEMMA PlacesGrow ==
    ASSUME \A n \in Node : appended[n] \subseteq appended'[n], NEW i
    PROVE  /\ Everywhere(i) \subseteq Everywhere(i)'
           /\ Everywhere(i)' \in SUBSET Msg /\ Somewhere(i)' \in SUBSET Msg
           /\ Cardinality(Everywhere(i)) <= Cardinality(Everywhere(i)')
           /\ Cardinality(Somewhere(i)) <= Cardinality(Somewhere(i)')
           /\ Cardinality(Everywhere(i)') \in Nat /\ Cardinality(Somewhere(i)') \in Nat
<1>1. Everywhere(i) \subseteq Everywhere(i)' /\ Somewhere(i) \subseteq Somewhere(i)'
  BY DEF Everywhere, Somewhere
<1>2. Everywhere(i)' \in SUBSET Msg /\ Somewhere(i)' \in SUBSET Msg
  BY DEF Everywhere, Somewhere
<1>3. QED
  BY <1>1, <1>2, SubsetCounts, MsgSubsetFinite

LEMMA ResultsStand ==
    ASSUME ResultsSound, \A n \in Node : appended[n] \subseteq appended'[n],
           UNCHANGED <<tester, results>>,
           Len(results) = IF phase' = "ended" THEN iteration' ELSE iteration' - 1
    PROVE  ResultsSound'
<1>1. ASSUME tester = "consistency", NEW i \in DOMAIN results
      PROVE  /\ results[i] \in Tally
             /\ results[i].good <= Cardinality(Everywhere(i)')
             /\ results[i].good + results[i].partial <= Cardinality(Somewhere(i)')
  <2>1. /\ results[i] \in Tally
        /\ results[i].good <= Cardinality(Everywhere(i))
        /\ results[i].good + results[i].partial <= Cardinality(Somewhere(i))
    BY <1>1 DEF ResultsSound
  <2>2. results[i].good \in Nat /\ results[i].partial \in Nat
    BY <2>1 DEF Tally
  <2>3. QED
    BY <2>1, <2>2, PlacesGrow, PlacesFinite
<1>2. QED
  BY <1>1 DEF ResultsSound

-----------------------------------------------------------------------------
LEMMA InitInv ==
    ASSUME Init
    PROVE  TestersInv
<1>1. /\ iteration = 1 /\ total = 0 /\ 1 \in 1..Iterations /\ 0 \in 0..MaxSends
      /\ extras = 0 /\ 0 \in 0..MaxExtras
  BY TesterAssumption DEF Init
<1>2. Sent = {} /\ Done = {} /\ DOMAIN messages = {}
  <2>1. DOMAIN messages = {} /\ 1..total = {}
    BY <1>1 DEF Init
  <2>2. QED
    BY <2>1 DEF Sent, Done
<1>3. Cardinality({}) = 0
  BY FS_EmptySet
<1>4. StateSound
  BY <1>1, EmptySeq DEF Init, StateSound
<1>5. AnswersSound
  BY DEF Init, AnswersSound
<1>6. MessagesSound
  BY <1>2 DEF MessagesSound
<1>7. CountsSound
  <2>1. events = <<>> /\ Len(events) = 0 /\ events \in Log
    BY EmptySeq DEF Init, Log
  <2>2. QueueSize(events)[0] = 0
    BY <2>1, QueueSizeUnfolds
  <2>3. \A i \in 0..Len(events) : i = 0
    BY <2>1
  <2>4. good = 0 /\ phase = "sending"
    BY DEF Init
  <2>5. QED
    BY <1>1, <1>2, <1>3, <2>1, <2>2, <2>3, <2>4 DEF CountsSound
<1>8. ResultsSound
  <2>1. results = <<>> /\ Len(results) = 0 /\ DOMAIN results = {} /\ phase = "sending"
    BY DEF Init
  <2>2. QED
    BY <1>1, <2>1, EmptySeq DEF ResultsSound
<1>9. QED
  BY <1>4, <1>5, <1>6, <1>7, <1>8 DEF TestersInv

(* A node's entries are its own, whatever it appends.                      *)
LEMMA PutOnListKeepsInv ==
    ASSUME TestersInv, NEW n \in Node, NEW m \in Entry, PutOnList(n, m),
           extras' \in 0..MaxExtras
    PROVE  TestersInv'
<1> USE DEF TestersInv
<1>1. /\ lists' = [lists EXCEPT ![n] = Append(lists[n], m)]
      /\ appended' = [appended EXCEPT ![n] = appended[n] \cup {m}]
      /\ UNCHANGED <<tester, popped, phase, held, iteration, counts, results>>
  BY DEF PutOnList
<1>2. lists \in [Node -> Seq(Entry)] /\ appended \in [Node -> SUBSET Entry]
  BY DEF StateSound
<1>3. \A k \in Node : appended[k] \subseteq appended'[k]
  BY <1>1, <1>2
<1>4. lists[n] \in Seq(Entry) /\ Append(lists[n], m) \in Seq(Entry)
  BY <1>2, AppendProperties
<1>5. StateSound'
  BY <1>1, <1>2, <1>4 DEF StateSound, counts
<1>6. AnswersSound'
  <2>1. ASSUME NEW k \in Node, NEW i \in DOMAIN lists'[k] PROVE lists'[k][i] \in appended'[k]
    <3>1. CASE k = n
      <4>1. lists'[k] = Append(lists[n], m) /\ appended'[k] = appended[n] \cup {m}
        BY <1>1, <1>2, <3>1
      <4>2. /\ DOMAIN lists'[k] = 1..(Len(lists[n]) + 1) /\ Len(lists[n]) \in Nat
            /\ \A j \in 1..Len(lists[n]) : lists'[k][j] = lists[n][j]
            /\ lists'[k][Len(lists[n]) + 1] = m
        BY <1>4, <4>1, AppendProperties, LenProperties
      <4>3. CASE i = Len(lists[n]) + 1
        BY <4>1, <4>2, <4>3
      <4>4. CASE i # Len(lists[n]) + 1
        <5>1. i \in 1..Len(lists[n]) /\ 1..Len(lists[n]) = DOMAIN lists[n]
          BY <1>4, <4>2, <4>4, LenProperties
        <5>2. QED
          BY <4>1, <4>2, <5>1 DEF AnswersSound
      <4>5. QED
        BY <4>3, <4>4
    <3>2. CASE k # n
      <4>1. lists'[k] = lists[k] /\ appended'[k] = appended[k]
        BY <1>1, <1>2, <3>2
      <4>2. QED
        BY <4>1 DEF AnswersSound
    <3>3. QED
      BY <3>1, <3>2
  <2>2. ASSUME NEW k \in Node PROVE popped'[k] \in appended'[k] \cup {Nothing}
    BY <1>1, <1>3 DEF AnswersSound
  <2>3. QED
    BY <2>1, <2>2 DEF AnswersSound
<1>7. Sent' = Sent /\ Done' = Done
  BY <1>1 DEF Sent, Done, counts
<1>8. MessagesSound'
  BY <1>1, <1>3, <1>7 DEF MessagesSound, counts
<1>9. CountsSound'
  BY <1>1, <1>7 DEF CountsSound, counts
<1>10. ResultsSound'
  BY <1>1, <1>3, ResultsStand DEF ResultsSound
<1>11. QED
  BY <1>5, <1>6, <1>8, <1>9, <1>10

LEMMA NodeAppendsKeepsInv ==
    ASSUME TestersInv, NEW n \in Node,
           \/ \E m \in Msg : NodeAppends(n, m)
           \/ \E e \in Entry : NodeAppendsMore(n, e)
    PROVE  TestersInv'
<1>0. extras \in 0..MaxExtras /\ MaxExtras \in Nat
  BY TesterAssumption DEF TestersInv, StateSound
<1>1. ASSUME NEW m \in Msg, NodeAppends(n, m) PROVE TestersInv'
  BY <1>0, <1>1, PutOnListKeepsInv DEF NodeAppends, Entry
<1>2. ASSUME NEW e \in Entry, NodeAppendsMore(n, e) PROVE TestersInv'
  BY <1>0, <1>2, PutOnListKeepsInv DEF NodeAppendsMore
<1>3. QED
  BY <1>1, <1>2

LEMMA DoneIsEverywhere ==
    ASSUME TestersInv
    PROVE  Done \subseteq Everywhere(iteration)
BY SentSplits DEF TestersInv, MessagesSound, Everywhere, IterationOf, Done, Sent

(* A message that is sent is on its way: it is in "messages", and neither  *)
(* done nor on any node yet.                                               *)
LEMMA SendKeepsInv ==
    ASSUME TestersInv, SendMessage
    PROVE  TestersInv'
<1> USE DEF TestersInv
<1> DEFINE new == <<iteration, total + 1>>
<1>1. /\ phase = "sending" /\ total < MaxSends /\ total' = total + 1
      /\ messages' = [m \in DOMAIN messages \cup {new} |->
                         IF m \in DOMAIN messages THEN messages[m] ELSE {}]
      /\ events' = Logged(1) /\ held' \in BOOLEAN
      /\ UNCHANGED <<tester, lists, appended, extras, popped, phase, iteration, good, results>>
  BY DEF SendMessage, cluster
<1>2. total \in 0..MaxSends /\ MaxSends \in Nat /\ total' \in 0..MaxSends
  BY <1>1, TesterAssumption DEF StateSound
<1>3. Sent' = Sent \cup {new} /\ new \notin Sent
  <2>1. 1..total' = (1..total) \cup {total + 1} /\ total + 1 \notin 1..total
    BY <1>1, <1>2
  <2>2. Sent' = {<<iteration, k>> : k \in 1..total'}
    BY <1>1 DEF Sent
  <2>3. QED
    BY <2>1, <2>2 DEF Sent
<1>4. DOMAIN messages \subseteq Sent
  BY DEF MessagesSound
<1>5. DOMAIN messages' = DOMAIN messages \cup {new} /\ Done' = Done
  BY <1>1, <1>3, <1>4 DEF Done
<1>6. events \in Log /\ events' \in Log
  BY <1>1, QueueSizeAppend DEF StateSound, Logged, Log
<1>7. StateSound'
  BY <1>1, <1>2, <1>6 DEF StateSound, Log
<1>8. AnswersSound'
  BY <1>1 DEF AnswersSound
<1>9. MessagesSound'
  <2>1. DOMAIN messages' \subseteq Sent'
    BY <1>3, <1>4, <1>5
  <2>2. \A m \in DOMAIN messages' : messages'[m] \subseteq {n \in Node : m \in appended'[n]}
    BY <1>1, <1>5 DEF MessagesSound
  <2>3. QED
    BY <1>1, <1>5, <2>1, <2>2 DEF MessagesSound
<1>10. CountsSound'
  <2>1. CASE tester = "consistency"
    BY <1>1, <1>5, <2>1 DEF CountsSound, Logged
  <2>2. CASE tester # "consistency"
    <3>1. /\ tester = "queue" /\ events' = Append(events, 1) /\ good' = 0
          /\ Len(events) = total + Cardinality(Done)
          /\ \A i \in 0..Len(events) : QueueSize(events)[i] >= 0
          /\ QueueSize(events)[Len(events)] = Cardinality(DOMAIN messages)
      BY <1>1, <2>2, SentSplits DEF CountsSound, StateSound, Logged
    <3>2. Len(events') = Len(events) + 1 /\ Len(events) \in Nat
      BY <1>6, <3>1, AppendProperties DEF Log
    <3>3. Cardinality(DOMAIN messages') = Cardinality(DOMAIN messages) + 1
      BY <1>3, <1>4, <1>5, SentSplits, MsgSubsetFinite, FS_AddElement
    <3>4. /\ \A i \in 0..Len(events) : QueueSize(events')[i] = QueueSize(events)[i]
          /\ QueueSize(events')[Len(events) + 1] = QueueSize(events)[Len(events)] + 1
      BY <1>6, <3>1, QueueSizeAppend
    <3>5. QueueSize(events)[Len(events)] \in Nat
      BY <3>1, SentSplits
    <3>6. \A i \in 0..Len(events') : i \in 0..Len(events) \/ i = Len(events) + 1
      BY <3>2
    <3>7. \A i \in 0..Len(events') : QueueSize(events')[i] >= 0
      BY <3>1, <3>4, <3>5, <3>6
    <3>8. Len(events') = total' + Cardinality(Done')
      BY <1>1, <1>2, <1>5, <3>1, <3>2, SentSplits
    <3>9. Cardinality(Done') \in Nat
      BY <1>5, SentSplits
    <3>10. QED
      BY <1>1, <1>2, <3>1, <3>2, <3>3, <3>4, <3>7, <3>8, <3>9 DEF CountsSound
  <2>3. QED
    BY <2>1, <2>2
<1>11. ResultsSound'
  BY <1>1, ResultsStand DEF ResultsSound
<1>12. QED
  BY <1>7, <1>8, <1>9, <1>10, <1>11

(* The stop leaves the queue as it is.                                     *)
LEMMA StopKeepsInv ==
    ASSUME TestersInv, StopSending
    PROVE  TestersInv'
<1> USE DEF TestersInv
<1>1. /\ phase = "sending" /\ phase' = "waiting" /\ events' = Logged(0)
      /\ UNCHANGED <<tester, lists, appended, extras, popped, held, iteration, messages, total,
                     good, results>>
  BY DEF StopSending, cluster
<1>2. Sent' = Sent /\ Done' = Done
  BY <1>1 DEF Sent, Done
<1>3. events \in Log /\ events' \in Log
  BY <1>1, QueueSizeAppend DEF StateSound, Logged, Log
<1>4. StateSound'
  BY <1>1, <1>3 DEF StateSound, Log
<1>5. AnswersSound'
  BY <1>1 DEF AnswersSound
<1>6. MessagesSound'
  BY <1>1, <1>2 DEF MessagesSound
<1>7. CountsSound'
  <2>1. CASE tester = "consistency"
    BY <1>1, <1>2, <2>1 DEF CountsSound, Logged
  <2>2. CASE tester # "consistency"
    <3>1. /\ tester = "queue" /\ events' = Append(events, 0) /\ good' = 0
          /\ Len(events) = total + Cardinality(Done)
          /\ \A i \in 0..Len(events) : QueueSize(events)[i] >= 0
          /\ QueueSize(events)[Len(events)] = Cardinality(DOMAIN messages)
      BY <1>1, <2>2, SentSplits DEF CountsSound, StateSound, Logged
    <3>2. Len(events') = Len(events) + 1 /\ Len(events) \in Nat
      BY <1>3, <3>1, AppendProperties DEF Log
    <3>3. /\ \A i \in 0..Len(events) : QueueSize(events')[i] = QueueSize(events)[i]
          /\ QueueSize(events')[Len(events) + 1] = QueueSize(events)[Len(events)] + 0
      BY <1>3, <3>1, QueueSizeAppend
    <3>4. QueueSize(events)[Len(events)] \in Nat
      BY <3>1, SentSplits
    <3>5. \A i \in 0..Len(events') : i \in 0..Len(events) \/ i = Len(events) + 1
      BY <3>2
    <3>6. \A i \in 0..Len(events') : QueueSize(events')[i] >= 0
      BY <3>1, <3>3, <3>4, <3>5
    <3>7. QueueSize(events')[Len(events')] = Cardinality(DOMAIN messages')
      BY <1>1, <3>1, <3>2, <3>3, <3>4
    <3>8. QED
      BY <1>1, <1>2, <3>1, <3>2, <3>6, <3>7 DEF CountsSound
  <2>3. QED
    BY <2>1, <2>2
<1>8. ResultsSound'
  BY <1>1, ResultsStand DEF ResultsSound
<1>9. QED
  BY <1>4, <1>5, <1>6, <1>7, <1>8

LEMMA WaitKeepsInv ==
    ASSUME TestersInv, WaitForCompletion \/ UNCHANGED vars
    PROVE  TestersInv'
<1> USE DEF TestersInv
<1>1. /\ held' \in BOOLEAN
      /\ UNCHANGED <<tester, lists, appended, extras, popped, phase, iteration, messages, total,
                     good, events, results>>
  BY DEF WaitForCompletion, vars, cluster, counts, StateSound
<1>2. Sent' = Sent /\ Done' = Done
  BY <1>1 DEF Sent, Done
<1>3. StateSound'
  BY <1>1 DEF StateSound
<1>4. AnswersSound' /\ MessagesSound' /\ CountsSound'
  BY <1>1, <1>2 DEF AnswersSound, MessagesSound, CountsSound
<1>5. ResultsSound'
  BY <1>1, ResultsStand DEF ResultsSound
<1>6. QED
  BY <1>3, <1>4, <1>5

(* What is popped is the node's own.                                       *)
LEMMA PopKeepsInv ==
    ASSUME TestersInv, NEW n \in Node, Pop(n)
    PROVE  TestersInv'
<1> USE DEF TestersInv
<1>1. /\ lists[n] # <<>>
      /\ popped' = [popped EXCEPT ![n] = Head(lists[n])]
      /\ lists' = [lists EXCEPT ![n] = Tail(lists[n])]
      /\ UNCHANGED <<tester, appended, extras, phase, held, iteration, messages, total, good,
                     events, results>>
  BY DEF Pop, counts
<1>2. Sent' = Sent /\ Done' = Done
  BY <1>1 DEF Sent, Done
<1>3. lists \in [Node -> Seq(Entry)] /\ popped \in [Node -> Entry \cup {Nothing}]
  BY DEF StateSound
<1>4. lists[n] \in Seq(Entry) /\ Len(lists[n]) \in Nat /\ DOMAIN lists[n] = 1..Len(lists[n])
  BY <1>3, LenProperties
<1>5. /\ Head(lists[n]) = lists[n][1] /\ 1 \in DOMAIN lists[n]
      /\ Tail(lists[n]) \in Seq(Entry) /\ Len(Tail(lists[n])) = Len(lists[n]) - 1
      /\ \A i \in 1..(Len(lists[n]) - 1) : Tail(lists[n])[i] = lists[n][i + 1]
  <2>1. Len(lists[n]) # 0
    BY <1>1, <1>4, EmptySeq
  <2>2. QED
    BY <1>1, <1>4, <2>1, HeadTailProperties
<1>6. Head(lists[n]) \in Entry /\ Head(lists[n]) \in appended[n]
  BY <1>4, <1>5 DEF AnswersSound
<1>7. StateSound'
  BY <1>1, <1>3, <1>5, <1>6 DEF StateSound
<1>8. AnswersSound'
  <2>1. ASSUME NEW k \in Node, NEW i \in DOMAIN lists'[k] PROVE lists'[k][i] \in appended'[k]
    <3>1. CASE k = n
      <4>1. lists'[k] = Tail(lists[n]) /\ appended'[k] = appended[n]
        BY <1>1, <1>3, <3>1
      <4>2. i \in 1..(Len(lists[n]) - 1)
        BY <1>5, <4>1, LenProperties
      <4>3. i + 1 \in DOMAIN lists[n]
        BY <1>4, <4>2
      <4>4. QED
        BY <1>5, <4>1, <4>2, <4>3 DEF AnswersSound
    <3>2. CASE k # n
      <4>1. lists'[k] = lists[k] /\ appended'[k] = appended[k]
        BY <1>1, <1>3, <3>2
      <4>2. QED
        BY <4>1 DEF AnswersSound
    <3>3. QED
      BY <3>1, <3>2
  <2>2. ASSUME NEW k \in Node PROVE popped'[k] \in appended'[k] \cup {Nothing}
    BY <1>1, <1>3, <1>6 DEF AnswersSound
  <2>3. QED
    BY <2>1, <2>2 DEF AnswersSound
<1>9. MessagesSound' /\ CountsSound'
  BY <1>1, <1>2 DEF MessagesSound, CountsSound
<1>10. ResultsSound'
  BY <1>1, ResultsStand DEF ResultsSound
<1>11. QED
  BY <1>7, <1>8, <1>9, <1>10

-----------------------------------------------------------------------------
(* What the current iteration would report is no better than what is.      *)
PartlySeen == {m \in DOMAIN messages : messages[m] # {}}

LEMMA ResultIsTally ==
    ASSUME TestersInv, tester = "consistency"
    PROVE  /\ Result \in Tally
           /\ Result.good <= Cardinality(Everywhere(iteration))
           /\ Result.good + Result.partial <= Cardinality(Somewhere(iteration))
<1> USE DEF TestersInv
<1>1. /\ Result = [good |-> good, partial |-> Partial, lost |-> total - (good + Partial)]
      /\ Partial = Cardinality(PartlySeen) /\ good = Cardinality(Done)
  BY DEF Result, Partial, PartlySeen, CountsSound
<1>2. /\ DOMAIN messages \in SUBSET Msg /\ PartlySeen \in SUBSET DOMAIN messages
      /\ Done \in SUBSET Msg /\ Done \cap DOMAIN messages = {} /\ PartlySeen \in SUBSET Msg
  BY SentSplits DEF PartlySeen, Done
<1>3. /\ Cardinality(PartlySeen) <= Cardinality(DOMAIN messages)
      /\ Cardinality(Done) + Cardinality(DOMAIN messages) = total
      /\ Cardinality(PartlySeen) \in Nat /\ Cardinality(Done) \in Nat
      /\ Cardinality(DOMAIN messages) \in Nat
  BY <1>2, SentSplits, SubsetCounts, MsgSubsetFinite
<1>4. Result \in Tally
  <2>1. good \in Nat /\ Partial \in Nat /\ total - (good + Partial) \in Nat
    BY <1>1, <1>3
  <2>2. QED
    BY <1>1, <2>1 DEF Tally
<1>5. Result.good <= Cardinality(Everywhere(iteration))
  <2>1. Done \in SUBSET Everywhere(iteration) /\ Everywhere(iteration) \in SUBSET Msg
    BY DoneIsEverywhere DEF Everywhere
  <2>2. QED
    BY <1>1, <2>1, SubsetCounts
<1>6. Result.good + Result.partial <= Cardinality(Somewhere(iteration))
  <2>1. Done \subseteq Somewhere(iteration)
    BY DoneIsEverywhere, TesterAssumption DEF Everywhere, Somewhere
  <2>2. PartlySeen \subseteq Somewhere(iteration)
    <3>1. ASSUME NEW m \in PartlySeen PROVE m \in Somewhere(iteration)
      <4>1. m \in Sent /\ m \in Msg /\ messages[m] # {}
            /\ messages[m] \subseteq {n \in Node : m \in appended[n]}
        BY <1>2 DEF PartlySeen, MessagesSound
      <4>2. \E n \in Node : m \in appended[n]
        BY <4>1
      <4>3. IterationOf(m) = iteration
        BY <4>1 DEF Sent, IterationOf
      <4>4. QED
        BY <4>1, <4>2, <4>3 DEF Somewhere
    <3>2. QED
      BY <3>1
  <2>3. Done \cup PartlySeen \in SUBSET Somewhere(iteration) /\ Somewhere(iteration) \in SUBSET Msg
    BY <2>1, <2>2 DEF Somewhere
  <2>4. Cardinality(Done \cup PartlySeen) = Cardinality(Done) + Cardinality(PartlySeen)
    BY <1>2, DisjointCounts
  <2>5. QED
    BY <1>1, <2>3, <2>4, SubsetCounts
<1>7. QED
  BY <1>4, <1>5, <1>6

LEMMA ResultType ==
    ASSUME TestersInv
    PROVE  Result \in Tally \cup Plot
<1>1. CASE tester = "consistency"
  BY <1>1, ResultIsTally
<1>2. CASE tester # "consistency"
  <2> DEFINE at == {j \in 1..Len(events) : events[j] # 0}
  <2>1. events \in Log /\ Len(events) \in Nat
    BY DEF TestersInv, StateSound, Log
  <2>2. QueueSizes(events) \in [at -> Int]
    BY <2>1, QueueSizeType DEF QueueSizes
  <2>3. at \in SUBSET Nat
    BY <2>1
  <2>4. Result = [sizes |-> QueueSizes(events)]
    BY <1>2 DEF Result
  <2> HIDE DEF at
  <2>5. QED
    BY <2>2, <2>3, <2>4 DEF Plot
<1>3. QED
  BY <1>1, <1>2

(* The iteration that ends is reported as it is, and nothing of it is left *)
(* to the next.                                                            *)
LEMMA EndKeepsInv ==
    ASSUME TestersInv, EndTest
    PROVE  TestersInv'
<1> USE DEF TestersInv
<1>1. /\ phase = "waiting" /\ results' = Append(results, Result) /\ held' = FALSE
      /\ UNCHANGED <<tester, lists, appended, extras, popped>>
  BY DEF EndTest, cluster
<1>2. /\ iteration \in 1..Iterations /\ Iterations \in Nat
      /\ results \in Seq(Tally \cup Plot) /\ Len(results) = iteration - 1
  BY <1>1, TesterAssumption DEF StateSound, ResultsSound
<1>3. /\ results' \in Seq(Tally \cup Plot) /\ Len(results') = iteration
      /\ \A i \in 1..(iteration - 1) : results'[i] = results[i]
      /\ results'[iteration] = Result
  BY <1>1, <1>2, ResultType, AppendProperties
<1>4. tester' = "consistency" =>
          \A i \in DOMAIN results' :
              /\ results'[i] \in Tally
              /\ results'[i].good <= Cardinality(Everywhere(i)')
              /\ results'[i].good + results'[i].partial <= Cardinality(Somewhere(i)')
  <2> SUFFICES ASSUME tester = "consistency", NEW i \in DOMAIN results'
               PROVE  /\ results'[i] \in Tally
                      /\ results'[i].good <= Cardinality(Everywhere(i)')
                      /\ results'[i].good + results'[i].partial <= Cardinality(Somewhere(i)')
    BY <1>1
  <2>1. Everywhere(i)' = Everywhere(i) /\ Somewhere(i)' = Somewhere(i)
    BY <1>1 DEF Everywhere, Somewhere
  <2>2. i \in 1..iteration
    BY <1>3, LenProperties
  <2>3. CASE i = iteration
    BY <1>3, <2>1, <2>3, ResultIsTally
  <2>4. CASE i # iteration
    <3>1. i \in 1..(iteration - 1) /\ i \in DOMAIN results
      BY <1>2, <2>2, <2>4, LenProperties
    <3>2. QED
      BY <1>3, <2>1, <3>1 DEF ResultsSound
  <2>5. QED
    BY <2>3, <2>4
<1>5. CASE iteration < Iterations
  <2>1. /\ phase' = "sending" /\ iteration' = iteration + 1 /\ messages' = <<>>
        /\ total' = 0 /\ good' = 0 /\ events' = <<>>
    BY <1>5 DEF EndTest
  <2>2. Sent' = {} /\ Done' = {} /\ DOMAIN messages' = {}
    <3>1. DOMAIN messages' = {} /\ 1..total' = {}
      BY <2>1
    <3>2. QED
      BY <3>1 DEF Sent, Done
  <2>3. StateSound'
    <3>1. 0 \in 0..MaxSends /\ iteration' \in 1..Iterations
      BY <1>2, <1>5, <2>1, TesterAssumption
    <3>2. QED
      BY <1>1, <2>1, <3>1, EmptySeq DEF StateSound
  <2>4. AnswersSound' /\ MessagesSound'
    BY <1>1, <2>2 DEF AnswersSound, MessagesSound
  <2>5. CountsSound'
    <3>1. events' = <<>> /\ Len(events') = 0 /\ events' \in Log /\ Cardinality({}) = 0
      BY <2>1, EmptySeq, FS_EmptySet DEF Log
    <3>2. QueueSize(events')[0] = 0 /\ \A i \in 0..Len(events') : i = 0
      BY <3>1, QueueSizeUnfolds
    <3>3. QED
      BY <1>1, <2>1, <2>2, <3>1, <3>2 DEF CountsSound
  <2>6. ResultsSound'
    BY <1>2, <1>3, <1>4, <2>1 DEF ResultsSound
  <2>7. QED
    BY <2>3, <2>4, <2>5, <2>6
<1>6. CASE ~ (iteration < Iterations)
  <2>1. phase' = "ended" /\ UNCHANGED <<iteration, messages, total, good, events>>
    BY <1>6 DEF EndTest, counts
  <2>2. Sent' = Sent /\ Done' = Done
    BY <2>1 DEF Sent, Done
  <2>3. StateSound' /\ AnswersSound' /\ MessagesSound'
    BY <1>1, <2>1, <2>2 DEF StateSound, AnswersSound, MessagesSound
  <2>4. CountsSound'
    BY <1>1, <2>1, <2>2 DEF CountsSound
  <2>5. ResultsSound'
    BY <1>2, <1>3, <1>4, <2>1 DEF ResultsSound
  <2>6. QED
    BY <2>3, <2>4, <2>5
<1>7. QED
  BY <1>5, <1>6

(* A message that leaves "messages" is on every node, and each tester      *)
(* counts it.                                                              *)
LEMMA RoundKeepsInv ==
    ASSUME TestersInv, HandleRound
    PROVE  TestersInv'
<1> USE DEF TestersInv
<1> DEFINE seen == [m \in DOMAIN messages |-> messages[m] \cup {n \in Node : popped[n] = m}]
           done == {m \in DOMAIN messages : Complete(seen[m])}
<1>1. /\ messages' = Restrict(seen, DOMAIN messages \ done)
      /\ IF tester = "consistency" THEN CountGood(done) ELSE LogDelivered(done)
      /\ popped' = [n \in Node |-> Nothing]
      /\ UNCHANGED <<tester, lists, appended, extras, phase, held, iteration, total, results>>
  BY DEF HandleRound, cluster
<1>2. \A m \in DOMAIN messages : seen[m] \subseteq {n \in Node : m \in appended[n]}
  <2> SUFFICES ASSUME NEW m \in DOMAIN messages
               PROVE  seen[m] \subseteq {n \in Node : m \in appended[n]}
    OBVIOUS
  <2>1. m \in Msg /\ messages[m] \subseteq {n \in Node : m \in appended[n]}
    BY SentSplits DEF MessagesSound
  <2>2. m # Nothing
    BY <2>1, TesterAssumption DEF Msg
  <2>3. \A n \in Node : popped[n] = m => m \in appended[n]
    BY <2>2 DEF AnswersSound
  <2>4. QED
    BY <2>1, <2>3
<1>3. \A m \in done : \A n \in Node : m \in appended[n]
  <2> SUFFICES ASSUME NEW m \in done PROVE \A n \in Node : m \in appended[n]
    OBVIOUS
  <2>1. seen[m] \in SUBSET Node /\ Cardinality(seen[m]) = Cardinality(Node)
    BY <1>2 DEF Complete
  <2>2. seen[m] = Node
    BY <2>1, FS_Subset, TesterAssumption
  <2>3. QED
    BY <1>2, <2>2
<1> HIDE DEF seen
<1>4. done \in SUBSET DOMAIN messages /\ done \in SUBSET Msg
  BY SentSplits
<1> HIDE DEF done
<1>5. /\ DOMAIN messages' = DOMAIN messages \ done
      /\ \A m \in DOMAIN messages' : messages'[m] = seen[m]
  BY <1>1 DEF Restrict
<1>6. Sent' = Sent /\ Done' = Done \cup done /\ Done \cap done = {}
  <2>1. Sent' = Sent
    BY <1>1 DEF Sent
  <2>2. QED
    BY <1>4, <1>5, <2>1 DEF Done, MessagesSound
<1>7. /\ Cardinality(Done') = Cardinality(Done) + Cardinality(done)
      /\ Cardinality(DOMAIN messages') = Cardinality(DOMAIN messages) - Cardinality(done)
      /\ Cardinality(done) \in Nat /\ Cardinality(done) <= Cardinality(DOMAIN messages)
      /\ Cardinality(Done) \in Nat /\ Cardinality(DOMAIN messages) \in Nat
  <2>1. DOMAIN messages \in SUBSET Msg /\ Done \in SUBSET Msg
    BY SentSplits
  <2>2. Cardinality(Done \cup done) = Cardinality(Done) + Cardinality(done)
    BY <1>4, <1>6, <2>1, DisjointCounts
  <2>3. DOMAIN messages \cap done = done
    BY <1>4
  <2>4. Cardinality(DOMAIN messages \ done) = Cardinality(DOMAIN messages) - Cardinality(done)
    <3>1. IsFiniteSet(DOMAIN messages)
      BY <2>1, MsgSubsetFinite
    <3>2. Cardinality(DOMAIN messages \ done)
             = Cardinality(DOMAIN messages) - Cardinality(DOMAIN messages \cap done)
      BY <3>1, FS_Difference
    <3>3. QED
      BY <2>3, <3>2
  <2>5. QED
    BY <1>4, <1>5, <1>6, <2>1, <2>2, <2>4, SubsetCounts, MsgSubsetFinite
<1>8. events \in Log
  BY DEF StateSound, Log
<1>9. StateSound'
  <2>1. events' \in Log
    BY <1>1, <1>7, <1>8, QueueSizeDeliveries DEF CountGood, LogDelivered
  <2>2. QED
    BY <1>1, <2>1 DEF StateSound, Log
<1>10. AnswersSound'
  BY <1>1 DEF AnswersSound
<1>11. MessagesSound'
  BY <1>1, <1>2, <1>3, <1>5, <1>6 DEF MessagesSound
<1>12. CountsSound'
  <2>1. CASE tester = "consistency"
    BY <1>1, <1>7, <2>1 DEF CountsSound, CountGood
  <2>2. CASE tester # "consistency"
    <3>1. /\ tester = "queue" /\ good' = 0
          /\ events' = events \o [i \in 1..Cardinality(done) |-> -1]
          /\ Len(events) = total + Cardinality(Done) + (IF phase = "sending" THEN 0 ELSE 1)
          /\ \A i \in 0..Len(events) : QueueSize(events)[i] >= 0
          /\ QueueSize(events)[Len(events)] = Cardinality(DOMAIN messages)
      BY <1>1, <2>2 DEF CountsSound, StateSound, LogDelivered
    <3>2. /\ Len(events') = Len(events) + Cardinality(done) /\ Len(events) \in Nat
          /\ \A i \in 0..Len(events) : QueueSize(events')[i] = QueueSize(events)[i]
          /\ \A k \in 0..Cardinality(done) :
                 QueueSize(events')[Len(events) + k] = QueueSize(events)[Len(events)] - k
      <4>1. Cardinality(done) \in Nat
        BY <1>7
      <4>2. LET longer == events \o [i \in 1..Cardinality(done) |-> -1]
            IN  /\ Len(longer) = Len(events) + Cardinality(done)
                /\ \A i \in 0..Len(events) : QueueSize(longer)[i] = QueueSize(events)[i]
                /\ \A k \in 0..Cardinality(done) :
                       QueueSize(longer)[Len(events) + k] = QueueSize(events)[Len(events)] - k
        BY <1>8, <4>1, QueueSizeDeliveries
      <4>3. Len(events) \in Nat
        BY <1>8 DEF Log
      <4>4. QED
        BY <3>1, <4>2, <4>3
    <3>3. ASSUME NEW i \in 0..Len(events') PROVE QueueSize(events')[i] >= 0
      <4>1. CASE i <= Len(events)
        <5>1. i \in 0..Len(events)
          BY <4>1
        <5>2. QED
          BY <3>1, <3>2, <5>1
      <4>2. CASE ~ (i <= Len(events))
        <5>1. PICK k \in 0..Cardinality(done) : i = Len(events) + k
          <6>1. i - Len(events) \in 0..Cardinality(done) /\ i = Len(events) + (i - Len(events))
            BY <1>7, <3>2, <4>2
          <6>2. QED
            BY <6>1
        <5>2. QueueSize(events')[i] = Cardinality(DOMAIN messages) - k
          BY <3>1, <3>2, <5>1
        <5>3. QED
          BY <1>7, <5>1, <5>2
      <4>3. QED
        BY <4>1, <4>2
    <3>4. QueueSize(events')[Len(events')] = Cardinality(DOMAIN messages')
      <4>1. Cardinality(done) \in 0..Cardinality(done)
        BY <1>7
      <4>2. QED
        BY <1>7, <3>1, <3>2, <4>1
    <3>5. Len(events') = total' + Cardinality(Done') + (IF phase' = "sending" THEN 0 ELSE 1)
      <4>1. total \in Nat
        BY TesterAssumption DEF StateSound
      <4>2. QED
        BY <1>1, <1>7, <3>1, <3>2, <4>1
    <3>6. QED
      BY <1>1, <3>1, <3>3, <3>4, <3>5 DEF CountsSound
  <2>3. QED
    BY <2>1, <2>2
<1>13. ResultsSound'
  BY <1>1, ResultsStand DEF ResultsSound
<1>14. QED
  BY <1>9, <1>10, <1>11, <1>12, <1>13

LEMMA NextKeepsInv ==
    ASSUME TestersInv, [Next]_vars
    PROVE  TestersInv'
<1>1. CASE \/ \E n \in Node, m \in Msg : NodeAppends(n, m)
           \/ \E n \in Node, e \in Entry : NodeAppendsMore(n, e)
  BY <1>1, NodeAppendsKeepsInv
<1>2. CASE SendMessage
  BY <1>2, SendKeepsInv
<1>3. CASE StopSending
  BY <1>3, StopKeepsInv
<1>4. CASE WaitForCompletion \/ UNCHANGED vars
  BY <1>4, WaitKeepsInv
<1>5. CASE EndTest
  BY <1>5, EndKeepsInv
<1>6. CASE \E n \in Node : Pop(n)
  BY <1>6, PopKeepsInv
<1>7. CASE HandleRound
  BY <1>7, RoundKeepsInv
<1>8. QED
  BY <1>1, <1>2, <1>3, <1>4, <1>5, <1>6, <1>7 DEF Next, ListenerStep

(* What the testers know of a message is true of the nodes: what left       *)
(* "messages" is on all of them, in every iteration (on_delivery).         *)
THEOREM TestersInvariant == Spec => []TestersInv
<1>1. Init => TestersInv
  BY InitInv
<1>2. TestersInv /\ [Next]_vars => TestersInv'
  BY NextKeepsInv
<1>3. QED
  BY <1>1, <1>2, PTL DEF Spec

-----------------------------------------------------------------------------
LEMMA InvIsTypeOK ==
    ASSUME TestersInv
    PROVE  TypeOK
<1> USE DEF TestersInv
<1>1. DOMAIN messages \subseteq Msg /\ \A m \in DOMAIN messages : messages[m] \subseteq Node
  BY SentSplits DEF MessagesSound
<1>2. /\ total \in 0..MaxSends /\ MaxSends \in Nat /\ total \in Nat
      /\ Cardinality(Done) \in Nat /\ Cardinality(Done) <= total
  BY SentSplits, TesterAssumption DEF StateSound
<1>3. good \in 0..MaxSends
  BY <1>2 DEF CountsSound
<1>4. Len(events) <= 2 * MaxSends + 1
  <2>1. CASE tester = "consistency"
    BY <1>2, <2>1 DEF CountsSound
  <2>2. CASE tester # "consistency"
    <3>1. /\ Len(events) = total + Cardinality(Done) + (IF phase = "sending" THEN 0 ELSE 1)
      BY <2>2 DEF CountsSound
    <3>2. total <= MaxSends
      BY <1>2
    <3>3. QED
      BY <1>2, <3>1, <3>2
  <2>3. QED
    BY <2>1, <2>2
<1>5. tester = "consistency" => results \in Seq([good : Nat, partial : Nat, lost : Nat])
  <2> SUFFICES ASSUME tester = "consistency" PROVE results \in Seq(Tally)
    BY DEF Tally
  <2>1. results \in Seq(Tally \cup Plot) /\ \A i \in DOMAIN results : results[i] \in Tally
    BY DEF ResultsSound
  <2>2. /\ results \in [1..Len(results) -> Tally \cup Plot] /\ Len(results) \in Nat
        /\ DOMAIN results = 1..Len(results)
    BY <2>1, LenProperties
  <2>3. results \in [1..Len(results) -> Tally]
    BY <2>1, <2>2
  <2>4. QED
    BY <2>2, <2>3, IsASeq
<1>6. Len(results) \in {iteration, iteration - 1}
  BY DEF ResultsSound
<1>7. QED
  BY <1>1, <1>2, <1>3, <1>4, <1>5, <1>6 DEF TypeOK, StateSound

(* Type correctness of the testers, for any nodes, iterations and messages.*)
THEOREM TestersTypeCorrect == Spec => []TypeOK
BY TestersInvariant, InvIsTypeOK, PTL

(* What a ConsistencyTester calls good is on every node and what it calls  *)
(* good or partial is on some node (get_result), although answers of one   *)
(* iteration are handled in the next, a round mixes messages, and nodes    *)
(* repeat messages and make some up.                                       *)
THEOREM TesterErrsTowardsLoss == Spec => []ErrsTowardsLoss
<1>1. TestersInv => ErrsTowardsLoss
  <2> SUFFICES ASSUME TestersInv, tester = "consistency", NEW i \in 1..iteration
               PROVE  /\ Reported(i).good <= Cardinality(Everywhere(i))
                      /\ Reported(i).good + Reported(i).partial <= Cardinality(Somewhere(i))
    BY DEF ErrsTowardsLoss
  <2>1. results \in Seq(Tally \cup Plot) /\ DOMAIN results = 1..Len(results)
    BY LenProperties DEF TestersInv, ResultsSound
  <2>2. CASE i <= Len(results)
    <3>1. i \in DOMAIN results /\ Reported(i) = results[i]
      BY <2>1, <2>2 DEF Reported
    <3>2. QED
      BY <3>1 DEF TestersInv, ResultsSound
  <2>3. CASE ~ (i <= Len(results))
    <3>1. i = iteration
      BY <2>3 DEF TestersInv, ResultsSound, StateSound
    <3>2. Reported(i) = Result
      BY <2>3 DEF Reported
    <3>3. QED
      BY <3>1, <3>2, ResultIsTally
  <2>4. QED
    BY <2>2, <2>3
<1>2. QED
  BY <1>1, TestersInvariant, PTL

(* A QueueSizeTester's plot never goes below zero, and ends at the number  *)
(* of messages it does not know to be on all nodes, which are no fewer     *)
(* than those that are not (on_delivery, get_result).                      *)
THEOREM QueueIsNeverTooSmall == Spec => []QueueNeverTooSmall
<1>1. TestersInv => QueueNeverTooSmall
  <2> SUFFICES ASSUME TestersInv, tester = "queue"
               PROVE  /\ \A i \in 0..Len(events) : QueueSize(events)[i] >= 0
                      /\ QueueSize(events)[Len(events)] = Cardinality(DOMAIN messages)
                      /\ QueueSize(events)[Len(events)] >= total - Cardinality(Everywhere(iteration))
    BY DEF QueueNeverTooSmall
  <2>1. /\ \A i \in 0..Len(events) : QueueSize(events)[i] >= 0
        /\ QueueSize(events)[Len(events)] = Cardinality(DOMAIN messages)
    BY DEF TestersInv, CountsSound
  <2>2. Done \in SUBSET Everywhere(iteration) /\ Everywhere(iteration) \in SUBSET Msg
    BY DoneIsEverywhere DEF Everywhere
  <2>3. /\ Cardinality(Done) <= Cardinality(Everywhere(iteration))
        /\ Cardinality(Everywhere(iteration)) \in Nat
    BY <2>2, SubsetCounts, MsgSubsetFinite
  <2>4. /\ Cardinality(DOMAIN messages) + Cardinality(Done) = total
        /\ Cardinality(Done) \in Nat /\ Cardinality(DOMAIN messages) \in Nat
    BY SentSplits DEF TestersInv
  <2>5. QED
    BY <2>1, <2>3, <2>4
<1>2. QED
  BY <1>1, TestersInvariant, PTL

=============================================================================
