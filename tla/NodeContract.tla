----------------------------- MODULE NodeContract -----------------------------
(* What one node may do to one session, however its threads interleave:    *)
(* every step counts messages that came, decides READY or commits when the *)
(* counters justify it, or sends what was decided.                         *)
EXTENDS Naturals, FiniteSets, Sequences

CONSTANTS
    Self,        \* the node
    Node,        \* ids a message may carry
    Data,        \* payloads
    NoData,      \* readyData before READY was decided
    EchoQuorum,  \* ECHOs that make the node decide READY
    Tolerated    \* t: more than t READYs make it decide READY, more than
                 \* 2 * t make it commit

VARIABLES
    received,    \* messages that have reached the node
    echoes,      \* echoes[v]: nodes whose ECHO of v was counted
    readies,     \* readies[v]: nodes whose READY of v was counted
    readyData,   \* the payload READY was decided for
    sent,        \* messages the node has sent
    log          \* payloads the node has committed

vars == <<received, echoes, readies, readyData, sent, log>>

From(type, q, v) == [type |-> type, nodeId |-> q, data |-> v]
Incoming == [type: {"SEND", "ECHO", "READY"}, nodeId: Node, data: Data]
Asked(v) == \E q \in Node : From("SEND", q, v) \in received

Init ==
    /\ received \in SUBSET Incoming
    /\ echoes = [v \in Data |-> {}]
    /\ readies = [v \in Data |-> {}]
    /\ readyData = NoData
    /\ sent = {}
    /\ log = <<>>

Receive ==
    /\ received \subseteq received'
    /\ received' \in SUBSET Incoming
    /\ UNCHANGED <<echoes, readies, readyData, sent, log>>

\* The node's own ECHO follows a SEND; any other came from its sender.
CountEchoes(q, v) ==
    \E seen \in SUBSET {Self, q} :
        /\ echoes' = [echoes EXCEPT ![v] = @ \cup seen]
        /\ Self \in seen => Asked(v)
        /\ q \in seen /\ q # Self => From("ECHO", q, v) \in received

\* The node's own READY is counted once it was decided.
CountReadies(q, v) ==
    \E seen \in SUBSET {Self, q} :
        /\ readies' = [readies EXCEPT ![v] = @ \cup seen]
        /\ Self \in seen => readyData' = v
        /\ q \in seen /\ q # Self => From("READY", q, v) \in received

\* READY needs a quorum of echoes, or the READYs of more than t others.
DecideReady(v) ==
    \/ readyData' = readyData
    \/ /\ readyData = NoData
       /\ readyData' = v
       /\ \/ Cardinality(echoes'[v]) >= EchoQuorum
          \/ Cardinality(readies'[v] \ {Self}) > Tolerated

Send(v) ==
    \E types \in SUBSET {"ECHO", "READY"} :
        /\ sent' = sent \cup [type: types, nodeId: {Self}, data: {v}]
        /\ "READY" \in types => readyData' = v
        /\ "ECHO" \in types => Asked(v)

CommitOnce(v) ==
    \/ log' = log
    \/ /\ log = <<>>
       /\ log' = <<v>>
       /\ Cardinality(readies'[v]) > 2 * Tolerated

Handle(q, v) ==
    /\ received' = received
    /\ CountEchoes(q, v)
    /\ CountReadies(q, v)
    /\ DecideReady(v)
    /\ Send(v)
    /\ CommitOnce(v)

Next == Receive \/ \E q \in Node, v \in Data : Handle(q, v)

Spec == Init /\ [][Next]_vars
=============================================================================
