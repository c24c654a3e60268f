---------------------------- MODULE RestartingChain ----------------------------
(* The chain of ReliableBroadcast, some of whose nodes stop and start      *)
(* again.  The session of a node that restarts is lost and is made anew by *)
(* the first message that comes; the node may then ECHO, broadcast READY   *)
(* and commit in it once more.  Its Redis list stays.                      *)
(*                                                                         *)
(* The network may repeat datagrams, and a faulty node may send them again *)
(* (in NodeRestarts neither happens).                                      *)
EXTENDS ReliableBroadcast

CONSTANTS
    Restarting,   \* the nodes that may restart
    MaxRestarts   \* bound on the restarts explored

ASSUME RestartAssumption ==
    /\ Restarting \subseteq Correct
    /\ MaxRestarts \in Nat

VARIABLE restarts

chainVars == <<vars, restarts>>

Steady == Correct \ Restarting

ChainTypeOK == TypeOK /\ restarts \in 0..MaxRestarts

ChainInit == Init /\ restarts = 0

(* What node n may have sent in a handler that does not come to its end.   *)
SendsReady(n, v) ==
    /\ readyData[n] = NoData
    /\ \/ v \in requested /\ n \in ClientNodes[v] /\ EchoQuorumWith(n, n, v)
       \/ \E q \in Node : Receivable(n, "ECHO", q, v) /\ EchoQuorumWith(n, q, v)
       \/ \E q \in Node : Receivable(n, "READY", q, v) /\ Amplifies(n, readies[n][v] \cup {q})

MaySend(n, types, v) ==
    /\ "ECHO" \in types => v \in requested /\ n \in ClientNodes[v]
    /\ "READY" \in types => SendsReady(n, v)

Forget(n) ==
    /\ echoes' = [echoes EXCEPT ![n] = [v \in Data |-> {}]]
    /\ readies' = [readies EXCEPT ![n] = [v \in Data |-> {}]]
    /\ readyData' = [readyData EXCEPT ![n] = NoData]
    /\ delivered' = [delivered EXCEPT ![n] = FALSE]

(* The process ends at any point and is started again.  When it ends in a  *)
(* handler, messages have been sent that the handler would count; a commit *)
(* is not made.                                                            *)
Restart(n) ==
    /\ restarts < MaxRestarts
    /\ restarts' = restarts + 1
    /\ \E types \in SUBSET MessageType, v \in Data :
          MaySend(n, types, v) /\ Broadcast(n, types, v)
    /\ Forget(n)
    /\ UNCHANGED <<requested, log>>

ChainNext ==
    \/ Next /\ UNCHANGED restarts
    \/ \E n \in Restarting : Restart(n)

ChainSpec == ChainInit /\ [][ChainNext]_chainVars

-----------------------------------------------------------------------------
(* The steady nodes cannot tell a node that restarts from a faulty one:    *)
(* what they do is what ReliableBroadcast allows them with all of those    *)
(* nodes faulty, so that whatever holds there holds of them.               *)
Of(f) == [n \in Steady |-> f[n]]
SteadyChain == INSTANCE ReliableBroadcast WITH
    Faulty <- Faulty \cup Restarting, wire <- {m \in wire : m.nodeId \in Steady},
    echoes <- Of(echoes), readies <- Of(readies), readyData <- Of(readyData),
    delivered <- Of(delivered), log <- Of(log)
SteadyNodesKeepSpec == SteadyChain!Spec

(* No list, not even that of a node that restarted, has a payload that     *)
(* differs from any other's, and a list gets it once as long as its node   *)
(* keeps its memory.                                                       *)
AgreementAcrossRestarts ==
    /\ \A n \in Steady : Len(log[n]) <= 1
    /\ \A m, n \in Correct : \A i \in DOMAIN log[m], j \in DOMAIN log[n] :
          log[m][i] = log[n][j]

(* The quorums of READYs of two nodes share a steady node.                 *)
QuorumsShareSteady ==
    \A m, n \in Correct :
        DeliverThreshold(T(m)) + DeliverThreshold(T(n)) + 2
            > Cardinality(Node) + Cardinality(Faulty \cup Restarting)
=============================================================================
