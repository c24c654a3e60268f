-------------------------- MODULE MCReliableBroadcast --------------------------
(* Instances of ReliableBroadcast with a complete chain config on every    *)
(* node and no more faulty nodes than t.                                   *)
EXTENDS ReliableBroadcast, TLC

CONSTANTS n1, n2, n3, n4, v1, v2

ASSUME InstanceWithinBounds == CompleteConfig /\ FewFaulty

FullConfig == [n \in Node |-> Node]

\* A faulty node talks to n1 and n3 only (it need not list every peer).
FaultyTalksToTwo == [n \in Node |-> IF n \in Faulty THEN {n1, n3} ELSE Node]

\* A faulty node sends nothing.
FaultySilent == [n \in Node |-> IF n \in Faulty THEN {} ELSE Node]

AllNodes == [v \in Data |-> Node]

\* Two clients in one session; their SENDs reach different nodes.
SplitClients == [v \in Data |-> IF v = v1 THEN {n1, n2} ELSE {n2, n3}]

NodeSymmetry == Permutations(Correct)
=============================================================================
