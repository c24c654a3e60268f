---------------------------- MODULE MCDeployments ----------------------------
(* The chain of four nodes that the repository's scripts configure.        *)
EXTENDS ReliableBroadcast

CONSTANTS n1, n2, n3, n4, v1, v2

\* generate_conf lists the other machines only: "if n != nn".
GeneratedConfig == [n \in Node |-> Node \ {n}]

AllNodes == [v \in Data |-> Node]
=============================================================================
