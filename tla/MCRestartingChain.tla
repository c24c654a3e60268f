--------------------------- MODULE MCRestartingChain ---------------------------
(* The smallest chain with t = 1, of which one node restarts.              *)
EXTENDS RestartingChain

CONSTANTS n1, n2, n3, n4, v1, v2

FullConfig == [n \in Node |-> Node]

\* Two clients in one session; their SENDs reach different nodes.
SplitClients == [v \in Data |-> IF v = v1 THEN {n1, n2, n4} ELSE {n2, n3, n4}]

\* What is sent over other links is lost.  n4, which restarts, may READY the
\* one payload before and commit the other after it, or commit twice.
Links == [n \in Node |-> CASE n = n1 -> {n2, n4}
                           [] n = n2 -> {n3, n4}
                           [] n = n3 -> {n4}
                           [] n = n4 -> {n2, n3}]

ASSUME InstanceWithinBounds ==
    TightSize /\ Cardinality(Faulty \cup Restarting) <= GetT(Cardinality(Node))
=============================================================================
