---------------------------- MODULE MCNodeRestarts ----------------------------
(* Instances of NodeRestarts: four nodes, so t = 1 and 3 READYs commit.    *)
EXTENDS NodeRestarts, TLC

CONSTANTS n1, n2, n3, n4, v1, v2

Symmetry == Permutations({n2, n3, n4}) \cup Permutations(Data)
=============================================================================
