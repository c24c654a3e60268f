------------------------------- MODULE MCTesters -------------------------------
(* Instances of Testers.                                                   *)
EXTENDS Testers

CONSTANTS n1, n2

\* With an entry too many, the last iteration is one message shorter.
Few == extras > 0 /\ iteration = Iterations => total < MaxSends
=============================================================================
