---------------------------- MODULE MCNodeThreads ----------------------------
(* Instances of NodeThreads: four nodes, so t = 1, an echo quorum of 3 and *)
(* a commit on 3 READYs.  n1 is the node whose threads are modelled.       *)
EXTENDS NodeThreads, TLC

CONSTANTS n1, n2, n3, n4, v1, v2, t1, t2, d1, d2, d3, d4, d5, d6

Msg(type, q, v) == [type |-> type, nodeId |-> q, data |-> v]

\* Both quorums of v1 are filled, without a message to spare.
MixedContent ==
    [x \in Datagram |->
        CASE x = d1 -> Msg("SEND", n2, v1)
          [] x = d2 -> Msg("ECHO", n2, v1)
          [] x = d3 -> Msg("ECHO", n3, v1)
          [] x = d4 -> Msg("READY", n2, v1)
          [] x = d5 -> Msg("READY", n3, v1)]

\* Two payloads compete for the session's one READY: an echo quorum of v1 and
\* READYs of v2, one more than the commit needs.
RacingContent ==
    [x \in Datagram |->
        CASE x = d1 -> Msg("SEND", n2, v1)
          [] x = d2 -> Msg("ECHO", n2, v1)
          [] x = d3 -> Msg("ECHO", n3, v1)
          [] x = d4 -> Msg("READY", n2, v2)
          [] x = d5 -> Msg("READY", n3, v2)
          [] x = d6 -> Msg("READY", n4, v2)]

ThreadSymmetry == Permutations(Thread)
=============================================================================
