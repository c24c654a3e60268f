----------------------------- MODULE BroadcastSpec -----------------------------
(***************************************************************************)
(* What one session of the broadcast promises to whoever reads the nodes'  *)
(* Redis lists: each party appends at most one payload, all parties that   *)
(* append anything append the same one, and it is one a client sent.       *)
(***************************************************************************)
EXTENDS Sequences

CONSTANTS Party, Data

VARIABLES
    requested,   \* the payloads clients have sent
    log          \* log[p]: the payloads party p has appended to its list

vars == <<requested, log>>

Init ==
    /\ requested = {}
    /\ log = [p \in Party |-> <<>>]

Request(v) ==
    /\ requested' = requested \cup {v}
    /\ UNCHANGED log

(* A party commits v if it has not committed yet and v is what the others  *)
(* committed, if they did.                                                 *)
Commit(p, v) ==
    /\ log[p] = <<>>
    /\ v \in requested
    /\ \A q \in Party : log[q] \in {<<>>, <<v>>}
    /\ log' = [log EXCEPT ![p] = <<v>>]
    /\ UNCHANGED requested

Next ==
    \/ \E v \in Data : Request(v)
    \/ \E p \in Party, v \in Data : Commit(p, v)

Spec == Init /\ [][Next]_vars

=============================================================================
