-------------------------------- MODULE Testers --------------------------------
(* The testers of src/client: they send messages to all nodes and read     *)
(* their Redis lists, once per iteration.  ConsistencyTester counts the    *)
(* messages that are "good" (on every node), "partial" (on some) or lost;  *)
(* QueueSizeTester plots how many are still on their way.                  *)
(*                                                                         *)
(* Everything runs in one asyncio loop.  Between two awaits nothing else   *)
(* happens, so what a coroutine does there is one step: a send with its    *)
(* on_send, and the handling of a whole round of answers.  The listener    *)
(* asks every node for one entry and goes on when all of them answered.    *)
(* Tester.test awaits only while it is ahead of its rate: behind it, it    *)
(* sends on and on, and the loop is held.                                  *)
EXTENDS Integers, Sequences, FiniteSets, Functions

CONSTANTS
    Node,        \* the nodes whose lists are read
    Iterations,  \* iterations of the test
    MaxSends,    \* bound on the messages of one iteration
    MaxExtras,   \* bound on what nodes append that they should not
    Foreign,     \* a text that no tester sends
    Nothing      \* a blpop that has not been answered

ASSUME TesterAssumption ==
    /\ IsFiniteSet(Node) /\ Node # {}
    /\ Iterations \in Nat \ {0} /\ MaxSends \in Nat \ {0}
    /\ MaxExtras \in Nat
    /\ Foreign \notin (1..Iterations) \X (1..MaxSends)
    /\ Nothing \notin (1..Iterations) \X (1..MaxSends) /\ Nothing # Foreign

VARIABLES
    lists,       \* lists[n]: what is on the Redis list of node n
    appended,    \* appended[n]: all that n has ever put there
    extras,      \* how often a node put there what it should not
    popped,      \* popped[n]: the answer to the listener's blpop on n
    tester,      \* which of the two it is
    phase,       \* what Tester.test is doing
    held,        \* it has not awaited since its last send
    iteration,   \* iter_number, from 1
    messages,    \* messages: nodes that delivered, for each message that is
                 \* not on all of them yet
    total,       \* total_messages_count
    good,        \* ConsistencyTester.good
    events,      \* QueueSizeTester.events: 1 for a send, -1 for a message that
                 \* is everywhere, 0 for the stop
    results      \* get_result of the iterations that ended

cluster == <<lists, appended, extras>>
counts == <<messages, total, good, events>>
vars == <<tester, cluster, popped, phase, held, iteration, counts, results>>

\* The string generator makes every message different.
Msg == (1..Iterations) \X (1..MaxSends)
IterationOf(m) == m[1]

Entry == Msg \cup {Foreign}

TypeOK ==
    /\ lists \in [Node -> Seq(Entry)]
    /\ appended \in [Node -> SUBSET Entry] /\ extras \in 0..MaxExtras
    /\ popped \in [Node -> Entry \cup {Nothing}]
    /\ tester \in {"consistency", "queue"} /\ held \in BOOLEAN
    /\ phase \in {"sending", "waiting", "ended"}
    /\ iteration \in 1..Iterations
    /\ DOMAIN messages \subseteq Msg /\ \A m \in DOMAIN messages : messages[m] \subseteq Node
    /\ total \in 0..MaxSends /\ good \in 0..MaxSends
    /\ events \in Seq({-1, 0, 1}) /\ Len(events) <= 2 * MaxSends + 1
    /\ Len(results) \in {iteration, iteration - 1}
    /\ tester = "consistency" => results \in Seq([good: Nat, partial: Nat, lost: Nat])

Init ==
    /\ lists = [n \in Node |-> <<>>]
    /\ appended = [n \in Node |-> {}] /\ extras = 0
    /\ popped = [n \in Node |-> Nothing]
    /\ tester \in {"consistency", "queue"}
    /\ phase = "sending" /\ held = FALSE /\ iteration = 1
    /\ messages = <<>> /\ total = 0 /\ good = 0 /\ events = <<>>
    /\ results = <<>>

WasSent(m) ==
    \/ IterationOf(m) < iteration
    \/ IterationOf(m) = iteration /\ m[2] <= total

-----------------------------------------------------------------------------
PutOnList(n, e) ==
    /\ lists' = [lists EXCEPT ![n] = Append(@, e)]
    /\ appended' = [appended EXCEPT ![n] = @ \cup {e}]
    /\ UNCHANGED <<tester, popped, phase, held, iteration, counts, results>>

(* A node appends a message it was sent, for the first time; it may also   *)
(* never do so.                                                            *)
NodeAppends(n, m) ==
    /\ WasSent(m) /\ m \notin appended[n]
    /\ PutOnList(n, m)
    /\ UNCHANGED extras

(* It repeats a message, as after a restart (cf. NodeRestarts), or appends *)
(* one before it is sent, or what is never sent.                           *)
NodeAppendsMore(n, e) ==
    /\ extras < MaxExtras
    /\ PutOnList(n, e)
    /\ extras' = extras + 1

Logged(type) == IF tester = "queue" THEN Append(events, type) ELSE events

(* One turn of the loop of Tester.test: the client's send, on_send, and    *)
(* the sleep, if more was sent than the rate asks for.                     *)
SendMessage ==
    /\ phase = "sending" /\ total < MaxSends
    /\ total' = total + 1
    /\ messages' = [m \in DOMAIN messages \cup {<<iteration, total'>>} |->
                       IF m \in DOMAIN messages THEN messages[m] ELSE {}]
    /\ events' = Logged(1)
    /\ held' \in BOOLEAN
    /\ UNCHANGED <<tester, cluster, popped, phase, iteration, good, results>>

(* The test's duration is over: on_stop_sending.                           *)
StopSending ==
    /\ phase = "sending" /\ total > 0
    /\ phase' = "waiting"
    /\ events' = Logged(0)
    /\ UNCHANGED <<tester, cluster, popped, held, iteration, messages, total, good, results>>

(* completion_time has not passed since the last delivery: it sleeps.      *)
WaitForCompletion ==
    /\ phase = "waiting" /\ held
    /\ held' = FALSE
    /\ UNCHANGED <<tester, cluster, popped, phase, iteration, counts, results>>

Partial == Cardinality({m \in DOMAIN messages : messages[m] # {}})

\* queue_size after the first i events.
QueueSize(log) ==
    LET size[i \in 0..Len(log)] == IF i = 0 THEN 0 ELSE size[i - 1] + log[i]
    IN  size

\* queue_sizes and times: the size after each event but the stop.
QueueSizes(log) == [i \in {j \in 1..Len(log) : log[j] # 0} |-> QueueSize(log)[i]]

Result ==
    IF tester = "consistency"
    THEN [good |-> good, partial |-> Partial, lost |-> total - (good + Partial)]
    ELSE [sizes |-> QueueSizes(events)]

\* Slip: on_test_start does not reset good.
EndTestKeepingGood ==
    /\ phase = "waiting"
    /\ results' = Append(results, Result)
    /\ IF iteration < Iterations
       THEN /\ phase' = "sending" /\ iteration' = iteration + 1
            /\ messages' = <<>> /\ total' = 0 /\ events' = <<>>
       ELSE /\ phase' = "ended"
            /\ UNCHANGED <<iteration, messages, total, events>>
    /\ held' = FALSE
    /\ UNCHANGED <<tester, cluster, popped, good>>

\* Slip: on_test_start keeps the messages of the last iteration.
EndTestKeepingMessages ==
    /\ phase = "waiting"
    /\ results' = Append(results, Result)
    /\ IF iteration < Iterations
       THEN /\ phase' = "sending" /\ iteration' = iteration + 1
            /\ total' = 0 /\ good' = 0 /\ events' = <<>>
            /\ UNCHANGED messages
       ELSE /\ phase' = "ended"
            /\ UNCHANGED <<iteration, counts>>
    /\ held' = FALSE
    /\ UNCHANGED <<tester, cluster, popped>>

(* completion_time has passed since the last delivery that was handled,    *)
(* which may be before the last message was sent: get_result, and the next *)
(* iteration's on_test_start.  Between them the loop runs.                 *)
EndTest ==
    /\ phase = "waiting"
    /\ results' = Append(results, Result)
    /\ IF iteration < Iterations
       THEN /\ phase' = "sending" /\ iteration' = iteration + 1
            /\ messages' = <<>> /\ total' = 0 /\ good' = 0 /\ events' = <<>>
       ELSE /\ phase' = "ended"
            /\ UNCHANGED <<iteration, counts>>
    /\ held' = FALSE
    /\ UNCHANGED <<tester, cluster, popped>>

(* The blpop on node n is answered.                                        *)
Pop(n) ==
    /\ popped[n] = Nothing /\ lists[n] # <<>>
    /\ popped' = [popped EXCEPT ![n] = Head(lists[n])]
    /\ lists' = [lists EXCEPT ![n] = Tail(@)]
    /\ UNCHANGED <<tester, appended, extras, phase, held, iteration, counts, results>>

\* Slip: one node may be missing.
CompleteEarly(nodes) == Cardinality(nodes) + 1 >= Cardinality(Node)

\* Slip: no count is ever enough.
CompleteBeyond(nodes) == Cardinality(nodes) > Cardinality(Node)

Complete(nodes) == Cardinality(nodes) = Cardinality(Node)

CountGood(done) == good' = good + Cardinality(done) /\ UNCHANGED events

LogDelivered(done) == events' = events \o [i \in 1..Cardinality(done) |-> -1] /\ UNCHANGED good

(* asyncio.wait returns when every task is done.  on_delivery is called    *)
(* for each answer; a message that is on every node leaves "messages", one *)
(* that is not there is printed as not sent, and a second copy from a node *)
(* as a repeat.                                                            *)
HandleRound ==
    LET new(m) == {n \in Node : popped[n] = m}
        seen == [m \in DOMAIN messages |-> messages[m] \cup new(m)]
        done == {m \in DOMAIN messages : Complete(seen[m])}
    IN  /\ ~held /\ \A n \in Node : popped[n] # Nothing
        /\ messages' = Restrict(seen, DOMAIN messages \ done)
        /\ IF tester = "consistency" THEN CountGood(done) ELSE LogDelivered(done)
        /\ popped' = [n \in Node |-> Nothing]
        /\ UNCHANGED <<tester, cluster, phase, held, iteration, total, results>>

ListenerStep == HandleRound \/ \E n \in Node : Pop(n)

Next ==
    \/ \E n \in Node, m \in Msg : NodeAppends(n, m)
    \/ \E n \in Node, e \in Entry : NodeAppendsMore(n, e)
    \/ SendMessage
    \/ StopSending
    \/ WaitForCompletion
    \/ EndTest
    \/ ListenerStep

Spec == Init /\ [][Next]_vars

(* The listener's coroutine is scheduled whenever an answer has come and   *)
(* the loop is free; a loop that is held in the wait is freed.             *)
FairSpec == Spec /\ WF_vars(ListenerStep) /\ WF_vars(WaitForCompletion)

-----------------------------------------------------------------------------
Everywhere(i) == {m \in Msg : IterationOf(m) = i /\ \A n \in Node : m \in appended[n]}
Somewhere(i) == {m \in Msg : IterationOf(m) = i /\ \E n \in Node : m \in appended[n]}

\* The result of iteration i, as it is now if i is the current one.
Reported(i) == IF i <= Len(results) THEN results[i] ELSE Result

(* The tester errs towards loss only: what it calls good is on every node, *)
(* and what it calls good or partial is on some node, although answers of  *)
(* one iteration are handled in the next, rounds mix messages, and nodes   *)
(* repeat messages and make some up.                                       *)
ErrsTowardsLoss ==
    tester = "consistency" => \A i \in 1..iteration :
        /\ Reported(i).good <= Cardinality(Everywhere(i))
        /\ Reported(i).good + Reported(i).partial <= Cardinality(Somewhere(i))

(* The plot of the queue is never below what is really on its way: at each *)
(* point it is the number of messages sent and not yet seen everywhere, so *)
(* that a late delivery of an iteration before makes it no smaller.        *)
QueueNeverTooSmall ==
    tester = "queue" =>
        LET size == QueueSize(events)
            last == size[Len(events)]
        IN  /\ \A i \in 0..Len(events) : size[i] >= 0
            /\ last = Cardinality(DOMAIN messages)
            /\ last >= total - Cardinality(Everywhere(iteration))

(* When every node has appended all that was sent, and nothing else, the   *)
(* listener's rounds lead to a full count, in whatever order the lists     *)
(* are, unless the test does not wait for it.  An entry too many on one    *)
(* node and the last message may wait for the other nodes for ever.        *)
FullCount ==
    (/\ phase = "waiting" /\ extras = 0
     /\ \A n \in Node : \A m \in Msg : WasSent(m) => m \in appended[n])
        ~> (messages = <<>> \/ phase # "waiting" \/ extras # 0)

=============================================================================
