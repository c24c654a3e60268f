------------------------------- MODULE Datagrams -------------------------------
(* From a message object to the datagram and back: the encoders of the     *)
(* node and of the Python client, the receive buffer, the parsers and the  *)
(* tasks they post.                                                        *)
(*                                                                         *)
(* A datagram is a sequence of cells.  A cell is an integer of the header  *)
(* (1, 2 or 8 bytes on the wire, least significant byte first on both      *)
(* sides) or a byte of the payload; lengths count cells.  A cut inside an  *)
(* integer is as good as one before it: both leave the header too short.   *)
(* No datagram is long enough for the 16 bits of a length in a packet to   *)
(* wrap around.                                                            *)
EXTENDS Naturals, Sequences, SequencesExt, FiniteSets

CONSTANTS
    Message,      \* the messages clients and nodes may send
    Cell,         \* what a cell behind the buffer may hold
    MAX_LENGTH,   \* length of the receive buffer
    MaxSent       \* bound on the datagrams sent

SEND == 0
ECHO_MESSAGE == 1
READY == 2
PACKET == 3
SIZE == 4

ASSUME DatagramsAssumption ==
    /\ Message \subseteq [type: SEND..READY, chain: Nat, client: Nat, nonce: Nat,
                          node: Nat, data: Seq(Nat)]
    /\ Cell \subseteq Nat /\ MAX_LENGTH \in Nat /\ MaxSent \in Nat

\* What parse returns for a buffer it refuses.
NullPtr == [type |-> SIZE]

VARIABLES
    sent,       \* datagrams sent: the message, its form and its cells
    received,   \* those of them that were received
    buffer,     \* mBuffer
    tasks,      \* parsed objects posted to the io_service
    processed   \* messages given to asyncProcessMessage

vars == <<sent, received, buffer, tasks, processed>>

-----------------------------------------------------------------------------
Encode(m) == <<m.type, m.chain, m.client, m.nonce, m.node>> \o m.data

(* A packet of messages: their count, their lengths, the messages.         *)
EncodePacket(messages) ==
    LET bodies == [i \in DOMAIN messages |-> Encode(messages[i])]
    IN  <<PACKET, Len(messages)>> \o [i \in DOMAIN bodies |-> Len(bodies[i])] \o FlattenSeq(bodies)

\* Message.encode of the Python client; its node id is 0.
ClientEncode(m) == <<m.type, m.chain, m.client, m.nonce, 0>> \o m.data

-----------------------------------------------------------------------------
\* Slip: a payload is needed.
ParseNonEmpty(memory, first, last) ==
    IF first + 5 > last
    THEN NullPtr
    ELSE [type |-> memory[first], chain |-> memory[first + 1],
          client |-> memory[first + 2], nonce |-> memory[first + 3],
          node |-> memory[first + 4], data |-> SubSeq(memory, first + 5, last)]

(* Message's constructor, for the cells from first to last.                *)
ParseMessage(memory, first, last) ==
    IF first + 4 > last
    THEN NullPtr
    ELSE [type |-> memory[first], chain |-> memory[first + 1],
          client |-> memory[first + 2], nonce |-> memory[first + 3],
          node |-> memory[first + 4], data |-> SubSeq(memory, first + 5, last)]

(* PacketMessage's constructor; "inner" is parse, for a message of the     *)
(* packet.  That it begins inside the buffer is tested, that it ends there *)
(* is not.                                                                 *)
ParsePacket(memory, first, last, inner) ==
    LET count == memory[first + 1]
        lengths == SubSeq(memory, first + 2, first + 1 + count)
        start[i \in 1..count] ==
            IF i = 1 THEN first + 2 + count ELSE start[i - 1] + lengths[i - 1]
    IN  IF first + 1 > last \/ first + 1 + count > last \/ \E i \in 1..count : start[i] > last
        THEN NullPtr
        ELSE [type |-> PACKET,
              messages |-> [i \in 1..count |-> inner[<<start[i], start[i] + lengths[i] - 1>>]]]

(* AbstractMessage::parse: the first cell chooses the constructor.         *)
Parse(memory, first, last, inner) ==
    IF first > last THEN NullPtr
    ELSE IF memory[first] <= READY THEN ParseMessage(memory, first, last)
    ELSE IF memory[first] = PACKET THEN ParsePacket(memory, first, last, inner)
    ELSE NullPtr

(* Packets may be nested: Parser(memory)[k] parses up to k of them one      *)
(* inside the other, and memory has no room for more than it has cells.*)
Parser(memory) ==
    LET parser[depth \in Nat] ==
            [at \in Nat \X Nat |->
                IF depth = 0 THEN NullPtr
                ELSE Parse(memory, at[1], at[2], parser[depth - 1])]
    IN  parser
ParseAny(memory, first, last) == Parser(memory)[Len(memory)][<<first, last>>]

-----------------------------------------------------------------------------
Init ==
    /\ sent = {} /\ received = {}
    /\ buffer = [i \in 1..MAX_LENGTH |-> 0]
    /\ tasks = {} /\ processed = {}

\* UdpClient.send
ClientSend(m) ==
    /\ m.type = SEND /\ m.node = 0
    /\ sent' = sent \cup {[message |-> m, form |-> "client", cells |-> ClientEncode(m)]}

(* The task of PacketManager::asyncBroadcast: rand() chooses the form.     *)
Broadcast(m) ==
    /\ m.type \in {ECHO_MESSAGE, READY}
    /\ \/ sent' = sent \cup {[message |-> m, form |-> "plain", cells |-> Encode(m)]}
       \/ sent' = sent \cup {[message |-> m, form |-> "packet", cells |-> EncodePacket(<<m>>)]}

Send ==
    /\ Cardinality(sent) < MaxSent
    /\ \E m \in Message : ClientSend(m) \/ Broadcast(m)
    /\ UNCHANGED <<received, buffer, tasks, processed>>

\* Slip: the whole buffer is parsed, not the part that was received.
FilledAll(d) == MAX_LENGTH

Filled(d) == IF Len(d.cells) <= MAX_LENGTH THEN Len(d.cells) ELSE MAX_LENGTH

(* The main thread parses the buffer before it waits for the next datagram.*)
(* Behind the received cells the buffer holds those of earlier datagrams,  *)
(* and behind the buffer there may be anything.                            *)
Receive(d) ==
    /\ received' = received \cup {d}
    /\ buffer' = [i \in 1..MAX_LENGTH |-> IF i <= Len(d.cells) THEN d.cells[i] ELSE buffer[i]]
    /\ \E beyond \in [1..3 -> Cell] :
           LET parsed == ParseAny(buffer' \o beyond, 1, Filled(d))
           IN  tasks' = IF parsed = NullPtr THEN tasks ELSE tasks \cup {parsed}
    /\ UNCHANGED <<sent, processed>>

\* Slip: a packet is passed on as it is.
RunTaskUnwrapped(task) ==
    /\ tasks' = tasks \ {task} /\ processed' = processed \cup {task}
    /\ UNCHANGED <<sent, received, buffer>>

(* An io_service thread runs a task; for a packet it posts one per message.*)
RunTask(task) ==
    /\ IF task.type = PACKET
       THEN tasks' = (tasks \ {task}) \cup Range(task.messages) /\ UNCHANGED processed
       ELSE tasks' = tasks \ {task} /\ processed' = processed \cup {task}
    /\ UNCHANGED <<sent, received, buffer>>

Next ==
    \/ Send
    \/ \E d \in sent : Receive(d)
    \/ \E task \in tasks : RunTask(task)

Spec == Init /\ [][Next]_vars

-----------------------------------------------------------------------------
TypeOK ==
    /\ \A d \in sent : d.message \in Message /\ d.form \in {"client", "plain", "packet"}
    /\ received \subseteq sent
    /\ buffer \in [1..MAX_LENGTH -> Nat]
    /\ \A task \in tasks \cup processed : task.type \in SEND..PACKET
    /\ processed \cap {task \in processed : task.type = PACKET} = {}

Fits(d) == Len(d.cells) <= MAX_LENGTH

(* Condition: the longest message fits the buffer in a packet.             *)
PacketsFit == \A m \in Message : Len(EncodePacket(<<m>>)) <= MAX_LENGTH

(* What is processed was sent, and every field of it arrived as it was, in *)
(* whichever form it came and whatever the buffer held before (PacketsFit: *)
(* a message that is cut is processed as a shorter one).                   *)
ProcessedWasSent == \A m \in processed : \E d \in received : d.message = m

(* Of the datagrams that fit nothing is lost on the way to the session.    *)
ReceivedIsProcessed ==
    tasks = {} => \A d \in received : Fits(d) => d.message \in processed

=============================================================================
