# Verification of the reliable broadcast

TLA+ modules, TLC configurations and TLAPS proofs about the program in `src/`:
a Bracha-style reliable broadcast in C++ that nodes of a chain run over UDP,
with Python clients, testers and configuration scripts around it. Paths below
are relative to `src/`, so `src/session.cpp` is the file `src/src/session.cpp`
of this repository's tree as `PROJECT.json` names it.

## 1. Inventory

### 1.1 The protocol

A client sends `data` in a SEND message, under its id and a nonce, to every
node it knows (`client/udp_client.py`). A node that receives it broadcasts ECHO;
a node that has counted `ceil((n + t + 1) / 2)` ECHOs, or more than `t` READYs,
broadcasts READY; a node that has counted more than `2 * t` READYs commits, i.e.
appends the data to a Redis list named after the chain. `n` is the number of
entries in the chain's configuration file, `t` the largest number with
`3 * t < n`. Messages of one (chain, client id, nonce) form a *session*; a
session object counts, per payload, the distinct node ids it has seen.

### 1.2 Components

| Component | Source | State | Operations |
|---|---|---|---|
| Session | `src/session.cpp`, `session.h` | `n`, `t`, `mEchoMessageCountTarget` (constant once created), `mEchoMessageCounter`, `mReadyMessageCounter` (payload -> set of ids, a mutex each), atomics `mReadyMessageWasSent`, `mDelivered` | `processMessage` for SEND, ECHO, READY |
| Thresholds | `src/session.cpp:166-179` | none | `getT`, `getEchoMessageCountTarget` |
| ReliableBroadcast | `src/reliablebroadcast.cpp` | io_service, Redis client | `start`, `processMessage`, `broadcast`, `deliver`, `asyncProcessMessage`, `connectToRedis` |
| SessionsPool | `src/reliablebroadcast.cpp:151-222`, `threadsafequeue.h` | `mSessions`, `mRemoveQueue`, removing thread | `getOrCreateSession`, `removeSession`, `removeLoop` |
| PacketManager, messages | `src/packet_manager.cpp`, `packet_message.cpp`, `message.cpp`, `abstract_message.cpp` | none; message objects are shared by pointer | parse, encode, `asyncProcess`, `asyncBroadcast` |
| SocketController | `src/socket_controller.cpp` | one UDP socket, one receive buffer of 2048 bytes | `asyncSend`, `listen` |
| NodeConfig, ChainConfig | `src/node_config.cpp`, `chain_config.cpp`, `main.cpp` | own id, map from chain hash to its nodes, a shared mutex | `readChainConfigs` (start, SIGHUP), `getChainConfig`, `setChainConfig` |
| Clients and testers | `client/*.py` | nonce; `messages`, counts and events of an iteration; one listener | send to all; pop the nodes' lists in rounds; count what is on all lists (`ConsistencyTester`), or plot what is still on its way (`QueueSizeTester`) |
| Inventory script | `ops/ansible/ec2.py` | inventory, index, credentials, Route53 records in memory; two cache files on disk | list all hosts, answer for one host, refresh the cache |
| Process manager | `process_manager/*.py` | named pipes, config files | write configs (`write_json`), signal the daemon |
| Router | `router/` | sockets, pipes | an earlier transport; does not compile against the present `src/` and is commented out in the deployment |
| Deployment | the rest of `ops/` | generated configurations | playbooks, docker, terraform, `tests/generate_configs.py` |
| Cap'n Proto schema | `capnproto/` | none | generated, used by nothing |

### 1.3 How they interact

The main thread runs the socket's io_service: `onReceive` parses the bytes in
the shared buffer and posts a task to the second io_service, which
`hardware_concurrency()` threads run. That task posts another
(`asyncProcessMessage`), which looks the session up in the pool, or creates it,
and calls `Session::processMessage`. From there on everything is nested calls on
one thread: `Session::processMessage` -> `ReliableBroadcast::broadcast` (changes
the message object *in place*, posts a send task that holds the same object) ->
`ReliableBroadcast::processMessage` with that object, now the node's own ECHO
or READY -> the same session -> possibly another broadcast, and finally
`deliver`. A send task encodes the object when some thread gets to it and sends
the bytes to every entry of the chain configuration but the node itself. On
SIGHUP the thread the signal is given to, in the signal handler, reads the chain
configurations again. (`process_manager/send_signal.py` sends SIGPOLL, which the
node does not handle.)

A tester sends its messages to all nodes and pops the nodes' Redis lists in
rounds of one entry per node. It runs in one asyncio loop; while it is behind its
rate it does not await, so that answers wait.

Ansible runs the inventory script once per play and once more per `--host`. A run
asks the AWS services region by region, enters what it gets into groups, an index
(host -> region and identifier) and host variables, writes the inventory to one
file and the index to another, and answers. A later run reads these files instead
while they are young enough; runs that overlap share them without a lock.

### 1.4 What is hard here

* Handlers of one session on several threads: flags are tested without a lock,
  counts are taken under one mutex and used after it, exchanges decide who
  acts; the pool creates sessions with a look-up that is repeated under
  another lock.
* A message object that is retyped while a posted task has still to encode it.
* Payloads that compete within one session: nothing makes a node echo one
  payload only.
* UDP: loss, repetition and reordering; nothing is ever sent again.
* Up to `t` nodes that do not follow the protocol, and rounding in the
  thresholds that the quorum intersection hangs on.
* Configurations that disagree, leave the node out, or change while sessions
  live.
* Redis that is away when a message is to be committed; sessions that live in
  memory only while the committed list survives a restart.
* A tester whose answers of one iteration are handled in the next, because the
  loop is held while it sends.
* Two cache files that belong together, written one after the other by runs that
  may overlap, fail or be killed, of a cloud that changes between two calls.

`PROJECT.json` lists each hazard at its line with the properties about it.

## 2. The modules

| Module | Models | Checked by |
|---|---|---|
| `Thresholds` | `getT`, `getEchoMessageCountTarget`, the commit threshold, on `size_t` | proofs; in use in `MCReliableBroadcast` and others |
| `ReliableBroadcast` | the nodes of one chain running one session; a handler is one step | `MCReliableBroadcast`, `MCDeployments` |
| `NodeThreads` | one node, its io_service threads, message objects, send tasks, session pool | `MCNodeThreads` |
| `NodeRestarts` | one node of the chain: its sessions' memory is lost at a restart, its Redis list is not; the Redis connection | `MCNodeRestarts` |
| `RestartingChain` | the chain of `ReliableBroadcast` with nodes that stop, forget their sessions and start again | `MCRestartingChain` |
| `ChainConfigs` | the chain configs of a node, their lock, the look-ups and the SIGHUP handler | `MCChainConfigs` |
| `Datagrams` | encoders, receive buffer, parsers, posted tasks | `MCDatagrams` |
| `Testers` | the Python testers and their Redis listener | `MCTesters` |
| `InventoryGroups` | pure: which resources the settings select, what a resource is called, its groups and variables | `MCEc2Inventory` |
| `Ec2Inventory` | the runs of the inventory script | `MCEc2Inventory` |
| `InventoryFiles` | what a cache file can hold | with the two around it |
| `BroadcastSpec` | abstract: what a session promises to readers of the lists | as `KeepsPromise` |
| `NodeContract` | abstract: what one node may do to one session | as `KeepsContract`, `NodesKeepContract` |
| `InventoryCache` | abstract: how runs of the script write the two cache files | as `FilesAreCache` |
| `ThresholdsProofs`, `ReliableBroadcastProofs` (with the node's contract and `RestartingChain`), `NodeThreadsProofs`, `NodeRestartsProofs`, `ChainConfigsProofs`, `DatagramsProofs`, `TestersProofs`, `Ec2InventoryProofs` (with its groups and files) | theorems | `tlapm` |

### 2.1 How the modules fit together

    BroadcastSpec            NodeContract
         ^                    ^        ^
         | KeepsPromise       |        | KeepsContract
         | (proved, TLC)      |        | (proved, TLC)
    ReliableBroadcast --------+     NodeThreads      NodeRestarts
         ^      NodesKeepContract          |              |
         |        (proved, TLC)            |              |
         | SteadyNodesKeepSpec             |              |
         | (proved, TLC)                   |              |
    RestartingChain                        |              |
         +---------- Thresholds -----------+--------------+

    InventoryCache <-------- Ec2Inventory ---- InventoryGroups
      (Paired proved) FilesAreCache (proved, TLC)

`ReliableBroadcast` treats a handler, with all its nested calls, as one step:
the program on one io_service thread. `NodeThreads` takes the handlers of one
node apart, down to single loads, exchanges and critical sections, for the
messages of one session. Both are shown to keep the same `NodeContract`: a node
counts only messages that came, decides READY and commits once and only when
its counters justify it, and sends only what was decided. The contract is what
a protocol-level argument needs to know of a node, and theorem `ContractsAgree`
is that argument: nodes that keep it agree, whatever runs inside them. Together
with `ThreadsKeepContract` it carries Agreement over to nodes of several threads;
that step, from one node in `NodeThreads` to each of the nodes of a chain, is made
here in words: the contract's `received` is any set of messages in the one and
what the others sent in the other.

Restarts are in two modules, which ask different things. `NodeRestarts` has the
handlers for one node whose environment are its peers' datagrams, which the network
does not repeat, so that what one life of the process has read is missing in the
next; what the peers send then bounds how often the node commits. A peer may send
READY twice by itself (a hazard of `reliablebroadcast.cpp:87`), and with `n = 4` one
that does is enough for a second commit after a restart. `RestartingChain` adds
the restart to the whole chain, where datagrams repeat and quorums of the others
count what a node sent in each of its lives; a list may then get a payload twice,
but no two payloads. The steady nodes' part of it is once more `ReliableBroadcast`,
with the nodes that restart in `Faulty`.

`ChainConfigs`, `Datagrams` and `Testers` stand on their own: the first gives
sessions their `n`, the second carries the messages whose handling the others
model, the third reads the lists. `Ec2Inventory` is about the machines all of it
is deployed on. It uses `InventoryGroups` for what is computed of a resource; its
steps on the files are those of `InventoryCache` (`InventoryWritesTheCache`), so that
what is proved of that module holds of the script.

### 2.2 Correspondence with the code

`ReliableBroadcast` (state of each correct node):

| Variable | Code |
|---|---|
| `requested` | payloads of SENDs that clients sent in this session |
| `wire` | ECHOs and READYs correct nodes have sent; it only grows |
| `echoes[n]`, `readies[n]` | `mEchoMessageCounter`, `mReadyMessageCounter` |
| `readyData[n]` | `mReadyMessageWasSent`, with the payload it was set for |
| `delivered[n]` | `mDelivered` |
| `log[n]` | what the node appended to its Redis list in this session |

`SessionNodes[n]` are the ids in the chain config `n` makes its session from,
which fixes `n`, `t` and the echo target for the session's life; `ChainNodes[n]`
adds those of configs loaded while it lives, since `asyncBroadcast` asks for the
config anew whenever it sends. They differ only across a reload.

`HandleSend`, `HandleEcho` and `HandleReady` are the three branches of
`Session::processMessage` (`session.cpp:54-104`) with `broadcast`
(`reliablebroadcast.cpp:74-96`) inlined. In `HandleSend` the third disjunct is
the case where the node's own ECHO completes the quorum: the object becomes
READY before or after the posted ECHO task is run, so what that task sends is
either.

`NodeThreads` (one node): `posted` and `sendTasks` are the io_service's tasks,
`message` the mutable part of each message object, `pool` the entry of
`mSessions`, `counters` the session objects that were made, `thread` where each
thread is in `processMessage` and the `count` it holds. A READY handler that
broadcasts keeps its count in `interrupted` while the nested call runs. One
step is one atomic access or one critical section; `session.cpp` line by line:

| Action | Lines |
|---|---|
| `GetSession`, `AddSession` | `reliablebroadcast.cpp:198-206`, `168-181` |
| `HandleSend`, `HandleEcho`, `HandleReady` | `session.cpp:54-58`, `77-78` |
| `CountEcho`, `ExchangeOnEcho` | `session.cpp:61-68`, `70-74` |
| `CountReady`, `TestReadySent`, `ExchangeOnReady` | `session.cpp:81-86`, `88`, `90-94` |
| `TestDelivered`, `ExchangeDelivered`, `Deliver` | `session.cpp:96`, `98-101`, `reliablebroadcast.cpp:103-110` |
| `ConnectToRedis`, `LoseRedis` | `reliablebroadcast.cpp:130-135` with `connectToRedis`; the connection breaks at any time |
| `RunSend` | `packet_manager.cpp:90-110` |

`NodeRestarts`: `asked`, `echoInbox`, `readyInbox` are the datagrams the node has
not handled, `readySent` all the READYs ever sent to it, two where a peer's send
tasks both encode READY, `delivering` is the payload a thread inside `deliver` has still to
append, `connected` what `mRedisClient.is_connected()` returns. `Restart` is the
end of the process at any point and `main` again.

`RestartingChain`: the state of `ReliableBroadcast` and the number of `restarts`.
`Restart` clears what `Forget` lists, the members of `Session`, at any point between
or in handlers; in a handler, ECHO and READY may have been sent (`MaySend`) and not
counted. The log is in Redis and stays.

`ChainConfigs`: `files` is the config directory, `configs` is `mChainConfigs`
(editions instead of contents), `readers` and `writer` are `mChainConfigsMutex`.
`handler[h]` says where `configUpdateSignalHandler` is on thread `h`: *entered*,
*listed* (in the loop over `FileUtils::listFiles`), *locking* and *locked* (in
`setChainConfig`). While it is not *none* the thread's look-up stands still.
`RemoveFile`, `OpenFile`, `WriteFails` and `CloseFile` are `write_json`, which
passes over an `OSError` and goes on to the next file; a write that fails leaves
a file that is cut short.

`Datagrams`: `buffer` is `mBuffer`, `tasks` what `PacketManager::asyncProcess`
has posted. Encoders and parsers work on cells, one per header integer or byte
of payload. A parser that reads behind the buffer finds anything.

`Testers`: `tester` says which of the two runs. `messages`, `total`, `good` and
`events` are its members of these names, `popped[n]` is the answer to the
listener's `blpop` on node `n`, and `HandleRound` is one pass of `_listen` with the
`on_delivery` of every answer. While `held`, the loop is in `Tester.test` between
two sends that do not await. `EndTest` is `get_result` and the next
`on_test_start`. `NodeAppends` is a node doing what it should, `NodeAppendsMore`
everything else it may put on its list: a repeat, a message before it is sent, a text
no tester sends (`Foreign`).

`InventoryGroups`: a resource is a record (its header says of what); `ListedBy`,
`TagsMatchFilters` and `DbClusterMatches` are the three ways filters are applied
(the last of them raises at a key without `:`; where the script then dies of
`e.message`, as under Python 3, that is `CallFails`), `Listings` the calls that list a
region's instances, one for each filter set unless they are stacked, `HostnamesOf` the name a resource gets, `Pushes` the set of its `push` and
`push_group` calls, and `Enter` one of the functions `add_*` with all of them. A
*book* is what a run has in memory: `groups`, `index`, `hostvars`, `dbClusters`;
its field `seen` (what was entered) is no state of the program.

`Ec2Inventory`: `cache`, `index` and `fresh` are the two files and the age of the
first; `phase[p]` and `work[p]` where a process is and its variables, `output[p]`
what it printed. A step asks the cloud once (`ListInstances`, a step for each of
`Listings`, then `AddInstances`, `DescribeDatabases`, ...), but for the pages and tags
of databases and of database clusters (section 5); opening and filling a file are steps
too. The answers are `PrintInventory`, `LookUpHost` and `FetchInstance`. `since`, `named`,
`accident`, and `read` in a resource, record what happened for the properties.
`Scenario` pairs a configuration file with bounds on runs and mishaps.

`Thresholds` keeps `size_t` arithmetic modulo `SIZE_MOD`; the runs use a small
modulus and the proofs hold for every one that exceeds three times the size of
the chain.

### 2.3 Assumptions about the environment

* A message that carries the id of a correct node was sent by that node. The
  program takes ids at face value, so this is the authenticated channel that
  the protocol presupposes. Ids are distinct over the nodes.
* Sessions are independent: they share the pool, the thread pool and Redis, and
  no session reads another's counters. One session is modelled.
* A node that stops is a node that takes no further step. One that restarts with
  empty memory counts among the faulty ones as far as the others are concerned,
  which is not assumed but theorem `RestartsAreFaults`. What it can still promise to
  the readers of its own list is `AgreementAcrossRestarts`, and in `NodeRestarts`,
  where its peers follow the protocol and datagrams are not repeated, more. A peer
  there sends READY for one payload, and two copies only if its own ECHO completed
  its quorum; the `EchoTarget - 1` others whose ECHOs it had counted sent them as
  ECHO and do not send READY twice for that payload (`NodeRestarts!Init`).
* Linux gives a process's signal to the main thread unless that has it blocked,
  which it has while it runs the handler. `WritesOverlap` and `SignalsOverlap`
  say what the operator does during a reload. Nobody sends messages of a chain
  the node has no config for.
* A `boost::shared_mutex` grants no shared lock while a thread waits for the
  exclusive one.
* The lists the tester reads hold text (`data.decode()`), of chains the tester uses.
* Files are written whole or not, unless `WritesFail`. Nobody but the inventory
  script writes its cache, and the names of the two files stay the same from run
  to run (they hold a hash of the script's path, which Python 3 salts unless told
  not to; a run then finds no cache and refreshes).
* EC2 applies the filters it is given. An identifier is never given to another
  resource of its kind, an instance that is gone does not come back under it, and an
  instance stays in its VPC; names and addresses may pass on. So the cloud goes
  through `Clouds` in one direction.
* `IdentifiersApart` (no other kind of resource bears an instance's identifier) and
  `OneThingChanges` (while the script is used, only the tags of an instance change, or
  only what the listing says of it, or only the DNS records of its addresses) are
  conditions on the cloud.
* `CompleteConfig`, `FewFaulty`, `TightSize`, `QuorumsOverlap`, `QuorumsShareSteady`
  (two READY quorums share a node that is neither faulty nor restarts), `ClientsKnowAll`,
  `EchoesToSpare` (`n > 3t + 2f`: without a faulty node this always holds, with one it
  says `n = 3t + 3`, and no chain has room for more) and `PacketsFit` are conditions
  on a deployment.
  They are named operators and stand in the properties' or theorems'
  hypotheses, never inside the model.

## 3. What is checked

### 3.1 Runs that pass

| Run | Question | Instance and why it is enough |
|---|---|---|
| `two_payloads` | Do correct nodes agree, commit only what was sent, broadcast one READY each, and implement `BroadcastSpec`? | four nodes, one of them faulty (the smallest chain with `t = 1`), which talks to two of the three correct nodes, `n1` and `n3`, two payloads, clients that reach different, overlapping node sets; loss, repetition and reordering are implicit in a `wire` that only grows. All nodes hold one edition of the chain's config: what Agreement needs when they do not is theorem `AgreementAcrossReloads` |
| `all_commit` | Does one commit lead to a commit everywhere, as soon as nothing is left to handle, and does each node keep `NodeContract`? | four nodes, one faulty, one payload, fair handling |
| `threads_race` | Do the threads of a node keep `NodeContract` and lose no quorum? | two threads, six datagrams: an echo quorum of one payload competes with READYs of another, one more than the commit needs, so each pair of critical steps can interleave, READY and commit can each be tried twice, and a thread can be overtaken between count and use |
| `threads_commit` | Does a quorum of READYs end in a commit, if Redis can be reached in the end? | two threads, five datagrams of one payload, fair threads; the READY that completes the quorum is the node's own, counted in a nested call. The client starts disconnected, and the connection may break whenever it stands: `RedisHolds` is a premise of the property, and without its second half TLC finds a connection that breaks before every append |
| `node_restarts` | How often can a node commit that forgot what it did? As often as it gets READYs of `2 * t` other nodes that no other life of it has read, no oftener | `n = 4`, two payloads, up to two peers of a payload sending READY twice, a restart at any point, the connection lost at any point. The most that the READYs allow, two commits, is reached with one peer that sends twice. `CommitsOnce`, which the theorem is about, holds in this instance too |
| `chain_restarts` | Can nodes that restart put two payloads on the lists of a chain, and are restarts, to the others, faults like any other? | four nodes, one of which restarts once at any point, nobody else faulty (`t = 1`); two payloads that clients send to different, overlapping sets; what the links in `Links` do not carry is lost. Within that, the node that restarts may READY one payload and commit the other, or commit twice |
| `config_reload` | Do look-ups always find their chain and end, does the lock hold and does a signal take effect? | two chains, each there from the start or not, two io threads, two files written, two signals; writing and signalling wait for the end of a reload, and no write fails |
| `datagrams_fit` | Does every message arrive as it was? | two datagrams one after the other, so that the buffer holds an older and longer one; all three forms, header fields that differ one at a time, payloads of 0, 1 and 2 cells, the longest packet exactly as long as the buffer |
| `tester_counts` | Does a tester flatter the nodes, or miss what is on every node? | both testers; two nodes, two iterations of up to two messages in any order per list, so that answers of one are handled in the next and rounds mix messages; sends that hold the loop; one entry too many, anywhere, on either list (a repeat, an early message or a foreign text), the last iteration then being one message shorter (`Few`) |
| `inventory` | Do groups, index, variables and files fit together, and what does `--host` answer, while runs overlap, fail, are killed, and the cloud changes? | four states of a cloud, which may be skipped (an instance under another name, with a second page of databases and without DNS; with its usual name; with the tag of an earlier filter set; then two gone, one elsewhere under the old name and a database gone), two regions, all kinds of resources; the repository's `ec2.ini`, one with everything on, one with two filter sets on a tag that changes, one with stacked filters, one that is rejected and one with a role that may not assume itself; two processes that overlap with one mishap, or two runs in turn with two |

`TypeOK` of each state machine is checked with the first run about it (that of
`RestartingChain` is proved only). The instance of
`inventory` meets `IdentifiersApart` and `OneThingChanges`, those of the restarts
`TightSize` and at most `t` nodes that are faulty or restart: `MCEc2Inventory` and
`MCRestartingChain` state so in an `ASSUME`, which TLC evaluates. All
properties are commented where they are defined.

### 3.2 Runs that show a disagreement

| Run | What TLC shows |
|---|---|
| `silent_node` | With `n = 4`, one node that sends nothing (`FaultySilent`) and no loss, no correct node need ever commit. The node whose own ECHO completes its quorum retypes the message object before the posted task encodes it, so READY goes out in place of the ECHO; the other two are one ECHO short, and there are not `t + 1` READYs. |
| `generated_config` | `ops/tests/generate_configs.py` leaves the node out of its own chain. Nodes of a chain of four then work with `n = 3`, `t = 0`, and four correct nodes may commit different payloads of one session: nodes echo every payload, two ECHOs make a quorum and one READY commits. |

`generated_config` concerns a deployment that violates `CompleteConfig` and, with the `n` each
node computes, `TightSize`; with those conditions Agreement is proved below.

What the models show further when a constant is changed, without a run of its own:

* `ChainConfigs` with `SignalsOverlap = TRUE`: a second SIGHUP during a reload is
  handled on an io thread; if that holds the shared lock in `getChainConfig`, it
  waits for itself and everybody for it, and `ReloadTakesEffect` fails.
* `ChainConfigs` with `WritesOverlap = TRUE`: a reload reads a file that
  `write_json` has removed or not finished, the parser throws in the signal
  handler and the process ends; `StaysUp` fails.
* `ChainConfigs` with `WritesFail = TRUE`: a full disk leaves a config that is cut
  short, `write_json` says nothing, the next reload ends the process; `StaysUp`
  fails.
* `ReliableBroadcast` with a chain that grows from three nodes to four while a
  session lives (`SessionNodes` of three for two nodes and of four for the others,
  nobody faulty): a node that counts with `t = 0` commits on one READY, and
  Agreement fails. Section 4 says which changes are harmless.
* `Ec2Inventory` with an instance whose tags and address both change, one after the
  other, between two calls of a run: it is entered under a name made of the new tags
  and the old address, which it never had, and `AnswerIsNamed` fails. This is why
  there is `OneThingChanges`.
* `Ec2Inventory` when `Findable` does not say by which listing (`by`): a run looks a
  host up, does not find it in the index, refreshes, and asks for the first filter set;
  then the instance's tag changes from the value of the second set to that of the
  first. Neither answer has it, and `--host` prints `{}` for an instance that could be
  found in every state of the cloud. This is what the code does (`ec2.py:602-603`), so
  `NoFalseAbsence` promises what one and the same listing has all along.
* `Datagrams` with `MAX_LENGTH = 9`: the longest packet is cut, its message is
  parsed to an end behind the buffer, and `ProcessedWasSent` fails.

### 3.3 Fairness

`ReliableBroadcast!FairSpec` is weak fairness of each correct node's handling
of messages of clients and of correct nodes: the io_service threads keep
running tasks and the sockets lose nothing. The second half is an assumption,
since nothing retransmits; without it no liveness property of this program
holds. It also takes Redis to be reachable whenever a commit is appended: a handler
is one step that ends, while in the code a thread that finds Redis away stays in
`deliver` (`reliablebroadcast.cpp:130-135`), and when all threads do, the node handles
nothing more. `Totality`, `SettledMeansTotal` and `Validity` are about nodes whose
Redis is there; `NodeThreads` and `NodeRestarts` have the connection.
A second copy of a SEND is never forced (`~SendHandled`), and messages of
faulty nodes are never forced. `NodeThreads!FairSpec` is weak fairness of each
thread: a thread that is inside a handler, or finds a task, goes on. Mutexes are
held over a few statements without waiting, so a critical section is one step.
The attempts to connect are not part of that fairness, since their success is up to
Redis. `QuorumCommits` has it as a premise, `RedisHolds`: a thread that goes on trying
gets its connection, and from some point on the connection does not break. Each
attempt nests another call of `deliver`; the stack, which is finite, is not modelled.

`ChainConfigs!FairSpec` is weak fairness of each thread's look-ups and of each
thread's handler: a thread goes on as long as it need not wait for the lock.
Since a waiting writer keeps new readers out, that is enough.
`Testers!FairSpec` is weak fairness of the listener, which the asyncio loop resumes
when an answer has come, and of `WaitForCompletion`: a tester that waits does
await. Neither the nodes nor the end of the test are forced.
`Ec2Inventory!FairSpec` is weak fairness of each process's steps: calls return or
raise. It is written out without ENABLED, which is costly here; a process that is
not idle always has a step. The properties of `Datagrams` and `NodeRestarts` are safety.

## 4. What is proved

The thresholds, for every `n` and every width of `size_t` with room for `3 * n`
(`ThresholdsProofs`):

| Theorem | Says |
|---|---|
| `GetTIsLargest` | `getT` is the largest `t` with `3 * t < n` |
| `EchoQuorumsShareMoreThanT` | two echo quorums share more than `t` nodes |
| `EchoTargetIsLeast` | and no smaller quorums would: any `k` nodes with `2 * k > n + t` fill one |
| `ReadyQuorumReachable` | the commit threshold is `2 * t`, and `n - t` nodes exceed it |
| `EmptyChain` | with no nodes `getT` wraps around, READY follows the first ECHO and nothing is ever committed |

About `ReliableBroadcast`, for every finite set of nodes and payloads, every set
of faulty nodes and every choice of clients' node sets (`ReliableBroadcastProofs`):

| Theorem | Says | Conditions |
|---|---|---|
| `TypeCorrect` | `Spec => []TypeOK` | |
| `CountersInvariant` | `Spec => []CountersInv` | |
| `AgreementAcrossReloads` | `Spec => []Agreement` | `QuorumsOverlap` |
| `GrowingChainAgrees` | `Spec => []Agreement` | each node counts with at least `t`, and all who ever belong to the chain, the faulty ones twice, number at most `4 * t + 1` |
| `CorrectNodesAgree` | `Spec => []Agreement` | `CompleteConfig`, `FewFaulty`, `TightSize` |
| `NothingFabricated` | `Spec => []NoFabrication` | `CompleteConfig`, `FewFaulty` |
| `ReadyStartsFromEchoes` | `Spec => []ReadyRootedInEchoes` | the same |
| `ReadyIsUnique` | `Spec => []OneReadyPerSession` | |
| `CommitsAreAmplified` | `Spec => []CommitIsAmplified` | `CompleteConfig`, `FewFaulty` |
| `ImplementsPromise` | `Spec => KeepsPromise` | the same and `TightSize` |
| `SettledSessionsAreTotal` | `Spec => []SettledMeansTotal` | `CompleteConfig`, `FewFaulty` |
| `SettledChainsCommit` | `Spec => []SettledMeansCommitted` | the same, `ClientsKnowAll` and `EchoesToSpare` |
| `NodesKeepTheirContract` | `Spec => NodesKeepContract` | `SomeNodes`: no config is empty |
| `ContractsAgree` | `NodesKeepContract => []Agreement` | `QuorumsOverlap` |

About `RestartingChain`, for any set of nodes that restart, any number of times and at
any point (in the same module):

| Theorem | Says | Conditions |
|---|---|---|
| `RestartsTypeCorrect` | `ChainSpec => []ChainTypeOK` | |
| `RestartsKeepAgreement` | `ChainSpec => []AgreementAcrossRestarts` | `QuorumsShareSteady` |
| `RestartsWithinTolerance` | the same | `CompleteConfig`, `TightSize`, no more than `t` nodes faulty or restarting |
| `RestartsAreFaults` | `ChainSpec => SteadyNodesKeepSpec`: a refinement of `ReliableBroadcast` | |

About the other modules, for any constants that meet the modules' assumptions:

| Theorem | Says |
|---|---|
| `NodeThreadsTypeCorrect` | `Spec => []TypeOK` of `NodeThreads`, for any threads and messages |
| `ThreadsKeepContract` | `Spec => KeepsContract`: however the threads interleave, the node's steps are those of `NodeContract` |
| `QuorumsAreNotLost` | `Spec => []SettledQuorums` of `NodeThreads`: when everything that arrived was handled, every quorum has been acted on |
| `NodeRestartsTypeCorrect`, `RestartsCommitWithinReadies` | `Spec => []TypeOK` and `Spec => []CommitsWithinReadies` of `NodeRestarts`, for any number of nodes and restarts |
| `RestartsCommitOnce` | when `TightSize`, `Spec => []CommitsOnce` of `NodeRestarts`: one commit, as long as fewer than `t` peers send READY twice |
| `ChainConfigsTypeCorrect`, `ReloadsKeepRunning` | `Spec => []TypeOK`, and, when files are left alone during a reload and no write fails half-way, `Spec => []StaysUp` of `ChainConfigs`, for any threads, chains and signals, overlapping or not |
| `DatagramsTypeCorrect` | `Spec => []TypeOK` of `Datagrams`: no packet is ever processed as a message |
| `NothingReceivedIsLost` | `Spec => []ReceivedIsProcessed`: parsing undoes each encoding of a datagram that fits the buffer, whatever was in the buffer before and lies behind it |
| `MessagesArriveUnchanged` | `Spec => []ProcessedWasSent`, when the longest message fits the buffer in a packet (`PacketsFit`) |
| `TestersTypeCorrect`, `TesterErrsTowardsLoss`, `QueueIsNeverTooSmall` | `Spec => []TypeOK`, `[]ErrsTowardsLoss` and `[]QueueNeverTooSmall` of `Testers`, for any nodes, iterations and numbers of messages, and whatever the nodes repeat or make up (`MaxExtras` any number) |
| `InventoryTypeCorrect` | `Spec => []TypeOK` of `Ec2Inventory`, for any settings, clouds and processes, as are the next five |
| `ListedHostsCanBeUsed` | `Spec => []HostsIndexed`: a host of a group is in the index and has variables, of one resource |
| `GroupsListWhatWasPushed` | `Spec => []GroupsMeanResources`: a group lists the hosts of the resources pushed into it and no others |
| `NestedGroupsExist` | `Spec => []ChildrenAreGroups` |
| `BooksAreOfOneAccount` | `Spec => []OneAccount`: all resources of a book were listed with the same credentials (DNS records, and the account's number, are read with the default ones and enter no resource) |
| `OnePageOfDatabasesHasOwnTags` | `Spec => []OwnTags` |
| `AbsentHostsCouldNotBeFound` | `Spec => []NoFalseAbsence`: `--host` denies no instance that could be found all along by one and the same listing, whatever the clouds and the runs |
| `AnswersAreNamed` | `Spec => []AnswerIsNamed`, when `IdentifiersApart` and `OneThingChanges` |
| `InventoryCacheTypeCorrect`, `CacheFilesArePaired` | `[]TypeOK` and `[]Paired` of `InventoryCache`, for any number of processes and any contents |
| `InventoryWritesTheCache`, `InventoryFilesArePaired` | `Spec => FilesAreCache`, the refinement, and so `Spec => []FilesArePaired` of `Ec2Inventory` |
| `TagFiltersNeverHideMore` | without `stack_filters`, what EC2 would select by the tags of a filter set passes the script's own comparison of tags for databases, and that for database clusters if the sets before it name tags only |
| `StackedTagsMatchEverySet` | with `stack_filters`, what the script's comparison lets pass has the tags of every filter set |

### 4.1 Sessions

The inductive invariant of the session's theorems is `SessionInv` of
`ReliableBroadcastProofs`. None of the properties is inductive: that nobody
commits a second payload, say, needs to know where counted READYs came from. The
parts of `SessionInv` are `TypeOK` and

* `WireSound`: an ECHO of a correct node on the wire is of a requested payload, a
  READY is of its sender's `readyData`;
* `EchoesSound`, `ReadiesSound`: so is what was counted from a correct node;
* `ReadyRequested`, `ReadyRootedInEchoes`: a payload that a correct node sent
  READY for was requested, and some correct node counted a quorum of ECHOs of it;
* `LogSound`: a node that delivered has one payload on its list, with a full
  count of READYs; one that did not has none.

Of these, `TypeOK`, `WireSound`, `ReadiesSound` and `LogSound` need no condition on
the deployment; they are `CountersInv`, and Agreement follows from it and the
overlap of READY quorums: two counts of more than `2 * t` READYs share a correct
node, which sent one READY only. Echo quorums play no part, since a node echoes
every payload and echo quorums of two payloads may both exist.

`QuorumsOverlap` says what a change of the chain's config may do while sessions
live. Each node counts with the `n` and `t` of the config it made the session
from. As long as any two of their commit counts, together, exceed all nodes that
ever belong to the chain plus the faulty ones, they share a correct node. A chain
of `3 * t + 1` nodes of which only `f < t` are faulty can so grow by `t - f` nodes
under a session (`GrowingChainAgrees`); one of `3 * t + 1` with `t` faulty nodes
cannot grow at all, and section 3.2 has the growth from three nodes to four. No
run has an instance of the harmless case: the smallest has five nodes and more
states than a run can visit.

`NextKeepsInv` has a case per action; a handler step is split by
`Handle{Send,Echo,Ready}Step` into a common form, `HandlerStep`, so that the
invariant's preservation is proved once (`HandlerKeepsCounters`,
`HandlerKeepsInv`). The same form is one step of `NodeContract` for its node and,
since a message stays on the wire, at most the receipt of messages for the others.
There the invariant is needed twice: a node that has not
decided READY has not counted a READY of its own, so more than `t` READYs are of
others, and one that has not delivered has an empty list. `CountersInv` says both,
so this needs no bound on the number of faulty nodes.

`ContractsAgree` uses no action of `ReliableBroadcast`. Its invariant
`ContractsInv` is what the contracts leave of `CountersInv`: nodes stand by the
READYs they sent (`StandsBy`), committed at most once and on a full count
(`CommitCounted`), and what they counted from a correct node it has sent.

The two theorems on settled states say what the protocol promises without a word
about fairness: in a state in which every datagram that was sent to a correct node
is handled, all have committed. `Settled` lists what there is left to handle, and
TLC found both true before they were proved. `AllAttentive` is the invariant
they need, of the kind that leaves nothing undone: a node that decided READY has
sent it and counted its own, one that did not has sent the ECHOs it counted and
has no quorum, one that did not commit has no count to commit on. A commit then
leaves more than `t` correct nodes with READY on the wire, each node has more than
`t` READYs, decides, and in turn has more than `2 * t`. `SettledChainsCommit` has to
do without that first commit, and without the ECHOs that went out as READY: either
more than `t` nodes decided, and the first argument applies, or the ECHOs of the
others are still a quorum of echoes, which is where `EchoesToSpare` is used.
`silent_node` shows that the condition is needed.

### 4.2 Threads

`ThreadsInv` of `NodeThreadsProofs` is what lets a thread act on something it read
earlier:

* `MessageSound`: a message object is as it was parsed, or the node's ECHO, which
  a SEND asked for, or its READY of the payload that was decided; only in the last
  two cases do send tasks wait;
* `ThreadSound`: a thread past the look-up works on the session in the pool, its
  message has the type it was tested for, a count it holds (or that waits for a
  nested call) is no larger than the counters now, and a thread in `deliver` finds
  `mDelivered` set and the list empty;
* `Apart`: no two threads handle one message object, and one at most delivers;
* `SessionSound`: session objects that lost the race for the pool are empty, the
  node's own READY is counted only for the payload it was decided for, and
  something is on the list only if `mDelivered` is set.

`StepKeepsInv` puts a step together: counters only grow (`SessionGrows`), so a
thread that takes no step is not disturbed (`Undisturbed`), and what is left to
prove of an action is that its thread is sound afterwards. `NextAllowed` then maps
each step: `Arrive` to `Receive`, `CountEcho`, `CountReady`, the two exchanges,
`RunSend` and `Deliver` to `Handle`, all others to a stutter. The exchange is where
the thread's old count justifies the decision, because the counters still cover it
and none of the counted READYs is the node's own.

`NothingLost` is the second invariant, for `SettledQuorums`. That property speaks of
states in which all threads are idle; to prove it one has to know of every busy state
where each message and each quorum is:

* `MessagesTracked`: the sender of each message that came is counted, or counting it
  no longer matters, or the message is posted or with a thread that has not reached
  the counters. The same goes for the node's own ECHO after a SEND and its own READY
  after the exchange; both travel in the object of the message that caused them;
* `QuorumsSeen`: counters above a threshold mean that READY was decided, or
  `mDelivered` set, or that some thread is between its count and its exchange with a
  count above the threshold (`WillDecide`, `WillCommit`). A count may also wait in
  `interrupted` while the thread broadcasts its own READY. A set `mDelivered` means
  that the payload is on the list or a thread is at `deliver`.

A step hands on what its thread had in hand and takes on what it brings about
(`HandsOn`, `TakesOn`), which is all the other threads need (`StepLosesNothing`).
The READY handler needs `SawToReady` besides: who has come to the commit test with
more than `t` READYs knows that READY was decided, so that a commit never leaves a
node behind that did not send READY.

### 4.3 Restarts and configs

`RestartInv` of `NodeRestartsProofs` keeps the account: what the READYs read so far
leave after `2 * t` for each payload on the list is at least what this life of the
process counts, of any one payload, from nodes other than itself. A handler adds to
both sides; an append moves `2 * t` from what is counted to what is used up, since
more than `2 * t` READYs are counted and one of them at most is the node's own; a
restart empties the counters and leaves the account as it is. With `n = 3 * t + 1` the
peers send `3 * t` READYs and the copies, and less than `4 * t` pay for one commit.

In the chain (`RestartInv` of `ReliableBroadcastProofs`) nothing bounds what is left to
read, since datagrams repeat. What remains is what the steady nodes keep: each stands
by one READY, whoever counted READYs of steady nodes counted what they stand by, and
whatever is on a list was once counted more than `2 * t` times. That last fact has to
be about *some* set of senders instead of a counter, because the counter is lost with
the session and the list is not. Two such sets share a steady node.

`RestartsAreFaults` maps a step of the chain to one of `ReliableBroadcast` with
`Faulty \cup Restarting` faulty, over the steady nodes' part of the state. A handler of
a steady node is the same handler; what it receives of a node that restarts, before
or after, a faulty node may send. A restart, and any handler of such a node, is a
stutter, since the steady nodes' part of `wire` leaves out what it sends. All that is
proved of `ReliableBroadcast` thus holds for them, with the one condition that both
kinds together number at most `t`.

`StaysUpInv` of `ChainConfigsProofs` says that a look-up in progress is for a
chain that is there, that no file is torn but the one being written, that none is
being written during a reload, and that a handler has only files left that exist.

### 4.4 Datagrams and testers

`DatagramsInv` of `DatagramsProofs` says that every datagram is well formed, every
task is a message or a packet, and the message of a received datagram that fits is
kept: processed, or in a task, as it is or in its packet. The step that counts is
`Receive`: the parser is a recursive function over what is left of the memory, of
which the buffer has a first part and the rest is anything. The lemmas on cells
(`EncodeCells`, `PacketCells`) say where a message lies in each form, and those on
the parser that it stops where the datagram ends. `FromDatagrams` is the second
invariant: a task comes from a datagram and carries its message, if all fit.

`TestersInv` of `TestersProofs` says what a tester's dictionary `messages` means:
what left it is on every node, what a set in it holds are nodes that have the
message, an iteration that ended left nothing (`MessagesSound`). `CountsSound` ties
the two testers' numbers to it, one its counter and the other the sum over a log of
events, whose function `QueueSize` a lemma unfolds when an event is appended.
`ResultsSound` keeps the results of earlier iterations below what the nodes have,
which only grows. None of it asks that a node's list holds what it should: an entry
is the node's (`AnswersSound`), and what is not in `messages` changes nothing.

### 4.5 The inventory

Four sorts of argument meet in `Ec2InventoryProofs`.

*What is computed.* Lists go through `Chosen`, `FlattenSeq` and `AddedAll`. The
lemmas `ChosenOf`, `FlattenIn`, `AddedAllKeepsBook` say that the results of these
keep what held of the elements, by induction on the position (`NatSetInduction`).
`EnterKeepsBook` is the heart: entering one resource under one name, with any
settings, keeps `BookSound`. A book is sound if what its groups list can be used
(`HostsUsable`), if they list what was pushed (`GroupsMean`), if every child is a
group (`ChildrenListed`, which needs that whatever was pushed is a group,
`PushedAreGroups`), and if everything was read with one account and, when read in
order, with its own tags (`SeenSound`). A name may be taken over by another
resource, a group by an identifier, and a node's variables are added to those of
its address: these are the cases of the proof.

*What a process carries from one call to the next.* `WorkSound` says of the calls
still to be made that each stands behind the one it relies on (`CallsSound`), and of
the first of them that it finds what it needs (`Needs`; between two listings of a region, what
comes after them needs, `AskedSound`): the tags of instances a list of instances and the credentials left by the connection before, the databases
the ARNs that were read with them. Each action's lemma proves that its answer is
sound (`AnswerSound`), whatever the cloud has become since the call before.

*What is shared.* `InventoryInv` says that every book in memory, in a file or
printed is sound. A second refresh goes on top of a loaded index, which is sound
because an index is loaded only if nothing was entered (`LoadedBookSound`). TLC
checked `InventoryInv` as an invariant of the run `inventory` before it was proved.

The two files are those of `InventoryCache`: `WritingOf` and `BookOf` map a process
to the abstract writer, and every step that is not one of writing leaves them alone
(`ElsewhereStutters`). What a process writes is a sound book, hence readable. In the
abstract module, `FilesInv` adds to `Paired` that without an accident there is one
writer at most, and how far it has come with which file.

*What is answered.* What `--host` says is a statement about all that the cloud has
been during a run, or even since the index was written, of which the run saw parts at
different times. A run's steps are first told apart by what matters here (`Begins`,
`GoesOn`, `Writes`, `LooksUp`, `Finishes`, put together in `RunSteps`). `Used` says what
the answer to a call leaves in a process: `AddsInstances` that the index gains exactly
the instances heard of, with the tags of now and under each of their names, `AddsOthers`
that all the rest it gains bears another resource's identifier. TLC checked both of the
following invariants before they were proved.

* `AbsenceInv`, for `NoFalseAbsence`: once a run refreshes on top of what it had, each
  instance that one listing has had all along is `Tracked`: it is in the index, or that
  listing is still to come, or it was heard of and more listings or the tags of its
  region come next; and the records, when they have been read, give its addresses the names they
  have now. The plan of calls asks for tags right after a region's listings (`Followed`).
  When the calls are done only the first case is left, so a name that is not in the
  index belongs to nobody who was there all along. No condition on the cloud is needed:
  `since` has what kept its name, its addresses and their DNS names through each
  change, while its tags may change.
* `NamedInv`, for `AnswerIsNamed`: each entry of each index, in memory and in the file,
  is a name the instance has had, or is of an instance that is `Gone` and will not be
  there when EC2 is asked for it. `Reading` says of the calls under way that the records
  are those of one state of the cloud and each instance heard of is from that or a
  later one. `InstanceNamed` then finds, with `OneThingChanges`, one state of the cloud in
  which the instance had the name that was put together from three calls: the one of
  now if only tags change, the one of the listing if only the listing does, the one of
  the records if only they do. An instance that went between the listing and its
  tags gets a name it may never have had; it is `Gone`.

### 4.6 Only model-checked

The liveness properties (`Totality`, `Validity`, `QuorumCommits`,
`ReloadTakesEffect`, `LookupsEnd`, `FullCount`, `EveryRunEnds`) are beyond the
prover. Every invariant that a run checks, and every refinement, is also a theorem.
The other way round, `ChainTypeOK` is only proved, and so is `SettledMeansCommitted`,
which TLC found true of four correct nodes before it was proved of every chain.

Induction over data is possible as far as the proofs go here: each recursive
*function* is shown to exist and to unfold (`LevelsExist` and `ParserUnfolds`,
`SumsExist` and `QueueSizeUnfolds`, `BooksExist` and `AddedAllUnfolds`) by minimal
elements of subsets of `Nat`, since the induction theorems of the library, which
take an operator, cannot be used.

## 5. What is not modelled, and the plan

Not modelled, for good:

* the router (does not build against the present sources), the Cap'n Proto schema
  (generated, unused), playbooks, docker and terraform files (no state);
* logging, the statistics in `deliver`, `calculateMessageHash` (no caller), and
  `removeSession` with the removal thread and `ThreadSafeQueue`: nothing calls
  `removeSession`, so the thread never wakes up and sessions are never removed;
* of the inventory script: `destination_format`, Eucalyptus, the texts of its
  errors, wildcards in filters, an empty filter set, pages and tags of databases
  changing while they are read (`AddDatabases` and `IncludeDbClusters` are one step
  each), a writer of a cache file that has flushed a part of its text when another
  truncates the file (the accident is recorded, the hole is not), and the account's
  number, which the script reads once with the default credentials and the model takes
  from a resource's labels;
* of the clients: plotting, the stand-alone demos at the end of `client.py` and
  `tester.py`, and the value of the rate;
* the rest of the process manager: it makes named pipes.

Hazards without a property are listed in `PROJECT.json` with the reason.

What could come next: liveness of the chain with restarts, for which the code has no
help (nothing is sent again, so a node that restarts in the middle of a session need
not commit); and pages of databases that change while they are read.
