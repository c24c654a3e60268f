------------------------------ MODULE ChainConfigs ------------------------------
(* The chain configs of a node: NodeConfig::mChainConfigs, which the       *)
(* io_service threads look up while the SIGHUP handler reads the files of  *)
(* the config directory again.                                             *)
(*                                                                         *)
(* The handler runs on a thread of the process, which stops what it was    *)
(* doing until the handler returns.  Linux gives the signal to the main    *)
(* thread, or, while that is in the handler and so blocks the signal, to   *)
(* any other.  The lock is a boost::shared_mutex: no shared lock is granted*)
(* while a thread waits for the exclusive one.                             *)
EXTENDS Naturals, FiniteSets

CONSTANTS
    Chain,            \* the chains the node has, or will have, a config for
    Io,               \* the io_service threads
    Main,             \* the main thread
    Nobody,           \* no thread
    NoChain,          \* no chain
    Absent, Torn,     \* no file, or one that is being written
    MaxEdits,         \* bound on the files written anew
    MaxSignals,       \* bound on the signals
    WritesOverlap,    \* files are also written while a reload runs
    WritesFail,       \* a write may fail (a full disk), not only an open
    SignalsOverlap    \* the signal is also sent while a reload runs

ASSUME ChainConfigsAssumption ==
    /\ Main \notin Io /\ Nobody \notin Io \cup {Main} /\ NoChain \notin Chain
    /\ {Absent, Torn} \cap Nat = {} /\ Absent # Torn
    /\ MaxEdits \in Nat /\ MaxSignals \in Nat
    /\ WritesOverlap \in BOOLEAN /\ WritesFail \in BOOLEAN /\ SignalsOverlap \in BOOLEAN

VARIABLES
    files,      \* files[c]: the edition of the chain's config file, or Absent, Torn
    writing,    \* the chain whose file is being written
    edits,      \* editions written
    signals,    \* signals sent
    pending,    \* SIGHUP is pending
    configs,    \* configs[c]: the edition in mChainConfigs
    wanted,     \* wanted[i]: the chain thread i is looking up
    readers,    \* threads that hold the shared lock
    writer,     \* the thread that holds the exclusive lock
    handler,    \* handler[h]: where the signal handler is on thread h
    todo,       \* todo[h]: the files it has not read yet
    loaded,     \* loaded[h]: the chain and edition it has read
    running     \* the process has not ended

directory == <<files, writing, edits, signals>>
lock == <<readers, writer>>
reload == <<handler, todo, loaded>>
vars == <<directory, pending, configs, wanted, lock, reload, running>>

Thread == Io \cup {Main}
Edition == 0..MaxEdits

TypeOK ==
    /\ files \in [Chain -> Edition \cup {Absent, Torn}]
    /\ writing \in Chain \cup {NoChain} /\ edits \in Edition /\ signals \in 0..MaxSignals
    /\ pending \in BOOLEAN /\ running \in BOOLEAN
    /\ configs \in [Chain -> Edition \cup {Absent}]
    /\ wanted \in [Io -> Chain \cup {NoChain}]
    /\ readers \in SUBSET Io
    /\ writer \in Thread \cup {Nobody}
    /\ writer # Nobody => readers = {}
    /\ handler \in [Thread -> {"none", "entered", "listed", "locking", "locked"}]
    /\ todo \in [Thread -> SUBSET Chain]
    /\ loaded \in [Thread -> [chain : Chain \cup {NoChain}, edition : Edition]]

Reloading == pending \/ \E h \in Thread : handler[h] # "none"

Init ==
    /\ files \in [Chain -> {0, Absent}] /\ configs = files
    /\ writing = NoChain /\ edits = 0 /\ signals = 0
    /\ pending = FALSE
    /\ wanted = [i \in Io |-> NoChain]
    /\ readers = {} /\ writer = Nobody
    /\ handler = [h \in Thread |-> "none"]
    /\ todo = [h \in Thread |-> {}]
    /\ loaded = [h \in Thread |-> [chain |-> NoChain, edition |-> 0]]
    /\ running = TRUE

-----------------------------------------------------------------------------
(* write_json removes the file, if there is one, opens a new one and       *)
(* writes it.                                                              *)
RemoveFile(c) ==
    /\ writing = NoChain /\ edits < MaxEdits
    /\ WritesOverlap \/ ~Reloading
    /\ writing' = c /\ edits' = edits + 1
    /\ files' = [files EXCEPT ![c] = Absent]
    /\ UNCHANGED <<signals, pending, configs, wanted, lock, reload>>

OpenFile ==
    /\ writing # NoChain /\ files[writing] = Absent
    /\ files' = [files EXCEPT ![writing] = Torn]
    /\ UNCHANGED <<writing, edits, signals, pending, configs, wanted, lock, reload>>

CloseFile ==
    /\ writing # NoChain /\ files[writing] = Torn
    /\ files' = [files EXCEPT ![writing] = edits]
    /\ writing' = NoChain
    /\ UNCHANGED <<edits, signals, pending, configs, wanted, lock, reload>>

(* "except OSError: pass": the script goes on, and the file stays as it is. *)
WriteFails ==
    /\ writing # NoChain /\ (files[writing] = Absent \/ WritesFail)
    /\ writing' = NoChain
    /\ UNCHANGED <<files, edits, signals, pending, configs, wanted, lock, reload>>

SendSignal ==
    /\ writing = NoChain /\ signals < MaxSignals
    /\ SignalsOverlap \/ ~Reloading
    /\ signals' = signals + 1 /\ pending' = TRUE
    /\ UNCHANGED <<files, writing, edits, configs, wanted, lock, reload>>

-----------------------------------------------------------------------------
(* A thread needs the config of a message's chain: for the n of a new      *)
(* session, or for the nodes to send to.  Nobody sends messages of a chain *)
(* the node has no config for.                                             *)
GetChainConfig(i, c) ==
    /\ handler[i] = "none" /\ wanted[i] = NoChain /\ configs[c] # Absent
    /\ wanted' = [wanted EXCEPT ![i] = c]
    /\ UNCHANGED <<directory, pending, configs, lock, reload>>

LockShared(i) ==
    /\ handler[i] = "none" /\ wanted[i] # NoChain /\ i \notin readers
    /\ writer = Nobody /\ \A h \in Thread : handler[h] # "locking"
    /\ readers' = readers \cup {i}
    /\ UNCHANGED <<directory, pending, configs, wanted, writer, reload>>

\* Slip: the shared lock is kept.
FindKeepingLock(i) ==
    /\ handler[i] = "none" /\ i \in readers /\ wanted[i] # NoChain
    /\ running' = (configs[wanted[i]] # Absent)
    /\ wanted' = [wanted EXCEPT ![i] = NoChain]
    /\ UNCHANGED <<directory, pending, configs, lock, reload>>

(* A chain that is not there throws, out of io_service::run and the thread.*)
Find(i) ==
    /\ handler[i] = "none" /\ i \in readers
    /\ running' = (configs[wanted[i]] # Absent)
    /\ wanted' = [wanted EXCEPT ![i] = NoChain]
    /\ readers' = readers \ {i}
    /\ UNCHANGED <<directory, pending, configs, writer, reload>>

-----------------------------------------------------------------------------
TakeSignal(h) ==
    /\ pending /\ handler[h] = "none"
    /\ h # Main => handler[Main] # "none"
    /\ pending' = FALSE
    /\ handler' = [handler EXCEPT ![h] = "entered"]
    /\ UNCHANGED <<directory, configs, wanted, lock, todo, loaded>>

\* The loop over the files goes on, or the handler returns.
NextFile(h, rest) ==
    /\ todo' = [todo EXCEPT ![h] = rest]
    /\ handler' = [handler EXCEPT ![h] = IF rest = {} THEN "none" ELSE "listed"]

\* Slip: the configs are dropped before they are read again.
ListFilesAnew(h) ==
    /\ handler[h] = "entered"
    /\ NextFile(h, {c \in Chain : files[c] # Absent})
    /\ configs' = [c \in Chain |-> Absent]
    /\ UNCHANGED <<directory, pending, wanted, lock, loaded>>

ListFiles(h) ==
    /\ handler[h] = "entered"
    /\ NextFile(h, {c \in Chain : files[c] # Absent})
    /\ UNCHANGED <<directory, pending, configs, wanted, lock, loaded>>

(* A file that is gone or cut short throws, out of the handler.            *)
ReadFile(h, c) ==
    /\ handler[h] = "listed" /\ c \in todo[h]
    /\ IF files[c] \in Edition
       THEN /\ loaded' = [loaded EXCEPT ![h] = [chain |-> c, edition |-> files[c]]]
            /\ handler' = [handler EXCEPT ![h] = "locking"]
            /\ UNCHANGED running
       ELSE running' = FALSE /\ UNCHANGED <<loaded, handler>>
    /\ UNCHANGED <<directory, pending, configs, wanted, lock, todo>>

\* Slip: readers are not waited for.
LockAmongReaders(h) ==
    /\ handler[h] = "locking" /\ writer = Nobody
    /\ writer' = h
    /\ handler' = [handler EXCEPT ![h] = "locked"]
    /\ UNCHANGED <<directory, pending, configs, wanted, readers, todo, loaded>>

LockConfigs(h) ==
    /\ handler[h] = "locking" /\ writer = Nobody /\ readers = {}
    /\ writer' = h
    /\ handler' = [handler EXCEPT ![h] = "locked"]
    /\ UNCHANGED <<directory, pending, configs, wanted, readers, todo, loaded>>

\* Slip: a chain that is there keeps its config, as insert would do.
SetChainConfigOnce(h) ==
    LET c == loaded[h].chain
    IN  /\ handler[h] = "locked"
        /\ configs' = [configs EXCEPT ![c] = IF @ = Absent THEN loaded[h].edition ELSE @]
        /\ writer' = Nobody
        /\ NextFile(h, todo[h] \ {c})
        /\ UNCHANGED <<directory, pending, wanted, readers, loaded>>

SetChainConfig(h) ==
    LET c == loaded[h].chain
    IN  /\ handler[h] = "locked"
        /\ configs' = [configs EXCEPT ![c] = loaded[h].edition]
        /\ writer' = Nobody
        /\ NextFile(h, todo[h] \ {c})
        /\ UNCHANGED <<directory, pending, wanted, readers, loaded>>

-----------------------------------------------------------------------------
Lookup(i) ==
    \/ LockShared(i) /\ UNCHANGED running
    \/ Find(i)

ReloadStep(h) ==
    \/ /\ \/ TakeSignal(h)
          \/ ListFiles(h)
          \/ LockConfigs(h)
          \/ SetChainConfig(h)
       /\ UNCHANGED running
    \/ \E c \in Chain : ReadFile(h, c)

Operator ==
    \/ \E c \in Chain : RemoveFile(c)
    \/ OpenFile
    \/ CloseFile
    \/ WriteFails
    \/ SendSignal

Next ==
    /\ running
    /\ \/ Operator /\ UNCHANGED running
       \/ \E i \in Io, c \in Chain : GetChainConfig(i, c) /\ UNCHANGED running
       \/ \E i \in Io : Lookup(i)
       \/ \E h \in Thread : ReloadStep(h)

Spec == Init /\ [][Next]_vars

(* A thread goes on unless it waits for the lock.                          *)
FairSpec ==
    /\ Spec
    /\ \A i \in Io : WF_vars(running /\ Lookup(i))
    /\ \A h \in Thread : WF_vars(running /\ ReloadStep(h))

-----------------------------------------------------------------------------
(* The process does not end while messages come for configured chains only:*)
(* a lookup finds its chain at every point of a reload, and a reload finds *)
(* whole files (node_config.cpp:103, chain_config.cpp:14).                 *)
StaysUp == running

(* What a signal is sent for takes effect: the edition that was in a file  *)
(* is in use some time later, or a later one ("Reload chain configs",      *)
(* main.cpp:17).                                                           *)
ReloadTakesEffect ==
    \A c \in Chain, e \in Edition :
        pending /\ files[c] = e ~> ~running \/ (configs[c] # Absent /\ configs[c] >= e)

(* Reloads do not keep a thread from the config it needs.                  *)
LookupsEnd == \A i \in Io : wanted[i] # NoChain ~> ~running \/ wanted[i] = NoChain

=============================================================================
