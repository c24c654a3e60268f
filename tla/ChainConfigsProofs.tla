---------------------------- MODULE ChainConfigsProofs ----------------------------
(* Proofs that the variables keep their types, and that reloads do not end *)
(* the process when files are left alone while they are read and what is   *)
(* written of one is written whole.                                        *)
EXTENDS ChainConfigs, TLAPS

FilesLeftAlone == ~WritesOverlap /\ ~WritesFail

\* A lookup in progress is for a chain that is there.
LookupsSound ==
    /\ \A i \in Io : wanted[i] # NoChain => configs[wanted[i]] # Absent
    /\ \A i \in readers : wanted[i] # NoChain

\* Only the file that is being written is torn, and none is during a reload.
FilesWhole ==
    /\ \A c \in Chain : c # writing => files[c] # Torn
    /\ Reloading => writing = NoChain

\* What a handler has still to read is there.
TodoSound ==
    \A h \in Thread : \A c \in todo[h] : files[c] # Absent /\ handler[h] # "none"

StaysUpInv == TypeOK /\ running /\ LookupsSound /\ FilesWhole /\ TodoSound

LEMMA InitEstablishes == Init => StaysUpInv
<1> SUFFICES ASSUME Init PROVE StaysUpInv
  OBVIOUS
<1> USE ChainConfigsAssumption DEF Init
<1>1. TypeOK
  <2>1. 0 \in Edition
    BY DEF Edition
  <2>2. files \in [Chain -> Edition \cup {Absent, Torn}] /\ configs \in [Chain -> Edition \cup {Absent}]
    BY <2>1
  <2>3. loaded \in [Thread -> [chain : Chain \cup {NoChain}, edition : Edition]]
    BY <2>1
  <2>4. signals \in 0..MaxSignals /\ edits \in Edition
    BY <2>1
  <2>5. readers \in SUBSET Io /\ writer \in Thread \cup {Nobody} /\ readers = {}
    OBVIOUS
  <2>6. /\ wanted \in [Io -> Chain \cup {NoChain}]
        /\ handler \in [Thread -> {"none", "entered", "listed", "locking", "locked"}]
        /\ todo \in [Thread -> SUBSET Chain]
    OBVIOUS
  <2>7. QED
    BY <2>2, <2>3, <2>4, <2>5, <2>6 DEF TypeOK
<1>2. running /\ LookupsSound /\ FilesWhole /\ TodoSound
  BY DEF LookupsSound, FilesWhole, TodoSound, Reloading, Thread
<1>3. QED
  BY <1>1, <1>2 DEF StaysUpInv

(* What CloseFile leaves of the directory.                                 *)
LEMMA CloseFileStep ==
  ASSUME TypeOK, CloseFile
  PROVE  /\ pending' = pending /\ handler' = handler /\ todo' = todo
         /\ writing # NoChain /\ writing' = NoChain
         /\ edits # Torn /\ edits # Absent
         /\ \A c \in Chain : files'[c] = IF c = writing THEN edits ELSE files[c]
<1>1. pending' = pending /\ handler' = handler /\ todo' = todo
  BY DEF CloseFile, reload
<1>2. writing # NoChain /\ writing' = NoChain
  BY DEF CloseFile
<1>3. edits # Torn /\ edits # Absent
  <2>1. edits \in Nat
    BY ChainConfigsAssumption DEF TypeOK, Edition
  <2>2. QED
    BY <2>1, ChainConfigsAssumption
<1>4. \A c \in Chain : files'[c] = IF c = writing THEN edits ELSE files[c]
  <2>1. files' = [files EXCEPT ![writing] = edits]
    BY DEF CloseFile
  <2>2. DOMAIN files = Chain
    BY DEF TypeOK
  <2>3. QED
    BY <2>1, <2>2
<1>5. QED
  BY <1>1, <1>2, <1>3, <1>4

LEMMA OperatorPreserves ==
  ASSUME FilesLeftAlone, StaysUpInv, Operator, UNCHANGED running
  PROVE  StaysUpInv'
<1> USE ChainConfigsAssumption DEF FilesLeftAlone, StaysUpInv, TypeOK, Thread, Edition, reload, lock
<1>1. ASSUME NEW c \in Chain, RemoveFile(c) PROVE StaysUpInv'
  <2>1. ~Reloading
    BY <1>1 DEF RemoveFile
  <2>2. TypeOK' /\ LookupsSound'
    BY <1>1 DEF RemoveFile, LookupsSound
  <2>3. FilesWhole' /\ TodoSound'
    BY <1>1, <2>1 DEF RemoveFile, FilesWhole, TodoSound, Reloading
  <2>4. QED
    BY <2>2, <2>3
<1>2. CASE OpenFile
  <2>1. TypeOK' /\ LookupsSound'
    BY <1>2 DEF OpenFile, LookupsSound
  <2>2. FilesWhole' /\ TodoSound'
    BY <1>2 DEF OpenFile, FilesWhole, TodoSound, Reloading
  <2>3. QED
    BY <2>1, <2>2
<1>3. CASE CloseFile
  <2>1. TypeOK' /\ LookupsSound'
    BY <1>3 DEF CloseFile, LookupsSound
  <2>2. FilesWhole'
    <3>1. \A c \in Chain : files'[c] # Torn
      BY <1>3, CloseFileStep DEF FilesWhole
    <3>2. QED
      BY <1>3, <3>1, CloseFileStep DEF FilesWhole, Reloading
  <2>3. TodoSound'
    BY <1>3, CloseFileStep DEF TodoSound
  <2>4. QED
    BY <2>1, <2>2, <2>3
<1>4. CASE SendSignal
  <2>1. TypeOK' /\ LookupsSound'
    BY <1>4 DEF SendSignal, LookupsSound
  <2>2. FilesWhole' /\ TodoSound'
    BY <1>4 DEF SendSignal, FilesWhole, TodoSound, Reloading
  <2>3. QED
    BY <2>1, <2>2
<1>5. CASE WriteFails
  <2>1. TypeOK' /\ LookupsSound'
    BY <1>5 DEF WriteFails, LookupsSound
  <2>2. FilesWhole' /\ TodoSound'
    BY <1>5 DEF WriteFails, FilesWhole, TodoSound, Reloading
  <2>3. QED
    BY <2>1, <2>2
<1>6. QED
  BY <1>1, <1>2, <1>3, <1>4, <1>5 DEF Operator

LEMMA LookupPreserves ==
  ASSUME StaysUpInv, NEW i \in Io,
         \/ \E c \in Chain : GetChainConfig(i, c) /\ UNCHANGED running
         \/ Lookup(i)
  PROVE  StaysUpInv'
<1> USE ChainConfigsAssumption DEF StaysUpInv, TypeOK, Thread, Edition, directory, reload
<1>1. ASSUME NEW c \in Chain, GetChainConfig(i, c), UNCHANGED running PROVE StaysUpInv'
  <2>1. TypeOK' /\ LookupsSound'
    BY <1>1 DEF GetChainConfig, LookupsSound, lock
  <2>2. FilesWhole' /\ TodoSound'
    BY <1>1 DEF GetChainConfig, FilesWhole, TodoSound, Reloading
  <2>3. QED
    BY <1>1, <2>1, <2>2
<1>2. CASE LockShared(i) /\ UNCHANGED running
  <2>1. TypeOK' /\ LookupsSound'
    BY <1>2 DEF LockShared, LookupsSound
  <2>2. FilesWhole' /\ TodoSound'
    BY <1>2 DEF LockShared, FilesWhole, TodoSound, Reloading
  <2>3. QED
    BY <1>2, <2>1, <2>2
<1>3. CASE Find(i)
  <2>1. running'
    BY <1>3 DEF Find, LookupsSound
  <2>2. TypeOK' /\ LookupsSound'
    BY <1>3, <2>1 DEF Find, LookupsSound
  <2>3. FilesWhole' /\ TodoSound'
    BY <1>3 DEF Find, FilesWhole, TodoSound, Reloading
  <2>4. QED
    BY <2>1, <2>2, <2>3
<1>4. QED
  BY <1>1, <1>2, <1>3 DEF Lookup

LEMMA ReloadStepPreserves ==
  ASSUME StaysUpInv, NEW h \in Thread, ReloadStep(h)
  PROVE  StaysUpInv'
<1> USE ChainConfigsAssumption DEF StaysUpInv, TypeOK, Thread, Edition, directory
<1>1. CASE TakeSignal(h) /\ UNCHANGED running
  <2>1. TypeOK' /\ LookupsSound'
    BY <1>1 DEF TakeSignal, LookupsSound, lock
  <2>2. FilesWhole' /\ TodoSound'
    BY <1>1 DEF TakeSignal, FilesWhole, TodoSound, Reloading
  <2>3. QED
    BY <1>1, <2>1, <2>2
<1>2. CASE ListFiles(h) /\ UNCHANGED running
  <2>1. TypeOK' /\ LookupsSound'
    BY <1>2 DEF ListFiles, NextFile, LookupsSound, lock
  <2>2. FilesWhole' /\ TodoSound'
    BY <1>2 DEF ListFiles, NextFile, FilesWhole, TodoSound, Reloading
  <2>3. QED
    BY <1>2, <2>1, <2>2
<1>3. CASE LockConfigs(h) /\ UNCHANGED running
  <2>1. TypeOK' /\ LookupsSound'
    BY <1>3 DEF LockConfigs, LookupsSound
  <2>2. FilesWhole' /\ TodoSound'
    BY <1>3 DEF LockConfigs, FilesWhole, TodoSound, Reloading
  <2>3. QED
    BY <1>3, <2>1, <2>2
<1>4. CASE SetChainConfig(h) /\ UNCHANGED running
  <2>1. loaded[h].edition # Absent /\ loaded[h].edition \in Edition
    BY DEF Edition
  <2>2. TypeOK'
    BY <1>4, <2>1 DEF SetChainConfig, NextFile
  <2>3. LookupsSound'
    BY <1>4, <2>1 DEF SetChainConfig, LookupsSound
  <2>4. FilesWhole' /\ TodoSound'
    BY <1>4 DEF SetChainConfig, NextFile, FilesWhole, TodoSound, Reloading
  <2>5. QED
    BY <1>4, <2>2, <2>3, <2>4
<1>5. ASSUME NEW c \in Chain, ReadFile(h, c) PROVE StaysUpInv'
  <2>1. files[c] \in Edition
    BY <1>5 DEF ReadFile, FilesWhole, TodoSound, Reloading
  <2>2. TypeOK' /\ LookupsSound' /\ running'
    BY <1>5, <2>1 DEF ReadFile, LookupsSound, lock
  <2>3. FilesWhole' /\ TodoSound'
    BY <1>5, <2>1 DEF ReadFile, FilesWhole, TodoSound, Reloading
  <2>4. QED
    BY <2>2, <2>3
<1>6. QED
  BY <1>1, <1>2, <1>3, <1>4, <1>5 DEF ReloadStep

(* The variables keep their types, whatever overlaps and fails: the lock   *)
(* excludes, and what is loaded is an edition.                             *)
THEOREM ChainConfigsTypeCorrect == Spec => []TypeOK
<1>1. Init => TypeOK
  BY InitEstablishes DEF StaysUpInv
<1>2. TypeOK /\ [Next]_vars => TypeOK'
  <2> SUFFICES ASSUME TypeOK, [Next]_vars PROVE TypeOK'
    OBVIOUS
  <2> USE ChainConfigsAssumption DEF TypeOK, Thread, Edition, directory, lock, reload
  <2>1. ASSUME NEW c \in Chain, RemoveFile(c), UNCHANGED running PROVE TypeOK'
    BY <2>1 DEF RemoveFile
  <2>2. ASSUME OpenFile \/ WriteFails \/ SendSignal, UNCHANGED running PROVE TypeOK'
    <3>1. CASE OpenFile
      BY <2>2, <3>1 DEF OpenFile
    <3>2. CASE WriteFails
      BY <2>2, <3>2 DEF WriteFails
    <3>3. CASE SendSignal
      BY <2>2, <3>3 DEF SendSignal
    <3>4. QED
      BY <2>2, <3>1, <3>2, <3>3
  <2>3. ASSUME CloseFile, UNCHANGED running PROVE TypeOK'
    BY <2>3 DEF CloseFile
  <2>4. ASSUME NEW i \in Io, NEW c \in Chain, GetChainConfig(i, c), UNCHANGED running PROVE TypeOK'
    BY <2>4 DEF GetChainConfig
  <2>5. ASSUME NEW i \in Io, LockShared(i), UNCHANGED running PROVE TypeOK'
    BY <2>5 DEF LockShared
  <2>6. ASSUME NEW i \in Io, Find(i) PROVE TypeOK'
    BY <2>6 DEF Find
  <2>7. ASSUME NEW h \in Thread, TakeSignal(h) \/ ListFiles(h), UNCHANGED running PROVE TypeOK'
    <3>1. CASE TakeSignal(h)
      BY <2>7, <3>1 DEF TakeSignal
    <3>2. CASE ListFiles(h)
      BY <2>7, <3>2 DEF ListFiles, NextFile
    <3>3. QED
      BY <2>7, <3>1, <3>2
  <2>8. ASSUME NEW h \in Thread, LockConfigs(h), UNCHANGED running PROVE TypeOK'
    BY <2>8 DEF LockConfigs
  <2>9. ASSUME NEW h \in Thread, SetChainConfig(h), UNCHANGED running PROVE TypeOK'
    BY <2>9 DEF SetChainConfig, NextFile
  <2>10. ASSUME NEW h \in Thread, NEW c \in Chain, ReadFile(h, c) PROVE TypeOK'
    <3>1. CASE files[c] \in Edition
      <4>1. /\ loaded' = [loaded EXCEPT ![h] = [chain |-> c, edition |-> files[c]]]
            /\ handler' = [handler EXCEPT ![h] = "locking"]
        BY <2>10, <3>1 DEF ReadFile
      <4>2. QED
        BY <2>10, <3>1, <4>1 DEF ReadFile
    <3>2. CASE files[c] \notin Edition
      BY <2>10, <3>2 DEF ReadFile
    <3>3. QED
      BY <3>1, <3>2
  <2>11. CASE UNCHANGED vars
    BY <2>11 DEF vars
  <2>12. QED
    BY <2>1, <2>2, <2>3, <2>4, <2>5, <2>6, <2>7, <2>8, <2>9, <2>10, <2>11
    DEF Next, Operator, Lookup, ReloadStep
<1>3. QED
  BY <1>1, <1>2, PTL DEF Spec

(* No lookup misses its chain and no reload finds a broken file, however   *)
(* the threads, the signals and the handlers interleave, as long as nobody *)
(* writes files during a reload and no write is left half-way.             *)
THEOREM ReloadsKeepRunning ==
  ASSUME FilesLeftAlone
  PROVE  Spec => []StaysUp
<1>1. StaysUpInv /\ [Next]_vars => StaysUpInv'
  <2> SUFFICES ASSUME StaysUpInv, [Next]_vars PROVE StaysUpInv'
    OBVIOUS
  <2>1. CASE Next
    BY <2>1, OperatorPreserves, LookupPreserves, ReloadStepPreserves DEF Next
  <2>2. CASE UNCHANGED vars
    BY <2>2 DEF vars, directory, lock, reload, StaysUpInv, TypeOK, LookupsSound,
       FilesWhole, TodoSound, Reloading
  <2>3. QED
    BY <2>1, <2>2
<1>2. StaysUpInv => StaysUp
  BY DEF StaysUpInv, StaysUp
<1>3. QED
  BY InitEstablishes, <1>1, <1>2, PTL DEF Spec
=============================================================================
