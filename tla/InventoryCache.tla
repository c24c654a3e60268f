---------------------------- MODULE InventoryCache ----------------------------
(* The two files in which the runs of ops/ansible/ec2.py keep what they    *)
(* learnt: the inventory in "cache" and the index of hosts in "index".     *)
(* Any number of processes may rewrite them; both files of one process     *)
(* come from one book.                                                     *)
EXTENDS InventoryFiles

CONSTANT Process   \* the runs of the script that may overlap

VARIABLES
    cache,     \* the inventory file
    index,     \* the index file
    writing,   \* where in its two calls of write_to_cache a process is
    mine,      \* what it writes, Absent while it writes nothing
    accident   \* since the last writer that began alone, one began beside
               \* another or stopped half-way

vars == <<cache, index, writing, mine, accident>>

TypeOK ==
    /\ writing \in [Process -> {"no", "cache", "between", "index"}]
    /\ mine = [p \in Process |-> mine[p]]
    /\ \A p \in Process : IF writing[p] = "no" THEN mine[p] = Absent ELSE Readable(mine[p])
    /\ accident \in BOOLEAN

Init ==
    /\ cache = Absent /\ index = Absent
    /\ writing = [p \in Process |-> "no"]
    /\ mine = [p \in Process |-> Absent]
    /\ accident = FALSE

Alone(p) == \A q \in Process \ {p} : writing[q] = "no"

\* What a process has to write is anything readable.
OpenCache(p) ==
    /\ writing[p] = "no"
    /\ writing' = [writing EXCEPT ![p] = "cache"]
    /\ mine' = [mine EXCEPT ![p] = mine'[p]] /\ Readable(mine'[p])
    /\ cache' = Begun
    /\ accident' = ~Alone(p)
    /\ UNCHANGED index

FillCache(p) ==
    /\ writing[p] = "cache"
    /\ writing' = [writing EXCEPT ![p] = "between"]
    /\ cache' \in Filled(cache, mine[p])
    /\ UNCHANGED <<index, mine, accident>>

OpenIndex(p) ==
    /\ writing[p] = "between"
    /\ writing' = [writing EXCEPT ![p] = "index"]
    /\ index' = Begun
    /\ UNCHANGED <<cache, mine, accident>>

FillIndex(p) ==
    /\ writing[p] = "index"
    /\ writing' = [writing EXCEPT ![p] = "no"]
    /\ mine' = [mine EXCEPT ![p] = Absent]
    /\ index' \in Filled(index, mine[p])
    /\ UNCHANGED <<cache, accident>>

\* The process is killed, or a write fails.
StopHalfway(p) ==
    /\ writing[p] # "no"
    /\ writing' = [writing EXCEPT ![p] = "no"]
    /\ mine' = [mine EXCEPT ![p] = Absent]
    /\ accident' = TRUE
    /\ UNCHANGED <<cache, index>>

Next == \E p \in Process :
    \/ OpenCache(p) \/ FillCache(p) \/ OpenIndex(p) \/ FillIndex(p)
    \/ StopHalfway(p)

Spec == Init /\ [][Next]_vars

-----------------------------------------------------------------------------
(* What a reader can count on: when nobody is writing, and no writer since *)
(* the last one that began alone met another or stopped half-way, both     *)
(* files are whole and come from the same refresh.                         *)
Paired ==
    (~accident /\ \A p \in Process : writing[p] = "no")
        => cache = index /\ cache \notin {Begun, Torn}

=============================================================================
