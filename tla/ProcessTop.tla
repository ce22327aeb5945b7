----------------------------- MODULE ProcessTop -----------------------------
(* assignments/hw7/top.c: the list of processes is made while processes    *)
(* start and end.  The kernel hands out the names in /proc some at a time, *)
(* in the order of the pids, so a name may be stale when it is looked at.  *)
EXTENDS Integers, Sequences, FiniteSets

CONSTANTS
    Pid,            \* 1 .. n
    MAX_PROC_NUM,
    Rows            \* 10 in the code

VARIABLES
    memsize,        \* VmSize of each process; 0: kernel threads have none
    alive,
    stayed,         \* the processes that have been there since opendir
    cursor,         \* the last pid getdents has handed out
    names,          \* names handed out and not yet looked at
    procs,          \* the pids listed
    shown,          \* the rows printed
    phase           \* "scan", "print" or "done"

world == <<memsize, alive, stayed>>
vars == <<world, cursor, names, procs, shown, phase>>

Init ==
    /\ memsize \in [Pid -> 0 .. 2]
    /\ alive \in SUBSET Pid
    /\ stayed = alive
    /\ cursor = 0
    /\ names = <<>> /\ procs = <<>> /\ shown = <<>>
    /\ phase = "scan"

(* Other processes, while the scan goes on.                                *)
StartProcess(p) ==
    /\ phase = "scan"
    /\ p \notin alive
    /\ alive' = alive \cup {p}
    /\ UNCHANGED <<memsize, stayed, cursor, names, procs, shown, phase>>
EndProcess(p) ==
    /\ phase = "scan"
    /\ p \in alive
    /\ alive' = alive \ {p} /\ stayed' = stayed \ {p}
    /\ UNCHANGED <<memsize, cursor, names, procs, shown, phase>>

Scanning == phase = "scan" /\ Len(procs) < MAX_PROC_NUM

(* getdents under readdir: the next processes there are at this moment.    *)
FillNames ==
    /\ Scanning /\ names = <<>>
    /\ \E p \in alive :
          /\ p > cursor /\ \A q \in alive : q > cursor => p <= q
          /\ LET more == {q \in alive : q > p /\ \A r \in alive : r > p => q <= r}
             IN  \/ names' = <<p>> /\ cursor' = p
                 \/ \E q \in more : names' = <<p, q>> /\ cursor' = q
    /\ UNCHANGED <<world, procs, shown, phase>>

StopAtMissing ==                    \* mutant: return instead of continue
    /\ Scanning /\ names # <<>>
    /\ IF Head(names) \in alive
       THEN names' = Tail(names) /\ UNCHANGED phase
       ELSE names' = <<>> /\ phase' = "print"
    /\ procs' = IF Head(names) \in alive /\ memsize[Head(names)] > 0
                THEN Append(procs, Head(names)) ELSE procs
    /\ UNCHANGED <<world, cursor, shown>>
(* fopen and the first read of status, which gives all of it or nothing.   *)
Look ==
    /\ Scanning /\ names # <<>>
    /\ names' = Tail(names)
    /\ procs' = IF Head(names) \in alive /\ memsize[Head(names)] > 0
                THEN Append(procs, Head(names)) ELSE procs
    /\ UNCHANGED <<world, cursor, shown, phase>>

(* readdir returns NULL, or procs is full.                                 *)
CloseDir ==
    /\ phase = "scan"
    /\ Len(procs) = MAX_PROC_NUM \/ (names = <<>> /\ \A p \in alive : p <= cursor)
    /\ phase' = "print"
    /\ UNCHANGED <<world, cursor, names, procs, shown>>

(* output_proc: qsort by memory, in any order where it is equal, and the   *)
(* first rows.                                                             *)
OutputProc ==
    /\ phase = "print"
    /\ \E sorted \in [1 .. Len(procs) -> Pid] :
          /\ {sorted[i] : i \in DOMAIN sorted} = {procs[i] : i \in DOMAIN procs}
          /\ \A i \in 2 .. Len(procs) : memsize[sorted[i]] <= memsize[sorted[i - 1]]
          /\ procs' = sorted
          /\ shown' = SubSeq(sorted, 1, IF Len(procs) < Rows THEN Len(procs) ELSE Rows)
    /\ phase' = "done"
    /\ UNCHANGED <<world, cursor, names>>

Step == FillNames \/ Look \/ CloseDir \/ OutputProc

Ended == phase = "done"

Next ==
    \/ Step
    \/ \E p \in Pid : StartProcess(p) \/ EndProcess(p)
    \/ Ended /\ UNCHANGED vars

Spec == Init /\ [][Next]_vars

-----------------------------------------------------------------------------
TypeOK ==
    /\ memsize \in [Pid -> 0 .. 2]
    /\ stayed \subseteq alive /\ alive \subseteq Pid
    /\ cursor \in Pid \cup {0}
    /\ names \in Seq(Pid) /\ procs \in Seq(Pid) /\ shown \in Seq(Pid)
    /\ Len(procs) <= MAX_PROC_NUM
    /\ phase \in {"scan", "print", "done"}

(* A process that was there all the time is counted, whatever its          *)
(* neighbours did meanwhile, unless the table is full; none is counted     *)
(* twice; and what is printed is the largest of what was counted.          *)
ListIsComplete ==
    LET counted == {procs[i] : i \in DOMAIN procs}
        printed == {shown[i] : i \in DOMAIN shown}
    IN  Ended =>
          /\ Cardinality(counted) = Len(procs)
          /\ Len(procs) < MAX_PROC_NUM => {p \in stayed : memsize[p] > 0} \subseteq counted
          /\ Cardinality(printed) = (IF Rows < Len(procs) THEN Rows ELSE Len(procs))
          /\ \A p \in printed, q \in counted \ printed : memsize[p] >= memsize[q]
=============================================================================
