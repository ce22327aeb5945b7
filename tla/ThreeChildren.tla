---------------------------- MODULE ThreeChildren ----------------------------
(* exercises/ex2/children.c: a process forks three children and waits.     *)
(* The children store their pids in copies of pid1 to pid3, so the parent  *)
(* calls waitpid( -1 ) three times, which waits for any child.             *)
EXTENDS Integers, Sequences, FiniteSets

VARIABLES
    parent,     \* "fork", "waitpid", "Done", "failed" or "returned"
    calls,      \* of fork or waitpid that have returned
    child,      \* per child: "none", "sleep", "zombie" or "reaped"
    output

vars == <<parent, calls, child, output>>

Child == 1 .. 3

Init ==
    /\ parent = "fork" /\ calls = 0
    /\ child = [c \in Child |-> "none"]
    /\ output = <<>>

Fork ==
    /\ parent = "fork"
    /\ child' = [child EXCEPT ![calls + 1] = "sleep"]
    /\ calls' = (calls + 1) % 3
    /\ parent' = IF calls = 2 THEN "waitpid" ELSE "fork"
    /\ UNCHANGED output

CannotFork == parent = "fork" /\ parent' = "failed" /\ UNCHANGED <<calls, child, output>>

(* waitpid( pid1, ... ) and so on, with -1.                                *)
WaitWithPid ==                      \* mutant: all three wait for the first child
    /\ parent = "waitpid"
    /\ child[1] \in {"zombie", "reaped"}
    /\ child' = [child EXCEPT ![1] = "reaped"]
    /\ calls' = calls + 1
    /\ parent' = IF calls = 2 THEN "Done" ELSE "waitpid"
    /\ UNCHANGED output
Wait ==
    /\ parent = "waitpid"
    /\ \E c \in Child : child[c] = "zombie" /\ child' = [child EXCEPT ![c] = "reaped"]
    /\ calls' = calls + 1
    /\ parent' = IF calls = 2 THEN "Done" ELSE "waitpid"
    /\ UNCHANGED output

Done ==
    /\ parent = "Done"
    /\ output' = Append(output, "Done")
    /\ parent' = "returned"
    /\ UNCHANGED <<calls, child>>

(* sleep, printf with getppid, exit.  A child whose parent has ended       *)
(* prints the pid of another process.                                      *)
Greet(c) ==
    /\ child[c] = "sleep"
    /\ output' = Append(output, IF parent \in {"failed", "returned"} THEN "child_of_another"
                                ELSE "child_of_parent")
    /\ child' = [child EXCEPT ![c] = "zombie"]
    /\ UNCHANGED <<parent, calls>>

Step == Fork \/ CannotFork \/ Wait \/ Done \/ \E c \in Child : Greet(c)

Ended == parent \in {"failed", "returned"} /\ \A c \in Child : child[c] # "sleep"

Next == Step \/ (Ended /\ UNCHANGED vars)

Spec == Init /\ [][Next]_vars

-----------------------------------------------------------------------------
TypeOK ==
    /\ parent \in {"fork", "waitpid", "Done", "failed", "returned"}
    /\ calls \in 0 .. 3
    /\ child \in [Child -> {"none", "sleep", "zombie", "reaped"}]
    /\ Len(output) <= 4

(* If all forks succeed, all children print before "Done", and they print  *)
(* the pid of the parent.                                                  *)
DoneIsLast ==
    parent = "returned" => output = [k \in 1 .. 4 |-> IF k = 4 THEN "Done" ELSE "child_of_parent"]
=============================================================================
