------------------------------ MODULE Pipeline ------------------------------
(* exercises/ex03/pipe.c: the parent joins ps and grep with a pipe.  grep  *)
(* reads to the end of the pipe, which comes when nobody holds a writing   *)
(* end any more, forked copies included.                                   *)
EXTENDS Integers, FiniteSets

CONSTANTS
    MaxLines,       \* that ps prints
    Capacity        \* of the pipe, in lines

VARIABLES
    at,         \* per process: the call it is about to make
    fds,        \* per process: its descriptors of the pipe
    pipe,       \* lines in it
    toPrint,    \* lines ps has yet to print
    got         \* lines grep has read

vars == <<at, fds, pipe, toPrint, got>>

Process == {"parent", "ps", "grep"}

Init ==
    /\ at = [p \in Process |-> IF p = "parent" THEN "fork ps" ELSE "none"]
    /\ fds = [p \in Process |-> IF p = "parent" THEN {"pfd0", "pfd1"} ELSE {}]
    /\ pipe = 0 /\ got = 0
    /\ toPrint \in 0 .. MaxLines

Goto(p, l) == at' = [at EXCEPT ![p] = l]

(* A process ends, and its descriptors are closed.                         *)
Exit(p) ==
    /\ at' = [at EXCEPT ![p] = "zombie"]
    /\ fds' = [fds EXCEPT ![p] = {}]
    /\ UNCHANGED <<pipe, toPrint, got>>

-----------------------------------------------------------------------------
(* The parent.  A fork that fails makes it exit.                           *)

Fork(child, next) ==
    /\ at' = [at EXCEPT !.parent = next, ![child] = "close"]
    /\ fds' = [fds EXCEPT ![child] = fds.parent]
    /\ UNCHANGED <<pipe, toPrint, got>>

CloseInParent ==
    /\ at.parent = "close"
    /\ Goto("parent", "wait")
    /\ fds' = [fds EXCEPT !.parent = @ \ {"pfd0", "pfd1"}]
    /\ UNCHANGED <<pipe, toPrint, got>>

(* wait, twice: for whichever child ends first.                            *)
Wait(next) ==
    /\ \E c \in {"ps", "grep"} :
          /\ at[c] = "zombie"
          /\ at' = [at EXCEPT ![c] = "reaped", !.parent = next]
    /\ UNCHANGED <<fds, pipe, toPrint, got>>

Parent ==
    \/ at.parent = "fork ps" /\ (Fork("ps", "fork grep") \/ Exit("parent"))
    \/ at.parent = "fork grep" /\ (Fork("grep", "close") \/ Exit("parent"))
    \/ CloseInParent
    \/ at.parent = "wait" /\ Wait("wait again")
    \/ at.parent = "wait again" /\ Wait("return")
    \/ at.parent = "return" /\ Exit("parent")

-----------------------------------------------------------------------------
(* The children, until exec                                                *)

Change(p, from, to, set) ==
    /\ at[p] = from
    /\ Goto(p, to)
    /\ fds' = [fds EXCEPT ![p] = set]
    /\ UNCHANGED <<pipe, toPrint, got>>

Plumb(p, unused, end, std) ==
    \/ Change(p, "close", "dup2", fds[p] \ {unused})
    \/ Change(p, "dup2", "close copy", fds[p] \cup {std})
    \/ Change(p, "close copy", "exec", fds[p] \ {end})
    \/ Change(p, "exec", "run", fds[p])
    \/ at[p] = "exec" /\ Exit(p)        \* execlp has failed

(* The programs                                                            *)

Writers == {p \in Process : fds[p] \cap {"pfd1", "stdout"} # {}}
Readers == {p \in Process : fds[p] \cap {"pfd0", "stdin"} # {}}

PsPrints ==
    /\ at.ps = "run" /\ toPrint > 0
    /\ Readers # {} /\ pipe < Capacity
    /\ pipe' = pipe + 1 /\ toPrint' = toPrint - 1
    /\ UNCHANGED <<at, fds, got>>

(* ps is done, or is killed by SIGPIPE.                                    *)
PsEnds == at.ps = "run" /\ (toPrint = 0 \/ Readers = {}) /\ Exit("ps")

Filter ==
    /\ at.grep = "run" /\ pipe > 0
    /\ pipe' = pipe - 1 /\ got' = got + 1
    /\ UNCHANGED <<at, fds, toPrint>>

EndOfFile == at.grep = "run" /\ pipe = 0 /\ Writers = {} /\ Exit("grep")

Ps == Plumb("ps", "pfd0", "pfd1", "stdout") \/ PsPrints \/ PsEnds
Grep == Plumb("grep", "pfd1", "pfd0", "stdin") \/ Filter \/ EndOfFile

Step == Parent \/ Ps \/ Grep

Ended == \A p \in Process : at[p] \in {"none", "zombie", "reaped"}

Next == Step \/ (Ended /\ UNCHANGED vars)

Spec == Init /\ [][Next]_vars

-----------------------------------------------------------------------------
TypeOK ==
    /\ at \in [Process -> {"none", "fork ps", "fork grep", "close", "wait", "wait again",
                           "return", "dup2", "close copy", "exec", "run", "zombie", "reaped"}]
    /\ fds \in [Process -> SUBSET {"pfd0", "pfd1", "stdin", "stdout"}]
    /\ pipe \in 0 .. Capacity /\ toPrint \in 0 .. MaxLines /\ got \in 0 .. MaxLines

(* The parent returns after both children.  If grep has got anything, it    *)
(* has got all that ps had to print: ps was not killed for want of a reader *)
(* and grep did not take the end of somebody else's copy for the end.      *)
NothingLeftBehind ==
    /\ at.parent = "return" => at.ps = "reaped" /\ at.grep = "reaped"
    /\ Ended /\ got > 0 => pipe = 0 /\ toPrint = 0
=============================================================================
