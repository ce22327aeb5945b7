-------------------------------- MODULE Shell --------------------------------
(* assignments/hw1/stash.c: the loop that reads a line and runs it.  fork  *)
(* copies the whole shell, what stdio has read ahead included, and a child *)
(* whose execvp fails goes back into main's loop, as another shell on the  *)
(* same input.  A step is a line, from fgets to the wait or the next       *)
(* prompt; what a child does until its execvp is part of its parent's step.*)
EXTENDS Naturals, Sequences, FiniteSets

CONSTANTS
    Pid, None,
    MaxLines    \* bound of the input

Root == CHOOSE p \in Pid : TRUE

VARIABLES
    script,     \* the lines the user has prepared
    fromFile,   \* stdin is a file and is read ahead, or a terminal
    offset,     \* how many lines are taken from stdin
    buffer,     \* per shell: the lines from pos to lim are read ahead
    state,      \* per process
    parent,
    awaited,    \* per shell: whom its waitpid waits for, a set of processes
    older_sibling

input == <<script, fromFile, offset, buffer>>
vars == <<input, state, parent, awaited, older_sibling>>

(* "cd" is any command that stays in the shell: cd, an exit refused as     *)
(* invalid, or an empty line.  "exit " has no status: runExit then looks   *)
(* at a word of an earlier line, or at no word at all.                     *)
Line == {"cd", "exit 0", "exit ", "run", "run &", "missing", "missing &"}
Background == {"run &", "missing &"}

Init ==
    /\ script \in UNION {[1 .. n -> Line] : n \in 0 .. MaxLines}
    /\ fromFile \in BOOLEAN
    /\ offset = 0
    /\ buffer = [p \in Pid |-> [pos |-> 0, lim |-> 0]]
    /\ state = [p \in Pid |-> IF p = Root THEN "reading" ELSE "free"]
    /\ parent = [p \in Pid |-> None]
    /\ awaited = [p \in Pid |-> {}]
    /\ older_sibling = [p \in Pid |-> None]

Shells == {p \in Pid : state[p] \in {"reading", "waiting"}}
Children(p) == {q \in Pid : parent[q] = p /\ state[q] # "free"}

-----------------------------------------------------------------------------
(* The end of a process: it is a zombie until its parent waits for it, and *)
(* its own children are nobody's.                                          *)
Gone(p, table) ==
    [q \in Pid |-> IF q = p THEN IF parent[p] = None THEN "free" ELSE "zombie"
                   ELSE IF parent[q] = p /\ table[q] = "zombie" THEN "free" ELSE table[q]]
End(p) ==
    /\ state' = Gone(p, state)
    /\ parent' = [q \in Pid |-> IF parent[q] = p THEN None ELSE parent[q]]

(* fgets: from the buffer, or from stdin, a file to its end at once.       *)
Buffered(p) == buffer[p].pos < buffer[p].lim
LineNo(p) == IF Buffered(p) THEN buffer[p].pos + 1 ELSE offset + 1
Filled(p) ==
    [pos |-> LineNo(p),
     lim |-> CASE Buffered(p) -> buffer[p].lim
               [] ~Buffered(p) /\ fromFile -> Len(script)
               [] ~Buffered(p) /\ ~fromFile -> offset + 1]
Taken(p) == IF Buffered(p) THEN offset ELSE Filled(p).lim

Gets(p, lines) ==
    /\ state[p] = "reading"
    /\ LineNo(p) <= Len(script)
    /\ script[LineNo(p)] \in lines

ReadsLine(p, lines) ==
    /\ Gets(p, lines)
    /\ buffer' = [buffer EXCEPT ![p] = Filled(p)]
    /\ offset' = Taken(p)

StayInShell(p) ==
    /\ ReadsLine(p, {"cd", "exit "})
    /\ UNCHANGED <<script, fromFile, state, parent, awaited, older_sibling>>

(* The pointer words[1] may as well make the shell crash.                  *)
CrashInExit(p) ==
    /\ ReadsLine(p, {"exit "})
    /\ End(p)
    /\ UNCHANGED <<script, fromFile, awaited, older_sibling>>

(* exit() goes back in a file by what was read ahead.                      *)
Exit(p) ==
    /\ Gets(p, {"exit 0"})
    /\ LET unread == Filled(p).lim - LineNo(p)
       IN  offset' = IF unread <= Taken(p) THEN Taken(p) - unread ELSE Taken(p)
    /\ End(p)
    /\ UNCHANGED <<script, fromFile, buffer, awaited, older_sibling>>

EndOfInput(p) ==
    /\ state[p] = "reading" /\ LineNo(p) > Len(script)
    /\ End(p)
    /\ UNCHANGED <<input, awaited, older_sibling>>

-----------------------------------------------------------------------------
(* runCommand                                                              *)

(* Only the last background child is asked for, without waiting.           *)
OlderIsDone(p) ==
    \E q \in Children(p) : q = older_sibling[p] /\ state[q] = "zombie"
Polled(p) == IF OlderIsDone(p) THEN None ELSE older_sibling[p]
Table(p) == IF OlderIsDone(p) THEN [state EXCEPT ![older_sibling[p]] = "free"] ELSE state

(* Whom the parent waits for.  id is None when fork has failed, as -1, and *)
(* waitpid( -1 ) waits for any child, or returns at once if there is none. *)
AwaitsNobody(p, line, id) == {}     \* mutant: every command in the background
Awaits(p, line, id) ==
    CASE line \in Background -> {}
      [] line \notin Background /\ id # None -> {id}
      [] line \notin Background /\ id = None -> {q \in Children(p) : Table(p)[q] # "free"}

Older(p, line, id) == IF line \in Background THEN id ELSE Polled(p)

AfterLine(p, line, id, table) ==
    LET whom == Awaits(p, line, id)
    IN  /\ awaited' = [awaited EXCEPT ![p] = whom]
        /\ state' = IF whom = {} THEN table ELSE [table EXCEPT ![p] = "waiting"]

RunCommand(p) ==
    /\ Gets(p, {"run", "run &", "missing", "missing &"})
    /\ offset' = Taken(p)
    /\ LET line == script[LineNo(p)]
           child == IF line \in {"run", "run &"} THEN "running" ELSE "reading"
       IN  \E id \in {q \in Pid : Table(p)[q] = "free"} :
              /\ older_sibling' = [older_sibling EXCEPT
                                     ![p] = Older(p, line, id), ![id] = Polled(p)]
              /\ parent' = [parent EXCEPT ![id] = p]
              /\ buffer' = [buffer EXCEPT ![p] = Filled(p), ![id] = Filled(p)]
              /\ AfterLine(p, line, id, [Table(p) EXCEPT ![id] = child])
    /\ UNCHANGED <<script, fromFile>>

ForkFails(p) ==
    /\ ReadsLine(p, {"run", "run &", "missing", "missing &"})
    /\ \A q \in Pid : Table(p)[q] # "free"
    /\ LET line == script[LineNo(p)]
       IN  /\ older_sibling' = [older_sibling EXCEPT ![p] = Older(p, line, None)]
           /\ AfterLine(p, line, None, Table(p))
    /\ UNCHANGED <<script, fromFile, parent>>

(* waitpid returns.                                                        *)
Reap(p) ==
    /\ state[p] = "waiting"
    /\ \E q \in awaited[p] :
          /\ state[q] = "zombie"
          /\ state' = [state EXCEPT ![q] = "free", ![p] = "reading"]
    /\ awaited' = [awaited EXCEPT ![p] = {}]
    /\ UNCHANGED <<input, parent, older_sibling>>

(* A program that was run ends.                                            *)
ProgramEnds(p) ==
    /\ state[p] = "running"
    /\ End(p)
    /\ UNCHANGED <<input, awaited, older_sibling>>

Step(p) ==
    \/ StayInShell(p) \/ CrashInExit(p) \/ Exit(p) \/ EndOfInput(p)
    \/ RunCommand(p) \/ ForkFails(p) \/ Reap(p) \/ ProgramEnds(p)

Ended == \A p \in Pid : state[p] = "free"

Next == (\E p \in Pid : Step(p)) \/ (Ended /\ UNCHANGED vars)

Spec == Init /\ [][Next]_vars

-----------------------------------------------------------------------------
(* Properties                                                              *)

TypeOK ==
    /\ offset \in 0 .. Len(script)
    /\ buffer \in [Pid -> [pos : 0 .. Len(script), lim : 0 .. Len(script)]]
    /\ state \in [Pid -> {"free", "reading", "waiting", "running", "zombie"}]
    /\ parent \in [Pid -> Pid \cup {None}]
    /\ older_sibling \in [Pid -> Pid \cup {None}]
    /\ awaited \in [Pid -> SUBSET Pid]
    /\ \A p \in Pid : awaited[p] # {} <=> state[p] = "waiting"

(* However many shells failed commands have left behind, only one of them  *)
(* takes lines from the input, unless a failed command was in the          *)
(* background: the shell that has forked it waits for it.                  *)
OneReader ==
    (\A i \in 1 .. Len(script) : script[i] # "missing &")
        => Cardinality({p \in Pid : state[p] = "reading"}) <= 1
=============================================================================
