---------------------------- MODULE SharedEditor ----------------------------
(***************************************************************************)
(* assignments/hw4: edit.c works on a string in shared memory, under a     *)
(* named semaphore; every run of the program is a process that does one    *)
(* command (test: many, one after the other).  The user may kill it, and   *)
(* reset.c starts over.  report takes no lock and writes nothing; it is    *)
(* left out.                                                               *)
(***************************************************************************)
EXTENDS CString, Sequences, FiniteSets

CONSTANTS
    Process,
    None

VARIABLES
    string,
    prev,           \* prev1, prev2 and prev3
    len,
    num_undos,
    sem,
    pc,             \* where in insert, delete or undo a process is
    command,        \* what its command line says
    killed          \* the processes killed between sem_wait and sem_post

edited == <<string, prev, len, num_undos>>
vars == <<edited, sem, pc, command, killed>>

UNDO_LIMIT == 3

Command ==
    [name : {"insert"}, idx : 0 .. STRING_LIMIT - 1, ch : Char]
        \cup [name : {"delete"}, idx : 0 .. STRING_LIMIT - 1]
        \cup [name : {"undo"}]

Holding == {"locked", "saved", "restored", "changed"}

TypeOK ==
    /\ string \in Buffer
    /\ prev \in Seq(Buffer) /\ Len(prev) = UNDO_LIMIT
    /\ len \in 0 .. STRING_LIMIT - 1
    /\ num_undos \in 0 .. UNDO_LIMIT
    /\ sem \in {0, 1}
    /\ pc \in [Process -> {"idle", "waiting", "gone"} \cup Holding]
    /\ command \in [Process -> Command \cup {None}]
    /\ killed \subseteq {p \in Process : pc[p] \in Holding \cup {"gone"}}

(* reset has run on new shared memory, which is all zeros.                 *)
Init ==
    /\ string \in {s \in Buffer : Terminated(s) /\ s = Strncpy(s)}
    /\ prev = <<Filled(<<>>), Filled(<<>>), Filled(<<>>)>>
    /\ len = Strlen(string)
    /\ num_undos = 0
    /\ sem = 1
    /\ pc = [p \in Process |-> "idle"]
    /\ command = [p \in Process |-> None]
    /\ killed = {}

-----------------------------------------------------------------------------
(* What the commands do to the string                                      *)

Refused(c) ==
    CASE c.name = "insert" -> c.idx > len \/ len >= STRING_LIMIT - 1
      [] c.name = "delete" -> c.idx >= len
      [] c.name = "undo" -> num_undos = 0

(* memmove, by len and not by the string.                                  *)
Inserted(i, ch) ==
    [k \in Cell |-> IF k = i THEN ch
                    ELSE IF i < k /\ k <= len + 1 THEN string[k - 1] ELSE string[k]]
Deleted(i) ==
    [k \in Cell |-> IF i <= k /\ k < len THEN string[k + 1] ELSE string[k]]

Changed(c) == IF c.name = "insert" THEN Inserted(c.idx, c.ch) ELSE Deleted(c.idx)

-----------------------------------------------------------------------------
(* The steps of a process                                                  *)

Goto(p, l) == pc' = [pc EXCEPT ![p] = l]

(* main: a process starts and calls insert, delete or undo.                *)
Start(p) ==
    /\ pc[p] = "idle"
    /\ \E c \in Command : command' = [command EXCEPT ![p] = c]
    /\ Goto(p, "waiting")
    /\ UNCHANGED <<edited, sem, killed>>

EnterUnsafe(p) ==                       \* mutant: compiled with -DUNSAFE
    /\ pc[p] = "waiting"
    /\ Goto(p, "locked")
    /\ UNCHANGED <<edited, sem, command, killed>>
Enter(p) ==
    /\ pc[p] = "waiting" /\ sem > 0
    /\ sem' = sem - 1
    /\ Goto(p, "locked")
    /\ UNCHANGED <<edited, command, killed>>

Exit(p) ==
    /\ Goto(p, "idle")
    /\ command' = [command EXCEPT ![p] = None]

RefuseLocked(p) ==                      \* mutant: returns without sem_post
    /\ pc[p] = "locked" /\ Refused(command[p])
    /\ Exit(p)
    /\ UNCHANGED <<edited, sem, killed>>
Refuse(p) ==
    /\ pc[p] = "locked" /\ Refused(command[p])
    /\ sem' = sem + 1
    /\ Exit(p)
    /\ UNCHANGED <<edited, killed>>

(* insert and delete: first the history, then the string.                  *)
Save(p) ==
    /\ pc[p] = "locked" /\ ~Refused(command[p]) /\ command[p].name # "undo"
    /\ prev' = <<Strncpy(string), Strncpy(prev[1]), Strncpy(prev[2])>>
    /\ Goto(p, "saved")
    /\ UNCHANGED <<string, len, num_undos, sem, command, killed>>

CountedPast == num_undos + 1            \* mutant: the test of num_undos is missing
Counted == IF num_undos < UNDO_LIMIT THEN num_undos + 1 ELSE num_undos

Change(p) ==
    /\ pc[p] = "saved"
    /\ string' = Changed(command[p])
    /\ len' = IF command[p].name = "insert" THEN len + 1 ELSE len - 1
    /\ num_undos' = Counted
    /\ Goto(p, "changed")
    /\ UNCHANGED <<prev, sem, command, killed>>

(* undo: first the string, then the history; len stays as it is.           *)
Restore(p) ==
    /\ pc[p] = "locked" /\ ~Refused(command[p]) /\ command[p].name = "undo"
    /\ string' = Strncpy(prev[1])
    /\ Goto(p, "restored")
    /\ UNCHANGED <<prev, len, num_undos, sem, command, killed>>

Shifted == <<Strncpy(prev[2]), Strncpy(prev[3]), prev[3]>>

Shift(p) ==
    /\ pc[p] = "restored"
    /\ prev' = Shifted
    /\ num_undos' = num_undos - 1
    /\ Goto(p, "changed")
    /\ UNCHANGED <<string, len, sem, command, killed>>

Post(p) ==
    /\ pc[p] = "changed"
    /\ sem' = sem + 1
    /\ Exit(p)
    /\ UNCHANGED <<edited, killed>>

InCommand(p) ==
    /\ p \notin killed
    /\ Refuse(p) \/ Save(p) \/ Change(p) \/ Restore(p) \/ Shift(p) \/ Post(p)

(* The user kills a process; nobody gives its semaphore back.              *)
KillWaiting(p) ==
    /\ pc[p] = "waiting"
    /\ Exit(p)
    /\ UNCHANGED <<edited, sem, killed>>
KillHolder(p) ==
    /\ pc[p] \in Holding /\ p \notin killed
    /\ killed' = killed \cup {p}
    /\ UNCHANGED <<edited, sem, pc, command>>

(* reset does not look at the semaphore: sem_open leaves an existing one   *)
(* alone.  The user runs it when no process is at work on the string; what *)
(* killed processes left half-done is gone.                                *)
Reset ==
    /\ \A p \in Process : pc[p] \in Holding => p \in killed
    /\ \E s \in Buffer : Terminated(s) /\ s = Strncpy(s) /\ string' = s /\ len' = Strlen(s)
    /\ num_undos' = 0
    /\ pc' = [p \in Process |-> IF p \in killed THEN "gone" ELSE pc[p]]
    /\ UNCHANGED <<prev, sem, command, killed>>

Next ==
    \/ \E p \in Process : Start(p) \/ Enter(p) \/ InCommand(p) \/ KillWaiting(p) \/ KillHolder(p)
    \/ Reset

(* A process runs on, unless it is killed.                                 *)
Spec ==
    /\ Init
    /\ [][Next]_vars
    /\ \A p \in Process : WF_vars(InCommand(p))

-----------------------------------------------------------------------------
(* Properties                                                              *)

Saved == {p \in Process : pc[p] = "saved"}
Restored == {p \in Process : pc[p] = "restored"}

(* Half-way through an edit the text is already what it will be, and half- *)
(* way through an undo the latest text of the history is already used up.  *)
Text == IF Saved # {} THEN Changed(command[CHOOSE p \in Saved : TRUE]) ELSE string
History ==
    LET used == IF Restored # {} THEN 1 ELSE 0
        last == IF Saved # {} THEN Counted ELSE num_undos
    IN  [i \in 1 .. last - used |-> Visible(prev[last + 1 - i])]

Asked == INSTANCE Editing WITH text <- Visible(Text), past <- History

(* insert and delete do to the text what was asked.  This fails: undo does *)
(* not set len, by which insert moves the characters behind the new one.   *)
ImplementsEditing == Asked!EditingSpec
=============================================================================
