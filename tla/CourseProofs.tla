---------------------------- MODULE CourseProofs ----------------------------
(* What the steps of the shell, the message of the day, the ping-pongs and *)
(* the triangle counters preserve, for every value of their constants.     *)
(* ExercisesProofs takes it to the specification that TLC checks.          *)
EXTENDS Integers, Sequences, FiniteSets, FiniteSetTheorems, TLAPS

CONSTANTS
    Pid, None, MaxLines,
    Client, MaxAdds,
    ITERATIONS,
    Value, MaxLength, FirstCap, MAX_VALUES, workers, OnDevice, Thread

VARIABLES
    script, fromFile, offset, buffer, state, parent, awaited, older_sibling,
    mList, mCount, executed, run, call, sent, answers, count, printed,
    rereads, nextTurn, spinner, laps,
    sem, at, moves,
    vList, vCap, phase, totalTriangles, reported,
    thread, localCount, added, child, pipe, heard,
    nextWorkIndex, workAvailable, posted, workMutex, global_count, place, index, left

Stash == INSTANCE Shell
Messages == INSTANCE Motd
Spinning == INSTANCE PingPongSpin WITH at <- spinner, moves <- laps
Turning == INSTANCE PingPongSem
Goal == INSTANCE TriangleCount WITH list <- vList
Slots == INSTANCE TrianglesSlots
Pipe == INSTANCE TrianglesPipe
Indices == INSTANCE TrianglesSem WITH Worker <- Thread, at <- place

-----------------------------------------------------------------------------
(* The shell.                                                              *)
ShellConstants == None \notin Pid /\ MaxLines \in Nat

(* A shell that waits for a shell, and for nobody else, leaves the reading *)
(* to it.  The shells that do not are where lines may be taken.            *)
Tip(p) == p \in Stash!Shells /\ \A r \in Stash!Shells : awaited[p] # {r}

ShellInv ==
    /\ script \in Seq(Stash!Line)
    /\ Stash!TypeOK
    /\ \A p \in Pid : \A r \in awaited[p] : parent[r] = p /\ state[r] # "free"
    /\ (\A i \in 1 .. Len(script) : script[i] # "missing &")
         => \A p, q \in Pid : Tip(p) /\ Tip(q) => p = q

LEMMA ShellStart ==
    ASSUME ShellConstants, Stash!Init
    PROVE  ShellInv
  <1>1. script \in Seq(Stash!Line) /\ Len(script) \in Nat
    <2>1. PICK n \in 0 .. MaxLines : script \in [1 .. n -> Stash!Line]
      BY DEF Stash!Init
    <2> QED BY <2>1 DEF ShellConstants
  <1>2. Stash!TypeOK
    BY <1>1 DEF Stash!Init, Stash!TypeOK, Stash!Root
  <1>3. \A p \in Pid : awaited[p] = {}
    BY DEF Stash!Init
  <1>4. \A p \in Pid : Tip(p) => p = Stash!Root
    BY DEF Stash!Init, Tip, Stash!Shells
  <1> QED BY <1>1, <1>2, <1>3, <1>4 DEF ShellInv

(* A step that leaves the processes alone.                                 *)
LEMMA SameProcesses ==
    ASSUME ShellInv, Stash!TypeOK', UNCHANGED <<script, state, parent, awaited>>
    PROVE  ShellInv'
  <1>1. Stash!Shells' = Stash!Shells
    BY DEF Stash!Shells
  <1>2. \A p : Tip(p)' <=> Tip(p)
    BY <1>1 DEF Tip
  <1>3. \A p \in Pid : \A r \in awaited'[p] : parent'[r] = p /\ state'[r] # "free"
    BY DEF ShellInv
  <1> QED BY <1>2, <1>3 DEF ShellInv

(* What a shell reads of the input.                                        *)
LEMMA LinesAreRead ==
    ASSUME ShellInv, NEW p \in Pid, NEW lines, Stash!Gets(p, lines)
    PROVE  /\ Stash!LineNo(p) \in 1 .. Len(script)
           /\ Stash!Filled(p) \in [pos : 0 .. Len(script), lim : 0 .. Len(script)]
           /\ Stash!Taken(p) \in 0 .. Len(script)
           /\ state[p] = "reading" /\ script[Stash!LineNo(p)] \in lines
  <1> DEFINE n == Len(script)
  <1>1. /\ n \in Nat /\ offset \in 0 .. n
        /\ buffer[p] \in [pos : 0 .. n, lim : 0 .. n]
    <2>1. n \in Nat
      <3>1. script \in Seq(Stash!Line)
        BY DEF ShellInv
      <3> QED BY <3>1
    <2> QED BY <2>1 DEF ShellInv, Stash!TypeOK
  <1>2. /\ state[p] = "reading" /\ Stash!LineNo(p) <= n
        /\ script[Stash!LineNo(p)] \in lines
    BY DEF Stash!Gets
  <1>3. Stash!LineNo(p) \in 1 .. n
    BY <1>1, <1>2 DEF Stash!LineNo, Stash!Buffered
  <1>4. CASE Stash!Buffered(p)
    BY <1>1, <1>2, <1>3, <1>4 DEF Stash!Filled, Stash!Taken
  <1>5. CASE ~Stash!Buffered(p) /\ fromFile
    BY <1>1, <1>2, <1>3, <1>5 DEF Stash!Filled, Stash!Taken
  <1>6. CASE ~Stash!Buffered(p) /\ ~fromFile
    BY <1>1, <1>2, <1>3, <1>6 DEF Stash!Filled, Stash!Taken, Stash!LineNo
  <1> QED BY <1>2, <1>3, <1>4, <1>5, <1>6

LEMMA StayKeepsShellInv ==
    ASSUME ShellInv, NEW p \in Pid, Stash!StayInShell(p)
    PROVE  ShellInv'
  <1>1. /\ Stash!Filled(p) \in [pos : 0 .. Len(script), lim : 0 .. Len(script)]
        /\ Stash!Taken(p) \in 0 .. Len(script)
    BY LinesAreRead DEF Stash!StayInShell, Stash!ReadsLine
  <1>2. /\ buffer' = [buffer EXCEPT ![p] = Stash!Filled(p)]
        /\ offset' = Stash!Taken(p)
        /\ UNCHANGED <<script, state, parent, awaited, older_sibling>>
    BY DEF Stash!StayInShell, Stash!ReadsLine
  <1>3. Stash!TypeOK'
    BY <1>1, <1>2 DEF ShellInv, Stash!TypeOK
  <1> QED BY <1>2, <1>3, SameProcesses

(* A process that reads or runs ends.  Whoever waits for it now waits for  *)
(* a zombie, and becomes the one tip if it was one.                        *)
LEMMA EndKeepsShellInv ==
    ASSUME ShellConstants, ShellInv, NEW p \in Pid, state[p] \in {"reading", "running"},
           Stash!End(p), UNCHANGED <<script, awaited, older_sibling>>,
           offset' \in 0 .. Len(script),
           buffer' \in [Pid -> [pos : 0 .. Len(script), lim : 0 .. Len(script)]]
    PROVE  ShellInv'
  <1> USE DEF Stash!Shells
  <1>1. /\ state' \in [Pid -> {"free", "reading", "waiting", "running", "zombie"}]
        /\ parent' \in [Pid -> Pid \cup {None}]
        /\ state'[p] \in {"free", "zombie"}
        /\ parent[p] # None => state'[p] = "zombie"
        /\ \A q \in Pid : q # p => state'[q] = state[q]
                            \/ (state[q] = "zombie" /\ state'[q] = "free" /\ parent[q] = p)
        /\ \A q \in Pid : parent[q] # p => parent'[q] = parent[q]
    BY DEF ShellInv, Stash!TypeOK, Stash!End, Stash!Gone
  <1>2. /\ awaited \in [Pid -> SUBSET Pid]
        /\ \A q \in Pid : awaited[q] # {} <=> state[q] = "waiting"
        /\ \A q \in Pid : \A r \in awaited[q] : parent[r] = q /\ state[r] # "free"
    BY DEF ShellInv, Stash!TypeOK
  <1>3. Stash!TypeOK'
    BY <1>1, <1>2 DEF ShellInv, Stash!TypeOK
  <1>4. ASSUME NEW q \in Pid, NEW r \in awaited'[q]
        PROVE  parent'[r] = q /\ state'[r] # "free"
    <2>1. r \in Pid /\ parent[r] = q /\ q # p /\ q # None
      BY <1>2, <1>4 DEF ShellConstants
    <2>2. parent'[r] = q /\ state[r] # "free"
      BY <1>1, <1>2, <1>4, <2>1
    <2>3. CASE r = p
      BY <1>1, <2>1, <2>2, <2>3
    <2>4. CASE r # p
      BY <1>1, <2>1, <2>2, <2>4
    <2> QED BY <2>2, <2>3, <2>4
  <1>5. ASSUME \A a, b \in Pid : Tip(a) /\ Tip(b) => a = b
        PROVE  (\A a, b \in Pid : Tip(a) /\ Tip(b) => a = b)'
    <2>1. ASSUME NEW a \in Pid, Tip(a)', ~Tip(a)
          PROVE  awaited[a] = {p} /\ p \in Stash!Shells
      BY <1>1, <1>2, <2>1 DEF Tip
    <2>2. \A a \in Pid : Tip(a)' => a # p
      BY <1>1 DEF Tip
    <2>3. ASSUME NEW a \in Pid, Tip(a)', ~Tip(a)
          PROVE  Tip(p)
      BY <1>2, <2>1, <2>3 DEF Tip
    <2> QED BY <1>2, <1>5, <2>1, <2>2, <2>3
  <1> QED BY <1>3, <1>4, <1>5 DEF ShellInv

LEMMA ReapKeepsShellInv ==
    ASSUME ShellInv, NEW p \in Pid, Stash!Reap(p)
    PROVE  ShellInv'
  <1> USE DEF Stash!Shells
  <1>1. PICK q \in awaited[p] :
              /\ state[q] = "zombie"
              /\ state' = [state EXCEPT ![q] = "free", ![p] = "reading"]
    BY DEF Stash!Reap
  <1>2. /\ state[p] = "waiting" /\ awaited' = [awaited EXCEPT ![p] = {}]
        /\ UNCHANGED <<script, fromFile, offset, buffer, parent, older_sibling>>
    BY DEF Stash!Reap, Stash!input
  <1>3. /\ awaited \in [Pid -> SUBSET Pid]
        /\ \A a \in Pid : awaited[a] # {} <=> state[a] = "waiting"
        /\ \A a \in Pid : \A r \in awaited[a] : parent[r] = a /\ state[r] # "free"
        /\ state \in [Pid -> {"free", "reading", "waiting", "running", "zombie"}]
    BY DEF ShellInv, Stash!TypeOK
  <1>4. q \in Pid /\ parent[q] = p /\ q # p
    BY <1>1, <1>2, <1>3
  <1>5. Stash!TypeOK'
    BY <1>1, <1>2, <1>3, <1>4 DEF ShellInv, Stash!TypeOK
  <1>6. ASSUME NEW a \in Pid, NEW r \in awaited'[a]
        PROVE  parent'[r] = a /\ state'[r] # "free"
    BY <1>1, <1>2, <1>3, <1>4, <1>6
  <1>7. \A a \in Pid : Tip(a)' => Tip(a)
    BY <1>1, <1>2, <1>3, <1>4 DEF Tip
  <1> QED BY <1>2, <1>5, <1>6, <1>7 DEF ShellInv

(* The processes once an older child has been asked for.                   *)
LEMMA TableIsState ==
    ASSUME ShellInv, NEW p \in Pid, state[p] = "reading"
    PROVE  /\ Stash!Table(p) \in [Pid -> {"free", "reading", "waiting", "running", "zombie"}]
           /\ \A q \in Pid : Stash!Table(p)[q] = state[q]
                 \/ (state[q] = "zombie" /\ Stash!Table(p)[q] = "free" /\ parent[q] = p)
           /\ Stash!Polled(p) \in Pid \cup {None}
  <1>1. /\ state \in [Pid -> {"free", "reading", "waiting", "running", "zombie"}]
        /\ older_sibling[p] \in Pid \cup {None}
    BY DEF ShellInv, Stash!TypeOK
  <1>2. CASE Stash!OlderIsDone(p)
    <2>1. /\ older_sibling[p] \in Pid /\ parent[older_sibling[p]] = p
          /\ state[older_sibling[p]] = "zombie"
      BY <1>2 DEF Stash!OlderIsDone, Stash!Children
    <2> QED BY <1>1, <1>2, <2>1 DEF Stash!Table, Stash!Polled
  <1>3. CASE ~Stash!OlderIsDone(p)
    BY <1>1, <1>3 DEF Stash!Table, Stash!Polled
  <1> QED BY <1>2, <1>3

(* Whom a shell waits for after a line.                                    *)
LEMMA WhomIsAwaited ==
    ASSUME ShellConstants, NEW p \in Pid, NEW line \in Stash!Line, NEW id \in Pid \cup {None}
    PROVE  /\ line \in Stash!Background => Stash!Awaits(p, line, id) = {}
           /\ line \notin Stash!Background /\ id # None => Stash!Awaits(p, line, id) = {id}
           /\ line \notin Stash!Background /\ id = None
                => Stash!Awaits(p, line, id) = {q \in Stash!Children(p) : Stash!Table(p)[q] # "free"}
  BY DEF Stash!Awaits

(* A command: fork, and the parent waits for its child unless the command  *)
(* is in the background.                                                   *)
LEMMA RunKeepsShellInv ==
    ASSUME ShellConstants, ShellInv, NEW p \in Pid, Stash!RunCommand(p)
    PROVE  ShellInv'
  <1> DEFINE line == script[Stash!LineNo(p)]
             table == Stash!Table(p)
             begun == IF line \in {"run", "run &"} THEN "running" ELSE "reading"
             places == [pos : 0 .. Len(script), lim : 0 .. Len(script)]
  <1> USE DEF Stash!Shells
  <1>1. /\ line \in {"run", "run &", "missing", "missing &"}
        /\ Stash!LineNo(p) \in 1 .. Len(script)
        /\ state[p] = "reading"
        /\ Stash!Filled(p) \in places
        /\ Stash!Taken(p) \in 0 .. Len(script)
    BY LinesAreRead DEF Stash!RunCommand
  <1>2. /\ table \in [Pid -> {"free", "reading", "waiting", "running", "zombie"}]
        /\ \A q \in Pid : table[q] = state[q]
                 \/ (state[q] = "zombie" /\ table[q] = "free" /\ parent[q] = p)
        /\ Stash!Polled(p) \in Pid \cup {None}
    BY <1>1, TableIsState
  <1>3. PICK id \in Pid :
          /\ table[id] = "free"
          /\ older_sibling' = [older_sibling EXCEPT
                                 ![p] = Stash!Older(p, line, id), ![id] = Stash!Polled(p)]
          /\ parent' = [parent EXCEPT ![id] = p]
          /\ buffer' = [buffer EXCEPT ![p] = Stash!Filled(p), ![id] = Stash!Filled(p)]
          /\ Stash!AfterLine(p, line, id, [table EXCEPT ![id] = begun])
    BY DEF Stash!RunCommand
  <1>4. offset' = Stash!Taken(p) /\ UNCHANGED <<script, fromFile>>
    BY DEF Stash!RunCommand
  <1>5. /\ awaited \in [Pid -> SUBSET Pid]
        /\ \A a \in Pid : awaited[a] # {} <=> state[a] = "waiting"
        /\ \A a \in Pid : \A r \in awaited[a] : parent[r] = a /\ state[r] # "free"
        /\ parent \in [Pid -> Pid \cup {None}]
        /\ older_sibling \in [Pid -> Pid \cup {None}]
    BY DEF ShellInv, Stash!TypeOK
  <1>6. line \in Stash!Line /\ id # None /\ id # p
    BY <1>1, <1>2, <1>3 DEF ShellConstants, Stash!Line
  <1>7. CASE line \in Stash!Background
    <2>1. /\ awaited' = [awaited EXCEPT ![p] = {}]
          /\ state' = [table EXCEPT ![id] = begun]
      BY <1>3, <1>6, <1>7, WhomIsAwaited DEF Stash!AfterLine
    <2>2. Stash!TypeOK'
      <3>1. Stash!Older(p, line, id) \in Pid \cup {None}
        BY <1>7 DEF Stash!Older
      <3> QED BY <1>1, <1>2, <1>3, <1>4, <1>5, <1>6, <2>1, <3>1 DEF ShellInv, Stash!TypeOK
    <2>3. ASSUME NEW a \in Pid, NEW r \in awaited'[a]
          PROVE  parent'[r] = a /\ state'[r] # "free"
      <3>1. r \in awaited[a] /\ a # p /\ r \in Pid
        BY <1>5, <2>1, <2>3
      <3>2. parent[r] = a /\ state[r] # "free"
        BY <1>5, <3>1
      <3>3. r # id
        BY <1>2, <1>3, <3>1, <3>2
      <3> QED BY <1>2, <1>3, <1>5, <2>1, <3>1, <3>2, <3>3
    <2>4. CASE line = "run &"
      <3>1. \A a \in Pid : Tip(a)' => Tip(a)
        BY <1>1, <1>2, <1>3, <1>5, <1>6, <2>1, <2>4 DEF Tip
      <3> QED BY <1>4, <2>2, <2>3, <3>1 DEF ShellInv
    <2>5. CASE line = "missing &"
      BY <1>1, <1>4, <2>2, <2>3, <2>5 DEF ShellInv
    <2> QED BY <1>7, <2>4, <2>5 DEF Stash!Background
  <1>8. CASE line \notin Stash!Background
    <2>1. /\ awaited' = [awaited EXCEPT ![p] = {id}]
          /\ state' = [[table EXCEPT ![id] = begun] EXCEPT ![p] = "waiting"]
      <3>1. Stash!Awaits(p, line, id) = {id}
        BY <1>6, <1>8, WhomIsAwaited
      <3> QED BY <1>3, <3>1 DEF Stash!AfterLine
    <2>2. Stash!TypeOK'
      <3>1. Stash!Older(p, line, id) \in Pid \cup {None}
        BY <1>2, <1>8 DEF Stash!Older
      <3>2. state' \in [Pid -> {"free", "reading", "waiting", "running", "zombie"}]
        BY <1>2, <2>1
      <3>3. \A a \in Pid : awaited'[a] # {} <=> state'[a] = "waiting"
        BY <1>2, <1>3, <1>5, <1>6, <2>1
      <3>4. awaited' \in [Pid -> SUBSET Pid] /\ parent' \in [Pid -> Pid \cup {None}]
        BY <1>3, <1>5, <2>1
      <3>5. older_sibling' \in [Pid -> Pid \cup {None}]
        BY <1>2, <1>3, <1>5, <3>1
      <3>6. buffer' \in [Pid -> places] /\ offset' \in 0 .. Len(script)
        BY <1>1, <1>3, <1>4 DEF ShellInv, Stash!TypeOK
      <3> QED BY <1>4, <3>2, <3>3, <3>4, <3>5, <3>6 DEF Stash!TypeOK
    <2>3. ASSUME NEW a \in Pid, NEW r \in awaited'[a]
          PROVE  parent'[r] = a /\ state'[r] # "free"
      <3>1. CASE a = p
        <4>1. r = id
          BY <1>5, <2>1, <2>3, <3>1
        <4>2. parent'[id] = p /\ state'[id] = begun
          BY <1>2, <1>3, <1>5, <1>6, <2>1
        <4> QED BY <3>1, <4>1, <4>2
      <3>2. CASE a # p
        <4>1. r \in awaited[a] /\ r \in Pid
          BY <1>5, <2>1, <2>3, <3>2
        <4>2. parent[r] = a /\ state[r] # "free"
          BY <1>5, <4>1
        <4>3. r # id
          BY <1>2, <1>3, <3>2, <4>1, <4>2
        <4> QED BY <1>2, <1>3, <1>5, <2>1, <3>2, <4>1, <4>2, <4>3
      <3> QED BY <3>1, <3>2
    <2>4. CASE line = "run"
      <3>1. \A a \in Pid : Tip(a)' => Tip(a)
        BY <1>1, <1>2, <1>3, <1>5, <1>6, <2>1, <2>4 DEF Tip
      <3> QED BY <1>4, <2>2, <2>3, <3>1 DEF ShellInv
    <2>5. CASE line = "missing"
      <3>1. \A a \in Pid : Tip(a)' => a = id \/ (a # p /\ Tip(a))
        BY <1>1, <1>2, <1>3, <1>5, <1>6, <2>1, <2>5 DEF Tip
      <3>2. Tip(p)
        BY <1>1, <1>5 DEF Tip
      <3> QED BY <1>4, <2>2, <2>3, <3>1, <3>2 DEF ShellInv
    <2> QED BY <1>1, <1>8, <2>4, <2>5 DEF Stash!Background
  <1> QED BY <1>7, <1>8

(* A command that cannot be forked: the parent waits for any child.        *)
LEMMA ForkFailsKeepsShellInv ==
    ASSUME ShellConstants, ShellInv, NEW p \in Pid, Stash!ForkFails(p)
    PROVE  ShellInv'
  <1> DEFINE line == script[Stash!LineNo(p)]
             table == Stash!Table(p)
             whom == Stash!Awaits(p, line, None)
             places == [pos : 0 .. Len(script), lim : 0 .. Len(script)]
  <1> USE DEF Stash!Shells
  <1>1. /\ line \in {"run", "run &", "missing", "missing &"}
        /\ state[p] = "reading"
        /\ Stash!Filled(p) \in places
        /\ Stash!Taken(p) \in 0 .. Len(script)
    BY LinesAreRead DEF Stash!ForkFails, Stash!ReadsLine
  <1>2. /\ table \in [Pid -> {"free", "reading", "waiting", "running", "zombie"}]
        /\ \A q \in Pid : table[q] = state[q]
                 \/ (state[q] = "zombie" /\ table[q] = "free" /\ parent[q] = p)
        /\ Stash!Polled(p) \in Pid \cup {None}
    BY <1>1, TableIsState
  <1>3. /\ older_sibling' = [older_sibling EXCEPT ![p] = Stash!Older(p, line, None)]
        /\ awaited' = [awaited EXCEPT ![p] = whom]
        /\ state' = IF whom = {} THEN table ELSE [table EXCEPT ![p] = "waiting"]
        /\ buffer' = [buffer EXCEPT ![p] = Stash!Filled(p)]
        /\ offset' = Stash!Taken(p)
        /\ UNCHANGED <<script, fromFile, parent>>
    BY DEF Stash!ForkFails, Stash!ReadsLine, Stash!AfterLine
  <1>4. /\ awaited \in [Pid -> SUBSET Pid]
        /\ \A a \in Pid : awaited[a] # {} <=> state[a] = "waiting"
        /\ \A a \in Pid : \A r \in awaited[a] : parent[r] = a /\ state[r] # "free"
        /\ older_sibling \in [Pid -> Pid \cup {None}]
    BY DEF ShellInv, Stash!TypeOK
  <1>5. whom \subseteq {q \in Pid : parent[q] = p /\ table[q] # "free"}
    <2>1. line \in Stash!Line
      BY <1>1 DEF Stash!Line
    <2> QED BY <2>1, WhomIsAwaited DEF Stash!Children
  <1>6. /\ state'[p] = IF whom = {} THEN "reading" ELSE "waiting"
        /\ \A q \in Pid : q # p => state'[q] = table[q]
        /\ state' \in [Pid -> {"free", "reading", "waiting", "running", "zombie"}]
    <2>1. table[p] = "reading"
      BY <1>1, <1>2
    <2> QED BY <1>2, <1>3, <2>1
  <1>7. Stash!TypeOK'
    <2>1. Stash!Older(p, line, None) \in Pid \cup {None}
      BY <1>2 DEF Stash!Older
    <2>2. \A a \in Pid : awaited'[a] # {} <=> state'[a] = "waiting"
      BY <1>2, <1>3, <1>4, <1>6
    <2>3. awaited' \in [Pid -> SUBSET Pid]
      BY <1>3, <1>4, <1>5
    <2>4. older_sibling' \in [Pid -> Pid \cup {None}]
      BY <1>3, <1>4, <2>1
    <2>5. buffer' \in [Pid -> places] /\ offset' \in 0 .. Len(script)
      BY <1>1, <1>3 DEF ShellInv, Stash!TypeOK
    <2>6. parent' \in [Pid -> Pid \cup {None}]
      BY <1>3 DEF ShellInv, Stash!TypeOK
    <2> QED BY <1>3, <1>6, <2>2, <2>3, <2>4, <2>5, <2>6 DEF Stash!TypeOK
  <1>8. ASSUME NEW a \in Pid, NEW r \in awaited'[a]
        PROVE  parent'[r] = a /\ state'[r] # "free"
    <2>1. CASE a = p
      <3>1. r \in whom
        BY <1>3, <1>4, <1>8, <2>1
      <3>2. r \in Pid /\ parent[r] = p /\ table[r] # "free"
        BY <1>5, <3>1
      <3> QED BY <1>3, <1>6, <2>1, <3>1, <3>2
    <2>2. CASE a # p
      <3>1. r \in awaited[a] /\ r \in Pid
        BY <1>3, <1>4, <1>8, <2>2
      <3>2. parent[r] = a /\ state[r] # "free"
        BY <1>4, <3>1
      <3> QED BY <1>2, <1>3, <1>6, <2>2, <3>1, <3>2
    <2> QED BY <2>1, <2>2
  <1>9. \A a \in Pid : Tip(a)' => Tip(a)
    <2>1. \A q \in Pid : q \in Stash!Shells' <=> q \in Stash!Shells
      BY <1>1, <1>2, <1>6
    <2>2. Tip(p)
      BY <1>1, <1>4 DEF Tip
    <2>3. \A a \in Pid : a # p => awaited'[a] = awaited[a]
      BY <1>3, <1>4
    <2> QED BY <2>1, <2>2, <2>3 DEF Tip
  <1> QED BY <1>3, <1>7, <1>8, <1>9 DEF ShellInv

LEMMA ShellStays ==
    ASSUME ShellConstants, ShellInv, [Stash!Next]_Stash!vars
    PROVE  ShellInv'
  <1> DEFINE places == [pos : 0 .. Len(script), lim : 0 .. Len(script)]
  <1>0. /\ offset \in 0 .. Len(script) /\ buffer \in [Pid -> places]
        /\ Len(script) \in Nat
    <2>1. script \in Seq(Stash!Line)
      BY DEF ShellInv
    <2>2. Len(script) \in Nat
      BY <2>1
    <2> QED BY <2>2 DEF ShellInv, Stash!TypeOK
  <1>1. ASSUME NEW p \in Pid, Stash!CrashInExit(p) PROVE ShellInv'
    <2>1. /\ state[p] = "reading" /\ Stash!End(p)
          /\ buffer' = [buffer EXCEPT ![p] = Stash!Filled(p)]
          /\ offset' = Stash!Taken(p)
          /\ UNCHANGED <<script, awaited, older_sibling>>
      BY <1>1 DEF Stash!CrashInExit, Stash!ReadsLine, Stash!Gets
    <2>2. Stash!Filled(p) \in places /\ Stash!Taken(p) \in 0 .. Len(script)
      BY <1>1, LinesAreRead DEF Stash!CrashInExit, Stash!ReadsLine
    <2>3. buffer' \in [Pid -> places] /\ offset' \in 0 .. Len(script)
      BY <1>0, <2>1, <2>2
    <2> QED BY <2>1, <2>3, EndKeepsShellInv
  <1>2. ASSUME NEW p \in Pid, Stash!Exit(p) PROVE ShellInv'
    <2>1. /\ state[p] = "reading" /\ Stash!End(p)
          /\ UNCHANGED <<script, buffer, awaited, older_sibling>>
      BY <1>2 DEF Stash!Exit, Stash!Gets
    <2>2. /\ Stash!Filled(p) \in places /\ Stash!Taken(p) \in 0 .. Len(script)
          /\ Stash!LineNo(p) \in 1 .. Len(script)
      BY <1>2, LinesAreRead DEF Stash!Exit
    <2>3. PICK unread : unread = Stash!Filled(p).lim - Stash!LineNo(p)
      OBVIOUS
    <2>4. offset' = IF unread <= Stash!Taken(p) THEN Stash!Taken(p) - unread
                    ELSE Stash!Taken(p)
      BY <1>2, <2>3 DEF Stash!Exit
    <2>5. Stash!Taken(p) - unread <= Len(script)
      <3> DEFINE F == Stash!Filled(p)
      <3>1. F.lim \in 0 .. Len(script) /\ F.pos = Stash!LineNo(p)
        BY <2>2 DEF Stash!Filled
      <3>2. CASE ~Stash!Buffered(p)
        <4>1. Stash!Taken(p) = F.lim
          BY <3>2 DEF Stash!Taken
        <4> QED BY <1>0, <2>2, <2>3, <3>1, <4>1
      <3>3. CASE Stash!Buffered(p)
        <4>1. F.lim >= Stash!LineNo(p)
          BY <1>0, <1>2, <3>3 DEF Stash!Filled, Stash!LineNo, Stash!Buffered
        <4> QED BY <1>0, <2>2, <2>3, <3>1, <4>1
      <3> QED BY <3>2, <3>3
    <2>6. offset' \in 0 .. Len(script)
      BY <1>0, <2>2, <2>3, <2>4, <2>5
    <2> QED BY <1>0, <2>1, <2>6, EndKeepsShellInv
  <1>3. ASSUME NEW p \in Pid, Stash!EndOfInput(p) PROVE ShellInv'
    <2>1. /\ state[p] = "reading" /\ Stash!End(p)
          /\ UNCHANGED <<script, offset, buffer, awaited, older_sibling>>
      BY <1>3 DEF Stash!EndOfInput, Stash!input
    <2> QED BY <1>0, <2>1, EndKeepsShellInv
  <1>4. ASSUME NEW p \in Pid, Stash!ProgramEnds(p) PROVE ShellInv'
    <2>1. /\ state[p] = "running" /\ Stash!End(p)
          /\ UNCHANGED <<script, offset, buffer, awaited, older_sibling>>
      BY <1>4 DEF Stash!ProgramEnds, Stash!input
    <2> QED BY <1>0, <2>1, EndKeepsShellInv
  <1>5. CASE UNCHANGED Stash!vars
    BY <1>5, SameProcesses DEF ShellInv, Stash!TypeOK, Stash!vars, Stash!input
  <1>6. ASSUME NEW p \in Pid, Stash!Step(p) PROVE ShellInv'
    BY <1>1, <1>2, <1>3, <1>4, <1>6, StayKeepsShellInv, RunKeepsShellInv,
       ForkFailsKeepsShellInv, ReapKeepsShellInv DEF Stash!Step
  <1> QED BY <1>5, <1>6 DEF Stash!Next

(* A shell that reads is a tip.                                            *)
LEMMA TipsRead == ShellInv => Stash!OneReader
  <1> DEFINE readers == {p \in Pid : state[p] = "reading"}
             noneBehind == \A i \in 1 .. Len(script) : script[i] # "missing &"
  <1>1. \A p \in readers : Tip(p) \/ ~ShellInv
    <2> SUFFICES ASSUME ShellInv, NEW p \in readers PROVE Tip(p)
      OBVIOUS
    <2>1. awaited[p] = {}
      BY DEF ShellInv, Stash!TypeOK
    <2> QED BY <2>1 DEF Tip, Stash!Shells
  <1>2. ASSUME ShellInv, noneBehind PROVE \A p, q \in readers : p = q
    BY <1>1, <1>2 DEF ShellInv
  <1>3. ASSUME \A p, q \in readers : p = q PROVE Cardinality(readers) <= 1
    <2>1. CASE readers = {}
      <3>1. Cardinality(readers) = 0
        BY <2>1, FS_EmptySet
      <3> QED BY <3>1
    <2>2. CASE readers # {}
      <3>1. PICK p \in readers : TRUE
        BY <2>2
      <3>2. readers = {p}
        BY <1>3, <3>1
      <3>3. Cardinality(readers) = 1
        BY <3>2, FS_Singleton
      <3> QED BY <3>3
    <2> QED BY <2>1, <2>2
  <1>4. ShellInv /\ noneBehind => Cardinality(readers) <= 1
    BY <1>2, <1>3
  <1>5. Stash!Cardinality(readers) = Cardinality(readers)
    BY DEF Cardinality, Stash!Cardinality
  <1> QED BY <1>4, <1>5 DEF Stash!OneReader

-----------------------------------------------------------------------------
(* The message of the day.                                                 *)
MotdConstants == None \notin Messages!Request /\ MaxAdds \in Nat

(* The server keeps the newest messages, the last one first.               *)
NewestFirst ==
    /\ mCount = IF executed < 3 THEN executed ELSE 3
    /\ \A i \in 0 .. 2 : i < mCount => mList[i] = executed - i

(* What a listing has shown so far.                                        *)
NoGaps(s) == \A i \in 1 .. Len(s) : s[i] # 0 /\ (i > 1 => s[i] >= s[i - 1] - 1)

(* What an answer to the i-th get can be: by then messages may have been   *)
(* added, but the count has not gone down.                                 *)
Fits(v, s, i) == v > 0 /\ v <= executed - i /\ (i > 0 => v >= s[i] - 1)

AnswersTo(c) == {a \in answers : a.to = c}

Asking(c) ==
    /\ call[c].proc = "count" /\ call[c].no = 1
    /\ printed[c] = <<>>
    /\ \A a \in AnswersTo(c) : a.value <= mCount

Getting(c, i) ==
    /\ call[c].proc = "get" /\ call[c].arg = i /\ call[c].no = i + 2
    /\ i = Len(printed[c]) /\ i < count[c] /\ count[c] <= mCount
    /\ i > 0 => printed[c][i] <= executed - (i - 1)
    /\ \A a \in AnswersTo(c) : Fits(a.value, printed[c], i)

ClientOK(c) ==
    /\ NoGaps(printed[c])
    /\ run[c] \in {"idle", "add"} => printed[c] = <<>> /\ count[c] = 0
    /\ run[c] = "idle" => call[c] = None
    /\ run[c] = "add" => call[c] \in Messages!Request /\ call[c].proc = "add"
    /\ run[c] = "done" => Len(printed[c]) = count[c]
    /\ run[c] = "list" => /\ call[c] \in Messages!Request
                          /\ Asking(c) \/ \E i \in 0 .. 2 : Getting(c, i)

MotdInv == Messages!TypeOK /\ NewestFirst /\ \A c \in Client : ClientOK(c)

LEMMA MotdStart ==
    ASSUME MotdConstants, Messages!Init
    PROVE  MotdInv
  <1>1. Messages!TypeOK
    BY DEF MotdConstants, Messages!Init, Messages!TypeOK, Messages!HISTORY_MAX,
           Messages!Error
  <1>2. NewestFirst
    BY DEF Messages!Init, NewestFirst
  <1>3. \A c \in Client : ClientOK(c)
    BY DEF Messages!Init, ClientOK, NoGaps
  <1> QED BY <1>1, <1>2, <1>3 DEF MotdInv

Typed ==
    /\ mList \in [0 .. 2 -> 0 .. MaxAdds] /\ mCount \in 0 .. 3 /\ executed \in 0 .. MaxAdds
    /\ run \in [Client -> {"idle", "add", "list", "done", "failed"}]
    /\ call \in [Client -> Messages!Request \cup {None}]
    /\ sent \subseteq Messages!Request
    /\ answers \subseteq [to : Client, value : 0 .. MaxAdds]
    /\ count \in [Client -> 0 .. 3]
    /\ printed \in [Client -> Seq(0 .. MaxAdds)]

LEMMA MotdTypes == ASSUME MotdInv PROVE Typed
  BY DEF MotdInv, Messages!TypeOK, Messages!HISTORY_MAX, Typed

(* The server answers the call that a client has made last.                *)
LEMMA ReplyKeepsClients ==
    ASSUME MotdConstants, MotdInv, NEW r \in Messages!Request, NEW v \in 0 .. MaxAdds,
           NEW n \in 0 .. MaxAdds, executed' = n, executed <= n,
           mCount' \in 0 .. 3, mCount <= mCount',
           Messages!Reply(r, v), UNCHANGED Messages!client,
           r.proc = "count" => v <= mCount',
           r.proc = "get" => \A i \in 0 .. 2 : i = r.arg /\ i < mCount => v = executed - i
    PROVE  /\ answers' \subseteq [to : Client, value : 0 .. MaxAdds]
           /\ \A c \in Client : ClientOK(c)'
  <1>t. Typed
    BY MotdTypes
  <1> USE <1>t DEF Typed, MotdConstants
  <1>1. UNCHANGED <<run, call, count, printed>>
    BY DEF Messages!client
  <1>2. answers' = IF call[r.from] = r THEN answers \cup {[to |-> r.from, value |-> v]}
                   ELSE answers
    BY DEF Messages!Reply
  <1>3. r.from \in Client
    BY DEF Messages!Request
  <1>4. answers' \subseteq [to : Client, value : 0 .. MaxAdds]
    BY <1>2, <1>3
  <1>5. ASSUME NEW c \in Client PROVE ClientOK(c)'
    <2>1. ClientOK(c)
      BY DEF MotdInv
    <2>2. \A a \in AnswersTo(c)' : a \in AnswersTo(c) \/ (a.value = v /\ call[c] = r)
      BY <1>2 DEF AnswersTo
    <2>3. ASSUME Asking(c) PROVE Asking(c)'
      <3>1. \A a \in AnswersTo(c) : a.value <= mCount /\ a.value \in 0 .. MaxAdds
        BY <2>3 DEF Asking, AnswersTo
      <3>2. call[c].proc = "count"
        BY <2>3 DEF Asking
      <3>3. \A a \in AnswersTo(c)' : a.value <= mCount'
        <4> SUFFICES ASSUME NEW a \in AnswersTo(c)' PROVE a.value <= mCount'
          OBVIOUS
        <4>1. CASE a \in AnswersTo(c)
          <5>1. a.value <= mCount /\ a.value \in 0 .. MaxAdds
            BY <3>1, <4>1
          <5> QED BY <5>1
        <4>2. CASE a.value = v /\ call[c] = r
          BY <3>2, <4>2
        <4> QED BY <2>2, <4>1, <4>2
      <3> QED BY <1>1, <2>3, <3>3 DEF Asking
    <2>4. ASSUME NEW i \in 0 .. 2, Getting(c, i) PROVE Getting(c, i)'
      <3>1. count[c] \in 0 .. 3 /\ printed[c] \in Seq(0 .. MaxAdds) /\ (i > 0 => printed[c][i] \in 0 .. MaxAdds)
        BY <2>4 DEF Getting
      <3>2. ASSUME NEW a \in AnswersTo(c)' PROVE Fits(a.value, printed[c], i)'
        <4>1. CASE a \in AnswersTo(c)
          <5>1. Fits(a.value, printed[c], i) /\ a.value \in 0 .. MaxAdds
            BY <2>4, <4>1 DEF Getting, AnswersTo
          <5> QED BY <1>1, <3>1, <5>1 DEF Fits
        <4>2. CASE a.value = v /\ call[c] = r
          <5>1. v = executed - i
            BY <2>4, <3>1, <4>2 DEF Getting
          <5>2. executed - i > 0
            BY <2>4, <3>1 DEF Getting, MotdInv, NewestFirst
          <5>3. i > 0 => printed[c][i] <= executed - (i - 1)
            BY <2>4 DEF Getting
          <5> QED BY <1>1, <3>1, <4>2, <5>1, <5>2, <5>3 DEF Fits
        <4> QED BY <2>2, <3>2, <4>1, <4>2
      <3>3. count'[c] <= mCount' /\ (i > 0 => printed'[c][i] <= executed' - (i - 1))
        <4>1. count[c] <= mCount /\ (i > 0 => printed[c][i] <= executed - (i - 1))
          BY <2>4 DEF Getting
        <4>2. count[c] <= mCount'
          BY <3>1, <4>1
        <4>3. i > 0 => printed[c][i] <= executed' - (i - 1)
          BY <3>1, <4>1
        <4> QED BY <1>1, <4>2, <4>3
      <3> QED BY <1>1, <2>4, <3>2, <3>3 DEF Getting
    <2> QED BY <1>1, <2>1, <2>3, <2>4 DEF ClientOK
  <1> QED BY <1>4, <1>5

LEMMA ServeKeepsMotdInv ==
    ASSUME MotdConstants, MotdInv, Messages!Serve
    PROVE  MotdInv'
  <1>t. Typed
    BY MotdTypes
  <1> USE <1>t DEF Typed, MotdConstants, Messages!HISTORY_MAX, Messages!Error
  <1>1. PICK r \in sent : Messages!Count(r) \/ Messages!Get(r) \/ Messages!Add(r)
    BY DEF Messages!Serve
  <1>2. r \in Messages!Request /\ UNCHANGED Messages!client /\ UNCHANGED sent
    BY DEF Messages!Serve
  <1>3. UNCHANGED <<run, call, count, printed>>
    BY <1>2 DEF Messages!client
  <1>4. /\ mCount = (IF executed < 3 THEN executed ELSE 3)
        /\ \A i \in 0 .. 2 : i < mCount => mList[i] = executed - i
    BY DEF MotdInv, NewestFirst
  <1>5. ASSUME answers' \subseteq [to : Client, value : 0 .. MaxAdds],
               \A c \in Client : ClientOK(c)',
               mList' \in [0 .. 2 -> 0 .. MaxAdds], mCount' \in 0 .. 3, executed' \in 0 .. MaxAdds,
               NewestFirst'
        PROVE  MotdInv'
    BY <1>2, <1>3, <1>5 DEF MotdInv, Messages!TypeOK
  <1>6. CASE Messages!Count(r)
    <2>1. Messages!Reply(r, mCount) /\ UNCHANGED <<mList, mCount, executed>> /\ r.proc = "count"
      BY <1>6 DEF Messages!Count
    <2>c. mCount \in 0 .. MaxAdds
      BY <1>4
    <2>2. /\ answers' \subseteq [to : Client, value : 0 .. MaxAdds]
          /\ \A c \in Client : ClientOK(c)'
      BY <1>2, <2>1, <2>c, ReplyKeepsClients
    <2> QED BY <1>4, <1>5, <2>1, <2>2 DEF NewestFirst
  <1>7. CASE Messages!Get(r)
    <2> DEFINE v == IF r.arg < 0 \/ r.arg >= mCount THEN 0 ELSE mList[r.arg]
    <2>1. Messages!Reply(r, v) /\ UNCHANGED <<mList, mCount, executed>> /\ r.proc = "get"
      BY <1>7 DEF Messages!Get
    <2>2. r.arg \in 0 .. 3
      BY <1>2 DEF Messages!Request
    <2>3. v \in 0 .. MaxAdds /\ \A i \in 0 .. 2 : i = r.arg /\ i < mCount => v = executed - i
      BY <1>4, <2>2
    <2> HIDE DEF v
    <2>4. /\ answers' \subseteq [to : Client, value : 0 .. MaxAdds]
          /\ \A c \in Client : ClientOK(c)'
      BY <1>2, <2>1, <2>3, ReplyKeepsClients
    <2> QED BY <1>4, <1>5, <2>1, <2>4 DEF NewestFirst
  <1>8. CASE Messages!Add(r)
    <2>1. /\ executed < MaxAdds /\ executed' = executed + 1
          /\ mCount' = IF mCount = 3 THEN mCount ELSE mCount + 1
          /\ Messages!Shift /\ Messages!Reply(r, 0) /\ r.proc = "add"
      BY <1>8 DEF Messages!Add
    <2>2. /\ answers' \subseteq [to : Client, value : 0 .. MaxAdds]
          /\ \A c \in Client : ClientOK(c)'
      BY <1>2, <2>1, ReplyKeepsClients
    <2>3. PICK m : m = IF mCount = 3 THEN 2 ELSE mCount
      OBVIOUS
    <2>4. mList' = [i \in 0 .. 2 |-> IF i = 0 THEN executed + 1
                                     ELSE IF i <= m THEN mList[i - 1] ELSE mList[i]]
      BY <2>1, <2>3 DEF Messages!Shift
    <2>5. mList' \in [0 .. 2 -> 0 .. MaxAdds] /\ NewestFirst'
      <3>1. mList' \in [0 .. 2 -> 0 .. MaxAdds]
        BY <1>4, <2>1, <2>3, <2>4
      <3>2. ASSUME NEW i \in 0 .. 2, i < mCount' PROVE mList'[i] = executed' - i
        <4>1. CASE i = 0
          BY <2>1, <2>4, <4>1
        <4>2. CASE i > 0
          <5>1. i <= m /\ i - 1 \in 0 .. 2 /\ i - 1 < mCount
            BY <2>1, <2>3, <3>2, <4>2
          <5>2. mList'[i] = mList[i - 1]
            BY <2>4, <4>2, <5>1
          <5>3. mList[i - 1] = executed - (i - 1)
            BY <1>4, <5>1
          <5> QED BY <2>1, <5>2, <5>3
        <4> QED BY <4>1, <4>2
      <3>3. mCount' = IF executed' < 3 THEN executed' ELSE 3
        BY <1>4, <2>1
      <3> QED BY <3>1, <3>2, <3>3 DEF NewestFirst
    <2> QED BY <1>5, <2>1, <2>2, <2>5
  <1> QED BY <1>1, <1>6, <1>7, <1>8

(* A step of one client.                                                   *)
LEMMA OthersAreKept ==
    ASSUME MotdConstants, MotdInv, Messages!TypeOK', NEW c \in Client, ClientOK(c)',
           UNCHANGED <<mList, mCount, executed>>,
           \A d \in Client : d # c =>
              /\ run'[d] = run[d] /\ call'[d] = call[d]
              /\ count'[d] = count[d] /\ printed'[d] = printed[d]
              /\ AnswersTo(d)' = AnswersTo(d)
    PROVE  MotdInv'
  <1>1. NewestFirst'
    BY DEF MotdInv, NewestFirst
  <1>2. ASSUME NEW d \in Client, d # c PROVE ClientOK(d)'
    <2>1. ClientOK(d)
      BY DEF MotdInv
    <2>2. \A i \in 0 .. 2 : Getting(d, i) => Getting(d, i)'
      BY <1>2 DEF Getting, Fits
    <2>3. Asking(d) => Asking(d)'
      BY <1>2 DEF Asking
    <2> QED BY <1>2, <2>1, <2>2, <2>3 DEF ClientOK
  <1> QED BY <1>1, <1>2 DEF MotdInv

(* A call, or leaving: no answer to an earlier call is looked at.          *)
LEMMA CallsAnew ==
    ASSUME MotdConstants, MotdInv, NEW c \in Client, NEW proc \in {"count", "get", "add"}, NEW i \in 0 .. 3,
           Messages!Calls(c, proc, i),
           call[c] # None => call[c].no < 4
    PROVE  /\ call' = [call EXCEPT ![c] = call'[c]] /\ call'[c] \in Messages!Request
           /\ call'[c].proc = proc /\ call'[c].arg = i
           /\ call'[c].no = IF call[c] = None THEN 1 ELSE call[c].no + 1
           /\ sent' \subseteq Messages!Request
           /\ answers' = {a \in answers : a.to # c}
           /\ \A d \in Client : AnswersTo(d)' = IF d = c THEN {} ELSE AnswersTo(d)
  <1>t. Typed
    BY MotdTypes
  <1> USE <1>t DEF Typed, MotdConstants
  <1> DEFINE no == IF call[c] = None THEN 1 ELSE call[c].no + 1
             r == [from |-> c, no |-> no, proc |-> proc, arg |-> i]
  <1>1. /\ call' = [call EXCEPT ![c] = r]
        /\ sent' = {q \in sent : q.from # c \/ q.proc = "add"} \cup {r}
        /\ answers' = {a \in answers : a.to # c}
    BY DEF Messages!Calls
  <1>2. r \in Messages!Request
    <2>1. call[c] # None => call[c].no \in 1 .. 4
      BY DEF Messages!Request, Messages!HISTORY_MAX
    <2>2. no \in 1 .. 4
      BY <2>1
    <2> QED BY <2>2 DEF Messages!Request, Messages!HISTORY_MAX
  <1>3. call'[c] = r
    BY <1>1
  <1>4. \A d \in Client : AnswersTo(d)' = IF d = c THEN {} ELSE AnswersTo(d)
    BY <1>1 DEF AnswersTo
  <1> QED BY <1>1, <1>2, <1>3, <1>4

LEMMA LeavesForGood ==
    ASSUME MotdConstants, MotdInv, NEW c \in Client, NEW how, Messages!Leaves(c, how)
    PROVE  /\ run' = [run EXCEPT ![c] = how]
           /\ call' = [call EXCEPT ![c] = None]
           /\ sent' \subseteq sent
           /\ answers' \subseteq answers
           /\ \A d \in Client : d # c => AnswersTo(d)' = AnswersTo(d)
  BY DEF Messages!Leaves, AnswersTo

LEMMA StartKeepsMotdInv ==
    ASSUME MotdConstants, MotdInv, NEW c \in Client, Messages!Start(c)
    PROVE  MotdInv'
  <1>t. Typed
    BY MotdTypes
  <1> USE <1>t DEF Typed, MotdConstants
  <1>1. /\ run[c] = "idle" /\ call[c] = None
        /\ printed[c] = <<>> /\ count[c] = 0
        /\ UNCHANGED <<mList, mCount, executed, count, printed>>
    BY DEF Messages!Start, MotdInv, ClientOK
  <1>2. ASSUME NEW how \in {"add", "list"}, NEW proc \in {"count", "add"},
               proc = (IF how = "add" THEN "add" ELSE "count"),
               run' = [run EXCEPT ![c] = how], Messages!Calls(c, proc, 0)
        PROVE  MotdInv'
    <2>1. /\ call' = [call EXCEPT ![c] = call'[c]] /\ call'[c] \in Messages!Request
          /\ call'[c].proc = proc /\ call'[c].no = 1
          /\ sent' \subseteq Messages!Request
          /\ answers' = {a \in answers : a.to # c}
          /\ \A d \in Client : AnswersTo(d)' = IF d = c THEN {} ELSE AnswersTo(d)
      BY <1>1, <1>2, CallsAnew
    <2>2. Messages!TypeOK'
      <3>1. call' \in [Client -> Messages!Request \cup {None}]
        BY <2>1
      <3>2. run' \in [Client -> {"idle", "add", "list", "done", "failed"}]
        BY <1>2
      <3> QED BY <1>1, <2>1, <3>1, <3>2
              DEF Messages!TypeOK, Messages!HISTORY_MAX
    <2>3. ClientOK(c)'
      BY <1>1, <1>2, <2>1 DEF ClientOK, NoGaps, Asking
    <2>4. \A d \in Client : d # c => run'[d] = run[d] /\ call'[d] = call[d]
      BY <1>2, <2>1
    <2> QED BY <1>1, <2>1, <2>2, <2>3, <2>4, OthersAreKept
  <1> QED BY <1>2 DEF Messages!Start

LEMMA LeavingKeepsMotdInv ==
    ASSUME MotdConstants, MotdInv, NEW c \in Client, NEW how \in {"done", "failed"},
           Messages!Leaves(c, how), UNCHANGED <<mList, mCount, executed>>,
           count' \in [Client -> 0 .. 3],
           printed' \in [Client -> Seq(0 .. MaxAdds)],
           \A d \in Client : d # c => count'[d] = count[d] /\ printed'[d] = printed[d],
           NoGaps(printed'[c]),
           how = "done" => Len(printed'[c]) = count'[c]
    PROVE  MotdInv'
  <1>t. Typed
    BY MotdTypes
  <1> USE <1>t DEF Typed, MotdConstants
  <1>1. /\ run' = [run EXCEPT ![c] = how]
        /\ call' = [call EXCEPT ![c] = None]
        /\ sent' \subseteq sent
        /\ answers' \subseteq answers
        /\ \A d \in Client : d # c => AnswersTo(d)' = AnswersTo(d)
    BY LeavesForGood
  <1>2. Messages!TypeOK'
    BY <1>1 DEF Messages!TypeOK, Messages!HISTORY_MAX
  <1>3. ClientOK(c)'
    BY <1>1 DEF ClientOK
  <1>4. \A d \in Client : d # c => run'[d] = run[d] /\ call'[d] = call[d]
    BY <1>1
  <1> QED BY <1>1, <1>2, <1>3, <1>4, OthersAreKept

LEMMA AddedKeepsMotdInv ==
    ASSUME MotdConstants, MotdInv, NEW c \in Client, Messages!Added(c)
    PROVE  MotdInv'
  <1>1. /\ run[c] = "add" /\ Messages!Leaves(c, "done")
        /\ UNCHANGED <<mList, mCount, executed, count, printed>>
    BY DEF Messages!Added
  <1>2. printed[c] = <<>> /\ count[c] = 0
    BY <1>1 DEF MotdInv, ClientOK
  <1>3. NoGaps(printed[c]) /\ Len(printed[c]) = count[c]
    BY <1>2 DEF NoGaps
  <1> QED BY <1>1, <1>3, MotdTypes, LeavingKeepsMotdInv DEF Typed

LEMMA TimeoutKeepsMotdInv ==
    ASSUME MotdConstants, MotdInv, NEW c \in Client, Messages!Timeout(c)
    PROVE  MotdInv'
  <1>1. /\ Messages!Leaves(c, "failed")
        /\ UNCHANGED <<mList, mCount, executed, count, printed>>
    BY DEF Messages!Timeout
  <1>2. NoGaps(printed[c])
    BY DEF MotdInv, ClientOK
  <1> QED BY <1>1, <1>2, MotdTypes, LeavingKeepsMotdInv DEF Typed

(* The loop goes on with the next get, or is through.                      *)
LEMMA NextGetKeepsMotdInv ==
    ASSUME MotdConstants, MotdInv, NEW c \in Client, NEW n \in 0 .. 3, NEW i \in 0 .. 3,
           run[c] = "list", call[c] \in Messages!Request,
           Messages!GetNext(c, n, i), i <= n, n <= mCount,
           UNCHANGED <<mList, mCount, executed>>,
           count' = [count EXCEPT ![c] = n],
           printed' \in [Client -> Seq(0 .. MaxAdds)],
           \A d \in Client : d # c => printed'[d] = printed[d],
           NoGaps(printed'[c]), Len(printed'[c]) = i,
           i > 0 => printed'[c][i] <= executed - (i - 1),
           call[c].no = i + 1
    PROVE  MotdInv'
  <1>t. Typed
    BY MotdTypes
  <1> USE <1>t DEF Typed, MotdConstants
  <1>1. CASE i < n
    <2>1. Messages!Calls(c, "get", i) /\ UNCHANGED run
      BY <1>1 DEF Messages!GetNext
    <2>2. call[c] # None /\ call[c].no < 4
      BY <1>1
    <2>3. /\ call' = [call EXCEPT ![c] = call'[c]] /\ call'[c] \in Messages!Request
          /\ call'[c].proc = "get" /\ call'[c].arg = i /\ call'[c].no = i + 2
          /\ sent' \subseteq Messages!Request
          /\ answers' = {a \in answers : a.to # c}
          /\ \A d \in Client : AnswersTo(d)' = IF d = c THEN {} ELSE AnswersTo(d)
      BY <2>1, <2>2, CallsAnew
    <2>4. Messages!TypeOK'
      <3>1. call' \in [Client -> Messages!Request \cup {None}]
        BY <2>3
      <3> QED BY <2>1, <2>3, <3>1 DEF Messages!TypeOK, Messages!HISTORY_MAX
    <2>5. Getting(c, i)'
      BY <1>1, <2>3 DEF Getting
    <2>6. ClientOK(c)'
      BY <1>1, <2>1, <2>3, <2>5 DEF ClientOK
    <2>7. \A d \in Client : d # c => call'[d] = call[d] /\ count'[d] = count[d]
      BY <2>3
    <2> QED BY <2>1, <2>3, <2>4, <2>6, <2>7, OthersAreKept
  <1>2. CASE ~(i < n)
    <2>1. Messages!Leaves(c, "done")
      BY <1>2 DEF Messages!GetNext
    <2>2. i = n
      BY <1>2
    <2> QED BY <2>1, <2>2, LeavingKeepsMotdInv
  <1> QED BY <1>1, <1>2

LEMMA CountedKeepsMotdInv ==
    ASSUME MotdConstants, MotdInv, NEW c \in Client, Messages!Counted(c)
    PROVE  MotdInv'
  <1>t. Typed
    BY MotdTypes
  <1> USE <1>t DEF Typed, MotdConstants
  <1>1. PICK a \in answers :
              /\ a.to = c
              /\ count' = [count EXCEPT ![c] = a.value]
              /\ Messages!GetNext(c, a.value, 0)
    BY DEF Messages!Counted, Messages!Answered
  <1>2. /\ run[c] = "list" /\ call[c].proc = "count"
        /\ UNCHANGED <<mList, mCount, executed, printed>>
    BY DEF Messages!Counted
  <1>3. call[c] \in Messages!Request /\ Asking(c)
    BY <1>2 DEF MotdInv, ClientOK, Getting
  <1>4. a.value <= mCount /\ call[c].no = 1 /\ printed[c] = <<>>
    BY <1>1, <1>3 DEF Asking, AnswersTo
  <1>5. a.value \in 0 .. 3
    <2>1. a.value \in 0 .. MaxAdds
      OBVIOUS
    <2> QED BY <1>4, <2>1
  <1>6. NoGaps(printed[c])
    BY <1>4 DEF NoGaps
  <1>7. ASSUME NEW n \in 0 .. 3, NEW i \in 0 .. 3, n = a.value, i = 0 PROVE MotdInv'
    <2>1. /\ Messages!GetNext(c, n, i) /\ n <= mCount
          /\ count' = [count EXCEPT ![c] = n]
      BY <1>1, <1>4, <1>7
    <2>2. /\ call[c].no = i + 1 /\ i <= n /\ ~(i > 0)
          /\ Len(printed'[c]) = i /\ NoGaps(printed'[c])
      BY <1>2, <1>4, <1>6, <1>7
    <2> QED BY <1>2, <1>3, <2>1, <2>2, NextGetKeepsMotdInv
  <1> QED BY <1>5, <1>7

LEMMA GotKeepsMotdInv ==
    ASSUME MotdConstants, MotdInv, NEW c \in Client, Messages!Got(c)
    PROVE  MotdInv'
  <1>t. Typed
    BY MotdTypes
  <1> USE <1>t DEF Typed, MotdConstants
  <1>1. PICK a \in answers :
              /\ a.to = c
              /\ printed' = [printed EXCEPT ![c] = Append(@, a.value)]
    BY DEF Messages!Got, Messages!Answered
  <1>2. /\ run[c] = "list" /\ call[c].proc = "get"
        /\ Messages!GetNext(c, count[c], call[c].arg + 1)
        /\ UNCHANGED <<mList, mCount, executed, count>>
    BY DEF Messages!Got
  <1>3. PICK i \in 0 .. 2 : Getting(c, i)
    BY <1>2 DEF MotdInv, ClientOK, Asking
  <1>4. /\ call[c] \in Messages!Request /\ NoGaps(printed[c])
    BY <1>2 DEF MotdInv, ClientOK
  <1>5. /\ call[c].arg = i /\ call[c].no = i + 2 /\ i = Len(printed[c])
        /\ i < count[c] /\ count[c] <= mCount
        /\ Fits(a.value, printed[c], i)
    BY <1>1, <1>3 DEF Getting, AnswersTo
  <1>6. PICK s : s = Append(printed[c], a.value)
    OBVIOUS
  <1>7. /\ s \in Seq(0 .. MaxAdds) /\ Len(s) = i + 1 /\ s[i + 1] = a.value
        /\ \A j \in 1 .. i : s[j] = printed[c][j]
    BY <1>5, <1>6
  <1>8. NoGaps(s) /\ s[i + 1] <= executed - i
    <2>1. a.value \in 0 .. MaxAdds /\ a.value > 0 /\ a.value <= executed - i
          /\ (i > 0 => a.value >= printed[c][i] - 1)
      BY <1>5 DEF Fits
    <2>2. \A j \in 1 .. i : s[j] # 0 /\ (j > 1 => s[j] >= s[j - 1] - 1)
      <3>1. \A j \in 1 .. i : printed[c][j] # 0
                               /\ (j > 1 => printed[c][j] >= printed[c][j - 1] - 1)
        BY <1>4, <1>5 DEF NoGaps
      <3>2. \A j \in 1 .. i : j > 1 => j - 1 \in 1 .. i
        OBVIOUS
      <3> QED BY <1>7, <3>1, <3>2
    <2>3. s[i + 1] # 0 /\ (i > 0 => s[i + 1] >= s[i] - 1) /\ s[i + 1] <= executed - i
      BY <1>7, <2>1
    <2>4. i \in 0 .. 2 /\ Len(s) = i + 1
      BY <1>7
    <2>5. ASSUME NEW j \in 1 .. i + 1
          PROVE  s[j] # 0 /\ (j > 1 => s[j] >= s[j - 1] - 1)
      <3>1. CASE j \in 1 .. i
        BY <2>2, <3>1
      <3>2. CASE j = i + 1
        <4>1. j - 1 = i /\ (j > 1 <=> i > 0)
          BY <2>4, <3>2
        <4> QED BY <2>3, <3>2, <4>1
      <3> QED BY <2>4, <3>1, <3>2
    <2> QED BY <2>3, <2>4, <2>5 DEF NoGaps
  <1>9. /\ printed'[c] = s /\ \A d \in Client : d # c => printed'[d] = printed[d]
        /\ printed' \in [Client -> Seq(0 .. MaxAdds)]
    BY <1>1, <1>6, <1>7
  <1>10. count' = [count EXCEPT ![c] = count[c]]
    BY <1>2
  <1>11. ASSUME NEW n \in 0 .. 3, NEW j \in 0 .. 3, n = count[c], j = i + 1
         PROVE  MotdInv'
    <2>1. /\ Messages!GetNext(c, n, j) /\ j <= n /\ n <= mCount
          /\ count' = [count EXCEPT ![c] = n]
          /\ call[c].no = j + 1 /\ Len(printed'[c]) = j /\ NoGaps(printed'[c])
          /\ printed'[c][j] <= executed - (j - 1)
      <3>1. /\ Messages!GetNext(c, n, j)
            /\ count' = [count EXCEPT ![c] = n] /\ n <= mCount
        BY <1>2, <1>5, <1>10, <1>11
      <3>2. call[c].no = j + 1 /\ j <= n
        BY <1>5, <1>11
      <3>3. Len(printed'[c]) = j /\ NoGaps(printed'[c])
        BY <1>7, <1>8, <1>9, <1>11
      <3>4. printed'[c][j] <= executed - (j - 1)
        <4>1. j - 1 = i
          BY <1>11
        <4> QED BY <1>8, <1>9, <1>11, <4>1
      <3> QED BY <3>1, <3>2, <3>3, <3>4
    <2> HIDE DEF Typed
    <2> QED BY <1>2, <1>4, <1>9, <2>1, NextGetKeepsMotdInv
  <1>12. count[c] \in 0 .. 3 /\ i + 1 \in 0 .. 3
    OBVIOUS
  <1> HIDE DEF Typed
  <1> QED BY <1>11, <1>12

LEMMA MotdStays ==
    ASSUME MotdConstants, MotdInv, [Messages!Next]_Messages!vars
    PROVE  MotdInv'
  <1>1. CASE UNCHANGED Messages!vars
    <2>1. UNCHANGED <<mList, mCount, executed, run, call, sent, answers, count, printed>>
      BY <1>1 DEF Messages!vars, Messages!client
    <2>2. \A c \in Client : ClientOK(c) => ClientOK(c)'
      BY <2>1 DEF ClientOK, Asking, Getting, AnswersTo, Fits
    <2> QED BY <2>1, <2>2 DEF MotdInv, Messages!TypeOK, NewestFirst
  <1>2. ASSUME NEW c \in Client, Messages!ClientStep(c) PROVE MotdInv'
    BY <1>2, StartKeepsMotdInv, AddedKeepsMotdInv, CountedKeepsMotdInv, GotKeepsMotdInv,
       TimeoutKeepsMotdInv DEF Messages!ClientStep
  <1> QED BY <1>1, <1>2, ServeKeepsMotdInv DEF Messages!Next

-----------------------------------------------------------------------------
(* The ping-pong of ex06.                                                  *)

(* A thread that has seen its turn still has it when it gives it away, as  *)
(* only it can: the other one does not write before it has seen its own.   *)
SpinInv ==
    /\ Spinning!TypeOK
    /\ \A t \in Spinning!Player : spinner[t] = "set" => nextTurn = t
    /\ \A t \in Spinning!Player : spinner[t] # "end" => laps[t] < ITERATIONS

(* main gives the turn to ping before it starts the threads.               *)
LEMMA SpinStart == ASSUME ITERATIONS \in Nat \ {0}, Spinning!Init PROVE SpinInv
  BY DEF Spinning!Init, SpinInv, Spinning!TypeOK, Spinning!Player

(* A thread leaves the loop only with its own turn read.                   *)
LEMMA TestKeepsSpinInv ==
    ASSUME SpinInv, NEW t \in Spinning!Player, Spinning!Test(t)
    PROVE  SpinInv' /\ UNCHANGED <<nextTurn, laps>>
  <1>1. UNCHANGED <<rereads, nextTurn, laps>>
    BY DEF Spinning!Test
  <1>2. CASE nextTurn = t /\ spinner' = [spinner EXCEPT ![t] = "set"]
    BY <1>1, <1>2 DEF Spinning!Test, SpinInv, Spinning!TypeOK
  <1>3. CASE spinner' = [spinner EXCEPT ![t] = "spinning"]
    BY <1>1, <1>3 DEF Spinning!Test, SpinInv, Spinning!TypeOK
  <1>4. CASE UNCHANGED spinner
    BY <1>1, <1>4 DEF SpinInv, Spinning!TypeOK
  <1> QED BY <1>1, <1>2, <1>3, <1>4 DEF Spinning!Test

(* It gives the turn away while the other thread is still in its loop.     *)
LEMMA SetKeepsSpinInv ==
    ASSUME ITERATIONS \in Nat \ {0}, SpinInv, NEW t \in Spinning!Player, Spinning!Set(t)
    PROVE  SpinInv' /\ nextTurn = t /\ laps[t] < ITERATIONS
  <1>1. nextTurn = t /\ laps[t] < ITERATIONS /\ spinner[Spinning!Other(t)] # "set"
    BY DEF Spinning!Set, SpinInv, Spinning!TypeOK, Spinning!Player, Spinning!Other
  <1>2. /\ nextTurn' = Spinning!Other(t) /\ UNCHANGED rereads
        /\ spinner' = [spinner EXCEPT ![t] = IF laps[t] + 1 < ITERATIONS THEN "test" ELSE "end"]
        /\ laps' = [laps EXCEPT ![t] = @ + 1]
    BY DEF Spinning!Set
  <1>3. Spinning!Other(t) \in Spinning!Player /\ \A u \in Spinning!Player : u = t \/ u = Spinning!Other(t)
    BY DEF Spinning!Player, Spinning!Other
  <1>4. Spinning!TypeOK'
    BY <1>1, <1>2, <1>3 DEF SpinInv, Spinning!TypeOK
  <1>5. \A u \in Spinning!Player : spinner'[u] # "set"
    BY <1>1, <1>2, <1>3 DEF SpinInv, Spinning!TypeOK
  <1>6. \A u \in Spinning!Player : spinner'[u] # "end" => laps'[u] < ITERATIONS
    BY <1>1, <1>2 DEF SpinInv, Spinning!TypeOK
  <1> QED BY <1>1, <1>4, <1>5, <1>6 DEF SpinInv

(* A step of a thread is a move of the player, or nothing to its players.  *)
LEMMA SpinnersMove ==
    ASSUME ITERATIONS \in Nat \ {0}, SpinInv, [Spinning!Next]_Spinning!vars
    PROVE  /\ SpinInv'
           /\ [\E p \in Spinning!Turns!Player : Spinning!Turns!Move(p)]_<<nextTurn, laps>>
  <1>1. ASSUME NEW t \in Spinning!Player, Spinning!Test(t)
        PROVE  SpinInv' /\ UNCHANGED <<nextTurn, laps>>
    BY <1>1, TestKeepsSpinInv
  <1>2. ASSUME NEW t \in Spinning!Player, Spinning!Set(t)
        PROVE  SpinInv' /\ Spinning!Turns!Move(t)
    BY <1>2, SetKeepsSpinInv
       DEF Spinning!Set, Spinning!Turns!Move, Spinning!Turns!Other, Spinning!Other
  <1>3. CASE UNCHANGED Spinning!vars
    BY <1>3 DEF Spinning!vars, SpinInv, Spinning!TypeOK
  <1> QED BY <1>1, <1>2, <1>3
             DEF Spinning!Next, Spinning!Routine, Spinning!Spin, Spinning!Player,
                 Spinning!Turns!Player

-----------------------------------------------------------------------------
(* The ping-pong of ex07.                                                  *)

(* There is one token, in a semaphore or in the hand of a thread that has  *)
(* taken it and not yet given it to the other one.                         *)
HasToken(t) == sem[t] = 1 \/ at[t] = "sem_post"

OneToken ==
    \E t \in Turning!Player :
        /\ HasToken(t) /\ ~HasToken(Turning!Other(t))
        /\ sem[t] = 1 => at[t] # "sem_post"

TokenInv ==
    /\ Turning!TypeOK
    /\ OneToken
    /\ \A t \in Turning!Player : at[t] # "end" => moves[t] < ITERATIONS

(* turn names the thread with the token: CHOOSE has one thread to choose. *)
LEMMA TurnIsToken ==
    ASSUME TokenInv, NEW t \in Turning!Player, HasToken(t) PROVE Turning!turn = t
  <1>1. \A u \in Turning!Player : (sem[u] > 0 \/ at[u] = "sem_post") <=> u = t
    BY DEF TokenInv, Turning!TypeOK, OneToken, HasToken, Turning!Player, Turning!Other
  <1> QED BY <1>1 DEF Turning!turn

(* main gives the token to ping.                                           *)
LEMMA TokenStart == ASSUME ITERATIONS \in Nat \ {0}, Turning!Init PROVE TokenInv
  <1>1. HasToken("ping") /\ ~HasToken(Turning!Other("ping")) /\ at["ping"] # "sem_post"
    BY DEF Turning!Init, HasToken, Turning!Other, Turning!Player
  <1>2. OneToken
    BY <1>1 DEF OneToken, Turning!Player
  <1> QED BY <1>2 DEF Turning!Init, TokenInv, Turning!TypeOK, Turning!Player

(* sem_wait moves the token into the hand of the thread; the turn stays.   *)
LEMMA WaitKeepsTokenInv ==
    ASSUME ITERATIONS \in Nat \ {0}, TokenInv, NEW t \in Turning!Player, Turning!Wait(t)
    PROVE  TokenInv' /\ Turning!turn' = Turning!turn
  <1>1. /\ sem[t] = 1 /\ at[t] = "sem_wait"
        /\ sem' = [sem EXCEPT ![t] = 0]
        /\ at' = [at EXCEPT ![t] = "sem_post"] /\ moves' = moves
    <2>1. sem[t] \in 0 .. 1 /\ sem[t] > 0
      BY DEF Turning!Wait, TokenInv, Turning!TypeOK
    <2>2. sem[t] = 1 /\ sem[t] - 1 = 0
      BY <2>1
    <2> QED BY <2>2 DEF Turning!Wait
  <1>2. HasToken(t) /\ ~HasToken(Turning!Other(t))
    BY <1>1 DEF TokenInv, OneToken, HasToken, Turning!Player, Turning!Other
  <1>3. HasToken(t)' /\ ~HasToken(Turning!Other(t))' /\ ~(sem'[t] = 1)
    BY <1>1, <1>2 DEF HasToken, TokenInv, Turning!TypeOK, Turning!Player, Turning!Other
  <1>4. OneToken'
    BY <1>3 DEF OneToken
  <1>5. Turning!TypeOK' /\ \A u \in Turning!Player : at'[u] # "end" => moves'[u] < ITERATIONS
    BY <1>1 DEF TokenInv, Turning!TypeOK
  <1>6. TokenInv'
    BY <1>4, <1>5 DEF TokenInv
  <1>7. Turning!turn = t
    BY <1>2, TurnIsToken
  <1>8. Turning!turn' = t
    <2>1. \A u \in Turning!Player : (sem'[u] > 0 \/ at'[u] = "sem_post") <=> u = t
      BY <1>3, <1>5 DEF Turning!TypeOK, HasToken, Turning!Player, Turning!Other
    <2> QED BY <2>1 DEF Turning!turn
  <1> QED BY <1>6, <1>7, <1>8

(* sem_post puts it into the semaphore of the other thread.                *)
LEMMA PostKeepsTokenInv ==
    ASSUME ITERATIONS \in Nat \ {0}, TokenInv, NEW t \in Turning!Player, Turning!Post(t)
    PROVE  TokenInv' /\ Turning!turn = t /\ Turning!turn' = Turning!Other(t)
  <1>1. HasToken(t) /\ ~HasToken(Turning!Other(t)) /\ sem[t] = 0 /\ sem[Turning!Other(t)] = 0
    BY DEF Turning!Post, TokenInv, Turning!TypeOK, OneToken, HasToken, Turning!Player,
           Turning!Other
  <1>2. /\ at[t] = "sem_post" /\ moves[t] < ITERATIONS
        /\ sem' = [sem EXCEPT ![Turning!Other(t)] = 1]
        /\ at' = [at EXCEPT ![t] = IF moves[t] + 1 < ITERATIONS THEN "sem_wait" ELSE "end"]
        /\ moves' = [moves EXCEPT ![t] = @ + 1]
    BY <1>1 DEF Turning!Post, TokenInv
  <1>3. HasToken(Turning!Other(t))' /\ ~HasToken(t)' /\ at'[Turning!Other(t)] # "sem_post"
    BY <1>1, <1>2 DEF HasToken, TokenInv, Turning!TypeOK, Turning!Player, Turning!Other
  <1>4. OneToken'
    <2>1. Turning!Other(t) \in Turning!Player /\ Turning!Other(Turning!Other(t)) = t
      BY DEF Turning!Player, Turning!Other
    <2> QED BY <1>3, <2>1 DEF OneToken, HasToken
  <1>5. Turning!TypeOK' /\ \A u \in Turning!Player : at'[u] # "end" => moves'[u] < ITERATIONS
    BY <1>2 DEF TokenInv, Turning!TypeOK, Turning!Player, Turning!Other
  <1>6. TokenInv'
    BY <1>4, <1>5 DEF TokenInv
  <1>7. Turning!turn = t
    BY <1>1, TurnIsToken
  <1>8. Turning!turn' = Turning!Other(t)
    <2>1. \A u \in Turning!Player : (sem'[u] > 0 \/ at'[u] = "sem_post") <=> u = Turning!Other(t)
      BY <1>3, <1>5 DEF Turning!TypeOK, HasToken, Turning!Player, Turning!Other
    <2>2. Turning!Other(t) \in Turning!Player
      BY DEF Turning!Player, Turning!Other
    <2> QED BY <2>1, <2>2 DEF Turning!turn
  <1> QED BY <1>6, <1>7, <1>8

(* ping moves first.                                                       *)
LEMMA PingBegins == ASSUME ITERATIONS \in Nat \ {0}, Turning!Init PROVE Turning!turn = "ping"
  <1>1. HasToken("ping")
    BY DEF Turning!Init, HasToken, Turning!Player
  <1> QED BY <1>1, TokenStart, TurnIsToken DEF Turning!Player

(* sem_post is a move of the player, and sem_wait nothing to the players.  *)
LEMMA PostersMove ==
    ASSUME ITERATIONS \in Nat \ {0}, TokenInv, [Turning!Next]_Turning!vars
    PROVE  /\ TokenInv'
           /\ [\E p \in Turning!Turns!Player : Turning!Turns!Move(p)]_<<Turning!turn, moves>>
  <1>1. CASE \E t \in Turning!Player : Turning!Wait(t)
    BY <1>1, WaitKeepsTokenInv DEF Turning!Wait
  <1>2. ASSUME NEW t \in Turning!Player, Turning!Post(t)
        PROVE  TokenInv' /\ Turning!Turns!Move(t)
    BY <1>2, PostKeepsTokenInv
       DEF Turning!Post, Turning!Turns!Move, Turning!Turns!Other, Turning!Other, TokenInv
  <1>3. CASE UNCHANGED Turning!vars
    BY <1>3 DEF Turning!vars, TokenInv, Turning!TypeOK, OneToken, HasToken, Turning!turn
  <1> QED BY <1>1, <1>2, <1>3
             DEF Turning!Next, Turning!Routine, Turning!Player, Turning!Turns!Player

-----------------------------------------------------------------------------
(* The triangle counters.                                                  *)

TriangleConstants ==
    /\ Value \subseteq Int /\ MaxLength \in Nat
    /\ workers \in Nat \ {0}
    /\ OnDevice \in BOOLEAN
    /\ OnDevice => MaxLength < workers
    /\ IsFiniteSet(Thread)

All(s) == Goal!Triangles(s)

Triple(n) == (1 .. n) \X (1 .. n) \X (1 .. n)

LEMMA TriplesAreFinite ==
    ASSUME NEW n \in Nat PROVE IsFiniteSet(Triple(n))
  <1> DEFINE A == 1 .. n
             f == [p \in (A \X A) \X A |-> <<p[1][1], p[1][2], p[2]>>]
  <1>1. IsFiniteSet((A \X A) \X A)
    <2>1. IsFiniteSet(A)
      BY FS_Interval
    <2>2. IsFiniteSet(A \X A)
      BY <2>1, FS_Product
    <2> QED BY <2>1, <2>2, FS_Product
  <1>2. f \in Surjection((A \X A) \X A, Triple(n))
    <2>1. f \in [(A \X A) \X A -> Triple(n)]
      BY DEF Triple
    <2>2. ASSUME NEW t \in Triple(n) PROVE \E p \in (A \X A) \X A : f[p] = t
      <3>1. <<<<t[1], t[2]>>, t[3]>> \in (A \X A) \X A /\ t = <<t[1], t[2], t[3]>>
        BY DEF Triple
      <3>2. f[<<<<t[1], t[2]>>, t[3]>>] = t
        BY <3>1
      <3> QED BY <3>1, <3>2
    <2> QED BY <2>1, <2>2 DEF Surjection
  <1> QED BY <1>1, <1>2, FS_Surjection

LEMMA TrianglesAreFinite ==
    ASSUME NEW s \in Seq(Value)
    PROVE  Len(s) \in Nat /\ All(s) \subseteq Triple(Len(s)) /\ IsFiniteSet(All(s))
  <1>1. Len(s) \in Nat
    OBVIOUS
  <1>2. All(s) \subseteq Triple(Len(s))
    BY DEF All, Goal!Triangles, Triple
  <1> QED BY <1>1, <1>2, TriplesAreFinite, FS_Subset

(* The same places, counted from 0.                                        *)
LEMMA Reindexed ==
    ASSUME NEW n \in Nat, NEW S \in SUBSET Triple(n)
    PROVE  Cardinality({t \in (0 .. n - 1) \X (0 .. n - 1) \X (0 .. n - 1) :
                            <<t[1] + 1, t[2] + 1, t[3] + 1>> \in S}) = Cardinality(S)
  <1> DEFINE P == 0 .. n - 1
             Z == {t \in P \X P \X P : <<t[1] + 1, t[2] + 1, t[3] + 1>> \in S}
             f == [s \in S |-> <<s[1] - 1, s[2] - 1, s[3] - 1>>]
  <1>1. IsFiniteSet(S)
    BY TriplesAreFinite, FS_Subset
  <1>2. ASSUME NEW s \in S
        PROVE  /\ s[1] \in 1 .. n /\ s[2] \in 1 .. n /\ s[3] \in 1 .. n
               /\ s = <<s[1], s[2], s[3]>>
    BY DEF Triple
  <1>3. f \in [S -> Z]
    <2> SUFFICES ASSUME NEW s \in S PROVE <<s[1] - 1, s[2] - 1, s[3] - 1>> \in Z
      OBVIOUS
    <2>1. s[1] - 1 \in P /\ s[2] - 1 \in P /\ s[3] - 1 \in P
      BY <1>2
    <2>2. s[1] - 1 + 1 = s[1] /\ s[2] - 1 + 1 = s[2] /\ s[3] - 1 + 1 = s[3]
      BY <1>2
    <2> QED BY <1>2, <2>1, <2>2
  <1>4. \A r, s \in S : f[r] = f[s] => r = s
    <2> SUFFICES ASSUME NEW r \in S, NEW s \in S, f[r] = f[s] PROVE r = s
      OBVIOUS
    <2>1. r[1] - 1 = s[1] - 1 /\ r[2] - 1 = s[2] - 1 /\ r[3] - 1 = s[3] - 1
      OBVIOUS
    <2>2. r[1] = s[1] /\ r[2] = s[2] /\ r[3] = s[3]
      BY <1>2, <2>1
    <2> QED BY <1>2, <2>2
  <1>5. ASSUME NEW z \in Z PROVE \E s \in S : f[s] = z
    <2>1. z = <<z[1], z[2], z[3]>> /\ z[1] \in P /\ z[2] \in P /\ z[3] \in P
      OBVIOUS
    <2>2. z[1] + 1 - 1 = z[1] /\ z[2] + 1 - 1 = z[2] /\ z[3] + 1 - 1 = z[3]
      BY <2>1
    <2>3. f[<<z[1] + 1, z[2] + 1, z[3] + 1>>] = z
      BY <2>1, <2>2
    <2> QED BY <2>3
  <1>6. f \in Bijection(S, Z)
    BY <1>3, <1>4, <1>5 DEF Bijection, Injection, Surjection, IsInjective
  <1> QED BY <1>1, <1>6, FS_Bijection DEF ExistsBijection

(* Two parts of a finite set that have nothing in common.                  *)
LEMMA PartsAdd ==
    ASSUME NEW U, IsFiniteSet(U), NEW S \in SUBSET U, NEW T \in SUBSET U, S \cap T = {}
    PROVE  Cardinality(S \cup T) = Cardinality(S) + Cardinality(T)
           /\ Cardinality(S) \in Nat /\ Cardinality(T) \in Nat
  <1>1. IsFiniteSet(S) /\ IsFiniteSet(T)
    BY FS_Subset
  <1>2. Cardinality(S) \in Nat /\ Cardinality(T) \in Nat /\ Cardinality({}) = 0
    BY <1>1, FS_CardinalityType, FS_EmptySet
  <1>3. Cardinality(S \cup T) = Cardinality(S) + Cardinality(T) - Cardinality({})
    BY <1>1, FS_Union
  <1> QED BY <1>2, <1>3

-----------------------------------------------------------------------------
(* Sums as cardinalities: for each x of S, a pile of f[x] things.          *)
Piles(f, S) == UNION {{x} \X (1 .. f[x]) : x \in S}

LEMMA PilesAreFinite ==
    ASSUME NEW S, IsFiniteSet(S), NEW f, \A x \in S : f[x] \in Nat
    PROVE  IsFiniteSet(Piles(f, S))
  <1> DEFINE P == {{x} \X (1 .. f[x]) : x \in S}
             g == [x \in S |-> {x} \X (1 .. f[x])]
  <1>1. g \in Surjection(S, P)
    BY DEF Surjection
  <1>2. IsFiniteSet(P)
    BY <1>1, FS_Surjection
  <1>3. ASSUME NEW x \in S PROVE IsFiniteSet({x} \X (1 .. f[x]))
    <2>1. IsFiniteSet({x})
      BY FS_Singleton
    <2>2. 1 \in Int /\ f[x] \in Int
      OBVIOUS
    <2>3. IsFiniteSet(1 .. f[x])
      BY <2>2, FS_Interval
    <2> QED BY <2>1, <2>3, FS_Product
  <1>4. \A T \in P : IsFiniteSet(T)
    BY <1>3
  <1> QED BY <1>2, <1>4, FS_UNION DEF Piles

LEMMA OnePile ==
    ASSUME NEW S, IsFiniteSet(S), NEW f, \A x \in S : f[x] \in Nat, NEW y \in S
    PROVE  /\ Cardinality(Piles(f, S)) = Cardinality(Piles(f, S \ {y})) + f[y]
           /\ Cardinality(Piles(f, S \ {y})) \in Nat
           /\ Cardinality(Piles(f, S)) \in Nat
  <1> DEFINE Y == {y} \X (1 .. f[y])
             R == Piles(f, S \ {y})
  <1>1. Piles(f, S) = R \cup Y
    BY DEF Piles
  <1>2. R \cap Y = {}
    BY DEF Piles
  <1>3. IsFiniteSet(Piles(f, S))
    BY PilesAreFinite
  <1>4. Cardinality(Y) = f[y]
    <2>1. IsFiniteSet({y}) /\ Cardinality({y}) = 1
      BY FS_Singleton
    <2>2. IsFiniteSet(1 .. f[y]) /\ Cardinality(1 .. f[y]) = f[y]
      BY FS_Interval
    <2>3. Cardinality(Y) = 1 * f[y]
      BY <2>1, <2>2, FS_Product
    <2> QED BY <2>3
  <1>5. Cardinality(R \cup Y) = Cardinality(R) + Cardinality(Y) /\ Cardinality(R) \in Nat
    <2> HIDE DEF R, Y
    <2>1. IsFiniteSet(R \cup Y) /\ R \in SUBSET (R \cup Y) /\ Y \in SUBSET (R \cup Y)
      BY <1>1, <1>3
    <2> QED BY <1>2, <2>1, PartsAdd
  <1>6. Cardinality(Piles(f, S)) \in Nat
    BY <1>3, FS_CardinalityType
  <1> QED BY <1>1, <1>4, <1>5, <1>6

(* One pile gets another size.                                             *)
LEMMA PileChanged ==
    ASSUME NEW S, IsFiniteSet(S), NEW f, NEW g, NEW y \in S,
           \A x \in S : f[x] \in Nat /\ g[x] \in Nat,
           \A x \in S \ {y} : g[x] = f[x]
    PROVE  /\ Cardinality(Piles(g, S)) + f[y] = Cardinality(Piles(f, S)) + g[y]
           /\ Cardinality(Piles(f, S)) \in Nat /\ Cardinality(Piles(g, S)) \in Nat
  <1>1. Piles(g, S \ {y}) = Piles(f, S \ {y})
    BY DEF Piles
  <1>2. /\ Cardinality(Piles(g, S)) = Cardinality(Piles(g, S \ {y})) + g[y]
        /\ Cardinality(Piles(g, S \ {y})) \in Nat
    BY OnePile
  <1>3. Cardinality(Piles(f, S)) = Cardinality(Piles(f, S \ {y})) + f[y]
    BY OnePile
  <1>4. Cardinality(Piles(f, S)) \in Nat /\ Cardinality(Piles(g, S)) \in Nat
    BY OnePile
  <1> HIDE DEF Piles
  <1>5. f[y] \in Nat /\ g[y] \in Nat
    OBVIOUS
  <1> QED BY <1>1, <1>2, <1>3, <1>4, <1>5

Stack(s) == Piles(s, 1 .. Len(s))

LEMMA StackSize ==
    ASSUME NEW s \in Seq(Nat) PROVE Cardinality(Stack(s)) \in Nat
  <1>1. \A k \in 1 .. Len(s) : s[k] \in Nat
    OBVIOUS
  <1>2. IsFiniteSet(1 .. Len(s))
    BY FS_Interval
  <1>3. IsFiniteSet(Piles(s, 1 .. Len(s)))
    BY <1>1, <1>2, PilesAreFinite
  <1> QED BY <1>3, FS_CardinalityType DEF Stack

LEMMA StackAppend ==
    ASSUME NEW s \in Seq(Nat), NEW n \in Nat
    PROVE  Cardinality(Stack(Append(s, n))) = Cardinality(Stack(s)) + n
  <1> DEFINE a == Append(s, n)
             m == Len(s) + 1
  <1>1. Len(a) = m /\ m \in Nat /\ m \in 1 .. m /\ (1 .. m) \ {m} = 1 .. Len(s)
    OBVIOUS
  <1>2. a[m] = n /\ \A k \in 1 .. Len(s) : a[k] = s[k] /\ s[k] \in Nat
    OBVIOUS
  <1>3. \A k \in 1 .. m : a[k] \in Nat
    BY <1>1, <1>2
  <1>4. Piles(a, 1 .. Len(s)) = Piles(s, 1 .. Len(s))
    BY <1>2 DEF Piles
  <1>5. IsFiniteSet(1 .. m)
    BY <1>1, FS_Interval
  <1> HIDE DEF a, m
  <1>6. Cardinality(Piles(a, 1 .. m)) = Cardinality(Piles(a, (1 .. m) \ {m})) + a[m]
    BY <1>1, <1>3, <1>5, OnePile
  <1> QED BY <1>1, <1>2, <1>4, <1>6 DEF Stack, a

LEMMA StackTail ==
    ASSUME NEW s \in Seq(Nat), s # <<>>
    PROVE  Cardinality(Stack(s)) = Cardinality(Stack(Tail(s))) + Head(s)
  <1> DEFINE t == Tail(s)
             n == Len(s)
             R == Piles(s, 2 .. n)
             f == [e \in R |-> <<e[1] - 1, e[2]>>]
  <1>1. /\ n \in Nat /\ n >= 1 /\ Len(t) = n - 1 /\ Head(s) = s[1]
        /\ (1 .. n) \ {1} = 2 .. n
        /\ \A k \in 1 .. n : s[k] \in Nat
        /\ \A k \in 1 .. n - 1 : t[k] = s[k + 1]
    OBVIOUS
  <1>2. Cardinality(Stack(s)) = Cardinality(R) + s[1]
    <2>1. 1 \in 1 .. n
      BY <1>1
    <2>2. IsFiniteSet(1 .. n)
      BY <1>1, FS_Interval
    <2> HIDE DEF n
    <2>3. Cardinality(Piles(s, 1 .. n)) = Cardinality(Piles(s, (1 .. n) \ {1})) + s[1]
      BY <1>1, <2>1, <2>2, OnePile
    <2> QED BY <1>1, <2>3 DEF Stack, n
  <1>3. IsFiniteSet(R)
    <2>1. \A k \in 2 .. n : s[k] \in Nat
      BY <1>1
    <2>2. IsFiniteSet(2 .. n)
      BY <1>1, FS_Interval
    <2> QED BY <2>1, <2>2, PilesAreFinite
  <1>4. \A e : e \in R <=> \E k \in 2 .. n : \E i \in 1 .. s[k] : e = <<k, i>>
    BY DEF Piles
  <1>5. \A e : e \in Stack(t) <=> \E k \in 1 .. n - 1 : \E i \in 1 .. s[k + 1] : e = <<k, i>>
    BY <1>1 DEF Piles, Stack
  <1> HIDE DEF R, t, n
  <1>6. f \in Bijection(R, Stack(t))
    <2>1. f \in [R -> Stack(t)]
      <3> SUFFICES ASSUME NEW e \in R PROVE <<e[1] - 1, e[2]>> \in Stack(t)
        OBVIOUS
      <3>1. PICK k \in 2 .. n : \E i \in 1 .. s[k] : e = <<k, i>>
        BY <1>4
      <3>2. PICK i \in 1 .. s[k] : e = <<k, i>>
        BY <3>1
      <3>3. k - 1 \in 1 .. n - 1 /\ k - 1 + 1 = k
        BY <1>1
      <3> QED BY <1>5, <3>2, <3>3
    <2>2. \A d, e \in R : f[d] = f[e] => d = e
      <3> SUFFICES ASSUME NEW d \in R, NEW e \in R, f[d] = f[e] PROVE d = e
        OBVIOUS
      <3>1. PICK k \in 2 .. n : \E i \in 1 .. s[k] : d = <<k, i>>
        BY <1>4
      <3>2. PICK l \in 2 .. n : \E i \in 1 .. s[l] : e = <<l, i>>
        BY <1>4
      <3>3. k - 1 = l - 1 /\ d[2] = e[2]
        BY <3>1, <3>2
      <3>4. k = l
        BY <1>1, <3>3
      <3> QED BY <3>1, <3>2, <3>3, <3>4
    <2>3. ASSUME NEW e \in Stack(t) PROVE \E d \in R : f[d] = e
      <3>1. PICK k \in 1 .. n - 1 : \E i \in 1 .. s[k + 1] : e = <<k, i>>
        BY <1>5
      <3>2. PICK i \in 1 .. s[k + 1] : e = <<k, i>>
        BY <3>1
      <3>3. k + 1 \in 2 .. n /\ k + 1 - 1 = k
        BY <1>1
      <3>4. <<k + 1, i>> \in R
        BY <1>4, <3>2, <3>3
      <3>5. f[<<k + 1, i>>] = e
        BY <3>2, <3>3, <3>4
      <3> QED BY <3>4, <3>5
    <2> QED BY <2>1, <2>2, <2>3 DEF Bijection, Injection, Surjection, IsInjective
  <1>7. Cardinality(R) = Cardinality(Stack(t))
    BY <1>3, <1>6, FS_Bijection DEF ExistsBijection
  <1> QED BY <1>1, <1>2, <1>7 DEF t

-----------------------------------------------------------------------------
(* The counters with a slot per worker.                                    *)

(* Whose triangle it is.                                                   *)
Key(t) == IF OnDevice THEN t[3] - 1 ELSE (t[1] - 1) % workers
Own(s, w) == {t \in All(s) : Key(t) = w}
Before(s, n) == {t \in All(s) : Key(t) < n}

SlotsTyped ==
    /\ vList \in Seq(Value) /\ Len(vList) <= MaxLength
    /\ phase \in {"reading", "creating", "joining", "done"}
    /\ thread \in [Slots!Worker -> {"none", "running", "ended"}]
    /\ localCount \in [Slots!Worker -> Nat]
    /\ added \in Nat
    /\ totalTriangles \in Nat

(* A worker that has ended has stored how many triangles are its own, and  *)
(* the others nothing; what main has added are those of the first workers. *)
SlotsInv ==
    /\ SlotsTyped
    /\ phase = "reading" \/ (phase = "creating" /\ OnDevice)
         => \A w \in Slots!Worker : thread[w] = "none"
    /\ phase \in {"reading", "creating"} => added = 0 /\ totalTriangles = 0
    /\ \A w \in Slots!Worker :
          localCount[w] = IF thread[w] = "ended" THEN Cardinality(Own(vList, w)) ELSE 0
    /\ phase \in {"joining", "done"} => added <= Slots!Slots
    /\ totalTriangles = Cardinality(Before(vList, added))
    /\ phase # "done" => reported = None

LEMMA KeysInRange ==
    ASSUME TriangleConstants, NEW s \in Seq(Value), NEW t \in All(s)
    PROVE  Key(t) \in Nat /\ Key(t) < IF OnDevice THEN Len(s) ELSE workers
  <1>1. t[1] \in 1 .. Len(s) /\ t[3] \in 1 .. Len(s) /\ Len(s) \in Nat
    BY TrianglesAreFinite DEF Triple
  <1>2. CASE OnDevice
    BY <1>1, <1>2 DEF Key
  <1>3. CASE ~OnDevice
    <2>1. t[1] - 1 \in Nat /\ workers \in Nat \ {0}
      BY <1>1 DEF TriangleConstants
    <2>2. (t[1] - 1) % workers \in 0 .. workers - 1
      BY <2>1
    <2> QED BY <1>3, <2>1, <2>2 DEF Key
  <1> QED BY <1>2, <1>3

(* findTriangles and checkValid count what is theirs.                      *)
LEMMA FoundIsOwn ==
    ASSUME vList \in Seq(Value), NEW w \in Slots!Worker
    PROVE  Slots!Cardinality(Slots!Found(w)) = Cardinality(Own(vList, w))
  <1> DEFINE n == Len(vList)
             P == 0 .. n - 1
             up(t) == <<t[1] + 1, t[2] + 1, t[3] + 1>>
             Z == {t \in P \X P \X P : up(t) \in Own(vList, w)}
  <1>1. n \in Nat /\ Own(vList, w) \in SUBSET Triple(n)
    BY TrianglesAreFinite DEF Own
  <1>2. Cardinality(Z) = Cardinality(Own(vList, w))
    BY <1>1, Reindexed
  <1>3. ASSUME NEW t \in P \X P \X P
        PROVE  t \in Slots!Found(w) <=> up(t) \in Own(vList, w)
    <2>1. t[1] \in P /\ t[2] \in P /\ t[3] \in P
      OBVIOUS
    <2>2. /\ t[1] + 1 \in 1 .. n /\ t[2] + 1 \in 1 .. n /\ t[3] + 1 \in 1 .. n
          /\ t[1] + 1 - 1 = t[1] /\ t[3] + 1 - 1 = t[3]
          /\ t[1] < t[2] <=> t[1] + 1 < t[2] + 1
          /\ t[2] < t[3] <=> t[2] + 1 < t[3] + 1
      BY <1>1, <2>1
    <2>3. up(t) \in All(vList)
            <=> /\ t[1] < t[2] /\ t[2] < t[3]
                /\ Slots!CheckTriangle(Slots!At(t[1]), Slots!At(t[2]), Slots!At(t[3]))
      BY <2>2 DEF All, Goal!Triangles, Goal!CheckTriangle, Slots!CheckTriangle, Slots!At
    <2>4. t \in Slots!Share(w) <=> Key(up(t)) = w
      BY <2>2 DEF Slots!Share, Slots!Place, Slots!vCount, Key
    <2> QED BY <2>3, <2>4 DEF Slots!Found, Own
  <1>4. Slots!Found(w) \subseteq P \X P \X P
    BY DEF Slots!Found, Slots!Share, Slots!Place, Slots!vCount
  <1>5. Slots!Found(w) = Z
    BY <1>3, <1>4
  <1>6. Slots!Cardinality(Z) = Cardinality(Z)
    BY DEF Slots!Cardinality, Cardinality
  <1> QED BY <1>2, <1>5, <1>6

(* Nothing is looked for while the list is read.                           *)
LEMMA NoneBeforeTheFirst ==
    ASSUME TriangleConstants, NEW s \in Seq(Value)
    PROVE  Cardinality(Before(s, 0)) = 0
  <1>1. Before(s, 0) = {}
    BY KeysInRange DEF Before
  <1> QED BY <1>1, FS_EmptySet

LEMMA SlotsStart ==
    ASSUME TriangleConstants, Slots!Init
    PROVE  SlotsInv
  <1>1. vList \in Seq(Value) /\ Len(vList) <= MaxLength
    BY DEF Slots!Init, Slots!InitList, TriangleConstants
  <1>2. Cardinality(Before(vList, 0)) = 0
    BY <1>1, NoneBeforeTheFirst
  <1> QED BY <1>1, <1>2 DEF Slots!Init, SlotsInv, SlotsTyped

LEMMA SlotsReadKeepsInv ==
    ASSUME TriangleConstants, SlotsInv, Slots!ReadList
    PROVE  SlotsInv'
  <1>1. /\ phase = "reading" /\ added = 0 /\ totalTriangles = 0 /\ reported = None
        /\ \A w \in Slots!Worker : thread[w] = "none" /\ localCount[w] = 0
        /\ UNCHANGED <<thread, localCount, added, totalTriangles, reported>>
    BY DEF Slots!ReadList, SlotsInv
  <1>2. vList' \in Seq(Value) /\ Len(vList') <= MaxLength
    <2>1. CASE UNCHANGED vList
      BY <2>1 DEF SlotsInv, SlotsTyped
    <2>2. ASSUME NEW v \in Value, Slots!ReadValue(v)
          PROVE  vList' \in Seq(Value) /\ Len(vList') <= MaxLength
      <3>1. vList' = Append(vList, v) /\ Len(vList) < MaxLength /\ vList \in Seq(Value)
        BY <2>2 DEF Slots!ReadValue, Slots!vCount, SlotsInv, SlotsTyped
      <3>2. Len(vList') = Len(vList) + 1
        BY <3>1
      <3> QED BY <3>1, <3>2 DEF TriangleConstants
    <2> QED BY <2>1, <2>2 DEF Slots!ReadList
  <1>3. phase' \in {"reading", "creating"}
    BY <1>1 DEF Slots!ReadList
  <1>4. Cardinality(Before(vList', 0)) = 0
    BY <1>2, NoneBeforeTheFirst
  <1> QED BY <1>1, <1>2, <1>3, <1>4 DEF SlotsInv, SlotsTyped

LEMMA SlotsCreateKeepsInv ==
    ASSUME TriangleConstants, SlotsInv, Slots!Create \/ Slots!Launch
    PROVE  SlotsInv'
  <1>1. /\ phase = "creating" /\ phase' \in {"creating", "joining"}
        /\ OnDevice => phase' = "joining"
        /\ UNCHANGED <<vList, localCount, added, totalTriangles, reported>>
    BY DEF Slots!Create, Slots!Launch
  <1>2. thread' \in [Slots!Worker -> {"none", "running", "ended"}]
    BY DEF Slots!Create, Slots!Launch, SlotsInv, SlotsTyped
  <1>3. \A w \in Slots!Worker : thread'[w] = "ended" <=> thread[w] = "ended"
    BY DEF Slots!Create, Slots!Launch, SlotsInv, SlotsTyped
  <1>4. added' <= Slots!Slots'
    BY <1>1 DEF SlotsInv, SlotsTyped, Slots!Slots, Slots!vCount, TriangleConstants
  <1> QED BY <1>1, <1>2, <1>3, <1>4 DEF SlotsInv, SlotsTyped

(* A worker stores its count, or has none and stores none.                 *)
LEMMA SlotsFindKeepsInv ==
    ASSUME TriangleConstants, SlotsInv, NEW w \in Slots!Worker, Slots!FindTriangles(w)
    PROVE  SlotsInv'
  <1>1. /\ thread[w] = "running" /\ thread' = [thread EXCEPT ![w] = "ended"]
        /\ UNCHANGED <<vList, phase, added, totalTriangles, reported>>
    BY DEF Slots!FindTriangles
  <1>2. localCount' = [localCount EXCEPT ![w] = Cardinality(Own(vList, w))]
    <2>1. CASE OnDevice /\ w >= Slots!vCount
      <3>1. Own(vList, w) = {}
        <4> SUFFICES ASSUME NEW t \in All(vList) PROVE Key(t) # w
          BY DEF Own
        <4>1. Key(t) \in Nat /\ Key(t) < Len(vList)
          BY <2>1, KeysInRange DEF SlotsInv, SlotsTyped
        <4> QED BY <2>1, <4>1 DEF Slots!vCount, Slots!Worker, TriangleConstants, SlotsInv, SlotsTyped
      <3>2. Cardinality(Own(vList, w)) = 0 /\ localCount[w] = 0
        BY <1>1, <3>1, FS_EmptySet DEF SlotsInv
      <3>3. localCount' = localCount /\ localCount \in [Slots!Worker -> Nat]
        BY <2>1 DEF Slots!FindTriangles, SlotsInv, SlotsTyped
      <3> QED BY <3>2, <3>3
    <2>2. CASE ~(OnDevice /\ w >= Slots!vCount)
      BY <2>2, FoundIsOwn DEF Slots!FindTriangles, SlotsInv, SlotsTyped
    <2> QED BY <2>1, <2>2
  <1>3. Cardinality(Own(vList, w)) \in Nat
    <2>1. IsFiniteSet(Own(vList, w))
      BY TrianglesAreFinite, FS_Subset DEF Own, SlotsInv, SlotsTyped
    <2> QED BY <2>1, FS_CardinalityType
  <1>4. SlotsTyped'
    BY <1>1, <1>2, <1>3 DEF SlotsInv, SlotsTyped
  <1>5. \A u \in Slots!Worker :
           localCount'[u] = IF thread'[u] = "ended" THEN Cardinality(Own(vList, u)) ELSE 0
    BY <1>1, <1>2 DEF SlotsInv, SlotsTyped
  <1>6. phase' \notin {"reading"} /\ ~(phase' = "creating" /\ OnDevice)
    BY <1>1 DEF SlotsInv
  <1>7. Slots!Slots' = Slots!Slots
    BY <1>1 DEF Slots!Slots, Slots!vCount
  <1> QED BY <1>1, <1>4, <1>5, <1>6, <1>7 DEF SlotsInv

(* main adds the next slot only after its worker has ended.                *)
LEMMA SlotsAddKeepsInv ==
    ASSUME TriangleConstants, SlotsInv, Slots!AddSlot
    PROVE  SlotsInv'
  <1>1. /\ phase = "joining" /\ added < Slots!Slots /\ Slots!Joinable(added)
        /\ totalTriangles' = totalTriangles + localCount[added] /\ added' = added + 1
        /\ UNCHANGED <<vList, phase, thread, localCount, reported>>
    BY DEF Slots!AddSlot
  <1>t. SlotsTyped
    BY DEF SlotsInv
  <1>2. added \in Slots!Worker /\ Slots!Slots \in Nat
    BY <1>1, <1>t DEF Slots!Slots, Slots!vCount, Slots!Worker, TriangleConstants, SlotsTyped
  <1>3. thread[added] = "ended"
    BY <1>1, <1>2 DEF Slots!Joinable
  <1>4. localCount[added] = Cardinality(Own(vList, added)) /\ localCount[added] \in Nat
    BY <1>2, <1>3, <1>t DEF SlotsInv, SlotsTyped
  <1>5. /\ Before(vList, added + 1) = Before(vList, added) \cup Own(vList, added)
        /\ Before(vList, added) \cap Own(vList, added) = {}
    <2>1. \A t \in All(vList) : Key(t) \in Nat
      BY <1>t, KeysInRange DEF SlotsTyped
    <2>2. added \in Nat
      BY <1>t DEF SlotsTyped
    <2>3. \A t \in All(vList) : /\ Key(t) < added + 1 <=> Key(t) < added \/ Key(t) = added
                                /\ ~(Key(t) < added /\ Key(t) = added)
      BY <2>1, <2>2
    <2> QED BY <2>3 DEF Before, Own
  <1>6. Cardinality(Before(vList, added + 1))
          = Cardinality(Before(vList, added)) + Cardinality(Own(vList, added))
    <2>1. IsFiniteSet(All(vList))
      BY <1>t, TrianglesAreFinite DEF SlotsTyped
    <2> QED BY <1>5, <2>1, PartsAdd DEF Before, Own
  <1>7. totalTriangles' = Cardinality(Before(vList', added'))
    BY <1>1, <1>4, <1>6 DEF SlotsInv
  <1>8. SlotsTyped' /\ added' <= Slots!Slots'
    <2>1. Slots!Slots' = Slots!Slots /\ added \in Nat /\ totalTriangles \in Nat
      BY <1>1, <1>t DEF Slots!Slots, Slots!vCount, SlotsTyped
    <2> QED BY <1>1, <1>2, <1>4, <1>t, <2>1 DEF SlotsTyped
  <1> QED BY <1>1, <1>7, <1>8 DEF SlotsInv

(* With all slots added, the total is of all triangles.                    *)
LEMMA SlotsReport ==
    ASSUME TriangleConstants, SlotsInv, Slots!Report
    PROVE  SlotsInv' /\ Goal!Report
  <1>1. /\ phase = "joining" /\ added = Slots!Slots /\ phase' = "done" /\ reported = None
        /\ reported' = totalTriangles
        /\ UNCHANGED <<vList, thread, localCount, added, totalTriangles>>
    BY DEF Slots!Report, Slots!AllAdded, SlotsInv
  <1>2. Before(vList, added) = All(vList)
    BY <1>1, KeysInRange DEF Before, Slots!Slots, Slots!vCount, SlotsInv, SlotsTyped
  <1>3. Goal!Cardinality(All(vList)) = Cardinality(All(vList))
    BY DEF Goal!Cardinality, Cardinality
  <1>4. reported' = Goal!Cardinality(Goal!Triangles(vList))
    BY <1>1, <1>2, <1>3 DEF SlotsInv, All
  <1>5. Slots!Slots' = Slots!Slots
    BY <1>1 DEF Slots!Slots, Slots!vCount
  <1> QED BY <1>1, <1>4, <1>5 DEF SlotsInv, SlotsTyped, Goal!Report

LEMMA SlotsStay ==
    ASSUME TriangleConstants, SlotsInv, [Slots!Next]_Slots!vars
    PROVE  SlotsInv' /\ [Goal!CountNext]_<<vList, reported>>
  <1>1. CASE Slots!ReadList
    <2>1. SlotsInv' /\ reported = None /\ reported' = reported
      BY <1>1, SlotsReadKeepsInv DEF Slots!ReadList, SlotsInv
    <2> QED BY <1>1, <2>1
            DEF Slots!ReadList, Slots!ReadValue, Goal!CountNext, Goal!TakeValue
  <1>2. CASE Slots!Create \/ Slots!Launch
    BY <1>2, SlotsCreateKeepsInv DEF Slots!Create, Slots!Launch
  <1>3. CASE Slots!AddSlot
    BY <1>3, SlotsAddKeepsInv DEF Slots!AddSlot
  <1>4. CASE Slots!Report
    BY <1>4, SlotsReport DEF Goal!CountNext
  <1>5. CASE \E w \in Slots!Worker : Slots!FindTriangles(w)
    BY <1>5, SlotsFindKeepsInv DEF Slots!FindTriangles
  <1>6. CASE UNCHANGED Slots!vars
    BY <1>6 DEF Slots!vars, SlotsInv, SlotsTyped, Slots!Slots, Slots!vCount
  <1> QED BY <1>1, <1>2, <1>3, <1>4, <1>5, <1>6 DEF Slots!Next, Slots!Main, Slots!Ended

(* The triangles are the same, whichever module counts them.               *)
LEMMA SlotsAddUp == ASSUME TriangleConstants, SlotsInv PROVE Slots!AddedIsFound
  <1>1. Slots!TC!Triangles(vList) = All(vList)
    BY DEF Slots!TC!Triangles, All, Goal!Triangles, Slots!TC!CheckTriangle, Goal!CheckTriangle
  <1>2. {t \in All(vList) : (IF OnDevice THEN t[3] - 1 ELSE (t[1] - 1) % workers) < added}
           = Before(vList, added)
    BY DEF Before, Key
  <1>3. Slots!Cardinality(Before(vList, added)) = Cardinality(Before(vList, added))
    BY DEF Slots!Cardinality, Cardinality
  <1> QED BY <1>1, <1>2, <1>3 DEF SlotsInv, Slots!AddedIsFound

-----------------------------------------------------------------------------
(* The counter with a pipe.                                                *)

FirstPlace(t) == (t[1] - 1) % workers
Wrote == {w \in Pipe!Worker : child[w] \in {"exited", "reaped"}}
Of(s, W) == {t \in All(s) : FirstPlace(t) \in W}

PipeTyped ==
    /\ vList \in Seq(Value) /\ Len(vList) <= MaxLength
    /\ phase \in {"reading", "forking", "adding", "reaping", "done"}
    /\ child \in [Pipe!Worker -> {"none", "counting", "exited", "reaped"}]
    /\ pipe \in Seq(Nat)
    /\ heard \in Nat
    /\ totalTriangles \in Nat

(* A count is in the pipe or in the total from the write of its child on.  *)
(* The parent has read as many as it has children only when all have       *)
(* written; the pipe is then empty, and the total is of all triangles.     *)
PipeInv ==
    /\ PipeTyped
    /\ phase = "reading" => (\A w \in Pipe!Worker : child[w] = "none") /\ pipe = <<>>
    /\ totalTriangles + Cardinality(Stack(pipe)) = Cardinality(Of(vList, Wrote))
    /\ phase \in {"reading", "forking", "adding"}
         => heard < workers /\ heard + Len(pipe) = Cardinality(Wrote)
    /\ phase \in {"reaping", "done"} => Wrote = Pipe!Worker /\ pipe = <<>>
    /\ phase # "done" => reported = None

LEMMA FirstPlaces ==
    ASSUME TriangleConstants, NEW s \in Seq(Value), NEW t \in All(s)
    PROVE  FirstPlace(t) \in Pipe!Worker
  <1>1. t[1] \in 1 .. Len(s) /\ Len(s) \in Nat
    BY TrianglesAreFinite DEF Triple
  <1>2. t[1] - 1 \in Nat /\ workers \in Nat \ {0}
    BY <1>1 DEF TriangleConstants
  <1>3. (t[1] - 1) % workers \in 0 .. workers - 1
    BY <1>2
  <1> QED BY <1>3 DEF FirstPlace, Pipe!Worker

LEMMA WorkersAreMany ==
    ASSUME TriangleConstants
    PROVE  IsFiniteSet(Pipe!Worker) /\ Cardinality(Pipe!Worker) = workers
  <1>1. 0 \in Int /\ workers - 1 \in Int /\ workers \in Nat \ {0}
    BY DEF TriangleConstants
  <1>2. IsFiniteSet(0 .. workers - 1) /\ Cardinality(0 .. workers - 1) = workers
    BY <1>1, FS_Interval
  <1> QED BY <1>2 DEF Pipe!Worker

LEMMA EmptyStack == Cardinality(Stack(<<>>)) = 0
  <1>1. Stack(<<>>) = {}
    BY DEF Stack, Piles
  <1> QED BY <1>1, FS_EmptySet

LEMMA PipeStart ==
    ASSUME TriangleConstants, Pipe!Init
    PROVE  PipeInv
  <1>1. vList \in Seq(Value) /\ Len(vList) <= MaxLength
    BY DEF Pipe!Init, Pipe!InitList, TriangleConstants
  <1>2. Wrote = {} /\ Of(vList, Wrote) = {}
    BY DEF Pipe!Init, Wrote, Of
  <1>3. Cardinality(Wrote) = 0 /\ Cardinality(Of(vList, Wrote)) = 0
    BY <1>2, FS_EmptySet
  <1>4. PipeTyped
    BY <1>1 DEF Pipe!Init, PipeTyped
  <1> QED BY <1>3, <1>4, EmptyStack DEF Pipe!Init, PipeInv, TriangleConstants

LEMMA PipeReadKeepsInv ==
    ASSUME TriangleConstants, PipeInv, Pipe!ReadList
    PROVE  PipeInv'
  <1>1. /\ phase = "reading" /\ phase' \in {"reading", "forking"}
        /\ pipe = <<>> /\ \A w \in Pipe!Worker : child[w] = "none"
        /\ UNCHANGED <<child, pipe, heard, totalTriangles, reported>>
    BY DEF Pipe!ReadList, PipeInv
  <1>2. vList' \in Seq(Value) /\ Len(vList') <= MaxLength
    <2>1. CASE UNCHANGED vList
      BY <2>1 DEF PipeInv, PipeTyped
    <2>2. ASSUME NEW v \in Value, Pipe!ReadValue(v)
          PROVE  vList' \in Seq(Value) /\ Len(vList') <= MaxLength
      <3>1. vList' = Append(vList, v) /\ Len(vList) < MaxLength /\ vList \in Seq(Value)
        BY <2>2 DEF Pipe!ReadValue, Pipe!vCount, PipeInv, PipeTyped
      <3>2. Len(vList') = Len(vList) + 1
        BY <3>1
      <3> QED BY <3>1, <3>2 DEF TriangleConstants
    <2> QED BY <2>1, <2>2 DEF Pipe!ReadList
  <1>3. Wrote = {} /\ Wrote' = Wrote
    BY <1>1 DEF Wrote
  <1>4. Of(vList, Wrote) = {} /\ Of(vList, Wrote)' = {}
    BY <1>3 DEF Of
  <1>5. PipeTyped'
    BY <1>1, <1>2 DEF PipeInv, PipeTyped
  <1> QED BY <1>1, <1>3, <1>4, <1>5 DEF PipeInv

LEMMA PipeForkKeepsInv ==
    ASSUME TriangleConstants, PipeInv, Pipe!Fork
    PROVE  PipeInv'
  <1>1. /\ phase = "forking" /\ phase' \in {"forking", "adding"}
        /\ UNCHANGED <<vList, pipe, heard, totalTriangles, reported>>
    BY DEF Pipe!Fork
  <1>2. PICK w \in Pipe!Worker :
           child[w] = "none" /\ child' = [child EXCEPT ![w] = "counting"]
    BY DEF Pipe!Fork
  <1>3. Wrote' = Wrote
    BY <1>2 DEF Wrote, PipeInv, PipeTyped
  <1>4. Of(vList, Wrote)' = Of(vList, Wrote)
    BY <1>1, <1>3 DEF Of
  <1>5. PipeTyped'
    BY <1>1, <1>2 DEF PipeInv, PipeTyped
  <1> QED BY <1>1, <1>3, <1>4, <1>5 DEF PipeInv

(* A child counts the triangles whose first place is its own.              *)
LEMMA FoundIsOfChild ==
    ASSUME vList \in Seq(Value), NEW w \in Pipe!Worker, TriangleConstants
    PROVE  Pipe!Cardinality(Pipe!Found(w)) = Cardinality(Of(vList, {w}))
  <1> DEFINE n == Len(vList)
             P == 0 .. n - 1
             up(t) == <<t[1] + 1, t[2] + 1, t[3] + 1>>
             Z == {t \in P \X P \X P : up(t) \in Of(vList, {w})}
  <1>1. n \in Nat /\ Of(vList, {w}) \in SUBSET Triple(n)
    BY TrianglesAreFinite DEF Of
  <1>2. Cardinality(Z) = Cardinality(Of(vList, {w}))
    BY <1>1, Reindexed
  <1>3. ASSUME NEW t \in P \X P \X P
        PROVE  t \in Pipe!Found(w) <=> up(t) \in Of(vList, {w})
    <2>1. t[1] \in P /\ t[2] \in P /\ t[3] \in P /\ t = <<t[1], t[2], t[3]>>
      OBVIOUS
    <2>2. /\ t[1] + 1 \in 1 .. n /\ t[2] + 1 \in 1 .. n /\ t[3] + 1 \in 1 .. n
          /\ t[1] + 1 - 1 = t[1]
          /\ t[1] < t[2] <=> t[1] + 1 < t[2] + 1
          /\ t[2] < t[3] <=> t[2] + 1 < t[3] + 1
      BY <1>1, <2>1
    <2>3. up(t) \in All(vList)
            <=> /\ t[1] < t[2] /\ t[2] < t[3]
                /\ Pipe!CheckTriangle(Pipe!At(t[1]), Pipe!At(t[2]), Pipe!At(t[3]))
      BY <2>2 DEF All, Goal!Triangles, Goal!CheckTriangle, Pipe!CheckTriangle, Pipe!At
    <2>4. FirstPlace(up(t)) = t[1] % workers
      BY <2>2 DEF FirstPlace
    <2>5. t[1] < t[2] /\ t[2] < t[3]
            => t[1] \in 0 .. n - 3 /\ t[2] \in 1 .. n - 2 /\ t[3] \in 2 .. n - 1
      BY <1>1, <2>1
    <2>6. t \in Pipe!Found(w)
            <=> /\ t[1] \in 0 .. n - 3 /\ t[1] % workers = w
                /\ t[2] \in 1 .. n - 2 /\ t[3] \in 2 .. n - 1
                /\ t[1] < t[2] /\ t[2] < t[3]
                /\ Pipe!CheckTriangle(Pipe!At(t[1]), Pipe!At(t[2]), Pipe!At(t[3]))
      BY <2>1 DEF Pipe!Found, Pipe!First, Pipe!vCount
    <2> QED BY <2>3, <2>4, <2>5, <2>6 DEF Of
  <1>4. Pipe!Found(w) \subseteq P \X P \X P
    <2> SUFFICES ASSUME NEW t \in Pipe!Found(w) PROVE t \in P \X P \X P
      OBVIOUS
    <2>1. /\ t[1] \in 0 .. n - 3 /\ t[2] \in 1 .. n - 2 /\ t[3] \in 2 .. n - 1
          /\ t = <<t[1], t[2], t[3]>>
      BY DEF Pipe!Found, Pipe!First, Pipe!vCount
    <2>2. t[1] \in P /\ t[2] \in P /\ t[3] \in P
      BY <1>1, <2>1
    <2> QED BY <2>1, <2>2
  <1>5. Pipe!Found(w) = Z
    BY <1>3, <1>4
  <1>6. Pipe!Cardinality(Z) = Cardinality(Z)
    BY DEF Pipe!Cardinality, Cardinality
  <1> QED BY <1>2, <1>5, <1>6

LEMMA PipeFindKeepsInv ==
    ASSUME TriangleConstants, PipeInv, NEW w \in Pipe!Worker, Pipe!FindTriangles(w)
    PROVE  PipeInv'
  <1> DEFINE n == Cardinality(Of(vList, {w}))
  <1>t. PipeTyped
    BY DEF PipeInv
  <1>1. /\ child[w] = "counting" /\ child' = [child EXCEPT ![w] = "exited"]
        /\ pipe' = Append(pipe, n)
        /\ UNCHANGED <<vList, phase, heard, totalTriangles, reported>>
    BY <1>t, FoundIsOfChild DEF Pipe!FindTriangles, Pipe!parent, PipeTyped
  <1>2. phase \in {"forking", "adding"} /\ w \notin Wrote
    BY <1>1, <1>t DEF PipeInv, PipeTyped, Wrote
  <1>3. Wrote' = Wrote \cup {w}
    BY <1>1, <1>t DEF Wrote, PipeTyped
  <1>4. IsFiniteSet(All(vList)) /\ IsFiniteSet(Wrote) /\ Cardinality(Wrote) \in Nat
    BY <1>t, TrianglesAreFinite, WorkersAreMany, FS_Subset, FS_CardinalityType
       DEF PipeTyped, Wrote
  <1>5. /\ Cardinality(Of(vList, Wrote \cup {w})) = Cardinality(Of(vList, Wrote)) + n
        /\ n \in Nat /\ Cardinality(Of(vList, Wrote)) \in Nat
    <2>1. /\ Of(vList, Wrote \cup {w}) = Of(vList, Wrote) \cup Of(vList, {w})
          /\ Of(vList, Wrote) \cap Of(vList, {w}) = {}
      BY <1>2 DEF Of
    <2>2. Of(vList, Wrote) \in SUBSET All(vList) /\ Of(vList, {w}) \in SUBSET All(vList)
      BY DEF Of
    <2>3. /\ Cardinality(Of(vList, Wrote) \cup Of(vList, {w}))
               = Cardinality(Of(vList, Wrote)) + Cardinality(Of(vList, {w}))
          /\ Cardinality(Of(vList, Wrote)) \in Nat /\ Cardinality(Of(vList, {w})) \in Nat
      <3> DEFINE A == Of(vList, Wrote)
                 B == Of(vList, {w})
                 U == All(vList)
      <3>1. IsFiniteSet(U) /\ A \in SUBSET U /\ B \in SUBSET U /\ A \cap B = {}
        BY <1>4, <2>1, <2>2
      <3> HIDE DEF A, B, U
      <3>2. /\ Cardinality(A \cup B) = Cardinality(A) + Cardinality(B)
            /\ Cardinality(A) \in Nat /\ Cardinality(B) \in Nat
        BY <3>1, PartsAdd
      <3> QED BY <3>2 DEF A, B
    <2> QED BY <2>1, <2>3
  <1>6. Cardinality(Wrote') = Cardinality(Wrote) + 1
    BY <1>2, <1>3, <1>4, FS_AddElement
  <1>7. /\ Cardinality(Stack(pipe)) \in Nat
        /\ Cardinality(Stack(pipe)') = Cardinality(Stack(pipe)) + n
    <2>1. pipe \in Seq(Nat)
      BY <1>t DEF PipeTyped
    <2>2. Stack(pipe)' = Stack(Append(pipe, n))
      BY <1>1 DEF Stack, Piles
    <2> HIDE DEF n
    <2> QED BY <1>5, <2>1, <2>2, StackSize, StackAppend
  <1>8. Of(vList, Wrote)' = Of(vList, Wrote \cup {w})
    BY <1>1, <1>3 DEF Of
  <1> HIDE DEF n
  <1>9. PipeTyped' /\ Len(pipe') = Len(pipe) + 1
    BY <1>1, <1>5, <1>t DEF PipeTyped
  <1>10. totalTriangles' + Cardinality(Stack(pipe)') = Cardinality(Of(vList, Wrote)')
    <2>1. totalTriangles \in Nat /\ totalTriangles + Cardinality(Stack(pipe)) = Cardinality(Of(vList, Wrote))
      BY <1>t DEF PipeInv, PipeTyped
    <2> QED BY <1>1, <1>5, <1>7, <1>8, <2>1
  <1>11. heard' < workers /\ heard' + Len(pipe') = Cardinality(Wrote')
    <2>1. heard < workers /\ heard + Len(pipe) = Cardinality(Wrote) /\ heard \in Nat /\ Len(pipe) \in Nat
      BY <1>2, <1>t DEF PipeInv, PipeTyped
    <2> QED BY <1>1, <1>6, <1>9, <2>1
  <1> QED BY <1>1, <1>2, <1>9, <1>10, <1>11 DEF PipeInv

(* The last count is read only when every child has written.               *)
LEMMA PipeAddKeepsInv ==
    ASSUME TriangleConstants, PipeInv, Pipe!AddCount
    PROVE  PipeInv'
  <1>t. PipeTyped
    BY DEF PipeInv
  <1>1. /\ phase = "adding" /\ pipe # <<>> /\ pipe' = Tail(pipe)
        /\ totalTriangles' = totalTriangles + Head(pipe)
        /\ UNCHANGED <<vList, child, reported>>
    BY DEF Pipe!AddCount
  <1>2. Wrote' = Wrote /\ Of(vList, Wrote)' = Of(vList, Wrote)
    BY <1>1 DEF Wrote, Of
  <1>3. /\ pipe \in Seq(Nat) /\ Head(pipe) \in Nat /\ Tail(pipe) \in Seq(Nat)
        /\ Len(pipe) \in Nat /\ Len(pipe) >= 1 /\ Len(Tail(pipe)) = Len(pipe) - 1
    BY <1>1, <1>t DEF PipeTyped
  <1>4. totalTriangles' + Cardinality(Stack(pipe)') = Cardinality(Of(vList, Wrote)')
    <2>1. Cardinality(Stack(pipe)) = Cardinality(Stack(Tail(pipe))) + Head(pipe)
      BY <1>1, <1>3, StackTail
    <2>2. Stack(pipe)' = Stack(Tail(pipe)) /\ Cardinality(Stack(Tail(pipe))) \in Nat
      BY <1>1, <1>3, StackSize DEF Stack, Piles
    <2>3. totalTriangles \in Nat /\ totalTriangles + Cardinality(Stack(pipe)) = Cardinality(Of(vList, Wrote))
      BY <1>t DEF PipeInv, PipeTyped
    <2> QED BY <1>1, <1>2, <1>3, <2>1, <2>2, <2>3
  <1>5. /\ heard \in Nat /\ heard < workers /\ heard + Len(pipe) = Cardinality(Wrote)
        /\ reported = None
    BY <1>1, <1>t DEF PipeInv, PipeTyped
  <1>6. /\ heard' = IF heard + 1 = workers THEN 0 ELSE heard + 1
        /\ phase' = IF heard + 1 = workers THEN "reaping" ELSE "adding"
    BY DEF Pipe!AddCount, Pipe!NextHeard, Pipe!LastHeard
  <1>7. PipeTyped'
    BY <1>1, <1>3, <1>5, <1>6, <1>t DEF PipeTyped
  <1>8. CASE heard + 1 = workers
    <2>1. IsFiniteSet(Wrote) /\ Cardinality(Wrote) <= workers /\ Wrote \in SUBSET Pipe!Worker
          /\ (Cardinality(Wrote) = workers => Wrote = Pipe!Worker)
      <3>1. Wrote \in SUBSET Pipe!Worker
        BY DEF Wrote
      <3> QED BY <3>1, WorkersAreMany, FS_Subset
    <2>2. Len(pipe) = 1 /\ Cardinality(Wrote) = workers
      BY <1>3, <1>5, <1>8, <2>1 DEF TriangleConstants
    <2>3. pipe' = <<>>
      BY <1>1, <1>3, <2>2
    <2> QED BY <1>1, <1>2, <1>4, <1>5, <1>6, <1>7, <1>8, <2>1, <2>2, <2>3 DEF PipeInv
  <1>9. CASE heard + 1 # workers
    <2>1. heard' < workers /\ heard' + Len(pipe') = Cardinality(Wrote')
      BY <1>1, <1>2, <1>3, <1>5, <1>6, <1>9 DEF TriangleConstants
    <2> QED BY <1>1, <1>4, <1>5, <1>6, <1>7, <1>9, <2>1 DEF PipeInv
  <1> QED BY <1>8, <1>9

LEMMA AllAreOfWorkers ==
    ASSUME TriangleConstants, NEW s \in Seq(Value)
    PROVE  Of(s, Pipe!Worker) = All(s)
  BY FirstPlaces DEF Of

LEMMA PipeReapKeepsInv ==
    ASSUME TriangleConstants, PipeInv, NEW w \in Pipe!Worker, Pipe!Reap(w)
    PROVE  PipeInv' /\ (Goal!Report \/ UNCHANGED <<vList, reported>>)
  <1>t. PipeTyped
    BY DEF PipeInv
  <1>1. /\ phase = "reaping" /\ child[w] = "exited" /\ child' = [child EXCEPT ![w] = "reaped"]
        /\ heard' = heard + 1
        /\ phase' \in {"reaping", "done"}
        /\ phase' = "done" => reported' = totalTriangles
        /\ phase' = "reaping" => reported' = None
        /\ UNCHANGED <<vList, pipe, totalTriangles>>
    BY DEF Pipe!Reap
  <1>2. Wrote' = Wrote /\ Of(vList, Wrote)' = Of(vList, Wrote)
    BY <1>1, <1>t DEF Wrote, Of, PipeTyped
  <1>3. Stack(pipe)' = Stack(pipe)
    BY <1>1 DEF Stack, Piles
  <1>4. PipeTyped'
    BY <1>1, <1>t DEF PipeTyped
  <1>5. PipeInv' /\ reported = None
    BY <1>1, <1>2, <1>3, <1>4 DEF PipeInv
  <1>6. totalTriangles = Cardinality(All(vList))
    <2>1. pipe = <<>> /\ Wrote = Pipe!Worker /\ totalTriangles \in Nat /\ vList \in Seq(Value)
      BY <1>1, <1>t DEF PipeInv, PipeTyped
    <2>2. Of(vList, Wrote) = All(vList)
      BY <2>1, AllAreOfWorkers
    <2>3. totalTriangles + Cardinality(Stack(pipe)) = Cardinality(Of(vList, Wrote))
      BY DEF PipeInv
    <2>4. Cardinality(Stack(pipe)) = 0
      BY <2>1, EmptyStack
    <2> QED BY <2>1, <2>2, <2>3, <2>4
  <1>7. Goal!Cardinality(All(vList)) = Cardinality(All(vList))
    BY DEF Goal!Cardinality, Cardinality
  <1> QED BY <1>1, <1>5, <1>6, <1>7 DEF Goal!Report, All

LEMMA PipeStays ==
    ASSUME TriangleConstants, PipeInv, [Pipe!Next]_Pipe!vars
    PROVE  PipeInv' /\ [Goal!CountNext]_<<vList, reported>>
  <1>1. CASE Pipe!ReadList
    <2>1. PipeInv' /\ reported = None /\ reported' = reported
      BY <1>1, PipeReadKeepsInv DEF Pipe!ReadList, PipeInv
    <2> QED BY <1>1, <2>1 DEF Pipe!ReadList, Pipe!ReadValue, Goal!CountNext, Goal!TakeValue
  <1>2. CASE Pipe!Fork
    BY <1>2, PipeForkKeepsInv DEF Pipe!Fork
  <1>3. CASE Pipe!AddCount
    BY <1>3, PipeAddKeepsInv DEF Pipe!AddCount
  <1>4. CASE \E w \in Pipe!Worker : Pipe!Reap(w)
    BY <1>4, PipeReapKeepsInv DEF Goal!CountNext
  <1>5. CASE \E w \in Pipe!Worker : Pipe!FindTriangles(w)
    BY <1>5, PipeFindKeepsInv DEF Pipe!FindTriangles, Pipe!parent
  <1>6. CASE UNCHANGED Pipe!vars
    BY <1>6 DEF Pipe!vars, PipeInv, PipeTyped, Wrote, Of, Stack, Piles
  <1> QED BY <1>1, <1>2, <1>3, <1>4, <1>5, <1>6 DEF Pipe!Next, Pipe!Main, Pipe!Ended

LEMMA PipeAddsUp == ASSUME TriangleConstants, PipeInv PROVE Pipe!CountsAddUp
  <1>1. Pipe!TC!Triangles(vList) = All(vList)
    BY DEF Pipe!TC!Triangles, All, Goal!Triangles, Pipe!TC!CheckTriangle, Goal!CheckTriangle
  <1>2. {t \in All(vList) : child[(t[1] - 1) % workers] \in {"exited", "reaped"}}
           = Of(vList, Wrote)
    BY FirstPlaces DEF Of, Wrote, FirstPlace, PipeInv, PipeTyped
  <1>3. Pipe!InPipe = Stack(pipe)
    BY DEF Pipe!InPipe, Stack, Piles
  <1>4. /\ Pipe!Cardinality(Of(vList, Wrote)) = Cardinality(Of(vList, Wrote))
        /\ Pipe!Cardinality(Stack(pipe)) = Cardinality(Stack(pipe))
    BY DEF Pipe!Cardinality, Cardinality
  <1> QED BY <1>1, <1>2, <1>3, <1>4 DEF PipeInv, Pipe!CountsAddUp

-----------------------------------------------------------------------------
(* The counter with a shared index.                                        *)

EndsAt(s, n) == {t \in All(s) : t[3] = n}
EndsBy(s, n) == {t \in All(s) : t[3] <= n}
Taking == {w \in Thread : place[w] = "taking"}
Counting == {w \in Thread : place[w] = "counting"}

IndicesTyped ==
    /\ phase \in {"reading", "posting", "joining", "done", "failed"}
    /\ vList \in Seq(Value)
    /\ nextWorkIndex \in Nat
    /\ workAvailable \in Nat
    /\ posted \in Nat
    /\ workMutex \in {0, 1}
    /\ global_count \in Nat
    /\ place \in [Thread -> Indices!Place]
    /\ index \in [Thread -> Nat \cup {Indices!NoIndex}]
    /\ left \in [Thread -> Nat]

Tokens ==
    workAvailable + Cardinality(Indices!Holding) + Cardinality(Indices!Exited) = posted

(* Who has the mutex is at the next index, and those that count are at     *)
(* earlier ones, which differ.                                             *)
IndicesAreOwn ==
    /\ \A w \in Taking : workMutex = 0 /\ index[w] = nextWorkIndex
    /\ \A w, u \in Taking : w = u
    /\ \A w \in Counting : index[w] \in Nat /\ index[w] < nextWorkIndex
    /\ \A w, u \in Counting : w # u => index[w] # index[u]

(* A worker exits only with all indices given out.                         *)
IndicesInv ==
    /\ IndicesTyped
    /\ phase \in {"reading", "failed"}
         => /\ workAvailable = 0 /\ posted = 0 /\ nextWorkIndex = 0
            /\ \A w \in Thread : place[w] = "getWork"
    /\ Tokens
    /\ IndicesAreOwn
    /\ \A w \in Thread : left[w] # 0 => w \in Counting
    /\ \A w \in Thread : place[w] = "exited" => nextWorkIndex >= Len(vList)
    /\ global_count + Cardinality(Piles(left, Thread)) = Cardinality(EndsBy(vList, nextWorkIndex))
    /\ phase \in {"joining", "done"} => Thread # {}
    /\ phase # "done" => reported = None

LEMMA NothingLeft ==
    ASSUME \A w \in Thread : left[w] = 0 PROVE Cardinality(Piles(left, Thread)) = 0
  <1>1. Piles(left, Thread) = {}
    BY DEF Piles
  <1> QED BY <1>1, FS_EmptySet

LEMMA NothingEndsBefore ==
    ASSUME NEW s \in Seq(Value) PROVE Cardinality(EndsBy(s, 0)) = 0
  <1>1. \A t \in All(s) : t[3] \in 1 .. Len(s)
    BY TrianglesAreFinite DEF Triple
  <1>2. EndsBy(s, 0) = {}
    BY <1>1 DEF EndsBy
  <1> QED BY <1>2, FS_EmptySet

LEMMA IndicesStart ==
    ASSUME TriangleConstants, Indices!Init
    PROVE  IndicesInv
  <1>1. IndicesTyped
    BY DEF Indices!Init, IndicesTyped, Indices!Place, Indices!NoIndex
  <1>2. Indices!Holding = {} /\ Indices!Exited = {} /\ Taking = {} /\ Counting = {}
    BY DEF Indices!Init, Indices!Holding, Indices!Exited, Taking, Counting
  <1>3. Tokens
    <2>1. Cardinality(Indices!Holding) = 0 /\ Cardinality(Indices!Exited) = 0
      BY <1>2, FS_EmptySet
    <2> QED BY <2>1 DEF Tokens, Indices!Init
  <1>4. IndicesAreOwn
    BY <1>2 DEF IndicesAreOwn
  <1>5. vList \in Seq(Value) /\ nextWorkIndex = 0 /\ \A w \in Thread : left[w] = 0
    BY <1>1 DEF Indices!Init, IndicesTyped
  <1>6. /\ Cardinality(Piles(left, Thread)) = 0
        /\ Cardinality(EndsBy(vList, nextWorkIndex)) = 0
    BY <1>5, NothingLeft, NothingEndsBefore
  <1> QED BY <1>1, <1>3, <1>4, <1>5, <1>6 DEF Indices!Init, IndicesInv

(* The steps of main leave the workers alone.                              *)
LEMMA WorkersStay ==
    ASSUME UNCHANGED <<workMutex, nextWorkIndex, global_count, place, index, left>>
    PROVE  /\ Indices!Holding' = Indices!Holding /\ Indices!Exited' = Indices!Exited
           /\ IndicesAreOwn' <=> IndicesAreOwn
           /\ Counting' = Counting
           /\ Piles(left, Thread)' = Piles(left, Thread)
  BY DEF Indices!Holding, Indices!Exited, IndicesAreOwn, Taking, Counting, Piles

LEMMA IndicesReadKeepsInv ==
    ASSUME TriangleConstants, IndicesInv, Indices!ReadList
    PROVE  IndicesInv' /\ (UNCHANGED vList \/ \E v \in Value : vList' = Append(vList, v))
  <1>t. IndicesTyped
    BY DEF IndicesInv
  <1>1. /\ phase = "reading" /\ phase' \in {"reading", "posting", "failed"}
        /\ UNCHANGED vList \/ \E v \in Value : vList' = Append(vList, v)
        /\ UNCHANGED <<reported, nextWorkIndex, workAvailable, posted, workMutex,
                       global_count, place, index, left>>
    BY DEF Indices!ReadList
  <1>2. vList' \in Seq(Value)
    BY <1>1, <1>t DEF IndicesTyped
  <1>3. nextWorkIndex = 0 /\ \A w \in Thread : place[w] = "getWork"
    BY <1>1 DEF IndicesInv
  <1>4. IndicesTyped'
    BY <1>1, <1>2, <1>t DEF IndicesTyped
  <1>5. Tokens' /\ IndicesAreOwn'
    BY <1>1, WorkersStay DEF Tokens, IndicesInv
  <1>6. Cardinality(EndsBy(vList, 0)) = 0 /\ Cardinality(EndsBy(vList', 0)) = 0
    BY <1>2, <1>t, NothingEndsBefore DEF IndicesTyped
  <1>7. global_count' + Cardinality(Piles(left, Thread)')
          = Cardinality(EndsBy(vList', nextWorkIndex'))
    BY <1>1, <1>3, <1>6, WorkersStay DEF IndicesInv
  <1>8. \A w \in Thread : place'[w] # "exited"
    BY <1>1, <1>3
  <1>9. \A w \in Thread : left'[w] # 0 => w \in Counting'
    BY <1>1, WorkersStay DEF IndicesInv
  <1>10. reported' = None /\ phase' \notin {"joining", "done"}
    BY <1>1 DEF IndicesInv
  <1>11. phase' \in {"reading", "failed"}
           => /\ workAvailable' = 0 /\ posted' = 0 /\ nextWorkIndex' = 0
              /\ \A w \in Thread : place'[w] = "getWork"
    BY <1>1 DEF IndicesInv
  <1> QED BY <1>1, <1>4, <1>5, <1>7, <1>8, <1>9, <1>10, <1>11 DEF IndicesInv, EndsBy

LEMMA IndicesPostKeepsInv ==
    ASSUME TriangleConstants, IndicesInv, Indices!PostWork
    PROVE  IndicesInv'
  <1>t. IndicesTyped
    BY DEF IndicesInv
  <1>1. /\ phase = "posting" /\ phase' \in {"posting", "joining"}
        /\ phase' = "joining" => posted + 1 = Indices!Cardinality(Thread)
        /\ workAvailable' = workAvailable + 1 /\ posted' = posted + 1
        /\ UNCHANGED <<reported, vList, nextWorkIndex, workMutex, global_count,
                       place, index, left>>
    BY DEF Indices!PostWork, Indices!LastPost
  <1>2. IndicesTyped'
    BY <1>1, <1>t DEF IndicesTyped
  <1>3. /\ Cardinality(Indices!Holding) \in Nat /\ Cardinality(Indices!Exited) \in Nat
    <2>1. Indices!Holding \in SUBSET Thread /\ Indices!Exited \in SUBSET Thread
      BY DEF Indices!Holding, Indices!Exited
    <2> QED BY <2>1, FS_Subset, FS_CardinalityType DEF TriangleConstants
  <1>4. Tokens'
    <2>1. workAvailable \in Nat /\ posted \in Nat /\ Tokens
      BY <1>t DEF IndicesInv, IndicesTyped
    <2> QED BY <1>1, <1>3, <2>1, WorkersStay DEF Tokens
  <1>5. phase' = "joining" => Thread # {}
    <2> SUFFICES ASSUME posted + 1 = Indices!Cardinality(Thread), Thread = {} PROVE FALSE
      BY <1>1
    <2>1. Indices!Cardinality(Thread) = Cardinality(Thread)
      BY DEF Indices!Cardinality, Cardinality
    <2>2. Cardinality(Thread) = 0
      BY FS_EmptySet
    <2> QED BY <2>1, <2>2, <1>t DEF IndicesTyped
  <1>6. IndicesAreOwn' /\ \A w \in Thread : left'[w] # 0 => w \in Counting'
    BY <1>1, WorkersStay DEF IndicesInv
  <1>7. /\ Piles(left, Thread)' = Piles(left, Thread)
        /\ EndsBy(vList, nextWorkIndex)' = EndsBy(vList, nextWorkIndex)
    BY <1>1, WorkersStay DEF EndsBy
  <1>8. reported' = None /\ phase' \notin {"reading", "failed", "done"}
    BY <1>1 DEF IndicesInv
  <1>9. /\ \A w \in Thread : place'[w] = "exited" => nextWorkIndex' >= Len(vList')
        /\ global_count' + Cardinality(Piles(left, Thread)')
             = Cardinality(EndsBy(vList, nextWorkIndex)')
    BY <1>1, <1>7 DEF IndicesInv
  <1> QED BY <1>1, <1>2, <1>4, <1>5, <1>6, <1>8, <1>9 DEF IndicesInv

(* With every worker gone all indices are given out and all is counted.    *)
LEMMA IndicesReport ==
    ASSUME TriangleConstants, IndicesInv, Indices!JoinAll
    PROVE  IndicesInv' /\ Goal!Report
  <1>t. IndicesTyped
    BY DEF IndicesInv
  <1>1. /\ phase = "joining" /\ phase' = "done" /\ reported' = global_count
        /\ \A w \in Thread : place[w] = "exited"
        /\ UNCHANGED <<vList, nextWorkIndex, workAvailable, posted, workMutex,
                       global_count, place, index, left>>
    BY DEF Indices!JoinAll
  <1>2. EndsBy(vList, nextWorkIndex) = All(vList)
    <2>1. nextWorkIndex >= Len(vList) /\ nextWorkIndex \in Nat
      BY <1>1, <1>t DEF IndicesInv, IndicesTyped
    <2>2. \A t \in All(vList) : t[3] \in 1 .. Len(vList)
      BY <1>t, TrianglesAreFinite DEF Triple, IndicesTyped
    <2> QED BY <2>1, <2>2 DEF EndsBy
  <1>3. Cardinality(Piles(left, Thread)) = 0
    BY <1>1, NothingLeft DEF IndicesInv, Counting
  <1>4. Goal!Cardinality(All(vList)) = Cardinality(All(vList))
    BY DEF Goal!Cardinality, Cardinality
  <1>5. Goal!Report
    BY <1>1, <1>2, <1>3, <1>4, <1>t DEF IndicesInv, IndicesTyped, Goal!Report, All
  <1>6. IndicesTyped' /\ Tokens' /\ IndicesAreOwn' /\ Counting' = Counting
    BY <1>1, <1>t, WorkersStay DEF IndicesInv, IndicesTyped, Tokens
  <1>7. /\ Piles(left, Thread)' = Piles(left, Thread)
        /\ EndsBy(vList, nextWorkIndex)' = EndsBy(vList, nextWorkIndex)
    BY <1>1, WorkersStay DEF EndsBy
  <1>8. /\ \A w \in Thread : left'[w] # 0 => w \in Counting'
        /\ \A w \in Thread : place'[w] = "exited" => nextWorkIndex' >= Len(vList')
        /\ global_count' + Cardinality(Piles(left, Thread)')
             = Cardinality(EndsBy(vList, nextWorkIndex)')
        /\ Thread # {}
    BY <1>1, <1>6, <1>7 DEF IndicesInv
  <1> QED BY <1>1, <1>5, <1>6, <1>8 DEF IndicesInv

(* A step of a worker that moves it from one place to another.             *)
LEMMA OneMoves ==
    ASSUME TriangleConstants, IndicesTyped, NEW w \in Thread, NEW p \in Indices!Place,
           place' = [place EXCEPT ![w] = p]
    PROVE  /\ place' \in [Thread -> Indices!Place]
           /\ Cardinality(Indices!Holding) \in Nat /\ Cardinality(Indices!Exited) \in Nat
           /\ p \in {"getWork", "exited"} => Indices!Holding' = Indices!Holding \ {w}
           /\ p \notin {"getWork", "exited"}
                => /\ w \in Indices!Holding => Indices!Holding' = Indices!Holding
                   /\ w \notin Indices!Holding => Indices!Holding' = Indices!Holding \cup {w}
           /\ p = "exited" => Indices!Exited' = Indices!Exited \cup {w}
           /\ p # "exited" /\ w \notin Indices!Exited => Indices!Exited' = Indices!Exited
           /\ p = "taking" => Taking' = Taking \cup {w}
           /\ p # "taking" => Taking' = Taking \ {w}
           /\ p # "taking" /\ w \notin Taking => Taking' = Taking
           /\ p = "counting" => Counting' = Counting \cup {w}
           /\ p # "counting" => Counting' = Counting \ {w}
           /\ p # "counting" /\ w \notin Counting => Counting' = Counting
  <1>1. Indices!Holding \in SUBSET Thread /\ Indices!Exited \in SUBSET Thread
    BY DEF Indices!Holding, Indices!Exited
  <1>2. Cardinality(Indices!Holding) \in Nat /\ Cardinality(Indices!Exited) \in Nat
    BY <1>1, FS_Subset, FS_CardinalityType DEF TriangleConstants
  <1>3. place \in [Thread -> Indices!Place] /\ place' \in [Thread -> Indices!Place]
    BY DEF IndicesTyped
  <1>4. place'[w] = p /\ \A u \in Thread : u # w => place'[u] = place[u]
    BY <1>3
  <1>5. p \in {"looking", "locking", "taking", "counting"} <=> p \notin {"getWork", "exited"}
    BY DEF Indices!Place
  <1>6. p \in {"getWork", "exited"} => Indices!Holding' = Indices!Holding \ {w}
    BY <1>4, <1>5 DEF Indices!Holding
  <1>7. p \notin {"getWork", "exited"} => Indices!Holding' = Indices!Holding \cup {w}
    BY <1>4, <1>5 DEF Indices!Holding
  <1>8. w \in Indices!Holding => Indices!Holding \cup {w} = Indices!Holding
    OBVIOUS
  <1>9. /\ p = "exited" => Indices!Exited' = Indices!Exited \cup {w}
        /\ p # "exited" /\ w \notin Indices!Exited => Indices!Exited' = Indices!Exited
    BY <1>4 DEF Indices!Exited
  <1>10. /\ p = "taking" => Taking' = Taking \cup {w}
         /\ p # "taking" => Taking' = Taking \ {w}
         /\ p # "taking" /\ w \notin Taking => Taking' = Taking
    BY <1>4 DEF Taking
  <1>11. /\ p = "counting" => Counting' = Counting \cup {w}
         /\ p # "counting" => Counting' = Counting \ {w}
         /\ p # "counting" /\ w \notin Counting => Counting' = Counting
    BY <1>4 DEF Counting
  <1> QED BY <1>2, <1>3, <1>6, <1>7, <1>8, <1>9, <1>10, <1>11

LEMMA PartsOfWorkers ==
    ASSUME TriangleConstants
    PROVE  /\ IsFiniteSet(Indices!Holding) /\ IsFiniteSet(Indices!Exited)
           /\ Cardinality(Indices!Holding) \in Nat /\ Cardinality(Indices!Exited) \in Nat
  <1>1. Indices!Holding \in SUBSET Thread /\ Indices!Exited \in SUBSET Thread
    BY DEF Indices!Holding, Indices!Exited
  <1> QED BY <1>1, FS_Subset, FS_CardinalityType DEF TriangleConstants

(* What no worker's step changes.                                          *)
LEMMA MainStays ==
    ASSUME IndicesInv, NEW w \in Thread, place[w] # "getWork" \/ workAvailable # 0,
           UNCHANGED <<reported, phase, vList>>
    PROVE  /\ phase' \notin {"reading", "failed"}
           /\ phase' \in {"joining", "done"} => Thread # {}
           /\ phase' # "done" => reported' = None
  BY DEF IndicesInv

LEMMA WaitKeepsIndicesInv ==
    ASSUME TriangleConstants, IndicesInv, NEW w \in Thread, Indices!WaitForWork(w)
    PROVE  IndicesInv'
  <1>t. IndicesTyped
    BY DEF IndicesInv
  <1>1. /\ place[w] = "getWork" /\ workAvailable > 0
        /\ workAvailable' = workAvailable - 1
        /\ place' = [place EXCEPT ![w] = "looking"]
        /\ UNCHANGED <<reported, phase, vList, nextWorkIndex, posted, workMutex,
                       global_count, index, left>>
    BY DEF Indices!WaitForWork
  <1>2. /\ place' \in [Thread -> Indices!Place]
        /\ Indices!Holding' = Indices!Holding \cup {w} /\ w \notin Indices!Holding
        /\ Indices!Exited' = Indices!Exited
        /\ Taking' = Taking /\ Counting' = Counting
    <2>1. "looking" \in Indices!Place
      BY DEF Indices!Place
    <2>2. w \notin Indices!Holding /\ w \notin Indices!Exited /\ w \notin Taking /\ w \notin Counting
      BY <1>1 DEF Indices!Holding, Indices!Exited, Taking, Counting
    <2> QED BY <1>1, <1>t, <2>1, <2>2, OneMoves
  <1>3. IndicesTyped'
    BY <1>1, <1>2, <1>t DEF IndicesTyped
  <1>4. Tokens'
    <2>1. Cardinality(Indices!Holding') = Cardinality(Indices!Holding) + 1
      BY <1>2, PartsOfWorkers, FS_AddElement
    <2>2. workAvailable \in Nat /\ posted \in Nat /\ Tokens
      BY <1>t DEF IndicesInv, IndicesTyped
    <2> QED BY <1>1, <1>2, <2>1, <2>2, PartsOfWorkers DEF Tokens
  <1>5. IndicesAreOwn'
    BY <1>1, <1>2 DEF IndicesInv, IndicesAreOwn
  <1>6. /\ phase' \notin {"reading", "failed"}
        /\ phase' \in {"joining", "done"} => Thread # {}
        /\ phase' # "done" => reported' = None
    BY <1>1, <1>t, MainStays
  <1>7. \A u \in Thread : place'[u] = "exited" => place[u] = "exited"
    BY <1>1, <1>t DEF IndicesTyped
  <1>8. /\ Piles(left, Thread)' = Piles(left, Thread)
        /\ EndsBy(vList, nextWorkIndex)' = EndsBy(vList, nextWorkIndex)
    BY <1>1 DEF Piles, EndsBy
  <1> QED BY <1>1, <1>2, <1>3, <1>4, <1>5, <1>6, <1>7, <1>8 DEF IndicesInv

(* A worker without work keeps its token.                                  *)
LEMMA LookKeepsIndicesInv ==
    ASSUME TriangleConstants, IndicesInv, NEW w \in Thread, Indices!Look(w)
    PROVE  IndicesInv'
  <1>t. IndicesTyped
    BY DEF IndicesInv
  <1> DEFINE p == IF Indices!NoWork THEN "exited" ELSE "locking"
  <1>1. /\ place[w] = "looking" /\ place' = [place EXCEPT ![w] = p]
        /\ UNCHANGED <<reported, phase, vList, nextWorkIndex, workAvailable, posted, workMutex,
                       global_count, index, left>>
    BY DEF Indices!Look
  <1>2. w \in Indices!Holding /\ w \notin Indices!Exited /\ w \notin Taking /\ w \notin Counting
    BY <1>1 DEF Indices!Holding, Indices!Exited, Taking, Counting
  <1>p. p \in Indices!Place /\ p \in {"exited", "locking"}
    BY DEF Indices!Place
  <1>3. place' \in [Thread -> Indices!Place] /\ Taking' = Taking /\ Counting' = Counting
    <2> HIDE DEF p
    <2> QED BY <1>1, <1>2, <1>p, <1>t, OneMoves
  <1>4. IndicesTyped'
    BY <1>1, <1>3, <1>t DEF IndicesTyped
  <1>5. Tokens'
    <2>1. workAvailable \in Nat /\ posted \in Nat /\ Tokens
      BY <1>t DEF IndicesInv, IndicesTyped
    <2>2. CASE p = "exited"
      <3>1. Indices!Holding' = Indices!Holding \ {w} /\ Indices!Exited' = Indices!Exited \cup {w}
        <4> HIDE DEF p
        <4> QED BY <1>1, <1>p, <1>t, <2>2, OneMoves
      <3>2. /\ Cardinality(Indices!Holding') = Cardinality(Indices!Holding) - 1
            /\ Cardinality(Indices!Exited') = Cardinality(Indices!Exited) + 1
        BY <1>2, <3>1, PartsOfWorkers, FS_AddElement, FS_RemoveElement
      <3> QED BY <1>1, <2>1, <3>2, PartsOfWorkers DEF Tokens
    <2>3. CASE p = "locking"
      <3>1. Indices!Holding' = Indices!Holding /\ Indices!Exited' = Indices!Exited
        <4> HIDE DEF p
        <4> QED BY <1>1, <1>2, <1>p, <1>t, <2>3, OneMoves
      <3> QED BY <1>1, <2>1, <3>1 DEF Tokens
    <2> QED BY <1>p, <2>2, <2>3
  <1>6. IndicesAreOwn'
    BY <1>1, <1>3 DEF IndicesInv, IndicesAreOwn
  <1>7. /\ phase' \notin {"reading", "failed"}
        /\ phase' \in {"joining", "done"} => Thread # {}
        /\ phase' # "done" => reported' = None
    BY <1>1, MainStays
  <1>8. \A u \in Thread : place'[u] = "exited" => nextWorkIndex >= Len(vList)
    BY <1>1, <1>t DEF IndicesInv, IndicesTyped, Indices!NoWork, Indices!vCount
  <1>9. /\ Piles(left, Thread)' = Piles(left, Thread)
        /\ EndsBy(vList, nextWorkIndex)' = EndsBy(vList, nextWorkIndex)
    BY <1>1 DEF Piles, EndsBy
  <1> QED BY <1>1, <1>3, <1>4, <1>5, <1>6, <1>7, <1>8, <1>9 DEF IndicesInv

LEMMA LockKeepsIndicesInv ==
    ASSUME TriangleConstants, IndicesInv, NEW w \in Thread, Indices!LockIndex(w)
    PROVE  IndicesInv'
  <1>t. IndicesTyped
    BY DEF IndicesInv
  <1>1. /\ place[w] = "locking" /\ workMutex = 1 /\ workMutex' = 0
        /\ place' = [place EXCEPT ![w] = "taking"]
        /\ index' = [index EXCEPT ![w] = nextWorkIndex]
        /\ UNCHANGED <<reported, phase, vList, nextWorkIndex, workAvailable, posted,
                       global_count, left>>
    BY DEF Indices!LockIndex, Indices!MutexFree
  <1>2. /\ place' \in [Thread -> Indices!Place]
        /\ Indices!Holding' = Indices!Holding /\ Indices!Exited' = Indices!Exited
        /\ Taking' = Taking \cup {w} /\ Counting' = Counting /\ w \notin Counting
    <2>1. "taking" \in Indices!Place
      BY DEF Indices!Place
    <2>2. w \in Indices!Holding /\ w \notin Indices!Exited /\ w \notin Counting
      BY <1>1 DEF Indices!Holding, Indices!Exited, Counting
    <2> QED BY <1>1, <1>t, <2>1, <2>2, OneMoves
  <1>3. IndicesTyped'
    BY <1>1, <1>2, <1>t DEF IndicesTyped
  <1>4. Tokens'
    BY <1>1, <1>2 DEF Tokens, IndicesInv
  <1>5. IndicesAreOwn'
    <2>1. Taking = {}
      BY <1>1 DEF IndicesInv, IndicesAreOwn
    <2>2. Counting \subseteq Thread /\ Taking' = {w}
      BY <1>2, <2>1 DEF Counting
    <2>3. index'[w] = nextWorkIndex /\ \A u \in Counting : index'[u] = index[u]
      BY <1>1, <1>2, <1>t, <2>2 DEF IndicesTyped
    <2> QED BY <1>1, <1>2, <2>2, <2>3 DEF IndicesInv, IndicesAreOwn
  <1>6. /\ phase' \notin {"reading", "failed"}
        /\ phase' \in {"joining", "done"} => Thread # {}
        /\ phase' # "done" => reported' = None
    BY <1>1, MainStays
  <1>7. \A u \in Thread : place'[u] = "exited" => place[u] = "exited"
    BY <1>1, <1>t DEF IndicesTyped
  <1>8. /\ Piles(left, Thread)' = Piles(left, Thread)
        /\ EndsBy(vList, nextWorkIndex)' = EndsBy(vList, nextWorkIndex)
    BY <1>1 DEF Piles, EndsBy
  <1> QED BY <1>1, <1>2, <1>3, <1>4, <1>5, <1>6, <1>7, <1>8 DEF IndicesInv

(* The triangles that a worker counts are those that end at its index, and *)
(* with an index behind the values it counts none: the array holds zeros.  *)
LEMMA EndingsCounted ==
    ASSUME TriangleConstants, vList \in Seq(Value), NEW i \in Nat
    PROVE  Indices!Cardinality(Indices!EndingAt(i)) = Cardinality(EndsAt(vList, i + 1))
  <1> DEFINE S == EndsAt(vList, i + 1)
             E == Indices!EndingAt(i)
             f == [t \in S |-> <<t[1] - 1, t[2] - 1>>]
  <1>1. /\ Len(vList) \in Nat /\ IsFiniteSet(S)
        /\ \A t \in S : /\ t[1] \in 1 .. Len(vList) /\ t[2] \in 1 .. Len(vList)
                        /\ t[3] = i + 1 /\ i < Len(vList) /\ t = <<t[1], t[2], t[3]>>
                        /\ t[1] < t[2] /\ t[2] < t[3]
                        /\ Goal!CheckTriangle(vList[t[1]], vList[t[2]], vList[t[3]])
    <2>1. S \in SUBSET All(vList) /\ Len(vList) \in Nat /\ IsFiniteSet(All(vList))
      BY TrianglesAreFinite DEF EndsAt
    <2>2. IsFiniteSet(S)
      BY <2>1, FS_Subset
    <2>3. ASSUME NEW t \in S
          PROVE  /\ t[1] \in 1 .. Len(vList) /\ t[2] \in 1 .. Len(vList)
                 /\ t[3] \in 1 .. Len(vList) /\ t[3] = i + 1 /\ t = <<t[1], t[2], t[3]>>
                 /\ t[1] < t[2] /\ t[2] < t[3]
                 /\ Goal!CheckTriangle(vList[t[1]], vList[t[2]], vList[t[3]])
      BY DEF EndsAt, All, Goal!Triangles
    <2> QED BY <2>1, <2>2, <2>3
  <1>2. CASE i >= Len(vList)
    <2>1. S = {}
      BY <1>1, <1>2
    <2>2. Indices!At(i) = 0 /\ \A j \in 0 .. i - 1 : Indices!At(j) \in Int
      BY <1>1, <1>2 DEF Indices!At, Indices!vCount, TriangleConstants
    <2>3. E = {}
      BY <2>2 DEF Indices!EndingAt, Indices!CheckTriangle
    <2>4. Indices!Cardinality(E) = Cardinality(E)
      BY DEF Indices!Cardinality, Cardinality
    <2> QED BY <2>1, <2>3, <2>4
  <1>3. CASE i < Len(vList)
    <2>1. \A j \in 0 .. i : Indices!At(j) = vList[j + 1]
      BY <1>1, <1>3 DEF Indices!At, Indices!vCount
    <2>2. \A e : e \in E <=> /\ e \in (0 .. i - 1) \X (0 .. i - 1)
                             /\ e[1] < e[2]
                             /\ Goal!CheckTriangle(vList[e[1] + 1], vList[e[2] + 1], vList[i + 1])
      BY <2>1 DEF Indices!EndingAt, Indices!CheckTriangle, Goal!CheckTriangle
    <2>3. f \in [S -> E]
      <3> SUFFICES ASSUME NEW t \in S PROVE <<t[1] - 1, t[2] - 1>> \in E
        OBVIOUS
      <3>1. /\ t[1] - 1 \in 0 .. i - 1 /\ t[2] - 1 \in 0 .. i - 1 /\ t[1] - 1 < t[2] - 1
            /\ t[1] - 1 + 1 = t[1] /\ t[2] - 1 + 1 = t[2] /\ i + 1 = t[3]
        BY <1>1
      <3>2. Goal!CheckTriangle(vList[t[1]], vList[t[2]], vList[t[3]])
        BY <1>1
      <3> QED BY <2>2, <3>1, <3>2
    <2>4. \A s, t \in S : f[s] = f[t] => s = t
      <3> SUFFICES ASSUME NEW s \in S, NEW t \in S, f[s] = f[t] PROVE s = t
        OBVIOUS
      <3>1. s[1] - 1 = t[1] - 1 /\ s[2] - 1 = t[2] - 1
        OBVIOUS
      <3>2. s[1] = t[1] /\ s[2] = t[2] /\ s[3] = t[3]
        BY <1>1, <3>1
      <3> QED BY <1>1, <3>2
    <2>5. ASSUME NEW e \in E PROVE \E t \in S : f[t] = e
      <3>1. /\ e \in (0 .. i - 1) \X (0 .. i - 1) /\ e[1] < e[2]
            /\ Goal!CheckTriangle(vList[e[1] + 1], vList[e[2] + 1], vList[i + 1])
        BY <2>2
      <3>2. PICK j \in 0 .. i - 1, k \in 0 .. i - 1 : e = <<j, k>>
        BY <3>1
      <3> DEFINE t == <<j + 1, k + 1, i + 1>>
      <3>3. /\ j + 1 \in 1 .. Len(vList) /\ k + 1 \in 1 .. Len(vList) /\ i + 1 \in 1 .. Len(vList)
            /\ j + 1 < k + 1 /\ k + 1 < i + 1 /\ j + 1 - 1 = j /\ k + 1 - 1 = k
            /\ Goal!CheckTriangle(vList[j + 1], vList[k + 1], vList[i + 1])
        BY <1>1, <1>3, <3>1, <3>2
      <3>4. t \in S
        BY <3>3 DEF EndsAt, All, Goal!Triangles
      <3>5. f[t] = e
        BY <3>2, <3>3, <3>4
      <3> QED BY <3>4, <3>5
    <2>6. f \in Bijection(S, E)
      BY <2>3, <2>4, <2>5 DEF Bijection, Injection, Surjection, IsInjective
    <2>7. Cardinality(E) = Cardinality(S)
      BY <1>1, <2>6, FS_Bijection DEF ExistsBijection
    <2>8. Indices!Cardinality(E) = Cardinality(E)
      BY DEF Indices!Cardinality, Cardinality
    <2> QED BY <2>7, <2>8
  <1> QED BY <1>1, <1>2, <1>3

(* The index goes up by one, and the triangles that end there are left to  *)
(* the worker that took it.                                                *)
LEMMA TakeKeepsIndicesInv ==
    ASSUME TriangleConstants, IndicesInv, NEW w \in Thread, Indices!TakeIndex(w)
    PROVE  IndicesInv'
  <1>t. IndicesTyped
    BY DEF IndicesInv
  <1> DEFINE next == nextWorkIndex
             n == Cardinality(EndsAt(vList, next + 1))
  <1>1. /\ place[w] = "taking" /\ w \in Taking /\ w \notin Counting
        /\ index[w] = next /\ next \in Nat /\ left[w] = 0
    BY <1>t DEF Indices!TakeIndex, IndicesInv, IndicesTyped, IndicesAreOwn, Taking, Counting
  <1>2. /\ nextWorkIndex' = next + 1 /\ workMutex' = 1
        /\ left' = [left EXCEPT ![w] = n]
        /\ place' = [place EXCEPT ![w] = "counting"]
        /\ UNCHANGED <<reported, phase, vList, workAvailable, posted, global_count, index>>
    BY <1>1, <1>t, EndingsCounted DEF Indices!TakeIndex, IndicesTyped
  <1>3. /\ place' \in [Thread -> Indices!Place]
        /\ Indices!Holding' = Indices!Holding /\ Indices!Exited' = Indices!Exited
        /\ Taking' = Taking \ {w} /\ Counting' = Counting \cup {w}
    <2>1. "counting" \in Indices!Place
      BY DEF Indices!Place
    <2>2. w \in Indices!Holding /\ w \notin Indices!Exited
      BY <1>1 DEF Indices!Holding, Indices!Exited
    <2> QED BY <1>2, <1>t, <2>1, <2>2, OneMoves
  <1>4. /\ Cardinality(EndsBy(vList, next + 1)) = Cardinality(EndsBy(vList, next)) + n
        /\ Cardinality(EndsBy(vList, next)) \in Nat /\ n \in Nat
    <2> DEFINE A == EndsBy(vList, next)
               B == EndsAt(vList, next + 1)
               U == All(vList)
    <2>1. \A t \in U : t[3] \in Nat
      BY <1>t, TrianglesAreFinite DEF Triple, IndicesTyped
    <2>2. \A t \in U : /\ t[3] <= next + 1 <=> t[3] <= next \/ t[3] = next + 1
                       /\ ~(t[3] <= next /\ t[3] = next + 1)
      BY <1>1, <2>1
    <2>3. EndsBy(vList, next + 1) = A \cup B /\ A \cap B = {}
      BY <2>2 DEF EndsBy, EndsAt
    <2>4. IsFiniteSet(U) /\ A \in SUBSET U /\ B \in SUBSET U
      BY <1>t, TrianglesAreFinite DEF EndsBy, EndsAt, IndicesTyped
    <2> HIDE DEF A, B, U
    <2>5. /\ Cardinality(A \cup B) = Cardinality(A) + Cardinality(B)
          /\ Cardinality(A) \in Nat /\ Cardinality(B) \in Nat
      BY <2>3, <2>4, PartsAdd
    <2> QED BY <2>3, <2>5 DEF A, B
  <1> HIDE DEF n
  <1>5. IndicesTyped'
    BY <1>1, <1>2, <1>3, <1>4, <1>t DEF IndicesTyped
  <1>6. Tokens'
    BY <1>2, <1>3 DEF Tokens, IndicesInv
  <1>7. IndicesAreOwn'
    <2>1. Taking' = {}
      BY <1>1, <1>3 DEF IndicesInv, IndicesAreOwn
    <2>2. \A u \in Counting : index[u] \in Nat /\ index[u] < next /\ index[u] < next + 1
      BY <1>1 DEF IndicesInv, IndicesAreOwn
    <2>3. \A u \in Counting' : index'[u] \in Nat /\ index'[u] < nextWorkIndex'
      BY <1>1, <1>2, <1>3, <2>2
    <2>4. \A u, v \in Counting' : u # v => index'[u] # index'[v]
      BY <1>1, <1>2, <1>3, <2>2 DEF IndicesInv, IndicesAreOwn
    <2> QED BY <2>1, <2>3, <2>4 DEF IndicesAreOwn
  <1>8. /\ phase' \notin {"reading", "failed"}
        /\ phase' \in {"joining", "done"} => Thread # {}
        /\ phase' # "done" => reported' = None
    BY <1>1, <1>2, MainStays
  <1>9. \A u \in Thread : place'[u] = "exited" => nextWorkIndex' >= Len(vList')
    <2>1. \A u \in Thread : place'[u] = "exited" => place[u] = "exited"
      BY <1>2, <1>t DEF IndicesTyped
    <2>2. Len(vList) \in Nat
      BY <1>t DEF IndicesTyped
    <2> QED BY <1>1, <1>2, <2>1, <2>2 DEF IndicesInv
  <1>10. \A u \in Thread : left'[u] # 0 => u \in Counting'
    BY <1>2, <1>3, <1>t DEF IndicesInv, IndicesTyped
  <1>11. global_count' + Cardinality(Piles(left, Thread)')
           = Cardinality(EndsBy(vList, nextWorkIndex)')
    <2>1. left' \in [Thread -> Nat] /\ left \in [Thread -> Nat] /\ left'[w] = n
          /\ \A u \in Thread \ {w} : left'[u] = left[u]
      BY <1>2, <1>4, <1>t DEF IndicesTyped
    <2>2. /\ Cardinality(Piles(left', Thread)) + left[w] = Cardinality(Piles(left, Thread)) + left'[w]
          /\ Cardinality(Piles(left, Thread)) \in Nat /\ Cardinality(Piles(left', Thread)) \in Nat
      BY <2>1, PileChanged DEF TriangleConstants
    <2>3. Piles(left, Thread)' = Piles(left', Thread)
          /\ EndsBy(vList, nextWorkIndex)' = EndsBy(vList, next + 1)
      BY <1>2 DEF Piles, EndsBy
    <2>4. global_count \in Nat
          /\ global_count + Cardinality(Piles(left, Thread)) = Cardinality(EndsBy(vList, next))
      BY <1>t DEF IndicesInv, IndicesTyped
    <2> QED BY <1>1, <1>2, <1>4, <2>1, <2>2, <2>3, <2>4
  <1> QED BY <1>5, <1>6, <1>7, <1>8, <1>9, <1>10, <1>11 DEF IndicesInv

LEMMA CountKeepsIndicesInv ==
    ASSUME TriangleConstants, IndicesInv, NEW w \in Thread, Indices!CountOne(w)
    PROVE  IndicesInv'
  <1>t. IndicesTyped
    BY DEF IndicesInv
  <1>1. /\ place[w] = "counting" /\ left[w] > 0 /\ left[w] \in Nat
        /\ global_count' = global_count + 1
        /\ left' = [left EXCEPT ![w] = left[w] - 1]
        /\ UNCHANGED <<reported, phase, vList, nextWorkIndex, workAvailable, posted,
                       workMutex, place, index>>
    BY <1>t DEF Indices!CountOne, IndicesTyped
  <1>2. left' \in [Thread -> Nat] /\ left \in [Thread -> Nat] /\ left'[w] = left[w] - 1
        /\ \A u \in Thread \ {w} : left'[u] = left[u]
    BY <1>1, <1>t DEF IndicesTyped
  <1>3. IndicesTyped'
    BY <1>1, <1>2, <1>t DEF IndicesTyped
  <1>4. /\ Indices!Holding' = Indices!Holding /\ Indices!Exited' = Indices!Exited
        /\ Taking' = Taking /\ Counting' = Counting /\ w \in Counting
    BY <1>1 DEF Indices!Holding, Indices!Exited, Taking, Counting
  <1>5. Tokens' /\ IndicesAreOwn'
    BY <1>1, <1>4 DEF Tokens, IndicesAreOwn, IndicesInv
  <1>6. /\ phase' \notin {"reading", "failed"}
        /\ phase' \in {"joining", "done"} => Thread # {}
        /\ phase' # "done" => reported' = None
    BY <1>1, MainStays
  <1>7. /\ \A u \in Thread : left'[u] # 0 => u \in Counting'
        /\ \A u \in Thread : place'[u] = "exited" => nextWorkIndex' >= Len(vList')
    BY <1>1, <1>2, <1>4 DEF IndicesInv
  <1>8. global_count' + Cardinality(Piles(left, Thread)')
          = Cardinality(EndsBy(vList, nextWorkIndex)')
    <2>1. /\ Cardinality(Piles(left', Thread)) + left[w] = Cardinality(Piles(left, Thread)) + left'[w]
          /\ Cardinality(Piles(left, Thread)) \in Nat /\ Cardinality(Piles(left', Thread)) \in Nat
      BY <1>2, PileChanged DEF TriangleConstants
    <2>2. Piles(left, Thread)' = Piles(left', Thread)
          /\ EndsBy(vList, nextWorkIndex)' = EndsBy(vList, nextWorkIndex)
      BY <1>1 DEF Piles, EndsBy
    <2>3. global_count \in Nat
          /\ global_count + Cardinality(Piles(left, Thread))
               = Cardinality(EndsBy(vList, nextWorkIndex))
      BY <1>t DEF IndicesInv, IndicesTyped
    <2> QED BY <1>1, <1>2, <2>1, <2>2, <2>3
  <1> QED BY <1>3, <1>5, <1>6, <1>7, <1>8 DEF IndicesInv

(* The token goes back when nothing is left to count.                      *)
LEMMA FinishKeepsIndicesInv ==
    ASSUME TriangleConstants, IndicesInv, NEW w \in Thread, Indices!FinishIndex(w)
    PROVE  IndicesInv'
  <1>t. IndicesTyped
    BY DEF IndicesInv
  <1>1. /\ place[w] = "counting" /\ left[w] = 0
        /\ workAvailable' = workAvailable + 1
        /\ place' = [place EXCEPT ![w] = "getWork"]
        /\ index' = [index EXCEPT ![w] = Indices!NoIndex]
        /\ UNCHANGED <<reported, phase, vList, nextWorkIndex, posted, workMutex,
                       global_count, left>>
    BY DEF Indices!FinishIndex, Indices!PutBack
  <1>2. /\ place' \in [Thread -> Indices!Place]
        /\ Indices!Holding' = Indices!Holding \ {w} /\ w \in Indices!Holding
        /\ Indices!Exited' = Indices!Exited
        /\ Taking' = Taking /\ Counting' = Counting \ {w}
    <2>1. "getWork" \in Indices!Place
      BY DEF Indices!Place
    <2>2. w \in Indices!Holding /\ w \notin Indices!Exited /\ w \notin Taking
      BY <1>1 DEF Indices!Holding, Indices!Exited, Taking
    <2> QED BY <1>1, <1>t, <2>1, <2>2, OneMoves
  <1>3. IndicesTyped'
    BY <1>1, <1>2, <1>t DEF IndicesTyped
  <1>4. Tokens'
    <2>1. Cardinality(Indices!Holding') = Cardinality(Indices!Holding) - 1
      BY <1>2, PartsOfWorkers, FS_RemoveElement
    <2>2. workAvailable \in Nat /\ posted \in Nat /\ Tokens
      BY <1>t DEF IndicesInv, IndicesTyped
    <2> QED BY <1>1, <1>2, <2>1, <2>2, PartsOfWorkers DEF Tokens
  <1>5. IndicesAreOwn'
    <2>1. Taking \subseteq Thread \ {w} /\ Counting' \subseteq Thread \ {w}
          /\ Counting' \subseteq Counting
      BY <1>1, <1>2 DEF Taking, Counting
    <2>2. \A u \in Thread \ {w} : index'[u] = index[u]
      BY <1>1, <1>t DEF IndicesTyped
    <2> QED BY <1>1, <1>2, <2>1, <2>2 DEF IndicesInv, IndicesAreOwn
  <1>6. /\ phase' \notin {"reading", "failed"}
        /\ phase' \in {"joining", "done"} => Thread # {}
        /\ phase' # "done" => reported' = None
    BY <1>1, MainStays
  <1>7. \A u \in Thread : place'[u] = "exited" => place[u] = "exited"
    BY <1>1, <1>t DEF IndicesTyped
  <1>8. \A u \in Thread : left'[u] # 0 => u \in Counting'
    BY <1>1, <1>2 DEF IndicesInv
  <1>9. /\ Piles(left, Thread)' = Piles(left, Thread)
        /\ EndsBy(vList, nextWorkIndex)' = EndsBy(vList, nextWorkIndex)
    BY <1>1 DEF Piles, EndsBy
  <1> QED BY <1>1, <1>3, <1>4, <1>5, <1>6, <1>7, <1>8, <1>9 DEF IndicesInv

LEMMA IndicesStay ==
    ASSUME TriangleConstants, IndicesInv, [Indices!Next]_Indices!vars
    PROVE  IndicesInv' /\ [Goal!CountNext]_<<vList, reported>>
  <1>1. CASE Indices!ReadList
    <2>1. IndicesInv' /\ reported = None /\ reported' = reported
      BY <1>1, IndicesReadKeepsInv DEF Indices!ReadList, IndicesInv
    <2> QED BY <1>1, <2>1, IndicesReadKeepsInv DEF Goal!CountNext, Goal!TakeValue
  <1>2. CASE Indices!PostWork
    BY <1>2, IndicesPostKeepsInv DEF Indices!PostWork
  <1>3. CASE Indices!JoinAll
    BY <1>3, IndicesReport DEF Goal!CountNext
  <1>4. ASSUME NEW w \in Thread, Indices!WorkerStep(w)
        PROVE  IndicesInv' /\ UNCHANGED <<vList, reported>>
    <2>1. IndicesInv'
      BY <1>4, WaitKeepsIndicesInv, LookKeepsIndicesInv, LockKeepsIndicesInv,
         TakeKeepsIndicesInv, CountKeepsIndicesInv, FinishKeepsIndicesInv
         DEF Indices!WorkerStep
    <2>2. UNCHANGED <<vList, reported>>
      BY <1>4 DEF Indices!WorkerStep, Indices!WaitForWork, Indices!Look, Indices!LockIndex,
                  Indices!TakeIndex, Indices!CountOne, Indices!FinishIndex
    <2> QED BY <2>1, <2>2
  <1>5. CASE UNCHANGED Indices!vars
    <2>1. UNCHANGED <<phase, vList, nextWorkIndex, workAvailable, posted, workMutex,
                      global_count, reported, place, index, left>>
      BY <1>5 DEF Indices!vars
    <2>2. IndicesTyped' /\ Tokens' /\ EndsBy(vList, nextWorkIndex)' = EndsBy(vList, nextWorkIndex)
      BY <2>1, WorkersStay DEF IndicesInv, IndicesTyped, Tokens, EndsBy
    <2> QED BY <2>1, <2>2, WorkersStay DEF IndicesInv
  <1> QED BY <1>1, <1>2, <1>3, <1>4, <1>5 DEF Indices!Next, Indices!Main, Indices!Ended

LEMMA IndicesAddUp ==
    ASSUME TriangleConstants, IndicesInv
    PROVE  Indices!CountIsExact /\ Indices!TokensConserved /\ Indices!IndicesDistinct
  <1>1. Indices!Abstract!Triangles(vList) = All(vList)
    BY DEF Indices!Abstract!Triangles, All, Goal!Triangles, Indices!Abstract!CheckTriangle,
           Goal!CheckTriangle
  <1>2. /\ Indices!Cardinality(Indices!Holding) = Cardinality(Indices!Holding)
        /\ Indices!Cardinality(Indices!Exited) = Cardinality(Indices!Exited)
        /\ Indices!Cardinality(Piles(left, Thread)) = Cardinality(Piles(left, Thread))
        /\ Indices!Cardinality(EndsBy(vList, nextWorkIndex))
             = Cardinality(EndsBy(vList, nextWorkIndex))
    BY DEF Indices!Cardinality, Cardinality
  <1>3. Indices!CountIsExact
    <2>1. Indices!Uncounted = Piles(left, Thread)
      BY DEF Indices!Uncounted, Piles
    <2>2. {t \in All(vList) : t[3] <= nextWorkIndex} = EndsBy(vList, nextWorkIndex)
      BY DEF EndsBy
    <2> QED BY <1>1, <1>2, <2>1, <2>2 DEF Indices!CountIsExact, IndicesInv
  <1>4. Indices!TokensConserved
    BY <1>2 DEF Indices!TokensConserved, IndicesInv, Tokens
  <1>5. Indices!IndicesDistinct
    <2>1. Indices!Busy = Taking \cup Counting
      BY DEF Indices!Busy, Taking, Counting
    <2>2. \A w \in Indices!Busy : place[w] = "counting" => w \in Counting
      BY DEF Indices!Busy, Counting
    <2>3. nextWorkIndex \in Nat
      BY DEF IndicesInv, IndicesTyped
    <2>4. \A w \in Taking : \A u \in Counting : index[w] # index[u]
      BY <2>3 DEF IndicesInv, IndicesAreOwn
    <2>5. \A w, u \in Indices!Busy : w # u => index[w] # index[u]
      BY <2>1, <2>4 DEF IndicesInv, IndicesAreOwn
    <2> QED BY <2>2, <2>5 DEF Indices!IndicesDistinct, IndicesInv, IndicesAreOwn
  <1> QED BY <1>3, <1>4, <1>5
=============================================================================
