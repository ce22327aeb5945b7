---------------------------- MODULE MCExercises ----------------------------
(* The small programs of the course, one after the other: Init picks one   *)
(* of Programs, which then runs alone.  Variables that play the same part  *)
(* in several of the four triangle counters are one variable; every other  *)
(* program keeps its own in x1 to x10, in the order its module declares    *)
(* them, and leaves the rest at 0.                                         *)
EXTENDS Integers, Sequences, FiniteSets

CONSTANTS
    Programs,   \* the programs that may run
    Value, MaxLength, FirstCap, MAX_VALUES, workers, Thread, None,  \* the triangles
    Pid, Client, NUL, NULL, NaN,
    STRING_LIMIT, Char, SharedChar, Editor,     \* of the editors, two of hw4
    ITERATIONS, MaxLines, MaxAdds   \* of the ping-pong, the shell, the messages

-----------------------------------------------------------------------------
(* The four triangle counters                                              *)

VARIABLES
    program,    \* the one that runs, "pipe", "threads", "device" or "semaphores" here
    vList, phase, reported,
    at,         \* what each worker is doing
    box,        \* the pipe, the slots, or the workers' indices
    tally,      \* counts read, slots added, or tokens posted
    total,
    vCap,                                               \* not of hw4
    workAvailable, workMutex, nextWorkIndex, left       \* of hw4 only

ofSem == <<workAvailable, workMutex, nextWorkIndex, left>>
vars == <<program, vList, phase, reported, at, box, tally, total, vCap, ofSem>>

Pipe == INSTANCE TrianglesPipe WITH
    child <- at, pipe <- box, heard <- tally, totalTriangles <- total

Threads == INSTANCE TrianglesSlots WITH
    OnDevice <- FALSE,
    thread <- at, localCount <- box, added <- tally, totalTriangles <- total

Device == INSTANCE TrianglesSlots WITH
    workers <- MaxLength + 1, OnDevice <- TRUE,
    thread <- at, localCount <- box, added <- tally, totalTriangles <- total

Semaphores == INSTANCE TrianglesSem WITH
    Worker <- Thread, index <- box, posted <- tally, global_count <- total

Idle == workAvailable = 0 /\ workMutex = 1 /\ nextWorkIndex = 0 /\ left = <<>>

Init ==
    \/ program = "pipe" /\ Pipe!Init /\ Idle
    \/ program = "threads" /\ Threads!Init /\ Idle
    \/ program = "device" /\ Device!Init /\ Idle
    \/ program = "semaphores" /\ Semaphores!Init /\ vCap = MAX_VALUES

MainStep ==
    /\ UNCHANGED program
    /\ \/ program = "pipe" /\ Pipe!Main /\ UNCHANGED ofSem
       \/ program = "threads" /\ Threads!Main /\ UNCHANGED ofSem
       \/ program = "device" /\ Device!Main /\ UNCHANGED ofSem
       \/ program = "semaphores" /\ Semaphores!Main /\ UNCHANGED vCap

WorkerStep(w) ==
    /\ w \in DOMAIN at
    /\ UNCHANGED program
    /\ \/ program = "pipe" /\ Pipe!FindTriangles(w) /\ UNCHANGED ofSem
       \/ program = "threads" /\ Threads!FindTriangles(w) /\ UNCHANGED ofSem
       \/ program = "device" /\ Device!FindTriangles(w) /\ UNCHANGED ofSem
       \/ program = "semaphores" /\ phase # "failed"
             /\ Semaphores!WorkerStep(w) /\ UNCHANGED vCap

Ended == phase \in {"done", "failed"} /\ UNCHANGED vars

AnyWorker == Thread \cup 0 .. MaxLength

Next == Ended \/ MainStep \/ \E w \in AnyWorker : WorkerStep(w)

Spec ==
    /\ Init
    /\ [][Next]_vars
    /\ WF_vars(MainStep)
    /\ \A w \in AnyWorker : WF_vars(WorkerStep(w))

-----------------------------------------------------------------------------
(* The other programs                                                      *)

VARIABLES x1, x2, x3, x4, x5, x6, x7, x8, x9, x10

cells == <<x1, x2, x3, x4, x5, x6, x7, x8, x9, x10>>
ofTriangles == <<vList, phase, reported, at, box, tally, total, vCap, ofSem>>
allVars == <<vars, cells>>

-----------------------------------------------------------------------------
(* The programs and their bounds                                           *)

Spinning == INSTANCE PingPongSpin WITH
    rereads <- x1, nextTurn <- x2, at <- x3, moves <- x4

Turning == INSTANCE PingPongSem WITH
    sem <- x1, at <- x2, moves <- x3

Ring == INSTANCE RingEditor WITH
    string <- x1, history <- x2, undo_count <- x3, defined <- x4, before <- x5, wrapped <- x6

Plain == INSTANCE PlainEditor WITH
    string <- x1, prev <- x2, len <- x3, num_undos <- x4

(* The editor of hw4, whose processes may have fewer characters.           *)
Shared == INSTANCE SharedEditor WITH
    Char <- SharedChar, Process <- Editor,
    string <- x1, prev <- x2, len <- x3, num_undos <- x4, sem <- x5, pc <- x6,
    command <- x7, killed <- x8

Stash == INSTANCE Shell WITH
    script <- x1, fromFile <- x2, offset <- x3, buffer <- x4, state <- x5, parent <- x6,
    awaited <- x7, older_sibling <- x8

Messages == INSTANCE Motd WITH
    mList <- x1, mCount <- x2, executed <- x3, run <- x4, call <- x5, sent <- x6,
    answers <- x7, count <- x8, printed <- x9

(* Disks of three clusters with directories of up to four entries, in every *)
(* order of the clusters, with both ends of the end-of-chain marks.        *)
Disks ==
    LET rootDirs == {<<"A">>, <<"deleted", "A", "file">>, <<"file", "A">>}
        subDirs == {s \in UNION {[1 .. n -> {"file", "B"}] : n \in 1 .. 4} :
                        Cardinality({i \in DOMAIN s : s[i] = "B"}) <= 1}
        orders == {p \in [1 .. 3 -> 2 .. 4] : \A i, j \in 1 .. 3 : i # j => p[i] # p[j]}
    IN  {[dirs |-> [root |-> r, A |-> a, B |-> b],
          chain |-> [A |-> SubSeq(p, 1, (Len(a) + 1) \div 2), B |-> <<p[3]>>],
          eoc |-> e] :
            r \in rootDirs, a \in subDirs, b \in {<<>>, <<"file", "file">>},
            p \in orders, e \in {4088, 4095}}

Floppy == INSTANCE FloppyDir WITH
    SECTORS <- 2, Entries <- 2, Clusters <- 3, Images <- Disks,
    version <- x1, image <- x2, pos <- x3, stack <- x4, lines <- x5

(* None is no process and no call, and NULL no node; a process id is a     *)
(* positive number; main of the triangle counters refuses fewer than one   *)
(* worker; a string has a terminator; the disks are well-formed.           *)
ASSUME ExercisesAssumption ==
    /\ Value \subseteq Int /\ MaxLength \in Nat
    /\ workers \in Nat \ {0} /\ IsFiniteSet(Thread) /\ Thread # {}
    /\ FirstCap \in Nat
    /\ STRING_LIMIT \in Nat \ {0} /\ SharedChar \subseteq Char
    /\ None \notin Pid /\ None \notin Messages!Request
    /\ Pid \subseteq Nat \ {0} /\ NULL \notin Nat
    /\ ITERATIONS \in Nat \ {0}
    /\ MaxLines \in Nat /\ MaxAdds \in Nat
    /\ Floppy!FloppyConstants

Top == INSTANCE ProcessTop WITH
    MAX_PROC_NUM <- 2, Rows <- 1,
    memsize <- x1, alive <- x2, stayed <- x3, cursor <- x4, names <- x5, procs <- x6,
    shown <- x7, phase <- x8

Http == INSTANCE HTTPClient WITH
    Byte <- {"\r", "\n", "x"}, MaxResponse <- 6, BufferSize <- 3,
    response <- x1, taken <- x2, done <- x3, last4 <- x4, inHeader <- x5, stderr <- x6,
    stdout <- x7

Filter == INSTANCE Exclude WITH
    LINE_LIMIT <- 3, LINES_LIMIT <- 4, MaxInput <- 6, BufferSize <- 2,
    input <- x1, excludedLineIdx <- x2, taken <- x3, buffer <- x4, i <- x5,
    wholeFile <- x6, j <- x7, h <- x8, written <- x9, defined <- x10

Linked == INSTANCE ListSort WITH
    MaxNodes <- 4, Value <- 1 .. 3, val <- x1, next <- x2, stack <- x3, sorted <- x4

Arrays == INSTANCE ArraySort WITH
    MaxLength <- 5, Value <- 1 .. 3,
    input <- x1, seq <- x2, calls <- x3, i <- x4, lower <- x5

Mapped == INSTANCE MappedSort WITH
    MaxRecords <- 4, Distance <- 1 .. 3, SIZE_MAX <- 7,
    distance <- x1, plist <- x2, i <- x3, j <- x4, tmp <- x5, phase <- x6

PsGrep == INSTANCE Pipeline WITH
    MaxLines <- 3, Capacity <- 2, at <- x1, fds <- x2, pipe <- x3, toPrint <- x4, got <- x5

Family == INSTANCE ThreeChildren WITH
    parent <- x1, calls <- x2, child <- x3, output <- x4

Rows == INSTANCE Interleaving WITH
    Rounds <- 1, round <- x1, main <- x2, written <- x3, row <- x4, rows <- x5

-----------------------------------------------------------------------------
(* The variables a program does not use.                                   *)
Zero10 == x10 = 0
Zero9 == x9 = 0 /\ Zero10
Zero7 == x8 = 0 /\ x7 = 0 /\ Zero9
Zero6 == x6 = 0 /\ Zero7
Zero5 == x5 = 0 /\ Zero6
Zero4 == x4 = 0 /\ Zero5

From10 == <<program, ofTriangles, x10>>
From9 == <<From10, x9>>
From7 == <<From9, x8, x7>>
From6 == <<From7, x6>>
From5 == <<From6, x5>>
From4 == <<From5, x4>>

TrianglesIdle ==
    /\ vList = <<>> /\ phase = "reading" /\ reported = None
    /\ at = <<>> /\ box = <<>> /\ tally = 0 /\ total = 0 /\ vCap = 0
    /\ Idle

OtherInit ==
    /\ program \in Programs
    /\ \/ program = "ex06 pingpong" /\ Spinning!Init /\ Zero5
       \/ program = "ex07 pingpong" /\ Turning!Init /\ Zero4
       \/ program = "edit2" /\ Ring!Init /\ Zero7
       \/ program = "hw3 edit" /\ Plain!Init /\ Zero5
       \/ program = "hw4 edit" /\ Shared!Init /\ Zero9
       \/ program = "stash" /\ Stash!Init /\ Zero9
       \/ program = "motd" /\ Messages!Init /\ Zero10
       \/ program = "floppyDir" /\ Floppy!Init /\ Zero6
       \/ program = "top" /\ Top!Init /\ Zero9
       \/ program = "HTTPclient" /\ Http!Init /\ x8 = 0 /\ Zero9
       \/ program = "exclude" /\ Filter!Init
       \/ program = "linked" /\ Linked!Init /\ Zero5
       \/ program = "array" /\ Arrays!Init /\ Zero6
       \/ program = "sort" /\ Mapped!Init /\ Zero7
       \/ program = "ex03 pipe" /\ PsGrep!Init /\ Zero6
       \/ program = "children" /\ Family!Init /\ Zero5
       \/ program = "interleaving" /\ Rows!Init /\ Zero6
    /\ TrianglesIdle

AllInit ==
    \/ OtherInit
    \/ program \in Programs /\ Init /\ x1 = 0 /\ x2 = 0 /\ x3 = 0 /\ Zero4

(* Each of them with its end, where it stays as it is.                     *)
OtherStep ==
    \/ program = "ex06 pingpong" /\ Spinning!Next /\ UNCHANGED From5
    \/ program = "ex07 pingpong" /\ Turning!Next /\ UNCHANGED From4
    \/ program = "stash" /\ Stash!Next /\ UNCHANGED From9
    \/ program = "motd" /\ Messages!Next /\ UNCHANGED From10
    \/ program = "floppyDir" /\ Floppy!Next /\ UNCHANGED From6
    \/ program = "top" /\ Top!Next /\ UNCHANGED From9
    \/ program = "HTTPclient" /\ Http!Next /\ UNCHANGED <<From9, x8>>
    \/ program = "exclude" /\ Filter!Next /\ UNCHANGED <<program, ofTriangles>>
    \/ program = "linked" /\ Linked!Next /\ UNCHANGED From5
    \/ program = "array" /\ Arrays!Next /\ UNCHANGED From6
    \/ program = "sort" /\ Mapped!Next /\ UNCHANGED From7
    \/ program = "ex03 pipe" /\ PsGrep!Next /\ UNCHANGED From6
    \/ program = "children" /\ Family!Next /\ UNCHANGED From5
    \/ program = "interleaving" /\ Rows!Next /\ UNCHANGED From6

(* Processes come and go while top runs, and top itself goes on.           *)
TopGoesOn == program = "top" /\ Top!Step /\ UNCHANGED From9

(* The users of the editors need not go on, but a command they have begun  *)
(* does, unless it is killed.                                              *)
EditorStep ==
    \/ program = "hw3 edit" /\ Plain!Next /\ UNCHANGED From5
    \/ program = "hw4 edit" /\ Shared!Next /\ UNCHANGED From9
    \/ program = "edit2" /\ Ring!Next /\ UNCHANGED From7
EditorGoesOn(p) == program = "hw4 edit" /\ Shared!InCommand(p) /\ UNCHANGED From9

AllNext == (Next /\ UNCHANGED cells) \/ OtherStep \/ EditorStep

(* A program goes on while it can; of the triangle counters, every worker. *)
AllSpec ==
    /\ AllInit
    /\ [][AllNext]_allVars
    /\ WF_vars(MainStep)
    /\ \A w \in AnyWorker : WF_vars(WorkerStep(w))
    /\ WF_cells(OtherStep)
    /\ WF_cells(TopGoesOn)
    /\ \A p \in Editor : WF_cells(EditorGoesOn(p))

-----------------------------------------------------------------------------
(* The properties of the modules, for the program that runs.               *)

TypeOK ==
    CASE program = "pipe" -> Pipe!TypeOK
      [] program = "threads" -> Threads!TypeOK
      [] program = "device" -> Device!TypeOK
      [] program = "semaphores" -> Semaphores!TypeOK

(* No count is lost on its way to main, and none is added twice; under the *)
(* semaphores no token is lost, and no index is given to two workers.      *)
CountsAddUp ==
    CASE program = "pipe" -> Pipe!CountsAddUp
      [] program = "threads" -> Threads!AddedIsFound
      [] program = "device" -> Device!AddedIsFound
      [] program = "semaphores" -> /\ Semaphores!CountIsExact
                                   /\ Semaphores!TokensConserved
                                   /\ Semaphores!IndicesDistinct
      [] OTHER -> TRUE

(* All four print the number of triangles in their input.                  *)
Abstract == INSTANCE TriangleCount WITH list <- vList
ImplementsTriangleCount == Abstract!CountSpec

AllTypesOK ==
    CASE program = "ex06 pingpong" -> Spinning!TypeOK
      [] program = "ex07 pingpong" -> Turning!TypeOK
      [] program = "edit2" -> Ring!TypeOK
      [] program = "hw3 edit" -> Plain!TypeOK
      [] program = "hw4 edit" -> Shared!TypeOK
      [] program = "stash" -> Stash!TypeOK
      [] program = "motd" -> Messages!TypeOK
      [] program = "floppyDir" -> Floppy!TypeOK
      [] program = "top" -> Top!TypeOK
      [] program = "HTTPclient" -> Http!TypeOK
      [] program = "exclude" -> Filter!TypeOK
      [] program = "linked" -> Linked!TypeOK
      [] program = "array" -> Arrays!TypeOK
      [] program = "sort" -> Mapped!TypeOK
      [] program = "ex03 pipe" -> PsGrep!TypeOK
      [] program = "children" -> Family!TypeOK
      [] program = "interleaving" -> Rows!TypeOK
      [] OTHER -> TypeOK

(* stash.c: one shell at a time takes lines from the input.                *)
OneReader == program = "stash" => Stash!OneReader

(* motd_client.c: a listing taken call by call has no gaps.                *)
ListingHasNoGaps == program = "motd" => Messages!ListingHasNoGaps

(* What the other programs leave behind, print or list is right, however   *)
(* their steps, reads or processes have interleaved.                       *)
OutputsAreRight ==
    CASE program = "edit2" -> Ring!UndoGoesBack
      [] program = "floppyDir" -> Floppy!ReportIsTheTree
      [] program = "top" -> Top!ListIsComplete
      [] program = "HTTPclient" -> Http!SplitAtEmptyLine
      [] program = "exclude" -> Filter!LinesKept
      [] program = "linked" -> Linked!ListIsSorted
      [] program = "array" -> Arrays!ArrayIsSorted
      [] program = "sort" -> Mapped!FileKeepsRecords
      [] program = "ex03 pipe" -> PsGrep!NothingLeftBehind
      [] program = "children" -> Family!DoneIsLast
      [] program = "interleaving" -> Rows!RowsAreInterleavings
      [] OTHER -> TRUE

(* hw4/edit.c: whatever a command returns, it gives the semaphore back.    *)
SemaphoreGivenBack ==
    (program = "hw4 edit" /\ x5 = 0) ~> (program = "hw4 edit" /\ (x5 > 0 \/ x8 # {}))

(* edit.c of hw3 and hw4: undo goes back to the text before the last edit, *)
(* of whichever process when several edit at the same time.                *)
Edited == INSTANCE Editing WITH
    UNDO_LIMIT <- 3,
    text <- CASE program = "hw3 edit" -> Plain!Visible(x1)
              [] program = "hw4 edit" -> Shared!Visible(Shared!Text)
              [] OTHER -> <<>>,
    past <- CASE program = "hw3 edit" -> Plain!History
              [] program = "hw4 edit" -> Shared!History
              [] OTHER -> <<>>
HistoryIsExact == Edited!UndoSpec

(* ping and pong move in turn, whether they spin or wait on semaphores, and *)
(* whatever the compiler makes of the spinning.                            *)
InTurn == INSTANCE Alternation WITH
    next <- CASE program = "ex06 pingpong" -> x2
              [] program = "ex07 pingpong" -> Turning!turn
              [] OTHER -> "ping",
    moves <- CASE program = "ex06 pingpong" -> x4
               [] program = "ex07 pingpong" -> x3
               [] OTHER -> [p \in {"ping", "pong"} |-> 0]
ImplementsAlternation == InTurn!AlternationSpec

(* Every program ends by itself but the editors, which their users run on  *)
(* and on, and threads that spin on a variable they never read again.      *)
Editors == {"hw3 edit", "hw4 edit", "edit2"}
MayGoOn == program \in Editors \/ (program = "ex06 pingpong" /\ ~x1)
HasEnded ==
    CASE program = "ex06 pingpong" -> Spinning!Ended
      [] program = "ex07 pingpong" -> Turning!Ended
      [] program = "stash" -> Stash!Ended
      [] program = "motd" -> Messages!Ended
      [] program = "floppyDir" -> Floppy!Ended
      [] program = "top" -> Top!Ended
      [] program = "HTTPclient" -> Http!Ended
      [] program = "exclude" -> Filter!Ended
      [] program = "linked" -> Linked!Ended
      [] program = "array" -> Arrays!Ended
      [] program = "sort" -> Mapped!Ended
      [] program = "ex03 pipe" -> PsGrep!Ended
      [] program = "children" -> Family!Ended
      [] program = "interleaving" -> Rows!Ended
      [] program \in Editors -> FALSE
      [] OTHER -> phase \in {"done", "failed"}
ProgramsEnd == <>(MayGoOn \/ HasEnded)

(* expected-2.txt is what floppyDirNew.c prints of disk-2.img, too.  This  *)
(* fails: it follows no chain of clusters from an odd one.                 *)
NewReportIsExpected == program = "floppyDir" => Floppy!ReportIsExpected
=============================================================================
