--------------------------- MODULE ExercisesProofs ---------------------------
(* The theorems about the programs of MCExercises, as properties of the    *)
(* specification that picks one of them.                                   *)
EXTENDS MCExercises, FiniteSetTheorems, TLAPS

-----------------------------------------------------------------------------
(* A program that is not a triangle counter keeps to its own steps, and    *)
(* keeps being the one that runs.                                          *)
LEMMA ProgramStays ==
    ASSUME [AllNext]_allVars
    PROVE  /\ program' = program
           /\ OtherStep \/ EditorStep \/ UNCHANGED cells
  <1>1. CASE Next /\ UNCHANGED cells
    BY <1>1 DEF Next, Ended, MainStep, WorkerStep, vars
  <1>2. CASE OtherStep
    BY <1>2 DEF OtherStep, From4, From5, From6, From7, From9, From10
  <1>3. CASE EditorStep
    <2>1. UNCHANGED From5 \/ UNCHANGED From7 \/ UNCHANGED From9
      BY <1>3 DEF EditorStep
    <2>2. program' = program
      BY <2>1 DEF From5, From6, From7, From9, From10
    <2> QED BY <1>3, <2>2
  <1>4. CASE UNCHANGED allVars
    BY <1>4 DEF allVars, vars
  <1> QED BY <1>1, <1>2, <1>3, <1>4 DEF AllNext

-----------------------------------------------------------------------------
(* What the steps of a program preserve is proved in CourseProofs, for the *)
(* same modules with variables of their own.                               *)
Course == INSTANCE CourseProofs WITH
    OnDevice <- FALSE,
    script <- x1, fromFile <- x2, offset <- x3, buffer <- x4, state <- x5, parent <- x6,
    awaited <- x7, older_sibling <- x8,
    mList <- x1, mCount <- x2, executed <- x3, run <- x4, call <- x5, sent <- x6,
    answers <- x7, count <- x8, printed <- x9,
    rereads <- x1, nextTurn <- x2, spinner <- x3, laps <- x4,
    sem <- x1, at <- x2, moves <- x3,
    totalTriangles <- total, thread <- at, localCount <- box, added <- tally,
    child <- at, pipe <- box, heard <- tally,
    posted <- tally, global_count <- total, place <- at, index <- box

(* The kernel of hw6 has a worker per place of the list.                   *)
CourseOnDevice == INSTANCE CourseProofs WITH
    OnDevice <- TRUE, workers <- MaxLength + 1,
    script <- x1, fromFile <- x2, offset <- x3, buffer <- x4, state <- x5, parent <- x6,
    awaited <- x7, older_sibling <- x8,
    mList <- x1, mCount <- x2, executed <- x3, run <- x4, call <- x5, sent <- x6,
    answers <- x7, count <- x8, printed <- x9,
    rereads <- x1, nextTurn <- x2, spinner <- x3, laps <- x4,
    sem <- x1, at <- x2, moves <- x3,
    totalTriangles <- total, thread <- at, localCount <- box, added <- tally,
    child <- at, pipe <- box, heard <- tally,
    posted <- tally, global_count <- total, place <- at, index <- box

-----------------------------------------------------------------------------
(* The ping-pong programs.  The theorems of their modules, for the one     *)
(* that runs.                                                              *)
TurnInv ==
    /\ program = "ex06 pingpong" => Course!SpinInv
    /\ program = "ex07 pingpong" => Course!TokenInv

TurnStep == [\E p \in InTurn!Player : InTurn!Move(p)]_<<
                CASE program = "ex06 pingpong" -> x2
                  [] program = "ex07 pingpong" -> Turning!turn
                  [] OTHER -> "ping",
                CASE program = "ex06 pingpong" -> x4
                  [] program = "ex07 pingpong" -> x3
                  [] OTHER -> [p \in {"ping", "pong"} |-> 0]>>

LEMMA SpinningIsCourses ==
    /\ Course!Spinning!Init <=> Spinning!Init
    /\ [Spinning!Next]_Spinning!vars => [Course!Spinning!Next]_Course!Spinning!vars
    /\ [\E p \in Course!Spinning!Turns!Player : Course!Spinning!Turns!Move(p)]_<<x2, x4>>
         => [\E p \in Spinning!Turns!Player : Spinning!Turns!Move(p)]_<<x2, x4>>
  <1>1. Course!Spinning!Init <=> Spinning!Init
    BY DEF Course!Spinning!Init, Spinning!Init, Course!Spinning!Player, Spinning!Player
  <1>2. [Spinning!Next]_Spinning!vars => [Course!Spinning!Next]_Course!Spinning!vars
    BY DEF Spinning!vars, Course!Spinning!vars, Spinning!Player, Course!Spinning!Player,
           Spinning!Other, Course!Spinning!Other, Spinning!Test, Course!Spinning!Test,
           Spinning!Spin, Course!Spinning!Spin, Spinning!Set, Course!Spinning!Set,
           Spinning!Routine, Course!Spinning!Routine, Spinning!Ended, Course!Spinning!Ended,
           Spinning!Next, Course!Spinning!Next
  <1>3. [\E p \in Course!Spinning!Turns!Player : Course!Spinning!Turns!Move(p)]_<<x2, x4>>
          => [\E p \in Spinning!Turns!Player : Spinning!Turns!Move(p)]_<<x2, x4>>
    BY DEF Spinning!Turns!Player, Course!Spinning!Turns!Player, Spinning!Turns!Move,
           Course!Spinning!Turns!Move, Spinning!Turns!Other, Course!Spinning!Turns!Other
  <1> QED BY <1>1, <1>2, <1>3

LEMMA TurningIsCourses ==
    /\ Course!Turning!Init <=> Turning!Init
    /\ [Turning!Next]_Turning!vars => [Course!Turning!Next]_Course!Turning!vars
    /\ Course!Turning!turn = Turning!turn
    /\ [\E p \in Course!Turning!Turns!Player : Course!Turning!Turns!Move(p)]_
            <<Course!Turning!turn, x3>>
         => [\E p \in Turning!Turns!Player : Turning!Turns!Move(p)]_<<Turning!turn, x3>>
  <1>1. Course!Turning!Init <=> Turning!Init
    BY DEF Course!Turning!Init, Turning!Init, Course!Turning!Player, Turning!Player
  <1>2. [Turning!Next]_Turning!vars => [Course!Turning!Next]_Course!Turning!vars
    BY DEF Turning!vars, Course!Turning!vars, Turning!Player, Course!Turning!Player,
           Turning!Other, Course!Turning!Other, Turning!Wait, Course!Turning!Wait,
           Turning!Post, Course!Turning!Post, Turning!Routine, Course!Turning!Routine,
           Turning!Ended, Course!Turning!Ended, Turning!Next, Course!Turning!Next
  <1>3. Course!Turning!turn = Turning!turn
    BY DEF Course!Turning!turn, Turning!turn, Course!Turning!Player, Turning!Player
  <1>4. Course!Turning!turn' = Turning!turn'
    BY DEF Course!Turning!turn, Turning!turn, Course!Turning!Player, Turning!Player
  <1>5. [\E p \in Course!Turning!Turns!Player : Course!Turning!Turns!Move(p)]_
            <<Course!Turning!turn, x3>>
          => [\E p \in Turning!Turns!Player : Turning!Turns!Move(p)]_<<Turning!turn, x3>>
    BY <1>3, <1>4
       DEF Turning!Turns!Player, Course!Turning!Turns!Player, Turning!Turns!Move,
           Course!Turning!Turns!Move, Turning!Turns!Other, Course!Turning!Turns!Other
  <1> QED BY <1>1, <1>2, <1>3, <1>5

LEMMA TurnStart == AllInit => TurnInv /\ InTurn!Init
  <1> SUFFICES ASSUME AllInit PROVE TurnInv /\ InTurn!Init
    OBVIOUS
  <1>1. CASE program = "ex06 pingpong"
    <2>1. Spinning!Init
      BY <1>1 DEF AllInit, OtherInit, Init
    <2>2. Course!SpinInv
      BY <2>1, ExercisesAssumption, SpinningIsCourses, Course!SpinStart
    <2> QED BY <1>1, <2>1, <2>2 DEF TurnInv, InTurn!Init, Spinning!Init, Spinning!Player, InTurn!Player
  <1>2. CASE program = "ex07 pingpong"
    <2>1. Turning!Init
      BY <1>2 DEF AllInit, OtherInit, Init
    <2>2. Course!TokenInv /\ Turning!turn = "ping"
      BY <2>1, ExercisesAssumption, TurningIsCourses, Course!TokenStart, Course!PingBegins
    <2> QED BY <1>2, <2>1, <2>2 DEF TurnInv, InTurn!Init, Turning!Init, Turning!Player, InTurn!Player
  <1>3. CASE program \notin {"ex06 pingpong", "ex07 pingpong"}
    BY <1>3 DEF TurnInv, InTurn!Init, InTurn!Player
  <1> QED BY <1>1, <1>2, <1>3

LEMMA TurnNext == TurnInv /\ [AllNext]_allVars => TurnInv' /\ TurnStep
  <1> SUFFICES ASSUME TurnInv, [AllNext]_allVars PROVE TurnInv' /\ TurnStep
    OBVIOUS
  <1>0. program' = program /\ (OtherStep \/ EditorStep \/ UNCHANGED cells)
    BY ProgramStays
  <1>1. CASE program = "ex06 pingpong"
    <2>1. [Spinning!Next]_Spinning!vars
      BY <1>0, <1>1 DEF OtherStep, EditorStep, cells, Spinning!vars
    <2>2. Course!SpinInv' /\ [\E p \in Spinning!Turns!Player : Spinning!Turns!Move(p)]_<<x2, x4>>
      <3>1. ITERATIONS \in Nat \ {0}
        BY ExercisesAssumption
      <3>2. Course!SpinInv
        BY <1>1 DEF TurnInv
      <3> QED BY <2>1, <3>1, <3>2, SpinningIsCourses, Course!SpinnersMove
    <2> QED BY <1>0, <1>1, <2>2
            DEF TurnInv, TurnStep, Spinning!Turns!Player, Spinning!Turns!Move, Spinning!Turns!Other,
                InTurn!Player, InTurn!Move, InTurn!Other
  <1>2. CASE program = "ex07 pingpong"
    <2>1. [Turning!Next]_Turning!vars
      BY <1>0, <1>2 DEF OtherStep, EditorStep, cells, Turning!vars
    <2>2. Course!TokenInv' /\ [\E p \in Turning!Turns!Player : Turning!Turns!Move(p)]_<<Turning!turn, x3>>
      <3>1. ITERATIONS \in Nat \ {0}
        BY ExercisesAssumption
      <3>2. Course!TokenInv
        BY <1>2 DEF TurnInv
      <3> QED BY <2>1, <3>1, <3>2, TurningIsCourses, Course!PostersMove
    <2> QED BY <1>0, <1>2, <2>2
            DEF TurnInv, TurnStep, Turning!Turns!Player, Turning!Turns!Move, Turning!Turns!Other,
                InTurn!Player, InTurn!Move, InTurn!Other
  <1>3. CASE program \notin {"ex06 pingpong", "ex07 pingpong"}
    BY <1>0, <1>3 DEF TurnInv, TurnStep
  <1> QED BY <1>1, <1>2, <1>3

(* The players of ex06 and ex07 move in turn, whatever the build makes of  *)
(* the loop that spins.                                                    *)
THEOREM PlayersAlternate == AllSpec => ImplementsAlternation
  <1>1. AllInit => TurnInv /\ InTurn!Init
    BY TurnStart
  <1>2. TurnInv /\ [AllNext]_allVars => TurnInv' /\ TurnStep
    BY TurnNext
  <1> QED BY <1>1, <1>2, PTL
          DEF AllSpec, ImplementsAlternation, InTurn!AlternationSpec, TurnStep

-----------------------------------------------------------------------------
(* The shell.                                                              *)
LEMMA StashIsCourses ==
    /\ Course!Stash!Init <=> Stash!Init
    /\ [Stash!Next]_Stash!vars => [Course!Stash!Next]_Course!Stash!vars
    /\ Course!Stash!OneReader <=> Stash!OneReader
  <1>1. Course!Stash!Init <=> Stash!Init
    BY DEF Stash!Init, Course!Stash!Init, Stash!Line, Course!Stash!Line, Stash!Root, Course!Stash!Root
  <1>2. [Stash!Next]_Stash!vars => [Course!Stash!Next]_Course!Stash!vars
    BY DEF Stash!Root, Course!Stash!Root, Stash!input, Course!Stash!input, Stash!vars,
           Course!Stash!vars, Stash!Line, Course!Stash!Line, Stash!Background,
           Course!Stash!Background, Stash!Init, Course!Stash!Init, Stash!Shells,
           Course!Stash!Shells, Stash!Children, Course!Stash!Children, Stash!Gone,
           Course!Stash!Gone, Stash!End, Course!Stash!End, Stash!Buffered,
           Course!Stash!Buffered, Stash!LineNo, Course!Stash!LineNo, Stash!Filled,
           Course!Stash!Filled, Stash!Taken, Course!Stash!Taken, Stash!Gets,
           Course!Stash!Gets, Stash!ReadsLine, Course!Stash!ReadsLine, Stash!StayInShell,
           Course!Stash!StayInShell, Stash!CrashInExit, Course!Stash!CrashInExit, Stash!Exit,
           Course!Stash!Exit, Stash!EndOfInput, Course!Stash!EndOfInput, Stash!OlderIsDone,
           Course!Stash!OlderIsDone, Stash!Polled, Course!Stash!Polled, Stash!Table,
           Course!Stash!Table, Stash!Awaits, Course!Stash!Awaits, Stash!Older,
           Course!Stash!Older, Stash!AfterLine, Course!Stash!AfterLine, Stash!RunCommand,
           Course!Stash!RunCommand, Stash!ForkFails, Course!Stash!ForkFails, Stash!Reap,
           Course!Stash!Reap, Stash!ProgramEnds, Course!Stash!ProgramEnds, Stash!Step,
           Course!Stash!Step, Stash!Ended, Course!Stash!Ended, Stash!Next, Course!Stash!Next
  <1>3. Stash!Cardinality({p \in Pid : x5[p] = "reading"})
          = Course!Stash!Cardinality({p \in Pid : x5[p] = "reading"})
    BY DEF Stash!Cardinality, Course!Stash!Cardinality
  <1>4. Course!Stash!OneReader <=> Stash!OneReader
    BY <1>3 DEF Stash!OneReader, Course!Stash!OneReader
  <1> QED BY <1>1, <1>2, <1>4

ShellKept == program = "stash" => Course!ShellInv

LEMMA ShellIsKept == AllSpec => []ShellKept
  <1>0. Course!ShellConstants
    BY ExercisesAssumption DEF Course!ShellConstants
  <1>1. AllInit => ShellKept
    BY <1>0, StashIsCourses, Course!ShellStart DEF AllInit, OtherInit, Init, ShellKept
  <1>2. ShellKept /\ [AllNext]_allVars => ShellKept'
    <2> SUFFICES ASSUME ShellKept, [AllNext]_allVars, program = "stash"
                 PROVE  Course!ShellInv'
      BY ProgramStays DEF ShellKept
    <2>1. OtherStep \/ EditorStep \/ UNCHANGED cells
      BY ProgramStays
    <2>2. [Stash!Next]_Stash!vars
      BY <2>1 DEF OtherStep, EditorStep, cells, Stash!vars, Stash!input
    <2> QED BY <1>0, <2>2, StashIsCourses, Course!ShellStays DEF ShellKept
  <1> QED BY <1>1, <1>2, PTL DEF AllSpec

(* stash.c: however many shells failed commands have left behind, one of   *)
(* them takes lines from the input, unless a failed command was in the     *)
(* background.                                                             *)
THEOREM OneShellReads == AllSpec => []OneReader
  <1>1. ShellKept => OneReader
    BY StashIsCourses, Course!TipsRead DEF ShellKept, OneReader
  <1> QED BY <1>1, ShellIsKept, PTL

-----------------------------------------------------------------------------
(* The message of the day.                                                 *)
LEMMA MessagesAreCourses ==
    /\ Course!Messages!Init <=> Messages!Init
    /\ [Messages!Next]_Messages!vars => [Course!Messages!Next]_Course!Messages!vars
    /\ Course!Messages!Request = Messages!Request
  <1>1. Course!Messages!Init <=> Messages!Init
    BY DEF Messages!Init, Course!Messages!Init, Messages!HISTORY_MAX, Course!Messages!HISTORY_MAX,
           Messages!Error, Course!Messages!Error
  <1>2. [Messages!Next]_Messages!vars => [Course!Messages!Next]_Course!Messages!vars
    BY DEF Messages!client, Course!Messages!client, Messages!vars, Course!Messages!vars,
           Messages!HISTORY_MAX, Course!Messages!HISTORY_MAX, Messages!Error,
           Course!Messages!Error, Messages!Request, Course!Messages!Request, Messages!Init,
           Course!Messages!Init, Messages!Reply, Course!Messages!Reply, Messages!Count,
           Course!Messages!Count, Messages!Get, Course!Messages!Get, Messages!Shift,
           Course!Messages!Shift, Messages!Add, Course!Messages!Add, Messages!Serve,
           Course!Messages!Serve, Messages!Calls, Course!Messages!Calls, Messages!Leaves,
           Course!Messages!Leaves, Messages!Start, Course!Messages!Start, Messages!Answered,
           Course!Messages!Answered, Messages!Added, Course!Messages!Added, Messages!GetNext,
           Course!Messages!GetNext, Messages!Counted, Course!Messages!Counted, Messages!Got,
           Course!Messages!Got, Messages!Timeout, Course!Messages!Timeout,
           Messages!ClientStep, Course!Messages!ClientStep, Messages!Ended,
           Course!Messages!Ended, Messages!Next, Course!Messages!Next
  <1>3. Course!Messages!Request = Messages!Request
    BY DEF Messages!HISTORY_MAX, Course!Messages!HISTORY_MAX,
           Messages!Request, Course!Messages!Request
  <1> QED BY <1>1, <1>2, <1>3

MotdKept == program = "motd" => Course!MotdInv

LEMMA MotdIsKept == AllSpec => []MotdKept
  <1>0. Course!MotdConstants
    BY ExercisesAssumption, MessagesAreCourses DEF Course!MotdConstants
  <1>1. AllInit => MotdKept
    BY <1>0, MessagesAreCourses, Course!MotdStart DEF AllInit, OtherInit, Init, MotdKept
  <1>2. MotdKept /\ [AllNext]_allVars => MotdKept'
    <2> SUFFICES ASSUME MotdKept, [AllNext]_allVars, program = "motd"
                 PROVE  Course!MotdInv'
      BY ProgramStays DEF MotdKept
    <2>1. OtherStep \/ EditorStep \/ UNCHANGED cells
      BY ProgramStays
    <2>2. [Messages!Next]_Messages!vars
      BY <2>1 DEF OtherStep, EditorStep, cells, Messages!vars, Messages!client
    <2> QED BY <1>0, <2>2, MessagesAreCourses, Course!MotdStays DEF MotdKept
  <1> QED BY <1>1, <1>2, PTL DEF AllSpec

(* motd_client.c: a listing that is taken call by call shows no gap and no *)
(* error, and all that it has counted, whatever calls and answers are      *)
(* lost, doubled or late and whoever adds messages meanwhile.              *)
THEOREM ListingsHaveNoGaps == AllSpec => []ListingHasNoGaps
  <1>1. MotdKept => ListingHasNoGaps
    BY DEF MotdKept, ListingHasNoGaps, Messages!ListingHasNoGaps, Course!MotdInv,
           Course!ClientOK, Course!NoGaps, Messages!Error
  <1> QED BY <1>1, MotdIsKept, PTL

-----------------------------------------------------------------------------
(* The triangle counters.                                                  *)
LEMMA PipeIsCourses ==
    /\ Course!Pipe!Init <=> Pipe!Init
    /\ [Pipe!Next]_Pipe!vars => [Course!Pipe!Next]_Course!Pipe!vars
  <1>1. Course!Pipe!Init <=> Pipe!Init
    BY DEF Pipe!InitList, Course!Pipe!InitList, Pipe!Worker, Course!Pipe!Worker,
           Pipe!Init, Course!Pipe!Init
  <1>2. [Pipe!Next]_Pipe!vars => [Course!Pipe!Next]_Course!Pipe!vars
    BY DEF Pipe!InitList, Course!Pipe!InitList, Pipe!vCount, Course!Pipe!vCount,
           Pipe!Full, Course!Pipe!Full, Pipe!ReadValue, Course!Pipe!ReadValue,
           Pipe!CheckTriangle, Course!Pipe!CheckTriangle, Pipe!At, Course!Pipe!At,
           Pipe!parent, Course!Pipe!parent, Pipe!vars, Course!Pipe!vars, Pipe!Worker,
           Course!Pipe!Worker, Pipe!Init, Course!Pipe!Init, Pipe!ReadList,
           Course!Pipe!ReadList, Pipe!Fork, Course!Pipe!Fork, Pipe!First,
           Course!Pipe!First, Pipe!Found, Course!Pipe!Found, Pipe!FindTriangles,
           Course!Pipe!FindTriangles, Pipe!LastHeard, Course!Pipe!LastHeard,
           Pipe!NextHeard, Course!Pipe!NextHeard, Pipe!AddCount, Course!Pipe!AddCount,
           Pipe!Reap, Course!Pipe!Reap, Pipe!Ended, Course!Pipe!Ended, Pipe!Main,
           Course!Pipe!Main, Pipe!Next, Course!Pipe!Next, Pipe!Cardinality,
           Course!Pipe!Cardinality
  <1> QED BY <1>1, <1>2

LEMMA ThreadsAreCourses ==
    /\ Course!Slots!Init <=> Threads!Init
    /\ [Threads!Next]_Threads!vars => [Course!Slots!Next]_Course!Slots!vars
  <1>1. Course!Slots!Init <=> Threads!Init
    BY DEF Threads!InitList, Course!Slots!InitList, Threads!Worker,
           Course!Slots!Worker, Threads!Init, Course!Slots!Init, Threads!Place,
           Course!Slots!Place
  <1>2. [Threads!Next]_Threads!vars => [Course!Slots!Next]_Course!Slots!vars
    BY DEF Threads!InitList, Course!Slots!InitList, Threads!vCount,
           Course!Slots!vCount, Threads!Full, Course!Slots!Full, Threads!ReadValue,
           Course!Slots!ReadValue, Threads!CheckTriangle, Course!Slots!CheckTriangle,
           Threads!At, Course!Slots!At, Threads!vars, Course!Slots!vars,
           Threads!Worker, Course!Slots!Worker, Threads!Init, Course!Slots!Init,
           Threads!ReadList, Course!Slots!ReadList, Threads!Create,
           Course!Slots!Create, Threads!Launch, Course!Slots!Launch, Threads!Place,
           Course!Slots!Place, Threads!Share, Course!Slots!Share, Threads!Found,
           Course!Slots!Found, Threads!FindTriangles, Course!Slots!FindTriangles,
           Threads!Slots, Course!Slots!Slots, Threads!Joinable, Course!Slots!Joinable,
           Threads!AddSlot, Course!Slots!AddSlot, Threads!AllAdded,
           Course!Slots!AllAdded, Threads!Report, Course!Slots!Report, Threads!Ended,
           Course!Slots!Ended, Threads!Main, Course!Slots!Main, Threads!Next,
           Course!Slots!Next, Threads!Cardinality, Course!Slots!Cardinality
  <1> QED BY <1>1, <1>2

LEMMA DeviceIsCourses ==
    /\ CourseOnDevice!Slots!Init <=> Device!Init
    /\ [Device!Next]_Device!vars => [CourseOnDevice!Slots!Next]_CourseOnDevice!Slots!vars
  <1>1. CourseOnDevice!Slots!Init <=> Device!Init
    BY DEF Device!InitList, CourseOnDevice!Slots!InitList, Device!Worker,
           CourseOnDevice!Slots!Worker, Device!Init, CourseOnDevice!Slots!Init,
           Device!Place, CourseOnDevice!Slots!Place
  <1>2. [Device!Next]_Device!vars => [CourseOnDevice!Slots!Next]_CourseOnDevice!Slots!vars
    BY DEF Device!InitList, CourseOnDevice!Slots!InitList, Device!vCount,
           CourseOnDevice!Slots!vCount, Device!Full, CourseOnDevice!Slots!Full,
           Device!ReadValue, CourseOnDevice!Slots!ReadValue, Device!CheckTriangle,
           CourseOnDevice!Slots!CheckTriangle, Device!At, CourseOnDevice!Slots!At,
           Device!vars, CourseOnDevice!Slots!vars, Device!Worker,
           CourseOnDevice!Slots!Worker, Device!Init, CourseOnDevice!Slots!Init,
           Device!ReadList, CourseOnDevice!Slots!ReadList, Device!Create,
           CourseOnDevice!Slots!Create, Device!Launch, CourseOnDevice!Slots!Launch,
           Device!Place, CourseOnDevice!Slots!Place, Device!Share,
           CourseOnDevice!Slots!Share, Device!Found, CourseOnDevice!Slots!Found,
           Device!FindTriangles, CourseOnDevice!Slots!FindTriangles, Device!Slots,
           CourseOnDevice!Slots!Slots, Device!Joinable, CourseOnDevice!Slots!Joinable,
           Device!AddSlot, CourseOnDevice!Slots!AddSlot, Device!AllAdded,
           CourseOnDevice!Slots!AllAdded, Device!Report, CourseOnDevice!Slots!Report,
           Device!Ended, CourseOnDevice!Slots!Ended, Device!Main,
           CourseOnDevice!Slots!Main, Device!Next, CourseOnDevice!Slots!Next,
           Device!Cardinality, CourseOnDevice!Slots!Cardinality
  <1> QED BY <1>1, <1>2

LEMMA SemaphoresAreCourses ==
    /\ Course!Indices!Init <=> Semaphores!Init
    /\ [Semaphores!Next]_Semaphores!vars => [Course!Indices!Next]_Course!Indices!vars
  <1>1. Course!Indices!Init <=> Semaphores!Init
    BY DEF Semaphores!Place, Course!Indices!Place, Semaphores!NoIndex,
           Course!Indices!NoIndex, Semaphores!Init, Course!Indices!Init
  <1>2. [Semaphores!Next]_Semaphores!vars => [Course!Indices!Next]_Course!Indices!vars
    BY DEF Semaphores!vars, Course!Indices!vars, Semaphores!vCount,
           Course!Indices!vCount, Semaphores!Place, Course!Indices!Place,
           Semaphores!NoIndex, Course!Indices!NoIndex, Semaphores!Init,
           Course!Indices!Init, Semaphores!CheckTriangle, Course!Indices!CheckTriangle,
           Semaphores!At, Course!Indices!At, Semaphores!EndingAt,
           Course!Indices!EndingAt, Semaphores!TooMany, Course!Indices!TooMany,
           Semaphores!ReadList, Course!Indices!ReadList, Semaphores!LastPost,
           Course!Indices!LastPost, Semaphores!PostWork, Course!Indices!PostWork,
           Semaphores!JoinAll, Course!Indices!JoinAll, Semaphores!WaitForWork,
           Course!Indices!WaitForWork, Semaphores!NoWork, Course!Indices!NoWork,
           Semaphores!Look, Course!Indices!Look, Semaphores!MutexFree,
           Course!Indices!MutexFree, Semaphores!LockIndex, Course!Indices!LockIndex,
           Semaphores!TakeIndex, Course!Indices!TakeIndex, Semaphores!CountOne,
           Course!Indices!CountOne, Semaphores!PutBack, Course!Indices!PutBack,
           Semaphores!FinishIndex, Course!Indices!FinishIndex, Semaphores!Ended,
           Course!Indices!Ended, Semaphores!WorkerStep, Course!Indices!WorkerStep,
           Semaphores!Main, Course!Indices!Main, Semaphores!Next, Course!Indices!Next,
           Semaphores!Cardinality, Course!Indices!Cardinality
  <1> QED BY <1>1, <1>2

TriangleInv ==
    /\ program = "pipe" => Course!PipeInv
    /\ program = "threads" => Course!SlotsInv
    /\ program = "device" => CourseOnDevice!SlotsInv
    /\ program = "semaphores" => Course!IndicesInv

LEMMA TriangleConstantsHold == Course!TriangleConstants /\ CourseOnDevice!TriangleConstants
  <1>1. Course!IsFiniteSet(Thread) /\ CourseOnDevice!IsFiniteSet(Thread)
    BY ExercisesAssumption
       DEF IsFiniteSet, Course!IsFiniteSet, CourseOnDevice!IsFiniteSet
  <1>2. MaxLength + 1 \in Nat \ {0} /\ MaxLength < MaxLength + 1
    BY ExercisesAssumption
  <1> QED
    BY <1>1, <1>2, ExercisesAssumption
       DEF Course!TriangleConstants, CourseOnDevice!TriangleConstants

LEMMA TrianglesBegin == AllInit => TriangleInv
  <1> SUFFICES ASSUME AllInit PROVE TriangleInv
    OBVIOUS
  <1>1. CASE program = "pipe"
    BY <1>1, TriangleConstantsHold, PipeIsCourses, Course!PipeStart
       DEF AllInit, OtherInit, Init, TriangleInv
  <1>2. CASE program = "threads"
    BY <1>2, TriangleConstantsHold, ThreadsAreCourses, Course!SlotsStart
       DEF AllInit, OtherInit, Init, TriangleInv
  <1>3. CASE program = "device"
    BY <1>3, TriangleConstantsHold, DeviceIsCourses, CourseOnDevice!SlotsStart
       DEF AllInit, OtherInit, Init, TriangleInv
  <1>4. CASE program = "semaphores"
    BY <1>4, TriangleConstantsHold, SemaphoresAreCourses, Course!IndicesStart
       DEF AllInit, OtherInit, Init, TriangleInv
  <1> QED BY <1>1, <1>2, <1>3, <1>4 DEF TriangleInv

(* The goal of the four, as MCExercises names it.                          *)
LEMMA GoalIsAbstract ==
    /\ [Course!Goal!CountNext]_<<vList, reported>> => [Abstract!CountNext]_<<vList, reported>>
    /\ [CourseOnDevice!Goal!CountNext]_<<vList, reported>>
         => [Abstract!CountNext]_<<vList, reported>>
  BY DEF Abstract!CountNext, Course!Goal!CountNext, CourseOnDevice!Goal!CountNext,
         Abstract!Report, Course!Goal!Report, CourseOnDevice!Goal!Report,
         Abstract!TakeValue, Course!Goal!TakeValue, CourseOnDevice!Goal!TakeValue,
         Abstract!Triangles, Course!Goal!Triangles, CourseOnDevice!Goal!Triangles,
         Abstract!CheckTriangle, Course!Goal!CheckTriangle, CourseOnDevice!Goal!CheckTriangle,
         Abstract!Cardinality, Course!Goal!Cardinality, CourseOnDevice!Goal!Cardinality

LEMMA TrianglesStay ==
    ASSUME TriangleInv, [AllNext]_allVars
    PROVE  TriangleInv' /\ [Abstract!CountNext]_<<vList, reported>>
  <1>0. program' = program /\ (OtherStep \/ EditorStep \/ UNCHANGED cells)
    BY ProgramStays
  <1>1. CASE program = "pipe"
    <2>1. [Pipe!Next]_Pipe!vars
      <3>1. DOMAIN at = Pipe!Worker
        BY <1>1 DEF TriangleInv, Course!PipeInv, Course!PipeTyped, Course!Pipe!Worker, Pipe!Worker
      <3> QED BY <1>1, <3>1
              DEF AllNext, Next, Ended, MainStep, WorkerStep, OtherStep, EditorStep, allVars, vars,
                  Pipe!Next, Pipe!vars
    <2>2. Course!PipeInv' /\ [Course!Goal!CountNext]_<<vList, reported>>
      BY <1>1, <2>1, TriangleConstantsHold, PipeIsCourses, Course!PipeStays DEF TriangleInv
    <2> QED BY <1>0, <1>1, <2>2, GoalIsAbstract DEF TriangleInv
  <1>2. CASE program = "threads"
    <2>1. [Threads!Next]_Threads!vars
      <3>1. DOMAIN at = Threads!Worker
        BY <1>2 DEF TriangleInv, Course!SlotsInv, Course!SlotsTyped, Course!Slots!Worker,
                    Threads!Worker
      <3> QED BY <1>2, <3>1
              DEF AllNext, Next, Ended, MainStep, WorkerStep, OtherStep, EditorStep, allVars, vars,
                  Threads!Next, Threads!vars
    <2>2. Course!SlotsInv' /\ [Course!Goal!CountNext]_<<vList, reported>>
      BY <1>2, <2>1, TriangleConstantsHold, ThreadsAreCourses, Course!SlotsStay DEF TriangleInv
    <2> QED BY <1>0, <1>2, <2>2, GoalIsAbstract DEF TriangleInv
  <1>3. CASE program = "device"
    <2>1. [Device!Next]_Device!vars
      <3>1. DOMAIN at = Device!Worker
        BY <1>3 DEF TriangleInv, CourseOnDevice!SlotsInv, CourseOnDevice!SlotsTyped,
                    CourseOnDevice!Slots!Worker, Device!Worker
      <3> QED BY <1>3, <3>1
              DEF AllNext, Next, Ended, MainStep, WorkerStep, OtherStep, EditorStep, allVars, vars,
                  Device!Next, Device!vars
    <2>2. CourseOnDevice!SlotsInv' /\ [CourseOnDevice!Goal!CountNext]_<<vList, reported>>
      BY <1>3, <2>1, TriangleConstantsHold, DeviceIsCourses, CourseOnDevice!SlotsStay
         DEF TriangleInv
    <2> QED BY <1>0, <1>3, <2>2, GoalIsAbstract DEF TriangleInv
  <1>4. CASE program = "semaphores"
    <2>1. [Semaphores!Next]_Semaphores!vars
      <3>1. DOMAIN at = Thread
        BY <1>4 DEF TriangleInv, Course!IndicesInv, Course!IndicesTyped
      <3> QED BY <1>4, <3>1
              DEF AllNext, Next, Ended, MainStep, WorkerStep, OtherStep, EditorStep, allVars, vars,
                  ofSem, Semaphores!Next, Semaphores!vars
    <2>2. Course!IndicesInv' /\ [Course!Goal!CountNext]_<<vList, reported>>
      BY <1>4, <2>1, TriangleConstantsHold, SemaphoresAreCourses, Course!IndicesStay
         DEF TriangleInv
    <2> QED BY <1>0, <1>4, <2>2, GoalIsAbstract DEF TriangleInv
  <1>5. CASE program \notin {"pipe", "threads", "device", "semaphores"}
    <2>1. UNCHANGED <<vList, reported>>
      BY <1>5 DEF AllNext, Next, Ended, MainStep, WorkerStep, OtherStep, EditorStep, allVars, vars,
                  From4, From5, From6, From7, From9, From10, ofTriangles
    <2> QED BY <1>0, <1>5, <2>1 DEF TriangleInv
  <1> QED BY <1>1, <1>2, <1>3, <1>4, <1>5

(* The four triangle counters print the number of triangles in the whole   *)
(* input, once, for every input, number of workers and order of their      *)
(* steps.                                                                  *)
THEOREM TrianglesAreCounted == AllSpec => ImplementsTriangleCount
  <1>1. AllInit => TriangleInv
    BY TrianglesBegin
  <1>2. AllInit => Abstract!CountInit
    BY DEF AllInit, OtherInit, TrianglesIdle, Init, Abstract!CountInit, Pipe!Init, Pipe!InitList,
           Threads!Init, Threads!InitList, Device!Init, Device!InitList, Semaphores!Init
  <1>3. TriangleInv /\ [AllNext]_allVars
          => TriangleInv' /\ [Abstract!CountNext]_<<vList, reported>>
    BY TrianglesStay
  <1> QED BY <1>1, <1>2, <1>3, PTL DEF AllSpec, ImplementsTriangleCount, Abstract!CountSpec

(* On the way no count is lost or added twice, no token of the semaphore   *)
(* is lost, and no index is given to two workers.                          *)
THEOREM CountsAlwaysAddUp == AllSpec => []CountsAddUp
  <1>1. AllInit => TriangleInv
    BY TrianglesBegin
  <1>2. TriangleInv /\ [AllNext]_allVars => TriangleInv'
    BY TrianglesStay
  <1>3. TriangleInv => CountsAddUp
    <2>1. ASSUME TriangleInv, program = "pipe" PROVE Pipe!CountsAddUp
      <3>1. Course!Pipe!CountsAddUp
        BY <2>1, TriangleConstantsHold, Course!PipeAddsUp DEF TriangleInv
      <3> QED BY <3>1
              DEF Pipe!CountsAddUp, Course!Pipe!CountsAddUp, Pipe!InPipe, Course!Pipe!InPipe,
                  Pipe!TC!Triangles, Course!Pipe!TC!Triangles, Pipe!TC!CheckTriangle,
                  Course!Pipe!TC!CheckTriangle, Pipe!Cardinality, Course!Pipe!Cardinality
    <2>2. ASSUME TriangleInv, program = "threads" PROVE Threads!AddedIsFound
      <3>1. Course!Slots!AddedIsFound
        BY <2>2, TriangleConstantsHold, Course!SlotsAddUp DEF TriangleInv
      <3> QED BY <3>1
              DEF Threads!AddedIsFound, Course!Slots!AddedIsFound,
                  Threads!TC!Triangles, Course!Slots!TC!Triangles, Threads!TC!CheckTriangle,
                  Course!Slots!TC!CheckTriangle, Threads!Cardinality, Course!Slots!Cardinality
    <2>3. ASSUME TriangleInv, program = "device" PROVE Device!AddedIsFound
      <3>1. CourseOnDevice!Slots!AddedIsFound
        BY <2>3, TriangleConstantsHold, CourseOnDevice!SlotsAddUp DEF TriangleInv
      <3> QED BY <3>1
              DEF Device!AddedIsFound, CourseOnDevice!Slots!AddedIsFound,
                  Device!TC!Triangles, CourseOnDevice!Slots!TC!Triangles,
                  Device!TC!CheckTriangle, CourseOnDevice!Slots!TC!CheckTriangle,
                  Device!Cardinality, CourseOnDevice!Slots!Cardinality
    <2>4. ASSUME TriangleInv, program = "semaphores"
          PROVE  Semaphores!CountIsExact /\ Semaphores!TokensConserved /\ Semaphores!IndicesDistinct
      <3>1. /\ Course!Indices!CountIsExact /\ Course!Indices!TokensConserved
            /\ Course!Indices!IndicesDistinct
        BY <2>4, TriangleConstantsHold, Course!IndicesAddUp DEF TriangleInv
      <3>2. Semaphores!CountIsExact
        BY <3>1
           DEF Semaphores!CountIsExact, Course!Indices!CountIsExact, Semaphores!Uncounted,
               Course!Indices!Uncounted, Semaphores!Abstract!Triangles,
               Course!Indices!Abstract!Triangles, Semaphores!Abstract!CheckTriangle,
               Course!Indices!Abstract!CheckTriangle, Semaphores!Cardinality,
               Course!Indices!Cardinality
      <3>3. Semaphores!TokensConserved
        BY <3>1
           DEF Semaphores!TokensConserved, Course!Indices!TokensConserved, Semaphores!Holding,
               Course!Indices!Holding, Semaphores!Exited, Course!Indices!Exited,
               Semaphores!Cardinality, Course!Indices!Cardinality
      <3>4. Semaphores!IndicesDistinct
        BY <3>1 DEF Semaphores!IndicesDistinct, Course!Indices!IndicesDistinct,
                    Semaphores!Busy, Course!Indices!Busy
      <3> QED BY <3>2, <3>3, <3>4
    <2> QED BY <2>1, <2>2, <2>3, <2>4 DEF CountsAddUp
  <1> QED BY <1>1, <1>2, <1>3, PTL DEF AllSpec

(* And the variables of the one that runs keep their types.               *)
Counters == {"pipe", "threads", "device", "semaphores"}

(* What the invariants of the triangle counters leave out of their types.  *)
CounterTypes ==
    /\ program \in Counters => reported \in Nat \cup {None}
    /\ program \in {"pipe", "threads", "device"} => vCap \in Nat
    /\ program = "pipe" => tally \in 0 .. workers /\ (phase = "reaping" => tally < workers)
    /\ program = "semaphores"
         => /\ tally \in 0 .. Cardinality(Thread)
            /\ phase = "posting" => tally < Cardinality(Thread)

LEMMA CounterTypesBegin == AllInit => CounterTypes
  <1>1. Cardinality(Thread) \in Nat \ {0}
    BY ExercisesAssumption, FS_CardinalityType, FS_EmptySet
  <1> SUFFICES ASSUME AllInit, program \in Counters PROVE CounterTypes
    BY DEF CounterTypes, Counters
  <1>2. Init
    BY DEF AllInit, OtherInit, Counters
  <1> QED BY <1>1, <1>2, ExercisesAssumption
          DEF Init, CounterTypes, Counters, Pipe!Init, Pipe!InitList, Threads!Init,
              Threads!InitList, Device!Init, Device!InitList, Semaphores!Init

LEMMA CounterTypesStay ==
    ASSUME TriangleInv, CounterTypes, [AllNext]_allVars
    PROVE  CounterTypes'
  <1>0. program' = program
    BY ProgramStays
  <1>1. CASE program = "pipe"
    <2>0. /\ DOMAIN at = Pipe!Worker /\ total \in Nat /\ workers \in Nat \ {0}
          /\ vCap \in Nat /\ reported \in Nat \cup {None} /\ tally \in 0 .. workers
          /\ phase = "adding" => tally < workers
          /\ phase = "reaping" => tally < workers
      BY <1>1, ExercisesAssumption
         DEF TriangleInv, CounterTypes, Counters, Course!PipeInv, Course!PipeTyped,
             Course!Pipe!Worker, Pipe!Worker
    <2>1. [Pipe!Next]_Pipe!vars
      BY <1>1, <2>0
         DEF AllNext, Next, Ended, MainStep, WorkerStep, OtherStep, EditorStep, allVars, vars,
             Pipe!Next, Pipe!vars
    <2>2. /\ vCap' \in Nat /\ reported' \in Nat \cup {None} /\ tally' \in 0 .. workers
          /\ phase' = "reaping" => tally' < workers
      <3>1. CASE Pipe!ReadList
        BY <2>0, <3>1 DEF Pipe!ReadList, Pipe!ReadValue
      <3>2. CASE Pipe!Fork
        BY <2>0, <3>2 DEF Pipe!Fork
      <3>3. CASE Pipe!AddCount
        BY <2>0, <3>3 DEF Pipe!AddCount, Pipe!NextHeard, Pipe!LastHeard
      <3>4. CASE \E w \in Pipe!Worker : Pipe!Reap(w)
        BY <2>0, <3>4 DEF Pipe!Reap, Pipe!LastHeard
      <3>5. CASE \E w \in Pipe!Worker : Pipe!FindTriangles(w)
        BY <2>0, <3>5 DEF Pipe!FindTriangles, Pipe!parent
      <3>6. CASE UNCHANGED Pipe!vars
        BY <2>0, <3>6 DEF Pipe!vars
      <3> QED BY <2>1, <3>1, <3>2, <3>3, <3>4, <3>5, <3>6
              DEF Pipe!Next, Pipe!Main, Pipe!Ended
    <2> QED BY <1>0, <1>1, <2>2 DEF CounterTypes
  <1>2. CASE program = "threads"
    <2>0. /\ DOMAIN at = Threads!Worker /\ total \in Nat
          /\ vCap \in Nat /\ reported \in Nat \cup {None}
      BY <1>2
         DEF TriangleInv, CounterTypes, Counters, Course!SlotsInv, Course!SlotsTyped,
             Course!Slots!Worker, Threads!Worker
    <2>1. [Threads!Next]_Threads!vars
      BY <1>2, <2>0
         DEF AllNext, Next, Ended, MainStep, WorkerStep, OtherStep, EditorStep, allVars, vars,
             Threads!Next, Threads!vars
    <2>2. vCap' \in Nat /\ reported' \in Nat \cup {None}
      BY <2>0, <2>1
         DEF Threads!Next, Threads!Main, Threads!Ended, Threads!vars, Threads!ReadList,
             Threads!ReadValue, Threads!Create, Threads!Launch, Threads!AddSlot,
             Threads!Report, Threads!FindTriangles
    <2> QED BY <1>0, <1>2, <2>2 DEF CounterTypes
  <1>3. CASE program = "device"
    <2>0. /\ DOMAIN at = Device!Worker /\ total \in Nat
          /\ vCap \in Nat /\ reported \in Nat \cup {None}
      BY <1>3
         DEF TriangleInv, CounterTypes, Counters, CourseOnDevice!SlotsInv,
             CourseOnDevice!SlotsTyped, CourseOnDevice!Slots!Worker, Device!Worker
    <2>1. [Device!Next]_Device!vars
      BY <1>3, <2>0
         DEF AllNext, Next, Ended, MainStep, WorkerStep, OtherStep, EditorStep, allVars, vars,
             Device!Next, Device!vars
    <2>2. vCap' \in Nat /\ reported' \in Nat \cup {None}
      BY <2>0, <2>1
         DEF Device!Next, Device!Main, Device!Ended, Device!vars, Device!ReadList,
             Device!ReadValue, Device!Create, Device!Launch, Device!AddSlot,
             Device!Report, Device!FindTriangles
    <2> QED BY <1>0, <1>3, <2>2 DEF CounterTypes
  <1>4. CASE program = "semaphores"
    <2>1. Cardinality(Thread) \in Nat \ {0}
      BY ExercisesAssumption, FS_CardinalityType, FS_EmptySet
    <2> DEFINE n == Cardinality(Thread)
    <2>2. Semaphores!Cardinality(Thread) = n
      BY DEF Semaphores!Cardinality, Cardinality
    <2>3. /\ DOMAIN at = Thread /\ total \in Nat /\ reported \in Nat \cup {None}
          /\ tally \in 0 .. n /\ (phase = "posting" => tally < n)
          /\ phase = "reading" => tally = 0
      BY <1>4
         DEF TriangleInv, CounterTypes, Counters, Course!IndicesInv, Course!IndicesTyped
    <2>4. [Semaphores!Next]_Semaphores!vars
      BY <1>4, <2>3
         DEF AllNext, Next, Ended, MainStep, WorkerStep, OtherStep, EditorStep, allVars, vars,
             ofSem, Semaphores!Next, Semaphores!vars
    <2> HIDE DEF n
    <2>5. /\ reported' \in Nat \cup {None}
          /\ tally' \in 0 .. n /\ (phase' = "posting" => tally' < n)
      <3>1. CASE Semaphores!ReadList
        BY <2>1, <2>3, <3>1 DEF Semaphores!ReadList, n
      <3>2. CASE Semaphores!PostWork
        BY <2>1, <2>2, <2>3, <3>2 DEF Semaphores!PostWork, Semaphores!LastPost, n
      <3>3. CASE Semaphores!JoinAll
        BY <2>3, <3>3 DEF Semaphores!JoinAll
      <3>4. ASSUME NEW w \in Thread, Semaphores!WorkerStep(w)
            PROVE  UNCHANGED <<reported, tally, phase>>
        BY <3>4 DEF Semaphores!WorkerStep, Semaphores!WaitForWork, Semaphores!Look,
                    Semaphores!LockIndex, Semaphores!TakeIndex, Semaphores!CountOne,
                    Semaphores!FinishIndex
      <3>5. CASE UNCHANGED Semaphores!vars
        BY <2>3, <3>5 DEF Semaphores!vars
      <3> QED BY <2>3, <2>4, <3>1, <3>2, <3>3, <3>4, <3>5
              DEF Semaphores!Next, Semaphores!Main, Semaphores!Ended
    <2> QED BY <1>0, <1>4, <2>5 DEF CounterTypes, Counters, n
  <1> QED BY <1>0, <1>1, <1>2, <1>3, <1>4 DEF CounterTypes, Counters

LEMMA CountersTyped == TriangleInv /\ CounterTypes /\ program \in Counters => TypeOK
  <1>1. ASSUME TriangleInv, CounterTypes, program = "pipe" PROVE Pipe!TypeOK
    BY <1>1 DEF TriangleInv, CounterTypes, Counters, Course!PipeInv, Course!PipeTyped,
                Course!Pipe!Worker, Pipe!Worker, Pipe!TypeOK
  <1>2. ASSUME TriangleInv, CounterTypes, program = "threads" PROVE Threads!TypeOK
    <2>1. tally \in 0 .. workers
      BY <1>2, ExercisesAssumption
         DEF TriangleInv, Course!SlotsInv, Course!SlotsTyped, Course!Slots!Slots
    <2> QED BY <1>2, <2>1
            DEF TriangleInv, CounterTypes, Counters, Course!SlotsInv, Course!SlotsTyped,
                Course!Slots!Worker, Threads!Worker, Threads!TypeOK
  <1>3. ASSUME TriangleInv, CounterTypes, program = "device" PROVE Device!TypeOK
    <2>1. tally \in 0 .. MaxLength + 1
      BY <1>3, ExercisesAssumption
         DEF TriangleInv, CourseOnDevice!SlotsInv, CourseOnDevice!SlotsTyped,
             CourseOnDevice!Slots!Slots, CourseOnDevice!Slots!vCount
    <2> QED BY <1>3, <2>1
            DEF TriangleInv, CounterTypes, Counters, CourseOnDevice!SlotsInv,
                CourseOnDevice!SlotsTyped, CourseOnDevice!Slots!Worker, Device!Worker,
                Device!TypeOK
  <1>4. ASSUME TriangleInv, CounterTypes, program = "semaphores" PROVE Semaphores!TypeOK
    <2>1. Semaphores!Cardinality(Thread) = Cardinality(Thread)
      BY DEF Semaphores!Cardinality, Cardinality
    <2> QED BY <1>4, <2>1
            DEF TriangleInv, CounterTypes, Counters, Course!IndicesInv, Course!IndicesTyped,
                Course!Indices!Place, Semaphores!Place, Course!Indices!NoIndex,
                Semaphores!NoIndex, Semaphores!TypeOK
  <1> QED BY <1>1, <1>2, <1>3, <1>4 DEF Counters, TypeOK

-----------------------------------------------------------------------------
(* The editors of hw3 and hw4.                                             *)
Desk == INSTANCE ToolProofs WITH
    string <- x1, prev <- x2, len <- x3, num_undos <- x4, semaphore <- x5, pc <- x6,
    command <- x7, killed <- x8, Process <- Editor,
    history <- x2, undo_count <- x3, defined <- x4, before <- x5, wrapped <- x6,
    MaxLines <- 3, Capacity <- 2, at <- x1, fds <- x2, pipe <- x3, toPrint <- x4, got <- x5,
    parent <- x1, calls <- x2, child <- x3, output <- x4,
    Rounds <- 1, round <- x1, main <- x2, written <- x3, row <- x4, rows <- x5,
    MAX_PROC_NUM <- 2, ScreenRows <- 1,
    memsize <- x1, alive <- x2, stayed <- x3, cursor <- x4, names <- x5, procs <- x6,
    shown <- x7, phase <- x8,
    Byte <- {"\r", "\n", "x"}, MaxResponse <- 6, BufferSize <- 3,
    response <- x1, taken <- x2, done <- x3, last4 <- x4, inHeader <- x5, stderr <- x6,
    stdout <- x7

LEMMA PlainIsDesks ==
    /\ Desk!Plain!Init <=> Plain!Init
    /\ [Plain!Next]_Plain!vars => [Desk!Plain!Next]_Desk!Plain!vars
    /\ Desk!Plain!History = Plain!History
    /\ \A s : Desk!Plain!Visible(s) = Plain!Visible(s)
  <1>1. Plain!Cell = Desk!Plain!Cell /\ Plain!Buffer = Desk!Plain!Buffer
    BY DEF Plain!Cell, Desk!Plain!Cell, Plain!Buffer, Desk!Plain!Buffer
  <1>2. \A s : Plain!Terminated(s) <=> Desk!Plain!Terminated(s)
    BY <1>1 DEF Plain!Terminated, Desk!Plain!Terminated
  <1>3. \A s : Plain!Strlen(s) = Desk!Plain!Strlen(s)
    BY <1>1, <1>2 DEF Plain!Strlen, Desk!Plain!Strlen, Plain!Min, Desk!Plain!Min
  <1>4. \A s : /\ Plain!Visible(s) = Desk!Plain!Visible(s)
               /\ Plain!Strncpy(s) = Desk!Plain!Strncpy(s)
               /\ Plain!Filled(s) = Desk!Plain!Filled(s)
               /\ Plain!Holds(s) <=> Desk!Plain!Holds(s)
    BY <1>1, <1>2, <1>3
       DEF Plain!Visible, Desk!Plain!Visible, Plain!Strncpy, Desk!Plain!Strncpy,
           Plain!Filled, Desk!Plain!Filled, Plain!Holds, Desk!Plain!Holds
  <1>5. Desk!Plain!Init <=> Plain!Init
    BY <1>1, <1>3, <1>4
       DEF Plain!Init, Desk!Plain!Init, Plain!Empty, Desk!Plain!Empty
  <1>6. /\ Plain!Remember <=> Desk!Plain!Remember
        /\ Plain!Undo <=> Desk!Plain!Undo
        /\ Plain!Reset <=> Desk!Plain!Reset
    BY <1>1, <1>3, <1>4
       DEF Plain!Remember, Desk!Plain!Remember, Plain!Undo, Desk!Plain!Undo,
           Plain!Shifted, Desk!Plain!Shifted, Plain!Reset, Desk!Plain!Reset,
           Plain!Empty, Desk!Plain!Empty, Plain!UNDO_LIMIT, Desk!Plain!UNDO_LIMIT
  <1>7. \A i : (Plain!Delete(i) <=> Desk!Plain!Delete(i))
               /\ \A c : Plain!Insert(i, c) <=> Desk!Plain!Insert(i, c)
    BY <1>1, <1>6
       DEF Plain!Delete, Desk!Plain!Delete, Plain!Insert, Desk!Plain!Insert
  <1>8. [Plain!Next]_Plain!vars => [Desk!Plain!Next]_Desk!Plain!vars
    BY <1>1, <1>6, <1>7 DEF Plain!Next, Desk!Plain!Next, Plain!vars, Desk!Plain!vars
  <1>9. Desk!Plain!History = Plain!History
    BY <1>4 DEF Plain!History, Desk!Plain!History
  <1> QED BY <1>4, <1>5, <1>8, <1>9

LEMMA PlainIsDesksNext ==
    (/\ Desk!Plain!History = Plain!History
     /\ Desk!Plain!Visible(x1) = Plain!Visible(x1))'
  <1>1. Desk!Plain!History = Plain!History /\ Desk!Plain!Visible(x1) = Plain!Visible(x1)
    BY PlainIsDesks
  <1> QED BY <1>1, PTL

LEMMA SharedIsDesks ==
    /\ Desk!Shared!Init <=> Shared!Init
    /\ [Shared!Next]_Shared!vars => [Desk!Shared!Next]_Desk!Shared!vars
    /\ Desk!Shared!History = Shared!History
    /\ Desk!Shared!Visible(Desk!Shared!Text) = Shared!Visible(Shared!Text)
  <1>1. Shared!Cell = Desk!Shared!Cell /\ Shared!Buffer = Desk!Shared!Buffer
    BY DEF Shared!Cell, Desk!Shared!Cell, Shared!Buffer, Desk!Shared!Buffer
  <1>2. \A s : Shared!Terminated(s) <=> Desk!Shared!Terminated(s)
    BY <1>1 DEF Shared!Terminated, Desk!Shared!Terminated
  <1>3. \A s : Shared!Strlen(s) = Desk!Shared!Strlen(s)
    BY <1>1, <1>2 DEF Shared!Strlen, Desk!Shared!Strlen, Shared!Min, Desk!Shared!Min
  <1>4. \A s : /\ Shared!Visible(s) = Desk!Shared!Visible(s)
               /\ Shared!Strncpy(s) = Desk!Shared!Strncpy(s)
               /\ Shared!Filled(s) = Desk!Shared!Filled(s)
    BY <1>1, <1>2, <1>3
       DEF Shared!Visible, Desk!Shared!Visible, Shared!Strncpy, Desk!Shared!Strncpy,
           Shared!Filled, Desk!Shared!Filled
  <1>5. Desk!Shared!Init <=> Shared!Init
    BY <1>1, <1>2, <1>3, <1>4 DEF Shared!Init, Desk!Shared!Init
  <1>6. \A c : /\ Shared!Refused(c) <=> Desk!Shared!Refused(c)
               /\ Shared!Changed(c) = Desk!Shared!Changed(c)
    BY <1>1
       DEF Shared!Refused, Desk!Shared!Refused, Shared!Changed, Desk!Shared!Changed,
           Shared!Inserted, Desk!Shared!Inserted, Shared!Deleted, Desk!Shared!Deleted
  <1>7. /\ Shared!Counted = Desk!Shared!Counted /\ Shared!Shifted = Desk!Shared!Shifted
        /\ Shared!Command = Desk!Shared!Command
    BY <1>4
       DEF Shared!Counted, Desk!Shared!Counted, Shared!Shifted, Desk!Shared!Shifted,
           Shared!UNDO_LIMIT, Desk!Shared!UNDO_LIMIT, Shared!Command, Desk!Shared!Command
  <1>8. ASSUME NEW p PROVE Shared!InCommand(p) <=> Desk!Shared!InCommand(p)
    BY <1>4, <1>6, <1>7
       DEF Shared!InCommand, Desk!Shared!InCommand, Shared!Refuse, Desk!Shared!Refuse,
           Shared!Save, Desk!Shared!Save, Shared!Change, Desk!Shared!Change,
           Shared!Restore, Desk!Shared!Restore, Shared!Shift, Desk!Shared!Shift,
           Shared!Post, Desk!Shared!Post, Shared!Exit, Desk!Shared!Exit,
           Shared!Goto, Desk!Shared!Goto, Shared!edited, Desk!Shared!edited
  <1>9. ASSUME NEW p
        PROVE  /\ Shared!Start(p) <=> Desk!Shared!Start(p)
               /\ Shared!Enter(p) <=> Desk!Shared!Enter(p)
               /\ Shared!KillWaiting(p) <=> Desk!Shared!KillWaiting(p)
               /\ Shared!KillHolder(p) <=> Desk!Shared!KillHolder(p)
    BY <1>7
       DEF Shared!Start, Desk!Shared!Start, Shared!Enter, Desk!Shared!Enter,
           Shared!KillWaiting, Desk!Shared!KillWaiting, Shared!KillHolder,
           Desk!Shared!KillHolder, Shared!Exit, Desk!Shared!Exit, Shared!Goto,
           Desk!Shared!Goto, Shared!edited, Desk!Shared!edited, Shared!Holding,
           Desk!Shared!Holding
  <1>10. Shared!Reset <=> Desk!Shared!Reset
    BY <1>1, <1>2, <1>3, <1>4
       DEF Shared!Reset, Desk!Shared!Reset, Shared!Holding, Desk!Shared!Holding
  <1>11. [Shared!Next]_Shared!vars => [Desk!Shared!Next]_Desk!Shared!vars
    BY <1>8, <1>9, <1>10
       DEF Shared!Next, Desk!Shared!Next, Shared!vars, Desk!Shared!vars, Shared!edited,
           Desk!Shared!edited
  <1>12. /\ Desk!Shared!History = Shared!History
         /\ Desk!Shared!Visible(Desk!Shared!Text) = Shared!Visible(Shared!Text)
    BY <1>4, <1>6, <1>7
       DEF Shared!History, Desk!Shared!History, Shared!Text, Desk!Shared!Text, Shared!Saved,
           Desk!Shared!Saved, Shared!Restored, Desk!Shared!Restored
  <1> QED BY <1>5, <1>11, <1>12

LEMMA SharedIsDesksNext ==
    (/\ Desk!Shared!History = Shared!History
     /\ Desk!Shared!Visible(Desk!Shared!Text) = Shared!Visible(Shared!Text))'
  <1>1. /\ Desk!Shared!History = Shared!History
        /\ Desk!Shared!Visible(Desk!Shared!Text) = Shared!Visible(Shared!Text)
    BY SharedIsDesks
  <1> QED BY <1>1, PTL

EditorInv ==
    /\ program = "hw3 edit" => Desk!Plain!TypeOK
    /\ program = "hw4 edit" => Desk!SharedInv

(* What MCExercises takes for the text and its past.                       *)
EditedText ==
    CASE program = "hw3 edit" -> Plain!Visible(x1)
      [] program = "hw4 edit" -> Shared!Visible(Shared!Text)
      [] OTHER -> <<>>
EditedPast ==
    CASE program = "hw3 edit" -> Plain!History
      [] program = "hw4 edit" -> Shared!History
      [] OTHER -> <<>>

EditedStep ==
    [(Edited!Edit /\ EditedText' \in Seq(Char)) \/ Edited!Undo \/ Edited!Reset]_
        <<EditedText, EditedPast>>

LEMMA EditorConstantsHold == Desk!EditorConstants /\ Seq(SharedChar) \subseteq Seq(Char)
  BY ExercisesAssumption DEF Desk!EditorConstants

LEMMA EditorsBegin == AllInit => EditorInv /\ Edited!EditingInit
  <1> SUFFICES ASSUME AllInit PROVE EditorInv /\ EditedText \in Seq(Char) /\ EditedPast = <<>>
    BY DEF Edited!EditingInit, EditedText, EditedPast
  <1>1. CASE program = "hw3 edit"
    <2>1. Plain!Init
      BY <1>1 DEF AllInit, OtherInit, Init
    <2>2. Desk!Plain!TypeOK /\ Desk!Kept!EditingInit
      BY <2>1, PlainIsDesks, EditorConstantsHold, Desk!PlainStart
    <2> QED BY <1>1, <2>2, PlainIsDesks
            DEF EditorInv, Desk!Kept!EditingInit, EditedText, EditedPast
  <1>2. CASE program = "hw4 edit"
    <2>1. Shared!Init
      BY <1>2 DEF AllInit, OtherInit, Init
    <2>2. Desk!SharedInv /\ Desk!Shared!Asked!EditingInit
      BY <2>1, SharedIsDesks, EditorConstantsHold, Desk!SharedStart
    <2> QED BY <1>2, <2>2, SharedIsDesks, EditorConstantsHold
            DEF EditorInv, Desk!Shared!Asked!EditingInit, EditedText, EditedPast
  <1>3. CASE program \notin {"hw3 edit", "hw4 edit"}
    <2>1. EditorInv /\ EditedText = <<>> /\ EditedPast = <<>>
      BY <1>3 DEF EditorInv, EditedText, EditedPast
    <2>2. <<>> \in Seq(Char)
      OBVIOUS
    <2> QED BY <2>1, <2>2
  <1> QED BY <1>1, <1>2, <1>3

LEMMA EditorsStay ==
    ASSUME EditorInv, [AllNext]_allVars
    PROVE  EditorInv' /\ EditedStep
  <1>0. program' = program /\ (OtherStep \/ EditorStep \/ UNCHANGED cells)
    BY ProgramStays
  <1>1. CASE program = "hw3 edit"
    <2>1. [Plain!Next]_Plain!vars
      BY <1>0, <1>1 DEF OtherStep, EditorStep, cells, Plain!vars
    <2>2. /\ Desk!Plain!TypeOK'
          /\ [\/ Desk!Kept!Edit /\ Desk!Plain!Visible(x1)' \in Seq(Char)
              \/ Desk!Kept!Undo
              \/ Desk!Kept!Reset]_<<Desk!Plain!Visible(x1), Desk!Plain!History>>
      <3>1. Desk!Plain!TypeOK
        BY <1>1 DEF EditorInv
      <3> QED BY <2>1, <3>1, PlainIsDesks, EditorConstantsHold, Desk!PlainStays
    <2>3. EditorInv'
      BY <1>0, <1>1, <2>2 DEF EditorInv
    <2>4. /\ EditedText = Desk!Plain!Visible(x1) /\ EditedPast = Desk!Plain!History
      BY <1>1, PlainIsDesks DEF EditedText, EditedPast
    <2>5. EditedText' = Desk!Plain!Visible(x1)' /\ EditedPast' = Desk!Plain!History'
      BY <1>0, <1>1, PlainIsDesksNext DEF EditedText, EditedPast
    <2>6. Desk!Kept!Edit => Edited!Edit
      BY <2>4, <2>5 DEF Desk!Kept!Edit, Desk!Kept!Remembered, Edited!Edit, Edited!Remembered,
                        EditedText, EditedPast
    <2>7. Desk!Kept!Undo => Edited!Undo
      BY <2>4, <2>5 DEF Desk!Kept!Undo, Edited!Undo, EditedText, EditedPast, Desk!Kept!Last,
                        Edited!Last, Desk!Kept!Front, Edited!Front
    <2>8. Desk!Kept!Reset => Edited!Reset
      BY <2>5 DEF Desk!Kept!Reset, Edited!Reset, EditedText, EditedPast
    <2> QED BY <2>2, <2>3, <2>4, <2>5, <2>6, <2>7, <2>8 DEF EditedStep
  <1>2. CASE program = "hw4 edit"
    <2>1. [Shared!Next]_Shared!vars
      BY <1>0, <1>2 DEF OtherStep, EditorStep, cells, Shared!vars, Shared!edited
    <2>2. Desk!SharedInv' /\ Desk!SharedStep
      <3>1. Desk!SharedInv
        BY <1>2 DEF EditorInv
      <3> QED BY <2>1, <3>1, SharedIsDesks, EditorConstantsHold, Desk!SharedStays
    <2>3. EditorInv'
      BY <1>0, <1>2, <2>2 DEF EditorInv
    <2>4. /\ EditedText = Desk!Shared!Visible(Desk!Shared!Text)
          /\ EditedPast = Desk!Shared!History
      BY <1>2, SharedIsDesks DEF EditedText, EditedPast
    <2>5. /\ EditedText' = Desk!Shared!Visible(Desk!Shared!Text)'
          /\ EditedPast' = Desk!Shared!History'
      BY <1>0, <1>2, SharedIsDesksNext DEF EditedText, EditedPast
    <2>6. Desk!Shared!Asked!Edit => Edited!Edit
      BY <2>4, <2>5 DEF Desk!Shared!Asked!Edit, Desk!Shared!Asked!Remembered, Edited!Edit,
                        Edited!Remembered, EditedText, EditedPast, Desk!Shared!UNDO_LIMIT
    <2>7. Desk!Shared!Asked!Undo => Edited!Undo
      BY <2>4, <2>5 DEF Desk!Shared!Asked!Undo, Edited!Undo, EditedText, EditedPast,
                        Desk!Shared!Asked!Last, Edited!Last, Desk!Shared!Asked!Front,
                        Edited!Front
    <2>8. Desk!Shared!Asked!Reset => Edited!Reset
      BY <2>5, EditorConstantsHold
         DEF Desk!Shared!Asked!Reset, Edited!Reset, EditedText, EditedPast
    <2> QED BY <2>2, <2>3, <2>4, <2>5, <2>6, <2>7, <2>8, EditorConstantsHold
            DEF EditedStep, Desk!SharedStep
  <1>3. CASE program \notin {"hw3 edit", "hw4 edit"}
    BY <1>0, <1>3 DEF EditorInv, EditedStep, EditedText, EditedPast
  <1> QED BY <1>1, <1>2, <1>3

(* edit.c of hw3 and hw4: undo goes back to exactly the text before the    *)
(* last edit, however many processes edit at the same time, and also when  *)
(* some of them are killed half-way and reset starts over.                 *)
THEOREM UndoIsExact == AllSpec => HistoryIsExact
  <1>1. AllInit => EditorInv /\ Edited!EditingInit
    BY EditorsBegin
  <1>2. EditorInv /\ [AllNext]_allVars => EditorInv' /\ EditedStep
    BY EditorsStay
  <1> QED BY <1>1, <1>2, PTL
          DEF AllSpec, HistoryIsExact, Edited!UndoSpec, EditedStep, EditedText, EditedPast

-----------------------------------------------------------------------------
(* The other programs.  Their theorems are proved in ToolProofs and        *)
(* FilterSortProofs; here the modules are those of MCExercises.            *)
Sorter == INSTANCE FilterSortProofs WITH
    LINE_LIMIT <- 3, LINES_LIMIT <- 4, MaxInput <- 6, BufferSize <- 2,
    source <- x1, excludedLineIdx <- x2, fetched <- x3, buffer <- x4, bufferAt <- x5,
    wholeFile <- x6, lineNo <- x7, colNo <- x8, wrote <- x9, sure <- x10,
    MaxLength <- 5, Value <- 1 .. 3,
    given <- x1, sequence <- x2, sorts <- x3, lap <- x4, lows <- x5,
    MaxNodes <- 4, vals <- x1, link <- x2, frames <- x3, result <- x4,
    MaxRecords <- 4, Distance <- 1 .. 3, SIZE_MAX <- 7,
    distance <- x1, plist <- x2, outer <- x3, inner <- x4, tmp <- x5, step <- x6,
    SECTORS <- 2, Entries <- 2, Clusters <- 3, Images <- Disks,
    reader <- x1, disk <- x2, filePos <- x3, levels <- x4, report <- x5

LEMMA RingIsDesks ==
    /\ Ring!Init => Desk!Ring!Init
    /\ Ring!Next => Desk!Ring!Next
    /\ Desk!Ring!TypeOK => Ring!TypeOK
    /\ Desk!Ring!UndoGoesBack => Ring!UndoGoesBack
  <1>1. /\ Ring!UNDO_LIMIT = Desk!Ring!UNDO_LIMIT /\ Ring!Slot = Desk!Ring!Slot
        /\ Ring!Text = Desk!Ring!Text /\ Ring!Record = Desk!Ring!Record
    BY DEF Ring!UNDO_LIMIT, Desk!Ring!UNDO_LIMIT, Ring!Slot, Desk!Ring!Slot, Ring!Text,
           Desk!Ring!Text, Ring!Record, Desk!Ring!Record
  <1>2. /\ \A s, k, c : Ring!InsertAt(s, k, c) = Desk!Ring!InsertAt(s, k, c)
        /\ \A s, k : Ring!RemoveAt(s, k) = Desk!Ring!RemoveAt(s, k)
        /\ \A s : Ring!Front(s) = Desk!Ring!Front(s)
    BY DEF Ring!InsertAt, Desk!Ring!InsertAt, Ring!RemoveAt, Desk!Ring!RemoveAt, Ring!Front,
           Desk!Ring!Front
  <1>3. \A s, r : /\ Ring!Reversed(s, r) = Desk!Ring!Reversed(s, r)
                  /\ Ring!Reversible(s, r) <=> Desk!Ring!Reversible(s, r)
    BY <1>2 DEF Ring!Reversed, Desk!Ring!Reversed, Ring!Reversible, Desk!Ring!Reversible
  <1>4. \A r : Ring!Remember(r) => Desk!Ring!Remember(r)
    BY <1>1 DEF Ring!Remember, Desk!Ring!Remember, Ring!Place, Desk!Ring!Place, Ring!Counted,
                Desk!Ring!Counted
  <1>5. /\ \A i, c : Ring!Insert(i, c) => Desk!Ring!Insert(i, c)
        /\ \A i : Ring!Delete(i) => Desk!Ring!Delete(i)
    BY <1>2, <1>4 DEF Ring!Insert, Desk!Ring!Insert, Ring!Delete, Desk!Ring!Delete
  <1>6. Ring!Undo => Desk!Ring!Undo
    BY <1>1, <1>2, <1>3 DEF Ring!Undo, Desk!Ring!Undo, Ring!Newest, Desk!Ring!Newest
  <1>7. Ring!Next => Desk!Ring!Next
    BY <1>1, <1>5, <1>6 DEF Ring!Next, Desk!Ring!Next, Ring!Reset, Desk!Ring!Reset, Ring!vars,
                            Desk!Ring!vars
  <1>8. Ring!Init => Desk!Ring!Init
    BY <1>1 DEF Ring!Init, Desk!Ring!Init
  <1>9. Desk!Ring!TypeOK => Ring!TypeOK
    BY <1>1 DEF Ring!TypeOK, Desk!Ring!TypeOK
  <1>10. Desk!Ring!UndoGoesBack => Ring!UndoGoesBack
    <2>1. Ring!After = Desk!Ring!After
      BY <1>1, <1>3 DEF Ring!After, Desk!Ring!After
    <2> QED BY <2>1 DEF Ring!UndoGoesBack, Desk!Ring!UndoGoesBack
  <1> QED BY <1>7, <1>8, <1>9, <1>10

LEMMA PsGrepIsDesks ==
    /\ PsGrep!Init => Desk!PsGrep!Init
    /\ PsGrep!Next => Desk!PsGrep!Next
    /\ Desk!PsGrep!TypeOK /\ Desk!PsGrep!NothingLeftBehind
         => PsGrep!TypeOK /\ PsGrep!NothingLeftBehind
  <1>1. PsGrep!Process = Desk!PsGrep!Process
    BY DEF PsGrep!Process, Desk!PsGrep!Process
  <1>2. PsGrep!Init => Desk!PsGrep!Init
    BY <1>1 DEF PsGrep!Init, Desk!PsGrep!Init
  <1>3. /\ \A p, l : PsGrep!Goto(p, l) => Desk!PsGrep!Goto(p, l)
        /\ \A p : PsGrep!Exit(p) => Desk!PsGrep!Exit(p)
    BY DEF PsGrep!Goto, Desk!PsGrep!Goto, PsGrep!Exit, Desk!PsGrep!Exit
  <1>4. PsGrep!Parent => Desk!PsGrep!Parent
    BY <1>3 DEF PsGrep!Parent, Desk!PsGrep!Parent, PsGrep!Fork, Desk!PsGrep!Fork, PsGrep!Wait,
                Desk!PsGrep!Wait, PsGrep!CloseInParent, Desk!PsGrep!CloseInParent
  <1>5. \A p, u, e, s : PsGrep!Plumb(p, u, e, s) => Desk!PsGrep!Plumb(p, u, e, s)
    BY <1>3 DEF PsGrep!Plumb, Desk!PsGrep!Plumb, PsGrep!Change, Desk!PsGrep!Change
  <1>6. PsGrep!Readers = Desk!PsGrep!Readers /\ PsGrep!Writers = Desk!PsGrep!Writers
    BY <1>1 DEF PsGrep!Readers, Desk!PsGrep!Readers, PsGrep!Writers, Desk!PsGrep!Writers
  <1>7. PsGrep!Ps => Desk!PsGrep!Ps
    BY <1>3, <1>5, <1>6
       DEF PsGrep!Ps, Desk!PsGrep!Ps, PsGrep!PsPrints, Desk!PsGrep!PsPrints, PsGrep!PsEnds,
           Desk!PsGrep!PsEnds
  <1>8. PsGrep!Grep => Desk!PsGrep!Grep
    BY <1>3, <1>5, <1>6
       DEF PsGrep!Grep, Desk!PsGrep!Grep, PsGrep!Filter, Desk!PsGrep!Filter, PsGrep!EndOfFile,
           Desk!PsGrep!EndOfFile
  <1>9. PsGrep!Ended <=> Desk!PsGrep!Ended
    BY <1>1 DEF PsGrep!Ended, Desk!PsGrep!Ended
  <1>10. PsGrep!Next => Desk!PsGrep!Next
    BY <1>4, <1>7, <1>8, <1>9
       DEF PsGrep!Next, Desk!PsGrep!Next, PsGrep!Step, Desk!PsGrep!Step, PsGrep!vars,
           Desk!PsGrep!vars
  <1>11. Desk!PsGrep!TypeOK /\ Desk!PsGrep!NothingLeftBehind
          => PsGrep!TypeOK /\ PsGrep!NothingLeftBehind
    BY <1>1, <1>9 DEF PsGrep!TypeOK, Desk!PsGrep!TypeOK, PsGrep!NothingLeftBehind,
                      Desk!PsGrep!NothingLeftBehind
  <1> QED BY <1>2, <1>10, <1>11

LEMMA FamilyIsDesks ==
    /\ Family!Init => Desk!Family!Init
    /\ Family!Next => Desk!Family!Next
    /\ Desk!Family!TypeOK /\ Desk!Family!DoneIsLast => Family!TypeOK /\ Family!DoneIsLast
  <1>1. Family!Child = Desk!Family!Child
    BY DEF Family!Child, Desk!Family!Child
  <1>2. Family!Init => Desk!Family!Init
    BY <1>1 DEF Family!Init, Desk!Family!Init
  <1>3. Family!Next => Desk!Family!Next
    BY <1>1
       DEF Family!Next, Desk!Family!Next, Family!Step, Desk!Family!Step, Family!Fork,
           Desk!Family!Fork, Family!CannotFork, Desk!Family!CannotFork, Family!Wait,
           Desk!Family!Wait, Family!Done, Desk!Family!Done, Family!Greet, Desk!Family!Greet,
           Family!Ended, Desk!Family!Ended, Family!vars, Desk!Family!vars
  <1>4. Desk!Family!TypeOK /\ Desk!Family!DoneIsLast => Family!TypeOK /\ Family!DoneIsLast
    BY <1>1 DEF Family!TypeOK, Desk!Family!TypeOK, Family!DoneIsLast, Desk!Family!DoneIsLast
  <1> QED BY <1>2, <1>3, <1>4

LEMMA RowsAreDesks ==
    /\ Rows!Init => Desk!Interleaved!Init
    /\ Rows!Next => Desk!Interleaved!Next
    /\ Desk!Interleaved!TypeOK /\ Desk!Interleaved!RowsAreInterleavings
         => Rows!TypeOK /\ Rows!RowsAreInterleavings
  <1>1. Rows!Letters = Desk!Interleaved!Letters /\ Rows!Writer = Desk!Interleaved!Writer
    BY Zenon DEF Rows!Letters, Desk!Interleaved!Letters, Rows!Writer, Desk!Interleaved!Writer
  <1>2. Rows!Init => Desk!Interleaved!Init
    BY <1>1 DEF Rows!Init, Desk!Interleaved!Init
  <1>3. Rows!Next => Desk!Interleaved!Next
    BY <1>1
       DEF Rows!Next, Desk!Interleaved!Next, Rows!Step, Desk!Interleaved!Step, Rows!Create,
           Desk!Interleaved!Create, Rows!CannotCreate, Desk!Interleaved!CannotCreate,
           Rows!Write, Desk!Interleaved!Write, Rows!Join, Desk!Interleaved!Join, Rows!EndRow,
           Desk!Interleaved!EndRow, Rows!Ended, Desk!Interleaved!Ended, Rows!vars,
           Desk!Interleaved!vars
  <1>4. Desk!Interleaved!TypeOK /\ Desk!Interleaved!RowsAreInterleavings
          => Rows!TypeOK /\ Rows!RowsAreInterleavings
    BY <1>1 DEF Rows!TypeOK, Desk!Interleaved!TypeOK, Rows!RowsAreInterleavings,
                Desk!Interleaved!RowsAreInterleavings
  <1> QED BY <1>2, <1>3, <1>4

LEMMA TopIsDesks ==
    /\ Top!Init => Desk!ProcessList!Init
    /\ Top!Next => Desk!ProcessList!Next
    /\ Desk!ProcessList!TypeOK /\ Desk!ProcessList!ListIsComplete
         => Top!TypeOK /\ Top!ListIsComplete
  <1>1. Top!Init => Desk!ProcessList!Init
    BY DEF Top!Init, Desk!ProcessList!Init
  <1>2. Top!Next => Desk!ProcessList!Next
    BY DEF Top!Next, Desk!ProcessList!Next, Top!Step, Desk!ProcessList!Step, Top!StartProcess,
           Desk!ProcessList!StartProcess, Top!EndProcess, Desk!ProcessList!EndProcess,
           Top!Scanning, Desk!ProcessList!Scanning, Top!FillNames, Desk!ProcessList!FillNames,
           Top!Look, Desk!ProcessList!Look, Top!CloseDir, Desk!ProcessList!CloseDir,
           Top!OutputProc, Desk!ProcessList!OutputProc, Top!Ended, Desk!ProcessList!Ended,
           Top!vars, Desk!ProcessList!vars, Top!world, Desk!ProcessList!world
  <1>3. Desk!ProcessList!TypeOK /\ Desk!ProcessList!ListIsComplete
          => Top!TypeOK /\ Top!ListIsComplete
    BY DEF Top!TypeOK, Desk!ProcessList!TypeOK, Top!ListIsComplete,
           Desk!ProcessList!ListIsComplete, Top!Ended, Desk!ProcessList!Ended,
           Top!Cardinality, Desk!ProcessList!Cardinality
  <1> QED BY <1>1, <1>2, <1>3

LEMMA HttpIsDesks ==
    /\ Http!Init => Desk!Http!Init
    /\ Http!Next => Desk!Http!Next
    /\ Desk!Http!TypeOK /\ Desk!Http!SplitAtEmptyLine => Http!TypeOK /\ Http!SplitAtEmptyLine
  <1>1. Http!CRLFCRLF = Desk!Http!CRLFCRLF
    BY DEF Http!CRLFCRLF, Desk!Http!CRLFCRLF
  <1>2. Http!Init => Desk!Http!Init
    BY DEF Http!Init, Desk!Http!Init
  <1>3. Http!Next => Desk!Http!Next
    BY <1>1 DEF Http!Next, Desk!Http!Next, Http!Read, Desk!Http!Read, Http!Put, Desk!Http!Put,
                Http!Recent, Desk!Http!Recent, Http!Ended, Desk!Http!Ended, Http!vars,
                Desk!Http!vars
  <1>4. Desk!Http!TypeOK /\ Desk!Http!SplitAtEmptyLine
          => Http!TypeOK /\ Http!SplitAtEmptyLine
    BY <1>1 DEF Http!TypeOK, Desk!Http!TypeOK, Http!SplitAtEmptyLine,
                Desk!Http!SplitAtEmptyLine, Http!Ended, Desk!Http!Ended
  <1> QED BY <1>2, <1>3, <1>4
LEMMA FilterIsSorters ==
    /\ Filter!Init => Sorter!Filter!Init
    /\ Filter!Next => Sorter!Filter!Next
    /\ Sorter!Filter!TypeOK /\ Sorter!Filter!LinesKept => Filter!TypeOK /\ Filter!LinesKept
  <1>1. Filter!Address = Sorter!Filter!Address
    BY DEF Filter!Address, Sorter!Filter!Address
  <1>2. \A n, m : Filter!Line(n, m) = Sorter!Filter!Line(n, m)
    BY DEF Filter!Line, Sorter!Filter!Line
  <1>3. Filter!Init => Sorter!Filter!Init
    BY <1>1 DEF Filter!Init, Sorter!Filter!Init
  <1>4. Filter!Next => Sorter!Filter!Next
    BY <1>1, <1>2
       DEF Filter!Next, Sorter!Filter!Next, Filter!Read, Sorter!Filter!Read, Filter!Store,
           Sorter!Filter!Store, Filter!Ended, Sorter!Filter!Ended, Filter!vars,
           Sorter!Filter!vars
  <1>5. Sorter!Filter!TypeOK /\ Sorter!Filter!LinesKept => Filter!TypeOK /\ Filter!LinesKept
    BY <1>1 DEF Filter!TypeOK, Sorter!Filter!TypeOK, Filter!LinesKept, Sorter!Filter!LinesKept,
                Filter!Ended, Sorter!Filter!Ended, Filter!Cardinality, Sorter!Filter!Cardinality
  <1> QED BY <1>3, <1>4, <1>5

LEMMA ArraysAreSorters ==
    /\ Arrays!Init => Sorter!Arrays!Init
    /\ Arrays!Next => Sorter!Arrays!Next
    /\ Sorter!Arrays!TypeOK /\ Sorter!Arrays!ArrayIsSorted
         => Arrays!TypeOK /\ Arrays!ArrayIsSorted
  <1>1. Arrays!base = Sorter!Arrays!base /\ Arrays!n = Sorter!Arrays!n
    BY DEF Arrays!base, Sorter!Arrays!base, Arrays!n, Sorter!Arrays!n
  <1>2. \A s, a, b : Arrays!Swap(s, a, b) = Sorter!Arrays!Swap(s, a, b)
    BY DEF Arrays!Swap, Sorter!Arrays!Swap
  <1>3. Arrays!Init => Sorter!Arrays!Init
    BY DEF Arrays!Init, Sorter!Arrays!Init
  <1>4. Arrays!Next => Sorter!Arrays!Next
    BY <1>1, <1>2
       DEF Arrays!Next, Sorter!Arrays!Next, Arrays!Trivial, Sorter!Arrays!Trivial,
           Arrays!Begin, Sorter!Arrays!Begin, Arrays!Lap, Sorter!Arrays!Lap,
           Arrays!Partition, Sorter!Arrays!Partition, Arrays!Split, Sorter!Arrays!Split,
           Arrays!Ended, Sorter!Arrays!Ended, Arrays!vars, Sorter!Arrays!vars
  <1>5. Sorter!Arrays!TypeOK /\ Sorter!Arrays!ArrayIsSorted
          => Arrays!TypeOK /\ Arrays!ArrayIsSorted
    BY DEF Arrays!TypeOK, Sorter!Arrays!TypeOK, Arrays!ArrayIsSorted,
           Sorter!Arrays!ArrayIsSorted, Arrays!Ended, Sorter!Arrays!Ended,
           Arrays!Cardinality, Sorter!Arrays!Cardinality
  <1> QED BY <1>3, <1>4, <1>5

LEMMA LinkedIsSorters ==
    /\ Linked!Init => Sorter!Lists!Init
    /\ Linked!Next => Sorter!Lists!Next
    /\ Sorter!Lists!TypeOK /\ Sorter!Lists!ListIsSorted => Linked!TypeOK /\ Linked!ListIsSorted
  <1>1. /\ Linked!Empty = Sorter!Lists!Empty /\ Linked!Top = Sorter!Lists!Top
        /\ \A l : Linked!Call(l) = Sorter!Lists!Call(l)
    BY DEF Linked!Empty, Sorter!Lists!Empty, Linked!Top, Sorter!Lists!Top, Linked!Call,
           Sorter!Lists!Call
  <1>2. /\ Linked!pivot = Sorter!Lists!pivot /\ Linked!AtMostOne = Sorter!Lists!AtMostOne
        /\ \A c : Linked!Replace(c) <=> Sorter!Lists!Replace(c)
        /\ \A c : Linked!NewTail(c) = Sorter!Lists!NewTail(c)
    BY <1>1 DEF Linked!pivot, Sorter!Lists!pivot, Linked!AtMostOne, Sorter!Lists!AtMostOne,
                Linked!Replace, Sorter!Lists!Replace, Linked!NewTail, Sorter!Lists!NewTail
  <1>3. \A l, m : /\ Linked!Appended(l, m) = Sorter!Lists!Appended(l, m)
                  /\ Linked!Linked(l, m) = Sorter!Lists!Linked(l, m)
    BY DEF Linked!Appended, Sorter!Lists!Appended, Linked!Linked, Sorter!Lists!Linked
  <1>4. \A l : Linked!Return(l) <=> Sorter!Lists!Return(l)
    BY DEF Linked!Return, Sorter!Lists!Return
  <1>5. Linked!Init => Sorter!Lists!Init
    BY <1>1 DEF Linked!Init, Sorter!Lists!Init
  <1>6. /\ Linked!ShortList => Sorter!Lists!ShortList
        /\ Linked!Partition => Sorter!Lists!Partition
        /\ Linked!SortLesser => Sorter!Lists!SortLesser
        /\ Linked!SortGreater => Sorter!Lists!SortGreater
    BY <1>1, <1>2, <1>4
       DEF Linked!ShortList, Sorter!Lists!ShortList, Linked!Partition, Sorter!Lists!Partition,
           Linked!SortLesser, Sorter!Lists!SortLesser, Linked!SortGreater,
           Sorter!Lists!SortGreater
  <1>7. Linked!Move => Sorter!Lists!Move
    BY <1>1, <1>2, <1>3 DEF Linked!Move, Sorter!Lists!Move
  <1>8. Linked!Join => Sorter!Lists!Join
    BY <1>1, <1>2, <1>4 DEF Linked!Join, Sorter!Lists!Join
  <1>9. Linked!Next => Sorter!Lists!Next
    BY <1>6, <1>7, <1>8
       DEF Linked!Next, Sorter!Lists!Next, Linked!Step, Sorter!Lists!Step, Linked!Ended,
           Sorter!Lists!Ended, Linked!vars, Sorter!Lists!vars
  <1>10. Sorter!Lists!TypeOK /\ Sorter!Lists!ListIsSorted => Linked!TypeOK /\ Linked!ListIsSorted
    <2>1. \A a, b : /\ Linked!Before(a, b) <=> Sorter!Lists!Before(a, b)
                    /\ Linked!Follows(a, b) <=> Sorter!Lists!Follows(a, b)
      BY DEF Linked!Before, Sorter!Lists!Before, Linked!Follows, Sorter!Lists!Follows
    <2> QED BY <1>1, <2>1
            DEF Linked!TypeOK, Sorter!Lists!TypeOK, Linked!ListIsSorted,
                Sorter!Lists!ListIsSorted, Linked!Ended, Sorter!Lists!Ended
  <1> QED BY <1>5, <1>9, <1>10

LEMMA MappedIsSorters ==
    /\ Mapped!Init => Sorter!Mapped!Init
    /\ Mapped!Next => Sorter!Mapped!Next
    /\ Sorter!Mapped!TypeOK /\ Sorter!Mapped!FileKeepsRecords
         => Mapped!TypeOK /\ Mapped!FileKeepsRecords
  <1>1. /\ Mapped!numPOIs = Sorter!Mapped!numPOIs /\ Mapped!Laps = Sorter!Mapped!Laps
        /\ \A a, b : Mapped!Less(a, b) <=> Sorter!Mapped!Less(a, b)
    BY DEF Mapped!numPOIs, Sorter!Mapped!numPOIs, Mapped!Laps, Sorter!Mapped!Laps, Mapped!Less,
           Sorter!Mapped!Less
  <1>2. Mapped!Init => Sorter!Mapped!Init
    BY DEF Mapped!Init, Sorter!Mapped!Init
  <1>3. Mapped!Next => Sorter!Mapped!Next
    BY <1>1
       DEF Mapped!Next, Sorter!Mapped!Next, Mapped!Step, Sorter!Mapped!Step, Mapped!Compare,
           Sorter!Mapped!Compare, Mapped!CopyDown, Sorter!Mapped!CopyDown, Mapped!CopyUp,
           Sorter!Mapped!CopyUp, Mapped!Interrupt, Sorter!Mapped!Interrupt, Mapped!Ended,
           Sorter!Mapped!Ended, Mapped!vars, Sorter!Mapped!vars
  <1>4. Sorter!Mapped!TypeOK /\ Sorter!Mapped!FileKeepsRecords
          => Mapped!TypeOK /\ Mapped!FileKeepsRecords
    BY <1>1 DEF Mapped!TypeOK, Sorter!Mapped!TypeOK, Mapped!FileKeepsRecords,
                Sorter!Mapped!FileKeepsRecords, Mapped!Cardinality, Sorter!Mapped!Cardinality
  <1> QED BY <1>2, <1>3, <1>4

LEMMA FloppyIsSorters ==
    /\ Floppy!FloppyConstants => Sorter!Floppy!FloppyConstants
    /\ Floppy!Init => Sorter!Floppy!Init
    /\ Floppy!Next => Sorter!Floppy!Next
    /\ Sorter!Floppy!TypeOK /\ Sorter!Floppy!ReportIsTheTree
         => Floppy!TypeOK /\ Floppy!ReportIsTheTree
  <1>1. /\ Floppy!SubDirs = Sorter!Floppy!SubDirs /\ Floppy!Dirs = Sorter!Floppy!Dirs
        /\ Floppy!Kinds = Sorter!Floppy!Kinds /\ Floppy!BAD_SECTOR = Sorter!Floppy!BAD_SECTOR
        /\ Floppy!EOC_MARKER_START = Sorter!Floppy!EOC_MARKER_START
    BY DEF Floppy!SubDirs, Sorter!Floppy!SubDirs, Floppy!Dirs, Sorter!Floppy!Dirs,
           Floppy!Kinds, Sorter!Floppy!Kinds, Floppy!BAD_SECTOR, Sorter!Floppy!BAD_SECTOR,
           Floppy!EOC_MARKER_START, Sorter!Floppy!EOC_MARKER_START
  <1>2. \A f : Floppy!PlacesIn(f) = Sorter!Floppy!PlacesIn(f)
    BY DEF Floppy!PlacesIn, Sorter!Floppy!PlacesIn
  <1>3. /\ \A c : Floppy!SectorStart(c) = Sorter!Floppy!SectorStart(c)
        /\ \A s : Floppy!Start(s) = Sorter!Floppy!Start(s)
        /\ \A s : Floppy!Call(s) = Sorter!Floppy!Call(s)
        /\ \A k : Floppy!RootSector(k) = Sorter!Floppy!RootSector(k)
        /\ \A c : Floppy!InData(c) <=> Sorter!Floppy!InData(c)
        /\ Floppy!EndOfFile = Sorter!Floppy!EndOfFile
    BY <1>1
       DEF Floppy!SectorStart, Sorter!Floppy!SectorStart, Floppy!Start, Sorter!Floppy!Start,
           Floppy!Call, Sorter!Floppy!Call, Floppy!RootSector, Sorter!Floppy!RootSector,
           Floppy!InData, Sorter!Floppy!InData, Floppy!EndOfFile, Sorter!Floppy!EndOfFile
  <1>4. Floppy!FloppyConstants => Sorter!Floppy!FloppyConstants
    <2>1. ASSUME NEW im PROVE Floppy!WellFormed(im) <=> Sorter!Floppy!WellFormed(im)
      BY Zenon
         DEF Floppy!WellFormed, Sorter!Floppy!WellFormed, Floppy!PlacesIn,
             Sorter!Floppy!PlacesIn, Floppy!SubDirs, Sorter!Floppy!SubDirs, Floppy!Dirs,
             Sorter!Floppy!Dirs, Floppy!Kinds, Sorter!Floppy!Kinds, Floppy!EOC_MARKER_START,
             Sorter!Floppy!EOC_MARKER_START
    <2> QED BY <1>1, <2>1, Zenon DEF Floppy!FloppyConstants, Sorter!Floppy!FloppyConstants
  <1>5. /\ \A d, k : Floppy!Place(d, k) = Sorter!Floppy!Place(d, k)
        /\ \A e : Floppy!Held(e) = Sorter!Floppy!Held(e)
    BY <1>3 DEF Floppy!Place, Sorter!Floppy!Place, Floppy!Held, Sorter!Floppy!Held
  <1>6. ASSUME NEW p PROVE Floppy!EntryAt(p) = Sorter!Floppy!EntryAt(p)
    BY Zenon
       DEF Floppy!EntryAt, Sorter!Floppy!EntryAt, Floppy!PlacesIn, Sorter!Floppy!PlacesIn,
           Floppy!Place, Sorter!Floppy!Place, Floppy!Held, Sorter!Floppy!Held,
           Floppy!SectorStart, Sorter!Floppy!SectorStart
  <1>7. ASSUME NEW c PROVE Floppy!NextCluster(c) = Sorter!Floppy!NextCluster(c)
    BY Zenon
       DEF Floppy!NextCluster, Sorter!Floppy!NextCluster, Floppy!PlacesIn,
           Sorter!Floppy!PlacesIn
  <1>8. \A n : Floppy!FatByte(n) = Sorter!Floppy!FatByte(n)
    BY <1>7, Zenon DEF Floppy!FatByte, Sorter!Floppy!FatByte
  <1>9. ASSUME NEW n PROVE Floppy!GetFat12(n) = Sorter!Floppy!GetFat12(n)
    <2>1. Floppy!GetFatPair(n) = Sorter!Floppy!GetFatPair(n)
      BY <1>8 DEF Floppy!GetFatPair, Sorter!Floppy!GetFatPair
    <2>2. Floppy!GetFatBytes(n) = Sorter!Floppy!GetFatBytes(n)
      BY <1>8 DEF Floppy!GetFatBytes, Sorter!Floppy!GetFatBytes
    <2> QED BY <2>1, <2>2, Zenon DEF Floppy!GetFat12, Sorter!Floppy!GetFat12
  <1>10. Floppy!Init => Sorter!Floppy!Init
    BY <1>3 DEF Floppy!Init, Sorter!Floppy!Init
  <1>11. /\ Floppy!Top = Sorter!Floppy!Top /\ Floppy!Below = Sorter!Floppy!Below
         /\ Floppy!Entry = Sorter!Floppy!Entry
         /\ Floppy!Reading <=> Sorter!Floppy!Reading
         /\ Floppy!Report <=> Sorter!Floppy!Report
         /\ \A s, c : Floppy!Enter(s, c) <=> Sorter!Floppy!Enter(s, c)
    BY <1>3, <1>6
       DEF Floppy!Top, Sorter!Floppy!Top, Floppy!Below, Sorter!Floppy!Below, Floppy!Entry,
           Sorter!Floppy!Entry, Floppy!Reading, Sorter!Floppy!Reading, Floppy!Report,
           Sorter!Floppy!Report, Floppy!Enter, Sorter!Floppy!Enter
  <1>12. Floppy!Leave <=> Sorter!Floppy!Leave
    BY <1>11 DEF Floppy!Leave, Sorter!Floppy!Leave
  <1>13. Floppy!NextSector => Sorter!Floppy!NextSector
    BY <1>3, <1>9, <1>11, <1>12 DEF Floppy!NextSector, Sorter!Floppy!NextSector
  <1>14. /\ Floppy!EndOfDirectory => Sorter!Floppy!EndOfDirectory
         /\ Floppy!Skip => Sorter!Floppy!Skip
         /\ Floppy!File => Sorter!Floppy!File
         /\ Floppy!Directory => Sorter!Floppy!Directory
    <2>1. Floppy!EndOfDirectory => Sorter!Floppy!EndOfDirectory
      BY <1>11, <1>12, Zenon DEF Floppy!EndOfDirectory, Sorter!Floppy!EndOfDirectory
    <2>2. Floppy!Skip => Sorter!Floppy!Skip
      BY <1>11, Zenon DEF Floppy!Skip, Sorter!Floppy!Skip
    <2>3. Floppy!File => Sorter!Floppy!File
      BY <1>11, Zenon DEF Floppy!File, Sorter!Floppy!File
    <2>4. Floppy!Directory => Sorter!Floppy!Directory
      BY <1>1, <1>11, Zenon DEF Floppy!Directory, Sorter!Floppy!Directory
    <2> QED BY <2>1, <2>2, <2>3, <2>4
  <1>15. Floppy!Next => Sorter!Floppy!Next
    BY <1>13, <1>14
       DEF Floppy!Next, Sorter!Floppy!Next, Floppy!Step, Sorter!Floppy!Step, Floppy!Ended,
           Sorter!Floppy!Ended, Floppy!vars, Sorter!Floppy!vars
  <1>16. Floppy!ReadsRight <=> Sorter!Floppy!ReadsRight
    BY <1>1 DEF Floppy!ReadsRight, Sorter!Floppy!ReadsRight, Floppy!OddChain,
                Sorter!Floppy!OddChain
  <1>17. Floppy!Listed = Sorter!Floppy!Listed
    <2>1. Floppy!Routes = Sorter!Floppy!Routes
      BY <1>2, <1>5 DEF Floppy!Routes, Sorter!Floppy!Routes
    <2> QED BY <1>5, <2>1 DEF Floppy!Listed, Sorter!Floppy!Listed, Floppy!Last,
                              Sorter!Floppy!Last
  <1>18. \A r : /\ Floppy!Before(r) = Sorter!Floppy!Before(r)
                /\ Floppy!LineOf(r) = Sorter!Floppy!LineOf(r)
    BY <1>5, <1>17
       DEF Floppy!Before, Sorter!Floppy!Before, Floppy!Earlier, Sorter!Floppy!Earlier,
           Floppy!LineOf, Sorter!Floppy!LineOf, Floppy!Last, Sorter!Floppy!Last
  <1>19. Sorter!Floppy!ReportIsTheTree => Floppy!ReportIsTheTree
    <2>1. \A S : Floppy!Cardinality(S) = Sorter!Floppy!Cardinality(S)
      BY DEF Floppy!Cardinality, Sorter!Floppy!Cardinality
    <2> QED BY <1>16, <1>17, <1>18, <2>1
            DEF Floppy!ReportIsTheTree, Sorter!Floppy!ReportIsTheTree, Floppy!ReportIsExpected,
                Sorter!Floppy!ReportIsExpected, Floppy!Reported, Sorter!Floppy!Reported,
                Floppy!Ended, Sorter!Floppy!Ended
  <1>20. Sorter!Floppy!TypeOK => Floppy!TypeOK
    BY <1>1, <1>3, <1>16 DEF Floppy!TypeOK, Sorter!Floppy!TypeOK
  <1> QED BY <1>4, <1>10, <1>15, <1>19, <1>20

-----------------------------------------------------------------------------
(* The steps of the program that runs are those of its module.             *)
LEMMA StepsAreTheirs ==
    ASSUME [AllNext]_allVars
    PROVE  /\ program' = program
           /\ program = "edit2" => [Ring!Next]_Ring!vars
           /\ program = "ex03 pipe" => [PsGrep!Next]_PsGrep!vars
           /\ program = "children" => [Family!Next]_Family!vars
           /\ program = "interleaving" => [Rows!Next]_Rows!vars
           /\ program = "top" => [Top!Next]_Top!vars
           /\ program = "HTTPclient" => [Http!Next]_Http!vars
           /\ program = "exclude" => [Filter!Next]_Filter!vars
           /\ program = "array" => [Arrays!Next]_Arrays!vars
           /\ program = "linked" => [Linked!Next]_Linked!vars
           /\ program = "sort" => [Mapped!Next]_Mapped!vars
           /\ program = "floppyDir" => [Floppy!Next]_Floppy!vars
  <1>1. OtherStep \/ EditorStep \/ UNCHANGED cells
    BY ProgramStays
  <1>2. program = "edit2" => [Ring!Next]_Ring!vars
    BY <1>1 DEF OtherStep, EditorStep, cells, Ring!vars
  <1>3. program = "ex03 pipe" => [PsGrep!Next]_PsGrep!vars
    BY <1>1 DEF OtherStep, EditorStep, cells, PsGrep!vars
  <1>4. program = "children" => [Family!Next]_Family!vars
    BY <1>1 DEF OtherStep, EditorStep, cells, Family!vars
  <1>5. program = "interleaving" => [Rows!Next]_Rows!vars
    BY <1>1 DEF OtherStep, EditorStep, cells, Rows!vars
  <1>6. program = "top" => [Top!Next]_Top!vars
    BY <1>1 DEF OtherStep, EditorStep, cells, Top!vars, Top!world
  <1>7. program = "HTTPclient" => [Http!Next]_Http!vars
    BY <1>1 DEF OtherStep, EditorStep, cells, Http!vars
  <1>8. program = "exclude" => [Filter!Next]_Filter!vars
    BY <1>1 DEF OtherStep, EditorStep, cells, Filter!vars
  <1>9. program = "array" => [Arrays!Next]_Arrays!vars
    BY <1>1 DEF OtherStep, EditorStep, cells, Arrays!vars
  <1>10. program = "linked" => [Linked!Next]_Linked!vars
    BY <1>1 DEF OtherStep, EditorStep, cells, Linked!vars
  <1>11. program = "sort" => [Mapped!Next]_Mapped!vars
    BY <1>1 DEF OtherStep, EditorStep, cells, Mapped!vars
  <1>12. program = "floppyDir" => [Floppy!Next]_Floppy!vars
    BY <1>1 DEF OtherStep, EditorStep, cells, Floppy!vars
  <1> QED BY <1>2, <1>3, <1>4, <1>5, <1>6, <1>7, <1>8, <1>9, <1>10, <1>11, <1>12, ProgramStays

LEMMA RingKept == AllSpec => [](program = "edit2" => Ring!TypeOK /\ Ring!UndoGoesBack)
  <1>0. Desk!EditorConstants
    BY ExercisesAssumption DEF Desk!EditorConstants
  <1>1. AllInit /\ program = "edit2" => Desk!Ring!Init
    BY RingIsDesks DEF AllInit, OtherInit, Init
  <1>2. [AllNext]_allVars
          => /\ program = "edit2" => [Desk!Ring!Next]_Desk!Ring!vars
             /\ (program = "edit2")' <=> program = "edit2"
    BY StepsAreTheirs, RingIsDesks DEF Ring!vars, Desk!Ring!vars
  <1>3. Desk!Ring!Spec => [](Desk!Ring!TypeOK /\ Desk!Ring!UndoGoesBack)
    BY <1>0, Desk!RingGoesBack
  <1>4. Desk!Ring!TypeOK /\ Desk!Ring!UndoGoesBack => Ring!TypeOK /\ Ring!UndoGoesBack
    BY RingIsDesks
  <1> QED BY <1>1, <1>2, <1>3, <1>4, PTL DEF AllSpec, Desk!Ring!Spec

LEMMA PsGrepKept == AllSpec
    => [](program = "ex03 pipe" => PsGrep!TypeOK /\ PsGrep!NothingLeftBehind)
  <1>0. Desk!PipelineConstants
    BY ExercisesAssumption DEF Desk!PipelineConstants
  <1>1. AllInit /\ program = "ex03 pipe" => Desk!PsGrep!Init
    BY PsGrepIsDesks DEF AllInit, OtherInit, Init
  <1>2. [AllNext]_allVars
          => /\ program = "ex03 pipe" => [Desk!PsGrep!Next]_Desk!PsGrep!vars
             /\ (program = "ex03 pipe")' <=> program = "ex03 pipe"
    BY StepsAreTheirs, PsGrepIsDesks DEF PsGrep!vars, Desk!PsGrep!vars
  <1>3. Desk!PsGrep!Spec => [](Desk!PsGrep!TypeOK /\ Desk!PsGrep!NothingLeftBehind)
    BY <1>0, Desk!PipeIsDrained
  <1>4. Desk!PsGrep!TypeOK /\ Desk!PsGrep!NothingLeftBehind
          => PsGrep!TypeOK /\ PsGrep!NothingLeftBehind
    BY PsGrepIsDesks
  <1> QED BY <1>1, <1>2, <1>3, <1>4, PTL DEF AllSpec, Desk!PsGrep!Spec

LEMMA FamilyKept == AllSpec
    => [](program = "children" => Family!TypeOK /\ Family!DoneIsLast)
  <1>1. AllInit /\ program = "children" => Desk!Family!Init
    BY FamilyIsDesks DEF AllInit, OtherInit, Init
  <1>2. [AllNext]_allVars
          => /\ program = "children" => [Desk!Family!Next]_Desk!Family!vars
             /\ (program = "children")' <=> program = "children"
    BY StepsAreTheirs, FamilyIsDesks DEF Family!vars, Desk!Family!vars
  <1>3. Desk!Family!Spec => [](Desk!Family!TypeOK /\ Desk!Family!DoneIsLast)
    BY Desk!ChildrenPrintFirst
  <1>4. Desk!Family!TypeOK /\ Desk!Family!DoneIsLast => Family!TypeOK /\ Family!DoneIsLast
    BY FamilyIsDesks
  <1> QED BY <1>1, <1>2, <1>3, <1>4, PTL DEF AllSpec, Desk!Family!Spec

LEMMA RowsKept == AllSpec
    => [](program = "interleaving" => Rows!TypeOK /\ Rows!RowsAreInterleavings)
  <1>0. Desk!RowsConstants
    BY ExercisesAssumption DEF Desk!RowsConstants
  <1>1. AllInit /\ program = "interleaving" => Desk!Interleaved!Init
    BY RowsAreDesks DEF AllInit, OtherInit, Init
  <1>2. [AllNext]_allVars
          => /\ program = "interleaving" => [Desk!Interleaved!Next]_Desk!Interleaved!vars
             /\ (program = "interleaving")' <=> program = "interleaving"
    BY StepsAreTheirs, RowsAreDesks DEF Rows!vars, Desk!Interleaved!vars
  <1>3. Desk!Interleaved!Spec
          => [](Desk!Interleaved!TypeOK /\ Desk!Interleaved!RowsAreInterleavings)
    BY <1>0, Desk!RowsAreComplete
  <1>4. Desk!Interleaved!TypeOK /\ Desk!Interleaved!RowsAreInterleavings
          => Rows!TypeOK /\ Rows!RowsAreInterleavings
    BY RowsAreDesks
  <1> QED BY <1>1, <1>2, <1>3, <1>4, PTL DEF AllSpec, Desk!Interleaved!Spec

LEMMA TopKept == AllSpec => [](program = "top" => Top!TypeOK /\ Top!ListIsComplete)
  <1>0. Desk!ListConstants
    BY ExercisesAssumption DEF Desk!ListConstants
  <1>1. AllInit /\ program = "top" => Desk!ProcessList!Init
    BY TopIsDesks DEF AllInit, OtherInit, Init
  <1>2. [AllNext]_allVars
          => /\ program = "top" => [Desk!ProcessList!Next]_Desk!ProcessList!vars
             /\ (program = "top")' <=> program = "top"
    BY StepsAreTheirs, TopIsDesks DEF Top!vars, Top!world, Desk!ProcessList!vars,
                                   Desk!ProcessList!world
  <1>3. Desk!ProcessList!Spec
          => [](Desk!ProcessList!TypeOK /\ Desk!ProcessList!ListIsComplete)
    BY <1>0, Desk!ListIsAlwaysComplete
  <1>4. Desk!ProcessList!TypeOK /\ Desk!ProcessList!ListIsComplete
          => Top!TypeOK /\ Top!ListIsComplete
    BY TopIsDesks
  <1> QED BY <1>1, <1>2, <1>3, <1>4, PTL DEF AllSpec, Desk!ProcessList!Spec

LEMMA HttpKept == AllSpec
    => [](program = "HTTPclient" => Http!TypeOK /\ Http!SplitAtEmptyLine)
  <1>0. Desk!HttpConstants
    BY ExercisesAssumption DEF Desk!HttpConstants
  <1>1. AllInit /\ program = "HTTPclient" => Desk!Http!Init
    BY HttpIsDesks DEF AllInit, OtherInit, Init
  <1>2. [AllNext]_allVars
          => /\ program = "HTTPclient" => [Desk!Http!Next]_Desk!Http!vars
             /\ (program = "HTTPclient")' <=> program = "HTTPclient"
    BY StepsAreTheirs, HttpIsDesks DEF Http!vars, Desk!Http!vars
  <1>3. Desk!Http!Spec => [](Desk!Http!TypeOK /\ Desk!Http!SplitAtEmptyLine)
    BY <1>0, Desk!ResponseIsSplit
  <1>4. Desk!Http!TypeOK /\ Desk!Http!SplitAtEmptyLine
          => Http!TypeOK /\ Http!SplitAtEmptyLine
    BY HttpIsDesks
  <1> QED BY <1>1, <1>2, <1>3, <1>4, PTL DEF AllSpec, Desk!Http!Spec

LEMMA FilterKept == AllSpec
    => [](program = "exclude" => Filter!TypeOK /\ Filter!LinesKept)
  <1>0. Sorter!FilterConstants
    BY ExercisesAssumption DEF Sorter!FilterConstants
  <1>1. AllInit /\ program = "exclude" => Sorter!Filter!Init
    BY FilterIsSorters DEF AllInit, OtherInit, Init
  <1>2. [AllNext]_allVars
          => /\ program = "exclude" => [Sorter!Filter!Next]_Sorter!Filter!vars
             /\ (program = "exclude")' <=> program = "exclude"
    BY StepsAreTheirs, FilterIsSorters DEF Filter!vars, Sorter!Filter!vars
  <1>3. Sorter!Filter!Spec => [](Sorter!Filter!TypeOK /\ Sorter!Filter!LinesKept)
    BY <1>0, Sorter!LinesAreKept
  <1>4. Sorter!Filter!TypeOK /\ Sorter!Filter!LinesKept
          => Filter!TypeOK /\ Filter!LinesKept
    BY FilterIsSorters
  <1> QED BY <1>1, <1>2, <1>3, <1>4, PTL DEF AllSpec, Sorter!Filter!Spec

LEMMA ArraysKept == AllSpec
    => [](program = "array" => Arrays!TypeOK /\ Arrays!ArrayIsSorted)
  <1>0. Sorter!ArrayConstants
    BY ExercisesAssumption DEF Sorter!ArrayConstants
  <1>1. AllInit /\ program = "array" => Sorter!Arrays!Init
    BY ArraysAreSorters DEF AllInit, OtherInit, Init
  <1>2. [AllNext]_allVars
          => /\ program = "array" => [Sorter!Arrays!Next]_Sorter!Arrays!vars
             /\ (program = "array")' <=> program = "array"
    BY StepsAreTheirs, ArraysAreSorters DEF Arrays!vars, Sorter!Arrays!vars
  <1>3. Sorter!Arrays!Spec => [](Sorter!Arrays!TypeOK /\ Sorter!Arrays!ArrayIsSorted)
    BY <1>0, Sorter!ArrayIsAlwaysSorted
  <1>4. Sorter!Arrays!TypeOK /\ Sorter!Arrays!ArrayIsSorted
          => Arrays!TypeOK /\ Arrays!ArrayIsSorted
    BY ArraysAreSorters
  <1> QED BY <1>1, <1>2, <1>3, <1>4, PTL DEF AllSpec, Sorter!Arrays!Spec

LEMMA LinkedKept == AllSpec
    => [](program = "linked" => Linked!TypeOK /\ Linked!ListIsSorted)
  <1>0. Sorter!LinkConstants
    BY ExercisesAssumption DEF Sorter!LinkConstants
  <1>1. AllInit /\ program = "linked" => Sorter!Lists!Init
    BY LinkedIsSorters DEF AllInit, OtherInit, Init
  <1>2. [AllNext]_allVars
          => /\ program = "linked" => [Sorter!Lists!Next]_Sorter!Lists!vars
             /\ (program = "linked")' <=> program = "linked"
    BY StepsAreTheirs, LinkedIsSorters DEF Linked!vars, Sorter!Lists!vars
  <1>3. Sorter!Lists!Spec => [](Sorter!Lists!TypeOK /\ Sorter!Lists!ListIsSorted)
    BY <1>0, Sorter!ListIsAlwaysSorted
  <1>4. Sorter!Lists!TypeOK /\ Sorter!Lists!ListIsSorted
          => Linked!TypeOK /\ Linked!ListIsSorted
    BY LinkedIsSorters
  <1> QED BY <1>1, <1>2, <1>3, <1>4, PTL DEF AllSpec, Sorter!Lists!Spec

LEMMA MappedKept == AllSpec
    => [](program = "sort" => Mapped!TypeOK /\ Mapped!FileKeepsRecords)
  <1>0. Sorter!SortConstants
    BY ExercisesAssumption DEF Sorter!SortConstants
  <1>1. AllInit /\ program = "sort" => Sorter!Mapped!Init
    BY MappedIsSorters DEF AllInit, OtherInit, Init
  <1>2. [AllNext]_allVars
          => /\ program = "sort" => [Sorter!Mapped!Next]_Sorter!Mapped!vars
             /\ (program = "sort")' <=> program = "sort"
    BY StepsAreTheirs, MappedIsSorters DEF Mapped!vars, Sorter!Mapped!vars
  <1>3. Sorter!Mapped!Spec => [](Sorter!Mapped!TypeOK /\ Sorter!Mapped!FileKeepsRecords)
    BY <1>0, Sorter!FileAlwaysKeepsRecords
  <1>4. Sorter!Mapped!TypeOK /\ Sorter!Mapped!FileKeepsRecords
          => Mapped!TypeOK /\ Mapped!FileKeepsRecords
    BY MappedIsSorters
  <1> QED BY <1>1, <1>2, <1>3, <1>4, PTL DEF AllSpec, Sorter!Mapped!Spec

LEMMA FloppyKept == AllSpec
    => [](program = "floppyDir" => Floppy!TypeOK /\ Floppy!ReportIsTheTree)
  <1>0. Sorter!Floppy!FloppyConstants
    BY ExercisesAssumption, FloppyIsSorters
  <1>1. AllInit /\ program = "floppyDir" => Sorter!Floppy!Init
    BY FloppyIsSorters DEF AllInit, OtherInit, Init
  <1>2. [AllNext]_allVars
          => /\ program = "floppyDir" => [Sorter!Floppy!Next]_Sorter!Floppy!vars
             /\ (program = "floppyDir")' <=> program = "floppyDir"
    BY StepsAreTheirs, FloppyIsSorters DEF Floppy!vars, Sorter!Floppy!vars
  <1>3. Sorter!Floppy!Init /\ [][Sorter!Floppy!Next]_Sorter!Floppy!vars
          => [](Sorter!Floppy!TypeOK /\ Sorter!Floppy!ReportIsTheTree)
    BY <1>0, Sorter!ReportAlwaysTheTree
  <1>4. Sorter!Floppy!TypeOK /\ Sorter!Floppy!ReportIsTheTree
          => Floppy!TypeOK /\ Floppy!ReportIsTheTree
    BY FloppyIsSorters
  <1> QED BY <1>1, <1>2, <1>3, <1>4, PTL DEF AllSpec

OutputsKept ==
    /\ program = "edit2" => Ring!TypeOK /\ Ring!UndoGoesBack
    /\ program = "ex03 pipe" => PsGrep!TypeOK /\ PsGrep!NothingLeftBehind
    /\ program = "children" => Family!TypeOK /\ Family!DoneIsLast
    /\ program = "interleaving" => Rows!TypeOK /\ Rows!RowsAreInterleavings
    /\ program = "top" => Top!TypeOK /\ Top!ListIsComplete
    /\ program = "HTTPclient" => Http!TypeOK /\ Http!SplitAtEmptyLine
    /\ program = "exclude" => Filter!TypeOK /\ Filter!LinesKept
    /\ program = "array" => Arrays!TypeOK /\ Arrays!ArrayIsSorted
    /\ program = "linked" => Linked!TypeOK /\ Linked!ListIsSorted
    /\ program = "sort" => Mapped!TypeOK /\ Mapped!FileKeepsRecords
    /\ program = "floppyDir" => Floppy!TypeOK /\ Floppy!ReportIsTheTree

LEMMA OutputsAreKept == AllSpec => []OutputsKept
  BY RingKept, PsGrepKept, FamilyKept, RowsKept, TopKept, HttpKept, FilterKept, ArraysKept,
     LinkedKept, MappedKept, FloppyKept, PTL DEF OutputsKept

(* What the other programs leave behind, print or list is right: undo of   *)
(* edit2 goes back, floppyDir lists the tree, top misses no process, the   *)
(* response is split at its empty line, exclude drops the one line, the    *)
(* sorts sort and lose nothing, no process or thread is lost or too late.  *)
THEOREM OutputsAreAlwaysRight == AllSpec => []OutputsAreRight
  <1>1. OutputsKept => OutputsAreRight
    BY DEF OutputsKept, OutputsAreRight
  <1> QED BY <1>1, OutputsAreKept, PTL

-----------------------------------------------------------------------------
(* The types.  Each is part of an invariant above.                         *)
TypesKept ==
    /\ program \in Counters \cup
           {"ex06 pingpong", "ex07 pingpong", "edit2", "hw3 edit", "hw4 edit", "stash", "motd",
            "floppyDir", "top", "HTTPclient", "exclude", "linked", "array", "sort",
            "ex03 pipe", "children", "interleaving"}
    /\ TurnInv /\ TriangleInv /\ CounterTypes /\ EditorInv

LEMMA TypesAreKept == AllSpec => []TypesKept
  <1>1. AllInit => TypesKept
    <2>1. AllInit => TurnInv /\ TriangleInv /\ CounterTypes /\ EditorInv
      BY TurnStart, TrianglesBegin, CounterTypesBegin, EditorsBegin
    <2> QED BY <2>1 DEF TypesKept, Counters, AllInit, OtherInit, Init
  <1>2. TypesKept /\ [AllNext]_allVars => TypesKept'
    <2> SUFFICES ASSUME TypesKept, [AllNext]_allVars PROVE TypesKept'
      OBVIOUS
    <2>1. program' = program
      BY ProgramStays
    <2>2. TurnInv' /\ TriangleInv' /\ CounterTypes' /\ EditorInv'
      BY TurnNext, TrianglesStay, CounterTypesStay, EditorsStay DEF TypesKept
    <2> QED BY <2>1, <2>2 DEF TypesKept, Counters
  <1> QED BY <1>1, <1>2, PTL DEF AllSpec

(* Every variable of every program keeps its type.                         *)
THEOREM AllTypesCorrect == AllSpec => []AllTypesOK
  <1>1. TypesKept /\ ShellKept /\ MotdKept /\ OutputsKept => AllTypesOK
    <2> SUFFICES ASSUME TypesKept, ShellKept, MotdKept, OutputsKept PROVE AllTypesOK
      OBVIOUS
    <2>1. program = "ex06 pingpong" => Spinning!TypeOK
      BY DEF TypesKept, TurnInv, Course!SpinInv, Course!Spinning!TypeOK, Spinning!TypeOK,
             Course!Spinning!Player, Spinning!Player
    <2>2. program = "ex07 pingpong" => Turning!TypeOK
      BY DEF TypesKept, TurnInv, Course!TokenInv, Course!Turning!TypeOK, Turning!TypeOK,
             Course!Turning!Player, Turning!Player
    <2>3. program = "hw3 edit" => Plain!TypeOK
      BY DEF TypesKept, EditorInv, Desk!Plain!TypeOK, Plain!TypeOK, Desk!Plain!Buffer,
             Plain!Buffer, Desk!Plain!Cell, Plain!Cell, Desk!Plain!UNDO_LIMIT,
             Plain!UNDO_LIMIT, Desk!Plain!Terminated, Plain!Terminated
    <2>4. program = "hw4 edit" => Shared!TypeOK
      BY DEF TypesKept, EditorInv, Desk!SharedInv, Desk!Shared!TypeOK, Shared!TypeOK,
             Desk!Shared!Buffer, Shared!Buffer, Desk!Shared!Cell, Shared!Cell,
             Desk!Shared!UNDO_LIMIT, Shared!UNDO_LIMIT, Desk!Shared!Command,
             Shared!Command, Desk!Shared!Holding, Shared!Holding
    <2>5. program = "stash" => Stash!TypeOK
      BY DEF ShellKept, Course!ShellInv, Course!Stash!TypeOK, Stash!TypeOK,
             Course!Stash!Line, Stash!Line, Course!Stash!Root, Stash!Root
    <2>6. program = "motd" => Messages!TypeOK
      BY DEF MotdKept, Course!MotdInv, Course!Messages!TypeOK, Messages!TypeOK,
             Course!Messages!HISTORY_MAX, Messages!HISTORY_MAX, Course!Messages!Request,
             Messages!Request, Course!Messages!Error, Messages!Error
    <2>7. program \in Counters => TypeOK
      BY CountersTyped DEF TypesKept
    <2>8. CASE program \in Counters
      BY <2>7, <2>8 DEF AllTypesOK, Counters
    <2>9. CASE program \in {"ex06 pingpong", "ex07 pingpong", "hw3 edit", "hw4 edit", "stash", "motd"}
      BY <2>1, <2>2, <2>3, <2>4, <2>5, <2>6, <2>9 DEF AllTypesOK
    <2>10. CASE program \in {"edit2", "floppyDir", "top", "HTTPclient", "exclude", "linked"}
      BY <2>10 DEF OutputsKept, AllTypesOK
    <2>11. CASE program \in {"array", "sort", "ex03 pipe", "children", "interleaving"}
      BY <2>11 DEF OutputsKept, AllTypesOK
    <2> QED BY <2>8, <2>9, <2>10, <2>11 DEF TypesKept
  <1> QED BY <1>1, TypesAreKept, ShellIsKept, MotdIsKept, OutputsAreKept, PTL
=============================================================================
