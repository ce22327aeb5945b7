---------------------------- MODULE TrianglesSem ----------------------------
(***************************************************************************)
(* assignments/hw4/triangles-sem.c: workers take the next index of a fixed *)
(* array under two semaphores, count the triangles that end there into one *)
(* shared count, and stop when there is no work left.                      *)
(***************************************************************************)
EXTENDS Integers, Sequences, FiniteSets

CONSTANTS
    Value,
    MaxLength,  \* bound: the longest input explored
    MAX_VALUES,
    Worker,
    None

VARIABLES
    phase,          \* what main is doing
    vList,          \* the values read; the array holds zeros beyond them
    nextWorkIndex,
    workAvailable,  \* the semaphore main fills
    posted,         \* how many times main has
    workMutex,      \* the other one: 1 when free
    global_count,
    reported,       \* what main printed
    at,             \* where each worker is
    index,          \* its local variables: the index it got,
    left            \* and the triangles it has yet to count there

vars == <<phase, vList, nextWorkIndex, workAvailable, posted, workMutex,
          global_count, reported, at, index, left>>

vCount == Len(vList)

Place == {
    "getWork",      \* at sem_wait( &workAvailable )
    "looking",      \* has a token; nextWorkIndex >= vCount ?
    "locking",      \* at sem_wait( &workMutex )
    "taking",       \* nextWorkIndex++
    "counting",
    "exited"}

NoIndex == -1

TypeOK ==
    /\ phase \in {"reading", "posting", "joining", "done", "failed"}
    /\ vList \in Seq(Value)
    /\ nextWorkIndex \in Nat
    /\ workAvailable \in Nat
    /\ posted \in 0 .. Cardinality(Worker)
    /\ workMutex \in {0, 1}
    /\ global_count \in Nat
    /\ reported \in Nat \cup {None}
    /\ at \in [Worker -> Place]
    /\ index \in [Worker -> Nat \cup {NoIndex}]
    /\ left \in [Worker -> Nat]

Init ==
    /\ phase = "reading"
    /\ vList = <<>>
    /\ nextWorkIndex = 0
    /\ workAvailable = 0
    /\ posted = 0
    /\ workMutex = 1
    /\ global_count = 0
    /\ reported = None
    /\ at = [w \in Worker |-> "getWork"]
    /\ index = [w \in Worker |-> NoIndex]
    /\ left = [w \in Worker |-> 0]

CheckTriangle(a, b, c) == a + b > c /\ a + c > b /\ b + c > a

(* What the array holds at an index.                                       *)
At(i) == IF i < vCount THEN vList[i + 1] ELSE 0

(* The triangles with the last place at an index.                          *)
EndingAt(i) ==
    {jk \in (0 .. i - 1) \X (0 .. i - 1) :
        jk[1] < jk[2] /\ CheckTriangle(At(jk[1]), At(jk[2]), At(i))}

TooMany(n) == n > MAX_VALUES

(* readList: one more value, or none left; main then wakes the workers.    *)
ReadList ==
    /\ phase = "reading"
    /\ \/ /\ vCount < MaxLength
          /\ IF TooMany(vCount)
               THEN phase' = "failed" /\ UNCHANGED vList
               ELSE (\E v \in Value : vList' = Append(vList, v)) /\ UNCHANGED phase
       \/ phase' = "posting" /\ UNCHANGED vList
    /\ UNCHANGED <<reported, nextWorkIndex, workAvailable, posted, workMutex, global_count,
                   at, index, left>>

LastPost == posted + 1 = Cardinality(Worker)

PostWork ==
    /\ phase = "posting"
    /\ workAvailable' = workAvailable + 1
    /\ posted' = posted + 1
    /\ phase' = IF LastPost THEN "joining" ELSE "posting"
    /\ UNCHANGED <<reported, vList, nextWorkIndex, workMutex, global_count, at, index, left>>

JoinAll ==
    /\ phase = "joining"
    /\ \A w \in Worker : at[w] = "exited"
    /\ phase' = "done"
    /\ reported' = global_count
    /\ UNCHANGED <<vList, nextWorkIndex, workAvailable, posted, workMutex,
                   global_count, at, index, left>>

WaitForWork(w) ==
    /\ at[w] = "getWork"
    /\ workAvailable > 0
    /\ workAvailable' = workAvailable - 1
    /\ at' = [at EXCEPT ![w] = "looking"]
    /\ UNCHANGED <<reported, phase, vList, nextWorkIndex, posted, workMutex, global_count,
                   index, left>>

NoWork == nextWorkIndex >= vCount

LookSpin(w) ==                          \* mutant: while instead of if
    /\ at[w] = "looking"
    /\ at' = [at EXCEPT ![w] = IF NoWork THEN "looking" ELSE "locking"]
    /\ UNCHANGED <<reported, phase, vList, nextWorkIndex, workAvailable, posted, workMutex,
                   global_count, index, left>>

(* The test before the lock; without work the worker exits with its token. *)
Look(w) ==
    /\ at[w] = "looking"
    /\ at' = [at EXCEPT ![w] = IF NoWork THEN "exited" ELSE "locking"]
    /\ UNCHANGED <<reported, phase, vList, nextWorkIndex, workAvailable, posted, workMutex,
                   global_count, index, left>>

MutexIgnored == TRUE                    \* mutant: sem_init( &workMutex, 0, 2 )
MutexFree == workMutex = 1

LockIndex(w) ==
    /\ at[w] = "locking"
    /\ MutexFree
    /\ workMutex' = 0
    /\ at' = [at EXCEPT ![w] = "taking"]
    /\ index' = [index EXCEPT ![w] = nextWorkIndex]     \* read, not yet written back
    /\ UNCHANGED <<reported, phase, vList, nextWorkIndex, workAvailable, posted,
                   global_count, left>>

(* nextWorkIndex is written, and the semaphore posted.                     *)
TakeIndex(w) ==
    /\ at[w] = "taking"
    /\ nextWorkIndex' = index[w] + 1
    /\ workMutex' = 1
    /\ left' = [left EXCEPT ![w] = Cardinality(EndingAt(index[w]))]
    /\ at' = [at EXCEPT ![w] = "counting"]
    /\ UNCHANGED <<reported, phase, vList, workAvailable, posted, global_count, index>>

(* global_count++ between the calls on countMutex.                         *)
CountOne(w) ==
    /\ at[w] = "counting"
    /\ left[w] > 0
    /\ global_count' = global_count + 1
    /\ left' = [left EXCEPT ![w] = @ - 1]
    /\ UNCHANGED <<reported, phase, vList, nextWorkIndex, workAvailable, posted, workMutex,
                   at, index>>

Reposted == workAvailable               \* mutant: the token is not put back
PutBack == workAvailable + 1

(* The token goes to whoever waits, this worker among them.                *)
FinishIndex(w) ==
    /\ at[w] = "counting"
    /\ left[w] = 0
    /\ workAvailable' = PutBack
    /\ at' = [at EXCEPT ![w] = "getWork"]
    /\ index' = [index EXCEPT ![w] = NoIndex]
    /\ UNCHANGED <<reported, phase, vList, nextWorkIndex, posted, workMutex, global_count, left>>

Ended == phase \in {"done", "failed"} /\ UNCHANGED vars

WorkerStep(w) ==
    \/ WaitForWork(w) \/ Look(w) \/ LockIndex(w) \/ TakeIndex(w)
    \/ CountOne(w) \/ FinishIndex(w)

Main == ReadList \/ PostWork \/ JoinAll

(* exit in readList ends the workers too.                                  *)
Next == Ended \/ Main \/ (phase # "failed" /\ \E w \in Worker : WorkerStep(w))

(* Input ends, and whoever can run does; a semaphore may be taken by       *)
(* others again and again, so its waiters are promised nothing more.       *)
Spec ==
    /\ Init
    /\ [][Next]_vars
    /\ WF_vars(Main)
    /\ \A w \in Worker : WF_vars(phase # "failed" /\ WorkerStep(w))

-----------------------------------------------------------------------------
(* Properties                                                              *)

Busy == {w \in Worker : at[w] \in {"taking", "counting"}}
Holding == {w \in Worker : at[w] \in {"looking", "locking", "taking", "counting"}}
Exited == {w \in Worker : at[w] = "exited"}

(* Tokens are neither lost nor made: every post of main is in the          *)
(* semaphore, with a worker, or was kept by one that exited.               *)
TokensConserved ==
    workAvailable + Cardinality(Holding) + Cardinality(Exited) = posted

(* nextWorkIndex++ is protected: no two workers have the same index, and   *)
(* none has one that is still to be given out.                             *)
IndicesDistinct ==
    \A w, u \in Busy :
        /\ w # u => index[w] # index[u]
        /\ at[w] = "counting" => index[w] < nextWorkIndex

(* "Return the index, b, of the value we're supposed to use" (lines 70-71) *)
IndexIsOfAValue == \A w \in Busy : index[w] < vCount

(* The program prints the number of triangles in its input.                *)
Abstract == INSTANCE TriangleCount WITH list <- vList
ImplementsTriangleCount == Abstract!CountSpec

(* What the workers have yet to count: so many triangles for each.         *)
Uncounted == UNION {{w} \X (1 .. left[w]) : w \in Worker}

(* The shared count and what workers have yet to add to it are all the     *)
(* triangles that end at an index given out: none is lost or counted twice.*)
CountIsExact ==
    global_count + Cardinality(Uncounted)
      = Cardinality({t \in Abstract!Triangles(vList) : t[3] <= nextWorkIndex})
=============================================================================
