--------------------------- MODULE TrianglesPipe ---------------------------
(***************************************************************************)
(* assignments/hw2/triangles.c: the parent forks workers, each counts the  *)
(* triangles whose first place is its own, and all write their counts to   *)
(* one pipe.  A worker reads only its copy of the list, so its count and   *)
(* its write (4 bytes, with the pipe locked) are one step.                 *)
(***************************************************************************)
EXTENDS GrowingList

CONSTANT workers        \* how many, at least one (the test of argv)

VARIABLES
    phase,      \* what the parent is doing
    child,      \* what each child is doing
    pipe,       \* the counts in the pipe
    heard,      \* how many counts the parent has read, then how many it reaped
    totalTriangles,
    reported    \* what the parent printed

parent == <<phase, heard, totalTriangles, reported>>
vars == <<vList, vCap, phase, child, pipe, heard, totalTriangles, reported>>

Worker == 0 .. workers - 1

TypeOK ==
    /\ vList \in Seq(Value) /\ vCap \in Nat
    /\ phase \in {"reading", "forking", "adding", "reaping", "done"}
    /\ child \in [Worker -> {"none", "counting", "exited", "reaped"}]
    /\ pipe \in Seq(Nat)
    /\ heard \in 0 .. workers
    /\ totalTriangles \in Nat
    /\ reported \in Nat \cup {None}

Init ==
    /\ InitList
    /\ phase = "reading"
    /\ child = [w \in Worker |-> "none"]
    /\ pipe = <<>>
    /\ heard = 0
    /\ totalTriangles = 0
    /\ reported = None

ReadList ==
    /\ phase = "reading"
    /\ \/ /\ \E v \in Value : ReadValue(v)
          /\ UNCHANGED phase
       \/ /\ phase' = "forking"
          /\ UNCHANGED <<vList, vCap>>
    /\ UNCHANGED <<child, pipe, heard, totalTriangles, reported>>

Fork ==
    /\ phase = "forking"
    /\ \E w \in Worker :
          /\ child[w] = "none"
          /\ \A u \in Worker : u < w => child[u] # "none"
          /\ child' = [child EXCEPT ![w] = "counting"]
          /\ phase' = IF w = workers - 1 THEN "adding" ELSE "forking"
    /\ UNCHANGED <<vList, vCap, pipe, heard, totalTriangles, reported>>

First(w) == {i \in 0 .. vCount - 3 : i % workers = w}

(* The places i < j < k that worker w looks at, and finds a triangle in.   *)
Found(w) ==
    {t \in First(w) \X (1 .. vCount - 2) \X (2 .. vCount - 1) :
        t[1] < t[2] /\ t[2] < t[3] /\ CheckTriangle(At(t[1]), At(t[2]), At(t[3]))}

(* findTriangles, then exit.                                               *)
FindTriangles(w) ==
    /\ child[w] = "counting"
    /\ pipe' = Append(pipe, Cardinality(Found(w)))
    /\ child' = [child EXCEPT ![w] = "exited"]
    /\ UNCHANGED <<vList, vCap, parent>>

LastHeard == heard + 1 = workers

NotReset == heard + 1                   \* mutant: the second loop goes on with i
NextHeard == IF LastHeard THEN 0 ELSE heard + 1

(* The parent reads a count; it blocks while the pipe is empty.            *)
AddCount ==
    /\ phase = "adding"
    /\ pipe # <<>>
    /\ totalTriangles' = totalTriangles + Head(pipe)
    /\ pipe' = Tail(pipe)
    /\ heard' = NextHeard
    /\ phase' = IF LastHeard THEN "reaping" ELSE "adding"
    /\ UNCHANGED <<vList, vCap, child, reported>>

(* wait, and after the last one the printf.                                *)
Reap(w) ==
    /\ phase = "reaping"
    /\ child[w] = "exited"
    /\ child' = [child EXCEPT ![w] = "reaped"]
    /\ heard' = heard + 1
    /\ phase' = IF LastHeard THEN "done" ELSE "reaping"
    /\ reported' = IF LastHeard THEN totalTriangles ELSE None
    /\ UNCHANGED <<vList, vCap, pipe, totalTriangles>>

Ended == phase = "done" /\ UNCHANGED vars

Main == ReadList \/ Fork \/ AddCount \/ \E w \in Worker : Reap(w)

Next == Ended \/ Main \/ \E w \in Worker : FindTriangles(w)

(* Input ends, and every process that can run does.                        *)
Spec ==
    /\ Init
    /\ [][Next]_vars
    /\ WF_vars(Main)
    /\ \A w \in Worker : WF_vars(FindTriangles(w))

-----------------------------------------------------------------------------
(* Properties                                                              *)

(* The triangles the counts in the pipe stand for: so many for each count. *)
InPipe == UNION {{k} \X (1 .. pipe[k]) : k \in 1 .. Len(pipe)}

(* No count is lost or added twice: what the parent has added and what is  *)
(* in the pipe are the triangles of the workers that have written.         *)
CountsAddUp ==
    totalTriangles + Cardinality(InPipe)
      = Cardinality({t \in TC!Triangles(vList) :
            child[(t[1] - 1) % workers] \in {"exited", "reaped"}})

(* The program reports the number of triangles in its input.               *)
Abstract == INSTANCE TriangleCount WITH list <- vList
ImplementsTriangleCount == Abstract!CountSpec
=============================================================================
