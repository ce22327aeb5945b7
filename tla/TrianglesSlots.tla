--------------------------- MODULE TrianglesSlots ---------------------------
(***************************************************************************)
(* assignments/hw3/triangles-thread.c and hw6/triangles.cu: each worker    *)
(* stores its count in a slot of its own, and main adds the slots up.  The *)
(* workers only read the list and only write their slots, so each is one   *)
(* step.                                                                   *)
(***************************************************************************)
EXTENDS GrowingList

CONSTANTS
    workers,    \* at least one; blocksPerGrid makes it at least vCount on the device
    OnDevice    \* the CUDA kernel (a worker per place), or threads?

VARIABLES
    phase,      \* what main is doing
    thread,     \* what each worker is doing
    localCount, \* tArgs[w].localCount, or results[w]
    added,      \* the next slot main adds
    totalTriangles,
    reported

vars == <<vList, vCap, phase, thread, localCount, added, totalTriangles, reported>>

Worker == 0 .. workers - 1

TypeOK ==
    /\ vList \in Seq(Value) /\ vCap \in Nat
    /\ phase \in {"reading", "creating", "joining", "done"}
    /\ thread \in [Worker -> {"none", "running", "ended"}]
    /\ localCount \in [Worker -> Nat]
    /\ added \in 0 .. workers
    /\ totalTriangles \in Nat
    /\ reported \in Nat \cup {None}

Init ==
    /\ InitList
    /\ phase = "reading"
    /\ thread = [w \in Worker |-> "none"]
    /\ localCount = [w \in Worker |-> 0]
    /\ added = 0
    /\ totalTriangles = 0
    /\ reported = None

ReadList ==
    /\ phase = "reading"
    /\ \/ /\ \E v \in Value : ReadValue(v)
          /\ UNCHANGED phase
       \/ /\ phase' = "creating"
          /\ UNCHANGED <<vList, vCap>>
    /\ UNCHANGED <<thread, localCount, added, totalTriangles, reported>>

(* pthread_create, one thread after the other.                             *)
Create ==
    /\ phase = "creating" /\ ~OnDevice
    /\ \E w \in Worker :
          /\ thread[w] = "none"
          /\ \A u \in Worker : u < w => thread[u] # "none"
          /\ thread' = [thread EXCEPT ![w] = "running"]
          /\ phase' = IF w = workers - 1 THEN "joining" ELSE "creating"
    /\ UNCHANGED <<vList, vCap, localCount, added, totalTriangles, reported>>

(* The kernel launch: all threads of all blocks, in any order.             *)
Launch ==
    /\ phase = "creating" /\ OnDevice
    /\ thread' = [w \in Worker |-> "running"]
    /\ phase' = "joining"
    /\ UNCHANGED <<vList, vCap, localCount, added, totalTriangles, reported>>

Place == 0 .. vCount - 1

ShareRepeated(w) ==                     \* mutant: i++ for i += workers, idx from 0
    {t \in Place \X Place \X Place : IF OnDevice THEN t[3] <= w ELSE t[1] >= w}
(* The triples of worker w: those whose first place is its own, modulo     *)
(* workers, or those whose last place is.                                  *)
Share(w) ==
    {t \in Place \X Place \X Place : IF OnDevice THEN t[3] = w ELSE t[1] % workers = w}

Found(w) ==
    {t \in Share(w) :
        t[1] < t[2] /\ t[2] < t[3] /\ CheckTriangle(At(t[1]), At(t[2]), At(t[3]))}

(* findTriangles, or checkValid, whose threads beyond the list store none. *)
FindTriangles(w) ==
    /\ thread[w] = "running"
    /\ thread' = [thread EXCEPT ![w] = "ended"]
    /\ localCount' = IF OnDevice /\ w >= vCount THEN localCount
                     ELSE [localCount EXCEPT ![w] = Cardinality(Found(w))]
    /\ UNCHANGED <<vList, vCap, phase, added, totalTriangles, reported>>

Slots == IF OnDevice THEN vCount ELSE workers

NotJoined(w) == TRUE                    \* mutant: adds without a join
(* pthread_join waits for one thread; the copy of the results waits for    *)
(* the whole kernel.                                                       *)
Joinable(w) ==
    IF OnDevice THEN \A u \in Worker : thread[u] = "ended" ELSE thread[w] = "ended"

AddSlot ==
    /\ phase = "joining"
    /\ added < Slots
    /\ Joinable(added)
    /\ totalTriangles' = totalTriangles + localCount[added]
    /\ added' = added + 1
    /\ UNCHANGED <<vList, vCap, phase, thread, localCount, reported>>

AllAdded == added = Slots

Report ==
    /\ phase = "joining"
    /\ AllAdded
    /\ phase' = "done"
    /\ reported' = totalTriangles
    /\ UNCHANGED <<vList, vCap, thread, localCount, added, totalTriangles>>

Ended == phase = "done" /\ UNCHANGED vars

Main == ReadList \/ Create \/ Launch \/ AddSlot \/ Report

Next == Ended \/ Main \/ \E w \in Worker : FindTriangles(w)

(* Input ends, and every thread that can run does.                         *)
Spec ==
    /\ Init
    /\ [][Next]_vars
    /\ WF_vars(Main)
    /\ \A w \in Worker : WF_vars(FindTriangles(w))

-----------------------------------------------------------------------------
(* Properties                                                              *)

(* The workers divide the triangles among them: at the end every one has   *)
(* been counted by exactly one of them, and main has added it.             *)
Abstract == INSTANCE TriangleCount WITH list <- vList
ImplementsTriangleCount == Abstract!CountSpec

(* What main has added is what the workers it has joined have found: it    *)
(* reads no slot before its worker is done.                                *)
AddedIsFound ==
    totalTriangles =
        Cardinality({t \in TC!Triangles(vList) :
            (IF OnDevice THEN t[3] - 1 ELSE (t[1] - 1) % workers) < added})
=============================================================================
