---------------------------- MODULE Interleaving ----------------------------
(* exercises/ex05/interleaving.c: three threads write two letters each,    *)
(* main joins them and ends the row.                                       *)
EXTENDS Integers, Sequences

CONSTANT Rounds     \* 100000 in the code

VARIABLES
    round,
    main,       \* how many threads it has created, or 3 and how many it has joined
    written,    \* per thread: how many of its letters
    row,        \* the row that is being written
    rows        \* those that are complete

vars == <<round, main, written, row, rows>>

Letters == <<<<"a", "b">>, <<"c", "d">>, <<"e", "f">>>>
Writer == DOMAIN Letters

Init ==
    /\ round = 0 /\ main = 0
    /\ written = [t \in Writer |-> 0]
    /\ row = <<>> /\ rows = {}

Create ==
    /\ round < Rounds /\ main < 3
    /\ main' = main + 1
    /\ UNCHANGED <<round, written, row, rows>>

(* fail: exit ends the threads, too.                                       *)
CannotCreate ==
    /\ round < Rounds /\ main < 3
    /\ round' = Rounds
    /\ UNCHANGED <<main, written, row, rows>>

Write(t) ==
    /\ round < Rounds /\ t <= main /\ written[t] < 2
    /\ row' = Append(row, Letters[t][written[t] + 1])
    /\ written' = [written EXCEPT ![t] = @ + 1]
    /\ UNCHANGED <<round, main, rows>>

JoinUnwaited ==                 \* mutant: pthread_detach instead of pthread_join
    /\ main \in 3 .. 5
    /\ main' = main + 1
    /\ UNCHANGED <<round, written, row, rows>>
Join ==
    /\ main \in 3 .. 5
    /\ written[main - 2] = 2
    /\ main' = main + 1
    /\ UNCHANGED <<round, written, row, rows>>

EndRow ==
    /\ main = 6
    /\ rows' = rows \cup {row} /\ row' = <<>>
    /\ main' = 0 /\ round' = round + 1
    /\ written' = [t \in Writer |-> 0]

Step == Create \/ CannotCreate \/ Join \/ EndRow \/ \E t \in Writer : Write(t)

Ended == round = Rounds

Next == Step \/ (Ended /\ UNCHANGED vars)

Spec == Init /\ [][Next]_vars

-----------------------------------------------------------------------------
TypeOK ==
    /\ round \in 0 .. Rounds /\ main \in 0 .. 6
    /\ written \in [Writer -> 0 .. 2]

(* A row holds each letter once, a before b, c before d, e before f.       *)
RowsAreInterleavings ==
    \A r \in rows :
        /\ Len(r) = 6
        /\ \A t \in Writer : \E i, j \in 1 .. 6 :
              i < j /\ r[i] = Letters[t][1] /\ r[j] = Letters[t][2]
=============================================================================
