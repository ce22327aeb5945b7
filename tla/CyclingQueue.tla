---------------------------- MODULE CyclingQueue ----------------------------
(* What exercises/ex08 promises: nodes are taken from the head of a queue, *)
(* belong to one thread, and come back to its tail.                        *)
EXTENDS Integers, Sequences

CONSTANTS Thread, LIST_LEN, NULL

VARIABLES queue, held

Take(t) ==
    /\ held[t] = NULL /\ held'[t] # NULL
    /\ queue # <<>>
    /\ held' = [held EXCEPT ![t] = Head(queue)]
    /\ queue' = Tail(queue)

PutBack(t) ==
    /\ held[t] # NULL
    /\ queue' = Append(queue, held[t])
    /\ held' = [held EXCEPT ![t] = NULL]

QueueSpec ==
    /\ queue = [i \in 1 .. LIST_LEN |-> i] /\ held = [t \in Thread |-> NULL]
    /\ [][\E t \in Thread : Take(t) \/ PutBack(t)]_<<queue, held>>
=============================================================================
