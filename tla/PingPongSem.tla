---------------------------- MODULE PingPongSem ----------------------------
(* ex07's pingpong.c: the same with a semaphore per thread.                *)
EXTENDS Naturals

CONSTANT ITERATIONS

VARIABLES
    sem,    \* pingNext and pongNext
    at,     \* per thread: "sem_wait", "sem_post" or "end"
    moves   \* per thread: the loop counter i

vars == <<sem, at, moves>>

Player == {"ping", "pong"}
Other(t) == IF t = "ping" THEN "pong" ELSE "ping"

InitBoth ==                             \* mutant: both may go first
    /\ sem = [t \in Player |-> 1]
    /\ at = [t \in Player |-> "sem_wait"]
    /\ moves = [t \in Player |-> 0]
Init ==
    /\ sem = [t \in Player |-> IF t = "ping" THEN 1 ELSE 0]
    /\ at = [t \in Player |-> "sem_wait"]
    /\ moves = [t \in Player |-> 0]

Wait(t) ==
    /\ at[t] = "sem_wait"
    /\ sem[t] > 0
    /\ sem' = [sem EXCEPT ![t] = @ - 1]
    /\ at' = [at EXCEPT ![t] = "sem_post"]
    /\ UNCHANGED moves

(* sem_post and the end of the loop's body.                                *)
Post(t) ==
    /\ at[t] = "sem_post"
    /\ sem' = [sem EXCEPT ![Other(t)] = @ + 1]
    /\ moves' = [moves EXCEPT ![t] = @ + 1]
    /\ at' = [at EXCEPT ![t] = IF moves[t] + 1 < ITERATIONS THEN "sem_wait" ELSE "end"]

Routine(t) == Wait(t) \/ Post(t)

(* main has joined both and destroys the semaphores.                       *)
Ended == \A t \in Player : at[t] = "end"

Next == (\E t \in Player : Routine(t)) \/ (Ended /\ UNCHANGED vars)

-----------------------------------------------------------------------------
TypeOK ==
    /\ sem \in [Player -> 0 .. 1]
    /\ at \in [Player -> {"sem_wait", "sem_post", "end"}]
    /\ moves \in [Player -> 0 .. ITERATIONS]

(* Whose turn it is: the one token is in a semaphore or in a thread's hand. *)
turn == CHOOSE t \in Player : sem[t] > 0 \/ at[t] = "sem_post"

Turns == INSTANCE Alternation WITH next <- turn
=============================================================================
