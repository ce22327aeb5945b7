---------------------------- MODULE PingPongSpin ----------------------------
(* ex06's pingpong.c: two threads take turns by a shared variable they     *)
(* spin on.  The variable is an ordinary int read and written without any  *)
(* synchronisation, so a build may read it once and then spin on what it   *)
(* has in a register; rereads says which build runs.                       *)
EXTENDS Naturals

CONSTANT ITERATIONS

VARIABLES
    rereads,    \* whether the loop reads nextTurn at every lap
    nextTurn,   \* the thread that goes next
    at,         \* per thread: "test", "set", "spinning" or "end"
    moves       \* per thread: the loop counter i

vars == <<rereads, nextTurn, at, moves>>

Player == {"ping", "pong"}
Other(t) == IF t = "ping" THEN "pong" ELSE "ping"

Init ==
    /\ rereads \in BOOLEAN
    /\ nextTurn = "ping"
    /\ at = [t \in Player |-> "test"]
    /\ moves = [t \in Player |-> 0]

(* while (nextTurn != mine) ;                                              *)
TestOnce(t) ==                          \* mutant: if instead of while
    /\ at[t] = "test"
    /\ at' = [at EXCEPT ![t] = "set"]
    /\ UNCHANGED <<rereads, nextTurn, moves>>
Test(t) ==
    /\ at[t] = "test"
    /\ \/ nextTurn = t /\ at' = [at EXCEPT ![t] = "set"]
       \/ nextTurn # t /\ ~rereads /\ at' = [at EXCEPT ![t] = "spinning"]
       \/ nextTurn # t /\ rereads /\ UNCHANGED at
    /\ UNCHANGED <<rereads, nextTurn, moves>>

(* The register never changes.                                             *)
Spin(t) == at[t] = "spinning" /\ UNCHANGED vars

(* nextTurn = other; and the end of the loop's body.                       *)
Set(t) ==
    /\ at[t] = "set"
    /\ nextTurn' = Other(t)
    /\ moves' = [moves EXCEPT ![t] = @ + 1]
    /\ at' = [at EXCEPT ![t] = IF moves[t] + 1 < ITERATIONS THEN "test" ELSE "end"]
    /\ UNCHANGED rereads

Routine(t) == Test(t) \/ Spin(t) \/ Set(t)

(* main has joined both.                                                   *)
Ended == \A t \in Player : at[t] = "end"

Next == (\E t \in Player : Routine(t)) \/ (Ended /\ UNCHANGED vars)

-----------------------------------------------------------------------------
TypeOK ==
    /\ rereads \in BOOLEAN
    /\ nextTurn \in Player
    /\ at \in [Player -> {"test", "set", "spinning", "end"}]
    /\ moves \in [Player -> 0 .. ITERATIONS]

(* Neither thread moves twice in a row or out of its turn, in any build.   *)
Turns == INSTANCE Alternation WITH next <- nextTurn
=============================================================================
