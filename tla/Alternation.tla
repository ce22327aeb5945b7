---------------------------- MODULE Alternation ----------------------------
(* Two players that move in turn, ping first, ITERATIONS times each: what  *)
(* the ping-pong programs of ex06 and ex07 promise.                        *)
EXTENDS Naturals

CONSTANT ITERATIONS

VARIABLES
    next,   \* the player that moves next
    moves   \* how many moves each has made

Player == {"ping", "pong"}

Other(p) == IF p = "ping" THEN "pong" ELSE "ping"

Init == next = "ping" /\ moves = [p \in Player |-> 0]

Move(p) ==
    /\ next = p
    /\ moves[p] < ITERATIONS
    /\ moves' = [moves EXCEPT ![p] = @ + 1]
    /\ next' = Other(p)

AlternationSpec == Init /\ [][\E p \in Player : Move(p)]_<<next, moves>>
=============================================================================
