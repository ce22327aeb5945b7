---------------------------- MODULE HoldAndWait ----------------------------
(***************************************************************************)
(* Threads that lock a few things one after the other, use them, unlock    *)
(* them, rest, and start over until they are told to stop.  This is what   *)
(* the chefs of assignments/hw5/kitchen.c, ordered.c and global.c do, and  *)
(* the threads of exercises/ex09/deadlock.c; the programs differ in the    *)
(* things and in the order (module MCHoldAndWait).                         *)
(***************************************************************************)
EXTENDS Integers, Sequences, FiniteSets

CONSTANTS
    Chef,       \* the threads
    Lock,       \* the mutexes, or the semaphores with one token
    Plan,       \* Plan[c]: the locks c takes, in the order of its calls
    Reversed,   \* the threads that unlock the last one first (not ex09)
    Programs,   \* each program's threads; one of the programs runs
    None        \* nobody

ASSUME PlanAssumption ==
    /\ Plan \in [Chef -> Seq(Lock)]
    /\ \A c \in Chef :
          /\ Len(Plan[c]) > 0
          /\ \A i, j \in 1 .. Len(Plan[c]) : Plan[c][i] = Plan[c][j] => i = j
    /\ Reversed \subseteq Chef
    /\ Programs \subseteq SUBSET Chef
    /\ None \notin Chef

VARIABLES
    stage,      \* what each chef is doing
    count,      \* calls of lock (of unlock, when cooking is over) c has made
    holder,     \* who holds each lock
    running     \* the flag main clears

vars == <<stage, count, holder, running>>

Stage == {"resting", "locking", "cooking", "unlocking", "exited"}

TypeOK ==
    /\ stage \in [Chef -> Stage]
    /\ count \in [Chef -> Nat]
    /\ \A c \in Chef : count[c] < Len(Plan[c])
    /\ holder \in [Lock -> Chef \cup {None}]
    /\ running \in BOOLEAN

Init ==
    /\ \E p \in Programs : stage = [c \in Chef |-> IF c \in p THEN "resting" ELSE "exited"]
    /\ count = [c \in Chef |-> 0]
    /\ holder = [l \in Lock |-> None]
    /\ running = TRUE

(* The lock c takes next, and the i-th lock it gives back.                 *)
Wanted(c) == Plan[c][count[c] + 1]
FirstOnly(c, i) == Plan[c][1]           \* mutant: unlocks one lock again and again
GivenBack(c, i) == IF c \in Reversed THEN Plan[c][Len(Plan[c]) + 1 - i] ELSE Plan[c][i]

NextDishAnyway(c) ==                    \* mutant: while ( true )
    /\ stage[c] = "resting"
    /\ stage' = [stage EXCEPT ![c] = "locking"]
    /\ UNCHANGED <<count, holder, running>>

(* The test of `running' at the head of the loop.                          *)
NextDish(c) ==
    /\ stage[c] = "resting"
    /\ stage' = [stage EXCEPT ![c] = IF running THEN "locking" ELSE "exited"]
    /\ UNCHANGED <<count, holder, running>>

LastSkipped(c) == count[c] + 1 >= Len(Plan[c]) - 1  \* mutant: one lock too few
LastMissed(c) == count[c] + 1 > Len(Plan[c])        \* mutant: one lock too many

(* Is this lock the last one the chef needs?                               *)
Last(c) == count[c] + 1 = Len(Plan[c])

Free(l) == holder[l] = None

Acquire(c) ==
    /\ stage[c] = "locking"
    /\ Free(Wanted(c))
    /\ holder' = [holder EXCEPT ![Wanted(c)] = c]
    /\ \/ /\ Last(c)
          /\ stage' = [stage EXCEPT ![c] = "cooking"]
          /\ count' = [count EXCEPT ![c] = 0]
       \/ /\ ~Last(c)
          /\ count' = [count EXCEPT ![c] = @ + 1]
          /\ UNCHANGED stage
    /\ UNCHANGED running

(* The first unlock ends the cooking, the last one begins the rest.        *)
Release(c) ==
    /\ stage[c] \in {"cooking", "unlocking"}
    /\ holder' = [holder EXCEPT ![GivenBack(c, count[c] + 1)] = None]
    /\ \/ /\ count[c] + 1 = Len(Plan[c])
          /\ stage' = [stage EXCEPT ![c] = "resting"]
          /\ count' = [count EXCEPT ![c] = 0]
       \/ /\ count[c] + 1 < Len(Plan[c])
          /\ stage' = [stage EXCEPT ![c] = "unlocking"]
          /\ count' = [count EXCEPT ![c] = @ + 1]
    /\ UNCHANGED running

(* main's sleep is over.                                                   *)
AskToStop ==
    /\ running
    /\ running' = FALSE
    /\ UNCHANGED <<stage, count, holder>>

AllExited == \A c \in Chef : stage[c] = "exited"

(* main has joined every chef.                                             *)
Joined == AllExited /\ UNCHANGED vars

Step(c) == NextDish(c) \/ Acquire(c) \/ Release(c)

Next == AskToStop \/ Joined \/ \E c \in Chef : Step(c)

(* Sleeps end and a thread that can run does; a mutex makes no promise to  *)
(* a waiting thread while others keep taking it.                           *)
Fairness == WF_vars(AskToStop) /\ \A c \in Chef : WF_vars(Step(c))

Spec == Init /\ [][Next]_vars
FairSpec == Spec /\ Fairness

-----------------------------------------------------------------------------
(* Properties                                                              *)

Needs(c) == {Plan[c][i] : i \in 1 .. Len(Plan[c])}

(* The locks c has taken and not yet given back.                           *)
Held(c) ==
    CASE stage[c] = "locking" -> {Plan[c][i] : i \in 1 .. count[c]}
      [] stage[c] \in {"cooking", "unlocking"} ->
            {GivenBack(c, i) : i \in count[c] + 1 .. Len(Plan[c])}
      [] OTHER -> {}

(* Every lock is with the chef that took it and has not given it back, and *)
(* with nobody otherwise: no call unlocks what is not held, and no chef    *)
(* rests or exits with an appliance in its hands.                          *)
LocksAccountedFor ==
    \A l \in Lock, c \in Chef : holder[l] = c <=> l \in Held(c)

(* Acquiring the needed mutexes before cooking prevents two chefs from     *)
(* using the same appliance at the same time (kitchen.c:49-51).            *)
NobodyShares ==
    \A c, d \in Chef :
        c # d /\ stage[c] = "cooking" /\ stage[d] = "cooking"
          => Needs(c) \cap Needs(d) = {}

Blocked(c) == stage[c] = "locking" /\ holder[Wanted(c)] # None

(* Every chef takes its locks in the order of their ranks.                 *)
Ascends(plan, rank) ==
    \A c \in DOMAIN plan : \A i, j \in 1 .. Len(plan[c]) :
        i < j => rank[plan[c][i]] < rank[plan[c][j]]

(* No set of chefs is deadlocked, each of them waiting for a lock that     *)
(* another one of them holds.                                              *)
NoDeadlockedSet ==
    \A S \in (SUBSET {c \in Chef : Blocked(c)}) \ {{}} :
        \E c \in S : holder[Wanted(c)] \notin S

(* Once main clears `running' to tell all the chefs when they can quit     *)
(* (kitchen.c:22), they all do, and main's joins return.                   *)
ChefsQuit == <>AllExited

(* Each program implements the shared appliances.                          *)
Conflict(c, d) == Needs(c) \cap Needs(d) # {}

Cooking == {c \in Chef : stage[c] = "cooking"}

Appliances == INSTANCE SharedAppliances WITH busy <- Cooking

ImplementsAppliances == Appliances!AppliancesSpec
=============================================================================
