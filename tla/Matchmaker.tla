---------------------------- MODULE Matchmaker ----------------------------
(***************************************************************************)
(* The monitor of assignments/hw5/matchmaker.c, used as its drivers use    *)
(* it: every thread of Thread repeatedly calls findMatch, plays, and calls *)
(* donePlaying; main stops the matchmaking, joins the threads and destroys *)
(* the monitor.                                                            *)
(*                                                                         *)
(* monitor_mutex is held from the entry of every operation to the          *)
(* pthread_cond_wait or the return that ends it, so everything between two *)
(* such points is one step.  The one exception is a scan of the waiting    *)
(* list that never ends: the thread then keeps the mutex (`spinning').     *)
(***************************************************************************)
EXTENDS Integers, FiniteSets

CONSTANTS
    Thread,     \* the threads of the players
    Skill,      \* Skill[t]: the skill thread t passes to findMatch
    Gap,        \* skill_gap, the largest difference of compatible players
    MaxGames,   \* games a thread plays before it returns: 1 in drivers 1-4;
                \* drivers 5 and 6 loop until they are refused, cut off here
    Spurious,   \* may pthread_cond_wait return without a signal?
    NULL        \* the null Player pointer

(* The Player structs: the k-th call of findMatch by t allocates <<t, k>>. *)
Player == Thread \X (1 .. MaxGames)

ASSUME ThreadAssumption ==
    /\ IsFiniteSet(Thread)
    /\ NULL \notin Player
    /\ Skill \in [Thread -> Int]
    /\ Gap \in Int
    /\ MaxGames \in Nat \ {0}
    /\ Spurious \in BOOLEAN

(* Players for TLC.  The skills of driver4.c: two that cannot play each    *)
(* other as their skills are equal, and one on either side of them.        *)
FourSkills == [t1 |-> 5, t2 |-> 5, t3 |-> 0, t4 |-> 10]

(* A chain in which each can only play its neighbours (with a gap of 2):   *)
(* the suitable player is often not the head of the waiting list.          *)
ChainSkills == [t1 |-> 0, t2 |-> 2, t3 |-> 4, t4 |-> 5]
FourThreads == DOMAIN ChainSkills

(* Two equals and one that may play either.                                *)
ThreeSkills == [t1 |-> 5, t2 |-> 5, t3 |-> 0]
ThreeThreads == DOMAIN ThreeSkills

VARIABLES
    pc,                     \* where each thread is
    game,                   \* game[t]: the number of t's current call of findMatch
    allocated,              \* the Player structs malloc has returned, not yet freed
    next, matched, opponent, done,      \* the fields of the Player structs
    waiting_list,           \* head of the list of players
    playing_pair,           \* the last pair that was made
    done_count,             \* calls of donePlaying so far: it is never reset
    matchmaking_stopped,
    destroyed,              \* destroyMonitor has returned
    spinning                \* some thread scans a cyclic list, mutex in hand

callVars == <<pc, game>>
fieldVars == <<next, matched, opponent, done>>
mainVars == <<matchmaking_stopped, destroyed>>
vars == <<pc, game, allocated, next, matched, opponent, done, waiting_list,
          playing_pair, done_count, matchmaking_stopped, destroyed, spinning>>

Label == {
    "rest",         \* between two games, about to call findMatch
    "waiting",      \* blocked on the condition variable of its own Player
    "woken",        \* signalled there, not yet running
    "scanning",     \* in a scan that never ends
    "playing",      \* findMatch returned true
    "doneWait",     \* in donePlaying, blocked on waiting_cond
    "doneWoken",    \* in donePlaying, woken from waiting_cond
    "exited"}       \* the thread function has returned

TypeOK ==
    /\ pc \in [Thread -> Label]
    /\ game \in [Thread -> 1 .. MaxGames]
    /\ allocated \subseteq Player
    /\ next \in [Player -> Player \cup {NULL}]
    /\ matched \in [Player -> BOOLEAN]
    /\ opponent \in [Player -> Player \cup {NULL}]
    /\ done \in [Player -> BOOLEAN]
    /\ waiting_list \in Player \cup {NULL}
    /\ playing_pair \in [0 .. 1 -> Player \cup {NULL}]
    /\ done_count \in Nat
    /\ matchmaking_stopped \in BOOLEAN
    /\ destroyed \in BOOLEAN
    /\ spinning \in BOOLEAN

Init ==
    /\ pc = [t \in Thread |-> "rest"]
    /\ game = [t \in Thread |-> 1]
    /\ allocated = {}
    /\ next = [p \in Player |-> NULL]
    /\ matched = [p \in Player |-> FALSE]
    /\ opponent = [p \in Player |-> NULL]
    /\ done = [p \in Player |-> FALSE]
    /\ waiting_list = NULL
    /\ playing_pair = [i \in 0 .. 1 |-> NULL]
    /\ done_count = 0
    /\ matchmaking_stopped = FALSE
    /\ destroyed = FALSE
    /\ spinning = FALSE

-----------------------------------------------------------------------------
(* Derived notions.                                                        *)

Self(t) == <<t, game[t]>>

MutexFree == ~spinning /\ ~destroyed

Distance(i, j) == IF i < j THEN j - i ELSE i - j

CompatibleUpward(p, q) ==       \* mutant: abs() forgotten, and its lower bound
    /\ Skill[p[1]] # Skill[q[1]]
    /\ Skill[q[1]] - Skill[p[1]] \in 0 .. Gap

Compatible(p, q) ==
    /\ Skill[p[1]] # Skill[q[1]]
    /\ Distance(Skill[p[1]], Skill[q[1]]) <= Gap

(* The i-th player a scan of the waiting list comes to, NULL past its end. *)
Visit[i \in Nat] ==
    IF i = 0 THEN waiting_list
             ELSE IF Visit[i - 1] = NULL THEN NULL ELSE next[Visit[i - 1]]

(* More steps than there are players: the scan is going round in circles.  *)
ScanBound == Cardinality(Player)

ListedTail ==                   \* mutant: the walk starts behind the head
    {Visit[i] : i \in 1 .. ScanBound} \ {NULL}

Listed == {Visit[i] : i \in 0 .. ScanBound} \ {NULL}

Cyclic == Visit[ScanBound] # NULL

SuitsMatchedToo(p, q) ==        \* mutant: without the test of curr->matched
    q # NULL /\ Compatible(p, q)

(* The test of the scan in findMatch.                                      *)
Suits(p, q) == q # NULL /\ ~matched[q] /\ Compatible(p, q)

-----------------------------------------------------------------------------
(* findMatch                                                               *)

OpposedOneSided(p, q) ==        \* mutant: curr->opponent is not set
    [opponent EXCEPT ![p] = q]

(* Each of the two becomes the opponent of the other.                      *)
Opposed(p, q) == [opponent EXCEPT ![p] = q, ![q] = p]

UnlinkHeadOnly(i) ==            \* mutant: the players before it are dropped
    waiting_list' = next[Visit[i]] /\ UNCHANGED next

(* Take the i-th player of the scan off the waiting list.                  *)
Unlink(i) ==
    IF i = 0
      THEN waiting_list' = next[Visit[0]] /\ UNCHANGED next
      ELSE /\ next' = [next EXCEPT ![Visit[i - 1]] = next[Visit[i]]]
           /\ UNCHANGED waiting_list

(* The scan meets a player that suits p: pair the two, unlink that player  *)
(* and wake its thread.                                                    *)
MakePair(t) ==
    \E i \in 0 .. ScanBound :
        LET p == Self(t)
            q == Visit[i]
        IN  /\ q \in allocated             \* curr is dereferenced, see ListAllocated
            /\ Suits(p, q)
            /\ \A j \in 0 .. i - 1 : ~Suits(p, Visit[j])
            /\ matched' = [matched EXCEPT ![p] = TRUE, ![q] = TRUE]
            /\ opponent' = Opposed(p, q)
            /\ Unlink(i)
            /\ playing_pair' = [playing_pair EXCEPT ![0] = p, ![1] = q]
            /\ pc' = [s \in Thread |->
                        IF s = t THEN "playing"
                        ELSE IF s = q[1] /\ pc[s] = "waiting" THEN "woken"
                        ELSE pc[s]]
            /\ UNCHANGED spinning

(* Nobody suits: push the player on the list and wait on its condition     *)
(* variable.  The push is repeated at every fruitless lap of the loop.     *)
Enqueue(t) ==
    /\ \A i \in 0 .. ScanBound : ~Suits(Self(t), Visit[i])
    /\ ~Cyclic
    /\ next' = [next EXCEPT ![Self(t)] = waiting_list]
    /\ waiting_list' = Self(t)
    /\ pc' = [pc EXCEPT ![t] = "waiting"]
    /\ UNCHANGED <<matched, opponent, playing_pair, spinning>>

(* Nobody suits and the list has no end: the scan never finishes.          *)
ScanForever(t) ==
    /\ \A i \in 0 .. ScanBound : ~Suits(Self(t), Visit[i])
    /\ Cyclic
    /\ spinning' = TRUE
    /\ pc' = [pc EXCEPT ![t] = "scanning"]
    /\ UNCHANGED <<next, matched, opponent, waiting_list, playing_pair>>

Search(t) == MakePair(t) \/ Enqueue(t) \/ ScanForever(t)

(* Entry of findMatch while the matchmaking runs: a fresh Player, whose    *)
(* fields have their initial values, then the first lap of the loop.       *)
FindMatch(t) ==
    /\ MutexFree
    /\ pc[t] = "rest"
    /\ ~matchmaking_stopped
    /\ allocated' = allocated \cup {Self(t)}
    /\ Search(t)
    /\ UNCHANGED <<game, done, done_count, mainVars>>

(* Entry of findMatch once the matchmaking is stopped: it returns false,   *)
(* and the driver's thread ends.                                           *)
FindMatchRefused(t) ==
    /\ MutexFree
    /\ pc[t] = "rest"
    /\ matchmaking_stopped
    /\ pc' = [pc EXCEPT ![t] = "exited"]
    /\ UNCHANGED <<game, allocated, fieldVars, waiting_list, playing_pair,
                   done_count, mainVars, spinning>>

ResultOpen(t) ==                \* mutant: the stop flag decides, not `matched'
    ~matchmaking_stopped

ResultTrue(t) == TRUE           \* mutant: whoever is woken plays

(* What findMatch returns.                                                 *)
Result(t) == matched[Self(t)]

FreedWhenRefused(t) ==          \* mutant: a refused player is freed at once
    IF matched[Self(t)] THEN allocated ELSE allocated \ {Self(t)}

(* findMatch frees nothing: a refused player is still listed.              *)
AfterReturn(t) == allocated

(* pthread_cond_wait returns in findMatch: the loop's condition is tested  *)
(* again; the loop goes on, or findMatch returns `matched'.                *)
WakeInFindMatch(t) ==
    /\ MutexFree
    /\ pc[t] = "woken"
    /\ \/ /\ ~matched[Self(t)]
          /\ ~matchmaking_stopped
          /\ Search(t)
          /\ UNCHANGED allocated
       \/ /\ matched[Self(t)] \/ matchmaking_stopped
          /\ pc' = [pc EXCEPT ![t] = IF Result(t) THEN "playing" ELSE "exited"]
          /\ allocated' = AfterReturn(t)
          /\ UNCHANGED <<next, matched, opponent, waiting_list, playing_pair, spinning>>
    /\ UNCHANGED <<game, done, done_count, mainVars>>

-----------------------------------------------------------------------------
(* donePlaying                                                             *)

LeaveGameUncapped(t) ==         \* mutant: one game too many
    /\ pc' = [pc EXCEPT ![t] = IF game[t] <= MaxGames THEN "rest" ELSE "exited"]
    /\ game' = [game EXCEPT ![t] = @ + 1]

(* The thread broadcasts on waiting_cond and returns to its driver, which  *)
(* starts the next game if it has one.                                     *)
LeaveGame(t) ==
    /\ pc' = [s \in Thread |->
                IF s = t THEN IF game[t] < MaxGames THEN "rest" ELSE "exited"
                ELSE IF pc[s] = "doneWait" THEN "doneWoken"
                ELSE pc[s]]
    /\ game' = [game EXCEPT ![t] = IF @ < MaxGames THEN @ + 1 ELSE @]

(* Have both players of a game called donePlaying?                         *)
BothDone(count) == count >= 2

(* The half of playing_pair a call of donePlaying takes for its own.       *)
Marked == IF ~done[playing_pair[0]] THEN playing_pair[0] ELSE playing_pair[1]

DonePlaying(t) ==
    /\ MutexFree
    /\ pc[t] = "playing"
    /\ done' = [done EXCEPT ![Marked] = TRUE]
    /\ done_count' = done_count + 1
    /\ \/ /\ ~BothDone(done_count + 1)
          /\ pc' = [pc EXCEPT ![t] = "doneWait"]
          /\ UNCHANGED game
       \/ /\ BothDone(done_count + 1)
          /\ LeaveGame(t)
    /\ UNCHANGED <<allocated, next, matched, opponent, waiting_list,
                   playing_pair, mainVars, spinning>>

WakeInDonePlaying(t) ==
    /\ MutexFree
    /\ pc[t] = "doneWoken"
    /\ \/ /\ ~BothDone(done_count)
          /\ pc' = [pc EXCEPT ![t] = "doneWait"]
          /\ UNCHANGED game
       \/ /\ BothDone(done_count)
          /\ LeaveGame(t)
    /\ UNCHANGED <<allocated, fieldVars, waiting_list, playing_pair,
                   done_count, mainVars, spinning>>

-----------------------------------------------------------------------------
(* main, and the scheduler                                                 *)

(* stopMatchmaking signals every listed player and broadcasts on           *)
(* waiting_cond; on a cyclic list its loop never ends.                     *)
StopMatchmaking ==
    /\ MutexFree
    /\ ~matchmaking_stopped
    /\ matchmaking_stopped' = TRUE
    /\ spinning' = Cyclic
    /\ pc' = [t \in Thread |->
                IF pc[t] = "waiting" /\ Self(t) \in Listed THEN "woken"
                ELSE IF pc[t] = "doneWait" THEN "doneWoken"
                ELSE pc[t]]
    /\ UNCHANGED <<game, allocated, fieldVars, waiting_list, playing_pair,
                   done_count, destroyed>>

(* After joining the threads main destroys the monitor, which frees the    *)
(* players that are still listed.                                          *)
DestroyMonitor ==
    /\ MutexFree
    /\ matchmaking_stopped
    /\ \A t \in Thread : pc[t] = "exited"
    /\ allocated' = allocated \ Listed
    /\ destroyed' = TRUE
    /\ UNCHANGED <<callVars, fieldVars, waiting_list, playing_pair,
                   done_count, matchmaking_stopped, spinning>>

(* A wakeup nobody asked for, which POSIX allows.                          *)
SpuriousWakeup(t) ==
    /\ Spurious
    /\ \/ /\ pc[t] = "waiting"
          /\ pc' = [pc EXCEPT ![t] = "woken"]
       \/ /\ pc[t] = "doneWait"
          /\ pc' = [pc EXCEPT ![t] = "doneWoken"]
    /\ UNCHANGED <<game, allocated, fieldVars, waiting_list, playing_pair,
                   done_count, mainVars, spinning>>

Terminated == destroyed /\ UNCHANGED vars

ThreadStep(t) ==
    \/ FindMatch(t)
    \/ FindMatchRefused(t)
    \/ WakeInFindMatch(t)
    \/ DonePlaying(t)
    \/ WakeInDonePlaying(t)

Next ==
    \/ \E t \in Thread : ThreadStep(t) \/ SpuriousWakeup(t)
    \/ StopMatchmaking
    \/ DestroyMonitor
    \/ Terminated

(* Every thread that can run eventually does, and main's sleeps end.  The  *)
(* threads' own sleeps and games are finite (usleep in the drivers).       *)
Fairness ==
    /\ \A t \in Thread : WF_vars(ThreadStep(t))
    /\ WF_vars(StopMatchmaking)
    /\ WF_vars(DestroyMonitor)

Spec == Init /\ [][Next]_vars
FairSpec == Spec /\ Fairness

-----------------------------------------------------------------------------
(* Properties                                                              *)

(* What initMonitor's comment in matchmaker.h calls compatible players.    *)
WithinGap(p, q) ==
    /\ Skill[p[1]] # Skill[q[1]]
    /\ Skill[p[1]] - Skill[q[1]] \in -Gap .. Gap

(* Pairs are mutual: a matched player has an opponent, is that opponent's  *)
(* opponent, and may play against it; an unmatched one has no opponent.    *)
(* (findMatch matches two structs at once, from either thread.)            *)
PairsMutual ==
    \A p \in Player :
        IF matched[p]
          THEN /\ opponent[p] \in Player \ {p}
               /\ matched[opponent[p]]
               /\ opponent[opponent[p]] = p
               /\ WithinGap(p, opponent[p])
          ELSE opponent[p] = NULL

(* Only matched players play: a thread past findMatch, or in donePlaying,  *)
(* was paired in its current game.                                         *)
InGame(t) == pc[t] \in {"playing", "doneWait", "doneWoken"}

PlayersAreMatched ==
    \A t \in Thread :
        /\ InGame(t) => matched[Self(t)]
        /\ \A k \in 1 .. game[t] - 1 : matched[<<t, k>>]

(* No wakeup is lost: a thread blocked in findMatch has not been matched   *)
(* and the matchmaking goes on.  (The signals of findMatch and             *)
(* stopMatchmaking go through the waiting list.)                           *)
NoLostWakeup ==
    \A t \in Thread :
        pc[t] = "waiting" => ~matched[Self(t)] /\ ~matchmaking_stopped

(* While matchmaking runs, the list is a proper list of exactly the        *)
(* players whose threads are blocked in findMatch.                         *)
ListIsWaiters ==
    ~matchmaking_stopped =>
        /\ ~Cyclic
        /\ Listed = {Self(t) : t \in {s \in Thread : pc[s] = "waiting"}}

(* The waiting list holds allocated structs only, also after refused       *)
(* players have left findMatch: no scan, stop or destruction follows a     *)
(* pointer to freed memory.                                                *)
ListAllocated == ~destroyed => Listed \subseteq allocated

(* findMatch misses nobody: two players that could play each other never   *)
(* wait at the same time.                                                  *)
NoMissedMatch ==
    \A s, t \in Thread :
        pc[s] = "waiting" /\ pc[t] = "waiting" => ~WithinGap(Self(s), Self(t))

(* The monitor implements the abstract match maker: joined pairs are for   *)
(* good, nobody is refused before stopMatchmaking, and nobody is paired    *)
(* after it ("Returns true if we got a match before stopPlaying was        *)
(* called", matchmaker.h:16-17).                                           *)
StageOf(p) ==
    LET t == p[1]
    IN  IF matched[p] THEN "paired"
        ELSE IF p[2] > game[t] \/ pc[t] = "rest" THEN "new"
        ELSE IF pc[t] = "exited" THEN "refused"
        ELSE "waiting"

Abstract == INSTANCE Pairing WITH
    Request <- Player, Compatible <- WithinGap, None <- NULL,
    stage <- [p \in Player |-> StageOf(p)],
    partner <- opponent, open <- ~matchmaking_stopped

ImplementsPairing == Abstract!PairingSpec

(* findMatch never returns false to a player that has been paired, also    *)
(* when the stop comes between the signal and the wakeup: its opponent     *)
(* would wait in donePlaying for a thread that has left.                   *)
NobodyStoodUp ==
    [][\A t \in Thread :
         pc[t] \in {"rest", "waiting", "woken"} /\ pc'[t] = "exited"
           => ~matched[Self(t)]]_vars

(* Has the thread of p called donePlaying for the game of p?               *)
CalledDone(p) ==
    \/ game[p[1]] > p[2]
    \/ game[p[1]] = p[2] /\ pc[p[1]] \in {"doneWait", "doneWoken", "exited"}

(* donePlaying is a rendezvous: a player leaves its game only when its     *)
(* opponent, too, has called donePlaying ("we'll have to wait for the      *)
(* other player before we can exit", driver4.c:71-72).                     *)
LeavesTogether ==
    [][\A t \in Thread :
         InGame(t) /\ pc'[t] \in {"rest", "exited"}
           => CalledDone(opponent[Self(t)])]_vars

(* Stopping the matchmaking eventually makes all the threads exit          *)
(* (driver5.c:94-95): nobody sleeps through it, in findMatch or in         *)
(* donePlaying, and main can destroy the monitor.                          *)
AllThreadsExit == <>(\A t \in Thread : pc[t] = "exited")
=============================================================================
