------------------------- MODULE MatchmakerProofs -------------------------
(* Proofs about Matchmaker, for every set of threads, every assignment of  *)
(* skills, every gap and number of games, with and without spurious        *)
(* wakeups.                                                                *)
EXTENDS Matchmaker, FiniteSetTheorems, WellFoundedInduction, TLAPS

(* The call of findMatch that allocates p has begun.                       *)
Begun(p) ==
    \/ p[2] < game[p[1]]
    \/ p[2] = game[p[1]] /\ pc[p[1]] # "rest"

(* Nothing is allocated, or matched, ahead of its call of findMatch.       *)
NothingAhead ==
    /\ \A p \in allocated : Begun(p)
    /\ \A p \in Player : matched[p] => Begun(p)

(* A thread that exits unmatched was refused.                              *)
RefusedAfterStop ==
    \A t \in Thread : pc[t] = "exited" /\ ~matched[Self(t)] => matchmaking_stopped

(* The inductive invariant.                                                *)
IInv ==
    /\ TypeOK
    /\ PairsMutual
    /\ PlayersAreMatched
    /\ NothingAhead
    /\ RefusedAfterStop

-----------------------------------------------------------------------------
(* The player a thread stands for is one of its own.                       *)
LEMMA SelfIsPlayer ==
    ASSUME TypeOK, NEW t \in Thread
    PROVE  Self(t) \in Player /\ Self(t)[1] = t /\ Self(t)[2] = game[t]
  BY DEF TypeOK, Self, Player

(* compatible() in the code is what matchmaker.h calls compatible, both    *)
(* ways round, and nobody is compatible with itself.                       *)
LEMMA CompatibleIsWithinGap ==
    ASSUME NEW p \in Player, NEW q \in Player, Compatible(p, q)
    PROVE  WithinGap(p, q) /\ WithinGap(q, p) /\ p # q
  <1>1. p[1] \in Thread /\ q[1] \in Thread
    BY DEF Player
  <1>2. Skill[p[1]] \in Int /\ Skill[q[1]] \in Int /\ Gap \in Int
    BY <1>1, ThreadAssumption
  <1> DEFINE i == Skill[p[1]]
             j == Skill[q[1]]
  <1>3. i # j /\ Distance(i, j) <= Gap
    BY DEF Compatible
  <1>4. i - j \in -Gap .. Gap /\ j - i \in -Gap .. Gap
    <2> HIDE DEF i, j
    <2> QED BY <1>2, <1>3 DEF Distance, i, j
  <1> QED BY <1>3, <1>4 DEF WithinGap

(* What a successful scan does, without its loop: the thread's player is   *)
(* paired with an allocated, unmatched, compatible one.                    *)
LEMMA MakePairEffect ==
    ASSUME IInv, NEW t \in Thread, MakePair(t)
    PROVE  \E q \in allocated :
              /\ ~matched[q]
              /\ Compatible(Self(t), q)
              /\ matched' = [matched EXCEPT ![Self(t)] = TRUE, ![q] = TRUE]
              /\ opponent' = [opponent EXCEPT ![Self(t)] = q, ![q] = Self(t)]
              /\ next' \in [Player -> Player \cup {NULL}]
              /\ waiting_list' \in Player \cup {NULL}
              /\ playing_pair' \in [0 .. 1 -> Player \cup {NULL}]
              /\ pc' = [s \in Thread |->
                          IF s = t THEN "playing"
                          ELSE IF s = q[1] /\ pc[s] = "waiting" THEN "woken"
                          ELSE pc[s]]
              /\ UNCHANGED spinning
  <1>1. PICK i \in 0 .. ScanBound :
          /\ Visit[i] \in allocated
          /\ Suits(Self(t), Visit[i])
          /\ matched' = [matched EXCEPT ![Self(t)] = TRUE, ![Visit[i]] = TRUE]
          /\ opponent' = [opponent EXCEPT ![Self(t)] = Visit[i], ![Visit[i]] = Self(t)]
          /\ Unlink(i)
          /\ playing_pair' = [playing_pair EXCEPT ![0] = Self(t), ![1] = Visit[i]]
          /\ pc' = [s \in Thread |->
                      IF s = t THEN "playing"
                      ELSE IF s = Visit[i][1] /\ pc[s] = "waiting" THEN "woken"
                      ELSE pc[s]]
          /\ UNCHANGED spinning
    BY DEF MakePair, Opposed
  <1>2. Visit[i] \in Player /\ Self(t) \in Player
    BY <1>1, SelfIsPlayer DEF IInv, TypeOK
  <1>3. /\ next' \in [Player -> Player \cup {NULL}]
        /\ waiting_list' \in Player \cup {NULL}
    <2>1. CASE i = 0
      BY <1>1, <1>2, <2>1 DEF Unlink, IInv, TypeOK
    <2>2. CASE i # 0
      BY <1>1, <1>2, <2>2 DEF Unlink, IInv, TypeOK
    <2> QED BY <2>1, <2>2
  <1>4. playing_pair' \in [0 .. 1 -> Player \cup {NULL}]
    BY <1>1, <1>2 DEF IInv, TypeOK
  <1> QED BY <1>1, <1>3, <1>4 DEF Suits

-----------------------------------------------------------------------------
(* A successful scan keeps the pairs mutual.                               *)
LEMMA MakePairKeepsInv ==
    ASSUME IInv, NEW t \in Thread, MakePair(t),
           ~matched[Self(t)], pc[t] \in {"rest", "woken"},
           allocated \subseteq allocated', allocated' \subseteq allocated \cup {Self(t)},
           UNCHANGED <<game, done, done_count, mainVars>>
    PROVE  IInv'
  <1> DEFINE p == Self(t)
  <1>p. p \in Player /\ p[1] = t /\ p[2] = game[t]
    BY SelfIsPlayer DEF IInv
  <1>1. PICK q \in allocated :
          /\ ~matched[q]
          /\ Compatible(p, q)
          /\ matched' = [matched EXCEPT ![p] = TRUE, ![q] = TRUE]
          /\ opponent' = [opponent EXCEPT ![p] = q, ![q] = p]
          /\ next' \in [Player -> Player \cup {NULL}]
          /\ waiting_list' \in Player \cup {NULL}
          /\ playing_pair' \in [0 .. 1 -> Player \cup {NULL}]
          /\ pc' = [s \in Thread |->
                      IF s = t THEN "playing"
                      ELSE IF s = q[1] /\ pc[s] = "waiting" THEN "woken"
                      ELSE pc[s]]
          /\ UNCHANGED spinning
    BY MakePairEffect
  <1> HIDE DEF p
  <1>q. q \in Player /\ q[1] \in Thread /\ q[2] \in 1 .. MaxGames
    BY DEF IInv, TypeOK, Player
  <1>c. WithinGap(p, q) /\ WithinGap(q, p) /\ p # q
    BY <1>1, <1>p, <1>q, CompatibleIsWithinGap
  <1>2. TypeOK'
    <2>1. pc' \in [Thread -> Label]
      BY <1>1 DEF IInv, TypeOK, Label
    <2>2. matched' \in [Player -> BOOLEAN] /\ opponent' \in [Player -> Player \cup {NULL}]
      BY <1>1, <1>p, <1>q DEF IInv, TypeOK
    <2>3. allocated' \subseteq Player
      BY <1>p DEF IInv, TypeOK, p
    <2> QED BY <1>1, <2>1, <2>2, <2>3 DEF IInv, TypeOK, mainVars
  <1>3. PairsMutual'
    <2> SUFFICES ASSUME NEW x \in Player
                 PROVE  IF matched'[x]
                          THEN /\ opponent'[x] \in Player \ {x}
                               /\ matched'[opponent'[x]]
                               /\ opponent'[opponent'[x]] = x
                               /\ WithinGap(x, opponent'[x])
                          ELSE opponent'[x] = NULL
      BY DEF PairsMutual, WithinGap
    <2>1. CASE x \in {p, q}
      BY <1>1, <1>p, <1>q, <1>c, <2>1 DEF IInv, TypeOK
    <2>2. CASE x \notin {p, q}
      <3>1. matched'[x] = matched[x] /\ opponent'[x] = opponent[x]
        BY <1>1, <2>2 DEF IInv, TypeOK
      <3>2. matched[x] => opponent[x] \notin {p, q}
        <4>1. ~matched[p]
          BY DEF p
        <4> QED BY <1>1, <4>1 DEF IInv, PairsMutual
      <3> QED BY <1>1, <3>1, <3>2, <1>p, <1>q DEF IInv, PairsMutual, TypeOK
    <2> QED BY <2>1, <2>2
  <1>4. PlayersAreMatched'
    <2> SUFFICES ASSUME NEW s \in Thread
                 PROVE  /\ InGame(s)' => matched'[Self(s)']
                        /\ \A k \in 1 .. game'[s] - 1 : matched'[<<s, k>>]
      BY DEF PlayersAreMatched
    <2>0. Self(s)' = Self(s) /\ Self(s) \in Player
      BY SelfIsPlayer DEF Self, IInv
    <2>1. \A x \in Player : matched[x] => matched'[x]
      BY <1>1 DEF IInv, TypeOK
    <2>2. InGame(s)' => matched'[Self(s)']
      <3>1. CASE s = t
        BY <1>1, <1>p, <2>0, <3>1 DEF p, IInv, TypeOK
      <3>2. CASE s # t
        BY <1>1, <2>0, <2>1, <3>2 DEF InGame, IInv, PlayersAreMatched
      <3> QED BY <3>1, <3>2
    <2>3. \A k \in 1 .. game'[s] - 1 : matched'[<<s, k>>]
      <3> SUFFICES ASSUME NEW k \in 1 .. game[s] - 1 PROVE matched'[<<s, k>>]
        OBVIOUS
      <3>1. k \in 1 .. MaxGames
        BY ThreadAssumption DEF IInv, TypeOK
      <3> QED BY <2>1, <3>1 DEF Player, IInv, PlayersAreMatched
    <2> QED BY <2>2, <2>3
  <1>5. NothingAhead'
    <2>1. \A x \in Player : Begun(x) => Begun(x)'
      BY <1>1 DEF Begun, Player
    <2>2. Begun(p)'
      BY <1>1, <1>p DEF Begun, p, Self
    <2>3. Begun(q)'
      BY <2>1, <1>q DEF IInv, NothingAhead
    <2>4. allocated' \subseteq allocated \cup {p} /\ p' = p
      BY DEF p, Self
    <2> QED BY <1>1, <1>p, <1>q, <2>1, <2>2, <2>3, <2>4 DEF IInv, NothingAhead, TypeOK
  <1>6. RefusedAfterStop'
    <2> SUFFICES ASSUME NEW s \in Thread, pc'[s] = "exited", ~matched'[Self(s)']
                 PROVE  matchmaking_stopped'
      BY DEF RefusedAfterStop, Self
    <2>1. Self(s)' = Self(s) /\ Self(s) \in Player
      BY SelfIsPlayer DEF Self, IInv
    <2>2. pc[s] = "exited" /\ ~matched[Self(s)]
      BY <1>1, <2>1 DEF IInv, TypeOK
    <2> QED BY <2>2 DEF IInv, RefusedAfterStop, mainVars
  <1> QED BY <1>2, <1>3, <1>4, <1>5, <1>6 DEF IInv

(* A step that pairs nobody and stays within the current games keeps the   *)
(* invariant if the threads it moves are entitled to where they get.       *)
LEMMA UnpairedStepKeepsInv ==
    ASSUME IInv, TypeOK',
           UNCHANGED <<game, matched, opponent>>,
           \A p \in allocated' : Begun(p)',
           \A s \in Thread : pc'[s] = "rest" => pc[s] = "rest",
           \A s \in Thread : InGame(s)' => matched[Self(s)],
           \A s \in Thread : pc'[s] = "exited" /\ ~matched[Self(s)] => matchmaking_stopped'
    PROVE  IInv'
  <1>0. \A s \in Thread : Self(s)' = Self(s)
    BY DEF Self
  <1>1. PairsMutual'
    BY DEF IInv, PairsMutual, WithinGap
  <1>2. PlayersAreMatched'
    BY <1>0 DEF IInv, PlayersAreMatched
  <1>3. NothingAhead'
    <2>1. \A p \in Player : matched[p] => Begun(p)
      BY DEF IInv, NothingAhead
    <2>2. \A p \in Player : Begun(p) => Begun(p)'
      BY DEF Begun, Player
    <2> QED BY <2>1, <2>2 DEF NothingAhead
  <1>4. RefusedAfterStop'
    BY <1>0 DEF RefusedAfterStop
  <1> QED BY <1>1, <1>2, <1>3, <1>4 DEF IInv

(* A fruitless scan, whether it ends or not.                               *)
LEMMA FruitlessScanKeepsInv ==
    ASSUME IInv, NEW t \in Thread, Enqueue(t) \/ ScanForever(t),
           pc[t] \in {"rest", "woken"},
           allocated' \subseteq allocated \cup {Self(t)},
           UNCHANGED <<game, done, done_count, mainVars>>
    PROVE  IInv'
  <1>p. Self(t) \in Player /\ Self(t)[1] = t /\ Self(t)[2] = game[t]
    BY SelfIsPlayer DEF IInv
  <1>0. PICK l \in {"waiting", "scanning"} : pc' = [pc EXCEPT ![t] = l]
    BY DEF Enqueue, ScanForever
  <1>1. UNCHANGED <<game, matched, opponent>>
    BY DEF Enqueue, ScanForever
  <1>2. TypeOK'
    <2>1. pc' \in [Thread -> Label]
      BY <1>0 DEF IInv, TypeOK, Label
    <2>2. next' \in [Player -> Player \cup {NULL}] /\ waiting_list' \in Player \cup {NULL}
      BY <1>p DEF IInv, TypeOK, Enqueue, ScanForever
    <2>3. spinning' \in BOOLEAN /\ playing_pair' = playing_pair
      BY DEF IInv, TypeOK, Enqueue, ScanForever
    <2> QED BY <1>p, <1>1, <2>1, <2>2, <2>3 DEF IInv, TypeOK, mainVars
  <1>3. \A p \in allocated' : Begun(p)'
    <2>1. Begun(Self(t))'
      BY <1>0, <1>p DEF Begun, Self, IInv, TypeOK
    <2>2. \A p \in allocated : Begun(p)'
      BY <1>0 DEF Begun, IInv, TypeOK, NothingAhead
    <2>3. Self(t)' = Self(t)
      BY DEF Self
    <2> QED BY <2>1, <2>2, <2>3
  <1>4. \A s \in Thread : pc'[s] = "rest" => pc[s] = "rest"
    BY <1>0 DEF IInv, TypeOK
  <1>5. \A s \in Thread : InGame(s)' => matched[Self(s)]
    BY <1>0 DEF IInv, TypeOK, InGame, PlayersAreMatched
  <1>6. \A s \in Thread : pc'[s] = "exited" /\ ~matched[Self(s)] => matchmaking_stopped'
    BY <1>0 DEF IInv, TypeOK, RefusedAfterStop, mainVars
  <1> HIDE DEF IInv
  <1> QED BY <1>1, <1>2, <1>3, <1>4, <1>5, <1>6, UnpairedStepKeepsInv

LEMMA FindMatchKeepsInv ==
    ASSUME IInv, NEW t \in Thread, FindMatch(t) PROVE IInv'
  <1>1. /\ pc[t] = "rest"
        /\ allocated' = allocated \cup {Self(t)}
        /\ MakePair(t) \/ Enqueue(t) \/ ScanForever(t)
        /\ UNCHANGED <<game, done, done_count, mainVars>>
    BY DEF FindMatch, Search
  <1>2. ~matched[Self(t)]
    BY <1>1, SelfIsPlayer DEF IInv, TypeOK, NothingAhead, Begun
  <1>3. CASE MakePair(t)
    BY <1>1, <1>2, <1>3, MakePairKeepsInv
  <1>4. CASE Enqueue(t) \/ ScanForever(t)
    BY <1>1, <1>4, FruitlessScanKeepsInv
  <1> QED BY <1>1, <1>3, <1>4

LEMMA FindMatchRefusedKeepsInv ==
    ASSUME IInv, NEW t \in Thread, FindMatchRefused(t) PROVE IInv'
  <1>1. /\ pc' = [pc EXCEPT ![t] = "exited"]
        /\ pc[t] = "rest"
        /\ matchmaking_stopped
        /\ UNCHANGED <<game, allocated, fieldVars, waiting_list, playing_pair,
                       done_count, mainVars, spinning>>
    BY DEF FindMatchRefused
  <1>2. TypeOK'
    BY <1>1 DEF IInv, TypeOK, Label, fieldVars, mainVars
  <1>3. \A p \in allocated' : Begun(p)'
    BY <1>1 DEF Begun, IInv, TypeOK, NothingAhead
  <1>4. \A s \in Thread : pc'[s] = "rest" => pc[s] = "rest"
    BY <1>1 DEF IInv, TypeOK
  <1>5. \A s \in Thread : InGame(s)' => matched[Self(s)]
    BY <1>1 DEF IInv, TypeOK, InGame, PlayersAreMatched
  <1>6. matchmaking_stopped'
    BY <1>1 DEF mainVars
  <1> QED BY <1>1, <1>2, <1>3, <1>4, <1>5, <1>6, UnpairedStepKeepsInv DEF fieldVars

LEMMA WakeInFindMatchKeepsInv ==
    ASSUME IInv, NEW t \in Thread, WakeInFindMatch(t) PROVE IInv'
  <1>1. /\ pc[t] = "woken"
        /\ UNCHANGED <<game, allocated, done, done_count, mainVars>>
    BY DEF WakeInFindMatch, AfterReturn
  <1>2. CASE ~matched[Self(t)] /\ Search(t)
    <2>1. CASE MakePair(t)
      BY <1>1, <1>2, <2>1, MakePairKeepsInv
    <2>2. CASE Enqueue(t) \/ ScanForever(t)
      BY <1>1, <2>2, FruitlessScanKeepsInv
    <2> QED BY <1>2, <2>1, <2>2 DEF Search
  <1>3. CASE /\ matched[Self(t)] \/ matchmaking_stopped
             /\ pc' = [pc EXCEPT ![t] = IF Result(t) THEN "playing" ELSE "exited"]
             /\ UNCHANGED <<next, matched, opponent, waiting_list, playing_pair, spinning>>
    <2>1. PICK l \in {"playing", "exited"} :
            /\ pc' = [pc EXCEPT ![t] = l]
            /\ l = "playing" => matched[Self(t)]
            /\ l = "exited" => matchmaking_stopped
      BY <1>3 DEF Result
    <2>2. TypeOK'
      BY <1>1, <1>3, <2>1 DEF IInv, TypeOK, Label, mainVars
    <2>3. \A p \in allocated' : Begun(p)'
      BY <1>1, <2>1 DEF Begun, IInv, TypeOK, NothingAhead
    <2>4. \A s \in Thread : pc'[s] = "rest" => pc[s] = "rest"
      BY <2>1 DEF IInv, TypeOK
    <2>5. \A s \in Thread : InGame(s)' => matched[Self(s)]
      BY <2>1 DEF IInv, TypeOK, InGame, PlayersAreMatched
    <2>6. \A s \in Thread : pc'[s] = "exited" /\ ~matched[Self(s)] => matchmaking_stopped'
      BY <1>1, <2>1 DEF IInv, TypeOK, RefusedAfterStop, mainVars
    <2> QED BY <1>1, <1>3, <2>2, <2>3, <2>4, <2>5, <2>6, UnpairedStepKeepsInv
  <1> QED BY <1>2, <1>3 DEF WakeInFindMatch

(* Leaving a game that was played: the next call of findMatch, if any, is  *)
(* one that nothing has been allocated or matched for.                     *)
LEMMA LeaveGameKeepsInv ==
    ASSUME IInv, NEW t \in Thread, InGame(t), LeaveGame(t), TypeOK',
           UNCHANGED <<allocated, matched, opponent, matchmaking_stopped>>
    PROVE  IInv'
  <1>1. /\ pc' = [s \in Thread |->
                    IF s = t THEN IF game[t] < MaxGames THEN "rest" ELSE "exited"
                    ELSE IF pc[s] = "doneWait" THEN "doneWoken"
                    ELSE pc[s]]
        /\ game' = [game EXCEPT ![t] = IF game[t] < MaxGames THEN game[t] + 1 ELSE game[t]]
    BY DEF LeaveGame, IInv, TypeOK
  <1>t. /\ game \in [Thread -> 1 .. MaxGames] /\ MaxGames \in Nat \ {0}
        /\ pc \in [Thread -> Label]
        /\ Player = Thread \X (1 .. MaxGames)
        /\ matched \in [Player -> BOOLEAN]
    BY ThreadAssumption DEF IInv, TypeOK, Player
  <1>m. matched[<<t, game[t]>>]
    BY DEF IInv, PlayersAreMatched, Self
  <1>o. \A s \in Thread \ {t} : game'[s] = game[s] /\ Self(s)' = Self(s)
    BY <1>1, <1>t DEF Self
  <1>2. PairsMutual'
    BY DEF IInv, PairsMutual, WithinGap
  <1>3. PlayersAreMatched'
    <2> SUFFICES ASSUME NEW s \in Thread
                 PROVE  /\ InGame(s)' => matched[Self(s)']
                        /\ \A k \in 1 .. game'[s] - 1 : matched[<<s, k>>]
      BY DEF PlayersAreMatched
    <2>1. CASE s = t
      <3>1. ~InGame(s)'
        BY <1>1, <2>1 DEF InGame
      <3>2. ASSUME NEW k \in 1 .. game'[t] - 1 PROVE matched[<<t, k>>]
        <4>1. k \in 1 .. game[t] - 1 \/ k = game[t]
          BY <1>1, <1>t
        <4> QED BY <1>m, <4>1 DEF IInv, PlayersAreMatched
      <3> QED BY <2>1, <3>1, <3>2
    <2>2. CASE s # t
      BY <1>1, <1>o, <2>2 DEF InGame, IInv, PlayersAreMatched
    <2> QED BY <2>1, <2>2
  <1>4. NothingAhead'
    <2>1. \A p \in Player : Begun(p) => Begun(p)'
      <3> SUFFICES ASSUME NEW p \in Player, Begun(p) PROVE Begun(p)'
        OBVIOUS
      <3>1. CASE p[1] = t
        BY <1>1, <1>t, <3>1 DEF Begun
      <3>2. CASE p[1] # t
        BY <1>1, <1>t, <3>2 DEF Begun
      <3> QED BY <3>1, <3>2
    <2> QED BY <2>1 DEF IInv, NothingAhead, TypeOK
  <1>5. RefusedAfterStop'
    <2> SUFFICES ASSUME NEW s \in Thread, pc'[s] = "exited", ~matched[Self(s)']
                 PROVE  matchmaking_stopped
      BY DEF RefusedAfterStop
    <2>1. s # t
      BY <1>1, <1>t, <1>m DEF Self
    <2> QED BY <1>1, <1>t, <1>o, <2>1 DEF IInv, RefusedAfterStop
  <1> QED BY <1>2, <1>3, <1>4, <1>5 DEF IInv

(* donePlaying, on entry or after a wakeup.                                *)
LEMMA DonePlayingKeepsInv ==
    ASSUME IInv, NEW t \in Thread, DonePlaying(t) \/ WakeInDonePlaying(t)
    PROVE  IInv'
  <1>1. /\ pc[t] \in {"playing", "doneWoken"}
        /\ UNCHANGED <<allocated, next, matched, opponent, waiting_list,
                       playing_pair, matchmaking_stopped, destroyed, spinning>>
    BY DEF DonePlaying, WakeInDonePlaying, mainVars, fieldVars
  <1>2. done' \in [Player -> BOOLEAN] /\ done_count' \in Nat
    <2>1. CASE DonePlaying(t)
      <3>1. done' = [done EXCEPT ![Marked] = TRUE] /\ done_count' = done_count + 1
        BY <2>1 DEF DonePlaying
      <3>2. done \in [Player -> BOOLEAN] /\ done_count \in Nat
        BY DEF IInv, TypeOK
      <3>3. \A x : [done EXCEPT ![x] = TRUE] \in [Player -> BOOLEAN]
        BY <3>2
      <3> QED BY <3>1, <3>2, <3>3
    <2>2. CASE WakeInDonePlaying(t)
      BY <2>2 DEF WakeInDonePlaying, fieldVars, IInv, TypeOK
    <2> QED BY <2>1, <2>2
  <1>3. (pc' = [pc EXCEPT ![t] = "doneWait"] /\ UNCHANGED game) \/ LeaveGame(t)
    BY DEF DonePlaying, WakeInDonePlaying
  <1>4. pc' \in [Thread -> Label] /\ game' \in [Thread -> 1 .. MaxGames]
    <2>1. pc \in [Thread -> Label] /\ game \in [Thread -> 1 .. MaxGames]
      BY DEF IInv, TypeOK
    <2>2. CASE pc' = [pc EXCEPT ![t] = "doneWait"] /\ UNCHANGED game
      BY <2>1, <2>2 DEF Label
    <2>3. CASE LeaveGame(t)
      BY <2>1, <2>3, ThreadAssumption DEF LeaveGame, Label
    <2> QED BY <1>3, <2>2, <2>3
  <1>5. TypeOK'
    BY <1>1, <1>2, <1>4 DEF IInv, TypeOK
  <1>6. CASE pc' = [pc EXCEPT ![t] = "doneWait"] /\ UNCHANGED game
    <2>1. \A p \in allocated' : Begun(p)'
      BY <1>1, <1>6 DEF Begun, IInv, TypeOK, NothingAhead
    <2>2. \A s \in Thread : pc'[s] = "rest" => pc[s] = "rest"
      BY <1>6 DEF IInv, TypeOK
    <2>3. \A s \in Thread : InGame(s)' => matched[Self(s)]
      BY <1>1, <1>6 DEF IInv, TypeOK, InGame, PlayersAreMatched
    <2>4. \A s \in Thread : pc'[s] = "exited" /\ ~matched[Self(s)] => matchmaking_stopped'
      BY <1>1, <1>6 DEF IInv, TypeOK, RefusedAfterStop
    <2> QED BY <1>1, <1>5, <1>6, <2>1, <2>2, <2>3, <2>4, UnpairedStepKeepsInv
  <1>7. CASE LeaveGame(t)
    BY <1>1, <1>5, <1>7, LeaveGameKeepsInv DEF InGame
  <1> QED BY <1>3, <1>6, <1>7

(* The steps of main and of the scheduler only wake threads up.            *)
LEMMA OtherStepsKeepInv ==
    ASSUME IInv,
           \/ StopMatchmaking
           \/ DestroyMonitor
           \/ \E t \in Thread : SpuriousWakeup(t)
    PROVE  IInv'
  <1>1. /\ UNCHANGED <<game, next, matched, opponent, done, waiting_list,
                       playing_pair, done_count>>
        /\ matchmaking_stopped' \in BOOLEAN /\ destroyed' \in BOOLEAN
        /\ spinning' \in BOOLEAN
        /\ matchmaking_stopped => matchmaking_stopped'
        /\ allocated' \subseteq allocated
    <2>1. CASE StopMatchmaking
      BY <2>1 DEF StopMatchmaking, fieldVars, IInv, TypeOK, Cyclic
    <2>2. CASE DestroyMonitor
      BY <2>2 DEF DestroyMonitor, fieldVars, callVars, IInv, TypeOK
    <2>3. ASSUME NEW t \in Thread, SpuriousWakeup(t) PROVE <1>1!:
      BY <2>3 DEF SpuriousWakeup, fieldVars, mainVars, IInv, TypeOK
    <2> QED BY <2>1, <2>2, <2>3
  <1>2. /\ pc' \in [Thread -> Label]
        /\ \A s \in Thread :
              \/ pc'[s] = pc[s]
              \/ pc[s] = "waiting" /\ pc'[s] = "woken"
              \/ pc[s] = "doneWait" /\ pc'[s] = "doneWoken"
    <2>t. pc \in [Thread -> Label]
      BY DEF IInv, TypeOK
    <2>1. CASE StopMatchmaking
      BY <2>t, <2>1 DEF StopMatchmaking, Label
    <2>2. CASE DestroyMonitor
      BY <2>t, <2>2 DEF DestroyMonitor, callVars
    <2>3. ASSUME NEW t \in Thread, SpuriousWakeup(t)
          PROVE  <1>2!1 /\ <1>2!2
      BY <2>t, <2>3 DEF SpuriousWakeup, Label
    <2> QED BY <2>1, <2>2, <2>3
  <1>3. TypeOK'
    BY <1>1, <1>2 DEF IInv, TypeOK
  <1>4. \A p \in allocated' : Begun(p)'
    <2>1. \A p \in allocated' : Begun(p) /\ p[1] \in Thread
      BY <1>1 DEF IInv, NothingAhead, TypeOK, Player
    <2> QED BY <1>1, <1>2, <2>1 DEF Begun
  <1>5. \A s \in Thread : pc'[s] = "rest" => pc[s] = "rest"
    BY <1>2
  <1>6. \A s \in Thread : InGame(s)' => matched[Self(s)]
    BY <1>2 DEF IInv, InGame, PlayersAreMatched
  <1>7. \A s \in Thread : pc'[s] = "exited" /\ ~matched[Self(s)] => matchmaking_stopped'
    BY <1>1, <1>2 DEF IInv, RefusedAfterStop
  <1> QED BY <1>1, <1>3, <1>4, <1>5, <1>6, <1>7, UnpairedStepKeepsInv

-----------------------------------------------------------------------------
(* The invariant holds initially and every step keeps it.                  *)
LEMMA InitInv == Init => IInv
  <1> SUFFICES ASSUME Init PROVE IInv
    OBVIOUS
  <1>1. TypeOK
    <2>1. 1 \in 1 .. MaxGames
      BY ThreadAssumption
    <2>2. matched \in [Player -> BOOLEAN] /\ done \in [Player -> BOOLEAN]
      BY DEF Init
    <2>3. game \in [Thread -> 1 .. MaxGames]
      BY <2>1 DEF Init
    <2> QED BY <2>2, <2>3 DEF Init, TypeOK, Label
  <1>2. PairsMutual /\ NothingAhead
    BY DEF Init, PairsMutual, NothingAhead
  <1>3. PlayersAreMatched /\ RefusedAfterStop
    BY DEF Init, PlayersAreMatched, RefusedAfterStop, InGame
  <1> QED BY <1>1, <1>2, <1>3 DEF IInv

LEMMA NextInv == IInv /\ [Next]_vars => IInv'
  <1> SUFFICES ASSUME IInv, [Next]_vars PROVE IInv'
    OBVIOUS
  <1>1. ASSUME NEW t \in Thread, ThreadStep(t) PROVE IInv'
    BY <1>1, FindMatchKeepsInv, FindMatchRefusedKeepsInv, WakeInFindMatchKeepsInv,
       DonePlayingKeepsInv DEF ThreadStep
  <1>2. CASE UNCHANGED vars
    BY <1>2 DEF vars, IInv, TypeOK, PairsMutual, PlayersAreMatched, NothingAhead,
                RefusedAfterStop, Begun, Self, InGame, WithinGap
  <1> QED BY <1>1, <1>2, OtherStepsKeepInv DEF Next, Terminated

THEOREM InvariantHolds == Spec => []IInv
  BY InitInv, NextInv, PTL DEF Spec

(* The type invariant of the monitor.                                      *)
THEOREM TypeCorrect == Spec => []TypeOK
  <1>1. IInv => TypeOK
    BY DEF IInv
  <1> QED BY <1>1, InvariantHolds, PTL

(* Pairs are mutual and compatible (findMatch), whatever the threads'      *)
(* interleaving and also when pthread_cond_wait wakes up by itself.        *)
THEOREM PairsAreMutual == Spec => []PairsMutual
  <1>1. IInv => PairsMutual
    BY DEF IInv
  <1> QED BY <1>1, InvariantHolds, PTL

(* Whoever plays, or is in donePlaying, was paired in its current game,    *)
(* and in every game before.                                               *)
THEOREM OnlyMatchedPlay == Spec => []PlayersAreMatched
  <1>1. IInv => PlayersAreMatched
    BY DEF IInv
  <1> QED BY <1>1, InvariantHolds, PTL

(* findMatch does not turn away a player that has been paired, also when   *)
(* the stop comes between the signal and the wakeup.                       *)
THEOREM PairedAreNotRefused == Spec => NobodyStoodUp
  <1>1. ASSUME IInv, [Next]_vars, NEW t \in Thread,
               pc[t] \in {"rest", "waiting", "woken"}, pc'[t] = "exited"
        PROVE  ~matched[Self(t)]
    <2>1. pc \in [Thread -> Label]
      BY <1>1 DEF IInv, TypeOK
    <2>2. PICK u \in Thread : ThreadStep(u)
      BY <1>1, <2>1 DEF Next, StopMatchmaking, DestroyMonitor, SpuriousWakeup,
                        Terminated, callVars, vars
    <2>3. ~Search(u)
      BY <1>1, <2>1 DEF Search, MakePair, Enqueue, ScanForever
    <2>4. CASE FindMatchRefused(u)
      BY <1>1, <2>1, <2>4, SelfIsPlayer
         DEF FindMatchRefused, IInv, TypeOK, NothingAhead, Begun
    <2>5. CASE WakeInFindMatch(u)
      BY <1>1, <2>1, <2>3, <2>5 DEF WakeInFindMatch, Result
    <2>6. CASE DonePlaying(u) \/ WakeInDonePlaying(u)
      BY <1>1, <2>1, <2>6 DEF DonePlaying, WakeInDonePlaying, LeaveGame
    <2> QED BY <2>2, <2>3, <2>4, <2>5, <2>6 DEF ThreadStep, FindMatch
  <1>2. IInv /\ [Next]_vars =>
          [\A t \in Thread : pc[t] \in {"rest", "waiting", "woken"} /\ pc'[t] = "exited"
                             => ~matched[Self(t)]]_vars
    BY <1>1
  <1> QED BY <1>2, InvariantHolds, PTL DEF Spec, NobodyStoodUp

-----------------------------------------------------------------------------
(* Refinement: every step of the monitor is a step of Pairing, or none.    *)

StageFcn == [p \in Player |-> StageOf(p)]

(* Who is in which stage, in a state of the invariant.                     *)
LEMMA StageOfUnmatched ==
    ASSUME IInv, NEW p \in Player, ~matched[p]
    PROVE  /\ p[2] >= game[p[1]]
           /\ ~Begun(p) => StageOf(p) = "new"
           /\ Begun(p) => /\ p = Self(p[1])
                          /\ StageOf(p) = IF pc[p[1]] = "exited" THEN "refused" ELSE "waiting"
  <1>1. p[1] \in Thread /\ p[2] \in 1 .. MaxGames /\ p = <<p[1], p[2]>>
    BY DEF Player
  <1>2. game[p[1]] \in 1 .. MaxGames /\ MaxGames \in Nat
    BY <1>1, ThreadAssumption DEF IInv, TypeOK
  <1>3. p[2] >= game[p[1]]
    <2> SUFFICES ASSUME p[2] < game[p[1]] PROVE FALSE
      BY <1>1, <1>2
    <2>1. p[2] \in 1 .. game[p[1]] - 1
      BY <1>1, <1>2
    <2> QED BY <1>1, <2>1 DEF IInv, PlayersAreMatched
  <1> QED BY <1>1, <1>2, <1>3 DEF StageOf, Begun, Self

(* A successful scan joins two requests.                                   *)
LEMMA MakePairJoins ==
    ASSUME IInv, NEW t \in Thread, MakePair(t),
           ~matched[Self(t)], ~matchmaking_stopped, pc[t] \in {"rest", "woken"},
           UNCHANGED <<game, mainVars>>
    PROVE  \E q \in Player : Abstract!Join(Self(t), q)
  <1>p. Self(t) \in Player /\ Self(t)[1] = t /\ Self(t)[2] = game[t]
    BY SelfIsPlayer DEF IInv
  <1>1. PICK q \in allocated :
          /\ ~matched[q]
          /\ Compatible(Self(t), q)
          /\ matched' = [matched EXCEPT ![Self(t)] = TRUE, ![q] = TRUE]
          /\ opponent' = [opponent EXCEPT ![Self(t)] = q, ![q] = Self(t)]
          /\ pc' = [s \in Thread |->
                      IF s = t THEN "playing"
                      ELSE IF s = q[1] /\ pc[s] = "waiting" THEN "woken"
                      ELSE pc[s]]
    BY MakePairEffect
  <1>q. q \in Player /\ q[1] \in Thread /\ Begun(q)
    BY DEF IInv, TypeOK, NothingAhead, Player
  <1>2. WithinGap(Self(t), q) /\ Self(t) # q
    BY <1>1, <1>p, <1>q, CompatibleIsWithinGap
  <1>3. StageFcn[Self(t)] \in {"new", "waiting"}
    BY <1>p, StageOfUnmatched DEF StageFcn
  <1>4. StageFcn[q] = "waiting"
    <2>1. pc[q[1]] # "exited"
      BY <1>1, <1>q, StageOfUnmatched DEF IInv, RefusedAfterStop
    <2> QED BY <1>1, <1>q, <2>1, StageOfUnmatched DEF StageFcn
  <1>5. StageFcn' = [StageFcn EXCEPT ![Self(t)] = "paired", ![q] = "paired"]
    <2>1. ASSUME NEW x \in Player
          PROVE  StageOf(x)' = IF x \in {Self(t), q} THEN "paired" ELSE StageOf(x)
      <3>0. x[1] \in Thread
        BY DEF Player
      <3>1. CASE x \in {Self(t), q}
        BY <1>1, <1>p, <1>q, <3>1 DEF StageOf, IInv, TypeOK
      <3>2. CASE x \notin {Self(t), q}
        <4>1. matched'[x] = matched[x]
          BY <1>1, <3>2 DEF IInv, TypeOK
        <4>2. CASE x[1] = t
          <5>1. x[2] # game[t]
            BY <3>2, <4>2 DEF Player, Self
          <5>2. ~matched[x] => x[2] > game[t]
            <6>1. x[2] \in 1 .. MaxGames /\ game[t] \in Nat /\ MaxGames \in Nat
              BY ThreadAssumption DEF Player, IInv, TypeOK
            <6> QED BY <4>2, <5>1, <6>1, StageOfUnmatched
          <5> QED BY <3>2, <4>1, <4>2, <5>2 DEF StageOf
        <4>3. CASE x[1] # t
          BY <1>1, <3>0, <3>2, <4>1, <4>3 DEF StageOf
        <4> QED BY <4>2, <4>3
      <3> QED BY <3>1, <3>2
    <2> QED BY <2>1 DEF StageFcn
  <1> QED BY <1>1, <1>2, <1>3, <1>4, <1>5, <1>q DEF Abstract!Join, StageFcn, mainVars

(* A step that matches nobody moves the stage of at most one request.      *)
LEMMA UnmatchingStep ==
    ASSUME IInv, NEW t \in Thread, NEW l \in {"waiting", "scanning", "exited", "playing"},
           pc' = [pc EXCEPT ![t] = l], UNCHANGED <<game, matched>>,
           l = "playing" => matched[Self(t)]
    PROVE  StageFcn' = [StageFcn EXCEPT ![Self(t)] =
                          IF matched[Self(t)] THEN "paired"
                          ELSE IF l = "exited" THEN "refused" ELSE "waiting"]
  <1>p. Self(t) \in Player /\ Self(t)[1] = t /\ Self(t)[2] = game[t]
    BY SelfIsPlayer DEF IInv
  <1>g. game[t] \in Nat
    BY ThreadAssumption DEF IInv, TypeOK
  <1>1. StageOf(Self(t))' = IF matched[Self(t)] THEN "paired"
                            ELSE IF l = "exited" THEN "refused" ELSE "waiting"
    BY <1>p, <1>g DEF StageOf, Self, IInv, TypeOK
  <1>2. ASSUME NEW x \in Player, x # Self(t) PROVE StageOf(x)' = StageOf(x)
    <2>0. x[1] \in Thread /\ x[2] \in 1 .. MaxGames /\ x = <<x[1], x[2]>>
      BY DEF Player
    <2>1. CASE x[1] # t
      BY <2>0, <2>1 DEF StageOf, IInv, TypeOK
    <2>2. CASE x[1] = t
      <3>1. x[2] # game[t]
        BY <1>2, <2>0, <2>2 DEF Self
      <3>2. ~matched[x] => x[2] > game[t]
        BY <1>g, <2>0, <2>2, <3>1, StageOfUnmatched, ThreadAssumption
      <3> QED BY <2>2, <3>2 DEF StageOf
    <2> QED BY <2>1, <2>2
  <1>3. Self(t)' = Self(t)
    BY DEF Self
  <1> QED BY <1>p, <1>1, <1>2, <1>3 DEF StageFcn

LEMMA FindMatchRefines ==
    ASSUME IInv, NEW t \in Thread,
           FindMatch(t) \/ FindMatchRefused(t) \/ WakeInFindMatch(t)
    PROVE  [Abstract!PairingNext]_(Abstract!pairingVars)
  <1>p. Self(t) \in Player /\ Self(t)[1] = t /\ Self(t)[2] = game[t]
    BY SelfIsPlayer DEF IInv
  <1>0. /\ pc[t] \in {"rest", "woken"}
        /\ UNCHANGED <<game, mainVars>>
    BY DEF FindMatch, FindMatchRefused, WakeInFindMatch
  <1>1. CASE ~matched[Self(t)] /\ ~matchmaking_stopped /\ MakePair(t)
    <2>1. \E q \in Player : Abstract!Join(Self(t), q)
      BY <1>0, <1>1, MakePairJoins
    <2> QED BY <1>p, <2>1 DEF Abstract!PairingNext
  <1>2. CASE ~matched[Self(t)] /\ ~matchmaking_stopped /\ (Enqueue(t) \/ ScanForever(t))
    <2>1. PICK l \in {"waiting", "scanning"} :
            pc' = [pc EXCEPT ![t] = l] /\ UNCHANGED <<matched, opponent>>
      BY <1>2 DEF Enqueue, ScanForever
    <2>2. StageFcn' = [StageFcn EXCEPT ![Self(t)] = "waiting"]
      BY <1>0, <1>2, <2>1, UnmatchingStep
    <2>3. CASE pc[t] = "rest"
      <3>1. StageFcn[Self(t)] = "new"
        BY <1>p, <1>2, <2>3, StageOfUnmatched DEF StageFcn, Begun, IInv, TypeOK
      <3>2. Abstract!Wait(Self(t))
        BY <1>0, <1>2, <2>1, <2>2, <3>1 DEF Abstract!Wait, StageFcn, mainVars
      <3> QED BY <1>p, <3>2 DEF Abstract!PairingNext
    <2>4. CASE pc[t] = "woken"
      <3>1. StageFcn[Self(t)] = "waiting"
        BY <1>p, <1>2, <2>4, StageOfUnmatched DEF StageFcn, Begun, IInv, TypeOK
      <3>2. StageFcn' = StageFcn
        BY <2>2, <3>1 DEF StageFcn
      <3> QED BY <1>0, <2>1, <3>2 DEF Abstract!pairingVars, StageFcn, mainVars
    <2> QED BY <1>0, <2>3, <2>4
  <1>3. CASE /\ ~matched[Self(t)]
             /\ matchmaking_stopped
             /\ pc' = [pc EXCEPT ![t] = "exited"]
             /\ UNCHANGED <<matched, opponent>>
    <2>1. StageFcn' = [StageFcn EXCEPT ![Self(t)] = "refused"]
      BY <1>0, <1>3, UnmatchingStep
    <2>2. StageFcn[Self(t)] \in {"new", "waiting"}
      BY <1>p, <1>0, <1>3, StageOfUnmatched DEF StageFcn, IInv, TypeOK
    <2>3. Abstract!Refuse(Self(t))
      BY <1>0, <1>3, <2>1, <2>2 DEF Abstract!Refuse, StageFcn, mainVars
    <2> QED BY <1>p, <2>3 DEF Abstract!PairingNext
  <1>4. CASE /\ matched[Self(t)]
             /\ pc' = [pc EXCEPT ![t] = "playing"]
             /\ UNCHANGED <<matched, opponent>>
    <2>1. StageFcn' = [StageFcn EXCEPT ![Self(t)] = "paired"]
      BY <1>0, <1>4, UnmatchingStep
    <2>2. StageFcn[Self(t)] = "paired"
      BY <1>p, <1>4 DEF StageFcn, StageOf
    <2>3. StageFcn' = StageFcn
      BY <2>1, <2>2 DEF StageFcn
    <2> QED BY <1>0, <1>4, <2>3 DEF Abstract!pairingVars, StageFcn, mainVars
  <1>5. CASE FindMatch(t)
    <2>1. ~matched[Self(t)]
      BY <1>p, <1>5 DEF FindMatch, IInv, TypeOK, NothingAhead, Begun
    <2> QED BY <1>1, <1>2, <1>5, <2>1 DEF FindMatch, Search
  <1>6. CASE FindMatchRefused(t)
    <2>1. ~matched[Self(t)]
      BY <1>p, <1>6 DEF FindMatchRefused, IInv, TypeOK, NothingAhead, Begun
    <2> QED BY <1>3, <1>6, <2>1 DEF FindMatchRefused, fieldVars
  <1>7. CASE WakeInFindMatch(t)
    <2>1. CASE matched[Self(t)]
      BY <1>4, <1>7, <2>1 DEF WakeInFindMatch, Result
    <2>2. CASE ~matched[Self(t)] /\ matchmaking_stopped
      BY <1>3, <1>7, <2>2 DEF WakeInFindMatch, Result
    <2>3. CASE ~matched[Self(t)] /\ ~matchmaking_stopped
      BY <1>1, <1>2, <1>7, <2>3 DEF WakeInFindMatch, Search
    <2> QED BY <2>1, <2>2, <2>3
  <1> QED BY <1>5, <1>6, <1>7

(* donePlaying, wakeups and destroyMonitor are no steps of Pairing; only   *)
(* stopMatchmaking is one.                                                 *)
LEMMA DonePlayingStutters ==
    ASSUME IInv, NEW t \in Thread, DonePlaying(t) \/ WakeInDonePlaying(t)
    PROVE  UNCHANGED (Abstract!pairingVars)
  <1>1. /\ InGame(t)
        /\ UNCHANGED <<matched, opponent, matchmaking_stopped>>
    BY DEF DonePlaying, WakeInDonePlaying, InGame, mainVars, fieldVars
  <1>2. matched[Self(t)] /\ game[t] \in 1 .. MaxGames /\ MaxGames \in Nat \ {0}
    BY <1>1, ThreadAssumption DEF IInv, PlayersAreMatched, TypeOK
  <1>3. (pc' = [pc EXCEPT ![t] = "doneWait"] /\ UNCHANGED game) \/ LeaveGame(t)
    BY DEF DonePlaying, WakeInDonePlaying
  <1>4. ASSUME NEW p \in Player PROVE StageOf(p)' = StageOf(p)
    <2>0. p[1] \in Thread /\ p[2] \in 1 .. MaxGames /\ p = <<p[1], p[2]>>
      BY DEF Player
    <2>1. CASE matched[p]
      BY <1>1, <2>1 DEF StageOf
    <2>2. CASE ~matched[p] /\ p[1] = t
      <3>1. p[2] > game[t]
        BY <1>2, <2>0, <2>2, StageOfUnmatched DEF Self
      <3>2. p[2] >= game'[t] /\ (p[2] = game'[t] => pc'[t] = "rest")
        BY <1>2, <1>3, <2>0, <3>1 DEF LeaveGame, IInv, TypeOK
      <3>3. game'[t] \in Nat
        BY <1>2, <1>3 DEF LeaveGame, IInv, TypeOK
      <3> QED BY <1>1, <2>0, <2>2, <3>1, <3>2, <3>3 DEF StageOf
    <2>3. CASE ~matched[p] /\ p[1] # t
      BY <1>1, <1>3, <2>0, <2>3 DEF StageOf, LeaveGame, IInv, TypeOK
    <2> QED BY <2>1, <2>2, <2>3
  <1> QED BY <1>1, <1>4 DEF Abstract!pairingVars

LEMMA WakingStepsRefine ==
    ASSUME IInv,
           \/ StopMatchmaking
           \/ DestroyMonitor
           \/ \E t \in Thread : SpuriousWakeup(t)
    PROVE  [Abstract!PairingNext]_(Abstract!pairingVars)
  <1>1. /\ UNCHANGED <<game, matched, opponent>>
        /\ \A s \in Thread :
              \/ pc'[s] = pc[s]
              \/ pc[s] \in {"waiting", "doneWait"} /\ pc'[s] \in {"woken", "doneWoken"}
    BY DEF StopMatchmaking, DestroyMonitor, SpuriousWakeup, fieldVars, callVars, IInv, TypeOK
  <1>2. ASSUME NEW p \in Player PROVE StageOf(p)' = StageOf(p)
    BY <1>1 DEF StageOf, Player
  <1>3. CASE StopMatchmaking
    BY <1>1, <1>2, <1>3 DEF StopMatchmaking, Abstract!PairingNext, Abstract!Close
  <1>4. CASE DestroyMonitor \/ \E t \in Thread : SpuriousWakeup(t)
    BY <1>1, <1>2, <1>4 DEF DestroyMonitor, SpuriousWakeup, mainVars, Abstract!pairingVars
  <1> QED BY <1>3, <1>4

(* The monitor implements the abstract match maker: pairs are for good,    *)
(* nobody is refused before stopMatchmaking and nobody paired after it.    *)
THEOREM MatchmakerImplementsPairing == Spec => ImplementsPairing
  <1>1. Init => Abstract!PairingInit
    BY ThreadAssumption DEF Init, Abstract!PairingInit, StageOf, Player
  <1>2. ASSUME IInv, [Next]_vars
        PROVE  [Abstract!PairingNext]_(Abstract!pairingVars)
    <2>1. ASSUME NEW t \in Thread, ThreadStep(t)
          PROVE  [Abstract!PairingNext]_(Abstract!pairingVars)
      BY <1>2, <2>1, FindMatchRefines, DonePlayingStutters DEF ThreadStep
    <2>2. CASE UNCHANGED vars
      BY <2>2 DEF vars, Abstract!pairingVars, StageOf
    <2> QED BY <1>2, <2>1, <2>2, WakingStepsRefine DEF Next, Terminated
  <1> QED BY <1>1, <1>2, InvariantHolds, PTL DEF Spec, ImplementsPairing, Abstract!PairingSpec

-----------------------------------------------------------------------------
(* The waiting list, as long as pthread_cond_wait does not wake up by      *)
(* itself: it is a proper list of exactly the players whose threads wait,  *)
(* for any number of threads and games.                                    *)

(* Every nonempty set of natural numbers has a least element.              *)
LEMMA LeastOfNat ==
    ASSUME NEW T \in SUBSET Nat, T # {}
    PROVE  \E n \in T : \A m \in T : n <= m
  <1>1. PICK n \in T : \A m \in T : ~(<<m, n>> \in OpToRel(<, Nat))
    BY NatLessThanWellFounded, WFMin, Zenon
  <1>2. \A m \in T : ~(m < n)
    BY <1>1, Zenon DEF OpToRel
  <1> QED BY <1>2

(* Induction, for a set of natural numbers instead of a predicate.         *)
LEMMA NatSetInduction ==
    ASSUME NEW S, 0 \in S, \A n \in Nat : n \in S => n + 1 \in S
    PROVE  Nat \subseteq S
  <1> SUFFICES ASSUME Nat \ S # {} PROVE FALSE
    OBVIOUS
  <1>1. PICK n \in Nat \ S : \A m \in Nat \ S : n <= m
    BY LeastOfNat
  <1>2. n # 0 /\ n - 1 \in Nat /\ n - 1 \in S
    BY <1>1
  <1> QED BY <1>1, <1>2

-----------------------------------------------------------------------------
(* The list: n different players, linked from the head to the NULL behind  *)
(* the last one.                                                           *)
IsList(n, s, head, link) ==
    /\ s \in [0 .. n - 1 -> Player]
    /\ \A i, j \in 0 .. n - 1 : s[i] = s[j] => i = j
    /\ head = IF n = 0 THEN NULL ELSE s[0]
    /\ \A i \in 0 .. n - 1 : link[s[i]] = IF i = n - 1 THEN NULL ELSE s[i + 1]

Elements(n, s) == {s[i] : i \in 0 .. n - 1}

(* What a scan comes to (Visit), computed by its definition.               *)
LEMMA VisitFollowsList ==
    ASSUME NEW n \in Nat, NEW s, IsList(n, s, waiting_list, next)
    PROVE  \A i \in Nat : Visit[i] = IF i < n THEN s[i] ELSE NULL
  <1> DEFINE F(g) == [i \in Nat |->
                        IF i = 0 THEN waiting_list
                        ELSE IF g[i - 1] = NULL THEN NULL ELSE next[g[i - 1]]]
             visits == [i \in Nat |-> IF i < n THEN s[i] ELSE NULL]
  <1>1. visits = F(visits)
    <2> SUFFICES ASSUME NEW i \in Nat PROVE visits[i] = F(visits)[i]
      BY Zenon
    <2>1. CASE i = 0
      BY <2>1 DEF IsList
    <2>2. CASE i # 0
      <3>1. i - 1 \in Nat /\ visits[i - 1] = IF i - 1 < n THEN s[i - 1] ELSE NULL
        BY <2>2
      <3>2. i - 1 < n => /\ s[i - 1] \in Player
                         /\ next[s[i - 1]] = IF i < n THEN s[i] ELSE NULL
        BY <2>2 DEF IsList
      <3> QED BY <2>2, <3>1, <3>2, ThreadAssumption
    <2> QED BY <2>1, <2>2
  <1>2. Visit = F(Visit)
    <2> HIDE DEF visits
    <2>1. Visit = CHOOSE g : g = F(g)
      BY DEF Visit
    <2> HIDE DEF F
    <2> QED BY <1>1, <2>1, Zenon
  <1>3. Visit[0] = visits[0]
    <2>1. Visit[0] = waiting_list
      BY <1>2
    <2> QED BY <2>1 DEF IsList
  <1>4. ASSUME NEW i \in Nat, Visit[i] = visits[i] PROVE Visit[i + 1] = visits[i + 1]
    <2> HIDE DEF visits
    <2>1. F(Visit)[i + 1] = F(visits)[i + 1]
      BY <1>4
    <2> HIDE DEF F
    <2> QED BY <1>1, <1>2, <2>1
  <1> DEFINE agree == {i \in Nat : Visit[i] = visits[i]}
  <1>5. 0 \in agree /\ \A i \in Nat : i \in agree => i + 1 \in agree
    <2> HIDE DEF visits
    <2> QED BY <1>3, <1>4
  <1>6. Nat \subseteq agree
    <2> HIDE DEF agree
    <2> QED BY <1>5, NatSetInduction
  <1> QED BY <1>6

(* A list has no more players than there are, so a scan comes to its end.  *)
LEMMA ListedIsList ==
    ASSUME NEW n \in Nat, NEW s, IsList(n, s, waiting_list, next)
    PROVE  /\ n <= ScanBound /\ ScanBound \in Nat
           /\ Listed = Elements(n, s)
           /\ ~Cyclic
  <1>1. IsFiniteSet(Player)
    <2>1. IsFiniteSet(Thread) /\ IsFiniteSet(1 .. MaxGames)
      BY ThreadAssumption, FS_Interval
    <2> QED BY <2>1, FS_Product DEF Player
  <1>2. n <= ScanBound /\ ScanBound \in Nat
    <2>1. s \in Injection(0 .. n - 1, Player)
      BY DEF IsList, Injection, IsInjective
    <2>2. Cardinality(0 .. n - 1) = n
      BY FS_Interval
    <2>3. Cardinality(0 .. n - 1) <= Cardinality(Player)
      BY <1>1, <2>1, FS_Injection, Zenon
    <2>4. Cardinality(Player) \in Nat
      BY <1>1, FS_CardinalityType
    <2> QED BY <2>2, <2>3, <2>4 DEF ScanBound
  <1>3. \A i \in 0 .. ScanBound : Visit[i] = IF i < n THEN s[i] ELSE NULL
    BY <1>2, VisitFollowsList
  <1>4. \A i \in 0 .. n - 1 : s[i] \in Player /\ s[i] # NULL
    BY ThreadAssumption DEF IsList
  <1>5. ~Cyclic
    BY <1>2, <1>3 DEF Cyclic
  <1>6. Listed \subseteq {s[i] : i \in 0 .. n - 1}
    BY <1>2, <1>3 DEF Listed
  <1>7. ASSUME NEW i \in 0 .. n - 1 PROVE s[i] \in Listed
    <2>1. i \in 0 .. ScanBound /\ Visit[i] = s[i]
      BY <1>2, <1>3
    <2> QED BY <1>4, <2>1 DEF Listed
  <1> QED BY <1>2, <1>5, <1>6, <1>7 DEF Elements

(* A player that is taken off leaves a list of the others,                 *)
LEMMA RemoveFromList ==
    ASSUME NEW n \in Nat, NEW s, NEW head, NEW link \in [Player -> Player \cup {NULL}],
           IsList(n, s, head, link), NEW k \in 0 .. n - 1, NEW head2, NEW link2,
           k = 0 => head2 = link[s[0]] /\ link2 = link,
           k # 0 => head2 = head /\ link2 = [link EXCEPT ![s[k - 1]] = link[s[k]]]
    PROVE  \E rest : /\ IsList(n - 1, rest, head2, link2)
                     /\ Elements(n - 1, rest) = Elements(n, s) \ {s[k]}
  <1> DEFINE rest == [i \in 0 .. n - 2 |-> IF i < k THEN s[i] ELSE s[i + 1]]
  <1>1. n - 1 \in Nat /\ (n - 1) - 1 = n - 2
    OBVIOUS
  <1>2. rest \in [0 .. n - 2 -> Player]
    BY DEF IsList
  <1>3. \A i, j \in 0 .. n - 2 : rest[i] = rest[j] => i = j
    <2> SUFFICES ASSUME NEW i \in 0 .. n - 2, NEW j \in 0 .. n - 2, rest[i] = rest[j]
                 PROVE  i = j
      OBVIOUS
    <2>1. PICK a \in 0 .. n - 1 : rest[i] = s[a] /\ a = IF i < k THEN i ELSE i + 1
      OBVIOUS
    <2>2. PICK b \in 0 .. n - 1 : rest[j] = s[b] /\ b = IF j < k THEN j ELSE j + 1
      OBVIOUS
    <2>3. a = b
      BY <2>1, <2>2 DEF IsList
    <2> QED BY <2>1, <2>2, <2>3
  <1>4. head2 = IF n - 1 = 0 THEN NULL ELSE rest[0]
    BY DEF IsList
  <1>5. ASSUME NEW i \in 0 .. n - 2
        PROVE  link2[rest[i]] = IF i = n - 2 THEN NULL ELSE rest[i + 1]
    <2>1. CASE k = 0
      <3>1. rest[i] = s[i + 1] /\ link2[rest[i]] = link[s[i + 1]]
        BY <2>1
      <3> QED BY <2>1, <3>1 DEF IsList
    <2>2. CASE k # 0 /\ i = k - 1
      <3>1. rest[i] = s[k - 1] /\ s[k - 1] \in Player
        BY <2>2 DEF IsList
      <3>2. link2[rest[i]] = link[s[k]]
        BY <2>2, <3>1
      <3> QED BY <2>2, <3>2 DEF IsList
    <2>3. CASE k # 0 /\ i # k - 1
      <3>1. PICK a \in 0 .. n - 1 : rest[i] = s[a] /\ a = IF i < k THEN i ELSE i + 1
        OBVIOUS
      <3>2. a # k - 1 /\ k - 1 \in 0 .. n - 1
        BY <2>3, <3>1
      <3>3. s[a] # s[k - 1] /\ s[a] \in Player
        BY <3>2 DEF IsList
      <3>4. link2[rest[i]] = link[s[a]]
        BY <2>3, <3>1, <3>3
      <3>5. link[s[a]] = IF a = n - 1 THEN NULL ELSE s[a + 1]
        BY DEF IsList
      <3> QED BY <2>3, <3>1, <3>4, <3>5
    <2> QED BY <2>1, <2>2, <2>3
  <1>6. {rest[i] : i \in 0 .. n - 2} = {s[i] : i \in 0 .. n - 1} \ {s[k]}
    <2>1. ASSUME NEW i \in 0 .. n - 2
          PROVE  \E a \in 0 .. n - 1 : a # k /\ rest[i] = s[a]
      OBVIOUS
    <2>2. ASSUME NEW a \in 0 .. n - 1, a # k
          PROVE  \E i \in 0 .. n - 2 : rest[i] = s[a]
      <3>1. CASE a < k
        BY <3>1
      <3>2. CASE k < a
        <4>1. a - 1 \in 0 .. n - 2 /\ rest[a - 1] = s[a]
          BY <3>2
        <4> QED BY <4>1
      <3> QED BY <2>2, <3>1, <3>2
    <2>3. \A a \in 0 .. n - 1 : a # k => s[a] # s[k]
      BY DEF IsList
    <2> HIDE DEF rest
    <2> QED BY <2>1, <2>2, <2>3
  <1>7. IsList(n - 1, rest, head2, link2)
    <2> HIDE DEF rest
    <2> QED BY <1>1, <1>2, <1>3, <1>4, <1>5 DEF IsList
  <1>8. Elements(n - 1, rest) = Elements(n, s) \ {s[k]}
    BY <1>1, <1>6 DEF Elements
  <1> HIDE DEF rest
  <1> QED BY <1>7, <1>8

(* and one that is pushed comes before them all.                           *)
Linked(link, p, head) == [link EXCEPT ![p] = head]

LEMMA PushOnList ==
    ASSUME NEW n \in Nat, NEW s, NEW head, NEW link \in [Player -> Player \cup {NULL}],
           IsList(n, s, head, link), NEW p \in Player, p \notin Elements(n, s)
    PROVE  \E longer : /\ IsList(n + 1, longer, p, Linked(link, p, head))
                       /\ Elements(n + 1, longer) = Elements(n, s) \cup {p}
  <1> DEFINE longer == [i \in 0 .. n |-> IF i = 0 THEN p ELSE s[i - 1]]
             link2 == Linked(link, p, head)
  <1>0. link2 = [link EXCEPT ![p] = head] /\ \A i \in 0 .. n - 1 : s[i] # p
    BY DEF Elements, Linked
  <1>1. n + 1 \in Nat /\ (n + 1) - 1 = n /\ n + 1 # 0
    OBVIOUS
  <1>2. longer \in [0 .. n -> Player] /\ longer[0] = p
    BY DEF IsList
  <1>3. \A i, j \in 0 .. n : longer[i] = longer[j] => i = j
    BY <1>0 DEF IsList
  <1>4. ASSUME NEW i \in 0 .. n
        PROVE  link2[longer[i]] = IF i = n THEN NULL ELSE longer[i + 1]
    <2>1. CASE i = 0
      <3>1. link2[p] = head
        BY <1>0
      <3>2. longer[i] = p /\ (n # 0 => longer[i + 1] = s[0])
        BY <2>1
      <3> QED BY <2>1, <3>1, <3>2 DEF IsList
    <2>2. CASE i # 0
      <3>1. i - 1 \in 0 .. n - 1 /\ longer[i] = s[i - 1]
        BY <2>2
      <3>2. link2[s[i - 1]] = link[s[i - 1]]
        BY <1>0, <3>1 DEF IsList
      <3> QED BY <2>2, <3>1, <3>2 DEF IsList
    <2> QED BY <2>1, <2>2
  <1>5. {longer[i] : i \in 0 .. n} = {s[i] : i \in 0 .. n - 1} \cup {p}
    <2>1. \A i \in 0 .. n : longer[i] = p \/ \E a \in 0 .. n - 1 : longer[i] = s[a]
      OBVIOUS
    <2>2. \A a \in 0 .. n - 1 : a + 1 \in 0 .. n /\ longer[a + 1] = s[a]
      OBVIOUS
    <2>3. 0 \in 0 .. n /\ longer[0] = p
      OBVIOUS
    <2> HIDE DEF longer
    <2> QED BY <2>1, <2>2, <2>3
  <1>6. IsList(n + 1, longer, p, link2)
    <2> HIDE DEF longer, link2
    <2> QED BY <1>1, <1>2, <1>3, <1>4 DEF IsList
  <1> HIDE DEF longer
  <1> QED BY <1>1, <1>5, <1>6 DEF Elements

(* compatible() is what matchmaker.h says, and the order does not matter.  *)
LEMMA WithinGapIsCompatible ==
    ASSUME NEW p \in Player, NEW q \in Player
    PROVE  WithinGap(p, q) <=> Compatible(p, q)
  <1>1. Skill[p[1]] \in Int /\ Skill[q[1]] \in Int /\ Gap \in Int
    BY ThreadAssumption DEF Player
  <1> DEFINE i == Skill[p[1]]
             j == Skill[q[1]]
  <1>2. (i # j /\ i - j \in -Gap .. Gap) <=> (i # j /\ Distance(i, j) <= Gap)
    <2> HIDE DEF i, j
    <2> QED BY <1>1 DEF Distance, i, j
  <1> QED BY <1>2 DEF WithinGap, Compatible

LEMMA CompatibleIsMutual ==
    ASSUME NEW p \in Player, NEW q \in Player, Compatible(p, q) PROVE Compatible(q, p)
  BY CompatibleIsWithinGap, WithinGapIsCompatible

-----------------------------------------------------------------------------
(* The inductive invariant                                                 *)

Waiters == {Self(t) : t \in {u \in Thread : pc[u] = "waiting"}}

(* The waiting list is a list; it holds the waiters until the stop, and    *)
(* allocated structs until the monitor is destroyed.                       *)
ListIsProper ==
    \E n \in Nat : \E s :
        /\ IsList(n, s, waiting_list, next)
        /\ ~matchmaking_stopped => Elements(n, s) = Waiters
        /\ ~destroyed => Elements(n, s) \subseteq allocated

(* No scan is endless.                                                     *)
NobodySpins == ~spinning /\ \A t \in Thread : pc[t] # "scanning"

(* A thread is woken only if it is matched or has to leave.                *)
WokenForAReason ==
    \A t \in Thread : pc[t] = "woken" => matched[Self(t)] \/ matchmaking_stopped

NoneCompatible ==
    \A t, u \in Thread :
        pc[t] = "waiting" /\ pc[u] = "waiting" => ~Compatible(Self(t), Self(u))

ListInv ==
    /\ IInv
    /\ ListIsProper
    /\ NobodySpins
    /\ WokenForAReason
    /\ NoLostWakeup
    /\ NoneCompatible

-----------------------------------------------------------------------------
(* A step that leaves the list alone keeps the invariant if it puts nobody *)
(* to sleep in findMatch, wakes nobody there without a stop, and frees     *)
(* nothing before the monitor is destroyed.                                *)
LEMMA QuietStepKeepsList ==
    ASSUME ListInv, IInv',
           UNCHANGED <<next, waiting_list, matched>>,
           NobodySpins',
           \A t \in Thread : pc'[t] = "waiting" =>
              pc[t] = "waiting" /\ game'[t] = game[t] /\ ~matchmaking_stopped',
           \A t \in Thread : pc'[t] = "woken" =>
              matchmaking_stopped' \/ (pc[t] = "woken" /\ game'[t] = game[t]),
           ~matchmaking_stopped' =>
              /\ ~matchmaking_stopped
              /\ \A t \in Thread : pc[t] = "waiting" => pc'[t] = "waiting",
           ~destroyed' => ~destroyed /\ allocated \subseteq allocated'
    PROVE  ListInv'
  <1>1. \A t \in Thread : game'[t] = game[t] => Self(t)' = Self(t)
    BY DEF Self
  <1>2. ListIsProper'
    <2>n. PICK n \in Nat : \E s :
            /\ IsList(n, s, waiting_list, next)
            /\ ~matchmaking_stopped => Elements(n, s) = Waiters
            /\ ~destroyed => Elements(n, s) \subseteq allocated
      BY DEF ListInv, ListIsProper
    <2>1. PICK s :
            /\ IsList(n, s, waiting_list, next)
            /\ ~matchmaking_stopped => Elements(n, s) = Waiters
            /\ ~destroyed => Elements(n, s) \subseteq allocated
      BY <2>n
    <2>2. ~matchmaking_stopped' => Waiters' = Waiters
      BY <1>1 DEF Waiters
    <2>3. /\ IsList(n, s, waiting_list', next')
          /\ ~matchmaking_stopped' => Elements(n, s) = Waiters'
          /\ ~destroyed' => Elements(n, s) \subseteq allocated'
      BY <2>1, <2>2
    <2> QED BY <2>3 DEF ListIsProper
  <1>3. WokenForAReason'
    BY <1>1 DEF ListInv, WokenForAReason
  <1>4. NoLostWakeup' /\ NoneCompatible'
    BY <1>1 DEF ListInv, NoLostWakeup, NoneCompatible, Compatible
  <1> QED BY <1>2, <1>3, <1>4 DEF ListInv

(* findMatch finds an opponent: that player leaves the list, and its       *)
(* thread wakes up matched.                                                *)
LEMMA MakePairKeepsList ==
    ASSUME ListInv, IInv', NEW t \in Thread, FindMatch(t), MakePair(t) PROVE ListInv'
  <1>1. /\ pc[t] = "rest" /\ ~matchmaking_stopped /\ ~destroyed
        /\ allocated' = allocated \cup {Self(t)}
        /\ UNCHANGED <<game, matchmaking_stopped, destroyed>>
    BY DEF FindMatch, MutexFree, mainVars
  <1>n. PICK n \in Nat : \E s :
          /\ IsList(n, s, waiting_list, next)
          /\ Elements(n, s) = Waiters
          /\ Elements(n, s) \subseteq allocated
    BY <1>1 DEF ListInv, ListIsProper
  <1>2. PICK s :
          /\ IsList(n, s, waiting_list, next)
          /\ Elements(n, s) = Waiters
          /\ Elements(n, s) \subseteq allocated
    BY <1>n
  <1>3. PICK k \in 0 .. ScanBound :
          /\ Suits(Self(t), Visit[k])
          /\ matched' = [matched EXCEPT ![Self(t)] = TRUE, ![Visit[k]] = TRUE]
          /\ Unlink(k)
          /\ pc' = [u \in Thread |->
                      IF u = t THEN "playing"
                      ELSE IF u = Visit[k][1] /\ pc[u] = "waiting" THEN "woken"
                      ELSE pc[u]]
          /\ UNCHANGED spinning
    BY DEF MakePair
  <1>4. \A i \in Nat : Visit[i] = IF i < n THEN s[i] ELSE NULL
    BY <1>2, VisitFollowsList
  <1>5. ScanBound \in Nat
    BY <1>2, ListedIsList
  <1>6. k \in 0 .. n - 1 /\ Visit[k] = s[k]
    BY <1>3, <1>4, <1>5 DEF Suits
  <1>7. PICK u \in Thread : pc[u] = "waiting" /\ s[k] = Self(u)
    BY <1>2, <1>6 DEF Waiters, Elements
  <1>8. \A x \in Thread :
          pc'[x] = IF x = t THEN "playing" ELSE IF x = u THEN "woken" ELSE pc[x]
    BY <1>1, <1>3, <1>6, <1>7 DEF Self
  <1>9. \A x, y \in Thread : Self(x)' = Self(x) /\ (Self(x) = Self(y) => x = y)
    BY <1>1 DEF Self
  <1>10. ListIsProper'
    <2>1. next \in [Player -> Player \cup {NULL}]
      BY DEF ListInv, IInv, TypeOK
    <2>2. /\ k = 0 => waiting_list' = next[s[0]] /\ next' = next
          /\ k # 0 => /\ waiting_list' = waiting_list
                      /\ next' = [next EXCEPT ![s[k - 1]] = next[s[k]]]
      <3>1. CASE k = 0
        BY <1>3, <1>6, <3>1 DEF Unlink
      <3>2. CASE k # 0
        <4>1. Visit[k - 1] = s[k - 1]
          BY <1>4, <1>6, <3>2
        <4> QED BY <1>3, <1>6, <3>2, <4>1 DEF Unlink
      <3> QED BY <3>1, <3>2
    <2>3. PICK rest :
            /\ IsList(n - 1, rest, waiting_list', next')
            /\ Elements(n - 1, rest) = Elements(n, s) \ {s[k]}
      <3>1. IsList(n, s, waiting_list, next) /\ k \in 0 .. n - 1
        BY <1>2, <1>6
      <3> HIDE DEF IsList, Elements
      <3> QED BY <2>1, <2>2, <3>1, RemoveFromList, SMT
    <2>4. Waiters' = Waiters \ {s[k]}
      BY <1>1, <1>7, <1>8, <1>9 DEF Waiters
    <2>5. n - 1 \in Nat
      BY <1>6
    <2>6. /\ Elements(n - 1, rest) = Waiters'
          /\ Elements(n - 1, rest) \subseteq allocated'
      BY <1>1, <1>2, <2>3, <2>4
    <2> QED BY <2>3, <2>5, <2>6 DEF ListIsProper
  <1>11. NobodySpins'
    BY <1>3, <1>8 DEF ListInv, NobodySpins
  <1>12. Self(t) \in Player /\ Self(u) \in Player /\ matched \in [Player -> BOOLEAN]
         /\ \A x \in Thread : Self(x) \in Player
    BY SelfIsPlayer DEF ListInv, IInv, TypeOK
  <1>13. \A x \in Thread : x # t /\ x # u => matched'[Self(x)] = matched[Self(x)]
    BY <1>3, <1>6, <1>7, <1>9, <1>12
  <1>14. matched'[Self(u)]
    BY <1>3, <1>6, <1>7, <1>12
  <1>15. WokenForAReason'
    BY <1>1, <1>8, <1>9, <1>13, <1>14 DEF ListInv, WokenForAReason
  <1>16. NoLostWakeup' /\ NoneCompatible'
    BY <1>1, <1>8, <1>9, <1>13 DEF ListInv, NoLostWakeup, NoneCompatible, Compatible
  <1> QED BY <1>10, <1>11, <1>15, <1>16 DEF ListInv

(* findMatch finds nobody: the player comes to the head of the list, and   *)
(* does not suit anyone who is there.                                      *)
LEMMA EnqueueKeepsList ==
    ASSUME ListInv, IInv', NEW t \in Thread, FindMatch(t), Enqueue(t) PROVE ListInv'
  <1>1. /\ pc[t] = "rest" /\ ~matchmaking_stopped /\ ~destroyed
        /\ allocated' = allocated \cup {Self(t)}
        /\ UNCHANGED <<game, matchmaking_stopped, destroyed>>
    BY DEF FindMatch, MutexFree, mainVars
  <1>n. PICK n \in Nat : \E s :
          /\ IsList(n, s, waiting_list, next)
          /\ Elements(n, s) = Waiters
          /\ Elements(n, s) \subseteq allocated
    BY <1>1 DEF ListInv, ListIsProper
  <1>2. PICK s :
          /\ IsList(n, s, waiting_list, next)
          /\ Elements(n, s) = Waiters
          /\ Elements(n, s) \subseteq allocated
    BY <1>n
  <1>3. /\ \A i \in 0 .. ScanBound : ~Suits(Self(t), Visit[i])
        /\ next' = [next EXCEPT ![Self(t)] = waiting_list]
        /\ waiting_list' = Self(t)
        /\ pc' = [pc EXCEPT ![t] = "waiting"]
        /\ UNCHANGED <<matched, spinning>>
    BY DEF Enqueue
  <1>4. /\ pc \in [Thread -> Label] /\ next \in [Player -> Player \cup {NULL}]
        /\ \A x \in Thread : Self(x) \in Player
    BY SelfIsPlayer DEF ListInv, IInv, TypeOK
  <1>5. \A x, y \in Thread : Self(x)' = Self(x) /\ (Self(x) = Self(y) => x = y)
    BY <1>1 DEF Self
  <1>6. ListIsProper'
    <2>1. Self(t) \notin Elements(n, s)
      BY <1>1, <1>2, <1>5 DEF Waiters
    <2>2. PICK longer :
            /\ IsList(n + 1, longer, Self(t), next')
            /\ Elements(n + 1, longer) = Elements(n, s) \cup {Self(t)}
      <3>1. IsList(n, s, waiting_list, next)
        BY <1>2
      <3>2. /\ next \in [Player -> Player \cup {NULL}] /\ Self(t) \in Player
            /\ next' = [next EXCEPT ![Self(t)] = waiting_list]
        BY <1>3, <1>4
      <3>3. next' = Linked(next, Self(t), waiting_list)
        BY <3>2 DEF Linked
      <3>4. \E longer :
               /\ IsList(n + 1, longer, Self(t), Linked(next, Self(t), waiting_list))
               /\ Elements(n + 1, longer) = Elements(n, s) \cup {Self(t)}
        BY <2>1, <3>1, <3>2, PushOnList
      <3> QED BY <3>3, <3>4
    <2>3. Waiters' = Waiters \cup {Self(t)}
      BY <1>3, <1>4, <1>5 DEF Waiters
    <2>4. n + 1 \in Nat
      OBVIOUS
    <2>5. /\ Elements(n + 1, longer) = Waiters'
          /\ Elements(n + 1, longer) \subseteq allocated'
      BY <1>1, <1>2, <2>2, <2>3
    <2> QED BY <1>3, <2>2, <2>4, <2>5 DEF ListIsProper
  <1>7. NobodySpins' /\ WokenForAReason'
    BY <1>1, <1>3, <1>4, <1>5 DEF ListInv, NobodySpins, WokenForAReason
  <1>8. ~matched[Self(t)]
    BY <1>1, SelfIsPlayer DEF ListInv, IInv, TypeOK, NothingAhead, Begun
  <1>9. NoLostWakeup'
    BY <1>1, <1>3, <1>4, <1>5, <1>8 DEF ListInv, NoLostWakeup
  <1>10. ASSUME NEW u \in Thread, pc[u] = "waiting"
         PROVE  ~Compatible(Self(t), Self(u)) /\ ~Compatible(Self(u), Self(t))
    <2>1. PICK i \in 0 .. n - 1 : Self(u) = s[i]
      BY <1>2, <1>10 DEF Waiters, Elements
    <2>2. i \in 0 .. ScanBound /\ Visit[i] = s[i]
      <3>1. n <= ScanBound /\ ScanBound \in Nat
        BY <1>2, ListedIsList
      <3>2. \A j \in Nat : Visit[j] = IF j < n THEN s[j] ELSE NULL
        BY <1>2, VisitFollowsList
      <3> QED BY <2>1, <3>1, <3>2
    <2>3. ~matched[Self(u)] /\ Self(u) # NULL
      BY <1>4, <1>10, ThreadAssumption DEF ListInv, NoLostWakeup
    <2>4. ~Compatible(Self(t), Self(u))
      BY <1>3, <2>1, <2>2, <2>3 DEF Suits
    <2> QED BY <1>4, <2>4, CompatibleIsMutual
  <1>11. NoneCompatible'
    <2> SUFFICES ASSUME NEW x \in Thread, NEW y \in Thread,
                        pc'[x] = "waiting", pc'[y] = "waiting"
                 PROVE  ~Compatible(Self(x), Self(y))
      BY <1>5 DEF NoneCompatible, Compatible
    <2>1. CASE x = t /\ y = t
      BY <2>1 DEF Compatible
    <2>2. CASE x # t \/ y # t
      BY <1>3, <1>4, <1>10, <2>2 DEF ListInv, NoneCompatible
    <2> QED BY <2>1, <2>2
  <1> QED BY <1>6, <1>7, <1>9, <1>11 DEF ListInv

(* The list has an end, so no scan is without one.                         *)
LEMMA ScansEnd == ASSUME ListIsProper PROVE ~Cyclic
  <1>n. PICK n \in Nat : \E s : IsList(n, s, waiting_list, next)
    BY DEF ListIsProper
  <1>1. PICK s : IsList(n, s, waiting_list, next)
    BY <1>n
  <1> QED BY <1>1, ListedIsList

LEMMA FindMatchKeepsList ==
    ASSUME ListInv, IInv', NEW t \in Thread, FindMatch(t) PROVE ListInv'
  <1>1. MakePair(t) \/ Enqueue(t)
    BY ScansEnd DEF ListInv, FindMatch, Search, ScanForever
  <1> QED BY <1>1, MakePairKeepsList, EnqueueKeepsList

LEMMA FindMatchRefusedKeepsList ==
    ASSUME ListInv, IInv', NEW t \in Thread, FindMatchRefused(t) PROVE ListInv'
  <1>1. /\ pc[t] = "rest" /\ matchmaking_stopped
        /\ pc' = [pc EXCEPT ![t] = "exited"]
        /\ UNCHANGED <<game, allocated, next, matched, waiting_list,
                       matchmaking_stopped, destroyed, spinning>>
    BY DEF FindMatchRefused, fieldVars, mainVars
  <1>2. pc \in [Thread -> Label]
    BY DEF ListInv, IInv, TypeOK
  <1>3. \A u \in Thread : pc'[u] = IF u = t THEN "exited" ELSE pc[u]
    BY <1>1, <1>2
  <1>4. NobodySpins'
    BY <1>1, <1>3 DEF ListInv, NobodySpins
  <1>5. \A u \in Thread : pc[u] # "waiting"
    BY <1>1 DEF ListInv, NoLostWakeup
  <1>6. ~destroyed' => ~destroyed /\ allocated \subseteq allocated'
    BY <1>1
  <1> QED BY <1>1, <1>3, <1>4, <1>5, <1>6, QuietStepKeepsList

(* A thread that is woken does not search again: it is matched, or the     *)
(* matchmaking is stopped.                                                 *)
LEMMA WakeInFindMatchKeepsList ==
    ASSUME ListInv, IInv', NEW t \in Thread, WakeInFindMatch(t) PROVE ListInv'
  <1>1. PICK l \in {"playing", "exited"} : pc' = [pc EXCEPT ![t] = l]
    BY DEF WakeInFindMatch, ListInv, WokenForAReason
  <1>2. UNCHANGED <<game, allocated, next, matched, waiting_list,
                    matchmaking_stopped, destroyed, spinning>> /\ pc[t] = "woken"
    BY DEF WakeInFindMatch, AfterReturn, mainVars, ListInv, WokenForAReason
  <1>3. pc \in [Thread -> Label]
    BY DEF ListInv, IInv, TypeOK
  <1>4. \A u \in Thread : pc'[u] = IF u = t THEN l ELSE pc[u]
    BY <1>1, <1>3
  <1>5. NobodySpins'
    BY <1>2, <1>4 DEF ListInv, NobodySpins
  <1>6. \A u \in Thread : pc'[u] = "waiting" => pc[u] = "waiting" /\ ~matchmaking_stopped'
    BY <1>2, <1>4 DEF ListInv, NoLostWakeup
  <1>7. \A u \in Thread : pc'[u] = "woken" => pc[u] = "woken"
    BY <1>4
  <1>8. \A u \in Thread : pc[u] = "waiting" => pc'[u] = "waiting"
    BY <1>2, <1>4
  <1>9. ~destroyed' => ~destroyed /\ allocated \subseteq allocated'
    BY <1>2
  <1> QED BY <1>2, <1>5, <1>6, <1>7, <1>8, <1>9, QuietStepKeepsList

(* donePlaying has no business with the waiting list.                      *)
LEMMA DonePlayingKeepsList ==
    ASSUME ListInv, IInv', NEW t \in Thread, DonePlaying(t) \/ WakeInDonePlaying(t)
    PROVE  ListInv'
  <1>1. /\ pc[t] \in {"playing", "doneWoken"}
        /\ UNCHANGED <<allocated, next, matched, waiting_list,
                       matchmaking_stopped, destroyed, spinning>>
        /\ \/ pc' = [pc EXCEPT ![t] = "doneWait"] /\ UNCHANGED game
           \/ LeaveGame(t)
    BY DEF DonePlaying, WakeInDonePlaying, fieldVars, mainVars
  <1>2. pc \in [Thread -> Label] /\ game \in [Thread -> 1 .. MaxGames]
    BY DEF ListInv, IInv, TypeOK
  <1>3. \A u \in Thread : u # t =>
          /\ game'[u] = game[u]
          /\ pc'[u] = pc[u] \/ (pc[u] = "doneWait" /\ pc'[u] = "doneWoken")
    BY <1>1, <1>2 DEF LeaveGame
  <1>4. pc'[t] \in {"doneWait", "rest", "exited"}
    BY <1>1, <1>2 DEF LeaveGame
  <1>5. NobodySpins'
    BY <1>1, <1>3, <1>4 DEF ListInv, NobodySpins
  <1>6. \A u \in Thread : pc'[u] = "waiting" =>
          pc[u] = "waiting" /\ game'[u] = game[u] /\ ~matchmaking_stopped'
    BY <1>1, <1>3, <1>4 DEF ListInv, NoLostWakeup
  <1>7. \A u \in Thread : pc'[u] = "woken" => pc[u] = "woken" /\ game'[u] = game[u]
    BY <1>3, <1>4
  <1>8. \A u \in Thread : pc[u] = "waiting" => pc'[u] = "waiting"
    BY <1>1, <1>3
  <1>9. ~destroyed' => ~destroyed /\ allocated \subseteq allocated'
    BY <1>1
  <1> QED BY <1>1, <1>5, <1>6, <1>7, <1>8, <1>9, QuietStepKeepsList

(* stopMatchmaking comes to the end of the list, and wakes everybody who   *)
(* waits in findMatch: all of them are listed.                             *)
LEMMA StopMatchmakingKeepsList ==
    ASSUME ListInv, IInv', StopMatchmaking PROVE ListInv'
  <1>1. /\ ~matchmaking_stopped /\ matchmaking_stopped'
        /\ spinning' = Cyclic
        /\ pc' = [t \in Thread |->
                    IF pc[t] = "waiting" /\ Self(t) \in Listed THEN "woken"
                    ELSE IF pc[t] = "doneWait" THEN "doneWoken"
                    ELSE pc[t]]
        /\ UNCHANGED <<game, allocated, next, matched, waiting_list, destroyed>>
    BY DEF StopMatchmaking, fieldVars
  <1>2. \A t \in Thread : pc[t] = "waiting" => Self(t) \in Listed
    <2>n. PICK n \in Nat : \E s :
            IsList(n, s, waiting_list, next) /\ Elements(n, s) = Waiters
      BY <1>1 DEF ListInv, ListIsProper
    <2>1. PICK s : IsList(n, s, waiting_list, next) /\ Elements(n, s) = Waiters
      BY <2>n
    <2>2. Listed = Waiters
      BY <2>1, ListedIsList
    <2> QED BY <2>2 DEF Waiters
  <1>3. NobodySpins'
    BY <1>1, ScansEnd DEF ListInv, NobodySpins
  <1>4. \A t \in Thread : pc'[t] # "waiting"
    BY <1>1, <1>2
  <1>5. ~destroyed' => ~destroyed /\ allocated \subseteq allocated'
    BY <1>1
  <1> QED BY <1>1, <1>3, <1>4, <1>5, QuietStepKeepsList

(* When the monitor is destroyed, nobody uses the list any more.           *)
LEMMA DestroyMonitorKeepsList ==
    ASSUME ListInv, IInv', DestroyMonitor PROVE ListInv'
  <1>1. /\ matchmaking_stopped /\ matchmaking_stopped' /\ destroyed'
        /\ \A t \in Thread : pc[t] = "exited"
        /\ UNCHANGED <<pc, game, next, matched, waiting_list, spinning>>
    BY DEF DestroyMonitor, callVars, fieldVars
  <1>2. NobodySpins'
    BY <1>1 DEF ListInv, NobodySpins
  <1>3. \A t \in Thread : pc'[t] \notin {"waiting", "woken"}
    BY <1>1
  <1> QED BY <1>1, <1>2, <1>3, QuietStepKeepsList

-----------------------------------------------------------------------------
(* The empty list of initMonitor                                           *)
LEMMA InitList == Init => ListInv
  <1> SUFFICES ASSUME Init PROVE ListInv
    OBVIOUS
  <1>1. ListIsProper
    <2> DEFINE empty == [i \in 0 .. -1 |-> NULL]
    <2>1. IsList(0, empty, waiting_list, next)
      <3>1. 0 .. 0 - 1 = {}
        OBVIOUS
      <3>2. empty \in [0 .. 0 - 1 -> Player]
        BY <3>1
      <3> HIDE DEF empty
      <3> QED BY <3>1, <3>2 DEF Init, IsList
    <2>2. Elements(0, empty) = {} /\ Waiters = {}
      BY DEF Elements, Waiters, Init
    <2> QED BY <2>1, <2>2 DEF ListIsProper
  <1>2. NobodySpins /\ WokenForAReason /\ NoLostWakeup /\ NoneCompatible
    BY DEF Init, NobodySpins, WokenForAReason, NoLostWakeup, NoneCompatible
  <1> QED BY <1>1, <1>2, InitInv DEF ListInv

LEMMA NextList == ASSUME ~Spurious, ListInv, [Next]_vars PROVE ListInv'
  <1>1. IInv'
    BY NextInv DEF ListInv
  <1>2. ASSUME NEW t \in Thread, ThreadStep(t) PROVE ListInv'
    BY <1>1, <1>2, FindMatchKeepsList, FindMatchRefusedKeepsList,
       WakeInFindMatchKeepsList, DonePlayingKeepsList DEF ThreadStep
  <1>3. CASE UNCHANGED vars
    <2>1. UNCHANGED <<pc, game, allocated, next, matched, waiting_list,
                      matchmaking_stopped, destroyed, spinning>>
      BY <1>3 DEF vars
    <2>2. NobodySpins'
      BY <2>1 DEF ListInv, NobodySpins
    <2>3. \A t \in Thread : pc'[t] = "waiting" => ~matchmaking_stopped'
      BY <2>1 DEF ListInv, NoLostWakeup
    <2>4. CASE matchmaking_stopped
      BY <1>1, <2>1, <2>2, <2>3, <2>4, QuietStepKeepsList
    <2>5. CASE ~matchmaking_stopped
      BY <1>1, <2>1, <2>2, <2>3, <2>5, QuietStepKeepsList
    <2> QED BY <2>4, <2>5
  <1> QED BY <1>1, <1>2, <1>3, StopMatchmakingKeepsList, DestroyMonitorKeepsList
          DEF Next, Terminated, SpuriousWakeup

THEOREM ListInvariantHolds == ASSUME ~Spurious PROVE Spec => []ListInv
  BY InitList, NextList, PTL DEF Spec

(* While matchmaking runs, the waiting list is a proper list of exactly    *)
(* the players whose threads are blocked in findMatch.                     *)
THEOREM ListHoldsWaiters == ASSUME ~Spurious PROVE Spec => []ListIsWaiters
  <1>1. ListInv => ListIsWaiters
    <2> SUFFICES ASSUME ListInv, ~matchmaking_stopped
                 PROVE  ~Cyclic /\ Listed = Waiters
      BY DEF ListIsWaiters, Waiters
    <2>n. PICK n \in Nat : \E s :
            IsList(n, s, waiting_list, next) /\ Elements(n, s) = Waiters
      BY DEF ListInv, ListIsProper
    <2>1. PICK s : IsList(n, s, waiting_list, next) /\ Elements(n, s) = Waiters
      BY <2>n
    <2> QED BY <2>1, ListedIsList
  <1> QED BY <1>1, ListInvariantHolds, PTL

(* No scan, stop or destruction follows a pointer to a freed struct.       *)
THEOREM ListStaysAllocated == ASSUME ~Spurious PROVE Spec => []ListAllocated
  <1>1. ListInv => ListAllocated
    <2> SUFFICES ASSUME ListInv, ~destroyed PROVE Listed \subseteq allocated
      BY DEF ListAllocated
    <2>n. PICK n \in Nat : \E s :
            IsList(n, s, waiting_list, next) /\ Elements(n, s) \subseteq allocated
      BY DEF ListInv, ListIsProper
    <2>1. PICK s : IsList(n, s, waiting_list, next) /\ Elements(n, s) \subseteq allocated
      BY <2>n
    <2> QED BY <2>1, ListedIsList
  <1> QED BY <1>1, ListInvariantHolds, PTL

(* A thread that sleeps in findMatch has neither been matched nor missed   *)
(* the stop: both signals reach it through the list.                       *)
THEOREM NoWakeupIsLost == ASSUME ~Spurious PROVE Spec => []NoLostWakeup
  <1>1. ListInv => NoLostWakeup
    BY DEF ListInv
  <1> QED BY <1>1, ListInvariantHolds, PTL

(* Two players that could play each other never wait at the same time: the *)
(* later one would have found the earlier one on the list.                 *)
THEOREM NoMatchIsMissed == ASSUME ~Spurious PROVE Spec => []NoMissedMatch
  <1>1. ListInv => NoMissedMatch
    BY SelfIsPlayer, WithinGapIsCompatible
       DEF ListInv, IInv, NoneCompatible, NoMissedMatch
  <1> QED BY <1>1, ListInvariantHolds, PTL

(* Every thread reaches the end of the list it scans, so none keeps        *)
(* monitor_mutex for good.                                                 *)
THEOREM EveryScanEnds == ASSUME ~Spurious PROVE Spec => []~spinning
  <1>1. ListInv => ~spinning
    BY DEF ListInv, NobodySpins
  <1> QED BY <1>1, ListInvariantHolds, PTL
=============================================================================
