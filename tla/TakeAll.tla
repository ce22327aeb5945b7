------------------------------ MODULE TakeAll ------------------------------
(***************************************************************************)
(* The monitor of assignments/hw5/takeAll.c: a chef takes all the          *)
(* appliances it needs at once, or waits on applianceCond until somebody   *)
(* gives some back.  applianceLock is held throughout                      *)
(* wait_and_acquire_appliances and release_appliances except in            *)
(* pthread_cond_wait, so a call is one step up to a wait.                  *)
(***************************************************************************)
EXTENDS Integers, FiniteSets, TLAPS

CONSTANTS
    Chef,
    Appliance,
    Needed      \* Needed[c]: the appliances chef c passes in its list

ASSUME NeededAssumption == Needed \in [Chef -> (SUBSET Appliance) \ {{}}]

(* The array `needed' of each of the ten chefs, of which the program is an *)
(* instance; and six of them, whom TLC explores.                           *)
NeededList == [
    Tad |-> {"griddle", "grill", "microwave"},
    Merry |-> {"mixer", "oven", "blender"},
    Charles |-> {"coffeeMaker", "griddle"},
    Merlin |-> {"blender", "mixer"},
    Lyn |-> {"griddle", "fryer"},
    Marian |-> {"coffeeMaker", "microwave", "oven"},
    Summer |-> {"fryer", "blender", "coffeeMaker"},
    Sammy |-> {"grill", "fryer"},
    Lura |-> {"microwave", "mixer"},
    Ginny |-> {"grill", "oven"}]

SomeChefs == {"Tad", "Merry", "Merlin", "Marian", "Summer", "Lura"}
NeededBySome == [c \in SomeChefs |-> NeededList[c]]
Appliances8 == UNION {NeededList[c] : c \in DOMAIN NeededList}

VARIABLES
    stage,          \* what each chef is doing
    applianceInUse,
    running

vars == <<stage, applianceInUse, running>>

Stage == {
    "resting",      \* or about to test `running'
    "acquiring",    \* calling wait_and_acquire_appliances
    "waiting",      \* blocked on applianceCond
    "woken",        \* no longer blocked, not yet running
    "cooking",
    "exited"}

TypeOK ==
    /\ stage \in [Chef -> Stage]
    /\ applianceInUse \in [Appliance -> BOOLEAN]
    /\ running \in BOOLEAN

Init ==
    /\ stage = [c \in Chef |-> "resting"]
    /\ applianceInUse = [a \in Appliance |-> FALSE]
    /\ running = TRUE

NextDish(c) ==
    /\ stage[c] = "resting"
    /\ stage' = [stage EXCEPT ![c] = IF running THEN "acquiring" ELSE "exited"]
    /\ UNCHANGED <<applianceInUse, running>>

SomeAvailable(c) == \E a \in Needed[c] : ~applianceInUse[a]     \* mutant: any will do
AllAvailable(c) == \A a \in Needed[c] : ~applianceInUse[a]

(* One lap of the loop of wait_and_acquire_appliances.                     *)
TryAll(c) ==
    /\ stage[c] \in {"acquiring", "woken"}
    /\ \/ /\ AllAvailable(c)
          /\ applianceInUse' = [a \in Appliance |-> a \in Needed[c] \/ applianceInUse[a]]
          /\ stage' = [stage EXCEPT ![c] = "cooking"]
       \/ /\ ~AllAvailable(c)
          /\ stage' = [stage EXCEPT ![c] = "waiting"]
          /\ UNCHANGED applianceInUse
    /\ UNCHANGED running

Silent(st) == st                    \* mutant: no wakeup at all
Signal(st) ==                       \* mutant: wakes one chef
    IF \E d \in Chef : st[d] = "waiting"
      THEN [st EXCEPT ![CHOOSE d \in Chef : st[d] = "waiting"] = "woken"]
      ELSE st

(* pthread_cond_broadcast                                                  *)
Broadcast(st) == [d \in Chef |-> IF st[d] = "waiting" THEN "woken" ELSE st[d]]

FirstKept(c) == {CHOOSE a \in Needed[c] : TRUE}     \* mutant: a loop from 1
Kept(c) == {}

(* cook is over: release_appliances.                                       *)
ReleaseAll(c) ==
    /\ stage[c] = "cooking"
    /\ applianceInUse' =
          [a \in Appliance |-> applianceInUse[a] /\ a \notin Needed[c] \ Kept(c)]
    /\ stage' = Broadcast([stage EXCEPT ![c] = "resting"])
    /\ UNCHANGED running

(* pthread_cond_wait may also return by itself.                            *)
SpuriousWakeup(c) ==
    /\ stage[c] = "waiting"
    /\ stage' = [stage EXCEPT ![c] = "woken"]
    /\ UNCHANGED <<applianceInUse, running>>

AskToStop ==
    /\ running
    /\ running' = FALSE
    /\ UNCHANGED <<stage, applianceInUse>>

AllExited == \A c \in Chef : stage[c] = "exited"
Joined == AllExited /\ UNCHANGED vars

Step(c) == NextDish(c) \/ TryAll(c) \/ ReleaseAll(c)

Next == AskToStop \/ Joined \/ \E c \in Chef : Step(c) \/ SpuriousWakeup(c)

Fairness == WF_vars(AskToStop) /\ \A c \in Chef : WF_vars(Step(c))

Spec == Init /\ [][Next]_vars
FairSpec == Spec /\ Fairness

-----------------------------------------------------------------------------
(* Properties                                                              *)

(* An appliance is marked in use exactly while a chef that needs it cooks, *)
(* and no two of them cook at once.                                        *)
MarksAreExact ==
    /\ \A a \in Appliance :
          applianceInUse[a] <=> \E c \in Chef : stage[c] = "cooking" /\ a \in Needed[c]
    /\ \A c, d \in Chef :
          c # d /\ stage[c] = "cooking" /\ stage[d] = "cooking"
            => Needed[c] \cap Needed[d] = {}

(* No wakeup is lost: a chef sleeps only while somebody cooks with an      *)
(* appliance it needs, and will wake it (release_appliances broadcasts).   *)
SleepersHaveReason ==
    \A c \in Chef : stage[c] = "waiting" =>
        \E d \in Chef : stage[d] = "cooking" /\ Needed[c] \cap Needed[d] # {}

(* Every chef ends after main clears `running', so main's joins return.    *)
ChefsQuit == <>AllExited

Conflict(c, d) == Needed[c] \cap Needed[d] # {}

Cooking == {c \in Chef : stage[c] = "cooking"}

Appliances == INSTANCE SharedAppliances WITH busy <- Cooking

(* The monitor implements the shared appliances: it never lets two chefs   *)
(* with a common appliance cook at the same time.                          *)
ImplementsAppliances == Appliances!AppliancesSpec

-----------------------------------------------------------------------------
(* Proofs, for every set of chefs and of needed appliances.                *)

(* The inductive invariant: SleepersHaveReason rests on MarksAreExact, as  *)
(* a chef falls asleep over a mark and not over a chef.                    *)
IInv == TypeOK /\ MarksAreExact /\ SleepersHaveReason

LEMMA InitInv == Init => IInv
  BY DEF Init, IInv, TypeOK, Stage, MarksAreExact, SleepersHaveReason

LEMMA NextDishKeepsInv ==
    ASSUME IInv, NEW c \in Chef, NextDish(c) PROVE IInv'
  <1>1. /\ stage[c] = "resting"
        /\ \E s \in {"acquiring", "exited"} : stage' = [stage EXCEPT ![c] = s]
        /\ UNCHANGED <<applianceInUse, running>>
    BY DEF NextDish
  <1>2. /\ \A d \in Chef : stage'[d] = "cooking" <=> stage[d] = "cooking"
        /\ \A d \in Chef : stage'[d] = "waiting" <=> stage[d] = "waiting"
    BY <1>1 DEF IInv, TypeOK
  <1>3. TypeOK'
    BY <1>1 DEF IInv, TypeOK, Stage
  <1>4. MarksAreExact'
    BY <1>1, <1>2 DEF IInv, MarksAreExact
  <1>5. SleepersHaveReason'
    BY <1>1, <1>2 DEF IInv, SleepersHaveReason
  <1> QED BY <1>3, <1>4, <1>5 DEF IInv

(* Taking all: what is free of marks is free of cooks.                     *)
LEMMA TakeKeepsInv ==
    ASSUME IInv, NEW c \in Chef, TryAll(c), AllAvailable(c) PROVE IInv'
  <1>1. /\ stage[c] \in {"acquiring", "woken"}
        /\ applianceInUse' = [a \in Appliance |-> a \in Needed[c] \/ applianceInUse[a]]
        /\ stage' = [stage EXCEPT ![c] = "cooking"]
        /\ UNCHANGED running
    BY DEF TryAll
  <1>n. \A d \in Chef : Needed[d] \subseteq Appliance
    BY NeededAssumption
  <1>2. /\ \A d \in Chef : stage'[d] = "cooking" <=> d = c \/ stage[d] = "cooking"
        /\ \A d \in Chef : stage'[d] = "waiting" <=> stage[d] = "waiting"
    BY <1>1 DEF IInv, TypeOK
  <1>3. TypeOK'
    <2>1. stage' \in [Chef -> Stage]
      BY <1>1 DEF IInv, TypeOK, Stage
    <2>2. applianceInUse' \in [Appliance -> BOOLEAN]
      <3>1. \A a \in Appliance : (a \in Needed[c] \/ applianceInUse[a]) \in BOOLEAN
        BY Zenon
      <3> QED BY Zenon, <1>1, <3>1
    <2> QED BY <1>1, <2>1, <2>2 DEF IInv, TypeOK
  <1>4. MarksAreExact'
    <2>1. \A d \in Chef : stage[d] = "cooking" => Needed[c] \cap Needed[d] = {}
      BY <1>n DEF AllAvailable, IInv, MarksAreExact
    <2>2. \A a \in Appliance :
             applianceInUse'[a]
               <=> \E d \in Chef : stage'[d] = "cooking" /\ a \in Needed[d]
      <3> SUFFICES ASSUME NEW a \in Appliance
                   PROVE  applianceInUse'[a]
                            <=> \E d \in Chef : stage'[d] = "cooking" /\ a \in Needed[d]
        OBVIOUS
      <3>1. applianceInUse'[a] <=> a \in Needed[c] \/ applianceInUse[a]
        BY Zenon, <1>1
      <3>2. applianceInUse[a] <=> \E d \in Chef : stage[d] = "cooking" /\ a \in Needed[d]
        BY DEF IInv, MarksAreExact
      <3> QED BY Zenon, <1>2, <3>1, <3>2
    <2> QED BY <1>2, <2>1, <2>2 DEF IInv, MarksAreExact
  <1>5. SleepersHaveReason'
    BY <1>2 DEF IInv, SleepersHaveReason
  <1> QED BY <1>3, <1>4, <1>5 DEF IInv

(* Falling asleep: some needed appliance is marked, so somebody cooks.     *)
LEMMA SleepKeepsInv ==
    ASSUME IInv, NEW c \in Chef, TryAll(c), ~AllAvailable(c) PROVE IInv'
  <1>1. /\ stage[c] \in {"acquiring", "woken"}
        /\ stage' = [stage EXCEPT ![c] = "waiting"]
        /\ UNCHANGED <<applianceInUse, running>>
    BY DEF TryAll
  <1>2. /\ \A d \in Chef : stage'[d] = "cooking" <=> stage[d] = "cooking"
        /\ \A d \in Chef : stage'[d] = "waiting" <=> d = c \/ stage[d] = "waiting"
    BY <1>1 DEF IInv, TypeOK
  <1>3. TypeOK'
    BY <1>1 DEF IInv, TypeOK, Stage
  <1>4. MarksAreExact'
    BY <1>1, <1>2 DEF IInv, MarksAreExact
  <1>5. \E d \in Chef : stage[d] = "cooking" /\ Needed[c] \cap Needed[d] # {}
    <2>1. PICK a \in Needed[c] : applianceInUse[a]
      BY DEF AllAvailable
    <2>2. a \in Appliance
      BY NeededAssumption
    <2> QED BY <2>1, <2>2 DEF IInv, MarksAreExact
  <1>6. SleepersHaveReason'
    BY <1>2, <1>5 DEF IInv, SleepersHaveReason
  <1> QED BY <1>3, <1>4, <1>6 DEF IInv

(* Giving back: the marks of the other cooks stay, and nobody sleeps on.   *)
LEMMA ReleaseKeepsInv ==
    ASSUME IInv, NEW c \in Chef, ReleaseAll(c) PROVE IInv'
  <1> DEFINE rested == [stage EXCEPT ![c] = "resting"]
  <1>1. /\ stage[c] = "cooking"
        /\ applianceInUse' = [a \in Appliance |-> applianceInUse[a] /\ a \notin Needed[c]]
        /\ stage' = [d \in Chef |-> IF rested[d] = "waiting" THEN "woken" ELSE rested[d]]
        /\ UNCHANGED running
    BY DEF ReleaseAll, Broadcast, Kept
  <1>2. /\ \A d \in Chef : stage'[d] = "cooking" <=> d # c /\ stage[d] = "cooking"
        /\ \A d \in Chef : stage'[d] # "waiting"
    BY <1>1 DEF IInv, TypeOK
  <1>3. TypeOK'
    <2>1. stage' \in [Chef -> Stage]
      BY <1>1 DEF IInv, TypeOK, Stage
    <2>2. applianceInUse' \in [Appliance -> BOOLEAN]
      <3>1. \A a \in Appliance : (applianceInUse[a] /\ a \notin Needed[c]) \in BOOLEAN
        BY Zenon
      <3> QED BY Zenon, <1>1, <3>1
    <2> QED BY <1>1, <2>1, <2>2 DEF IInv, TypeOK
  <1>4. MarksAreExact'
    <2>1. \A d \in Chef : d # c /\ stage[d] = "cooking" => Needed[c] \cap Needed[d] = {}
      BY <1>1 DEF IInv, MarksAreExact
    <2>2. \A a \in Appliance :
             applianceInUse'[a]
               <=> \E d \in Chef : stage'[d] = "cooking" /\ a \in Needed[d]
      <3> SUFFICES ASSUME NEW a \in Appliance
                   PROVE  applianceInUse'[a]
                            <=> \E d \in Chef : stage'[d] = "cooking" /\ a \in Needed[d]
        OBVIOUS
      <3>1. applianceInUse'[a] <=> applianceInUse[a] /\ a \notin Needed[c]
        BY Zenon, <1>1
      <3>2. applianceInUse[a] <=> \E d \in Chef : stage[d] = "cooking" /\ a \in Needed[d]
        BY DEF IInv, MarksAreExact
      <3>3. \A d \in Chef : d # c /\ stage[d] = "cooking" /\ a \in Needed[d] => a \notin Needed[c]
        BY <2>1
      <3> QED BY Zenon, <1>2, <3>1, <3>2, <3>3
    <2> QED BY <1>2, <2>2 DEF IInv, MarksAreExact
  <1>5. SleepersHaveReason'
    BY <1>2 DEF SleepersHaveReason
  <1> QED BY <1>3, <1>4, <1>5 DEF IInv

LEMMA WakeupKeepsInv ==
    ASSUME IInv, NEW c \in Chef, SpuriousWakeup(c) PROVE IInv'
  <1>1. /\ stage[c] = "waiting"
        /\ stage' = [stage EXCEPT ![c] = "woken"]
        /\ UNCHANGED <<applianceInUse, running>>
    BY DEF SpuriousWakeup
  <1>2. /\ \A d \in Chef : stage'[d] = "cooking" <=> stage[d] = "cooking"
        /\ \A d \in Chef : stage'[d] = "waiting" => stage[d] = "waiting"
    BY <1>1 DEF IInv, TypeOK
  <1>3. TypeOK'
    BY <1>1 DEF IInv, TypeOK, Stage
  <1>4. MarksAreExact'
    BY <1>1, <1>2 DEF IInv, MarksAreExact
  <1>5. SleepersHaveReason'
    BY <1>1, <1>2 DEF IInv, SleepersHaveReason
  <1> QED BY <1>3, <1>4, <1>5 DEF IInv

LEMMA NextInv == IInv /\ [Next]_vars => IInv'
  <1> SUFFICES ASSUME IInv, [Next]_vars PROVE IInv'
    OBVIOUS
  <1>1. CASE AskToStop
    BY <1>1 DEF AskToStop, IInv, TypeOK, MarksAreExact, SleepersHaveReason
  <1>2. CASE UNCHANGED vars
    BY <1>2 DEF vars, IInv, TypeOK, MarksAreExact, SleepersHaveReason
  <1> QED BY <1>1, <1>2, NextDishKeepsInv, TakeKeepsInv, SleepKeepsInv, ReleaseKeepsInv,
             WakeupKeepsInv
          DEF Next, Joined, Step

THEOREM InvariantHolds == Spec => []IInv
  BY InitInv, NextInv, PTL DEF Spec

(* The marks say exactly which appliances the cooking chefs use, and no    *)
(* two of them use the same (the test and the marks of                     *)
(* wait_and_acquire_appliances are one critical section).                  *)
THEOREM MarksStayExact == Spec => []MarksAreExact
  <1>1. IInv => MarksAreExact
    BY DEF IInv
  <1> QED BY <1>1, InvariantHolds, PTL

(* release_appliances never leaves a chef asleep without a reason.         *)
THEOREM NoWakeupIsLost == Spec => []SleepersHaveReason
  <1>1. IInv => SleepersHaveReason
    BY DEF IInv
  <1> QED BY <1>1, InvariantHolds, PTL

-----------------------------------------------------------------------------
(* Refinement.                                                             *)

LEMMA StepRefines ==
    ASSUME IInv, IInv', NEW c \in Chef, Step(c) \/ SpuriousWakeup(c)
    PROVE  [Appliances!AppliancesNext]_Cooking
  <1>t. stage \in [Chef -> Stage]
    BY DEF IInv, TypeOK
  <1>1. CASE NextDish(c) \/ SpuriousWakeup(c) \/ (TryAll(c) /\ ~AllAvailable(c))
    <2>1. Cooking' = Cooking
      BY <1>t, <1>1 DEF NextDish, SpuriousWakeup, TryAll, Cooking
    <2> QED BY <2>1
  <1>2. CASE TryAll(c) /\ AllAvailable(c)
    <2>1. stage' = [stage EXCEPT ![c] = "cooking"] /\ stage[c] # "cooking"
      BY <1>2 DEF TryAll
    <2>2. Cooking' = Cooking \cup {c} /\ c \notin Cooking
      BY <1>t, <2>1 DEF Cooking
    <2>3. \A d \in Cooking : ~Conflict(c, d)
      <3> SUFFICES ASSUME NEW d \in Cooking PROVE Needed[c] \cap Needed[d] = {}
        BY DEF Conflict
      <3>1. d \in Chef /\ d # c /\ stage'[d] = "cooking" /\ stage'[c] = "cooking"
        BY <1>t, <2>1, <2>2 DEF Cooking
      <3> QED BY <3>1 DEF IInv, MarksAreExact
    <2> QED BY <2>2, <2>3 DEF Appliances!AppliancesNext, Appliances!StartCooking
  <1>3. CASE ReleaseAll(c)
    <2>1. Cooking' = Cooking \ {c} /\ c \in Cooking
      BY <1>t, <1>3 DEF ReleaseAll, Broadcast, Cooking
    <2> QED BY <2>1 DEF Appliances!AppliancesNext, Appliances!StopCooking
  <1> QED BY <1>1, <1>2, <1>3 DEF Step

(* The monitor of takeAll.c implements the shared appliances.              *)
THEOREM MonitorImplementsAppliances == Spec => ImplementsAppliances
  <1>1. Init => Appliances!AppliancesInit
    BY DEF Init, Cooking, Appliances!AppliancesInit
  <1>2. IInv /\ IInv' /\ [Next]_vars => [Appliances!AppliancesNext]_Cooking
    <2> SUFFICES ASSUME IInv, IInv', [Next]_vars
                 PROVE  [Appliances!AppliancesNext]_Cooking
      OBVIOUS
    <2>1. CASE UNCHANGED stage
      BY <2>1 DEF Cooking
    <2> QED BY <2>1, StepRefines DEF Next, AskToStop, Joined, vars
  <1> QED BY <1>1, <1>2, InvariantHolds, PTL
          DEF Spec, ImplementsAppliances, Appliances!AppliancesSpec
=============================================================================
