--------------------------- MODULE MCHoldAndWait ---------------------------
(* The four lock programs as instances of HoldAndWait: what the ten chefs  *)
(* of assignments/hw5 and the ten threads of exercises/ex09 need, and the  *)
(* order in which each program takes it.                                   *)
EXTENDS HoldAndWait, FiniteSetTheorems, WellFoundedInduction, TLAPS, TLC

-----------------------------------------------------------------------------
(* kitchen.c: an order of each chef's own.                                 *)

Tad == <<"griddle", "grill", "microwave">>
Merry == <<"mixer", "oven", "blender">>
Charles == <<"coffeeMaker", "griddle">>
Merlin == <<"blender", "mixer">>
Lyn == <<"griddle", "fryer">>
Marian == <<"coffeeMaker", "microwave", "oven">>
Summer == <<"fryer", "blender", "coffeeMaker">>
Sammy == <<"grill", "fryer">>
Lura == <<"microwave", "mixer">>
Ginny == <<"grill", "oven">>

(* chefList                                                                *)
KitchenOrder == [
    Tad |-> Tad,
    Merry |-> Merry,
    Charles |-> Charles,
    Merlin |-> Merlin,
    Lyn |-> Lyn,
    Marian |-> Marian,
    Summer |-> Summer,
    Sammy |-> Sammy,
    Lura |-> Lura,
    Ginny |-> Ginny]

-----------------------------------------------------------------------------
(* ordered.c: each chef sorts the appliances it needs first.               *)

(* enum Appliance                                                          *)
ApplianceEnum ==
    <<"blender", "griddle", "fryer", "grill", "mixer", "coffeeMaker", "oven", "microwave">>

Rank == [a \in {ApplianceEnum[i] : i \in 1 .. Len(ApplianceEnum)} |->
            CHOOSE i \in 1 .. Len(ApplianceEnum) : ApplianceEnum[i] = a]

(* The array `needed' of each chef.                                        *)
NeededArray == [
    Tad |-> <<"griddle", "grill", "microwave">>,
    Merry |-> <<"mixer", "oven", "blender">>,
    Charles |-> <<"coffeeMaker", "griddle">>,
    Merlin |-> <<"blender", "mixer">>,
    Lyn |-> <<"griddle", "fryer">>,
    Marian |-> <<"coffeeMaker", "microwave", "oven">>,
    Summer |-> <<"fryer", "blender", "coffeeMaker">>,
    Sammy |-> <<"grill", "fryer">>,
    Lura |-> <<"microwave", "mixer">>,
    Ginny |-> <<"grill", "oven">>]

Unsorted(list) == list          \* mutant: without the exchange sort

(* The exchange sort of lock_appliances.                                   *)
Sorted(list) == SortSeq(list, LAMBDA a, b : Rank[a] < Rank[b])

OrderedOrder == [c \in DOMAIN NeededArray |-> Sorted(NeededArray[c])]

-----------------------------------------------------------------------------
(* global.c: one mutex for the whole kitchen.                              *)

GlobalOrder == [c \in DOMAIN NeededArray |-> <<"kitchenLock">>]

-----------------------------------------------------------------------------
(* deadlock.c: each thread's calls of sem_wait.                            *)

ErrandsOrder == [
    Tamara |-> <<"bookmark", "shovel", "tricorder">>,
    Adolfo |-> <<"hammer", "bowtie", "camera", "usb_cable">>,
    Terrie |-> <<"hammer", "rubber_stamp", "bookmark", "bowtie">>,
    Dollie |-> <<"hammer", "shovel">>,
    Alesha |-> <<"shovel", "camera", "usb_cable">>,
    Benita |-> <<"hammer", "spatula">>,
    Laverne |-> <<"camera", "tricorder", "usb_cable">>,
    Grady |-> <<"hammer", "usb_cable">>,
    Arnold |-> <<"rubber_stamp", "camera", "spatula">>,
    Gladys |-> <<"camera", "spatula">>]

(* An order of the objects that all of them respect.                       *)
ErrandsRank == [
    hammer |-> 1, rubber_stamp |-> 2, bookmark |-> 3, bowtie |-> 4, shovel |-> 5,
    camera |-> 6, spatula |-> 7, tricorder |-> 8, usb_cable |-> 9]

-----------------------------------------------------------------------------
(* The runs: every thread and every lock carries the name of its program.  *)

(* The threads of a run: TLC cannot explore all ten of a program.          *)
Chefs == {"Merry", "Merlin", "Summer", "Lura"}
Threads == {"Tamara", "Terrie", "Dollie", "Laverne", "Arnold"}

OfKitchen == {"kitchen"} \X Chefs
OfOrdered == {"ordered"} \X Chefs
OfGlobal == {"global"} \X Chefs
OfErrands == {"errands"} \X Threads

OrderOf(c) ==
    CASE c[1] = "kitchen" -> KitchenOrder[c[2]]
      [] c[1] = "ordered" -> OrderedOrder[c[2]]
      [] c[1] = "global" -> GlobalOrder[c[2]]
      [] c[1] = "errands" -> ErrandsOrder[c[2]]

PlanOf(chefs) ==
    [c \in chefs |-> [i \in 1 .. Len(OrderOf(c)) |-> <<c[1], OrderOf(c)[i]>>]]
LocksOf(chefs) == UNION {{PlanOf(chefs)[c][i] : i \in 1 .. Len(OrderOf(c))} : c \in chefs}

(* The three programs that keep an order.                                  *)
OrderKeepers == OfOrdered \cup OfGlobal \cup OfErrands
OrderKeepersPlan == PlanOf(OrderKeepers)
OrderKeepersLocks == LocksOf(OrderKeepers)
ReversedHere == OfOrdered \cup OfGlobal
ThreePrograms == {OfOrdered, OfGlobal, OfErrands}

(* kitchen.c by itself.                                                    *)
KitchenPlan == PlanOf(OfKitchen)
KitchenLocks == LocksOf(OfKitchen)
OneProgram == {OfKitchen}

-----------------------------------------------------------------------------
(* Proofs about HoldAndWait, for every set of chefs, locks and plans.      *)

(* A chef that rests, begins to cook or has quit has no call pending.      *)
CountReset ==
    \A c \in Chef : stage[c] \in {"resting", "cooking", "exited"} => count[c] = 0

(* The inductive invariant.                                                *)
IInv == TypeOK /\ CountReset /\ LocksAccountedFor

-----------------------------------------------------------------------------
(* Facts about one chef's plan.                                            *)

LEMMA PlanFacts ==
    ASSUME NEW c \in Chef
    PROVE  /\ Len(Plan[c]) \in Nat \ {0}
           /\ \A i \in 1 .. Len(Plan[c]) : Plan[c][i] \in Lock
           /\ \A i, j \in 1 .. Len(Plan[c]) : Plan[c][i] = Plan[c][j] => i = j
  <1>1. Plan[c] \in Seq(Lock) /\ Len(Plan[c]) > 0
    BY PlanAssumption
  <1> QED BY <1>1, PlanAssumption

(* The unlocks of a chef name its locks, each of them once.                *)
LEMMA GivenBackFacts ==
    ASSUME NEW c \in Chef
    PROVE  /\ \A i \in 1 .. Len(Plan[c]) : GivenBack(c, i) \in Lock
           /\ \A i, j \in 1 .. Len(Plan[c]) : GivenBack(c, i) = GivenBack(c, j) => i = j
           /\ {GivenBack(c, i) : i \in 1 .. Len(Plan[c])} = Needs(c)
  <1> DEFINE n == Len(Plan[c])
             back(i) == IF c \in Reversed THEN n + 1 - i ELSE i
  <1>1. n \in Nat \ {0}
    BY PlanFacts
  <1>2. \A i \in 1 .. n : GivenBack(c, i) = Plan[c][back(i)]
    BY DEF GivenBack
  <1>3. \A i \in 1 .. n : back(i) \in 1 .. n /\ back(back(i)) = i
    <2> HIDE DEF n
    <2> QED BY <1>1
  <1>4. \A i \in 1 .. n : GivenBack(c, i) \in Lock
    BY <1>2, <1>3, PlanFacts
  <1>5. \A i, j \in 1 .. n : GivenBack(c, i) = GivenBack(c, j) => i = j
    <2> HIDE DEF n, back
    <2>1. \A i, j \in 1 .. n : Plan[c][i] = Plan[c][j] => i = j
      BY PlanFacts DEF n
    <2> QED BY <1>2, <1>3, <2>1
  <1>6. {GivenBack(c, i) : i \in 1 .. n} = {Plan[c][i] : i \in 1 .. n}
    <2> HIDE DEF n, back
    <2> QED BY <1>2, <1>3
  <1> QED BY <1>4, <1>5, <1>6 DEF Needs

LEMMA WantedInLock ==
    ASSUME TypeOK, NEW c \in Chef
    PROVE  count[c] + 1 \in 1 .. Len(Plan[c]) /\ Wanted(c) \in Lock
  BY PlanFacts DEF TypeOK, Wanted

-----------------------------------------------------------------------------
(* Every step keeps the invariant.                                         *)

LEMMA NextDishKeepsInv ==
    ASSUME IInv, NEW c \in Chef, NextDish(c) PROVE IInv'
  <1>1. /\ stage[c] = "resting" /\ count[c] = 0
        /\ \E s \in {"locking", "exited"} : stage' = [stage EXCEPT ![c] = s]
        /\ UNCHANGED <<count, holder, running>>
    BY DEF NextDish, IInv, CountReset
  <1>2. TypeOK' /\ CountReset'
    BY <1>1 DEF IInv, TypeOK, CountReset, Stage
  <1>3. \A d \in Chef : Held(d)' = Held(d)
    <2>1. Held(c) = {}
      BY <1>1 DEF Held
    <2>2. Held(c)' = {}
      BY <1>1 DEF Held, IInv, TypeOK
    <2>3. ASSUME NEW d \in Chef, d # c PROVE Held(d)' = Held(d)
      BY <1>1, <2>3 DEF Held, GivenBack, IInv, TypeOK
    <2> QED BY <2>1, <2>2, <2>3
  <1> QED BY <1>1, <1>2, <1>3 DEF IInv, LocksAccountedFor

(* Taking a lock adds it to what the chef holds.                           *)
LEMMA AcquireKeepsInv ==
    ASSUME IInv, NEW c \in Chef, Acquire(c) PROVE IInv'
  <1>1. /\ stage[c] = "locking"
        /\ holder[Wanted(c)] = None
        /\ holder' = [holder EXCEPT ![Wanted(c)] = c]
        /\ UNCHANGED running
        /\ \/ /\ count[c] + 1 = Len(Plan[c])
              /\ stage' = [stage EXCEPT ![c] = "cooking"]
              /\ count' = [count EXCEPT ![c] = 0]
           \/ /\ count[c] + 1 # Len(Plan[c])
              /\ count' = [count EXCEPT ![c] = count[c] + 1]
              /\ UNCHANGED stage
    BY DEF Acquire, Free, Last, IInv, TypeOK
  <1>2. count[c] + 1 \in 1 .. Len(Plan[c]) /\ Wanted(c) \in Lock /\ Len(Plan[c]) \in Nat \ {0}
    BY WantedInLock, PlanFacts DEF IInv
  <1>3. TypeOK'
    <2>0. stage \in [Chef -> Stage] /\ count \in [Chef -> Nat]
      BY DEF IInv, TypeOK
    <2>1. stage' \in [Chef -> Stage] /\ count' \in [Chef -> Nat]
      <3>1. stage' \in [Chef -> Stage]
        BY <1>1, <2>0 DEF Stage
      <3>2. count' \in [Chef -> Nat]
        BY <1>1, <1>2, <2>0
      <3> QED BY <3>1, <3>2
    <2>2. holder' \in [Lock -> Chef \cup {None}]
      BY <1>1 DEF IInv, TypeOK
    <2>3. \A d \in Chef : count'[d] < Len(Plan[d])
      BY <1>1, <1>2 DEF IInv, TypeOK
    <2> QED BY <1>1, <2>1, <2>2, <2>3 DEF IInv, TypeOK
  <1>4. CountReset'
    BY <1>1 DEF IInv, TypeOK, CountReset
  <1>5. Held(c)' = Held(c) \cup {Wanted(c)}
    <2>1. Held(c) = {Plan[c][i] : i \in 1 .. count[c]}
      BY <1>1 DEF Held
    <2>2. {Plan[c][i] : i \in 1 .. count[c] + 1} = Held(c) \cup {Wanted(c)}
      BY <1>2, <2>1 DEF Wanted, IInv, TypeOK
    <2>3. CASE count[c] + 1 = Len(Plan[c])
      <3>1. Held(c)' = {GivenBack(c, i) : i \in 1 .. Len(Plan[c])}
        BY <1>1, <2>3 DEF Held, GivenBack, IInv, TypeOK
      <3> QED BY <2>2, <2>3, <3>1, GivenBackFacts DEF Needs
    <2>4. CASE count[c] + 1 # Len(Plan[c])
      <3>1. Held(c)' = {Plan[c][i] : i \in 1 .. count[c] + 1}
        BY <1>1, <2>4 DEF Held, IInv, TypeOK
      <3> QED BY <2>2, <3>1
    <2> QED BY <2>3, <2>4
  <1>6. \A d \in Chef \ {c} : Held(d)' = Held(d)
    BY <1>1 DEF Held, GivenBack, IInv, TypeOK
  <1>7. LocksAccountedFor'
    <2> SUFFICES ASSUME NEW l \in Lock, NEW d \in Chef
                 PROVE  holder'[l] = d <=> l \in Held(d)'
      BY DEF LocksAccountedFor
    <2>1. \A e \in Chef : e # None /\ Wanted(c) \notin Held(e)
      BY <1>1, <1>2, PlanAssumption DEF IInv, LocksAccountedFor
    <2>2. CASE l = Wanted(c)
      BY <1>1, <1>5, <1>6, <2>1, <2>2 DEF IInv, TypeOK
    <2>3. CASE l # Wanted(c)
      BY <1>1, <1>5, <1>6, <2>3 DEF IInv, TypeOK, LocksAccountedFor
    <2> QED BY <2>2, <2>3
  <1> QED BY <1>3, <1>4, <1>7 DEF IInv

(* Giving a lock back takes it from what the chef holds.                   *)
LEMMA ReleaseKeepsInv ==
    ASSUME IInv, NEW c \in Chef, Release(c) PROVE IInv'
  <1> DEFINE l0 == GivenBack(c, count[c] + 1)
  <1>1. /\ stage[c] \in {"cooking", "unlocking"}
        /\ holder' = [holder EXCEPT ![l0] = None]
        /\ UNCHANGED running
        /\ \/ /\ count[c] + 1 = Len(Plan[c])
              /\ stage' = [stage EXCEPT ![c] = "resting"]
              /\ count' = [count EXCEPT ![c] = 0]
           \/ /\ count[c] + 1 < Len(Plan[c])
              /\ stage' = [stage EXCEPT ![c] = "unlocking"]
              /\ count' = [count EXCEPT ![c] = count[c] + 1]
    BY DEF Release, IInv, TypeOK
  <1>2. count[c] + 1 \in 1 .. Len(Plan[c]) /\ count[c] \in Nat /\ Len(Plan[c]) \in Nat \ {0}
    BY WantedInLock, PlanFacts DEF IInv, TypeOK
  <1>3. TypeOK'
    <2>0. stage \in [Chef -> Stage] /\ count \in [Chef -> Nat]
      BY DEF IInv, TypeOK
    <2>1. stage' \in [Chef -> Stage] /\ count' \in [Chef -> Nat]
      <3>1. stage' \in [Chef -> Stage]
        BY <1>1, <2>0 DEF Stage
      <3>2. count' \in [Chef -> Nat]
        BY <1>1, <1>2, <2>0
      <3> QED BY <3>1, <3>2
    <2>2. holder' \in [Lock -> Chef \cup {None}]
      BY <1>1 DEF IInv, TypeOK
    <2>3. \A d \in Chef : count'[d] < Len(Plan[d])
      BY <1>1, <1>2 DEF IInv, TypeOK
    <2> QED BY <1>1, <2>1, <2>2, <2>3 DEF IInv, TypeOK
  <1>4. CountReset'
    BY <1>1 DEF IInv, TypeOK, CountReset
  <1>5. Held(c)' = Held(c) \ {l0}
    <2>1. Held(c) = {GivenBack(c, i) : i \in count[c] + 1 .. Len(Plan[c])}
      BY <1>1 DEF Held
    <2>2. {GivenBack(c, i) : i \in count[c] + 2 .. Len(Plan[c])} = Held(c) \ {l0}
      <3>1. \A i \in count[c] + 1 .. Len(Plan[c]) :
               i \in 1 .. Len(Plan[c]) /\ (i = count[c] + 1 \/ i \in count[c] + 2 .. Len(Plan[c]))
        BY <1>2
      <3>2. \A i \in count[c] + 2 .. Len(Plan[c]) :
               i \in count[c] + 1 .. Len(Plan[c]) /\ GivenBack(c, i) # l0
        BY <1>2, GivenBackFacts
      <3> HIDE DEF l0
      <3> QED BY <2>1, <3>1, <3>2 DEF l0
    <2>3. CASE count[c] + 1 = Len(Plan[c])
      <3>1. Held(c)' = {}
        BY <1>1, <2>3 DEF Held, IInv, TypeOK
      <3>2. count[c] + 2 .. Len(Plan[c]) = {}
        BY <1>2, <2>3
      <3> QED BY <2>2, <3>1, <3>2
    <2>4. CASE count[c] + 1 # Len(Plan[c])
      <3>1. stage'[c] = "unlocking" /\ count'[c] = count[c] + 1
        BY <1>1, <2>4 DEF IInv, TypeOK
      <3>2. Held(c)' = {GivenBack(c, i) : i \in count[c] + 2 .. Len(Plan[c])}
        BY <1>2, <3>1 DEF Held, GivenBack
      <3> QED BY <2>2, <3>2
    <2> QED BY <2>3, <2>4
  <1>6. \A d \in Chef \ {c} : Held(d)' = Held(d)
    BY <1>1 DEF Held, GivenBack, IInv, TypeOK
  <1>7. LocksAccountedFor'
    <2> SUFFICES ASSUME NEW l \in Lock, NEW d \in Chef
                 PROVE  holder'[l] = d <=> l \in Held(d)'
      BY DEF LocksAccountedFor
    <2>1. l0 \in Held(c) /\ l0 \in Lock
      BY <1>1, <1>2, GivenBackFacts DEF Held
    <2>2. holder[l0] = c /\ \A e \in Chef : e # None /\ (l0 \in Held(e) => e = c)
      BY <2>1, PlanAssumption DEF IInv, LocksAccountedFor
    <2> HIDE DEF l0
    <2>3. CASE l = l0
      BY <1>1, <1>5, <1>6, <2>1, <2>2, <2>3 DEF IInv, TypeOK
    <2>4. CASE l # l0
      <3>1. holder'[l] = holder[l]
        BY <1>1, <2>4 DEF IInv, TypeOK
      <3>2. l \in Held(d)' <=> l \in Held(d)
        BY <1>5, <1>6, <2>4
      <3> QED BY <3>1, <3>2 DEF IInv, LocksAccountedFor
    <2> QED BY <2>3, <2>4
  <1> QED BY <1>3, <1>4, <1>7 DEF IInv

LEMMA InitInv == Init => IInv
  <1> SUFFICES ASSUME Init PROVE IInv
    OBVIOUS
  <1>1. TypeOK
    BY PlanFacts DEF Init, TypeOK, Stage
  <1>2. CountReset /\ LocksAccountedFor
    BY PlanAssumption DEF Init, CountReset, LocksAccountedFor, Held
  <1> QED BY <1>1, <1>2 DEF IInv

LEMMA NextInv == IInv /\ [Next]_vars => IInv'
  <1> SUFFICES ASSUME IInv, [Next]_vars PROVE IInv'
    OBVIOUS
  <1>1. CASE AskToStop
    BY <1>1 DEF AskToStop, IInv, TypeOK, CountReset, LocksAccountedFor, Held, GivenBack
  <1>2. CASE UNCHANGED vars
    BY <1>2 DEF vars, IInv, TypeOK, CountReset, LocksAccountedFor, Held, GivenBack
  <1> QED BY <1>1, <1>2, NextDishKeepsInv, AcquireKeepsInv, ReleaseKeepsInv
          DEF Next, Joined, Step

THEOREM InvariantHolds == Spec => []IInv
  BY InitInv, NextInv, PTL DEF Spec

(* The type invariant.                                                     *)
THEOREM TypeCorrect == Spec => []TypeOK
  <1>1. IInv => TypeOK
    BY DEF IInv
  <1> QED BY <1>1, InvariantHolds, PTL

(* Every lock is with the one chef that took it and has not given it back. *)
THEOREM LocksAreAccountedFor == Spec => []LocksAccountedFor
  <1>1. IInv => LocksAccountedFor
    BY DEF IInv
  <1> QED BY <1>1, InvariantHolds, PTL

(* A chef that begins to cook holds everything it needs.                   *)
LEMMA CookHoldsNeeds ==
    ASSUME IInv, NEW c \in Chef, stage[c] = "cooking"
    PROVE  Held(c) = Needs(c)
  <1>1. Held(c) = {GivenBack(c, i) : i \in 0 + 1 .. Len(Plan[c])}
    BY DEF Held, IInv, CountReset
  <1> QED BY <1>1, GivenBackFacts

(* Two chefs that cook have no appliance in common (kitchen.c:49-51).      *)
LEMMA InvExcludes == IInv => NobodyShares
  <1> SUFFICES ASSUME IInv, NEW c \in Chef, NEW d \in Chef, c # d,
                      stage[c] = "cooking", stage[d] = "cooking"
               PROVE  Needs(c) \cap Needs(d) = {}
    BY DEF NobodyShares
  <1>1. ASSUME NEW l \in Needs(c) \cap Needs(d) PROVE FALSE
    <2>1. l \in Held(c) /\ l \in Held(d)
      BY <1>1, CookHoldsNeeds
    <2>2. l \in Lock
      BY <1>1, PlanFacts DEF Needs
    <2> QED BY <2>1, <2>2 DEF IInv, LocksAccountedFor
  <1> QED BY <1>1

THEOREM NobodySharesAnAppliance == Spec => []NobodyShares
  BY InvExcludes, InvariantHolds, PTL

-----------------------------------------------------------------------------
(* Deadlock: with ascending plans, whoever waits for the highest lock of a *)
(* set of chefs waits for somebody outside of it, or who does not wait.    *)

(* The lock a chef waits for ranks above every lock it holds.              *)
LEMMA WantedIsHighest ==
    ASSUME IInv, NEW rank, Ascends(Plan, rank),
           NEW c \in Chef, stage[c] = "locking", NEW l \in Held(c)
    PROVE  rank[l] < rank[Wanted(c)]
  <1>1. PICK i \in 1 .. count[c] : l = Plan[c][i]
    BY DEF Held
  <1>2. i \in 1 .. Len(Plan[c]) /\ count[c] + 1 \in 1 .. Len(Plan[c]) /\ i < count[c] + 1
    BY PlanFacts DEF IInv, TypeOK
  <1>3. DOMAIN Plan = Chef
    BY PlanAssumption
  <1> QED BY <1>1, <1>2, <1>3 DEF Ascends, Wanted

(* In a finite nonempty set of chefs some wanted lock is the highest.      *)
LEMMA HighestWanted ==
    ASSUME TypeOK, NEW rank \in [Lock -> Int], NEW S \in SUBSET Chef, S # {}, IsFiniteSet(S)
    PROVE  \E c \in S : \A d \in S : ~(rank[Wanted(c)] < rank[Wanted(d)])
  <1> DEFINE above(c) == {d \in S : rank[Wanted(c)] < rank[Wanted(d)]}
             T == {above(c) : c \in S}
  <1>0. \A c \in S : rank[Wanted(c)] \in Int
    BY WantedInLock
  <1>1. T \subseteq FiniteSubsetsOf(S) /\ T # {}
    <2>1. FiniteSubsetsOf(S) = SUBSET S
      BY FS_FiniteSubsetsOfFinite
    <2>2. T \subseteq SUBSET S /\ T # {}
      OBVIOUS
    <2> QED BY <2>1, <2>2
  <1>2. PICK U \in T : \A V \in T : ~(<<V, U>> \in StrictSubsetOrdering(S))
    <2> HIDE DEF T
    <2> QED BY <1>1, FS_StrictSubsetOrderingWellFounded, WFMin
  <1>3. PICK c \in S : U = above(c)
    OBVIOUS
  <1>4. ASSUME NEW d \in S, rank[Wanted(c)] < rank[Wanted(d)] PROVE FALSE
    <2>1. above(d) \subseteq above(c)
      BY <1>0, <1>4
    <2>2. d \in above(c) /\ d \notin above(d)
      BY <1>0, <1>4
    <2>3. above(d) \in SUBSET S /\ above(c) \in SUBSET S /\ above(d) \in T
      OBVIOUS
    <2>4. <<above(d), U>> \in StrictSubsetOrdering(S)
      BY <1>3, <2>1, <2>2, <2>3 DEF StrictSubsetOrdering
    <2> QED BY <1>2, <2>3, <2>4
  <1> QED BY <1>4

LEMMA AscendingExcludesDeadlock ==
    ASSUME IInv, IsFiniteSet(Chef), NEW rank \in [Lock -> Int], Ascends(Plan, rank)
    PROVE  NoDeadlockedSet
  <1> SUFFICES ASSUME NEW S \in (SUBSET {c \in Chef : Blocked(c)}) \ {{}},
                      \A c \in S : holder[Wanted(c)] \in S
               PROVE  FALSE
    BY Zenon DEF NoDeadlockedSet
  <1>0. S \subseteq Chef /\ S # {} /\ \A c \in S : Blocked(c)
    OBVIOUS
  <1>1. IsFiniteSet(S)
    BY <1>0, FS_Subset
  <1>2. PICK c \in S : \A d \in S : ~(rank[Wanted(c)] < rank[Wanted(d)])
    BY <1>0, <1>1, HighestWanted DEF IInv
  <1>3. PICK d \in S : d = holder[Wanted(c)]
    OBVIOUS
  <1>4. Wanted(c) \in Held(d)
    BY <1>3, WantedInLock DEF IInv, LocksAccountedFor
  <1>5. rank[Wanted(c)] < rank[Wanted(d)]
    BY <1>0, <1>4, WantedIsHighest DEF Blocked
  <1> QED BY <1>2, <1>5

(* Taking locks in one common order makes deadlock impossible ("Lock       *)
(* applicanes in order", ordered.c:59), for any number of threads.         *)
THEOREM OrderedLockingIsDeadlockFree ==
    ASSUME IsFiniteSet(Chef), NEW rank \in [Lock -> Int], Ascends(Plan, rank)
    PROVE  Spec => []NoDeadlockedSet
  <1>1. IInv => NoDeadlockedSet
    BY AscendingExcludesDeadlock
  <1> QED BY <1>1, InvariantHolds, PTL

-----------------------------------------------------------------------------
(* Refinement.                                                             *)

LEMMA StepRefines ==
    ASSUME IInv, IInv', NEW c \in Chef, Step(c)
    PROVE  [Appliances!AppliancesNext]_Cooking
  <1>t. stage \in [Chef -> Stage]
    BY DEF IInv, TypeOK
  <1>1. CASE stage'[c] # "cooking" /\ stage[c] # "cooking"
    <2>1. Cooking' = Cooking
      BY <1>t, <1>1 DEF Step, NextDish, Acquire, Release, Cooking
    <2> QED BY <2>1
  <1>2. CASE stage'[c] = "cooking" /\ stage[c] # "cooking"
    <2>1. Cooking' = Cooking \cup {c} /\ c \notin Cooking
      BY <1>t, <1>2 DEF Step, NextDish, Acquire, Release, Cooking
    <2>2. \A d \in Cooking : ~Conflict(c, d)
      <3> SUFFICES ASSUME NEW d \in Cooking PROVE Needs(c) \cap Needs(d) = {}
        BY DEF Conflict
      <3>1. d # c /\ stage'[d] = "cooking" /\ d \in Chef
        BY <2>1 DEF Cooking
      <3>2. NobodyShares'
        BY InvExcludes, PTL
      <3> QED BY <1>2, <3>1, <3>2 DEF NobodyShares, Needs
    <2> QED BY <2>1, <2>2 DEF Appliances!AppliancesNext, Appliances!StartCooking
  <1>3. CASE stage[c] = "cooking" /\ stage'[c] # "cooking"
    <2>1. Cooking' = Cooking \ {c} /\ c \in Cooking
      BY <1>t, <1>3 DEF Step, NextDish, Acquire, Release, Cooking
    <2> QED BY <2>1 DEF Appliances!AppliancesNext, Appliances!StopCooking
  <1>4. ~(stage[c] = "cooking" /\ stage'[c] = "cooking")
    BY <1>t DEF Step, NextDish, Acquire, Release
  <1> QED BY <1>1, <1>2, <1>3, <1>4

(* Each lock program implements the shared appliances.                     *)
THEOREM LocksImplementAppliances == Spec => ImplementsAppliances
  <1>1. Init => Appliances!AppliancesInit
    BY DEF Init, Cooking, Appliances!AppliancesInit
  <1>2. IInv /\ IInv' /\ [Next]_vars => [Appliances!AppliancesNext]_Cooking
    <2> SUFFICES ASSUME IInv, IInv', [Next]_vars
                 PROVE  [Appliances!AppliancesNext]_Cooking
      OBVIOUS
    <2>1. CASE UNCHANGED stage
      BY <2>1 DEF Cooking
    <2> QED BY <2>1, StepRefines DEF Next, AskToStop, Joined, vars
  <1> QED BY <1>1, <1>2, InvariantHolds, PTL
          DEF Spec, ImplementsAppliances, Appliances!AppliancesSpec

-----------------------------------------------------------------------------
(* The threads of exercises/ex09/deadlock.c never deadlock: their orders   *)
(* of taking the semaphores all agree with one ranking of the objects.     *)
LEMMA ErrandsAscend == Ascends(ErrandsOrder, ErrandsRank)
  <1>1. ASSUME NEW c \in DOMAIN ErrandsOrder,
               NEW i \in 1 .. Len(ErrandsOrder[c]), NEW j \in 1 .. Len(ErrandsOrder[c]), i < j
        PROVE  ErrandsRank[ErrandsOrder[c][i]] < ErrandsRank[ErrandsOrder[c][j]]
    <2>1. CASE c = "Tamara"
      BY <1>1, <2>1 DEF ErrandsOrder, ErrandsRank
    <2>2. CASE c = "Adolfo"
      BY <1>1, <2>2 DEF ErrandsOrder, ErrandsRank
    <2>3. CASE c = "Terrie"
      BY <1>1, <2>3 DEF ErrandsOrder, ErrandsRank
    <2>4. CASE c = "Dollie"
      BY <1>1, <2>4 DEF ErrandsOrder, ErrandsRank
    <2>8. CASE c = "Benita"
      BY <1>1, <2>8 DEF ErrandsOrder, ErrandsRank
    <2>9. CASE c = "Grady"
      BY <1>1, <2>9 DEF ErrandsOrder, ErrandsRank
    <2>10. CASE c = "Gladys"
      BY <1>1, <2>10 DEF ErrandsOrder, ErrandsRank
    <2>5. CASE c = "Alesha"
      BY <1>1, <2>5 DEF ErrandsOrder, ErrandsRank
    <2>6. CASE c = "Laverne"
      BY <1>1, <2>6 DEF ErrandsOrder, ErrandsRank
    <2>7. CASE c = "Arnold"
      BY <1>1, <2>7 DEF ErrandsOrder, ErrandsRank
    <2> QED BY <2>1, <2>2, <2>3, <2>4, <2>5, <2>6, <2>7, <2>8, <2>9, <2>10
          DEF ErrandsOrder
  <1> QED BY <1>1 DEF Ascends

THEOREM ErrandsNeverDeadlock ==
    ASSUME Chef = DOMAIN ErrandsOrder, Lock = DOMAIN ErrandsRank, Plan = ErrandsOrder
    PROVE  Spec => []NoDeadlockedSet
  <1>1. IsFiniteSet(Chef)
    <2>1. Chef = {"Tamara", "Adolfo", "Terrie", "Dollie", "Alesha", "Benita",
                  "Laverne", "Grady", "Arnold", "Gladys"}
      BY DEF ErrandsOrder
    <2> DEFINE A == {"Tamara"} \cup {"Adolfo"} \cup {"Terrie"} \cup {"Dollie"} \cup {"Alesha"}
               B == {"Benita"} \cup {"Laverne"} \cup {"Grady"} \cup {"Arnold"} \cup {"Gladys"}
    <2>2. \A x : IsFiniteSet({x})
      BY FS_Singleton
    <2>3. \A S, T : IsFiniteSet(S) /\ IsFiniteSet(T) => IsFiniteSet(S \cup T)
      BY FS_Union
    <2>4. IsFiniteSet(A) /\ IsFiniteSet(B)
      BY Zenon, <2>2, <2>3
    <2>5. Chef = A \cup B
      BY <2>1
    <2> QED BY <2>3, <2>4, <2>5
  <1>2. ErrandsRank \in [Lock -> Int]
    BY DEF ErrandsRank
  <1>3. Ascends(Plan, ErrandsRank)
    BY ErrandsAscend
  <1>4. IInv => NoDeadlockedSet
    BY <1>1, <1>2, <1>3, AscendingExcludesDeadlock
  <1> QED BY <1>4, InvariantHolds, PTL
=============================================================================
