--------------------------- MODULE ParkingServer ---------------------------
(***************************************************************************)
(* assignments/hw6/parkingServer.c: a thread for each connection reads     *)
(* commands and works on the table of parked cars under tableLock.  The    *)
(* wording of commands and answers is left out, and whatever is answered   *)
(* "Invalid command" before the table is looked at is one command here.    *)
(***************************************************************************)
EXTENDS Integers, Sequences

CONSTANTS Client, Plate, Time, parkingCapacity, HOUR, MaxHours, None

VARIABLES
    parkingTable,
    tableLock,      \* the client whose thread holds it
    at,             \* where in handleClient each client's thread is
    command,        \* the command it works on
    answer          \* what it has written since

vars == <<parkingTable, tableLock, at, command, answer>>

Command ==
    [name : {"park", "leave"}, plate : Plate, time : Time] \cup [name : {"show", "invalid"}]

(* There are times and places, an hour has a length, and None is nobody,   *)
(* no command and no answer.                                               *)
ParkingConstants ==
    /\ Time \subseteq Nat /\ parkingCapacity \in Nat
    /\ HOUR \in Nat \ {0} /\ MaxHours \in Nat
    /\ None \notin Client /\ None \notin Plate /\ None \notin Command
    /\ None \notin {"ok", "full", "invalid", "not found"} \cup Nat
    /\ None \notin Seq([plate : Plate, arrivalTime : Time])

Slot == 1 .. parkingCapacity
EmptySlot == [plate |-> None, arrivalTime |-> 0, occupied |-> FALSE]
Record == [plate : Plate, arrivalTime : Time, occupied : {TRUE}]

TypeOK ==
    /\ parkingTable \in [Slot -> Record \cup {EmptySlot}]
    /\ tableLock \in Client \cup {None}
    /\ at \in [Client -> {"closed", "fgets", "invalid", "lock", "locked", "park", "unlock", "prompt"}]
    /\ command \in [Client -> Command \cup {None}]
    /\ \A c \in Client : at[c] \in {"closed", "fgets"} <=> command[c] = None

Init ==
    /\ parkingTable = [i \in Slot |-> EmptySlot]
    /\ tableLock = None
    /\ at = [c \in Client |-> "closed"]
    /\ command = [c \in Client |-> None]
    /\ answer = [c \in Client |-> None]

-----------------------------------------------------------------------------
Goto(c, l) == at' = [at EXCEPT ![c] = l]
Tell(c, a) == answer' = [answer EXCEPT ![c] = a]

(* main: accept, and a thread of its own.                                  *)
Connect(c) ==
    /\ at[c] = "closed"
    /\ Goto(c, "fgets")
    /\ UNCHANGED <<parkingTable, tableLock, command, answer>>

(* quit, or the end of the connection.                                     *)
Quit(c) ==
    /\ at[c] = "fgets"
    /\ Goto(c, "closed")
    /\ UNCHANGED <<parkingTable, tableLock, command, answer>>

ReadCommand(c) ==
    /\ at[c] = "fgets"
    /\ \E m \in Command :
          /\ command' = [command EXCEPT ![c] = m]
          /\ Goto(c, IF m.name = "invalid" THEN "invalid" ELSE "lock")
    /\ UNCHANGED <<parkingTable, tableLock, answer>>

Reject(c) ==
    /\ at[c] = "invalid"
    /\ Tell(c, "invalid") /\ Goto(c, "prompt")
    /\ UNCHANGED <<parkingTable, tableLock, command>>

LockIgnored(c) ==                       \* mutant: park does not take the lock
    /\ at[c] = "lock" /\ (tableLock = None \/ command[c].name = "park")
    /\ tableLock' = c
    /\ Goto(c, "locked")
    /\ UNCHANGED <<parkingTable, command, answer>>
Lock(c) ==
    /\ at[c] = "lock" /\ tableLock = None
    /\ tableLock' = c
    /\ Goto(c, "locked")
    /\ UNCHANGED <<parkingTable, command, answer>>

AnswerAndLeave(c, a) ==                 \* mutant: goes on to the next command
    Tell(c, a) /\ Goto(c, "prompt")
Answer(c, a) == Tell(c, a) /\ Goto(c, "unlock")

Occupied == {i \in Slot : parkingTable[i].occupied}
Parked(plate) == {i \in Occupied : parkingTable[i].plate = plate}
First(slots) == CHOOSE i \in slots : \A j \in slots : i <= j

(* park: the search for the plate, and then the search for a free slot.    *)
CheckDuplicate(c) ==
    /\ at[c] = "locked" /\ command[c].name = "park"
    /\ IF Parked(command[c].plate) # {} THEN Answer(c, "invalid")
                                        ELSE Goto(c, "park") /\ UNCHANGED answer
    /\ UNCHANGED <<parkingTable, tableLock, command>>

Park(c) ==
    /\ at[c] = "park"
    /\ LET free == Slot \ Occupied
       IN  IF free = {} THEN Answer(c, "full") /\ UNCHANGED parkingTable
           ELSE /\ Answer(c, "ok")
                /\ parkingTable' = [parkingTable EXCEPT ![First(free)] =
                      [plate |-> command[c].plate, arrivalTime |-> command[c].time, occupied |-> TRUE]]
    /\ UNCHANGED <<tableLock, command>>

FeeDown(duration) ==                    \* mutant: the hours are not rounded up
    IF duration \div HOUR > MaxHours THEN MaxHours ELSE duration \div HOUR
(* In units of the hourly rate.                                            *)
Fee(duration) ==
    LET hours == (duration + HOUR - 1) \div HOUR
    IN  IF hours > MaxHours THEN MaxHours ELSE hours

Leave(c) ==
    /\ at[c] = "locked" /\ command[c].name = "leave"
    /\ LET here == Parked(command[c].plate)
           i == First(here)
           duration == command[c].time - parkingTable[i].arrivalTime
       IN  IF here = {} THEN Answer(c, "not found") /\ UNCHANGED parkingTable
           ELSE IF duration < 0 THEN Answer(c, "invalid") /\ UNCHANGED parkingTable
           ELSE /\ Answer(c, Fee(duration))
                /\ parkingTable' = [parkingTable EXCEPT ![i] = EmptySlot]
    /\ UNCHANGED <<tableLock, command>>

(* show: the records in use are copied, of which the answer has plate and  *)
(* time, and sorted by exchanging every pair that is out of order.         *)
Copy ==
    LET copied[i \in 0 .. parkingCapacity] ==
          IF i = 0 THEN <<>>
          ELSE IF parkingTable[i].occupied
                 THEN Append(copied[i - 1], [plate |-> parkingTable[i].plate,
                                             arrivalTime |-> parkingTable[i].arrivalTime])
                 ELSE copied[i - 1]
    IN  copied[parkingCapacity]

Exchange(copy, i, j) ==
    IF copy[j].arrivalTime < copy[i].arrivalTime
      THEN [copy EXCEPT ![i] = copy[j], ![j] = copy[i]]
      ELSE copy

(* The inner loop, and the outer one, whose last round compares nothing.   *)
Compared(copy, i) ==
    LET upTo[j \in i .. Len(copy)] == IF j = i THEN copy ELSE Exchange(upTo[j - 1], i, j)
    IN  upTo[Len(copy)]

Sorted(copy) ==
    LET upTo[i \in 0 .. Len(copy)] == IF i = 0 THEN copy ELSE Compared(upTo[i - 1], i)
    IN  upTo[Len(copy)]

Show(c) ==
    /\ at[c] = "locked" /\ command[c].name = "show"
    /\ Answer(c, Sorted(Copy))
    /\ UNCHANGED <<parkingTable, tableLock, command>>

(* And then prompts for the next command.                                  *)
NextCommand(c) ==
    /\ Goto(c, "fgets")
    /\ command' = [command EXCEPT ![c] = None]
    /\ Tell(c, None)

Unlock(c) ==
    /\ at[c] = "unlock"
    /\ tableLock' = None
    /\ NextCommand(c)
    /\ UNCHANGED parkingTable

Prompt(c) ==
    /\ at[c] = "prompt"
    /\ NextCommand(c)
    /\ UNCHANGED <<parkingTable, tableLock>>

Handle(c) ==
    \/ Reject(c) \/ Lock(c)
    \/ CheckDuplicate(c) \/ Park(c) \/ Leave(c) \/ Show(c)
    \/ Unlock(c) \/ Prompt(c)

Next == \E c \in Client : Connect(c) \/ Quit(c) \/ ReadCommand(c) \/ Handle(c)

Spec == Init /\ [][Next]_vars

-----------------------------------------------------------------------------
(* Properties                                                              *)

(* One thread at a time is between lock and unlock, and every path through *)
(* a command, refusals too, gives the lock back.                           *)
LockHeldInside ==
    \A c \in Client : at[c] \in {"locked", "park", "unlock"} <=> tableLock = c

(* The answers are those of a lot that serves one command at a time.       *)
Arrival(plate) == parkingTable[First(Parked(plate))].arrivalTime
Cars == [p \in {q \in Plate : Parked(q) # {}} |-> Arrival(p)]
Lot == INSTANCE ParkingLot WITH parked <- Cars
ImplementsParkingLot == Lot!LotSpec

(* Dividing by whole hours charges for every hour begun, and no more than  *)
(* the maximum.                                                            *)
FeesAreFair == \A stay \in 0 .. HOUR * (MaxHours + 2) : Fee(stay) = Lot!Fee(stay)
=============================================================================
