----------------------------- MODULE ParkingLot -----------------------------
(***************************************************************************)
(* What assignments/hw6/parkingServer.c promises its clients: a lot with   *)
(* room for parkingCapacity cars, and for every command one answer that    *)
(* fits the cars that are parked at one moment while the command waits.    *)
(***************************************************************************)
EXTENDS Integers, Sequences, FiniteSetsExt, SequencesExt

CONSTANTS
    Client,
    Plate,
    Time,               \* 1 .. 86400 in the code, in seconds
    parkingCapacity,
    HOUR,               \* 3600 in the code
    MaxHours,           \* 10 in the code
    None

VARIABLES
    parked,     \* a function from the plates of the parked cars to their arrival
    command,    \* what each client asks
    answer      \* what it is told

Command ==
    [name : {"park", "leave"}, plate : Plate, time : Time] \cup [name : {"show", "invalid"}]

(* Every hour begun is paid, up to MaxHours.                               *)
Fee(stay) == Min({h \in 0 .. MaxHours : h * HOUR >= stay} \cup {MaxHours})

(* The parked cars in the order of their arrival; any order if they came   *)
(* at the same time.                                                       *)
Listings ==
    {l \in SetToSeqs({[plate |-> p, arrivalTime |-> parked[p]] : p \in DOMAIN parked}) :
        \A i, j \in 1 .. Len(l) : i < j => l[i].arrivalTime <= l[j].arrivalTime}

Ask(c) ==
    /\ command[c] = None
    /\ \E m \in Command : command' = [command EXCEPT ![c] = m]
    /\ UNCHANGED <<parked, answer>>

Tell(c, a) == answer' = [answer EXCEPT ![c] = a] /\ UNCHANGED command

Park(c, plate, time) ==
    IF plate \in DOMAIN parked THEN Tell(c, "invalid") /\ UNCHANGED parked
    ELSE IF Cardinality(DOMAIN parked) = parkingCapacity
           THEN Tell(c, "full") /\ UNCHANGED parked
           ELSE /\ Tell(c, "ok")
                /\ parked' = [p \in DOMAIN parked \cup {plate} |->
                                IF p = plate THEN time ELSE parked[p]]

Leave(c, plate, time) ==
    IF plate \notin DOMAIN parked THEN Tell(c, "not found") /\ UNCHANGED parked
    ELSE IF time < parked[plate] THEN Tell(c, "invalid") /\ UNCHANGED parked
         ELSE /\ Tell(c, Fee(time - parked[plate]))
              /\ parked' = [p \in DOMAIN parked \ {plate} |-> parked[p]]

Answer(c) ==
    LET m == command[c]
    IN  /\ m # None /\ answer[c] = None
        /\ CASE m.name = "park" -> Park(c, m.plate, m.time)
             [] m.name = "leave" -> Leave(c, m.plate, m.time)
             [] m.name = "show" -> (\E l \in Listings : Tell(c, l)) /\ UNCHANGED parked
             [] m.name = "invalid" -> Tell(c, "invalid") /\ UNCHANGED parked

Return(c) ==
    /\ answer[c] # None
    /\ command' = [command EXCEPT ![c] = None]
    /\ answer' = [answer EXCEPT ![c] = None]
    /\ UNCHANGED parked

LotInit ==
    /\ parked = <<>>
    /\ command = [c \in Client |-> None]
    /\ answer = [c \in Client |-> None]

LotSpec ==
    LotInit /\ [][\E c \in Client : Ask(c) \/ Answer(c) \/ Return(c)]_<<parked, command, answer>>
=============================================================================
