----------------------------- MODULE MCPrograms -----------------------------
(* Four programs that share nothing: the string server of hw2, the parking *)
(* server of hw6, the list of ex08 and the heap of ex11.  Init picks the   *)
(* one that runs, and the others stay as they begin.                       *)
EXTENDS SpinList

CONSTANTS
    Char, STRING_LIMIT, NUL, Client, None, mq_maxmsg, StatusSize,   \* hw2
    Connection, Plate, Time, parkingCapacity, HOUR, MaxHours,       \* hw6
    Sizes, SIZE_T, POINTER, PAGE, MaxPages                          \* ex11

VARIABLES
    program,
    string, prev, num_undos, serving, at, request, serverQueue, clientQueue, client,
    parkingTable, tableLock, thread, command, answer,
    freeList, allocated, nextBlock

strings == <<string, prev, num_undos, serving, at, request, serverQueue, clientQueue, client>>
parking == <<parkingTable, tableLock, thread, command, answer>>
heap == <<freeList, allocated, nextBlock>>

Strings == INSTANCE EditServer WITH running <- serving
Parking == INSTANCE ParkingServer WITH at <- thread, Client <- Connection
Heap == INSTANCE MyMalloc

(* What the proofs need to know of the constants.                          *)
ASSUME ProgramsAssumption ==
    Heap!HeapConstants /\ Parking!ParkingConstants /\ Strings!StringConstants

AnyInit ==
    /\ program \in {"hw2", "hw6", "ex08", "ex11"}
    /\ Strings!Init /\ (program # "hw2" => string = Strings!Filled(<<>>))
    /\ Parking!Init
    /\ Heap!Init
    /\ Init

StringStep == program = "hw2" /\ Strings!Next /\ UNCHANGED <<program, parking, heap, vars>>
ParkingStep == program = "hw6" /\ Parking!Next /\ UNCHANGED <<program, strings, heap, vars>>
ListStep == program = "ex08" /\ Next /\ UNCHANGED <<program, strings, parking, heap>>
HeapStep == program = "ex11" /\ Heap!Next /\ UNCHANGED <<program, strings, parking, vars>>
AnyStep == StringStep \/ ParkingStep \/ ListStep \/ HeapStep

(* A step of the program that runs.                                        *)
Of(name, step) == program = name /\ step /\ UNCHANGED program

AnySpec ==
    /\ AnyInit
    /\ [][AnyStep]_<<program, strings, parking, heap, vars>>
    /\ WF_strings(Of("hw2", Strings!Server))
    /\ \A c \in Client : SF_strings(Of("hw2", Strings!Working /\ Strings!TakeAnswer(c)))
    /\ \A t \in Thread : WF_vars(Of("ex08", CycleList(t)))

-----------------------------------------------------------------------------
(* The properties of the modules, for the program that runs.               *)

AllTypesOK == TypeOK /\ Strings!TypeOK /\ Parking!TypeOK /\ Heap!TypeOK

(* hw2/server.c: zeros behind the text, on which insert relies.            *)
ZerosBehindText == Strings!ZerosBehindText

(* A client of hw2 that waits for its answer gets one while the server is  *)
(* up.                                                                     *)
ClientsAnswered == Strings!ClientsAnswered

(* hw2/server.c: every request does to the text what it says.              *)
ImplementsEditing == Strings!ImplementsEditing

(* parkingServer.c: the table is touched with tableLock held, and a fee    *)
(* once computed is what the time asks for.                                *)
ParkingIsSafe == program = "hw6" => Parking!LockHeldInside /\ Parking!FeesAreFair

(* The clients of parkingServer.c see one lot.                             *)
ImplementsParkingLot == Parking!ImplementsParkingLot

(* mymalloc.c: the blocks tile the pages, free neighbours are one block,   *)
(* and the links are in free memory only.                                  *)
BlocksTile == Heap!BlocksTile
ListIsMerged == Heap!ListIsMerged
HolesHoldLinks == Heap!HolesHoldLinks
=============================================================================
