----------------------------- MODULE EditServer -----------------------------
(***************************************************************************)
(* assignments/hw2: server.c keeps a string and edits it on request;       *)
(* client.c sends one request to the server's message queue and takes one  *)
(* response from the queue that all clients read.  Nothing looks at a      *)
(* message while it is queued, so a queue is the number of its messages,   *)
(* and what a request says is chosen when the server receives it.          *)
(***************************************************************************)
EXTENDS CString, Sequences, FiniteSets

CONSTANTS
    Client,
    mq_maxmsg,  \* what a queue holds
    StatusSize, \* what a report adds to the text, with its terminator
    None

(* A terminator is no character, and None no array.                        *)
StringConstants ==
    /\ STRING_LIMIT \in Nat /\ mq_maxmsg \in Nat
    /\ NUL \notin Char /\ None \notin Buffer

VARIABLES
    string,
    prev,           \* prev1, prev2 and prev3
    num_undos,
    running,
    at,             \* what the server is doing
    request,        \* the last request received; it stays in the variable
    serverQueue,
    clientQueue,
    client          \* what each client is doing

edited == <<string, prev, num_undos>>
vars == <<edited, running, at, request, serverQueue, clientQueue, client>>

UNDO_LIMIT == 3

Request ==
    [command : {"i"}, index : 0 .. STRING_LIMIT - 1, character : Char]
        \cup [command : {"d"}, index : 0 .. STRING_LIMIT - 1]
        \cup [command : {"u", "r"}]

TypeOK ==
    /\ string \in Buffer
    /\ prev \in Seq(Buffer \cup {None}) /\ Len(prev) = UNDO_LIMIT
    /\ num_undos \in 0 .. UNDO_LIMIT + 1
    /\ running \in BOOLEAN
    /\ at \in {"receive", "send", "stopped", "undefined"}
    /\ request \in Request \cup {None}
    /\ serverQueue \in 0 .. mq_maxmsg
    /\ clientQueue \in 0 .. mq_maxmsg
    /\ client \in [Client -> {"off", "waiting"}]

InitRest ==
    /\ prev = <<None, None, None>>
    /\ num_undos = 0
    /\ running = TRUE
    /\ at = "receive"
    /\ request = None
    /\ serverQueue = 0 /\ clientQueue = 0
    /\ client = [c \in Client |-> "off"]

InitStrcpy ==                           \* mutant: strcpy leaves the rest of the array
    string \in {s \in Buffer : Terminated(s)} /\ InitRest

(* The string of the command line is cut to fit, and strncpy pads it.      *)
Init == string \in {s \in Buffer : Terminated(s) /\ s = Strncpy(s)} /\ InitRest

len == Strlen(string)

(* num_undos as the head of the loop leaves it.                            *)
NotCapped == num_undos                  \* mutant: nothing caps the count
Capped == IF num_undos > UNDO_LIMIT THEN UNDO_LIMIT ELSE num_undos

(* strcpy to a prev whose bytes were never set, or from one.               *)
CopyOf(s) == IF s = None THEN None ELSE Strncpy(s)

PushedLate == <<CopyOf(string), prev[1], prev[1]>>  \* mutant: prev2 is copied first
Pushed == <<CopyOf(string), CopyOf(prev[1]), CopyOf(prev[2])>>

Remember ==
    /\ prev' = Pushed
    /\ num_undos' = Capped + 1

(* The loop moves the characters behind the index, not the terminator.     *)
InsertedAt(i, c) ==
    [k \in Cell |-> IF i < k /\ k <= len THEN string[k - 1] ELSE IF k = i THEN c ELSE string[k]]

Deleted(i) ==
    [k \in Cell |-> IF i <= k /\ k < STRING_LIMIT - 1 THEN string[k + 1] ELSE string[k]]

RefusedSilently ==                      \* mutant: an error is not answered
    at' = "receive" /\ num_undos' = Capped /\ UNCHANGED <<string, prev>>
Refused == at' = "send" /\ num_undos' = Capped /\ UNCHANGED <<string, prev>>

(* The switch of the loop.  Without room the insertion overwrites the last *)
(* terminator, and later calls of strlen leave the array; the report of a  *)
(* long text does not fit the array it is printed to.                      *)
Process(r) ==
    \/ /\ r.command \in {"i", "d"} /\ r.index > len
       /\ Refused
    \/ /\ r.command = "i" /\ r.index <= len
       /\ Remember
       /\ string' = InsertedAt(r.index, r.character)
       /\ at' = IF len = STRING_LIMIT - 1 THEN "undefined" ELSE "send"
    \/ /\ r.command = "d" /\ r.index <= len
       /\ Remember
       /\ string' = Deleted(r.index)
       /\ at' = "send"
    \/ /\ r.command = "u" /\ Capped > 0
       /\ string' = Strcpy(string, prev[1])
       /\ prev' = <<CopyOf(prev[2]), CopyOf(prev[3]), prev[3]>>
       /\ num_undos' = Capped - 1
       /\ at' = "send"
    \/ /\ r.command = "u" /\ Capped = 0
       /\ Refused
    \/ /\ r.command = "r"
       /\ num_undos' = Capped /\ UNCHANGED <<string, prev>>
       /\ at' = IF len + StatusSize > STRING_LIMIT THEN "undefined" ELSE "send"

(* mq_receive, the switch, up to mq_send.                                  *)
Receive ==
    /\ at = "receive"
    /\ serverQueue > 0
    /\ serverQueue' = serverQueue - 1
    /\ \E r \in Request : request' = r /\ Process(r)
    /\ UNCHANGED <<running, clientQueue, client>>

(* mq_send, and the test of the loop.                                      *)
Send ==
    /\ at = "send"
    /\ clientQueue < mq_maxmsg
    /\ clientQueue' = clientQueue + 1
    /\ at' = IF running THEN "receive" ELSE "stopped"
    /\ UNCHANGED <<edited, running, request, serverQueue, client>>

(* SIGINT only sets the flag, unless a call is blocked.                    *)
Interrupt ==
    /\ at \in {"receive", "send"} /\ running
    /\ running' = FALSE
    /\ UNCHANGED <<edited, at, request, serverQueue, clientQueue, client>>

(* A blocked mq_receive fails, but the switch still runs, on the request   *)
(* received last; before the first one that is whatever the stack held.    *)
InterruptReceive ==
    /\ at = "receive" /\ serverQueue = 0
    /\ running' = FALSE
    /\ \/ request # None /\ Process(request)
       \/ request = None /\ \E r \in Request : Process(r)
       \/ request = None /\ Refused
    /\ UNCHANGED <<request, serverQueue, clientQueue, client>>

(* A blocked mq_send fails, and its response is lost.                      *)
InterruptSend ==
    /\ at = "send" /\ clientQueue = mq_maxmsg
    /\ running' = FALSE
    /\ at' = "stopped"
    /\ UNCHANGED <<edited, request, serverQueue, clientQueue, client>>

(* A client opens the queues and sends its request.                        *)
Ask(c) ==
    /\ client[c] = "off"
    /\ serverQueue < mq_maxmsg
    /\ serverQueue' = serverQueue + 1
    /\ client' = [client EXCEPT ![c] = "waiting"]
    /\ UNCHANGED <<edited, running, at, request, clientQueue>>

(* It takes the first response it finds, and exits.                        *)
TakeAnswer(c) ==
    /\ client[c] = "waiting"
    /\ clientQueue > 0
    /\ clientQueue' = clientQueue - 1
    /\ client' = [client EXCEPT ![c] = "off"]
    /\ UNCHANGED <<edited, running, at, request, serverQueue>>

(* The user stops a client that waits; its response stays in the queue.    *)
KillClient(c) ==
    /\ client[c] = "waiting"
    /\ client' = [client EXCEPT ![c] = "off"]
    /\ UNCHANGED <<edited, running, at, request, serverQueue, clientQueue>>

Working == at \in {"receive", "send"}

(* What clients do without a server is left out.                           *)
Ended == ~Working /\ UNCHANGED vars

Server == Receive \/ Send

Next ==
    \/ Ended \/ Server
    \/ Interrupt \/ InterruptReceive \/ InterruptSend
    \/ Working /\ \E c \in Client : Ask(c) \/ TakeAnswer(c) \/ KillClient(c)

(* The server runs; Linux gives a message to the client that waits longest.*)
Spec ==
    /\ Init
    /\ [][Next]_vars
    /\ WF_vars(Server)
    /\ \A c \in Client : SF_vars(Working /\ TakeAnswer(c))

-----------------------------------------------------------------------------
(* Properties                                                              *)

(* Behind the text there are only zeros: insert moves no terminator, and   *)
(* undo copies no more than one, so both rely on those that are there.     *)
ZerosBehindText == at # "undefined" => string = Strncpy(string)

(* Every client gets a response, or the server has stopped.                *)
ClientsAnswered ==
    \A c \in Client :
        client[c] = "waiting" ~> client[c] = "off" \/ ~running \/ ~Working

History ==
    LET n == Capped
    IN  [i \in 1 .. n |-> Visible(prev[n + 1 - i])]

(* The string is edited as asked and undo goes back exactly, also when an  *)
(* interrupted server processes its last request a second time.            *)
Asked == INSTANCE Editing WITH text <- Visible(string), past <- History
ImplementsEditing == Asked!ServerSpec
=============================================================================
