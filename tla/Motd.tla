-------------------------------- MODULE Motd --------------------------------
(* exercises/ex17: the message-of-the-day server and its clients, over Sun *)
(* RPC on UDP.  A call is repeated until an answer comes or the client     *)
(* gives up, and both requests and answers may be lost, doubled and late:  *)
(* what has been sent may arrive any number of times.  The message added   *)
(* by the n-th execution of add is the number n here.                      *)
EXTENDS Integers, Sequences

CONSTANTS
    Client,     \* one run of motd_client each
    None,
    MaxAdds     \* bound of the executions of add

VARIABLES
    mList,
    mCount,
    executed,   \* how many times add was executed
    run,        \* per client: "idle", "add", "list", "done" or "failed"
    call,       \* per client: its last call and how many it has made
    sent,       \* requests that may yet arrive
    answers,    \* answers to the last call of each client
    count,      \* per client: what count has returned
    printed     \* per client

client == <<run, call, count, printed>>
vars == <<mList, mCount, executed, client, sent, answers>>

HISTORY_MAX == 3
Error == 0                  \* the string "error" of get

Request == [from : Client, no : 1 .. HISTORY_MAX + 1, proc : {"count", "get", "add"},
            arg : 0 .. HISTORY_MAX]

Init ==
    /\ mList = [i \in 0 .. HISTORY_MAX - 1 |-> Error]
    /\ mCount = 0
    /\ executed = 0
    /\ run = [c \in Client |-> "idle"]
    /\ call = [c \in Client |-> None]
    /\ sent = {} /\ answers = {}
    /\ count = [c \in Client |-> 0]
    /\ printed = [c \in Client |-> <<>>]

-----------------------------------------------------------------------------
(* The server                                                              *)

(* svc_run hands a request to a routine and sends the result; the client   *)
(* throws an answer to an earlier call away.                               *)
Reply(r, value) ==
    answers' = IF call[r.from] = r THEN answers \cup {[to |-> r.from, value |-> value]}
               ELSE answers

Count(r) == r.proc = "count" /\ Reply(r, mCount) /\ UNCHANGED <<mList, mCount, executed>>

Get(r) ==
    /\ r.proc = "get"
    /\ Reply(r, IF r.arg < 0 \/ r.arg >= mCount THEN Error ELSE mList[r.arg])
    /\ UNCHANGED <<mList, mCount, executed>>

ShiftOneLess ==                         \* mutant: moves one message less
    mList' = [i \in DOMAIN mList |-> IF i = 0 THEN executed + 1
                                     ELSE IF i < mCount THEN mList[i - 1] ELSE mList[i]]
Shift ==
    LET moved == IF mCount = HISTORY_MAX THEN HISTORY_MAX - 1 ELSE mCount
    IN  mList' = [i \in DOMAIN mList |-> IF i = 0 THEN executed + 1
                                         ELSE IF i <= moved THEN mList[i - 1] ELSE mList[i]]

Add(r) ==
    /\ r.proc = "add" /\ executed < MaxAdds
    /\ executed' = executed + 1
    /\ Shift
    /\ mCount' = IF mCount = HISTORY_MAX THEN mCount ELSE mCount + 1
    /\ Reply(r, Error)                  \* a result nobody looks at

Serve == (\E r \in sent : Count(r) \/ Get(r) \/ Add(r)) /\ UNCHANGED <<client, sent>>

-----------------------------------------------------------------------------
(* The clients                                                             *)

Calls(c, proc, arg) ==
    LET no == IF call[c] = None THEN 1 ELSE call[c].no + 1
        r == [from |-> c, no |-> no, proc |-> proc, arg |-> arg]
    IN  /\ call' = [call EXCEPT ![c] = r]
        /\ sent' = {q \in sent : q.from # c \/ q.proc = "add"} \cup {r}
        /\ answers' = {a \in answers : a.to # c}

Leaves(c, how) ==
    /\ run' = [run EXCEPT ![c] = how]
    /\ call' = [call EXCEPT ![c] = None]
    /\ sent' = {q \in sent : q.from # c \/ q.proc = "add"}
    /\ answers' = {a \in answers : a.to # c}

Start(c) ==
    /\ run[c] = "idle"
    /\ \/ run' = [run EXCEPT ![c] = "add"] /\ Calls(c, "add", 0)
       \/ run' = [run EXCEPT ![c] = "list"] /\ Calls(c, "count", 0)
    /\ UNCHANGED <<mList, mCount, executed, count, printed>>

Answered(c, a) == a \in answers /\ a.to = c

(* add_1 has returned.                                                     *)
Added(c) ==
    /\ run[c] = "add"
    /\ \E a \in answers : Answered(c, a)
    /\ Leaves(c, "done")
    /\ UNCHANGED <<mList, mCount, executed, count, printed>>

(* The next lap of the loop over the messages.                             *)
GetNext(c, n, i) ==
    IF i < n THEN Calls(c, "get", i) /\ UNCHANGED run ELSE Leaves(c, "done")

Counted(c) ==
    /\ run[c] = "list" /\ call[c].proc = "count"
    /\ \E a \in answers :
          /\ Answered(c, a)
          /\ count' = [count EXCEPT ![c] = a.value]
          /\ GetNext(c, a.value, 0)
    /\ UNCHANGED <<mList, mCount, executed, printed>>

Got(c) ==
    /\ run[c] = "list" /\ call[c].proc = "get"
    /\ \E a \in answers :
          /\ Answered(c, a)
          /\ printed' = [printed EXCEPT ![c] = Append(@, a.value)]
    /\ GetNext(c, count[c], call[c].arg + 1)
    /\ UNCHANGED <<mList, mCount, executed, count>>

(* The total timeout of clnt_call: the client exits.                       *)
Timeout(c) ==
    /\ run[c] \in {"add", "list"}
    /\ Leaves(c, "failed")
    /\ UNCHANGED <<mList, mCount, executed, count, printed>>

ClientStep(c) == Start(c) \/ Added(c) \/ Counted(c) \/ Got(c) \/ Timeout(c)

Ended == \A c \in Client : run[c] \in {"done", "failed"}

Next == Serve \/ (\E c \in Client : ClientStep(c)) \/ (Ended /\ UNCHANGED vars)

Spec == Init /\ [][Next]_vars

-----------------------------------------------------------------------------
TypeOK ==
    /\ mList \in [0 .. HISTORY_MAX - 1 -> 0 .. MaxAdds]
    /\ mCount \in 0 .. HISTORY_MAX
    /\ executed \in 0 .. MaxAdds
    /\ run \in [Client -> {"idle", "add", "list", "done", "failed"}]
    /\ call \in [Client -> Request \cup {None}]
    /\ sent \subseteq Request
    /\ answers \subseteq [to : Client, value : 0 .. MaxAdds]
    /\ count \in [Client -> 0 .. HISTORY_MAX]
    /\ printed \in [Client -> Seq(0 .. MaxAdds)]

(* A listing takes a call per message, and messages may be added in        *)
(* between, or again.  It may then repeat some, but it neither leaves out  *)
(* one between two that it shows nor runs into get's error, though old     *)
(* messages are dropped meanwhile.                                         *)
ListingHasNoGaps ==
    \A c \in Client :
        /\ \A i \in 1 .. Len(printed[c]) :
              /\ printed[c][i] # Error
              /\ i > 1 => printed[c][i] >= printed[c][i - 1] - 1
        /\ run[c] = "done" => Len(printed[c]) = count[c]
=============================================================================
