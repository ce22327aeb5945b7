------------------------------ MODULE SpinList ------------------------------
(***************************************************************************)
(* exercises/ex08/critical.c: threads take nodes from the head of a linked *)
(* list and put them back at its tail, each under a spin lock.  The nodes  *)
(* are numbered in the order of the list main builds; what a thread does   *)
(* with the counter of its own node is left out.                           *)
(***************************************************************************)
EXTENDS Integers, FiniteSets, Sequences

CONSTANTS Thread, LIST_LEN, NULL

(* The code needs this and does not check it: the last node may not be     *)
(* taken, since head and tail know nothing of an empty list.               *)
ASSUME NodesLeft ==
    /\ IsFiniteSet(Thread) /\ LIST_LEN \in Nat /\ Cardinality(Thread) < LIST_LEN
    /\ NULL \notin 1 .. LIST_LEN

VARIABLES lock, head, tail, next, running, pc, node

vars == <<lock, head, tail, next, running, pc, node>>

Node == 1 .. LIST_LEN

TypeOK ==
    /\ lock \in {0, 1}
    /\ {head, tail} \subseteq Node \cup {NULL}
    /\ next \in [Node -> Node \cup {NULL}]
    /\ running \in BOOLEAN
    /\ pc \in [Thread -> {"while", "dequeue", "take", "unlink", "taken",
                          "enqueue", "link", "linked", "put", "done"}]
    /\ node \in [Thread -> Node \cup {NULL}]

Init ==
    /\ lock = 0
    /\ head = 1 /\ tail = LIST_LEN
    /\ next = [n \in Node |-> IF n = LIST_LEN THEN NULL ELSE n + 1]
    /\ running = TRUE
    /\ pc = [t \in Thread |-> "while"]
    /\ node = [t \in Thread |-> NULL]

-----------------------------------------------------------------------------
Step(t, from, to) == pc[t] = from /\ pc' = [pc EXCEPT ![t] = to]

(* cycleList: the test of the loop.                                        *)
Continue(t) ==
    /\ Step(t, "while", IF running THEN "dequeue" ELSE "done")
    /\ UNCHANGED <<lock, head, tail, next, running, node>>

TestThenSet(t) ==                       \* mutant: the lock is not tested
    /\ Step(t, "dequeue", "take") \/ Step(t, "enqueue", "link")
    /\ lock' = 1
    /\ UNCHANGED <<head, tail, next, running, node>>
LockTestAndSet(t) ==
    /\ Step(t, "dequeue", "take") \/ Step(t, "enqueue", "link")
    /\ lock = 0 /\ lock' = 1
    /\ UNCHANGED <<head, tail, next, running, node>>

(* dequeueNode.                                                            *)
TakeHead(t) ==
    /\ Step(t, "take", "unlink")
    /\ node' = [node EXCEPT ![t] = head]
    /\ UNCHANGED <<lock, head, tail, next, running>>
Unlink(t) ==
    /\ Step(t, "unlink", "taken")
    /\ head' = next[head]
    /\ UNCHANGED <<lock, tail, next, running, node>>

(* enqueueNode.                                                            *)
Link(t) ==
    /\ Step(t, "link", "linked")
    /\ next' = [next EXCEPT ![tail] = node[t]]
    /\ UNCHANGED <<lock, head, tail, running, node>>
SetTail(t) ==
    /\ Step(t, "linked", "put")
    /\ tail' = node[t]
    /\ next' = [next EXCEPT ![node[t]] = NULL]
    /\ UNCHANGED <<lock, head, running, node>>

ReleasedOnce(t) == pc[t] = "put"        \* mutant: dequeueNode keeps the lock
Released(t) == pc[t] \in {"taken", "put"}

LockRelease(t) ==
    /\ Step(t, "taken", "enqueue") \/ Step(t, "put", "while")
    /\ lock' = IF Released(t) THEN 0 ELSE lock
    /\ node' = IF pc[t] = "put" THEN [node EXCEPT ![t] = NULL] ELSE node
    /\ UNCHANGED <<head, tail, next, running>>

CycleList(t) ==
    \/ Continue(t) \/ LockTestAndSet(t) \/ TakeHead(t) \/ Unlink(t)
    \/ Link(t) \/ SetTail(t) \/ LockRelease(t)

(* main, after its sleep.                                                  *)
AskToStop ==
    /\ running
    /\ running' = FALSE
    /\ UNCHANGED <<lock, head, tail, next, pc, node>>

AllDone == \A t \in Thread : pc[t] = "done"
Joined == AllDone /\ UNCHANGED vars

Next == AskToStop \/ Joined \/ \E t \in Thread : CycleList(t)

(* Every thread runs now and then; nothing says who gets the lock.         *)
Spec == Init /\ [][Next]_vars /\ \A t \in Thread : WF_vars(CycleList(t))

-----------------------------------------------------------------------------
(* Properties                                                              *)

(* A spinning thread may be overtaken for ever while all cycle, but once   *)
(* main asks them to stop, each of them gets the lock and returns, so that *)
(* main can join them all.                                                 *)
ThreadsReturn == ~running ~> AllDone

(* The list as main would walk it; the link behind a node that is just     *)
(* being put back is an old one.                                           *)
Fresh == {node[t] : t \in {u \in Thread : pc[u] = "linked"}}
Walk ==
    LET walk[k \in Node] == IF k = 1 THEN head
                            ELSE IF walk[k - 1] \in Fresh \cup {NULL} THEN NULL
                            ELSE next[walk[k - 1]]
    IN  walk

Length == Cardinality({k \in Node : Walk[k] # NULL})
Held == [t \in Thread |-> IF pc[t] \in {"taken", "enqueue", "link"} THEN node[t] ELSE NULL]

(* No node is lost or given to two threads, and main counts them all.      *)
Nodes == INSTANCE CyclingQueue WITH queue <- SubSeq(Walk, 1, Length), held <- Held
ImplementsQueue == Nodes!QueueSpec
=============================================================================
