------------------------------ MODULE ListSort ------------------------------
(* exercises/ex15/linked.c: recursive quicksort of a linked list, which    *)
(* moves the nodes by their links and hands head and tail up and down the  *)
(* recursion.                                                              *)
EXTENDS Integers, Sequences

CONSTANTS
    MaxNodes,       \* bound of the list
    Value,
    NULL

VARIABLES
    val, next,      \* the fields of the nodes
    stack,          \* the calls of sort, the last one first
    sorted          \* what main's list is after sort, or <<>>

vars == <<val, next, stack, sorted>>

Empty == [head |-> NULL, tail |-> NULL]

(* at is the line the call is at; curr is the node the loop has come to.   *)
Call(list) == [list |-> list, curr |-> NULL, lesser |-> Empty, greater |-> Empty, at |-> "entry"]

(* main has linked the nodes in the order they were made.                  *)
Init ==
    \E n \in 0 .. MaxNodes :
        /\ val \in [1 .. n -> Value]
        /\ next = [k \in 1 .. n |-> IF k < n THEN k + 1 ELSE NULL]
        /\ stack = <<Call(IF n = 0 THEN Empty ELSE [head |-> 1, tail |-> n])>>
        /\ sorted = <<>>

Top == Head(stack)
pivot == Top.list.head
Replace(call) == stack' = <<call>> \o Tail(stack)

(* The call returns and has left its result in the caller's List.          *)
Return(list) ==
    IF Len(stack) = 1 THEN stack' = <<>> /\ sorted' = <<list>>
    ELSE LET caller == stack[2]
             done == IF caller.at = "lesser" THEN [caller EXCEPT !.lesser = list]
                     ELSE [caller EXCEPT !.greater = list, !.at = "join"]
         IN  stack' = <<done>> \o SubSeq(stack, 3, Len(stack)) /\ UNCHANGED sorted

(* The heads of lists of at most one node.                                 *)
AtMostOne == {NULL} \cup {m \in DOMAIN next : next[m] = NULL}

ShortList ==
    /\ stack # <<>> /\ Top.at = "entry"
    /\ pivot \in AtMostOne
    /\ Return(Top.list)
    /\ UNCHANGED <<val, next>>

Partition ==
    /\ stack # <<>> /\ Top.at = "entry"
    /\ pivot \notin AtMostOne
    /\ Replace([Top EXCEPT !.curr = next[pivot], !.at = "loop"])
    /\ UNCHANGED <<val, next, sorted>>

(* curr goes to the tail of one of the two lists.                          *)
Appended(list, node) == [head |-> IF list.tail = NULL THEN node ELSE list.head, tail |-> node]
Linked(list, node) ==
    [m \in DOMAIN next |-> IF m = node THEN NULL ELSE IF m = list.tail THEN node ELSE next[m]]

Move ==
    /\ stack # <<>> /\ Top.at = "loop" /\ Top.curr # NULL
    /\ LET onward == [Top EXCEPT !.curr = next[Top.curr]]
       IN  IF val[Top.curr] < val[pivot]
           THEN /\ Replace([onward EXCEPT !.lesser = Appended(@, Top.curr)])
                /\ next' = Linked(Top.lesser, Top.curr)
           ELSE /\ Replace([onward EXCEPT !.greater = Appended(@, Top.curr)])
                /\ next' = Linked(Top.greater, Top.curr)
    /\ UNCHANGED <<val, sorted>>

SortLesser ==
    /\ stack # <<>> /\ Top.at = "loop" /\ Top.curr = NULL
    /\ stack' = <<Call(Top.lesser), [Top EXCEPT !.at = "lesser"]>> \o Tail(stack)
    /\ UNCHANGED <<val, next, sorted>>

SortGreater ==
    /\ stack # <<>> /\ Top.at = "lesser"
    /\ stack' = <<Call(Top.greater), [Top EXCEPT !.at = "greater"]>> \o Tail(stack)
    /\ UNCHANGED <<val, next, sorted>>

(* Lesser + pivot + greater.                                               *)
TailKept(call) == IF call.greater.tail # NULL THEN call.greater.tail ELSE call.list.tail  \* mutant
NewTail(call) == IF call.greater.tail # NULL THEN call.greater.tail ELSE call.list.head

Join ==
    /\ stack # <<>> /\ Top.at = "join"
    /\ next' = [m \in DOMAIN next |-> IF m = pivot THEN Top.greater.head
                                      ELSE IF m = Top.lesser.tail THEN pivot ELSE next[m]]
    /\ Return([head |-> IF Top.lesser.head # NULL THEN Top.lesser.head ELSE pivot,
               tail |-> NewTail(Top)])
    /\ UNCHANGED val

Step == ShortList \/ Partition \/ Move \/ SortLesser \/ SortGreater \/ Join

Ended == stack = <<>>

Next == Step \/ (Ended /\ UNCHANGED vars)

Spec == Init /\ [][Next]_vars

-----------------------------------------------------------------------------
TypeOK ==
    /\ val \in [DOMAIN next -> Value]
    /\ next \in [DOMAIN val -> DOMAIN val \cup {NULL}]
    /\ Len(stack) <= MaxNodes + 1
    /\ Len(sorted) <= 1

(* The nodes in the order a stable sort gives them.                        *)
Before(m, n) == val[m] < val[n] \/ (val[m] = val[n] /\ m < n)
Follows(m, n) == Before(m, n) /\ ~\E k \in DOMAIN val : Before(m, k) /\ Before(k, n)

(* The list that is left links all the nodes, sorted and equal values in   *)
(* their old order, from its head to its tail.                             *)
ListIsSorted ==
    Ended =>
      /\ IF DOMAIN val = {} THEN sorted = <<Empty>>
         ELSE \E h, t \in DOMAIN val :
                /\ sorted = <<[head |-> h, tail |-> t]>>
                /\ next[t] = NULL
                /\ \A m \in DOMAIN val : ~Before(m, h) /\ ~Before(t, m)
      /\ \A m \in DOMAIN val :
            IF next[m] = NULL THEN \A k \in DOMAIN val : ~Before(m, k)
            ELSE next[m] \in DOMAIN val /\ Follows(m, next[m])
=============================================================================
