---------------------------- MODULE PlainEditor ----------------------------
(* assignments/hw3: edit.c works on a string in shared memory, one command  *)
(* after the other, and keeps the three strings before it; reset.c starts   *)
(* over.  It moves characters by len, which undo leaves as it is.           *)
EXTENDS CString, Sequences

VARIABLES
    string,
    prev,           \* prev1, prev2 and prev3
    len,
    num_undos

vars == <<string, prev, len, num_undos>>

UNDO_LIMIT == 3
Empty == Filled(<<>>)

(* reset                                                                   *)
Holds(s) == Terminated(s) /\ s = Strncpy(s)

Init ==
    /\ string \in {s \in Buffer : Holds(s)}
    /\ prev = <<Empty, Empty, Empty>>
    /\ len = Strlen(string)
    /\ num_undos = 0

Reset ==
    /\ string' \in {s \in Buffer : Holds(s)}
    /\ prev' = <<Empty, Empty, Empty>>
    /\ len' = Strlen(string')
    /\ num_undos' = 0

(* The end of insert and delete.                                           *)
Remember ==
    /\ prev' = <<Strncpy(string), Strncpy(prev[1]), Strncpy(prev[2])>>
    /\ num_undos' = IF num_undos < UNDO_LIMIT THEN num_undos + 1 ELSE num_undos

Insert(idx, c) ==
    /\ idx <= len /\ len < STRING_LIMIT - 1
    /\ Remember
    /\ string' = [k \in Cell |-> IF k = idx THEN c
                                 ELSE IF idx < k /\ k <= len + 1 THEN string[k - 1]
                                 ELSE string[k]]
    /\ len' = len + 1

Delete(idx) ==
    /\ idx < len
    /\ Remember
    /\ string' = [k \in Cell |-> IF idx <= k /\ k < len THEN string[k + 1] ELSE string[k]]
    /\ len' = len - 1

ShiftedLast == <<Strncpy(prev[3]), prev[2], prev[3]>>   \* mutant: prev1 and prev2 swapped
Shifted == <<Strncpy(prev[2]), Strncpy(prev[3]), prev[3]>>

Undo ==
    /\ num_undos > 0
    /\ string' = Strncpy(prev[1])
    /\ prev' = Shifted
    /\ num_undos' = num_undos - 1
    /\ UNCHANGED len

Next ==
    \/ \E idx \in Cell : Delete(idx) \/ \E c \in Char : Insert(idx, c)
    \/ Undo
    \/ Reset

-----------------------------------------------------------------------------
TypeOK ==
    /\ string \in Buffer
    /\ prev \in Seq(Buffer) /\ Len(prev) = UNDO_LIMIT
    /\ len \in 0 .. STRING_LIMIT - 1
    /\ num_undos \in 0 .. UNDO_LIMIT

(* The texts undo goes back to, the last one last.                         *)
History == [i \in 1 .. num_undos |-> Visible(prev[num_undos + 1 - i])]
=============================================================================
