----------------------------- MODULE RingEditor -----------------------------
(* assignments/hw3: edit2.c keeps a record of each of the last UNDO_LIMIT  *)
(* edits in a ring, and undo does the opposite of a record.  One user runs *)
(* one command after the other.  What lies behind the terminator is never  *)
(* seen, as both memmoves take the terminator along, so the string is the  *)
(* text it shows.                                                          *)
EXTENDS Integers, Sequences, SequencesExt

CONSTANTS Char, STRING_LIMIT, NUL

VARIABLES
    string,
    history,
    undo_count,
    defined,        \* FALSE once a memmove has left the string
    before,         \* the texts before the edits not undone, the last one last
    wrapped         \* an edit was made while the history was full

vars == <<string, history, undo_count, defined, before, wrapped>>

UNDO_LIMIT == 3
Slot == 0 .. UNDO_LIMIT - 1
Text == UNION {[1 .. n -> Char] : n \in 0 .. STRING_LIMIT - 1}
Record == [type : {"INSERT", "DELETE"}, index : 0 .. STRING_LIMIT - 1, character : Char \cup {NUL}]

(* reset2 has run on new shared memory, which is all zeros.                *)
Init ==
    /\ string \in Text
    /\ history = [i \in Slot |-> [type |-> "INSERT", index |-> 0, character |-> NUL]]
    /\ undo_count = 0 /\ defined = TRUE
    /\ before = <<>> /\ wrapped = FALSE

CountedPast == undo_count + 1           \* mutant: the test of undo_count is missing
Counted == IF undo_count < UNDO_LIMIT THEN undo_count + 1 ELSE undo_count

PlaceAfter == undo_count + 1            \* mutant: the slot is computed too late
Place == undo_count

(* The end of insert and delete.                                           *)
Remember(record) ==
    /\ history' = [history EXCEPT ![Place % UNDO_LIMIT] = record]
    /\ undo_count' = Counted
    /\ wrapped' = (wrapped \/ undo_count = UNDO_LIMIT)
    /\ before' = LET all == Append(before, string)
                 IN  IF Len(all) > UNDO_LIMIT THEN Tail(all) ELSE all
    /\ UNCHANGED defined

Insert(idx, c) ==
    /\ idx <= Len(string) /\ Len(string) < STRING_LIMIT - 1
    /\ string' = InsertAt(string, idx + 1, c)
    /\ Remember([type |-> "INSERT", index |-> idx, character |-> c])

Delete(idx) ==
    /\ idx < Len(string)
    /\ string' = RemoveAt(string, idx + 1)
    /\ Remember([type |-> "DELETE", index |-> idx, character |-> string[idx + 1]])

(* Taking a record back.  With an index behind the text the length given   *)
(* to memmove is negative, and with a full string the terminator leaves    *)
(* the array.                                                              *)
Reversible(s, r) ==
    IF r.type = "INSERT" THEN r.index <= Len(s)
    ELSE r.index <= Len(s) + 1 /\ (Len(s) < STRING_LIMIT - 1 \/ r.index > Len(s))

Reversed(s, r) ==
    CASE r.type = "INSERT" /\ r.index < Len(s) -> RemoveAt(s, r.index + 1)
      [] r.type = "DELETE" /\ r.index <= Len(s) -> InsertAt(s, r.index + 1, r.character)
      [] OTHER -> s

Newest == history[(undo_count - 1) % UNDO_LIMIT]

Undo ==
    /\ undo_count > 0
    /\ undo_count' = undo_count - 1
    /\ IF Reversible(string, Newest)
       THEN string' = Reversed(string, Newest) /\ UNCHANGED defined
       ELSE defined' = FALSE /\ UNCHANGED string
    /\ before' = Front(before)
    /\ wrapped' = (wrapped /\ (undo_count > 1 \/ ~defined'))
    /\ UNCHANGED history

(* reset2.c: strncpy and undo_count = 0.                                   *)
Reset ==
    /\ string' \in Text
    /\ undo_count' = 0 /\ before' = <<>> /\ wrapped' = FALSE
    /\ UNCHANGED <<history, defined>>

Next ==
    \/ /\ defined
       /\ \/ \E idx \in 0 .. STRING_LIMIT - 1 : Delete(idx) \/ \E c \in Char : Insert(idx, c)
          \/ Undo
          \/ Reset
    \/ ~defined /\ UNCHANGED vars

Spec == Init /\ [][Next]_vars

-----------------------------------------------------------------------------
TypeOK ==
    /\ string \in Text
    /\ history \in [Slot -> Record]
    /\ undo_count \in 0 .. UNDO_LIMIT
    /\ defined \in BOOLEAN /\ wrapped \in BOOLEAN
    /\ before \in Seq(Text) /\ Len(before) = undo_count

(* The text after n undos from here.                                       *)
After[n \in 0 .. UNDO_LIMIT] ==
    IF n = 0 THEN string
    ELSE Reversed(After[n - 1], history[(undo_count - n) % UNDO_LIMIT])

(* As long as no edit has found the history full, every undo still to come *)
(* goes back to the text before its edit.                                  *)
UndoGoesBack ==
    ~wrapped => defined /\ \A n \in 1 .. undo_count : After[n] = before[undo_count + 1 - n]
=============================================================================
