------------------------------ MODULE Editing ------------------------------
(***************************************************************************)
(* What the editors of assignments/hw2 and hw4 promise: a text that is     *)
(* edited one character at a time, and the texts before the last few       *)
(* edits, to which undo goes back.                                         *)
(***************************************************************************)
EXTENDS Integers, Sequences, SequencesExt

CONSTANTS Char, UNDO_LIMIT

VARIABLES
    text,
    past        \* earlier texts, the latest one last

Remembered == LET all == Append(past, text)
              IN  IF Len(all) > UNDO_LIMIT THEN Tail(all) ELSE all

Edit == past' = Remembered

Insert == Edit /\ \E i \in 1 .. Len(text) + 1, c \in Char : text' = InsertAt(text, i, c)
Delete == Edit /\ \E i \in 1 .. Len(text) : text' = RemoveAt(text, i)

(* hw2 takes a deletion right behind the text for an edit.                 *)
DeleteNothing == Edit /\ text' = text

Undo ==
    /\ past # <<>>
    /\ text' = Last(past)
    /\ past' = Front(past)

Reset == text' \in Seq(Char) /\ past' = <<>>

EditingInit == text \in Seq(Char) /\ past = <<>>

(* The history is exact, whatever an edit does to the text.                *)
UndoSpec ==
    /\ EditingInit
    /\ [][(Edit /\ text' \in Seq(Char)) \/ Undo \/ Reset]_<<text, past>>

(* The text is what the edits make of it, as well.                         *)
EditingSpec ==
    /\ EditingInit
    /\ [][Insert \/ Delete \/ Undo \/ Reset]_<<text, past>>

ServerSpec ==
    /\ EditingInit
    /\ [][Insert \/ Delete \/ DeleteNothing \/ Undo]_<<text, past>>
=============================================================================
