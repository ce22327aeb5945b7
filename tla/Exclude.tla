------------------------------- MODULE Exclude -------------------------------
(* assignments/hw1/exclude.c: copies a file without one of its lines.  The *)
(* array of lines is one piece of memory, so that a line longer than a row *)
(* runs into the next one; only behind the last row does C define nothing. *)
EXTENDS Integers, Sequences, FiniteSets

CONSTANTS
    LINE_LIMIT, LINES_LIMIT,
    MaxInput,       \* bound of the input
    BufferSize      \* 64 in the code

VARIABLES
    input,          \* a sequence of "x" and "\n"
    excludedLineIdx,
    taken,          \* how much of the input has been read
    buffer, i,      \* the piece that was read and how much of it is done
    wholeFile,      \* memory, by address
    j, h,
    written,        \* to the output file, from its start
    defined

vars == <<input, excludedLineIdx, taken, buffer, i, wholeFile, j, h, written, defined>>

Address == 0 .. LINES_LIMIT * LINE_LIMIT - 1

Init ==
    /\ input \in UNION {[1 .. n -> {"x", "\n"}] : n \in 0 .. MaxInput}
    /\ excludedLineIdx \in 0 .. 2
    /\ taken = 0 /\ buffer = <<>> /\ i = 0
    /\ wholeFile = [a \in Address |-> "0"]
    /\ j = 0 /\ h = 0
    /\ written = <<>>
    /\ defined = TRUE

Read ==
    /\ defined /\ i = Len(buffer)
    /\ taken < Len(input)
    /\ \E n \in 1 .. BufferSize :
          /\ taken + n <= Len(input)
          /\ taken' = taken + n
          /\ buffer' = SubSeq(input, taken + 1, taken + n)
    /\ i' = 0
    /\ UNCHANGED <<input, excludedLineIdx, wholeFile, j, h, written, defined>>

LineShort(length, memory) ==    \* mutant: h is increased too late
    [k \in 1 .. length - 1 |-> memory[j * LINE_LIMIT + k - 1]]
Line(length, memory) == [k \in 1 .. length |-> memory[j * LINE_LIMIT + k - 1]]

(* One character: it is stored, and a line that is complete is written.    *)
Store ==
    /\ defined /\ i < Len(buffer)
    /\ LET c == buffer[i + 1]
           a == j * LINE_LIMIT + h
           memory == [wholeFile EXCEPT ![a] = c]
       IN  IF a \notin Address
           THEN defined' = FALSE /\ UNCHANGED <<i, wholeFile, j, h, written>>
           ELSE /\ wholeFile' = memory
                /\ i' = i + 1
                /\ written' = IF c = "\n" /\ j # excludedLineIdx
                              THEN written \o Line(h + 1, memory) ELSE written
                /\ j' = IF c = "\n" THEN j + 1 ELSE j
                /\ h' = IF c = "\n" THEN 0 ELSE h + 1
                /\ UNCHANGED defined
    /\ UNCHANGED <<input, excludedLineIdx, taken, buffer>>

Ended == ~defined \/ (i = Len(buffer) /\ taken = Len(input))

Next == Read \/ Store \/ (Ended /\ UNCHANGED vars)

Spec == Init /\ [][Next]_vars

-----------------------------------------------------------------------------
TypeOK ==
    /\ taken \in 0 .. Len(input)
    /\ i \in 0 .. Len(buffer)
    /\ wholeFile \in [Address -> {"0", "x", "\n"}]
    /\ j \in 0 .. MaxInput /\ h \in 0 .. MaxInput
    /\ defined \in BOOLEAN

(* Every complete line but the excluded one is written once and in order,  *)
(* also when lines are cut by the reads and when they are longer than a    *)
(* row of the array.  A last line without its "\n" is lost.                *)
LinesKept ==
    LET newlines == {k \in DOMAIN input : input[k] = "\n"}
        lineOf(k) == Cardinality({n \in newlines : n < k})
        kept == {k \in DOMAIN input : lineOf(k) # excludedLineIdx /\ \E n \in newlines : k <= n}
    IN  Ended /\ defined =>
          /\ Len(written) = Cardinality(kept)
          /\ \A k \in kept : written[Cardinality({n \in kept : n <= k})] = input[k]
=============================================================================
