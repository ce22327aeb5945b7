----------------------------- MODULE HTTPClient -----------------------------
(* exercises/ex16/HTTPclient.c after its request is sent: the header goes  *)
(* to stderr and the body to stdout, and the stream arrives in pieces of   *)
(* any size.                                                               *)
EXTENDS Integers, Sequences

CONSTANTS
    Byte,           \* "\r", "\n" and others
    MaxResponse,    \* bound of the response
    BufferSize

VARIABLES
    response,
    taken,      \* how much of it has been read
    done,       \* how much of that the inner loop has been through
    last4,
    inHeader,
    stderr, stdout

vars == <<response, taken, done, last4, inHeader, stderr, stdout>>

CRLFCRLF == <<"\r", "\n", "\r", "\n">>

Init ==
    /\ response \in UNION {[1 .. n -> Byte] : n \in 0 .. MaxResponse}
    /\ taken = 0 /\ done = 0
    /\ last4 = <<"0", "0", "0", "0">>
    /\ inHeader = TRUE
    /\ stderr = <<>> /\ stdout = <<>>

(* read: some of what is to come, at most a buffer.                        *)
Read ==
    /\ done = taken /\ taken < Len(response)
    /\ \E n \in 1 .. BufferSize : taken + n <= Len(response) /\ taken' = taken + n
    /\ UNCHANGED <<response, done, last4, inHeader, stderr, stdout>>

RecentOnly(c) == <<"0", "0", "0", c>>   \* mutant: last4 is not static
Recent(c) == Append(Tail(last4), c)

(* The body of the loop over the buffer, for one character.                *)
Put ==
    /\ done < taken /\ done' = done + 1
    /\ LET c == response[done + 1]
       IN  IF inHeader
           THEN /\ stderr' = Append(stderr, c) /\ UNCHANGED stdout
                /\ last4' = Recent(c)
                /\ inHeader' = (last4' # CRLFCRLF)
           ELSE stdout' = Append(stdout, c) /\ UNCHANGED <<last4, inHeader, stderr>>
    /\ UNCHANGED <<response, taken>>

Ended == done = Len(response)

Next == Read \/ Put \/ (Ended /\ UNCHANGED vars)

Spec == Init /\ [][Next]_vars

-----------------------------------------------------------------------------
TypeOK ==
    /\ taken \in 0 .. Len(response) /\ done \in 0 .. taken
    /\ last4 \in [1 .. 4 -> Byte \cup {"0"}]
    /\ inHeader \in BOOLEAN

(* The header ends with the first empty line, wherever the reads have cut  *)
(* it, and everything behind it is the body.                               *)
SplitAtEmptyLine ==
    LET ends == {i \in 4 .. Len(response) : SubSeq(response, i - 3, i) = CRLFCRLF}
        header == IF ends = {} THEN Len(response)
                  ELSE CHOOSE i \in ends : \A j \in ends : i <= j
    IN  Ended => /\ stderr = SubSeq(response, 1, header)
                 /\ stdout = SubSeq(response, header + 1, Len(response))
=============================================================================
