----------------------------- MODULE MappedSort -----------------------------
(* exercises/ex14/sort.c: an exchange sort of the records of a file, in    *)
(* the file itself, which is mapped shared.  The user may interrupt it; an *)
(* interrupted run leaves the file as it is.  The distance of a record     *)
(* very near the target may be NaN, as rounding can put the argument of    *)
(* acos above 1: NaN is less than nothing, and nothing less than NaN.      *)
EXTENDS Integers, Sequences, FiniteSets

CONSTANTS
    MaxRecords, Distance,
    NaN,
    SIZE_MAX        \* of size_t, a small power of two less one

VARIABLES
    distance,       \* of each record of the file as it was
    plist,          \* the file: the records by their old places
    i, j,           \* from 0 as in the code
    tmp,
    phase           \* "compare", "exchange", "copied", "done" or "killed"

vars == <<distance, plist, i, j, tmp, phase>>

numPOIs == Len(plist)
Laps == IF numPOIs = 0 THEN SIZE_MAX ELSE numPOIs - 1

Init ==
    /\ distance \in UNION {[1 .. n -> Distance \cup {NaN}] : n \in 0 .. MaxRecords}
    /\ plist = [k \in DOMAIN distance |-> k]
    /\ i = 0 /\ j = 1 /\ tmp = 0
    /\ phase = "compare"

Less(a, b) == a # NaN /\ b # NaN /\ a < b

(* The conditions of the two loops, then the comparison.  With no record   *)
(* numPOIs - 1 is the largest size_t.                                      *)
Compare ==
    /\ phase = "compare"
    /\ \/ i >= Laps /\ phase' = "done" /\ UNCHANGED <<i, j>>
       \/ i < Laps /\ j >= numPOIs /\ i' = i + 1 /\ j' = i + 2 /\ UNCHANGED phase
       \/ /\ i < Laps /\ j < numPOIs
          /\ IF Less(distance[plist[j + 1]], distance[plist[i + 1]])
             THEN phase' = "exchange" /\ UNCHANGED j
             ELSE j' = j + 1 /\ UNCHANGED phase
          /\ UNCHANGED i
    /\ UNCHANGED <<distance, plist, tmp>>

(* tmp = plist[i]; plist[i] = plist[j]; and then plist[j] = tmp.           *)
CopyDown ==
    /\ phase = "exchange"
    /\ tmp' = plist[i + 1]
    /\ plist' = [plist EXCEPT ![i + 1] = plist[j + 1]]
    /\ phase' = "copied"
    /\ UNCHANGED <<distance, i, j>>

CopyUpElsewhere ==                      \* mutant: plist[ i ] = tmp
    /\ phase = "copied"
    /\ plist' = [plist EXCEPT ![i + 1] = tmp]
    /\ j' = j + 1
    /\ phase' = "compare"
    /\ UNCHANGED <<distance, i, tmp>>
CopyUp ==
    /\ phase = "copied"
    /\ plist' = [plist EXCEPT ![j + 1] = tmp]
    /\ j' = j + 1
    /\ phase' = "compare"
    /\ UNCHANGED <<distance, i, tmp>>

Interrupt ==
    /\ phase \notin {"done", "killed"}
    /\ phase' = "killed"
    /\ UNCHANGED <<distance, plist, i, j, tmp>>

Step == Compare \/ CopyDown \/ CopyUp

Ended == phase \in {"done", "killed"}

Next == Step \/ Interrupt \/ (Ended /\ UNCHANGED vars)

Spec == Init /\ [][Next]_vars

-----------------------------------------------------------------------------
TypeOK ==
    /\ plist \in [DOMAIN distance -> DOMAIN distance]
    /\ i \in 0 .. SIZE_MAX /\ j \in 1 .. SIZE_MAX + 1
    /\ tmp \in DOMAIN distance \cup {0}
    /\ phase \in {"compare", "exchange", "copied", "done", "killed"}

(* Wherever it is interrupted, the file has lost at most the one record    *)
(* that is in tmp; a run that ends has lost none and has sorted the        *)
(* records, if every distance is a number.                                 *)
FileKeepsRecords ==
    LET kept == {plist[k] : k \in DOMAIN plist}
    IN  /\ Cardinality(DOMAIN plist \ kept) <= 1
        /\ phase = "done" =>
              /\ kept = DOMAIN plist
              /\ (\A k \in DOMAIN distance : distance[k] # NaN) =>
                    \A k \in 2 .. numPOIs : distance[plist[k - 1]] <= distance[plist[k]]
=============================================================================
