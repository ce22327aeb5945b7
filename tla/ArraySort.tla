------------------------------ MODULE ArraySort ------------------------------
(* exercises/ex15/array.c: recursive quicksort of an array in place, with  *)
(* a step for each lap of the partition.                                   *)
EXTENDS Integers, Sequences, FiniteSets

CONSTANTS MaxLength, Value

VARIABLES
    input,
    seq,        \* the array, from 1
    calls,      \* the calls to come: where their part begins, and its length
    i, lower    \* of the first call; i is 0 before its loop

vars == <<input, seq, calls, i, lower>>

Init ==
    /\ input \in UNION {[1 .. n -> Value] : n \in 0 .. MaxLength}
    /\ seq = input
    /\ calls = <<[base |-> 1, n |-> Len(input)]>>
    /\ i = 0 /\ lower = 0

Swap(s, a, b) == [s EXCEPT ![a] = s[b], ![b] = s[a]]
base == Head(calls).base
n == Head(calls).n

Trivial ==
    /\ calls # <<>> /\ i = 0 /\ n <= 1
    /\ calls' = Tail(calls)
    /\ UNCHANGED <<input, seq, i, lower>>

Begin ==
    /\ calls # <<>> /\ i = 0 /\ n > 1
    /\ i' = 1 /\ lower' = 0
    /\ UNCHANGED <<input, seq, calls>>

PartitionFromPivot ==           \* mutant: swaps before it counts
    IF seq[base + i] < seq[base]
    THEN lower' = lower + 1 /\ seq' = Swap(seq, base + lower, base + i)
    ELSE UNCHANGED <<seq, lower>>
Partition ==
    IF seq[base + i] < seq[base]
    THEN lower' = lower + 1 /\ seq' = Swap(seq, base + lower + 1, base + i)
    ELSE UNCHANGED <<seq, lower>>

Lap ==
    /\ i # 0 /\ i < n
    /\ Partition
    /\ i' = i + 1
    /\ UNCHANGED <<input, calls>>

(* The pivot moves to the middle, and the two sides are sorted.            *)
Split ==
    /\ i # 0 /\ i = n
    /\ seq' = Swap(seq, base, base + lower)
    /\ calls' = <<[base |-> base, n |-> lower],
                  [base |-> base + lower + 1, n |-> n - lower - 1]>> \o Tail(calls)
    /\ i' = 0 /\ lower' = 0
    /\ UNCHANGED input

Ended == calls = <<>>

Next == Trivial \/ Begin \/ Lap \/ Split \/ (Ended /\ UNCHANGED vars)

Spec == Init /\ [][Next]_vars

-----------------------------------------------------------------------------
TypeOK ==
    /\ seq \in [DOMAIN input -> Value]
    /\ \A k \in DOMAIN calls : calls[k].base \in 1 .. Len(seq) + 1
                               /\ calls[k].n \in 0 .. Len(seq) + 1 - calls[k].base
    /\ i \in 0 .. Len(seq) /\ lower \in 0 .. Len(seq)

(* What is left is sorted, and no value is lost or doubled.                *)
ArrayIsSorted ==
    Ended => /\ \A k \in 2 .. Len(seq) : seq[k - 1] <= seq[k]
             /\ \A v \in Value : Cardinality({k \in DOMAIN seq : seq[k] = v})
                                     = Cardinality({k \in DOMAIN input : input[k] = v})
=============================================================================
