---------------------------- MODULE GrowingList ----------------------------
(***************************************************************************)
(* readList of assignments/hw2/triangles.c, hw3/triangles-thread.c and     *)
(* hw6/triangles.cu: a list in memory that doubles when it is full, and    *)
(* the test for a triangle.                                                *)
(***************************************************************************)
EXTENDS Integers, Sequences, FiniteSets

CONSTANTS
    Value,      \* the numbers of the input
    MaxLength,  \* bound: the longest input explored
    FirstCap,   \* the first capacity, 5 in the code, positive
    None

VARIABLES vList, vCap

vCount == Len(vList)

InitList == vList = <<>> /\ vCap = FirstCap

Full(n) == n >= vCap

(* One value read, and the list grown before it is stored.                 *)
ReadValue(v) ==
    /\ vCount < MaxLength
    /\ vCap' = IF Full(vCount) THEN vCap * 2 ELSE vCap
    /\ vList' = Append(vList, v)

CheckTriangle(a, b, c) == a + b > c /\ a + c > b /\ b + c > a

(* The element at a C index.                                               *)
At(i) == vList[i + 1]

TC == INSTANCE TriangleCount WITH list <- vList, reported <- None
=============================================================================
