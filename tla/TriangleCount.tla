--------------------------- MODULE TriangleCount ---------------------------
(***************************************************************************)
(* What the triangle programs promise: read values, then report once how   *)
(* many triples of them, at three different places, can be the sides of a  *)
(* triangle.                                                               *)
(***************************************************************************)
EXTENDS Integers, Sequences, FiniteSets

CONSTANTS Value, None

VARIABLES list, reported

CheckTriangle(a, b, c) == a + b > c /\ a + c > b /\ b + c > a

(* The triples of places i < j < k of s that hold a triangle.              *)
Triangles(s) ==
    {t \in (1 .. Len(s)) \X (1 .. Len(s)) \X (1 .. Len(s)) :
        t[1] < t[2] /\ t[2] < t[3] /\ CheckTriangle(s[t[1]], s[t[2]], s[t[3]])}

CountInit == list = <<>> /\ reported = None

TakeValue(v) ==
    /\ reported = None
    /\ list' = Append(list, v)
    /\ UNCHANGED reported

Report ==
    /\ reported = None
    /\ reported' = Cardinality(Triangles(list))
    /\ UNCHANGED list

CountNext == Report \/ \E v \in Value : TakeValue(v)

CountSpec == CountInit /\ [][CountNext]_<<list, reported>>
=============================================================================
