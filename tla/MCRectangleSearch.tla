-------------------------- MODULE MCRectangleSearch --------------------------
(* All the sets of four points of a corner of the grid, and eight points   *)
(* from which the same edges can be drawn as two different sets of         *)
(* rectangles, that is with different points.                              *)
EXTENDS RectangleSearch

Corner == (0 .. 3) \X (0 .. 3)
Twins == {<<0, 4>>, <<1, 5>>, <<2, 2>>, <<3, 0>>, <<3, 5>>, <<4, 1>>, <<5, 3>>, <<5, 4>>}
MCInstances == {s \in SUBSET Corner : Cardinality(s) = 4} \union {Twins}
=============================================================================
