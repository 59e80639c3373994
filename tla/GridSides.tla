----------------------------- MODULE GridSides -----------------------------
(***************************************************************************)
(* The sides of a grid.  Directions are 1, 2, 3 here and 0, 1, 2 in the     *)
(* code; sides are 0 .. 5 as in the code: left, right, bottom, top, front,  *)
(* back, so 2d - 2 is the lower and 2d - 1 the upper side in direction d.   *)
(***************************************************************************)
EXTENDS Integers

Axes == 1 .. 3

Direction(side) == side \div 2 + 1
IsBottom(side)  == side % 2 = 0
Opposite(side)  == IF IsBottom(side) THEN side + 1 ELSE side - 1
=============================================================================
