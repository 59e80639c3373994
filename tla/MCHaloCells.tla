---------------------------- MODULE MCHaloCells ----------------------------
(* Small grids and splits for HaloCells and StructureFunctions, and a grid   *)
(* that is too narrow.                                                      *)
EXTENDS StructureFunctions

Conditions == {"periodic", "neumann"}
OneRank    == {<<1, 1, 1>>}
CPU        == {"cpu"}
Platforms  == {"cpu", "cuda"}

\* Split in one direction.
SplitGrids ==
  {[cells |-> n, condition |-> c] :
     n \in {<<6, 1, 1>>, <<4, 4, 1>>, <<4, 2, 1>>, <<2, 4, 2>>, <<2, 2, 4>>, <<4, 2, 2>>}, c \in Conditions}
OneWaySplits ==
  {<<1, 1, 1>>, <<2, 1, 1>>, <<3, 1, 1>>, <<1, 2, 1>>, <<1, 1, 2>>}

\* Split in two directions: corners depend on the order of the receives.
SquareGrid  == [cells |-> <<4, 4, 1>>, condition |-> "neumann"]
SquareSplit == <<2, 2, 1>>

\* One rank alone: blocks of many shapes, for what does not depend on others.
BlockGrids ==
  {[cells |-> <<x, 1, 1>>, condition |-> "neumann"] : x \in 2 .. 3}
    \cup {[cells |-> <<x, y, z>>, condition |-> "neumann"] :
            x \in 1 .. 3, y \in 2 .. 3, z \in 1 .. 3}

HaloGrids  == SplitGrids \cup {SquareGrid} \cup BlockGrids
HaloSplits == OneWaySplits \cup {SquareSplit}
HaloCases ==
  [grid : SplitGrids, procs : OneWaySplits, width : {1}, platform : Platforms]
    \cup [grid : {SquareGrid}, procs : {SquareSplit}, width : {1, 2}, platform : CPU]
    \cup [grid : {SquareGrid}, procs : {SquareSplit}, width : {1}, platform : Platforms]
    \cup [grid : BlockGrids, procs : OneRank, width : {1, 2}, platform : Platforms]

NarrowGrids == {[cells |-> <<2, 1, 1>>, condition |-> c] : c \in Conditions}
NarrowCases == [grid : NarrowGrids, procs : OneRank, width : {3}, platform : CPU]
=============================================================================
