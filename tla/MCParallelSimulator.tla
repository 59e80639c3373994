------------------------ MODULE MCParallelSimulator ------------------------
(* Small instances of ParallelSimulator: a periodic ring of two ranks in    *)
(* one dimension, and three blocks of a plane in a row.                     *)
EXTENDS ParallelSimulatorRefinement

TwoRanks   == {0, 1}
ThreeRanks == {0, 1, 2}

\* What CartesianDecomposition finds for a periodic line.
RingOfTwo == [r \in TwoRanks |-> [s \in 0 .. 1 |-> 1 - r]]

\* Three blocks of a plane in a row, with Neumann sides at the ends of the row.
\* The bottom and top sides (2 and 3) are single, and keep the grid's own
\* boundary condition.
RowOfThree ==
  [r \in ThreeRanks |-> [s \in 0 .. 3 |->
     CASE s = 0 -> IF r = 0 THEN NoRank ELSE r - 1
       [] s = 1 -> IF r = 2 THEN NoRank ELSE r + 1
       [] s > 1 -> NoRank]]
=============================================================================
