------------------------- MODULE StructureFunctions -------------------------
(***************************************************************************)
(* StructureBasic: the pairs of cells whose values a structure function     *)
(* compares, cell by cell and distance by distance along one direction.  A  *)
(* partner that lies outside the block is looked up by ValueAtBoundary; it  *)
(* is read from the volume that the boundary conditions have filled.        *)
(***************************************************************************)
EXTENDS HaloCells

CONSTANT NumberOfH   \* numberOfH, the number of distances

ASSUME NumberOfHAssumption == NumberOfH \in Nat

\* Every reconstruction has at least one ghost cell, and the system takes the
\* largest number (NoReconstruction.cpp:71, ConservedSystem.cpp:111).
ASSUME GhostCellsAssumption == \A case \in Cases : case.width >= 1

GhostsIn(v, d)   == IF d <= v.dimensions THEN v.ghosts ELSE 0
InnerCells(v, d) == v.size[d] - 2 * GhostsIn(v, d)

\* computeStatistics asks for the condition of the side with the number of the
\* direction, counted from 0, and throws if MPI takes care of that side.
ConditionFor(r, d) == domain[r].conditions[d - 1]

\* Fault: a partner may lie two cells behind the end.
ClampedLater(x, n) == IF x < 0 THEN 0 ELSE IF x > n + 1 THEN n + 1 ELSE x

\* ValueAtBoundary<NEUMANN>: the cell n is the first ghost cell.
Clamped(x, n) == IF x < 0 THEN 0 ELSE IF x > n THEN n ELSE x

\* The coordinate whose value stands for the one at x, of n.
AtBoundary(condition, x, n) == IF condition = "periodic" THEN x % n ELSE Clamped(x, n)

\* Where the value of the inner cell c, perhaps behind the end, is read.
ReadAt(v, condition, c) ==
  Index(v, [d \in Axes |-> AtBoundary(condition, c[d], InnerCells(v, d)) + GhostsIn(v, d)])

\* The inner cells of a volume.
Inner(v) ==
  (0 .. InnerCells(v, 1) - 1) \X (0 .. InnerCells(v, 2) - 1) \X (0 .. InnerCells(v, 3) - 1)

\* computeStructure: for each cell and distance, which values are compared.
Compared(r, d) ==
  [pair \in Inner(Block) \X (0 .. NumberOfH - 1) |->
     LET c == pair[1]
         h == pair[2]
     IN  <<memory[r][Index(Block, [e \in Axes |-> c[e] + GhostsIn(Block, e)])],
           memory[r][ReadAt(Block, ConditionFor(r, d), [c EXCEPT ![d] = @ + h])]>>]

-----------------------------------------------------------------------------
(* Correctness.                                                             *)

\* The cell of the grid that stands for position p, for structure functions:
\* around the end, or the last one before it.
Nearest(p) ==
  [e \in Axes |-> IF grid.condition = "periodic" THEN p[e] % grid.cells[e]
                  ELSE IF p[e] >= grid.cells[e] THEN grid.cells[e] - 1 ELSE p[e]]

\* Once the boundary conditions are applied, a structure function that is not
\* refused, along a direction that is not split, compares every cell with the
\* cells up to numberOfH - 1 behind it in the whole grid: the ghost cell that
\* stands for what is behind the end of a line holds the line's last cell
\* (StructureBasic.cpp:94, ValueAtBoundary.hpp:74).
PairsOfLine ==
  \A r \in applied, d \in 1 .. Dimension :
    platform = "cpu" /\ procs[d] = 1 /\ ConditionFor(r, d) # "mpi" =>
      LET compared == Compared(r, d)
      IN  \A pair \in DOMAIN compared :
            LET p == [e \in Axes |-> domain[r].start[e] + pair[1][e]]
            IN  compared[pair] =
                  <<Number(p), Number(Nearest([p EXCEPT ![d] = @ + pair[2]]))>>
=============================================================================
