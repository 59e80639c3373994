----------------------- MODULE CartesianDecomposition -----------------------
(***************************************************************************)
(* CartesianDecomposition::decompose: each rank finds, from its own number  *)
(* only, its block of the global grid, the rank across every side, and the  *)
(* sides that keep the grid's boundary condition.  The ranks do not talk,   *)
(* so what they find has to fit together.                                   *)
(***************************************************************************)
EXTENDS Integers, GridSides

CONSTANTS
  Grids,    \* global grids, see Grid
  Splits    \* numbers of ranks in each direction

Triples == [Axes -> Nat \ {0}]

\* A grid has its cells and the boundary condition of all its sides.
Grid == [cells : Triples, condition : {"periodic", "neumann"}]

ASSUME GridsAssumption == Grids \subseteq Grid
ASSUME SplitsAssumption == Splits \subseteq Triples

NoRank == -1
NotYet == [state |-> "not yet"]
Failed == [state |-> "failed"]

\* Grid::getActiveDimension
ActiveDimension(cells) == IF cells[3] > 1 THEN 3 ELSE IF cells[2] > 1 THEN 2 ELSE 1

ActiveSides(cells) == 0 .. 2 * ActiveDimension(cells) - 1

\* Only communicators of this size are let through (main.cpp:185).
RanksOf(p) == 0 .. p[1] * p[2] * p[3] - 1

-----------------------------------------------------------------------------
(* mpi/cartesian: a rank's coordinates, and the rank at given coordinates.  *)

\* Fault: the quotient by the number of ranks in x is not reduced.
NotReduced(r, p) ==
  <<r % p[1], (r \div p[1]) % p[2], r \div p[1]>>

getCoordinates(r, p) ==
  <<r % p[1], (r \div p[1]) % p[2], r \div (p[1] * p[2])>>

\* getRankIndex wraps coordinates that are one outside the range.
Wrapped(c, n) == IF c < 0 THEN c + n ELSE IF c > n - 1 THEN c - n ELSE c

getRankIndex(c, p) ==
  Wrapped(c[1], p[1]) + Wrapped(c[2], p[2]) * p[1] + Wrapped(c[3], p[3]) * p[1] * p[2]

-----------------------------------------------------------------------------
(* The pieces of decompose.                                                 *)

\* Fault: only the first direction is checked.
DividesFirst(g, p) == g.cells[1] % p[1] = 0

Divides(g, p) == \A d \in Axes : g.cells[d] % p[d] = 0

BlockSize(g, p)     == [d \in Axes |-> g.cells[d] \div p[d]]

\* Fault: the block index is not scaled by the block size in all directions.
StartOfFirst(g, p, r) == [d \in Axes |-> BlockSize(g, p)[1] * getCoordinates(r, p)[d]]

StartIndex(g, p, r) == [d \in Axes |-> BlockSize(g, p)[d] * getCoordinates(r, p)[d]]

\* Is the block of this rank the last one before that side of the grid?
AtGridSide(r, p, side) ==
  LET d == Direction(side)
  IN  getCoordinates(r, p)[d] = IF IsBottom(side) THEN 0 ELSE p[d] - 1

\* Faults: every end of the grid is exchanged; none is.
KeepsNothing(g, p, r, side)    == FALSE
KeepsEverything(g, p, r, side) == AtGridSide(r, p, side)

\* The sides that are not exchanged keep the grid's boundary condition.
KeepsCondition(g, p, r, side) ==
  /\ AtGridSide(r, p, side)
  /\ g.condition # "periodic" \/ p[Direction(side)] = 1

\* One step over the side, around the grid's end.
NeighbourPosition(r, p, side) ==
  LET d     == Direction(side)
      moved == getCoordinates(r, p)[d] + (IF IsBottom(side) THEN -1 ELSE 1)
  IN  [getCoordinates(r, p) EXCEPT ![d] = (IF moved < 0 THEN moved + p[d] ELSE moved) % p[d]]

Neighbour(g, p, r, side) ==
  IF KeepsCondition(g, p, r, side) THEN NoRank
  ELSE getRankIndex(NeighbourPosition(r, p, side), p)

\* The boundary condition that the local grid gets.
LocalCondition(g, p, r, side) ==
  IF side \in ActiveSides(g.cells) /\ KeepsCondition(g, p, r, side)
  THEN g.condition ELSE "mpi"

\* DomainInformation: the local grid, and the neighbours for the exchanger.
Domain(g, p, r) ==
  [state      |-> "done",
   cells      |-> BlockSize(g, p),
   start      |-> StartIndex(g, p, r),
   conditions |-> [side \in 0 .. 5 |-> LocalCondition(g, p, r, side)],
   neighbours |-> [side \in ActiveSides(g.cells) |-> Neighbour(g, p, r, side)]]

-----------------------------------------------------------------------------
VARIABLES
  grid,     \* the global grid
  procs,    \* numberOfProcessors
  domain    \* what each rank has found

vars == <<grid, procs, domain>>

Ranks == RanksOf(procs)

Done(r) == domain[r].state = "done"

Init ==
  /\ grid \in Grids
  /\ procs \in Splits
  /\ domain = [r \in Ranks |-> NotYet]

\* decompose: the block sizes have to come out even, or the rank throws.
Decompose(r) ==
  /\ domain[r] = NotYet
  /\ domain' = [domain EXCEPT ![r] =
                  IF Divides(grid, procs) THEN Domain(grid, procs, r) ELSE Failed]
  /\ UNCHANGED <<grid, procs>>

Next == \E r \in Ranks : Decompose(r)

Spec == Init /\ [][Next]_vars

-----------------------------------------------------------------------------
(* Correctness.                                                             *)

Domains(g) ==
  [state      : {"done"},
   cells      : Triples,
   start      : [Axes -> Nat],
   conditions : [0 .. 5 -> {"periodic", "neumann", "mpi"}],
   neighbours : [ActiveSides(g.cells) -> Nat \cup {NoRank}]]

TypeOK ==
  /\ grid \in Grids
  /\ procs \in Splits
  /\ domain \in [Ranks -> {NotYet, Failed} \cup Domains(grid)]

\* If a rank found another one across a side, that one exists and finds the
\* first across the opposite side: every send has a receive
\* (CartesianDecomposition.cpp:107, CartesianCellExchanger.cpp:86).
NeighboursAgree ==
  \A r \in Ranks : Done(r) => \A side \in ActiveSides(grid.cells) :
    LET q == domain[r].neighbours[side]
    IN  q # NoRank =>
          /\ q \in Ranks
          /\ Done(q) => domain[q].neighbours[Opposite(side)] = r

AllDone == \A r \in Ranks : Done(r)

InBlock(r, c) ==
  \A d \in Axes : c[d] \in domain[r].start[d] .. domain[r].start[d] + domain[r].cells[d] - 1

\* The blocks partition the grid: each cell is computed, and written to the
\* output, by exactly one rank (NetCDFMPIWriter writes at the start index).
BlocksPartition ==
  AllDone =>
    \A x \in 0 .. grid.cells[1] - 1, y \in 0 .. grid.cells[2] - 1, z \in 0 .. grid.cells[3] - 1 :
      \E r \in Ranks : \A q \in Ranks : InBlock(q, <<x, y, z>>) <=> q = r

\* Across a side lies the block that continues this one, around the end of
\* the grid only if it is periodic, so that the cells which are exchanged are
\* the neighbouring cells of the grid.
BlocksAbut ==
  \A r \in Ranks : Done(r) => \A side \in ActiveSides(grid.cells) :
    LET q    == domain[r].neighbours[side]
        d    == Direction(side)
        low  == IF IsBottom(side) THEN q ELSE r
        high == IF IsBottom(side) THEN r ELSE q
        next == domain[low].start[d] + domain[low].cells[d]
    IN  q # NoRank /\ Done(q) =>
          /\ \A e \in Axes \ {d} : domain[q].start[e] = domain[r].start[e]
          /\ \/ domain[high].start[d] = next
             \/ /\ grid.condition = "periodic"
                /\ domain[high].start[d] = 0 /\ next = grid.cells[d]

\* A side that is not exchanged lies at the end of the grid, and if the grid
\* is periodic its block spans the whole direction, so that the condition
\* applied to the block alone is the one of the grid.
KeptAtEnds ==
  \A r \in Ranks : Done(r) => \A side \in ActiveSides(grid.cells) :
    LET d == Direction(side)
    IN  domain[r].conditions[side] # "mpi" =>
          /\ domain[r].start[d] = IF IsBottom(side) THEN 0 ELSE grid.cells[d] - domain[r].cells[d]
          /\ grid.condition = "periodic" => domain[r].cells[d] = grid.cells[d]
=============================================================================
