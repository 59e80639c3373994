------------------- MODULE CartesianDecomposition_proofs -------------------
(***************************************************************************)
(* The neighbours that the ranks find agree, and their blocks fit together, *)
(* for every grid and every split of it.  The heart of the first is that    *)
(* getCoordinates and getRankIndex undo each other, and that a step over a  *)
(* side followed by a step over the opposite side leads back, around the    *)
(* end of the grid or not; of the second, that the block of a cell is its   *)
(* quotient by the length of a block in each direction.                     *)
(*                                                                         *)
(* Where NetCDFMPIWriter's order and that of the grid agree, and for the    *)
(* writers of one process, a file of these blocks holds every cell at its   *)
(* number.                                                                  *)
(***************************************************************************)
EXTENDS GridFiles, GridIndexing, TLAPS

(* Ranks and positions.                                                     *)

Positions(p) == {c \in [Axes -> Nat] : \A d \in Axes : c[d] < p[d]}

\* What the assumptions on a split and a position say in single numbers.
LEMMA Numbers ==
  ASSUME NEW p \in Triples
  PROVE /\ p[1] \in Nat /\ p[2] \in Nat /\ p[3] \in Nat
        /\ p[1] > 0 /\ p[2] > 0 /\ p[3] > 0
        /\ \A c \in Positions(p) :
             c[1] \in 0 .. p[1] - 1 /\ c[2] \in 0 .. p[2] - 1 /\ c[3] \in 0 .. p[3] - 1
  BY DEF Positions, Triples, Axes

\* getRankIndex of a position needs no wrapping.
LEMMA IndexOfPosition ==
  ASSUME NEW p \in Triples, NEW c \in Positions(p)
  PROVE getRankIndex(c, p) = c[1] + c[2] * p[1] + c[3] * p[1] * p[2]
  <1>1. Wrapped(c[1], p[1]) = c[1] /\ Wrapped(c[2], p[2]) = c[2] /\ Wrapped(c[3], p[3]) = c[3]
    BY Numbers DEF Wrapped
  <1> QED
    BY <1>1 DEF getRankIndex

\* It is a rank of the communicator, whose coordinates are that position.
LEMMA CoordinatesOfIndex ==
  ASSUME NEW p \in Triples, NEW c \in Positions(p)
  PROVE /\ getRankIndex(c, p) \in RanksOf(p)
        /\ getCoordinates(getRankIndex(c, p), p) = c
  <1> DEFINE i == getRankIndex(c, p)
  <1>1. i = c[1] + c[2] * p[1] + c[3] * p[1] * p[2]
    BY IndexOfPosition
  <1> HIDE DEF i
  <1>2. /\ i \in 0 .. p[1] * p[2] * p[3] - 1
        /\ i % p[1] = c[1] /\ (i \div p[1]) % p[2] = c[2] /\ i \div (p[1] * p[2]) = c[3]
    <2> DEFINE l == p[1]
               m == p[2]
               n == p[3]
               x == c[1]
               y == c[2]
               z == c[3]
    <2>1. /\ l \in Nat /\ m \in Nat /\ n \in Nat
          /\ x \in 0 .. l - 1 /\ y \in 0 .. m - 1 /\ z \in 0 .. n - 1
          /\ i = x + y * l + z * l * m
      BY <1>1, Numbers
    <2> HIDE DEF l, m, n, x, y, z
    <2>2. /\ i \in 0 .. l * m * n - 1
          /\ i % l = x /\ (i \div l) % m = y /\ i \div (l * m) = z
      BY <2>1, Compose
    <2> QED
      BY <2>2 DEF l, m, n, x, y, z
  <1>3. c = <<c[1], c[2], c[3]>>
    BY DEF Positions, Axes
  <1> QED
    BY <1>2, <1>3 DEF RanksOf, getCoordinates, i

\* The coordinates of a rank are a position, whose index is that rank.
LEMMA IndexOfCoordinates ==
  ASSUME NEW p \in Triples, NEW r \in RanksOf(p)
  PROVE /\ getCoordinates(r, p) \in Positions(p)
        /\ getRankIndex(getCoordinates(r, p), p) = r
  <1>1. r \in Nat /\ r < p[1] * p[2] * p[3]
    BY Numbers DEF RanksOf
  <1>2. /\ r % p[1] \in 0 .. p[1] - 1
        /\ (r \div p[1]) % p[2] \in 0 .. p[2] - 1
        /\ r \div (p[1] * p[2]) \in 0 .. p[3] - 1
        /\ r = (r % p[1]) + ((r \div p[1]) % p[2]) * p[1] + (r \div (p[1] * p[2])) * p[1] * p[2]
    BY <1>1, Numbers, Split
  <1>3. getCoordinates(r, p) \in Positions(p)
    BY <1>2, Numbers DEF getCoordinates, Positions, Axes
  <1> QED
    BY <1>2, <1>3, IndexOfPosition DEF getCoordinates

\* One step down or up on a circle of n positions, and back.
StepDown(k, n) == (IF k - 1 < 0 THEN k - 1 + n ELSE k - 1) % n
StepUp(k, n)   == (IF k + 1 < 0 THEN k + 1 + n ELSE k + 1) % n

\* Both steps stay on the circle, and each undoes the other.
LEMMA Circle ==
  ASSUME NEW n \in Nat, NEW k \in 0 .. n - 1
  PROVE /\ StepDown(k, n) = IF k = 0 THEN n - 1 ELSE k - 1
        /\ StepUp(k, n) = IF k = n - 1 THEN 0 ELSE k + 1
        /\ StepDown(k, n) \in 0 .. n - 1 /\ StepUp(k, n) \in 0 .. n - 1
        /\ StepUp(StepDown(k, n), n) = k /\ StepDown(StepUp(k, n), n) = k
  <1>1. StepDown(k, n) = IF k = 0 THEN n - 1 ELSE k - 1
    BY DEF StepDown
  <1>2. \A j \in 0 .. n - 1 : StepUp(j, n) = IF j = n - 1 THEN 0 ELSE j + 1
    BY DEF StepUp
  <1>3. \A j \in 0 .. n - 1 : StepDown(j, n) = IF j = 0 THEN n - 1 ELSE j - 1
    BY DEF StepDown
  <1> QED
    BY <1>1, <1>2, <1>3

\* The sides: an opposite side is in the same direction, at the other end.
LEMMA SidesPair ==
  ASSUME NEW side \in 0 .. 5
  PROVE /\ Direction(side) \in Axes
        /\ Opposite(side) \in 0 .. 5
        /\ Opposite(Opposite(side)) = side
        /\ Direction(Opposite(side)) = Direction(side)
        /\ IsBottom(Opposite(side)) = ~ IsBottom(side)
  BY DEF Direction, Opposite, IsBottom, Axes

\* A step over a side moves the one coordinate of that direction.
LEMMA StepOver ==
  ASSUME NEW p \in Triples, NEW r \in RanksOf(p), NEW side \in 0 .. 5
  PROVE LET d == Direction(side)
            c == getCoordinates(r, p)
        IN  /\ NeighbourPosition(r, p, side) =
                 [c EXCEPT ![d] = IF IsBottom(side) THEN StepDown(@, p[d]) ELSE StepUp(@, p[d])]
            /\ NeighbourPosition(r, p, side) \in Positions(p)
  <1> DEFINE d == Direction(side)
             c == getCoordinates(r, p)
  <1>1. c \in Positions(p) /\ d \in Axes
    BY IndexOfCoordinates, SidesPair
  <1>2. c \in [Axes -> Nat] /\ p[d] \in Nat /\ c[d] \in 0 .. p[d] - 1
    BY <1>1 DEF Positions, Triples
  <1>3. NeighbourPosition(r, p, side) =
          [c EXCEPT ![d] = IF IsBottom(side) THEN StepDown(@, p[d]) ELSE StepUp(@, p[d])]
    <2>1. CASE IsBottom(side)
      <3>1. c[d] + (-1) = c[d] - 1
        BY <1>2
      <3> QED
        BY <2>1, <3>1 DEF NeighbourPosition, StepDown
    <2>2. CASE ~ IsBottom(side)
      BY <2>2 DEF NeighbourPosition, StepUp
    <2> QED
      BY <2>1, <2>2
  <1>4. StepDown(c[d], p[d]) \in 0 .. p[d] - 1 /\ StepUp(c[d], p[d]) \in 0 .. p[d] - 1
    BY <1>2, Circle
  <1> HIDE DEF c, d
  <1>5. NeighbourPosition(r, p, side) \in Positions(p)
    BY <1>1, <1>2, <1>3, <1>4 DEF Positions
  <1> QED
    BY <1>3, <1>5 DEF c, d

\* The rank reached by a step over a side that is exchanged exchanges the
\* opposite side, and a step over that one leads back.
LEMMA StepBack ==
  ASSUME NEW p \in Triples, NEW g \in Grid, NEW r \in RanksOf(p), NEW side \in 0 .. 5,
         ~ KeepsCondition(g, p, r, side)
  PROVE LET q == Neighbour(g, p, r, side)
        IN  q \in RanksOf(p) /\ Neighbour(g, p, q, Opposite(side)) = r
  <1> DEFINE d == Direction(side)
             c == getCoordinates(r, p)
             b == NeighbourPosition(r, p, side)
             q == Neighbour(g, p, r, side)
             o == Opposite(side)
  <1>1. q = getRankIndex(b, p)
    BY DEF Neighbour
  <1>2. c \in Positions(p) /\ b \in Positions(p) /\ getRankIndex(c, p) = r
    BY IndexOfCoordinates, StepOver
  <1>3. q \in RanksOf(p) /\ getCoordinates(q, p) = b
    BY <1>1, <1>2, CoordinatesOfIndex
  <1>4. d \in Axes /\ o \in 0 .. 5 /\ Direction(o) = d /\ IsBottom(o) = ~ IsBottom(side)
    BY SidesPair
  <1>5. c \in [Axes -> Nat] /\ p[d] \in Nat /\ c[d] \in 0 .. p[d] - 1
    BY <1>2, <1>4 DEF Positions, Triples
  <1>6. b = [c EXCEPT ![d] = IF IsBottom(side) THEN StepDown(@, p[d]) ELSE StepUp(@, p[d])]
    BY StepOver
  <1>7. NeighbourPosition(q, p, o) =
          [b EXCEPT ![d] = IF IsBottom(o) THEN StepDown(@, p[d]) ELSE StepUp(@, p[d])]
    BY <1>3, <1>4, StepOver
  <1>8. NeighbourPosition(q, p, o) = c
    <2> HIDE DEF b, c, d, o, q
    <2>1. b \in [Axes -> Nat] /\ b[d] = IF IsBottom(side) THEN StepDown(c[d], p[d]) ELSE StepUp(c[d], p[d])
      BY <1>2, <1>4, <1>5, <1>6 DEF Positions
    <2>2. \A e \in Axes \ {d} : b[e] = c[e]
      BY <1>5, <1>6
    <2>3. (IF IsBottom(o) THEN StepDown(b[d], p[d]) ELSE StepUp(b[d], p[d])) = c[d]
      <3>1. StepUp(StepDown(c[d], p[d]), p[d]) = c[d] /\ StepDown(StepUp(c[d], p[d]), p[d]) = c[d]
        BY <1>5, Circle
      <3>2. CASE IsBottom(side)
        BY <1>4, <2>1, <3>1, <3>2
      <3>3. CASE ~ IsBottom(side)
        BY <1>4, <2>1, <3>1, <3>3
      <3> QED
        BY <3>2, <3>3
    <2> QED
      BY <1>4, <1>5, <1>7, <2>1, <2>2, <2>3
  <1>9. AtGridSide(q, p, o) => AtGridSide(r, p, side)
    <2>1. b[d] = IF IsBottom(side) THEN StepDown(c[d], p[d]) ELSE StepUp(c[d], p[d])
      BY <1>4, <1>5, <1>6
    <2>2. AtGridSide(q, p, o) <=> b[d] = IF IsBottom(o) THEN 0 ELSE p[d] - 1
      BY <1>3, <1>4 DEF AtGridSide
    <2>3. AtGridSide(r, p, side) <=> c[d] = IF IsBottom(side) THEN 0 ELSE p[d] - 1
      BY DEF AtGridSide
    <2>4. /\ StepDown(c[d], p[d]) = IF c[d] = 0 THEN p[d] - 1 ELSE c[d] - 1
          /\ StepUp(c[d], p[d]) = IF c[d] = p[d] - 1 THEN 0 ELSE c[d] + 1
      BY <1>5, Circle
    <2>5. CASE IsBottom(side)
      <3>1. b[d] = (IF c[d] = 0 THEN p[d] - 1 ELSE c[d] - 1) /\ ~ IsBottom(o)
        BY <1>4, <2>1, <2>4, <2>5
      <3> HIDE DEF b, c, d, o, q
      <3>2. b[d] = p[d] - 1 => c[d] = 0
        BY <1>5, <3>1
      <3> QED
        BY <2>2, <2>3, <2>5, <3>1, <3>2
    <2>6. CASE ~ IsBottom(side)
      <3>1. b[d] = (IF c[d] = p[d] - 1 THEN 0 ELSE c[d] + 1) /\ IsBottom(o)
        BY <1>4, <2>1, <2>4, <2>6
      <3> HIDE DEF b, c, d, o, q
      <3>2. b[d] = 0 => c[d] = p[d] - 1
        BY <1>5, <3>1
      <3> QED
        BY <2>2, <2>3, <2>6, <3>1, <3>2
    <2> QED
      BY <2>5, <2>6
  <1>10. ~ KeepsCondition(g, p, q, o)
    BY <1>4, <1>9 DEF KeepsCondition
  <1> QED
    BY <1>2, <1>3, <1>8, <1>10 DEF Neighbour

-----------------------------------------------------------------------------
(* The specification.                                                       *)

\* A rank holds nothing, or what its own decompose computes.
Own ==
  /\ grid \in Grids /\ procs \in Splits
  /\ \A r \in Ranks : domain[r] = NotYet \/
       domain[r] = IF Divides(grid, procs) THEN Domain(grid, procs, r) ELSE Failed

IInv == Own /\ domain = [r \in Ranks |-> domain[r]]

\* It holds at first, ...
LEMMA OwnInit == Init => IInv
  BY DEF Init, IInv, Own

\* ... decompose only changes what its own rank holds, ...
LEMMA OwnStep == IInv /\ [Next]_vars => IInv'
  <1> SUFFICES ASSUME IInv, [Next]_vars PROVE IInv'
    OBVIOUS
  <1>1. ASSUME NEW r \in Ranks, Decompose(r) PROVE IInv'
    BY <1>1 DEF IInv, Own, Decompose, Ranks
  <1>2. CASE UNCHANGED vars
    BY <1>2 DEF IInv, Own, vars, Ranks
  <1> QED
    BY <1>1, <1>2 DEF Next

\* ... and a rank that is done holds its part of a grid that can be split.
LEMMA FoundDomain ==
  ASSUME IInv, NEW r \in Ranks, Done(r)
  PROVE  domain[r] = Domain(grid, procs, r) /\ Divides(grid, procs)
  <1>1. NotYet.state # "done" /\ Failed.state # "done"
    BY DEF NotYet, Failed
  <1> QED
    BY <1>1 DEF IInv, Own, Done

\* The fields of what it found.
LEMMA FoundFields ==
  ASSUME IInv, NEW r \in Ranks, Done(r)
  PROVE  /\ domain[r].cells = BlockSize(grid, procs)
         /\ domain[r].start = StartIndex(grid, procs, r)
         /\ \A side \in 0 .. 5 :
              domain[r].conditions[side] = LocalCondition(grid, procs, r, side)
         /\ \A side \in ActiveSides(grid.cells) :
              domain[r].neighbours[side] = Neighbour(grid, procs, r, side)
  <1> DEFINE D == Domain(grid, procs, r)
  <1>1. domain[r] = D
    BY FoundDomain
  <1>2. D.cells = BlockSize(grid, procs) /\ D.start = StartIndex(grid, procs, r)
    BY DEF Domain
  <1>3. \A side \in 0 .. 5 : D.conditions[side] = LocalCondition(grid, procs, r, side)
    BY DEF Domain
  <1>4. \A side \in ActiveSides(grid.cells) : D.neighbours[side] = Neighbour(grid, procs, r, side)
    BY DEF Domain
  <1> HIDE DEF D
  <1> QED
    BY <1>1, <1>2, <1>3, <1>4

\* What two ranks compute on their own fits together.
LEMMA OwnAgrees == IInv => NeighboursAgree
  <1> SUFFICES ASSUME IInv, NEW r \in Ranks, Done(r), NEW side \in ActiveSides(grid.cells),
                      domain[r].neighbours[side] # NoRank
               PROVE  LET q == domain[r].neighbours[side]
                      IN  /\ q \in Ranks
                          /\ Done(q) => domain[q].neighbours[Opposite(side)] = r
    BY DEF NeighboursAgree
  <1> DEFINE q == domain[r].neighbours[side]
  <1>1. grid \in Grid /\ procs \in Triples
    BY GridsAssumption, SplitsAssumption DEF IInv, Own
  <1>2. \A s \in Ranks : Done(s) => domain[s] = Domain(grid, procs, s)
    BY FoundDomain
  <1>3. side \in 0 .. 5 /\ Opposite(side) \in ActiveSides(grid.cells)
    BY DEF ActiveSides, ActiveDimension, Opposite, IsBottom
  <1> DEFINE found(s) == Domain(grid, procs, s)
  <1>0. \A s \in Ranks, t \in ActiveSides(grid.cells) :
          found(s).neighbours[t] = Neighbour(grid, procs, s, t)
    BY DEF Domain
  <1> HIDE DEF found
  <1>4. q = Neighbour(grid, procs, r, side)
    BY <1>0, <1>2 DEF found
  <1>5. ~ KeepsCondition(grid, procs, r, side)
    BY <1>4 DEF Neighbour
  <1>6. q \in Ranks /\ Neighbour(grid, procs, q, Opposite(side)) = r
    BY <1>1, <1>3, <1>4, <1>5, StepBack DEF Ranks
  <1>7. Done(q) => domain[q].neighbours[Opposite(side)] = r
    BY <1>0, <1>2, <1>3, <1>6 DEF found
  <1> QED
    BY <1>6, <1>7

\* If a rank found another one across a side, that one is a rank of the
\* communicator and finds the first across the opposite side, for every grid
\* and split.  ParallelSimulator assumes this of its constant Neighbours.
THEOREM NeighboursAlwaysAgree == Spec => []NeighboursAgree
  BY OwnInit, OwnStep, OwnAgrees, PTL DEF Spec

-----------------------------------------------------------------------------
(* The blocks.                                                              *)

\* In each direction the blocks of all ranks are as long as the grid.
LEMMA BlocksFill ==
  ASSUME NEW g \in Grid, NEW p \in Triples, Divides(g, p), NEW d \in Axes
  PROVE  \E n, m, b \in Nat :
           /\ n = g.cells[d] /\ m = p[d] /\ b = BlockSize(g, p)[d]
           /\ n = m * b /\ m > 0 /\ b > 0
  <1>1. PICK n \in Nat, m \in Nat : n = g.cells[d] /\ m = p[d] /\ n > 0 /\ m > 0 /\ n % m = 0
    BY DEF Grid, Triples, Divides
  <1>2. PICK b \in Nat : b = n \div m /\ n = m * b + 0
    BY <1>1, DivMod
  <1>3. n = m * b /\ b > 0
    BY <1>1, <1>2, Z3
  <1> QED
    BY <1>1, <1>2, <1>3 DEF BlockSize

\* A number lies in one block, whose position is its quotient by the length.
LEMMA OneBlock ==
  ASSUME NEW b \in Nat, b > 0, NEW x \in Nat, NEW k \in Nat
  PROVE  x \in b * k .. b * k + b - 1 <=> k = x \div b
  <1>1. PICK q \in Nat, y \in Nat : q = x \div b /\ y < b /\ x = b * q + y
    BY DivMod
  <1>2. ASSUME x \in b * k .. b * k + b - 1 PROVE k = x \div b
    <2>1. PICK z \in 0 .. b - 1 : x = z + k * b
      <3>1. PICK c \in Nat : c = b * k /\ c = k * b
        BY Z3
      <3>2. x \in c .. c + b - 1
        BY <1>2, <3>1
      <3>3. x - c \in 0 .. b - 1 /\ x = (x - c) + c
        BY <3>2
      <3> QED
        BY <3>1, <3>3
    <2> QED
      BY <2>1, DivModUnique
  <1>3. x \in b * q .. b * q + b - 1
    <2>1. PICK c \in Nat : c = b * q
      BY Z3
    <2>2. x = c + y
      BY <1>1, <2>1
    <2>3. y < b
      BY <1>1
    <2>4. x \in c .. c + b - 1
      BY <2>2, <2>3
    <2> QED
      BY <2>1, <2>4
  <1> QED
    BY <1>1, <1>2, <1>3

\* The start and the length of a rank's block in each direction.
LEMMA BlockOf ==
  ASSUME IInv, NEW r \in Ranks, Done(r), NEW d \in Axes
  PROVE  \E n, m, b, k \in Nat :
           /\ n = grid.cells[d] /\ m = procs[d] /\ b = BlockSize(grid, procs)[d]
           /\ k = getCoordinates(r, procs)[d]
           /\ n = m * b /\ b > 0 /\ k < m
           /\ domain[r].start[d] = b * k /\ domain[r].cells[d] = b
  <1>1. grid \in Grid /\ procs \in Triples
    BY GridsAssumption, SplitsAssumption DEF IInv, Own
  <1>2. domain[r] = Domain(grid, procs, r) /\ Divides(grid, procs)
    BY FoundDomain
  <1>3. PICK n, m, b \in Nat :
          /\ n = grid.cells[d] /\ m = procs[d] /\ b = BlockSize(grid, procs)[d]
          /\ n = m * b /\ b > 0
    BY <1>1, <1>2, BlocksFill
  <1>4. PICK k \in Nat : k = getCoordinates(r, procs)[d] /\ k < m
    BY <1>1, <1>3, IndexOfCoordinates DEF Ranks, Positions
  <1>5. domain[r].start[d] = b * k /\ domain[r].cells[d] = b
    BY <1>2, <1>3, <1>4 DEF Domain, StartIndex
  <1> QED
    BY <1>3, <1>4, <1>5

\* A cell lies in the block whose position is the quotient of the cell by the
\* length of a block, and in no other.
LEMMA BlocksFitTogether == IInv => BlocksPartition
  <1> SUFFICES ASSUME IInv, AllDone,
                      NEW x \in 0 .. grid.cells[1] - 1, NEW y \in 0 .. grid.cells[2] - 1,
                      NEW z \in 0 .. grid.cells[3] - 1
               PROVE  \E r \in Ranks : \A q \in Ranks : InBlock(q, <<x, y, z>>) <=> q = r
    BY DEF BlocksPartition
  <1>1. grid \in Grid /\ procs \in Triples
    BY GridsAssumption, SplitsAssumption DEF IInv, Own
  <1>2. Divides(grid, procs)
    <2>1. 0 \in Ranks
      <3>1. PICK l \in Nat, m \in Nat, n \in Nat :
              l = procs[1] /\ m = procs[2] /\ n = procs[3] /\ l > 0 /\ m > 0 /\ n > 0
        BY <1>1, Numbers
      <3>2. l * m * n \in Nat /\ l * m * n > 0
        BY <3>1, ProductPositive
      <3> QED
        BY <3>1, <3>2 DEF Ranks, RanksOf
    <2> QED
      BY <2>1, FoundDomain DEF AllDone
  <1> DEFINE cell == <<x, y, z>>
             c == [d \in Axes |-> cell[d] \div BlockSize(grid, procs)[d]]
             r == getRankIndex(c, procs)
  <1>3. \A d \in Axes : cell[d] \in 0 .. grid.cells[d] - 1
    BY DEF Axes
  <1> HIDE DEF cell
  <1>4. c \in Positions(procs)
    <2> SUFFICES ASSUME NEW d \in Axes
                 PROVE  c[d] \in Nat /\ c[d] < procs[d]
      BY DEF Positions
    <2>1. PICK n, m, b \in Nat :
            /\ n = grid.cells[d] /\ m = procs[d] /\ b = BlockSize(grid, procs)[d]
            /\ n = m * b /\ m > 0 /\ b > 0
      BY <1>1, <1>2, BlocksFill
    <2>2. n = grid.cells[d] /\ b > 0
      BY <2>1
    <2>3. PICK u \in Nat : u = cell[d] /\ u < n
      BY <1>3, <2>2
    <2>4. PICK k \in Nat, v \in Nat : k = u \div b /\ v < b /\ u = b * k + v
      BY <2>2, DivMod
    <2>5. k < m
      <3>1. v + k * b < b * m
        <4>1. v + k * b = u /\ n = b * m
          BY <2>1, <2>4, Z3
        <4> QED
          BY <2>3, <4>1
      <3> QED
        BY <2>4, <3>1, LayerOf
    <2> QED
      BY <2>1, <2>4, <2>5, <2>3
  <1>5. r \in Ranks /\ getCoordinates(r, procs) = c
    BY <1>1, <1>4, CoordinatesOfIndex DEF Ranks
  <1>6. ASSUME NEW q \in Ranks PROVE InBlock(q, cell) <=> q = r
    <2>1. Done(q)
      BY DEF AllDone
    <2>2. ASSUME NEW d \in Axes
          PROVE  cell[d] \in domain[q].start[d] .. domain[q].start[d] + domain[q].cells[d] - 1
                   <=> getCoordinates(q, procs)[d] = c[d]
      <3>1. PICK n, m, b, k \in Nat :
              /\ n = grid.cells[d] /\ m = procs[d] /\ b = BlockSize(grid, procs)[d]
              /\ k = getCoordinates(q, procs)[d]
              /\ n = m * b /\ b > 0 /\ k < m
              /\ domain[q].start[d] = b * k /\ domain[q].cells[d] = b
        BY <2>1, BlockOf
      <3>2. PICK u \in Nat : u = cell[d]
        BY <1>3
      <3>3. u \in b * k .. b * k + b - 1 <=> k = u \div b
        BY <3>1, OneBlock
      <3>4. c[d] = u \div b
        BY <3>1, <3>2
      <3> QED
        BY <3>1, <3>2, <3>3, <3>4
    <2>3. /\ getCoordinates(q, procs) \in Positions(procs)
          /\ getRankIndex(getCoordinates(q, procs), procs) = q
      BY <1>1, IndexOfCoordinates DEF Ranks
    <2>4. InBlock(q, cell) <=> \A d \in Axes : getCoordinates(q, procs)[d] = c[d]
      BY <2>2 DEF InBlock
    <2>5. (\A d \in Axes : getCoordinates(q, procs)[d] = c[d]) <=> getCoordinates(q, procs) = c
      BY <1>4, <2>3 DEF Positions
    <2> QED
      BY <1>5, <2>3, <2>4, <2>5
  <1> QED
    BY <1>5, <1>6 DEF cell

\* A block at the end of a direction ends where the grid does.
LEMMA LastBlock ==
  ASSUME NEW m \in Nat, NEW b \in Nat, m > 0
  PROVE  b * (m - 1) + b = m * b /\ b * (m - 1) = m * b - b /\ b * 0 = 0
  BY Z3

\* The sides that keep a condition are at the ends.
LEMMA EndsKept == IInv => KeptAtEnds
  <1> SUFFICES ASSUME IInv, NEW r \in Ranks, Done(r), NEW side \in ActiveSides(grid.cells),
                      domain[r].conditions[side] # "mpi"
               PROVE  LET d == Direction(side)
                      IN  /\ domain[r].start[d] =
                               IF IsBottom(side) THEN 0 ELSE grid.cells[d] - domain[r].cells[d]
                          /\ grid.condition = "periodic" => domain[r].cells[d] = grid.cells[d]
    BY DEF KeptAtEnds
  <1>1. side \in 0 .. 5
    BY DEF ActiveSides, ActiveDimension
  <1>2. PICK d \in Axes : d = Direction(side)
    BY <1>1, SidesPair
  <1>3. KeepsCondition(grid, procs, r, side)
    <2>1. domain[r].conditions[side] = LocalCondition(grid, procs, r, side)
      BY <1>1, FoundFields
    <2> QED
      BY <2>1 DEF LocalCondition
  <1>4. PICK n, m, b, k \in Nat :
          /\ n = grid.cells[d] /\ m = procs[d] /\ b = BlockSize(grid, procs)[d]
          /\ k = getCoordinates(r, procs)[d]
          /\ n = m * b /\ b > 0 /\ k < m
          /\ domain[r].start[d] = b * k /\ domain[r].cells[d] = b
    BY BlockOf
  <1>5. k = (IF IsBottom(side) THEN 0 ELSE m - 1) /\ (grid.condition = "periodic" => m = 1)
    BY <1>2, <1>3, <1>4 DEF KeepsCondition, AtGridSide
  <1>6. b * k = IF IsBottom(side) THEN 0 ELSE n - b
    <2>1. CASE IsBottom(side)
      <3>1. b * 0 = 0
        BY <1>4, LastBlock
      <3> QED
        BY <1>5, <2>1, <3>1, Zenon
    <2>2. CASE ~ IsBottom(side)
      <3>1. m > 0
        BY <1>4
      <3>2. b * (m - 1) = m * b - b
        BY <3>1, LastBlock
      <3> QED
        BY <1>4, <1>5, <2>2, <3>2, Zenon
    <2> QED
      BY <2>1, <2>2
  <1>7. m = 1 => b = n
    BY <1>4, Z3
  <1>8. /\ domain[r].start[d] = IF IsBottom(side) THEN 0 ELSE grid.cells[d] - domain[r].cells[d]
        /\ grid.condition = "periodic" => domain[r].cells[d] = grid.cells[d]
    BY <1>4, <1>5, <1>6, <1>7, Zenon
  <1> QED
    BY <1>2, <1>8, Zenon

\* Across a side is the next block, or the first after the last.
LEMMA NextBlock == IInv => BlocksAbut
  <1> SUFFICES ASSUME IInv, NEW r \in Ranks, Done(r), NEW side \in ActiveSides(grid.cells),
                      domain[r].neighbours[side] # NoRank, Done(domain[r].neighbours[side])
               PROVE  LET q    == domain[r].neighbours[side]
                          d    == Direction(side)
                          low  == IF IsBottom(side) THEN q ELSE r
                          high == IF IsBottom(side) THEN r ELSE q
                          next == domain[low].start[d] + domain[low].cells[d]
                      IN  /\ \A e \in Axes \ {d} : domain[q].start[e] = domain[r].start[e]
                          /\ \/ domain[high].start[d] = next
                             \/ /\ grid.condition = "periodic"
                                /\ domain[high].start[d] = 0 /\ next = grid.cells[d]
    BY DEF BlocksAbut
  <1>1. side \in 0 .. 5 /\ grid \in Grid /\ procs \in Triples /\ r \in RanksOf(procs)
    BY GridsAssumption, SplitsAssumption
       DEF IInv, Own, ActiveSides, ActiveDimension, Ranks
  <1>2. PICK d \in Axes : d = Direction(side)
    BY <1>1, SidesPair
  <1>3. PICK q : q = domain[r].neighbours[side]
    OBVIOUS
  <1>4. q = Neighbour(grid, procs, r, side) /\ ~ KeepsCondition(grid, procs, r, side)
    <2>1. q = Neighbour(grid, procs, r, side)
      BY <1>3, FoundFields
    <2> QED
      BY <1>3, <2>1 DEF Neighbour
  <1>5. q \in Ranks /\ Done(q)
    BY <1>1, <1>3, <1>4, StepBack DEF Ranks
  <1>6. getCoordinates(q, procs) = NeighbourPosition(r, procs, side)
    BY <1>1, <1>4, StepOver, CoordinatesOfIndex DEF Neighbour
  <1>7. PICK n, m, b, k \in Nat :
          /\ n = grid.cells[d] /\ m = procs[d] /\ b = BlockSize(grid, procs)[d]
          /\ k = getCoordinates(r, procs)[d]
          /\ n = m * b /\ b > 0 /\ k < m
          /\ domain[r].start[d] = b * k /\ domain[r].cells[d] = b
    BY BlockOf
  <1>8. PICK l \in Nat :
          /\ l = getCoordinates(q, procs)[d] /\ l < m
          /\ domain[q].start[d] = b * l /\ domain[q].cells[d] = b
    <2>1. PICK n1, m1, b1, l \in Nat :
          /\ n1 = grid.cells[d] /\ m1 = procs[d] /\ b1 = BlockSize(grid, procs)[d]
          /\ l = getCoordinates(q, procs)[d]
          /\ n1 = m1 * b1 /\ b1 > 0 /\ l < m1
          /\ domain[q].start[d] = b1 * l /\ domain[q].cells[d] = b1
      BY <1>5, BlockOf
    <2>2. m1 = m /\ b1 = b
      BY <1>7, <2>1, Zenon
    <2> QED
      BY <2>1, <2>2, Zenon
  <1>9. /\ \A e \in Axes \ {d} : getCoordinates(q, procs)[e] = getCoordinates(r, procs)[e]
        /\ l = IF IsBottom(side) THEN StepDown(k, m) ELSE StepUp(k, m)
    <2>1. getCoordinates(r, procs) \in [Axes -> Nat]
      BY <1>1, IndexOfCoordinates DEF Positions
    <2>2. getCoordinates(q, procs) =
            [getCoordinates(r, procs) EXCEPT ![d] =
               IF IsBottom(side) THEN StepDown(@, procs[d]) ELSE StepUp(@, procs[d])]
      BY <1>1, <1>2, <1>6, StepOver, Zenon
    <2>3. k = getCoordinates(r, procs)[d] /\ m = procs[d] /\ l = getCoordinates(q, procs)[d]
      BY <1>7, <1>8
    <2>4. PICK c \in [Axes -> Nat] : c = getCoordinates(r, procs)
      BY <2>1
    <2>5. PICK v : v = IF IsBottom(side) THEN StepDown(c[d], procs[d]) ELSE StepUp(c[d], procs[d])
      OBVIOUS
    <2>6. getCoordinates(q, procs) = [c EXCEPT ![d] = v]
      BY <2>2, <2>4, <2>5, Zenon
    <2>7. [c EXCEPT ![d] = v][d] = v /\ \A e \in Axes \ {d} : [c EXCEPT ![d] = v][e] = c[e]
      OBVIOUS
    <2>8. l = v /\ v = IF IsBottom(side) THEN StepDown(k, m) ELSE StepUp(k, m)
      BY <2>3, <2>4, <2>5, <2>6, <2>7, Zenon
    <2> QED
      BY <2>4, <2>6, <2>7, <2>8, Zenon
  <1>10. \A e \in Axes \ {d} : domain[q].start[e] = domain[r].start[e]
    <2>1. domain[q].start = StartIndex(grid, procs, q) /\ domain[r].start = StartIndex(grid, procs, r)
      BY <1>5, FoundFields
    <2>2. \A e \in Axes, s \in Ranks :
            StartIndex(grid, procs, s)[e] = BlockSize(grid, procs)[e] * getCoordinates(s, procs)[e]
      BY DEF StartIndex
    <2> QED
      BY <1>5, <1>9, <2>1, <2>2, Zenon
  <1>11. k \in 0 .. m - 1
    BY <1>7
  \* One after the other: the positions differ by one, or by a turn.
  <1>12. ASSUME NEW i \in Nat, NEW j \in Nat, j = (IF i = m - 1 THEN 0 ELSE i + 1), i < m
         PROVE  b * j = b * i + b \/ (i = m - 1 /\ b * j = 0 /\ b * i + b = n)
    <2>1. CASE i = m - 1
      <3>1. b * (m - 1) + b = m * b /\ b * 0 = 0
        BY <1>7, LastBlock
      <3> QED
        BY <1>7, <1>12, <2>1, <3>1, Zenon
    <2>2. CASE i # m - 1
      BY <1>12, <2>2, Z3
    <2> QED
      BY <2>1, <2>2
  <1>13. AtGridSide(r, procs, side) => grid.condition = "periodic"
    BY <1>4 DEF KeepsCondition
  <1>14. AtGridSide(r, procs, side) <=> k = IF IsBottom(side) THEN 0 ELSE m - 1
    BY <1>2, <1>7 DEF AtGridSide
  <1>15. CASE IsBottom(side)
    <2>1. l = IF k = 0 THEN m - 1 ELSE k - 1
      BY <1>9, <1>11, <1>15, Circle
    <2>2. k = (IF l = m - 1 THEN 0 ELSE l + 1) /\ (l = m - 1 => k = 0)
      BY <1>8, <1>11, <2>1
    <2>3. b * k = b * l + b \/ (k = 0 /\ b * k = 0 /\ b * l + b = n)
      BY <1>8, <1>12, <2>2
    <2> QED
      BY <1>2, <1>3, <1>7, <1>8, <1>10, <1>13, <1>14, <1>15, <2>3, Zenon
  <1>16. CASE ~ IsBottom(side)
    <2>1. l = IF k = m - 1 THEN 0 ELSE k + 1
      BY <1>9, <1>11, <1>16, Circle
    <2>2. b * l = b * k + b \/ (k = m - 1 /\ b * l = 0 /\ b * k + b = n)
      BY <1>7, <1>12, <2>1
    <2> QED
      BY <1>2, <1>3, <1>7, <1>8, <1>10, <1>13, <1>14, <1>16, <2>2, Zenon
  <1> QED
    BY <1>15, <1>16

\* What a rank finds is a description of a block.
LEMMA DomainType ==
  ASSUME NEW g \in Grid, NEW p \in Triples, NEW r \in RanksOf(p), Divides(g, p)
  PROVE  Domain(g, p, r) \in Domains(g)
  <1>1. BlockSize(g, p) \in Triples
    <2>1. \A d \in Axes : g.cells[d] \div p[d] \in Nat \ {0}
      <3> SUFFICES ASSUME NEW d \in Axes PROVE g.cells[d] \div p[d] \in Nat \ {0}
        OBVIOUS
      <3>1. PICK b \in Nat : b = BlockSize(g, p)[d] /\ b > 0
        BY BlocksFill
      <3>2. BlockSize(g, p)[d] = g.cells[d] \div p[d]
        BY DEF BlockSize
      <3> QED
        BY <3>1, <3>2
    <2> QED
      BY <2>1 DEF BlockSize, Triples
  <1>2. StartIndex(g, p, r) \in [Axes -> Nat]
    <2>1. \A d \in Axes : BlockSize(g, p)[d] * getCoordinates(r, p)[d] \in Nat
      <3> SUFFICES ASSUME NEW d \in Axes
                   PROVE  BlockSize(g, p)[d] * getCoordinates(r, p)[d] \in Nat
        OBVIOUS
      <3>1. PICK b \in Nat : b = BlockSize(g, p)[d]
        BY <1>1 DEF Triples
      <3>2. PICK k \in Nat : k = getCoordinates(r, p)[d]
        BY IndexOfCoordinates DEF Positions
      <3>3. b * k \in Nat
        BY Z3
      <3> QED
        BY <3>1, <3>2, <3>3
    <2> QED
      BY <2>1 DEF StartIndex
  <1>3. [side \in 0 .. 5 |-> LocalCondition(g, p, r, side)]
          \in [0 .. 5 -> {"periodic", "neumann", "mpi"}]
    <2>1. \A side \in 0 .. 5 : LocalCondition(g, p, r, side) \in {"periodic", "neumann", "mpi"}
      BY DEF LocalCondition, Grid
    <2> QED
      BY <2>1
  <1>4. [side \in ActiveSides(g.cells) |-> Neighbour(g, p, r, side)]
          \in [ActiveSides(g.cells) -> Nat \cup {NoRank}]
    <2> SUFFICES ASSUME NEW side \in ActiveSides(g.cells)
                 PROVE  Neighbour(g, p, r, side) \in Nat \cup {NoRank}
      OBVIOUS
    <2>1. side \in 0 .. 5
      BY DEF ActiveSides, ActiveDimension
    <2>2. CASE KeepsCondition(g, p, r, side)
      BY <2>2 DEF Neighbour
    <2>3. CASE ~ KeepsCondition(g, p, r, side)
      <3>1. Neighbour(g, p, r, side) \in RanksOf(p)
        BY <2>1, <2>3, StepBack
      <3> QED
        BY <3>1, Numbers DEF RanksOf
    <2> QED
      BY <2>2, <2>3
  <1> QED
    BY <1>1, <1>2, <1>3, <1>4 DEF Domain, Domains

\* The lengths and the first cell of a block, and the lengths of the grid.
LEMMA BlockNumbers ==
  ASSUME IInv, NEW r \in Ranks, Done(r)
  PROVE  \E a, b, c, s, t, u, l, m, n \in Nat :
           /\ domain[r].cells[1] = a /\ domain[r].cells[2] = b /\ domain[r].cells[3] = c
           /\ domain[r].start[1] = s /\ domain[r].start[2] = t /\ domain[r].start[3] = u
           /\ grid.cells[1] = l /\ grid.cells[2] = m /\ grid.cells[3] = n
           /\ a > 0 /\ b > 0 /\ c > 0
           /\ s + a <= l /\ t + b <= m /\ u + c <= n
  <1>1. ASSUME NEW d \in Axes
        PROVE  \E b, s, n \in Nat :
                 /\ domain[r].cells[d] = b /\ domain[r].start[d] = s /\ grid.cells[d] = n
                 /\ b > 0 /\ s + b <= n
    <2>1. PICK n, m, b, k \in Nat :
            /\ n = grid.cells[d] /\ m = procs[d] /\ b = BlockSize(grid, procs)[d]
            /\ k = getCoordinates(r, procs)[d]
            /\ n = m * b /\ b > 0 /\ k < m
            /\ domain[r].start[d] = b * k /\ domain[r].cells[d] = b
      BY BlockOf
    <2>2. b * k \in Nat /\ b * k + b <= m * b
      BY <2>1, Z3
    <2> QED
      BY <2>1, <2>2
  <1>2. PICK a, s, l \in Nat :
          /\ domain[r].cells[1] = a /\ domain[r].start[1] = s /\ grid.cells[1] = l
          /\ a > 0 /\ s + a <= l
    BY <1>1 DEF Axes
  <1>3. PICK b, t, m \in Nat :
          /\ domain[r].cells[2] = b /\ domain[r].start[2] = t /\ grid.cells[2] = m
          /\ b > 0 /\ t + b <= m
    BY <1>1 DEF Axes
  <1>4. PICK c, u, n \in Nat :
          /\ domain[r].cells[3] = c /\ domain[r].start[3] = u /\ grid.cells[3] = n
          /\ c > 0 /\ u + c <= n
    BY <1>1 DEF Axes
  <1> QED
    BY <1>2, <1>3, <1>4

\* So the invariant says what the types are.
LEMMA FoundTypes == IInv => TypeOK
  <1> SUFFICES ASSUME IInv PROVE TypeOK
    OBVIOUS
  <1>1. grid \in Grid /\ procs \in Triples
    BY GridsAssumption, SplitsAssumption DEF IInv, Own
  <1>2. \A r \in Ranks : domain[r] \in {NotYet, Failed} \cup Domains(grid)
    <2> SUFFICES ASSUME NEW r \in Ranks, domain[r] \notin {NotYet, Failed}
                 PROVE  domain[r] \in Domains(grid)
      OBVIOUS
    <2>1. domain[r] = Domain(grid, procs, r) /\ Divides(grid, procs)
      BY DEF IInv, Own
    <2> QED
      BY <1>1, <2>1, DomainType DEF Ranks
  <1>3. domain = [r \in Ranks |-> domain[r]]
    BY DEF IInv
  <1>4. domain \in [Ranks -> {NotYet, Failed} \cup Domains(grid)]
    BY <1>2, <1>3
  <1> QED
    BY <1>4 DEF TypeOK, IInv, Own

\* What decompose makes is a description of a block, whatever the grid.
THEOREM DecompositionTypes == Spec => []TypeOK
  BY OwnInit, OwnStep, FoundTypes, PTL DEF Spec

\* When all ranks are done, each cell of the grid lies in exactly one block,
\* for every grid and every split that divides it.
THEOREM BlocksAlwaysPartition == Spec => []BlocksPartition
  BY OwnInit, OwnStep, BlocksFitTogether, PTL DEF Spec

\* What the exchanger takes for a neighbour holds the cells that follow, at
\* the same height in the other directions.
THEOREM NeighboursAlwaysAbut == Spec => []BlocksAbut
  BY OwnInit, OwnStep, NextBlock, PTL DEF Spec

\* A boundary condition is applied by a block only where the grid ends; a
\* periodic one only by a block as long as the grid.
THEOREM KeptOnlyAtEnds == Spec => []KeptAtEnds
  BY OwnInit, OwnStep, EndsKept, PTL DEF Spec

-----------------------------------------------------------------------------
(* The files (GridFiles).                                                   *)

\* The k-th place of a rank's box, and the cell that it writes there.
PlaceAt(r, k) ==
  PlaceInFile(Lengths(writer, grid, domain[r].cells),
    Sum3(BoxStart(writer, domain[r]), PlaceInBox(BoxCount(writer, domain[r]), k)))
CellAt(r, k) == NumberOf(grid, Sum3(domain[r].start, CellOfBlock(domain[r].cells, k)))

BoxInside(r) ==
  \A d \in Axes :
    BoxStart(writer, domain[r])[d] + BoxCount(writer, domain[r])[d]
      <= Lengths(writer, grid, domain[r].cells)[d]

ElementsOf(r) == 0 .. Size(domain[r].cells) - 1

\* The position <<x, y, z>> of index k in a block of a by b by c, and the parts of
\* k if the lengths are counted the other way round.
PositionOf(a, b, c, k, x, y, z) ==
  /\ x = k % a /\ y = (k \div a) % b /\ z = k \div (a * b)
  /\ z = k \div (b * a)
  /\ x < a /\ y < b /\ z < c
  /\ k = x + y * a + z * a * b
  /\ c = 1 => z = 0 /\ k \div a = y
  /\ b = 1 /\ c = 1 => k = x

LEMMA CountedBack ==
  ASSUME NEW a \in Nat, NEW b \in Nat, NEW c \in Nat, a > 0, b > 0, c > 0,
         NEW k \in 0 .. a * b * c - 1
  PROVE  \E x, y, z \in Nat : PositionOf(a, b, c, k, x, y, z)
  <1>1. a * b * c \in Nat /\ a * b = b * a
    BY Z3
  <1>2. k \in Nat /\ k < a * b * c
    BY <1>1
  <1>3. /\ k % a \in 0 .. a - 1 /\ (k \div a) % b \in 0 .. b - 1 /\ k \div (a * b) \in 0 .. c - 1
        /\ k = (k % a) + ((k \div a) % b) * a + (k \div (a * b)) * a * b
    BY <1>2, Split
  <1>4. PICK x \in Nat, y \in Nat, z \in Nat :
          /\ x = k % a /\ y = (k \div a) % b /\ z = k \div (a * b)
          /\ x < a /\ y < b /\ z < c
          /\ k = x + y * a + z * a * b
    BY <1>3
  <1>5. z = k \div (b * a)
    BY <1>1, <1>4
  <1>6. ASSUME c = 1
        PROVE  z = 0 /\ k \div a = y
    <2>1. z = 0
      BY <1>4, <1>6
    <2>2. k = x + y * a /\ x \in 0 .. a - 1
      <3>1. PICK q \in Nat, p \in Nat : q = y * a /\ p = z * a * b
        BY Z3
      <3>2. p = 0
        BY <2>1, <3>1, Z3
      <3>3. k = x + q + p
        BY <1>4, <3>1
      <3>4. k = x + q
        BY <3>2, <3>3
      <3>5. k = x + y * a
        BY <3>1, <3>4
      <3>6. x \in 0 .. a - 1
        BY <1>4
      <3> QED
        BY <3>5, <3>6
    <2>3. k \div a = y
      BY <2>2, DivModUnique
    <2> QED
      BY <2>1, <2>3
  <1>7. ASSUME b = 1, c = 1
        PROVE  k = x
    <2>1. y = 0 /\ z = 0
      BY <1>4, <1>7
    <2>2. PICK q \in Nat, p \in Nat : q = y * a /\ p = z * a * b
      BY Z3
    <2>3. q = 0 /\ p = 0
      BY <2>1, <2>2, Z3
    <2>4. k = x + q + p
      BY <1>4, <2>2
    <2> QED
      BY <2>3, <2>4
  <1> QED
    BY <1>4, <1>5, <1>6, <1>7, Zenon DEF PositionOf

\* A place of the box, in numbers.
LEMMA PlaceNumbers ==
  ASSUME NEW count, NEW start, NEW lengths, NEW k
  PROVE  PlaceInFile(lengths, Sum3(start, PlaceInBox(count, k)))
           = ((start[1] + (k \div (count[2] * count[3]))) * lengths[2]
               + (start[2] + ((k \div count[3]) % count[2]))) * lengths[3]
             + (start[3] + (k % count[3]))
  BY DEF PlaceInFile, Sum3, PlaceInBox

\* Where a writer of all ranks puts a block, it puts each cell at its number, on grids
\* whose first and last lengths are equal.
LEMMA BoxIsBlock ==
  ASSUME IInv, NEW r \in Ranks, Done(r), NEW k \in ElementsOf(r),
         writer = "NetCDFMPIWriter", EqualLengths, SameDimension
  PROVE  /\ PlaceAt(r, k) = CellAt(r, k) /\ BoxInside(r)
         /\ CellAt(r, k) \in 0 .. Size(grid.cells) - 1
  <1> DEFINE block == domain[r].cells
             start == domain[r].start
             cells == grid.cells
  <1>1. PICK a, b, c, s, t, u, l, m, n \in Nat :
           /\ domain[r].cells[1] = a /\ domain[r].cells[2] = b /\ domain[r].cells[3] = c
           /\ domain[r].start[1] = s /\ domain[r].start[2] = t /\ domain[r].start[3] = u
           /\ grid.cells[1] = l /\ grid.cells[2] = m /\ grid.cells[3] = n
           /\ a > 0 /\ b > 0 /\ c > 0
           /\ s + a <= l /\ t + b <= m /\ u + c <= n
    BY BlockNumbers
  <1>2. k \in 0 .. a * b * c - 1
    BY <1>1, Zenon DEF ElementsOf, Size
  <1>3. PICK x, y, z \in Nat : PositionOf(a, b, c, k, x, y, z)
    <2>1. a > 0 /\ b > 0 /\ c > 0
      BY <1>1
    <2> QED
      BY <1>2, <2>1, CountedBack, Zenon
  <1>4. CellAt(r, k) = (s + x) + (t + y) * l + (u + z) * l * m
    <2>1. CellOfBlock(block, k) = <<x, y, z>>
      BY <1>1, <1>3, Zenon DEF CellOfBlock, PositionOf
    <2>2. Sum3(start, <<x, y, z>>) = <<s + x, t + y, u + z>>
      BY <1>1 DEF Sum3
    <2>3. NumberOf(grid, <<s + x, t + y, u + z>>) = (s + x) + (t + y) * l + (u + z) * l * m
      BY <1>1 DEF NumberOf
    <2> QED
      BY <2>1, <2>2, <2>3 DEF CellAt
  <1>5. CellAt(r, k) \in 0 .. Size(cells) - 1
    <2>1. s + x \in 0 .. l - 1 /\ t + y \in 0 .. m - 1 /\ u + z \in 0 .. n - 1
      <3>1. s + a <= l /\ t + b <= m /\ u + c <= n
        BY <1>1
      <3>2. x < a /\ y < b /\ z < c
        BY <1>3, Zenon DEF PositionOf
      <3> QED
        BY <3>1, <3>2
    <2>2. (s + x) + (t + y) * l + (u + z) * l * m \in 0 .. l * m * n - 1
      BY <2>1, Compose
    <2>3. Size(cells) = l * m * n
      BY <1>1 DEF Size
    <2> QED
      BY <1>4, <2>2, <2>3
  <1>6. /\ BoxStart(writer, domain[r]) = InFileOrder(block, start)
        /\ BoxCount(writer, domain[r]) = InFileOrder(block, block)
        /\ Lengths(writer, grid, block) = cells
    BY DEF BoxStart, BoxCount, Lengths
  <1>7. ActiveDimension(block) = ActiveDimension(cells) /\ block = BlockSize(grid, procs)
    BY FoundFields DEF SameDimension
  <1>8. cells[1] = cells[ActiveDimension(cells)]
    BY DEF EqualLengths
  <1> HIDE DEF block, start, cells
  <1>9. PICK f, w : f = InFileOrder(block, start) /\ w = InFileOrder(block, block)
    OBVIOUS
  <1>10. /\ PlaceInFile(cells, Sum3(f, PlaceInBox(w, k)))
              = (s + x) + (t + y) * l + (u + z) * l * m
         /\ \A d \in Axes : f[d] + w[d] <= cells[d]
    <2>1. /\ block[1] = a /\ block[2] = b /\ block[3] = c
          /\ start[1] = s /\ start[2] = t /\ start[3] = u
          /\ cells[1] = l /\ cells[2] = m /\ cells[3] = n
      BY <1>1 DEF block, start, cells
    <2>2. CASE ActiveDimension(block) = 3
      <3>1. n = l
        BY <1>7, <1>8, <2>1, <2>2
      <3>2. /\ f[1] = u /\ f[2] = t /\ f[3] = s /\ w[1] = c /\ w[2] = b /\ w[3] = a
        BY <1>9, <2>1, <2>2 DEF InFileOrder
      <3>3. z = k \div (w[2] * w[3]) /\ y = (k \div w[3]) % w[2] /\ x = k % w[3]
        BY <1>3, <3>2, Zenon DEF PositionOf
      <3>4. PlaceInFile(cells, Sum3(f, PlaceInBox(w, k)))
              = ((u + z) * m + (t + y)) * n + (s + x)
        BY <2>1, <3>2, <3>3, PlaceNumbers
      <3>5. ((u + z) * m + (t + y)) * n + (s + x) = (s + x) + (t + y) * l + (u + z) * l * m
        BY <3>1, Z3
      <3>6. \A d \in Axes : f[d] + w[d] <= cells[d]
        BY <1>1, <2>1, <3>1, <3>2 DEF Axes
      <3> QED
        BY <3>4, <3>5, <3>6
    <2>3. CASE ActiveDimension(block) = 2
      <3>1. c = 1 /\ n = 1 /\ m = l /\ u = 0
        <4>1. ~(c > 1) /\ ~(n > 1)
          BY <1>7, <2>1, <2>3 DEF ActiveDimension
        <4>2. m = l
          BY <1>7, <1>8, <2>1, <2>3
        <4>3. c > 0 /\ u + c <= n
          BY <1>1
        <4> QED
          BY <4>1, <4>2, <4>3
      <3>2. /\ f[1] = t /\ f[2] = s /\ f[3] = u /\ w[1] = b /\ w[2] = a /\ w[3] = 1
        BY <1>9, <2>1, <2>3, <3>1 DEF InFileOrder
      <3>3. k \div (w[2] * w[3]) = y /\ (k \div w[3]) % w[2] = x /\ k % w[3] = 0
        <4>1. a * 1 = a /\ k \div 1 = k /\ k % 1 = 0
          BY <1>2, Z3
        <4>2. k \div a = y
          BY <1>3, <3>1, Zenon DEF PositionOf
        <4> QED
          BY <1>3, <3>2, <4>1, <4>2, Zenon DEF PositionOf
      <3>4. PlaceInFile(cells, Sum3(f, PlaceInBox(w, k)))
              = ((t + y) * m + (s + x)) * n + (u + 0)
        BY <2>1, <3>2, <3>3, PlaceNumbers
      <3>5. z = 0
        BY <1>3, <3>1, Zenon DEF PositionOf
      <3>6. ((t + y) * m + (s + x)) * n + (u + 0) = (s + x) + (t + y) * l + (u + z) * l * m
        BY <3>1, <3>5, Z3
      <3>7. \A d \in Axes : f[d] + w[d] <= cells[d]
        BY <1>1, <2>1, <3>1, <3>2 DEF Axes
      <3> QED
        BY <3>4, <3>6, <3>7
    <2>4. CASE ActiveDimension(block) = 1
      <3>1. b = 1 /\ c = 1 /\ m = 1 /\ n = 1 /\ t = 0 /\ u = 0
        BY <1>1, <1>7, <2>1, <2>4 DEF ActiveDimension
      <3>2. /\ f[1] = s /\ f[2] = t /\ f[3] = u /\ w[1] = a /\ w[2] = 1 /\ w[3] = 1
        BY <1>9, <2>1, <2>4, <3>1 DEF InFileOrder
      <3>3. k \div (w[2] * w[3]) = x /\ (k \div w[3]) % w[2] = 0 /\ k % w[3] = 0
        <4>1. 1 * 1 = 1 /\ k \div 1 = k /\ k % 1 = 0
          BY <1>2, Z3
        <4>2. k = x
          BY <1>3, <3>1, Zenon DEF PositionOf
        <4> QED
          BY <3>2, <4>1, <4>2, Zenon
      <3>4. PlaceInFile(cells, Sum3(f, PlaceInBox(w, k)))
              = ((s + x) * m + (t + 0)) * n + (u + 0)
        BY <2>1, <3>2, <3>3, PlaceNumbers
      <3>5. z = 0 /\ y = 0
        <4>1. z = 0 /\ y < b
          BY <1>3, <3>1, Zenon DEF PositionOf
        <4> QED
          BY <3>1, <4>1
      <3>6. ((s + x) * m + (t + 0)) * n + (u + 0) = (s + x) + (t + y) * l + (u + z) * l * m
        BY <3>1, <3>5, Z3
      <3>7. \A d \in Axes : f[d] + w[d] <= cells[d]
        BY <1>1, <2>1, <3>1, <3>2 DEF Axes
      <3> QED
        BY <3>4, <3>6, <3>7
    <2>5. ActiveDimension(block) \in {1, 2, 3}
      BY DEF ActiveDimension
    <2> QED
      BY <2>2, <2>3, <2>4, <2>5
  <1>11. PlaceAt(r, k) = CellAt(r, k) /\ BoxInside(r)
    BY <1>4, <1>6, <1>9, <1>10, Zenon DEF PlaceAt, BoxInside, block, cells
  <1> QED
    BY <1>5, <1>11 DEF cells

\* The writers of one process put the one block at the beginning, in its own order.
LEMMA BoxOfAll ==
  ASSUME IInv, NEW r \in Ranks, Done(r), NEW k \in ElementsOf(r),
         writer # "NetCDFMPIWriter", procs = <<1, 1, 1>>
  PROVE  /\ PlaceAt(r, k) = CellAt(r, k) /\ BoxInside(r)
         /\ CellAt(r, k) \in 0 .. Size(grid.cells) - 1
         /\ Size(domain[r].cells) = Size(grid.cells)
  <1> DEFINE block == domain[r].cells
             start == domain[r].start
             cells == grid.cells
  <1>1. ASSUME NEW d \in Axes
        PROVE  \E n \in Nat : cells[d] = n /\ block[d] = n /\ start[d] = 0 /\ n > 0
    <2>1. PICK n, m, b, k0 \in Nat :
            /\ n = grid.cells[d] /\ m = procs[d] /\ b = BlockSize(grid, procs)[d]
            /\ k0 = getCoordinates(r, procs)[d]
            /\ n = m * b /\ b > 0 /\ k0 < m
            /\ domain[r].start[d] = b * k0 /\ domain[r].cells[d] = b
      BY BlockOf
    <2>2. m = 1
      BY <2>1 DEF Axes
    <2>3. k0 = 0
      BY <2>1, <2>2
    <2>4. m * b = b /\ b * k0 = 0
      BY <2>2, <2>3, Z3
    <2> QED
      BY <2>1, <2>4
  <1>2. PICK a, b, c \in Nat :
          /\ cells[1] = a /\ cells[2] = b /\ cells[3] = c
          /\ block[1] = a /\ block[2] = b /\ block[3] = c
          /\ start[1] = 0 /\ start[2] = 0 /\ start[3] = 0
          /\ a > 0 /\ b > 0 /\ c > 0
    <2>1. PICK a \in Nat : cells[1] = a /\ block[1] = a /\ start[1] = 0 /\ a > 0
      BY <1>1 DEF Axes
    <2>2. PICK b \in Nat : cells[2] = b /\ block[2] = b /\ start[2] = 0 /\ b > 0
      BY <1>1 DEF Axes
    <2>3. PICK c \in Nat : cells[3] = c /\ block[3] = c /\ start[3] = 0 /\ c > 0
      BY <1>1 DEF Axes
    <2> QED
      BY <2>1, <2>2, <2>3
  <1>3. Size(block) = a * b * c /\ Size(cells) = a * b * c
    BY <1>2 DEF Size
  <1>4. k \in 0 .. a * b * c - 1
    BY <1>3, Zenon DEF ElementsOf
  <1>5. BoxStart(writer, domain[r]) = <<0, 0, 0>> /\ BoxCount(writer, domain[r]) = block
        /\ Lengths(writer, grid, block) = block
    BY DEF BoxStart, BoxCount, Lengths
  <1>6. BoxInside(r)
    BY <1>2, <1>5 DEF BoxInside, Axes
  <1>7. CellAt(r, k) = k
    <2>1. PICK x, y, z \in Nat : PositionOf(a, b, c, k, x, y, z)
      <3>1. a > 0 /\ b > 0 /\ c > 0
        BY <1>2
      <3> QED
        BY <1>4, <3>1, CountedBack, Zenon
    <2>2. CellOfBlock(block, k) = <<x, y, z>>
      BY <1>2, <2>1, Zenon DEF CellOfBlock, PositionOf
    <2>3. Sum3(start, <<x, y, z>>) = <<x, y, z>>
      BY <1>2 DEF Sum3
    <2>4. NumberOf(grid, <<x, y, z>>) = x + y * a + z * a * b
      BY <1>2 DEF NumberOf
    <2>5. k = x + y * a + z * a * b
      BY <2>1, Zenon DEF PositionOf
    <2> QED
      BY <2>2, <2>3, <2>4, <2>5, Zenon DEF CellAt
  <1>8. PlaceAt(r, k) = k
    <2>1. k \in 0 .. c * b * a - 1 /\ b * c = c * b
      <3>1. a * b * c = c * b * a /\ b * c = c * b
        BY Z3
      <3> QED
        BY <1>4, <3>1, Zenon
    <2>2. PICK x, y, z \in Nat : PositionOf(c, b, a, k, x, y, z)
      <3>1. a > 0 /\ b > 0 /\ c > 0
        BY <1>2
      <3> QED
        BY <2>1, <3>1, CountedBack, Zenon
    <2>3. PlaceInBox(block, k) = <<z, y, x>>
      BY <1>2, <2>1, <2>2, Zenon DEF PlaceInBox, PositionOf
    <2>4. Sum3(<<0, 0, 0>>, <<z, y, x>>) = <<z, y, x>>
      BY DEF Sum3
    <2>5. PlaceInFile(block, <<z, y, x>>) = (z * b + y) * c + x
      BY <1>2 DEF PlaceInFile
    <2>6. k = x + y * c + z * c * b
      BY <2>2, Zenon DEF PositionOf
    <2>7. x + y * c + z * c * b = (z * b + y) * c + x
      BY Z3
    <2> QED
      BY <1>5, <2>3, <2>4, <2>5, <2>6, <2>7, Zenon DEF PlaceAt
  <1> QED
    BY <1>3, <1>4, <1>6, <1>7, <1>8, Zenon

\* The case in which the order of the file is that of the grid.
InOrderCase ==
  IF writer = "NetCDFMPIWriter" THEN EqualLengths /\ SameDimension ELSE procs = <<1, 1, 1>>

LEMMA BoxRight ==
  ASSUME IInv, InOrderCase, NEW r \in Ranks, Done(r), NEW k \in ElementsOf(r)
  PROVE  /\ PlaceAt(r, k) = CellAt(r, k) /\ BoxInside(r)
         /\ CellAt(r, k) \in 0 .. Size(grid.cells) - 1
  BY BoxIsBlock, BoxOfAll, Zenon DEF InOrderCase

LEMMA SomeElement ==
  ASSUME IInv, NEW r \in Ranks, Done(r)
  PROVE  0 \in ElementsOf(r)
  <1>1. PICK a, b, c, s, t, u, l, m, n \in Nat :
           /\ domain[r].cells[1] = a /\ domain[r].cells[2] = b /\ domain[r].cells[3] = c
           /\ domain[r].start[1] = s /\ domain[r].start[2] = t /\ domain[r].start[3] = u
           /\ grid.cells[1] = l /\ grid.cells[2] = m /\ grid.cells[3] = n
           /\ a > 0 /\ b > 0 /\ c > 0
           /\ s + a <= l /\ t + b <= m /\ u + c <= n
    BY BlockNumbers
  <1>2. PICK i \in Nat : i = a * b * c /\ i > 0
    <2>1. PICK j \in Nat : j = a * b /\ j > 0
      BY <1>1, ProductPositive
    <2>2. j * c > 0 /\ j * c \in Nat
      BY <1>1, <2>1, ProductPositive
    <2> QED
      BY <2>1, <2>2
  <1>3. ElementsOf(r) = 0 .. i - 1
    BY <1>1, <1>2, Zenon DEF ElementsOf, Size
  <1> QED
    BY <1>2, <1>3

\* The file has a place for each cell of the grid.
LEMMA PlacesAreCells ==
  ASSUME IInv, InOrderCase, NEW r \in Ranks, Done(r)
  PROVE  Places = 0 .. Size(grid.cells) - 1
  <1>1. CASE writer = "NetCDFMPIWriter"
    BY <1>1, Zenon DEF Places, Lengths
  <1>2. CASE writer # "NetCDFMPIWriter"
    <2>1. procs = <<1, 1, 1>> /\ 0 \in ElementsOf(r)
      BY <1>2, SomeElement DEF InOrderCase
    <2>2. Size(domain[r].cells) = Size(grid.cells)
      BY <1>2, <2>1, BoxOfAll, Zenon
    <2>3. domain[r].cells = BlockSize(grid, procs)
      BY FoundFields
    <2>4. Lengths(writer, grid, BlockSize(grid, procs)) = BlockSize(grid, procs)
      BY <1>2 DEF Lengths
    <2> QED
      BY <2>2, <2>3, <2>4, Zenon DEF Places
  <1> QED
    BY <1>1, <1>2

\* A rank writes only when it has its block, and what it has written is in place.
FileInv ==
  /\ IInv
  /\ file = [place \in Places |-> file[place]]
  /\ wrote = [r \in Ranks |-> wrote[r]]
  /\ \A r \in Ranks : wrote[r] # "no" => Done(r)
  /\ InOrderCase => \A r \in Ranks :
       /\ wrote[r] \in {"no", "yes"}
       /\ wrote[r] = "yes" => \A k \in ElementsOf(r) : file[CellAt(r, k)] = CellAt(r, k)

LEMMA FileInvInit == FileInit => FileInv
  <1> SUFFICES ASSUME FileInit PROVE FileInv
    OBVIOUS
  <1>1. IInv
    BY OwnInit DEF FileInit
  <1>2. wrote = [r \in Ranks |-> "no"] /\ file = [place \in Places |-> Unwritten]
    BY DEF FileInit
  <1> QED
    BY <1>1, <1>2 DEF FileInv

\* A rank that finds its block does not touch those that have written.
LEMMA FileInvNext ==
  ASSUME FileInv, Next, UNCHANGED <<writer, file, wrote>>
  PROVE  FileInv'
  <1>1. PICK q \in Ranks : Decompose(q)
    BY DEF Next
  <1>2. IInv'
    BY OwnStep DEF FileInv
  <1>3. grid' = grid /\ procs' = procs /\ writer' = writer /\ file' = file /\ wrote' = wrote
    BY <1>1 DEF Decompose
  <1>4. Ranks' = Ranks /\ Places' = Places /\ (InOrderCase' <=> InOrderCase)
    BY <1>3 DEF Ranks, Places, InOrderCase, EqualLengths, SameDimension
  <1>5. ASSUME NEW r \in Ranks, Done(r)
        PROVE  domain'[r] = domain[r]
    <2>1. NotYet.state # "done"
      BY DEF NotYet
    <2>2. domain[r] # domain[q]
      BY <1>1, <1>5, <2>1 DEF Decompose, Done
    <2>3. domain' = [domain EXCEPT ![q] = domain'[q]] /\ domain = [p \in Ranks |-> domain[p]]
      BY <1>1 DEF Decompose, FileInv, IInv
    <2> QED
      BY <2>2, <2>3
  <1>6. \A r \in Ranks : wrote[r] # "no" => Done(r)'
    BY <1>5 DEF FileInv, Done
  <1>7. ASSUME InOrderCase, NEW r \in Ranks
        PROVE  /\ wrote[r] \in {"no", "yes"}
               /\ wrote[r] = "yes" =>
                    \A k \in ElementsOf(r)' : file[CellAt(r, k)'] = CellAt(r, k)'
    <2>1. wrote[r] \in {"no", "yes"}
      BY <1>7 DEF FileInv
    <2>2. ASSUME wrote[r] = "yes", NEW k \in ElementsOf(r)'
          PROVE  file[CellAt(r, k)'] = CellAt(r, k)'
      <3>1. domain'[r] = domain[r]
        BY <1>5, <2>2 DEF FileInv
      <3>2. k \in ElementsOf(r) /\ CellAt(r, k)' = CellAt(r, k)
        BY <1>3, <2>2, <3>1 DEF ElementsOf, CellAt, NumberOf
      <3> QED
        BY <1>7, <2>2, <3>2 DEF FileInv
    <2> QED
      BY <2>1, <2>2
  <1>8. file' = [place \in Places' |-> file'[place]] /\ wrote' = [r \in Ranks' |-> wrote'[r]]
    BY <1>3, <1>4 DEF FileInv
  <1> QED
    BY <1>2, <1>3, <1>4, <1>6, <1>7, <1>8 DEF FileInv

\* A rank that writes puts its cells in place, and its places hold no others.
LEMMA FileInvWrite ==
  ASSUME FileInv, NEW r \in Ranks, WriteBlock(r)
  PROVE  FileInv'
  <1>1. /\ grid' = grid /\ procs' = procs /\ domain' = domain /\ writer' = writer
        /\ \A q \in Ranks : Done(q)
        /\ wrote[r] = "no"
        /\ wrote' = [wrote EXCEPT ![r] = IF BoxInside(r) THEN "yes" ELSE "edge"]
        /\ file' = [place \in DOMAIN file |->
             IF BoxInside(r) /\ \E k \in ElementsOf(r) : PlaceAt(r, k) = place
             THEN CellAt(r, CHOOSE k \in ElementsOf(r) : PlaceAt(r, k) = place)
             ELSE file[place]]
    BY Zenon DEF WriteBlock, vars, Done, BoxInside, ElementsOf, PlaceAt, CellAt
  <1>2. IInv'
    <2>1. [Next]_vars
      BY <1>1 DEF vars
    <2> QED
      BY <2>1, OwnStep DEF FileInv
  <1>3. /\ Ranks' = Ranks /\ Places' = Places /\ (InOrderCase' <=> InOrderCase)
        /\ \A q \in Ranks : Done(q)' /\ ElementsOf(q)' = ElementsOf(q)
        /\ \A q \in Ranks : \A k : CellAt(q, k)' = CellAt(q, k)
    BY <1>1 DEF Ranks, Places, InOrderCase, EqualLengths, SameDimension, Done, ElementsOf,
                CellAt, NumberOf
  <1>4. file' = [place \in Places |-> file'[place]] /\ wrote' = [q \in Ranks |-> wrote'[q]]
    BY <1>1 DEF FileInv
  <1>5. ASSUME InOrderCase
        PROVE  \A q \in Ranks :
                 /\ wrote'[q] \in {"no", "yes"}
                 /\ wrote'[q] = "yes" =>
                      \A k \in ElementsOf(q) : file'[CellAt(q, k)] = CellAt(q, k)
    <2>1. BoxInside(r)
      BY <1>1, <1>5, SomeElement, BoxRight DEF FileInv
    <2>2. wrote' = [wrote EXCEPT ![r] = "yes"]
      BY <1>1, <2>1
    <2>3. \A q \in Ranks : wrote'[q] \in {"no", "yes"}
      BY <1>5, <2>2 DEF FileInv
    <2>4. ASSUME NEW place \in Places
          PROVE  /\ file'[place] \in {place, file[place]}
                 /\ (\E k \in ElementsOf(r) : PlaceAt(r, k) = place) => file'[place] = place
      <3>1. place \in DOMAIN file
        BY <2>4 DEF FileInv
      <3>2. CASE \E k \in ElementsOf(r) : PlaceAt(r, k) = place
        <4>1. PICK j : j = CHOOSE k \in ElementsOf(r) : PlaceAt(r, k) = place
          OBVIOUS
        <4>2. j \in ElementsOf(r) /\ PlaceAt(r, j) = place
          BY <3>2, <4>1, Zenon
        <4>3. CellAt(r, j) = place
          BY <1>1, <1>5, <4>2, BoxRight DEF FileInv
        <4>4. file'[place] = CellAt(r, j)
          BY <1>1, <2>1, <3>1, <3>2, <4>1, Zenon
        <4> QED
          BY <4>3, <4>4
      <3>3. CASE ~ \E k \in ElementsOf(r) : PlaceAt(r, k) = place
        <4>1. file'[place] = file[place]
          BY <1>1, <3>1, <3>3
        <4> QED
          BY <3>3, <4>1
      <3> QED
        BY <3>2, <3>3
    <2>5. ASSUME NEW q \in Ranks, wrote'[q] = "yes", NEW k \in ElementsOf(q)
          PROVE  file'[CellAt(q, k)] = CellAt(q, k)
      <3>1. PlaceAt(q, k) = CellAt(q, k) /\ CellAt(q, k) \in Places
        <4>1. Done(q) /\ IInv
          BY <1>1 DEF FileInv
        <4> QED
          BY <1>5, <4>1, BoxRight, PlacesAreCells, Zenon
      <3>2. CASE q = r
        BY <2>4, <3>1, <3>2
      <3>3. CASE q # r
        <4>1. wrote[q] = "yes"
          BY <2>2, <2>5, <3>3 DEF FileInv
        <4>2. file[CellAt(q, k)] = CellAt(q, k)
          BY <1>5, <4>1 DEF FileInv
        <4> QED
          BY <2>4, <3>1, <4>2
      <3> QED
        BY <3>2, <3>3
    <2> QED
      BY <2>3, <2>5
  <1> QED
    <2>1. file' = [place \in Places' |-> file'[place]] /\ wrote' = [q \in Ranks' |-> wrote'[q]]
      BY <1>3, <1>4
    <2>2. \A q \in Ranks' : wrote'[q] # "no" => Done(q)'
      BY <1>3
    <2>3. InOrderCase' => \A q \in Ranks' :
            /\ wrote'[q] \in {"no", "yes"}
            /\ wrote'[q] = "yes" =>
                 \A k \in ElementsOf(q)' : file'[CellAt(q, k)'] = CellAt(q, k)'
      BY <1>3, <1>5
    <2> QED
      BY <1>2, <2>1, <2>2, <2>3 DEF FileInv

LEMMA FileInvAlways == FileSpec => []FileInv
  <1>1. FileInv /\ [FileNext]_fileVars => FileInv'
    <2> SUFFICES ASSUME FileInv, [FileNext]_fileVars PROVE FileInv'
      OBVIOUS
    <2>1. CASE Next /\ UNCHANGED <<writer, file, wrote>>
      BY <2>1, FileInvNext
    <2>2. ASSUME NEW r \in Ranks, WriteBlock(r) PROVE FileInv'
      BY <2>2, FileInvWrite
    <2>3. CASE UNCHANGED fileVars
      <3>1. /\ grid' = grid /\ procs' = procs /\ domain' = domain
            /\ writer' = writer /\ file' = file /\ wrote' = wrote
        BY <2>3 DEF fileVars, vars
      <3> QED
        BY <3>1 DEF FileInv, IInv, Own, Ranks, Places, Done, InOrderCase, EqualLengths,
                    SameDimension, ElementsOf, CellAt, NumberOf
    <2> QED
      BY <2>1, <2>2, <2>3 DEF FileNext
  <1> QED
    BY <1>1, FileInvInit, PTL DEF FileSpec

\* Each position in a block of a by b by c has an index.
HasIndex(a, b, c, x, y, z) ==
  \E k \in 0 .. a * b * c - 1 : k % a = x /\ (k \div a) % b = y /\ k \div (a * b) = z

LEMMA IndexInBlock ==
  ASSUME NEW a \in Nat, NEW b \in Nat, NEW c \in Nat,
         NEW x \in 0 .. a - 1, NEW y \in 0 .. b - 1, NEW z \in 0 .. c - 1
  PROVE  HasIndex(a, b, c, x, y, z)
  <1>1. /\ a \in Nat /\ b \in Nat /\ c \in Nat
        /\ x \in 0 .. a - 1 /\ y \in 0 .. b - 1 /\ z \in 0 .. c - 1
        /\ x \in Nat /\ y \in Nat /\ z \in Nat /\ a > 0 /\ b > 0
    OBVIOUS
  <1>2. x + y * a + z * a * b \in 0 .. a * b * c - 1
    BY <1>1, Compose
  <1>3. (x + y * a + z * a * b) % a = x
    BY <1>1, Compose
  <1>4. (x + y * a + z * a * b) \div (a * b) = z
    BY <1>1, Compose
  <1>5. ((x + y * a + z * a * b) \div a) % b = y
    <2>1. PICK yz \in Nat : yz = y + z * b
      BY <1>1, TwoLayers
    <2>2. x + y * a + z * a * b = x + yz * a
      BY <2>1, Z3
    <2>3. (x + yz * a) \div a = yz
      BY <1>1, DivModUnique
    <2>4. (y + z * b) % b = y
      BY <1>1, DivModUnique
    <2> QED
      BY <2>1, <2>2, <2>3, <2>4, Zenon
  <1> QED
    BY <1>2, <1>3, <1>4, <1>5, Zenon DEF HasIndex

\* Each cell of the grid is an element of some block.
LEMMA CellHasElement ==
  ASSUME IInv, AllDone, NEW i \in 0 .. Size(grid.cells) - 1
  PROVE  \E r \in Ranks : \E k \in ElementsOf(r) : CellAt(r, k) = i
  <1>1. PICK l \in Nat, m \in Nat, n \in Nat :
          /\ grid.cells[1] = l /\ grid.cells[2] = m /\ grid.cells[3] = n
          /\ l > 0 /\ m > 0 /\ n > 0
    <2>1. grid.cells \in Triples
      BY GridsAssumption DEF IInv, Own, Grid
    <2> QED
      BY <2>1, Numbers
  <1>2. i \in Nat /\ i < l * m * n
    <2>1. PICK e \in Nat : e = l * m * n
      BY Z3
    <2>2. i \in 0 .. e - 1
      BY <1>1, <2>1, Zenon DEF Size
    <2>3. i \in Nat /\ i < e
      BY <2>2
    <2> QED
      BY <2>1, <2>3, Zenon
  <1>3. PICK x \in 0 .. l - 1, y \in 0 .. m - 1, z \in 0 .. n - 1 :
          i = x + y * l + z * l * m
    <2>1. l > 0 /\ m > 0 /\ n > 0
      BY <1>1
    <2>2. /\ i % l \in 0 .. l - 1 /\ (i \div l) % m \in 0 .. m - 1 /\ i \div (l * m) \in 0 .. n - 1
          /\ i = (i % l) + ((i \div l) % m) * l + (i \div (l * m)) * l * m
      BY <1>2, <2>1, Split, Zenon
    <2> QED
      BY <2>2, Zenon
  <1>4. PICK r \in Ranks : InBlock(r, <<x, y, z>>)
    <2>1. x \in 0 .. grid.cells[1] - 1 /\ y \in 0 .. grid.cells[2] - 1 /\ z \in 0 .. grid.cells[3] - 1
      BY <1>1
    <2>2. PICK r \in Ranks : \A q \in Ranks : InBlock(q, <<x, y, z>>) <=> q = r
      BY <2>1, BlocksFitTogether DEF BlocksPartition
    <2> QED
      BY <2>2
  <1>5. PICK a, b, c, s, t, u, l1, m1, n1 \in Nat :
           /\ domain[r].cells[1] = a /\ domain[r].cells[2] = b /\ domain[r].cells[3] = c
           /\ domain[r].start[1] = s /\ domain[r].start[2] = t /\ domain[r].start[3] = u
           /\ grid.cells[1] = l1 /\ grid.cells[2] = m1 /\ grid.cells[3] = n1
           /\ a > 0 /\ b > 0 /\ c > 0
           /\ s + a <= l1 /\ t + b <= m1 /\ u + c <= n1
    <2>1. Done(r)
      BY DEF AllDone
    <2> QED
      BY <2>1, BlockNumbers
  <1>6. /\ x \in s .. s + a - 1 /\ y \in t .. t + b - 1 /\ z \in u .. u + c - 1
    BY <1>4, <1>5 DEF InBlock, Axes
  <1>7. PICK xo \in 0 .. a - 1, yo \in 0 .. b - 1, zo \in 0 .. c - 1 :
          x = s + xo /\ y = t + yo /\ z = u + zo
    <2>1. x - s \in 0 .. a - 1 /\ y - t \in 0 .. b - 1 /\ z - u \in 0 .. c - 1
      BY <1>6
    <2>2. x = s + (x - s) /\ y = t + (y - t) /\ z = u + (z - u)
      BY <1>6
    <2> QED
      BY <2>1, <2>2
  <1>8. PICK k \in 0 .. a * b * c - 1 :
          k % a = xo /\ (k \div a) % b = yo /\ k \div (a * b) = zo
    <2>1. /\ a \in Nat /\ b \in Nat /\ c \in Nat
          /\ xo \in 0 .. a - 1 /\ yo \in 0 .. b - 1 /\ zo \in 0 .. c - 1
      OBVIOUS
    <2>2. HasIndex(a, b, c, xo, yo, zo)
      BY <2>1, IndexInBlock
    <2> QED
      BY <2>2, Zenon DEF HasIndex
  <1>9. k \in ElementsOf(r)
    BY <1>5, <1>8, Zenon DEF ElementsOf, Size
  <1>10. CellAt(r, k) = i
    <2>1. CellOfBlock(domain[r].cells, k) = <<xo, yo, zo>>
      BY <1>5, <1>8, Zenon DEF CellOfBlock
    <2>2. Sum3(domain[r].start, <<xo, yo, zo>>) = <<x, y, z>>
      BY <1>5, <1>7 DEF Sum3
    <2>3. NumberOf(grid, <<x, y, z>>) = x + y * l + z * l * m
      BY <1>1 DEF NumberOf
    <2> QED
      BY <1>3, <2>1, <2>2, <2>3, Zenon DEF CellAt
  <1> QED
    BY <1>9, <1>10

\* In the cases in which the orders of grid and file agree, a file that all ranks
\* have written holds each cell of the grid at its number, for every grid and
\* every split of it.
THEOREM FilesAlwaysInOrder == FileSpec => []EqualGridsInOrder
  <1>1. FileInv => EqualGridsInOrder
    <2> SUFFICES ASSUME FileInv, InOrderCase PROVE FileInOrder
      BY DEF EqualGridsInOrder, InOrderCase
    <2>1. \A r \in Ranks : wrote[r] # "edge"
      BY DEF FileInv
    <2>2. ASSUME \A r \in Ranks : wrote[r] = "yes", NEW i \in 0 .. Size(grid.cells) - 1
          PROVE  i \in DOMAIN file /\ file[i] = i
      <3>1. IInv /\ AllDone
        BY <2>2 DEF FileInv, AllDone
      <3>2. PICK r \in Ranks : \E k \in ElementsOf(r) : CellAt(r, k) = i
        BY <2>2, <3>1, CellHasElement
      <3>3. file[i] = i
        BY <2>2, <3>2 DEF FileInv
      <3>4. Places = 0 .. Size(grid.cells) - 1
        BY <3>1, PlacesAreCells DEF AllDone
      <3>5. DOMAIN file = Places
        BY DEF FileInv
      <3> QED
        BY <2>2, <3>3, <3>4, <3>5
    <2> QED
      BY <2>1, <2>2 DEF FileInOrder
  <1> QED
    BY <1>1, FileInvAlways, PTL
=============================================================================
