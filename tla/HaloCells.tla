----------------------------- MODULE HaloCells -----------------------------
(***************************************************************************)
(* Which cells of the grid the ghost cells of every rank hold, after the    *)
(* boundary conditions and the halo exchange have filled them.  Composes    *)
(* the decomposition (neighbours, kept conditions), the strips that are     *)
(* sent and received, and the boundary conditions, on CPUs, where MPI reads  *)
(* and writes the volumes themselves, or on GPUs, with staging buffers.      *)
(*                                                                         *)
(* A memory holds, instead of a value, the number of the grid's cell whose  *)
(* value it is.  The sides of a rank are received in any order; a strip     *)
(* contains ghost cells of the other directions, so what is received in     *)
(* the corners depends on it, and nothing is claimed about corners: the     *)
(* dimension-wise stencils do not read them.                                *)
(***************************************************************************)
EXTENDS CartesianDecomposition, CartesianStrips

CONSTANTS
  Cases,        \* grid, split, number of ghost cells (getNumberOfGhostCells), platform
  NarrowBlocks  \* may a block have fewer cells than ghost cells?

ASSUME CasesAssumption ==
  Cases \subseteq [grid : Grids, procs : Splits, width : Nat, platform : {"cpu", "cuda"}]
ASSUME NarrowBlocksAssumption == NarrowBlocks \in BOOLEAN

VARIABLES
  width,     \* the ghost cells of this run
  platform,  \* where the volumes are
  strips,    \* the cells sent and received over each side, made at the first exchange
  memory,    \* memory[r]: the contents of a volume of rank r
  applied,   \* ranks that have applied the boundary conditions
  staged,    \* staged[r]: contents of the buffers it sends from, on a GPU
  received   \* received[r]: the sides at which rank r has received

caseVars == <<vars, width, platform, strips>>
allVars  == <<caseVars, memory, applied, staged, received>>

Dimension == ActiveDimension(grid.cells)
Garbage   == -1
Nothing   == << >>

\* Volume::getDimensions looks at y first, Grid::getActiveDimension at z.
VolumeDimensions(cells) == IF cells[2] = 1 THEN 1 ELSE IF cells[3] = 1 THEN 2 ELSE 3

\* The volume of a block; all blocks have the same size.  One cell in y or z
\* gets no ghost cells.
Block ==
  LET cells == BlockSize(grid, procs)
  IN  [dimensions |-> VolumeDimensions(cells),
       size   |-> [d \in Axes |-> cells[d] + (IF d = 1 \/ cells[d] > 1 THEN 2 * width ELSE 0)],
       ghosts |-> width]

\* Has the volume of a block all directions of the grid?  One that is a single
\* cell wide in y or z has not: BoundaryCPU refuses it or the exchange leaves
\* out its sides.
AllDirections == \A d \in 2 .. Dimension : BlockSize(grid, procs)[d] > 1

\* Where index i lies in a volume, and back.
Cell(v, i) == <<i % v.size[1], (i \div v.size[1]) % v.size[2], i \div (v.size[1] * v.size[2])>>
Index(v, c) == c[1] + c[2] * v.size[1] + c[3] * v.size[1] * v.size[2]

Indices == 0 .. Block.size[1] * Block.size[2] * Block.size[3] - 1

\* The number of a cell of the grid.
Number(c) == c[1] + c[2] * grid.cells[1] + c[3] * grid.cells[1] * grid.cells[2]

\* The position in the grid, perhaps outside it, of cell i of rank r.
Position(r, i) ==
  [d \in Axes |-> domain[r].start[d] + Cell(Block, i)[d] - (IF d <= Dimension THEN width ELSE 0)]

\* The directions in which cell i lies in the ghost cells of a block.
Outside(i) ==
  {d \in 1 .. Dimension :
     Cell(Block, i)[d] \notin width .. Block.size[d] - width - 1}

\* The cells that are sent and received over each side: by MPI itself, or by
\* the kernels from and to the buffers.
Strips ==
  [side \in ActiveSides(grid.cells) |->
     IF platform = "cpu"
     THEN [sent |-> SendType(Block, side), received |-> ReceiveType(Block, side)]
     ELSE [sent     |-> RegionCells(Block, side, ExtractRegion(Block, side)),
           received |-> RegionCells(Block, side, InsertRegion(Block, side))]]

HaloInit ==
  /\ \E case \in Cases : /\ grid = case.grid /\ procs = case.procs
                         /\ width = case.width /\ platform = case.platform
  /\ Divides(grid, procs)
  /\ AllDirections
  /\ NarrowBlocks \/ \A d \in 1 .. Dimension : BlockSize(grid, procs)[d] >= width
  /\ domain = [r \in Ranks |-> Domain(grid, procs, r)]
  /\ strips = Strips
  \* setInitialValue, before ghost cells are filled.
  /\ memory = [r \in Ranks |-> [i \in Indices |->
                 IF Outside(i) = {} THEN Number(Position(r, i)) ELSE Garbage]]
  /\ applied = {}
  /\ staged = [r \in Ranks |-> Nothing]
  /\ received = [r \in Ranks |-> {}]

-----------------------------------------------------------------------------
(* The boundary conditions.                                                 *)

\* The planes, counted in direction d, that the b-th copy at a side writes
\* and reads: b cells behind the last interior plane is written ...
WrittenPlane(v, side, b) ==
  LET d == Direction(side)
  IN  IF IsBottom(side) THEN v.ghosts - b ELSE v.size[d] - v.ghosts - 1 + b

\* Fault: the interior plane is counted from 1.
PeriodicFromOne(v, side, b) ==
  LET d == Direction(side)
      n == v.size[d] - 2 * v.ghosts
  IN  IF IsBottom(side) THEN v.ghosts + n - b - 1 ELSE v.size[d] - v.ghosts - n + b

\* ... and for Periodic, the plane n cells further inside is read, ...
PeriodicPlane(v, side, b) ==
  LET d == Direction(side)
      n == v.size[d] - 2 * v.ghosts
  IN  IF IsBottom(side) THEN v.ghosts + n - b ELSE v.size[d] - v.ghosts - 1 - n + b

\* ... for Neumann the one that mirrors it.
NeumannPlane(v, side, b) ==
  LET d == Direction(side)
  IN  IF IsBottom(side) THEN v.ghosts + b - 1 ELSE v.size[d] - v.ghosts - b

CopyPlane(m, v, side, b) ==
  LET d    == Direction(side)
      read == IF grid.condition = "periodic" THEN PeriodicPlane(v, side, b)
              ELSE NeumannPlane(v, side, b)
  IN  [i \in Indices |->
         LET c == Cell(v, i)
         IN  IF c[d] = WrittenPlane(v, side, b)
             THEN m[Index(v, [c EXCEPT ![d] = read])] ELSE m[i]]

\* BoundaryCPU: the sides in their order, without those of MPI, and for each
\* the ghost cells from the inside out.
WithBoundary(r) ==
  LET g == Block.ghosts
      after[k \in 0 .. 2 * Dimension * g] ==
        IF k = 0 THEN memory[r]
        ELSE LET side == (k - 1) \div g
                 b    == ((k - 1) % g) + 1
             IN  IF domain[r].conditions[side] = "mpi" THEN after[k - 1]
                 ELSE CopyPlane(after[k - 1], Block, side, b)
  IN  after[2 * Dimension * g]

\* The check that BoundaryCPU makes before it starts; it throws.  The kernels
\* of BoundaryCUDA are started without one; the threads of a kernel run along
\* lines across the side, and what they copy is the same.
TooFewCells(v) == \E d \in 1 .. Dimension : v.size[d] < 2 * v.ghosts

ApplyBoundary(r) ==
  /\ r \notin applied
  /\ platform = "cpu" => ~TooFewCells(Block)
  /\ memory' = [memory EXCEPT ![r] = WithBoundary(r)]
  /\ applied' = applied \cup {r}
  /\ UNCHANGED <<caseVars, staged, received>>

-----------------------------------------------------------------------------
(* The exchange.                                                            *)

Across(r, side) == domain[r].neighbours[side]

\* extractSides: on a GPU a rank first copies all strips to the buffers that
\* MPI sends; the copies are waited for before the sends are posted.
ExtractSides(r) ==
  /\ platform = "cuda" /\ r \in applied /\ staged[r] = Nothing
  /\ staged' = [staged EXCEPT ![r] =
       [side \in ActiveSides(grid.cells) |->
          [k \in DOMAIN strips[side].sent |-> memory[r][strips[side].sent[k]]]]]
  /\ UNCHANGED <<caseVars, memory, applied, received>>

\* Has rank r called exchangeCells, and posted its sends and receives?
Posted(r) == r \in applied /\ (platform = "cuda" => staged[r] # Nothing)

\* What arrives from a side of q: the memory as it is now, or the buffer.
Arriving(q, sent) ==
  IF platform = "cuda" THEN staged[q][sent]
  ELSE [k \in DOMAIN strips[sent].sent |-> memory[q][strips[sent].sent[k]]]

\* Fault: a receive waits for the tag of its own side.
OwnSide(sent, side) == sent = side

\* exchangeCells: side by side a strip is sent with the side as its tag, and
\* one received at the opposite side with the same tag.
TagsMatch(sent, side) == sent = Opposite(side)

\* Has the neighbour a message for the receive at this side?
Available(r, side, sent) ==
  LET q == Across(r, side)
  IN  q # NoRank /\ Posted(q) /\ Across(q, sent) = r /\ TagsMatch(sent, side)

\* insertSides waits for the sides in their order, and starts each one's copy
\* on a stream of its own.
LowerSidesCame(r, side) ==
  \A lower \in 0 .. side - 1 :
    Across(r, lower) = NoRank \/ \E sent \in ActiveSides(grid.cells) : Available(r, lower, sent)

\* What came for a side is in the ghost cells: when MPI completes the receive,
\* or when the stream has done the copy.
Receive(r, side) ==
  /\ Posted(r) /\ side \notin received[r]
  /\ platform = "cuda" => LowerSidesCame(r, side)
  /\ \E sent \in ActiveSides(grid.cells) :
       /\ Available(r, side, sent)
       /\ LET to    == strips[side].received
              At(i) == CHOOSE k \in DOMAIN to : to[k] = i
              came  == Arriving(Across(r, side), sent)
          IN  memory' = [memory EXCEPT ![r] = [i \in Indices |->
                           IF \E k \in DOMAIN to : to[k] = i THEN came[At(i)] ELSE @[i]]]
  /\ received' = [received EXCEPT ![r] = @ \cup {side}]
  /\ UNCHANGED <<caseVars, applied, staged>>

HaloNext ==
  \E r \in Ranks :
    \/ ApplyBoundary(r)
    \/ ExtractSides(r)
    \/ \E side \in ActiveSides(grid.cells) : Receive(r, side)

\* Ranks run, and MPI completes a receive once its message is there.
HaloSpec == HaloInit /\ [][HaloNext]_allVars /\ WF_allVars(HaloNext)

-----------------------------------------------------------------------------
(* Correctness.                                                             *)

\* The side at which a cell lies that is outside in direction d only.
SideOf(i, d) == IF Cell(Block, i)[d] < width THEN 2 * d - 2 ELSE 2 * d - 1

Filled(r, side) ==
  IF domain[r].neighbours[side] = NoRank THEN r \in applied ELSE side \in received[r]

\* The grid's boundary condition, for one coordinate out of n.
Folded(x, n) ==
  IF grid.condition = "periodic" THEN x % n
  ELSE IF x < 0 THEN -1 - x ELSE IF x >= n THEN 2 * n - 1 - x ELSE x

\* A rank's own cells are never overwritten, and a ghost cell at a side that
\* has been filled, corners aside, holds the cell of the grid that lies there,
\* around the end or mirrored at it as one rank alone would have it
\* (BoundaryCPU.cpp:31, CartesianCellExchanger.cpp:51).
CellsRight ==
  \A i \in Indices : LET outside == Outside(i) IN \A r \in Ranks :
    /\ outside = {} => memory[r][i] = Number(Position(r, i))
    /\ \A d \in outside : outside = {d} /\ Filled(r, SideOf(i, d)) =>
         LET position == Position(r, i)
         IN  memory[r][i] =
               Number([position EXCEPT ![d] = Folded(position[d], grid.cells[d])])

\* When a boundary condition has not been refused for too few cells, it has
\* put interior cells of the block into the ghost cells of its sides: that is
\* what the check and its message are for (BoundaryCPU.cpp:38).
GhostsFromInterior ==
  \A r \in applied : \A i \in Indices : \A d \in Outside(i) :
    Outside(i) = {d} /\ domain[r].neighbours[SideOf(i, d)] = NoRank
      => memory[r][i] # Garbage

\* The ghost cells at a side, corners included.
GhostLayer(side) ==
  LET d == Direction(side)
  IN  {i \in Indices : Cell(Block, i)[d] \in
         IF IsBottom(side) THEN 0 .. width - 1 ELSE Block.size[d] - width .. Block.size[d] - 1}

\* What is received at a side are all the ghost cells of that side, each
\* once, and no other cell: nothing of the rank's own block is overwritten,
\* by CPUs or by GPUs (displacements.hpp:46, CudaCartesianCellExchanger.cu:293).
ReceiveFillsGhostLayer ==
  applied = {} => \A side \in DOMAIN strips :
    LET to == strips[side].received
    IN  /\ {to[k] : k \in DOMAIN to} = GhostLayer(side)
        /\ \A j, k \in DOMAIN to : to[j] = to[k] => j = k

\* The k-th cell received at a side is the one that lies, on the neighbour's
\* volume, one block width away from the k-th cell that the neighbour sends
\* over the opposite side: the two lists run through the strip in the same
\* order, row by row and layer by layer (displacements.hpp:46).
StripsCorrespond ==
  applied = {} => \A side \in DOMAIN strips :
    LET d     == Direction(side)
        to    == strips[side].received
        from  == strips[Opposite(side)].sent
        block == (Block.size[d] - 2 * width) * Stride(Block, d)
    IN  /\ Len(from) = Len(to)
        /\ \A k \in DOMAIN to :
             from[k] = IF IsBottom(side) THEN to[k] + block ELSE to[k] - block

\* The exchange ends with every side of every rank filled: no rank waits for
\* a message that nobody sends (CartesianCellExchanger.cpp:86).
EverySideFilled ==
  <>(\A r \in Ranks, side \in ActiveSides(grid.cells) : Filled(r, side))
=============================================================================
