---------------------------- MODULE FluxRegions ----------------------------
(***************************************************************************)
(* One application of ConservedSystem: the calls of computeFlux, first for  *)
(* the inner region, concurrently with the halo exchange, then for two      *)
(* strips of every dimension; and the diffusion, direction by direction.    *)
(* The module keeps the index ranges of the loops exactly and abstracts the *)
(* arithmetic: what a call adds to a cell is one contribution for each      *)
(* direction, and what it computes that from is the set of cells it reads.  *)
(*                                                                         *)
(* A direction has size[d] interior cells with `ghost` ghost cells on       *)
(* either side; indices start at 0 with the ghost cells, as in the code.    *)
(***************************************************************************)
EXTENDS Schemes

CONSTANTS
  Dimensions,   \* number of active dimensions
  Schemes,      \* numerical schemes considered, of those that can be built
  Sizes         \* interior sizes considered, functions of the dimension

Dims == 1 .. Dimensions

ASSUME SizesAssumption ==
  /\ Dimensions \in 1 .. 3
  /\ Schemes \subseteq Built
  /\ \A n \in Sizes : n \in [Dims -> Nat \ {0}]
  \* a block that is one cell wide has one dimension less (Volume::getDimensions)
  /\ \A n \in Sizes, d \in Dims : d > 1 => n[d] > 1

Larger(a, b) == IF a >= b THEN a ELSE b

\* Fault: the stencil of the flux does not count.
ReconstructionGhosts(s) == s.order

\* NumericalFluxCPU::getNumberOfGhostCells, then the system's.
FluxGhosts(s) == Larger(2 * s.half - 1, s.order)
Ghosts(s)     == Larger(FluxGhosts(s), s.diffusion)

-----------------------------------------------------------------------------
(* Ranges of the loops over one axis with N cells, g of them ghost cells on *)
(* either side, for the offsets `from` and `to` that the caller gives.      *)

\* makeZero, and the cells computeNetFlux adds to: loop bounds on the CPU, on
\* the GPU a number of threads that are counted from an offset.
UpdatedOnCpu(N, g, from, to) == g + from .. N - g + to - 1

UpdatedOnCuda(N, g, from, to) ==
  LET numberOfCells == N - 2 * g - from + to
  IN  {i + g + from : i \in 0 .. numberOfCells - 1}

Updated(s, N, g, from, to) ==
  IF s.platform = "cpu" THEN UpdatedOnCpu(N, g, from, to) ELSE UpdatedOnCuda(N, g, from, to)

\* The faces x + 1/2 across the axis whose flux goes into temporaryVolume.
FacesOnCpu(N, g, from, to) == g - 1 + from .. N - g + to - 1

FacesOnCuda(N, g, from, to) ==
  LET numberOfCells == N - 2 * g + 1 - from + to
  IN  {i + g - 1 + from : i \in 0 .. numberOfCells - 1}

Faces(s, N, g, from, to) ==
  IF s.platform = "cpu" THEN FacesOnCpu(N, g, from, to) ELSE FacesOnCuda(N, g, from, to)

\* Fault: a range that is not honoured.
FilledAll(s, N, from, to) == s.order - 1 .. N - s.order

\* The cells that performReconstruction fills along its direction: those of its
\* range or, the range unused, all that have a full window around them.
FilledInRange(s, N, from, to) == s.order - 1 + from .. N - (s.order - 1) + to - 1
FilledWhole(s, N)             == s.order - 1 .. N - (s.order - 1) - 1

Ranged(s) == s.kind \in {"eno", "limiter"}

Filled(s, N, from, to) ==
  IF Ranged(s) THEN FilledInRange(s, N, from, to) ELSE FilledWhole(s, N)

\* Across its direction: the limiters ask for less on a GPU.
LimiterAcross(s, N, from, to) ==
  LET margin == IF s.platform = "cpu" THEN s.order ELSE s.order - 1
  IN  margin + from .. N - margin + to - 1

EnoAcross(s, N, from, to) == s.order + from .. N - s.order + to - 1

FilledAcross(s, N, from, to) ==
  CASE s.kind = "limiter" -> LimiterAcross(s, N, from, to)
    [] s.kind = "eno"     -> EnoAcross(s, N, from, to)
    [] OTHER              -> 0 .. N - 1

\* Fault: the differences end a cell too early, as tecno's do.
DifferencesShort(s, N, level, from, to) == level + from .. N - level - 3 + to

\* The divided differences of ENO, along the direction and across; entry x of
\* a level is made of the cells x .. x + level + 1.
Differences(s, N, level, from, to) == level + from .. N - level - 2 + to
DifferencesAcross(s, N, from, to)  == s.order + from .. N - (s.order - 1) + to - 1

\* The choice of the stencil of cell x looks at both differences next to it.
DifferencesRead(x) == {x - 1, x}

\* The cells of left and right that the flux at face x reads, and the cells
\* of the conserved variables that their reconstruction reads.
Stencil(s, x) == x - (s.half - 1) .. x + s.half
Window(s, x)  == x - (s.order - 1) .. x + (s.order - 1)

\* The conserved cells that the flux at face x depends on.
Dependence(s, x) == UNION {Window(s, p) : p \in Stencil(s, x)}

\* The conserved cells that a call touches along its direction.
Touched(s, N, from, to) == UNION {Window(s, p) : p \in Filled(s, N, from, to)}

Interior(N, g) == g .. N - g - 1
AllCells(N)    == 0 .. N - 1

-----------------------------------------------------------------------------
(* The diffusion, in one direction over all cells but the outermost.        *)

DiffusedAlong(N) == 1 .. N - 2

\* The cells where the entropy variables of either side of a face are set.
EntropyLeft(N)  == DiffusedAlong(N)
EntropyRight(N) == {x - 1 : x \in DiffusedAlong(N)}

\* What tecno's reconstruction of order k fills, and its divided differences.
EntropyFilled(k, N)             == IF k = 1 THEN AllCells(N) ELSE k - 1 .. N - k
EntropyDifferences(level, N)    == level .. N - level - 3

\* A face of an interior cell takes the right value of the cell before it and
\* the left value of the cell after it.
RightValues(N, g) == g - 1 .. N - g - 1
LeftValues(N, g)  == g .. N - g

-----------------------------------------------------------------------------
VARIABLES
  scheme,   \* the scheme of this system
  size,     \* interior size of the volume
  call,     \* next call: computeFlux for 0 inner, 2d - 1 bottom, 2d top of d,
            \* then the diffusion in direction call - 2 * Dimensions
  net,      \* net[x][d]: contributions of direction d to cell x of output
  waves,    \* waves[x]: directions whose face x + 1/2 is in waveSpeed so far
  diffused  \* diffused[x][d]: times the diffusion of d was added to it

vars == <<scheme, size, call, net, waves, diffused>>

Ghost    == Ghosts(scheme)
Total(d) == size[d] + 2 * Ghost
Grid     == {x \in [Dims -> UNION {AllCells(Total(d)) : d \in Dims}] :
               \A d \in Dims : x[d] \in AllCells(Total(d))}

LastFlux == 2 * Dimensions
LastCall == IF scheme.diffusion = 0 THEN LastFlux ELSE 3 * Dimensions

\* Fault: strips of one ghost width, counted from the first ghost cell.
ThinStart(c, d) ==
  IF c = 0 THEN Ghost
  ELSE IF c = 2 * d THEN Total(d) - 2 * Ghost
  ELSE 0

\* start and end of the calls in the order ConservedSystem makes them.
Start(c, d) ==
  IF c = 0 THEN Ghost
  ELSE IF c = 2 * d THEN Total(d) - 3 * Ghost
  ELSE 0

End(c, d) ==
  IF c = 0 THEN -Ghost
  ELSE IF c = 2 * d - 1 THEN 3 * Ghost - Total(d)
  ELSE 0

UpdatedAlong(c, d) == Updated(scheme, Total(d), Ghost, Start(c, d), End(c, d))

FacesAlong(c, d)   == Faces(scheme, Total(d), Ghost, Start(c, d), End(c, d))

\* The cells that a call updates; and the faces across d whose flux it
\* computes: there can be one in a row that has no cell to update.
Region(c)        == [d \in Dims |-> UpdatedAlong(c, d)]
FaceRegion(c, d) == [Region(c) EXCEPT ![d] = FacesAlong(c, d)]

Within(x, region) == \A d \in Dims : x[d] \in region[d]

TypeOK ==
  LET grid == Grid
  IN  /\ scheme \in Schemes
      /\ size \in Sizes
      /\ call \in 0 .. LastCall + 1
      /\ net \in [grid -> [Dims -> Nat]]
      /\ waves \in [grid -> SUBSET Dims]
      /\ diffused \in [grid -> [Dims -> Nat]]

\* CartesianDecomposition only asks that the ranks divide the grid; the
\* exchange and the strips need as many interior cells as ghost cells.  On a
\* GPU the numbers of threads of the inner region are multiplied and must be
\* positive.
Fits(s, n) == \A d \in Dims :
  /\ n[d] >= Ghosts(s)
  /\ s.platform = "cuda" => n[d] > 2 * Ghosts(s)

Init ==
  /\ scheme \in {s \in Schemes : Sound(s)}
  /\ size \in {n \in Sizes : Fits(scheme, n)}
  /\ call = 0
  /\ net = [x \in Grid |-> [d \in Dims |-> 0]]
  /\ waves = [x \in Grid |-> {}]
  /\ diffused = [x \in Grid |-> [d \in Dims |-> 0]]

\* computeFlux: makeZero, then for each direction reconstruction and net flux.
MakeZero(c, n) ==
  LET region == Region(c)
  IN  [x \in DOMAIN n |-> IF Within(x, region) THEN [d \in Dims |-> 0] ELSE n[x]]

AddNetFlux(c, n) ==
  LET region == Region(c)
  IN  [x \in DOMAIN n |-> IF Within(x, region) THEN [d \in Dims |-> n[x][d] + 1] ELSE n[x]]

\* Fault: the wave speeds of a strip replace those of the strips before it.
LastWaves(c, w) ==
  LET faces == [d \in Dims |-> FaceRegion(c, d)]
  IN  [x \in DOMAIN w |-> {d \in Dims : Within(x, faces[d])}]

\* The largest wave speed of the faces of this call and of those before.
MaxWaves(c, w) ==
  LET faces == [d \in Dims |-> FaceRegion(c, d)]
  IN  [x \in DOMAIN w |-> w[x] \cup {d \in Dims : Within(x, faces[d])}]

\* Fault: the loop over the dimensions takes one turn too many.
OneMore ==
  /\ call <= LastFlux + 1
  /\ net' = AddNetFlux(call, MakeZero(call, net))
  /\ waves' = MaxWaves(call, waves)
  /\ call' = call + 1
  /\ UNCHANGED <<scheme, size, diffused>>

\* One call of computeFlux.
ComputeFlux ==
  /\ call <= LastFlux
  /\ net' = AddNetFlux(call, MakeZero(call, net))
  /\ waves' = MaxWaves(call, waves)
  /\ call' = call + 1
  /\ UNCHANGED <<scheme, size, diffused>>

\* applyDiffusion in one direction; it adds to ghost cells as well, which the
\* boundary condition or the next exchange overwrites.
ApplyDiffusion ==
  LET d == call - LastFlux
  IN
  /\ call \in LastFlux + 1 .. LastCall
  /\ diffused' = [x \in DOMAIN diffused |->
       IF x[d] \in DiffusedAlong(Total(d)) THEN [diffused[x] EXCEPT ![d] = @ + 1]
                                           ELSE diffused[x]]
  /\ call' = call + 1
  /\ UNCHANGED <<scheme, size, net, waves>>

Next == ComputeFlux \/ ApplyDiffusion

Spec == Init /\ [][Next]_vars

-----------------------------------------------------------------------------
(* Correctness.                                                             *)

InteriorCell(x) == \A d \in Dims : x[d] \in Interior(Total(d), Ghost)

\* When the operator returns, every interior cell holds the net flux of each
\* direction exactly once, although the strips overlap at the corners and,
\* on a small block, with the inner region, and its diffusion once; no ghost
\* cell got a flux (ConservedSystem.cpp:59-103, NumericalFluxCPU.cpp:100-146).
EachCellOnce ==
  call = LastCall + 1 => \A x \in DOMAIN net, d \in Dims :
    IF InteriorCell(x)
    THEN net[x][d] = 1 /\ diffused[x][d] = (IF scheme.diffusion = 0 THEN 0 ELSE 1)
    ELSE net[x][d] = 0

\* The wave speed that the time step is chosen from is the largest of all
\* faces that interior cells have in a direction, whichever region they were
\* computed with, and of no face between ghost cells, whose values may be
\* anything (ConservedSystem.cpp:79-101, NumericalFluxCPU.cpp:94).
WaveSpeedOfAllFaces ==
  call = LastCall + 1 => \A x \in DOMAIN waves, d \in Dims :
    d \in waves[x] <=> InteriorCell(x) \/
                        (x[d] + 1 \in AllCells(Total(d)) /\ InteriorCell([x EXCEPT ![d] = @ + 1]))

\* The fluxes computed while the exchange thread writes the ghost cells
\* depend on no ghost cell (ConservedSystem.cpp:59).
InnerDependsOnInterior ==
  call = 0 => \A d \in Dims : \A x \in FacesAlong(0, d) :
    Dependence(scheme, x) \subseteq Interior(Total(d), Ghost)

\* A reconstruction that honours the range does not even read a ghost cell
\* during that time, so main thread and exchange thread do not race.
InnerTouchesInterior ==
  call = 0 /\ Ranged(scheme) => \A d \in Dims :
    Touched(scheme, Total(d), Start(0, d), End(0, d)) \subseteq Interior(Total(d), Ghost)

\* Every call computes its fluxes from values its own reconstruction filled,
\* never from those a call on another region left in the same arrays, along
\* its direction and across; ENO chooses stencils by differences of the same
\* call; and all reads are inside the arrays (NumericalFluxCPU.cpp:194,
\* ReconstructionCPU.cpp:71, ENOCPU.cpp:96, ENOCPU.cpp:223).
FacesAreFilled ==
  call <= LastFlux => \A d \in Dims :
    LET from(a) == Start(call, a)
        to(a)   == End(call, a)
        filled  == Filled(scheme, Total(d), from(d), to(d))
    IN  /\ Touched(scheme, Total(d), from(d), to(d)) \subseteq AllCells(Total(d))
        /\ \A x \in FacesAlong(call, d) : Stencil(scheme, x) \subseteq filled
        /\ \A a \in Dims \ {d} :
             UpdatedAlong(call, a) \subseteq FilledAcross(scheme, Total(a), from(a), to(a))
        /\ scheme.kind = "eno" =>
             /\ \A a \in Dims \ {d} :
                  FilledAcross(scheme, Total(a), from(a), to(a))
                    \subseteq DifferencesAcross(scheme, Total(a), from(a), to(a))
             /\ \A x \in filled, level \in 0 .. scheme.order - 2 :
                  DifferencesRead(x) \subseteq Differences(scheme, Total(d), level, from(d), to(d))

-----------------------------------------------------------------------------
(* What the diffusion in direction d reads.                                 *)

\* Entry x + i of an array is i places further in memory: within a row that is
\* i cells further in the first direction, whatever the direction is.
Further(x, i) == [x EXCEPT ![1] = @ + i]

\* The first differences that the values of cell x are summed up from.
SummedDifferences(k, x) == {Further(x, l) : l \in -(k - 1) .. k - 2}

\* The differences, one place in the row for each level, that exist in this row.
RowDifferences(d, x) ==
  {[x EXCEPT ![d] = i] : i \in EntropyDifferences(0, Total(d))}

\* Everything that the value of cell x is made of was set in this pass and
\* belongs to the row of cells along d through x.
ValueOfRow(d, k, x) ==
  /\ x[d] \in EntropyFilled(k, Total(d))
  /\ SummedDifferences(k, x) \subseteq RowDifferences(d, x)
  /\ \A level \in 0 .. k - 2 :
       DifferencesRead(x[d]) \subseteq EntropyDifferences(level, Total(d))

\* The values that the diffusion across a face takes the difference of are
\* reconstructed in the direction given (TecnoReconstruction.hpp:45), from the
\* row of cells through the face, of what this pass has set.
DiffusionReadsItsRow ==
  call \in LastFlux + 1 .. LastCall =>
    LET d == call - LastFlux
        k == scheme.diffusion
        N == Total(d)
    IN  \A x \in DOMAIN net : (\A a \in Dims \ {d} : x[a] \in Interior(Total(a), Ghost)) =>
          /\ x[d] \in LeftValues(N, Ghost)  => x[d] \in EntropyLeft(N) /\ ValueOfRow(d, k, x)
          /\ x[d] \in RightValues(N, Ghost) => x[d] \in EntropyRight(N) /\ ValueOfRow(d, k, x)
=============================================================================
