# Verification of alsvinn

alsvinn solves conservation laws with finite volume methods on structured grids
(`alsfvm`), on one or several MPI ranks, and runs many perturbed simulations at
once to compute statistics of the solution (`alsuq`). This directory holds TLA+
models of the parts in which order, concurrency, indices and coefficients decide
whether the result is right, the TLC runs that check them on small instances,
and TLAPS proofs for every value of the constants.

## Inventory

| Part | State it keeps | Operations | What makes it correct |
|---|---|---|---|
| time loop (`Simulator`, `alsvinncli`) | `conservedVolumes[0..substeps]`, current time, step count, writers | `performStep`, `atEnd`, `callWriters`, `finalize` | every stage starts from the right volumes; all ranks stop after the same step |
| conserved system | none of its own; spawns a thread for every call | inner flux beside the exchange, join, strips along the sides, diffusion | each cell gets each direction's net flux once; the inner flux needs no ghost cell |
| integrators | none (the volumes belong to the simulator) | `performSubstep`, `computeTimestep` with three reductions | the order of each scheme; one time step for all ranks, within every rank's CFL condition |
| halo exchange, CPU | derived datatypes of each side, requests of one call | `exchangeCells`, `waitForAll`, `max` | the ghost cells hold the neighbour's cells of this stage; no deadlock |
| halo exchange, GPU | a send and a receive buffer for each side, requests that outlive a call | the same, through staging buffers | as above, and no buffer is written while it is in flight |
| decomposition | none | rank to coordinates and back, neighbours, boundary of each side | neighbours agree; blocks partition the grid |
| boundary conditions | none | `applyBoundaryConditions` after every substep | ghost cells of physical sides mirror or wrap; MPI sides are left alone |
| flux, reconstruction, diffusion | scratch volumes shared by all calls | `computeFlux(start, end)` on CPU and GPU | the ranges fit the ghost cells; consistency and order of the formulas |
| equations | parameters | point fluxes, wave speeds, conversions of variables | arithmetic of a cell |
| writers, timestep adjusters | next save, snapshot number, running integrals | `write`, `adjustTimestep`, `finalize` | every save time is hit once, on all ranks alike |
| file formats | open files, snapshot number | `write` by one process or by all | the blocks of all ranks make up the grid in the file |
| functionals | accumulated integral, last time | `operator()`, interval writing | weights add up to the interval |
| alsuq samples | position in each generator's stream | `generate`, skipping to a process's first sample | samples are the same however many processes there are |
| alsuq runner and load balancer | samples of this process, communicators | `run`, `finalize` | every sample runs once; collectives match |
| alsuq statistics | snapshots for each time, sample counts | `write`, `combineStatistics`, `writeStatistics` | reductions match; mean and variance of all samples |
| setup | configuration | the factories of schemes, writers and functionals | what is built is what the models assume |
| python, alsutils | none that the solver depends on | running the executable, logging, timers | outside the models |

How they interact: `alsvinncli` builds a simulator from XML and loops
`performStep` until `atEnd`. A step runs the integrator's substeps; a substep
calls the conserved system on one volume with the next as output, and then the
boundary condition on the output. The conserved system starts a thread that
runs the exchanger while the main thread computes the inner region. The first
substep computes the time step from wave speeds that are reduced over all
ranks. The simulator then checks constraints, which may throw, and calls the
writers. In alsuq a runner repeats this for each sample that the load balancer
gave to its process, with statistics beside the writers; processes of a group
share a sample, groups meet when they write files and reduce statistics.

What is hard: two threads per rank and one MPI library; asynchronous sends that
read memory when MPI pleases; messages whose tags do not tell stages apart;
collectives inside loops that each rank leaves on its own; volumes that change
places; index ranges built from ghost widths; several layouts of the same cells;
statistics that outlive a sample; failure of one process.

## The modules

| Module | Models | Uses |
|---|---|---|
| `ParallelSimulator` | the time loop of all ranks, both threads, messages | |
| `LockstepStages` | the abstract loop: ranks that advance in lockstep | |
| `ParallelSimulatorRefinement` | that the first implements the second | both |
| `Schemes` | what the factories build | |
| `FluxRegions` | the regions of the flux calls on CPU and GPU, and the diffusion | `Schemes` |
| `Integrators` | the combinations of the Runge-Kutta substeps | |
| `Reconstructions` | ENO, WENO and the limiters as formulas | |
| `ScalarFluxes` | numerical fluxes of the scalar equations as formulas | |
| `CellLoops` | the loops over cells and elements, and the threads of kernels | |
| `GridSides` | the numbering of sides | |
| `CartesianDecomposition` | blocks, neighbours and conditions of every rank | `GridSides` |
| `GridFiles` | where the blocks land in a file | `CartesianDecomposition` |
| `CartesianStrips` | the elements sent and received over a side | `GridSides` |
| `HaloCells` | decomposition, boundary condition and exchange together | `CartesianDecomposition`, `CartesianStrips` |
| `StructureFunctions` | the pairs of cells that structure functions compare | `HaloCells` |
| `SaveTimes` | writers, functionals and the steps they cut | |
| `LoadBalance` | groups, communicators and samples of alsuq's processes | |
| `SampleRuns` | alsuq's runner, files and statistics on all processes | `LoadBalance` |

The modules whose names begin with MC give constants their values for TLC; those that end in
`_proofs` hold theorems. `GridIndexing` holds lemmas alone: positions in a block and
their indices, which ranks, cells and threads have in common.

## Plan

Done, in this order: `ParallelSimulator`; `FluxRegions`; `CartesianDecomposition`;
the halo (`CartesianStrips`, `HaloCells`); `SaveTimes`; the abstract
specification `LockstepStages` and the refinement; the factories (`Schemes`) and
the GPU's ranges in `FluxRegions`, the GPU's buffers in `HaloCells`; alsuq
(`LoadBalance`, `SampleRuns`, `StructureFunctions`); the file formats
(`GridFiles`); the formulas (`Integrators`, `Reconstructions`, `ScalarFluxes`)
and the loops (`CellLoops`) with their theorems.

What is left:

1. The GPU exchanger over several exchanges, and the diffusion on GPU.
2. The other structure functions and the moments.

Every invariant and action property that a passing run checks is also a theorem.

## ParallelSimulator

One TLA+ module for the main loop of all ranks. `pc[r]` follows the main thread
of rank r through `alsvinncli`'s loop and the calls below it, `thread[r]` its
exchange thread (`none` before the spawn and after the join). `front` is the
result of `conservedVolumes[0].swap(conservedVolumes.back())`: the pointers
change places, so `Volume(r, k)` gives the memory behind `conservedVolumes[k]`.

Data are provenance. `interior[r][v]` is the number of stages the cells of
memory v are the result of, `ghost[r][v][side]` the rank and stage that the
ghost cells of a side were taken from. `SideFlux` gives `Garbage` unless every
ghost side is the one that a sequential run would have, and `Combine` unless
every volume that the integrator's formula reads is. A run that never makes
Garbage computes what one rank would.

MPI is external. `sends[r][side]` is the history of a channel. A send completes
when the library buffers it (`BufferSend`, which may or may not happen) or when
the message is delivered; until then its content is whatever the sender's
memory holds. The i-th receive of a channel matches the i-th send, which is
MPI's rule for messages of one tag. A reduction returns when all have entered.

`ring_of_two`: two ranks in a periodic line are each other's neighbour on both
sides, which is the case where messages of the two sides could be confused. Wave
speeds of 1 and 2 make ranks disagree before the reduction. `chain_of_three`:
three blocks of a plane in a row have a middle rank whose two neighbours do not
hold each other back, exchanged sides beside physical ones, and wave speeds that
are added up over two directions. Two or three stages are enough for a rank to
be a stage ahead within a step, and `EndTime` for a step to follow another.
`clock`, `sends` and the speeds are histories: they grow with the steps, which
the end time bounds. A rank of `chain_of_three` may throw: the
other ranks then wait for ever, as they do in the program, so that run does not
check for deadlock. Of the properties, each run repeats only those that its
instance adds something to.

Fairness: weak fairness of each thread (the operating system schedules both)
and of each delivery (MPI's progress rule for posted receives). Buffering is
not fair: the code may not rely on it. `Completes` is checked without throws.

### LockstepStages and the refinement

`LockstepStages` says what the loop promises with no thread, message or buffer:
a rank goes from one exact stage to the next when its neighbours have the stage
it starts from, begins a step only where every rank has finished the last one,
and all ranks go through the same times. `ImplementsLockstep` checks that
`ParallelSimulator` implements it under this mapping: `Adjacent[r]` are the
ranks in `Neighbours[r]`, `Steps` is `0 .. Cfl`, `stage`, `substep` and `clock`
are the concrete variables of these names, and `solution[r]` is the interior of
the memory behind `conservedVolumes[0]`, which within a step is the state that the
step began with. A stage that used the wrong cells is Garbage and maps to no
abstract step.

## Schemes, FluxRegions

`Schemes` lists what `NumericalFluxFactory`, `ReconstructionFactory` and
`DiffusionFactory` accept for each equation and platform and what they build, as a
record of what the loops depend on: platform, half width of the flux's stencil,
reconstruction, order of the diffusion. `FluxRegions` then runs one application
of the conserved system: the calls of `computeFlux` that it makes, with the
index ranges of every loop or kernel (`Start` and `End` are the offsets,
`Updated`, `Faces` and `Filled` the ranges, `Window` and `Stencil` the reads),
and the diffusion. A cell counts the contributions it got in each direction.

| Property | Question |
|---|---|
| `EachCellOnce` | does every cell get each direction's flux and diffusion exactly once, whether strips overlap or not |
| `WaveSpeedOfAllFaces` | does the wave speed of the step see every face of the block |
| `InnerDependsOnInterior`, `InnerTouchesInterior` | may the inner region run beside the exchange |
| `FacesAreFilled` | is every face that a call reads filled by that same call |
| `DiffusionReadsItsRow` | is a cell's diffusion made of cells in its own row (violated) |

`flux_regions` takes every scheme that is built, with diffusion none or of order
one or four (two and three have ghost widths in between), on blocks of
`<<1, 2, 3>>`, `<<4, 4, 5>>`, `<<7, 5, 5>>` and `<<9, 9, 9>>` cells: for ghost
widths from one to four, among them are strips that overlap one another, that just touch, and
that leave an inner region. A block has at least as many interior as ghost cells
(`Init`; the code does not check it). On GPU a kernel is launched for a product
of lengths, and scratch volumes have the flux's own ghost width; GPU schemes are
taken without diffusion and on blocks of more than two ghost widths, where
neither matters. `tecno_rows` is a finding. The module is sequential: the
operator returns after its last call, so deadlock is not checked.

## Integrators, Reconstructions, ScalarFluxes, CellLoops

Formulas, without a state machine. They are about exact arithmetic: values are
integers that stand for multiples of a small unit, and each result is given with
a factor that clears its denominators. What is left out is rounding. There is
nothing to interleave, so they have theorems in place of runs.

`Integrators`: a volume is a polynomial in dt * F (by its coefficients), and
`performSubstep` the sum, product or linear combination that each integrator
makes of the step's volumes.

`Reconstructions`: the coefficients of ENO and WENO, ENO's divided differences
and its choice of the shift, WENO's weighted sums (for any weights: the
smoothness indicators are not modelled), the closed formulas of `WENO2`, the MC
and minmod limiters.

`ScalarFluxes`: point fluxes and wave speeds of the Burgers, cubic and linear
equations; central, Rusanov, Godunov, Roe and upwind fluxes; the combinations
`tecno4` and `tecno6` of any base flux.

`CellLoops`: the nested loops of `volume_foreach.hpp` and of `HostMemory`, the
launches of `vector_operations.cu` and `CUDACellComputer.cu`, and the map from a
thread to its cell of `cuda_utils.hpp`. A loop or a launch is the set of cells or
threads that do something; what is done to a cell is a parameter. It is assumed
that sizes fit into an int, in which `getCoordinates` keeps a thread's number. The
theorems say that every element and cell is taken exactly once, for every
size, so that CPU and GPU can differ only in what they do to it.

Four of the theorems say what the code does where it is not what one expects:

- `ThirdOrderCrossesBeforeJump`: `ENOCPU` compares, on every level, the two differences
  beside the cell (`ENOCPU.cpp:144`), where the algorithm of the report that
  `ENOCPU.hpp:28` cites compares those beside the stencil chosen so far. In the
  cell before a jump `eno3` takes the stencil across it and overshoots by a third
  of the jump. `ENOCUDA.cu:79` does the same. `eno2`, which has one level, always
  keeps to its side (`SecondOrderKeepsToItsSide`).
- `LinearRoeOnlyForPositive`: `linear::Roe` is "just the upwind flux"
  (`linear/Roe.hpp:27`) only if the left value is not negative; a negative one is
  cut to zero as in Godunov's flux for Burgers' equation. `linear::Upwind` has no
  such cut.
- `OneGoodCellPassesOnGpu`: the kernel that checks constraints is meant to be reduced
  "to get if all cells obeys or not" (`CUDACellComputer.cu:98`), but the
  reduction is the maximum (`:136`), so that one good cell is enough.
  `CPUCellComputer` asks it of all. A simulation on GPU therefore goes on where
  `checkConstraints` would stop it on CPU.
- `VariationReadsInFrontOnGpu`: in one dimension the total variation on GPU reads
  the element below a cell from in front of the memory (`vector_operations.cu:167`
  tests `ny > 0`, `HostMemory.cpp:347` tests `ny > 1`); in two dimensions both
  take the same pairs.

## CartesianDecomposition, GridFiles

`CartesianDecomposition::decompose`, run by each rank on its own in any order.
`Domain(g, p, r)` is the DomainInformation that rank r computes: the size and
start of its block, the boundary condition of each of six sides, the neighbour
of each active side. Only the state before and after a rank's call is told
apart. `Failed` is the exception when a direction does not divide evenly. The
entries of `neighbours` beyond the active sides are never set by the code and
never read; the model leaves them out.

Ranks do not exchange a word here, so the properties are about what two of them
find: `NeighboursAgree` (each finds the other, across opposite sides),
`BlocksAbut` (with the block that comes next, around the end only on a periodic
grid), `BlocksPartition`, and `KeptAtEnds` (a kept condition is the grid's).

`GridFiles` adds the file writers: the dimensions of the dataset, the box that a
rank writes, the order in which it hands over its values. A file holds at each
place the number of the grid's cell written there. The two NetCDF and the two
HDF5 writers differ in what they do to the order and where the box begins.
`FileInOrder` is the layout that the tests read back; `NetCDFMPIWriter` reaches
it only on grids as long as wide (`EqualGridsInOrder`), and `oblong_file` is the
finding.

`decomposition` takes every split of up to three ranks in x and two in y and z,
of lines, planes and spaces, evenly divided or not: two ranks in a direction are
neighbours on both sides, three (in x) are the fewest with a middle one.

## CartesianStrips, HaloCells, StructureFunctions

The lists of memory elements behind the derived datatypes and, on GPU, behind
the buffers. `CartesianStrips` holds the pure operators of `mpi/cartesian`; the
code's case distinctions by dimension and side become the stride of a direction,
with the accumulation over segments kept.

`HaloCells` puts decomposition, boundary condition and exchange together: a
memory holds, for each of its cells, the number of the grid's cell whose value
it is. Every rank starts with its block and uninitialised ghost cells, applies
the boundary condition (`WithBoundary` follows the loops of the CPU, so a
later copy sees an earlier one, or the kernels of the GPU), and receives at its
sides in any order, directly or through the staging buffers.

| Property | Question |
|---|---|
| `CellsRight` | does each ghost cell hold the cell of the grid that lies there, once the grid's boundary condition is folded in |
| `ReceiveFillsGhostLayer` | does a receive write the ghost cells of its side and no other cell |
| `StripsCorrespond` | does what one rank sends match, element by element, what the other receives |
| `EverySideFilled` | does the exchange come to its end |
| `PairsOfLine` | do structure functions, whose partners are clamped at the ends of a line, read the cells that the boundary condition means |
| `GhostsFromInterior` | is a ghost cell made of interior cells only (violated on narrow blocks) |

`StructureFunctions` assumes at least one ghost cell (`GhostCellsAssumption`): every
reconstruction has one (NoReconstruction.cpp:71), and the system takes the largest
number (ConservedSystem.cpp:111).

Corner cells are exempt from `CellsRight`: their content does depend on the
order of the receives, and no stencil reads them (FluxRegions: reads run along
one direction at a time).

`halo_cells` has one, two or three ranks in one direction, periodic (where two
ranks exchange two strips at once, told apart by tag) and Neumann, in one to
three dimensions and split along each of them, with blocks of more than one cell in y
and z, on both platforms; four ranks on a plane with two exchanged sides each
and one or two ghost cells; and single blocks of many shapes, among which are those
where mistaking one direction for another shows. Four ranks on a periodic plane
have sixteen receives in any order and are left out for size. Fairness is that
ranks run and MPI completes a receive whose message has been sent; the
exchange ends, so deadlock is not checked.

`narrow_block` drops the condition that a block has as many cells as ghost cells.
The code means to check something like it (BoundaryCPU.cpp:38) but counts the
ghost cells as cells, so the check passes whenever every direction has ghost cells
(`AllDirections`); only a block that has lost a direction fails it.

## SaveTimes

The time loop of one rank with its writers and functionals, which are built from
the nodes of a configuration as `createWriter` and `createFunctionals` do:
`numberOfSaves` puts an interval in front, `numberOfCoarseSaves` a
coarse-graining one, `time` and `timeRadius` an average or an integral over a
ball, `numberOfSnapshots` an interval inside the ball. `state[w]` holds
numberSaved and numberSmallSaved, `target[w]` the running sum: of a volume only
the weights are kept, since each snapshot enters as its weight times the
volume. `files[w]` is the history of what was written. `PerformStep` takes any
step of `StepSizes` as that of the CFL condition, lets every adjuster cut it,
and calls every writer at the new time, as `performStep` does.

Time is counted in units. For `Setups` sums and products are exact. For
`RoundedSetups` a product numberSaved * timeInterval up to the
end time has a fixed error, and the sum of time and step a new error, of at
most a unit each; a unit stands for a rounding error and intervals of 4 and 6
units are coarse enough to tell the two apart. A sum never stands still for a
positive step (true while a step is larger than a rounding error of the time).

Two savers of different intervals are the fewest that cut each other's steps; 12
units hold several saves of each. `SetupsAssumption` wants the saves around a
coarse-graining time to end before those around the next, and
`RoundingAssumption` that save times with errors keep their order: intervals are four
units apart at least, the times around one time two. There is no fairness:
`StepsForward` says that every step of the loop moves the time, so a loop that
runs ends. `EndsExactly` is about exact arithmetic; with rounding a last save
time just below the end time lets one more step follow that nothing cuts.
The loop ends, so deadlock is not checked. `AverageOnce` promises an average only
where a save time meets the end of its ball: if the ball begins before time zero,
the intervals are counted from zero and may step over its end, and if the end time
comes before the next save the average is never written; rounding can do the
same to a ball that ends at the end time. What is written has been integrated from at
least one snapshot. A ball around time zero with a single snapshot ends with its first
save, which lies at its border: the writer then dereferences a null pointer
(TimeIntegratedWriter.cpp:59), so `NodeAssumption` asks for a later time there, and
`RoundingAssumption` for one that errors of rounding do not take out of the ball.

`WeightsCoverBall` allows an integral that is called after each step to miss its ball by
a step, no less: a step may end exactly where the ball begins. `later_ball` is a
finding: with snapshots, the weight of the first one inside the ball reaches
back to time zero. `save_times` has functionals whose ball starts at zero, or
that are called after each step, for which the weights are right.

## LoadBalance, SampleRuns

`LoadBalance` is `SimpleLoadBalancer`: the group of a process, its place in it,
its samples, and the communicators that `Configuration` splits off.
`SampleRuns` runs `Runner::run` on all processes. Between two collective calls a
process touches nothing but its own state, so each action completes one
collective call: the exchange of sample numbers at the start of a sample, the
definition and writing of datasets, a step of a group, the reduction of a
snapshot, the writing of statistics. `process[r].call` is the call that r is in.
A collective call completes when all its processes have entered it; MPI lets
some go on earlier, which a program may not rely on. In place of solutions,
files and statistics hold which samples went into them, with which time and
how often divided.

`samples` has three groups of two processes with two samples each; a sample's
steps are 1 or 3 long, chosen anew each time, so that groups come to the save
times in different numbers of steps; files are written every 3, statistics every
2 units up to time 6, integrals over the ball from 0 to 2; any process may throw
at a step. Three groups are the fewest in which a process has groups on either
side of it. Its properties: `CollectivesMatch` (what meets in a call is the same
call about the same thing), `FilesHoldSamples`, `StatisticsOfAllSamples` (each
sample once, at the snapshot's time; nothing is written without a sample that
threw; a time integral may miss its ball by a step), `Completes` (all return
unless one throws). `StepSizes` has a largest element, as
floating-point numbers do. Fairness is that MPI
completes calls that all have entered and that processes run. A throw leaves the
others waiting, as in the program, and the runs end: deadlock is not checked.

`streams` is a finding about the generator: the first sample of a group gets the
number that the last sample of the group before used.

## Findings

| Run | Source | What |
|---|---|---|
| `narrow_block` | BoundaryCPU.cpp:38 | the check for too few cells passes on every block that has ghost cells in each direction |
| `tecno_rows` | tecno/ENOCPU.cpp:152 | entropy variables are reconstructed along x in every direction |
| `oblong_file` | NetCDFMPIWriter.cpp:198 | box and dataset disagree about the order of dimensions |
| `streams` | STLMersenne.cpp:46 | two samples use the same random number |
| `later_ball` | TimeIntegrationFunctional.cpp:41 | the first weight reaches back to time zero |

## Proofs

`ParallelSimulator_proofs` proves for all constants that satisfy the
assumptions (any ranks and neighbour relation that is reciprocal, 1 to 3
dimensions, any number of stages, any wave speeds): `TypeCorrect`,
`HaloNeverStale`, `GhostsFreshAtSides`, `NoConcurrentMPI`, `ChannelsBounded`.
`NoStaleHalo` is not inductive. The invariant of the proof adds, for each rank
and side, how many messages were sent and received relative to the stage, what
every message in flight carries or will carry when it is read, that a posted
receive belongs to the volume of the substep under way, and what each ghost
side and each volume holds at each place of the program. The central argument:
a rank's stage is within one of each neighbour's, because it cannot end a stage
without the message of that stage and the neighbour cannot have sent the
message of a later one; a send not yet complete keeps its thread, and so its
main thread, inside the substep, so the memory it reads is still that of its
stage. `Invariant` was checked with TLC before it was proved.

From the same assumptions it proves what the ranks agree on: `ClocksAgree` (all go through the same times), `CFLOfAllRanks`,
`AllStopAfterThrow` and `TimeLoopInLockstep`, the refinement of `LockstepStages`
(for all but fairness). `Left(r)` is the number of reductions that rank r has come
out of. The invariant is `ClockInv`: no rank has left a reduction that another one has not
entered (`ReduceInv`), what a rank knows of a reduction is the largest speed that
was entered there (`ResultsOK`), and its place in the program, its sum and its
clock are functions of `Left(r)` (`PlaceOK`, `SumOK`, `ClockOK`). Since a reduction's
result no longer changes once all have entered it (`ResultKept`), the k-th time is the same on all
ranks. That it is would be an induction over the steps, which the provers do not
have; so the invariant carries it, as `SameClock` itself, and the step that
lengthens a clock extends the agreement by one place. A rank that threw never
enters the reductions of the next step, which holds the others back
(`AllStopAfterThrow`). For the refinement, `NextSubstep` is the abstract `Advance`,
`FinishStep` is `EndStep`, and everything else leaves the abstract state as it was
(`OthersStutter`); that neighbours have the stage to start from is the invariant of
the messages (`NeighboursThere`), that all have finished the step comes from the
reductions (`AllThere`). `ClockInv` was checked with TLC on both instances.

`FluxRegions_proofs` proves for every block, every scheme that the factories build and
one to three dimensions: `FluxTypeCorrect`, `EachCellComputedOnce`,
`WaveSpeedComplete`, `InnerIndependent`, `InnerDoesNotRace`, `FluxesOfOwnCall`.
`GhostsOf` bounds the ghost width by what the scheme reads; `PlatformsAgree` shows
that the loops and the kernels, which begin and end at different indices, update the same
cells and compute the same faces. After that all ranges are intervals:
`RangesOf` and `StripRanges` give their ends, also where the strips of a narrow
block are cut short, and `Parts` shows that inner region and strips of one direction cut its
interior into three. From that follow `RegionsCover` and `FacesCover`: the
calls together reach each interior cell, each cell in one call, and each face of it.
The invariant says that `net`, `waves` and `diffused` are functions of
the calls made so far (`NetOfCalls`, `WavesOfCalls`, `DiffusedByCalls`); it was
checked with TLC on both instances.

`CartesianDecomposition_proofs` proves for every grid and split
`NeighboursAlwaysAgree`, which is the assumption that `ParallelSimulator` makes of
`Neighbours`, and `DecompositionTypes`, `BlocksAlwaysPartition`,
`NeighboursAlwaysAbut` and `KeptOnlyAtEnds`. The lengths of blocks fill the grid
(`BlocksFill`), and the block of a cell is its quotient by that length in each
direction (`OneBlock`, `BlockOf`). The other lemmas are about numbers in mixed radix (`GridIndexing`): a rank's coordinates and the
index of a position are inverse (`IndexOfPosition`, `CoordinatesOfIndex`,
`IndexOfCoordinates`, from the uniqueness of quotient and remainder), a step
over a side changes one coordinate by one around a circle (`Circle`,
`StepOver`), and the step over the opposite side takes it back and meets no kept
condition (`StepBack`). The invariant is that each rank holds nothing or what
its own call computes.

The same module proves `FilesAlwaysInOrder` (`EqualGridsInOrder`): where the
order of the file and that of the grid agree, the k-th value of a rank's block is
written to the place of its cell (`BoxRight`: `PlaceAt` is `CellAt`, by the position of k
counted in both orders, `CountedBack`), every cell is some rank's
(`CellHasElement`) and no other place is written (`PlacesAreCells`). The invariant is
that a place holds nothing or its cell, and holds it once the rank it belongs to has
written.

`HaloCells_proofs` proves, for every grid and every split whose blocks keep all directions
of the grid (`AllDirections`), any number of ghost cells, CPU and GPU: `ReceiveAlwaysFills`, `StripsAlwaysCorrespond`, and, if no block has fewer
cells than ghost cells (`NarrowBlocks` is FALSE), `CellsAlwaysRight`. The first two
come from one form, `Strip`, that the datatypes of MPI and the regions of the kernels both have
(`ElementsAreStrip`, `RegionIsStrip`): planes of cells, row by row and layer by layer.
`Displacements` is a recursive function; that it has a value and which one is shown by
its closed form, with the induction on a set of numbers that the well-founded minimum gives
(`DisplacementOfSegment`, `AllNumbers`). The steps of BoundaryCPU are done
likewise (`StepsExist`). `HaloInv` says of every rank that its own cells hold
themselves (`OwnRight`), that the ghost cells of filled sides are right (`GhostsRight`),
that buffers hold what the own cells held (`StagedRight`), and that nothing has been received before
the boundary conditions, which would be overwritten. A step of a
boundary condition fills one plane from the rank's own cells (`CopyIsRight`), so every ghost cell of
a kept side is right once its plane has had its turn (`StepOf`, `BoundaryIsRight`);
the value received for a ghost cell is that of the neighbour's own cell one block away
(`SentApart`, `MovedInside`), which by `NeighboursAlwaysAbut` is the cell of the grid that lies
there, around the end or not (`CellAcross`, `FoldedNear`). Corners are left out of
the property because what they hold depends on the order of the receives. `HaloInv`
was checked with TLC on the configuration of the run.

On top of it `PairsAlwaysOfLine` proves `PairsOfLine`, under the same condition and
`GhostCellsAssumption`. Along a direction that is not split a rank has whole lines of the grid
(`WholeLine`). A structure function takes the partner of a cell around the end of
a periodic line, which is then a cell of the same line that holds itself
(`InnerValue`); on other grids it stops at the first ghost cell behind the end.
That cell lies at a kept side, which the boundary condition has filled, so by
`GhostsRight` it holds the line's last cell (`ValueBehind`), as `Nearest` wants
(`PartnerValue`).

`SaveTimes_proofs` proves, for all configurations that satisfy the assumptions
on their numbers, any number of savers, any steps of the CFL condition and any
errors of rounding: `SaveTypes`, `SavesInTime`, `LoopMovesForward`,
`EndsAtEndTime`, `AverageWrittenOnce`, and, of the weights, `SnapshotsCountFromZero`
and `WeightsCover`. None of the invariants is inductive. What
carries them is `CountersOK`: the next save of every saver lies ahead of the time,
the last save around an interval does not. A step is then positive, since it is the
minimum of positive numbers (`SmallestOfThem`, by the well-foundedness of the
naturals), and comes past no save by more than the error of the sum
(`StepLength`); so a saver saves at a step only if the step is within the errors of its
save time (`SaveInTime`), and after it the next save is ahead again, because
planned saves lie further apart than the errors reach (`SavesApart`). The number of files
is a function of the counters (`FilesOK`, `OneFileMore`), and the time that the next file is
meant for is the one that the counters plan (`ScheduledNext`, quotient and remainder of
the number by the saves around an interval). `EndOK` says that
a saver that divides the end time has its next save there at the latest;
`TargetOK` that an average not yet written has had no save past its ball, and that the
first save has added to it, since it lies inside (`FirstInside`). The
bound `MaxSaves` is no restriction: before the end no saver comes near it
(`SavesLeft`). The invariant was checked with TLC on the configurations of both
runs.

`WeightsCoverBall` is false in general (`later_ball`). What holds instead is
`SnapshotsCountFromZero`: at snapshots the weights add up to all the time from zero to the
end of the ball. `WeightsCover` therefore proves the property from one
hypothesis, `BallsFromZero`: a functional with snapshots has its ball begin at time zero. Its
invariant says of the weight what has been covered so far. At snapshots it is the last time
(`SnapshotWeights`), up to the end of the ball, which a snapshot meets exactly since the interval divides the
radius (`MultipleBefore`). After each step it is what has passed of the ball, and
at most a step more (`StepWeights`); a step is at most that of the CFL condition
(`StepWithinCFL`). `WeightInv` was checked with TLC on balls that begin at, after and
before zero, and on steps longer than the ball.

`SampleRuns_proofs` proves, for any number of groups, of processes in a group and of
samples, any intervals and ball, any steps, with or without throws: `Types`,
`Matching` (`CollectivesMatch`), `SavedFiles` (`FilesHoldSamples`) and
`StatisticsComplete` (`StatisticsOfAllSamples`), from the invariant of `Inductive`. Nothing in
the program makes processes of different groups agree before they meet: each has its own clock and its own
steps. The invariant says why they do. A process is in one of five states by
its call (`GatherState`, `WriteState`, `StepState` at a step or after a throw,
`LastState`), and in each of them its snapshots are a function of
the sample and the clock (`Volumes`, `Counts`), or for a time integral determined up to a step
(`IntegralOK`, `Partial`). `Together` says what several processes share: all are at the same
sample and save, those of a group have one clock and draw the same numbers, those of a column have reduced the same
snapshots. A group may be at any step between two saves; that no group passes a save
that another has not come to follows because the write is a call of all. `FilesOK` and `ReportsOK` say what has
been written by then. A reduction sums over a column of processes; the sum is the value of one of them, because
the others have zero (`SumOfOne`: the sum over the set is a recursive function on its
subsets, which by the well-founded minimum has one value), and that exactly one of them has a
sample is the theorem about `LoadBalance`, `OneOwner`. The proof rests on `CountsAssumption`,
`DivisorAssumption` (the load balancer throws otherwise), `TimesAssumption` (intervals that divide the end time, a ball inside the
simulation) and `SwitchesAssumption`. `IInv` was checked with TLC on the configuration
of `samples`.

`Numerics_proofs` is about the formulas of `Integrators`, `Reconstructions` and
`ScalarFluxes`. Integrators: `ExactToItsOrder` (the last volume of a step agrees with
the exponential up to dt^1, dt^2, dt^3, dt^4), by the coefficients of each
substep; `KeepsBounds` (a substep of the first three integrators is made of
forward Euler steps and earlier volumes with weights that add up to one, so it
keeps any bounds that forward Euler keeps).

Reconstructions: `ENOExact` for orders 2 to 4 and every shift,
`WENOExact` for any weights, `WENOHighOrder` for equal ones, `WENO2IsWENO`,
`LimitersStayBetween`, and the two theorems about jumps. Averages of a
polynomial over cells are linear in its coefficients, so each comes down to
linear identities between the numbers of a stencil (`AverageValues`,
`FacesOfENO2`, `FacesOfENO3`, `FacesOfENO4`).

Fluxes: `FluxesConsistent`, `LinearRoeOnlyForPositive`,
`GodunovIsExact` (the formula is the least or greatest flux between both values),
`RoeIsGodunov`, `GodunovMonotone`, from the growth of squares
(`SquareGrows`, `SquareShrinks`); `CombinationsExact` for `tecno4` and `tecno6`.

Loops: `EachElementOnce`, `EachCellOneElement`, `EachCellOneThread`,
`EachCellOneMidpoint`, `NeighboursInside` (neighbours stay in the volume exactly if
a layer is left out), and the two above. A launch has enough blocks
(`BlocksSuffice`) and no thread shares its number (`OneNumber`); a box is a volume
moved to its start (`MovedBox`), whose cells and indices correspond by `Compose`
and `Split` of `GridIndexing`, and the threads turned away are those with no
element of it (`RejectsSurplus`).

Only model-checked: liveness (`Completes`, `EverySideFilled`, and the fairness of the
refinement; no prover here reasons about fairness and ENABLED).

## Not modelled

- Floating-point arithmetic, except for the rounding of times in SaveTimes; the
  equations' conversions of variables, the fluxes of Euler's and the
  Buckley-Leverett equation and the entropy conservative ones (quotients, roots,
  logarithms), WENO's smoothness indicators, `WENOF2`.
- XML, initial data in Python, the Python package, writers in Python or a shared
  library, logging and timers: input, output and foreign code, with no state that the solver
  depends on.
- The GPU exchanger's buffers over several exchanges (CudaCartesianCellExchanger.cu:272
  fills a buffer whose last send nothing has waited for; what is then sent is
  undefined), and the diffusion on GPU.
- The GPU's structure functions, StructureCube, StructureTwoPoints, moments and
  variations. Reading them showed places where the source does not say what it
  means: ghost cells are subtracted twice in the classes beside StructureBasic,
  positions are added twice (structure_common.hpp:78), StructureTwoPoints uses the
  first direction for its second distance, and BoundedVariationDirection
  assigns where the sum over samples wants an addition. They are listed here for
  whoever extends the models.
- `createWriter` with a ball and no snapshots returns the plain writer
  (SimulatorSetup.cpp:399-415); SaveTimes follows the code in that.
- Overlapping coarse-graining times, alsuq's writers without an interval: the source does
  not say what is meant, and the models exclude them by name (`SetupsAssumption`,
  `SampleInterval`).
- Blocks that have one cell in y or z although the grid has a further direction there or
  behind it, as when four by four by four cells are split in four along y. A volume has
  no ghost cells in such a direction (Volume.cpp:52), and with one cell in y it calls itself
  one-dimensional even if z has many (Volume.cpp:279), while the block's grid looks at z
  first (Grid.cpp:131). What follows depends on the direction and the platform:
  BoundaryCPU throws for one cell in y of a block that has several in z, as the single
  cell is less than two ghost widths; otherwise the exchange goes round the sides that
  the volume knows, and the others are never sent. `AllDirections`, a conjunct of
  `HaloInit`, asks for more than one cell in each of the directions 2 to `Dimension`; so
  do the theorems of `HaloCells_proofs`. `Block` itself follows `Volume`.
