----------------------------- MODULE CellLoops -----------------------------
(***************************************************************************)
(* How work is spread over the cells of a volume: the nested loops on CPUs, *)
(* and on GPUs the blocks of threads of a kernel, each of which finds its   *)
(* element, or its cell of a box, from its own numbers.  A volume of n cells*)
(* (with ghost cells) keeps cell c at the element Index(n, c); sizes are    *)
(* taken to fit into an int.                                                *)
(***************************************************************************)
EXTENDS Integers

Axes == 1 .. 3

\* Extents, starts, ends, numbers of ghost cells, positions of cells.
Triples == Int \X Int \X Int

Extents == {n \in Triples : \A d \in Axes : n[d] > 0}

Zero == <<0, 0, 0>>

Add(a, b)      == <<a[1] + b[1], a[2] + b[2], a[3] + b[3]>>
Subtract(a, b) == <<a[1] - b[1], a[2] - b[2], a[3] - b[3]>>

Size(n) == n[1] * n[2] * n[3]

Index(n, c) == c[1] + c[2] * n[1] + c[3] * n[1] * n[2]

Box(start, end) == {c \in Triples : \A d \in Axes : start[d] <= c[d] /\ c[d] < end[d]}

-----------------------------------------------------------------------------
(* The loops.                                                               *)

\* for_each_cell_index: transform_volume and for_each_cell go through it.
LoopCells(n, offsetStart, offsetEnd) == Box(offsetStart, Subtract(n, offsetEnd))

\* The cells that are not ghost cells, and the midpoint of each in the grid.
InnerCells(n, ghosts) == Box(ghosts, Subtract(n, ghosts))

MidpointIndex(gridSize, ghosts, c) == Index(gridSize, Subtract(c, ghosts))

make_direction_vector(axis) ==
  <<IF axis = 1 THEN 1 ELSE 0, IF axis = 2 THEN 1 ELSE 0, IF axis = 3 THEN 1 ELSE 0>>

\* for_each_internal_volume_index: layer cells are left out on both sides.
CellsAlong(n, axis, layer) ==
  {c \in Box(Zero, n) : layer <= c[axis] /\ c[axis] < n[axis] - layer}

LeftIndex(n, axis, c)  == Index(n, Subtract(c, make_direction_vector(axis)))
RightIndex(n, axis, c) == Index(n, Add(c, make_direction_vector(axis)))

\* The elements that the operators of HostMemory change, one after the other.
HostElements(size) == 0 .. size - 1

-----------------------------------------------------------------------------
(* The kernels.  A thread is the pair of its block and its number in it.    *)

ThreadCount == 1024

Threads(size) ==
  (0 .. ((size + ThreadCount - 1) \div ThreadCount) - 1) \X (0 .. ThreadCount - 1)

ThreadIndex(t) == t[2] + t[1] * ThreadCount

\* The threads that pass "index < size".
Working(size) == {t \in Threads(size) : ThreadIndex(t) < size}

\* makeKernelLaunchParameters and getCoordinates, for a box of m cells at start.
Rejects(i, m) ==
  \/ i % m[1] >= m[1]
  \/ (i \div m[1]) % m[2] >= m[2]
  \/ i \div (m[1] * m[2]) >= m[3]

getCoordinates(i, m, start) ==
  Add(<<i % m[1], (i \div m[1]) % m[2], i \div (m[1] * m[2])>>, start)

BoxThreads(start, end) ==
  LET m == Subtract(end, start)
  IN  {t \in Threads(Size(m)) : ~Rejects(ThreadIndex(t), m)}

CellOfThread(t, start, end) == getCoordinates(ThreadIndex(t), Subtract(end, start), start)

-----------------------------------------------------------------------------
(* Where CPU and GPU do not do the same.                                    *)

\* getTotalVariation: the element below a cell.
BelowOnHost(n, c)   == Index(n, <<c[1], IF n[2] > 1 THEN c[2] - 1 ELSE 0, c[3]>>)
BelowOnDevice(n, c) == Index(n, <<c[1], IF n[2] > 0 THEN c[2] - 1 ELSE 0, c[3]>>)

\* The cells whose differences are summed.
VariationStart(n, start) ==
  Add(start, <<1, IF n[2] > 1 THEN 1 ELSE 0, IF n[3] > 1 THEN 1 ELSE 0>>)

\* obeysConstraints: obeys[i] is the equation's own check of element i, and
\* finite[i] says that it has no inf or nan.
ObeysOnCpu(n, obeys, finite) ==
  \A c \in LoopCells(n, Zero, Zero) : obeys[Index(n, c)] /\ finite[Index(n, c)]

\* The static vector of results, from what an earlier call left in it.
Results(size, left, obeys) ==
  [i \in 0 .. size - 1 |->
     IF \E t \in Working(size) : ThreadIndex(t) = i
     THEN IF obeys[i] THEN 1 ELSE 0
     ELSE left[i]]

\* The results are reduced with the maximum.
ObeysOnCuda(size, left, obeys) ==
  \E i \in 0 .. size - 1 : Results(size, left, obeys)[i] > 0
=============================================================================
