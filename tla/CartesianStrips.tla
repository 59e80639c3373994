-------------------------- MODULE CartesianStrips --------------------------
(***************************************************************************)
(* The cells of a volume's memory that are sent and received over a side:   *)
(* on CPUs the segments of mpi/cartesian and the derived datatypes made of  *)
(* them, on GPUs the boxes that are copied to and from buffers.             *)
(*                                                                         *)
(* A volume has size[d] cells in direction d, ghost cells included, and     *)
(* cell <<x, y, z>> lies at index x + y nx + z nx ny.  A direction that is   *)
(* not active has a single cell and no ghost cells.                         *)
(***************************************************************************)
EXTENDS Integers, Sequences, GridSides

Volume == [dimensions : 1 .. 3, size : [Axes -> Nat \ {0}], ghosts : Nat]

\* The distance in memory between cells that are neighbours in direction d.
Stride(v, d) == CASE d = 1 -> 1
                  [] d = 2 -> v.size[1]
                  [] d = 3 -> v.size[1] * v.size[2]

\* computeNumberOfSegments: a strip is contiguous in all lower directions.
NumberOfSegments(v, side) ==
  CASE Direction(side) = 1 -> v.size[2] * v.size[3]
    [] Direction(side) = 2 -> v.size[3]
    [] Direction(side) = 3 -> 1

\* computeLengths: all segments of a side are equally long.
Length(v, side) == v.ghosts * Stride(v, Direction(side))

\* Fault: the offset of a send is not turned around at upper sides.
SameOffset(v, side, offset) ==
  LET d == Direction(side)
  IN  Stride(v, d) * (offset + (IF IsBottom(side) THEN 0 ELSE v.size[d] - v.ghosts))

\* computeDisplacements: the first segment is `offset` cells away from the
\* end of the volume, ...
FirstDisplacement(v, side, offset) ==
  LET d == Direction(side)
  IN  Stride(v, d) * (IF IsBottom(side) THEN offset ELSE v.size[d] - v.ghosts - offset)

\* ... and every other one a row or a layer behind the one before.
Displacements(v, side, offset) ==
  LET d == Direction(side)
      displacement[i \in 0 .. NumberOfSegments(v, side) - 1] ==
        IF i = 0 THEN FirstDisplacement(v, side, offset)
        ELSE displacement[i - 1] + Stride(v, d) * v.size[d]
  IN  displacement

\* MPI_Type_indexed: the elements of a datatype in their order.
Elements(v, side, offset) ==
  LET length        == Length(v, side)
      displacements == Displacements(v, side, offset)
  IN  [k \in 1 .. NumberOfSegments(v, side) * length |->
         displacements[(k - 1) \div length] + ((k - 1) % length)]

SendType(v, side)    == Elements(v, side, v.ghosts)
ReceiveType(v, side) == Elements(v, side, 0)

-----------------------------------------------------------------------------
(* The GPU exchanger copies boxes of cells between a volume and a buffer,   *)
(* which holds them row by row and layer by layer.                          *)

\* The cells from..to - 1 in the direction of the side, and the volume's whole
\* extent in the others.
Slab(v, side, from, to) ==
  LET d == Direction(side)
  IN  [start |-> [e \in Axes |-> IF e = d THEN from ELSE 0],
       end   |-> [e \in Axes |-> IF e = d THEN to ELSE v.size[e]]]

\* extractSides: the interior cells next to the ghost cells.
ExtractRegion(v, side) ==
  LET n == v.size[Direction(side)]
      g == v.ghosts
  IN  IF IsBottom(side) THEN Slab(v, side, g, 2 * g) ELSE Slab(v, side, n - 2 * g, n - g)

\* Fault: at upper sides the region of extractSides.
InsertNextTo(v, side) ==
  IF IsBottom(side) THEN Slab(v, side, 0, v.ghosts) ELSE ExtractRegion(v, side)

\* insertSides: the ghost cells.
InsertRegion(v, side) ==
  LET n == v.size[Direction(side)]
      g == v.ghosts
  IN  IF IsBottom(side) THEN Slab(v, side, 0, g) ELSE Slab(v, side, n - g, n)

\* makeBuffers: the number of cells of a side's buffer in each direction.
BufferExtent(v, side) == [d \in Axes |-> IF d = Direction(side) THEN v.ghosts ELSE v.size[d]]

BoxIndex(extent, c) == c[1] + c[2] * extent[1] + c[3] * extent[1] * extent[2]
BoxCell(extent, t)  == <<t % extent[1], (t \div extent[1]) % extent[2], (t \div extent[1]) \div extent[2]>>

\* The kernels: thread t copies the t-th cell of the region.  For each element
\* of the buffer, the cell that is copied to it or from it.
RegionCells(v, side, region) ==
  LET extent    == [d \in Axes |-> region.end[d] - region.start[d]]
      buffer    == BufferExtent(v, side)
      threads   == 0 .. extent[1] * extent[2] * extent[3] - 1
      Thread(k) == CHOOSE t \in threads : BoxIndex(buffer, BoxCell(extent, t)) = k - 1
      Place(c)  == [d \in Axes |-> region.start[d] + c[d]]
  IN  [k \in 1 .. buffer[1] * buffer[2] * buffer[3] |->
         BoxIndex(v.size, Place(BoxCell(extent, Thread(k))))]
=============================================================================
