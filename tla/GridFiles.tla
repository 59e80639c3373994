----------------------------- MODULE GridFiles -----------------------------
(***************************************************************************)
(* The file writers: where the cells of the ranks' blocks land in a file.   *)
(* A dataset has the dimensions x, y and z, of which the last one varies    *)
(* fastest in the file; a rank writes its block as a box of the dataset.    *)
(*                                                                         *)
(* The file holds, at each place, the number of the grid's cell whose value *)
(* is written there.                                                        *)
(***************************************************************************)
EXTENDS CartesianDecomposition

CONSTANT Writers   \* the writers of the configuration, a subset of FileWriters

\* NetCDFMPIWriter and HDF5MPIWriter write one file for all ranks of a
\* simulation, NetCDFWriter and HDF5Writer one for a single process.
FileWriters == {"NetCDFMPIWriter", "NetCDFWriter", "HDF5MPIWriter", "HDF5Writer"}
Parallel    == {"NetCDFMPIWriter", "HDF5MPIWriter"}

ASSUME WritersAssumption == Writers \subseteq FileWriters

VARIABLES
  writer, \* the writer of all ranks
  file,   \* the dataset, place by place
  wrote   \* wrote[r]: "no", "yes", or "edge" if the library has refused the box

fileVars == <<vars, writer, file, wrote>>

Unwritten == -1

Size(lengths) == lengths[1] * lengths[2] * lengths[3]

\* The grid's cell c has this number, if x varies fastest.
NumberOf(g, c) == c[1] + c[2] * g.cells[1] + c[3] * g.cells[1] * g.cells[2]

\* The dataset's lengths in x, y and z: those of the grid if the writer is told
\* the grid, or else those of the volume.
Lengths(w, g, block) == IF w = "NetCDFMPIWriter" THEN g.cells ELSE block

\* Place p of a dataset, z varying fastest.
PlaceInFile(lengths, p) == (p[1] * lengths[2] + p[2]) * lengths[3] + p[3]

\* Fault: the order is left as it is.
NotExchanged(block, t) == t

\* writeMemory: positions and sizes are turned around in the dimensions that
\* the block has.
InFileOrder(block, t) ==
  CASE ActiveDimension(block) = 1 -> t
    [] ActiveDimension(block) = 2 -> <<t[2], t[1], t[3]>>
    [] ActiveDimension(block) = 3 -> <<t[3], t[2], t[1]>>

\* The first place of a rank's box, and the box's lengths.
BoxStart(w, d) ==
  IF w = "NetCDFMPIWriter" THEN InFileOrder(d.cells, d.start) ELSE <<0, 0, 0>>
BoxCount(w, d) ==
  IF w = "NetCDFMPIWriter" THEN InFileOrder(d.cells, d.cells) ELSE d.cells

\* copyInternalCells: the k-th cell of a block, x varying fastest.
CellOfBlock(block, k) ==
  <<k % block[1], (k \div block[1]) % block[2], k \div (block[1] * block[2])>>

\* The k-th place of a box, z varying fastest.
PlaceInBox(count, k) ==
  <<k \div (count[2] * count[3]), (k \div count[3]) % count[2], k % count[3]>>

Sum3(s, t) == <<s[1] + t[1], s[2] + t[2], s[3] + t[3]>>

\* The places of the file: blocks have the same size on all ranks.
Places == 0 .. Size(Lengths(writer, grid, BlockSize(grid, procs))) - 1

FileInit ==
  /\ Init
  /\ writer \in Writers
  /\ writer \notin Parallel => procs = <<1, 1, 1>>
  /\ file = [place \in Places |-> Unwritten]
  /\ wrote = [r \in Ranks |-> "no"]

\* All ranks have their grid when the simulation begins.
WriteBlock(r) ==
  LET block    == domain[r].cells
      start    == BoxStart(writer, domain[r])
      count    == BoxCount(writer, domain[r])
      lengths  == Lengths(writer, grid, block)
      Inside   == \A d \in Axes : start[d] + count[d] <= lengths[d]
      Place(k) == PlaceInFile(lengths, Sum3(start, PlaceInBox(count, k)))
      Cell(k)  == NumberOf(grid, Sum3(domain[r].start, CellOfBlock(block, k)))
      Elements == 0 .. Size(block) - 1
  IN
  /\ \A q \in Ranks : domain[q].state = "done"
  /\ wrote[r] = "no"
  /\ wrote' = [wrote EXCEPT ![r] = IF Inside THEN "yes" ELSE "edge"]
  /\ file' = [place \in DOMAIN file |->
       IF Inside /\ \E k \in Elements : Place(k) = place
       THEN Cell(CHOOSE k \in Elements : Place(k) = place) ELSE file[place]]
  /\ UNCHANGED <<vars, writer>>

FileNext ==
  \/ Next /\ UNCHANGED <<writer, file, wrote>>
  \/ \E r \in Ranks : WriteBlock(r)

FileSpec == FileInit /\ [][FileNext]_fileVars

-----------------------------------------------------------------------------
(* Correctness.                                                             *)

\* Every box lies in the dataset, and when all ranks have written, the file
\* holds the cells of the whole grid in their order, x varying fastest, as the
\* writer for one process leaves them there (NetCDFMPIWriter.cpp:197,
\* NetCDFMPITest.cpp:82).
FileInOrder ==
  /\ \A r \in Ranks : wrote[r] # "edge"
  /\ (\A r \in Ranks : wrote[r] = "yes") =>
       \A cell \in 0 .. Size(grid.cells) - 1 : cell \in DOMAIN file /\ file[cell] = cell

\* The same where it does hold: for NetCDFMPIWriter, on grids whose first and
\* last lengths are equal and with blocks that keep the grid's dimensions
\* (NetCDFMPIWriter.cpp:198); for the others, whose boxes all begin at zero, on
\* every grid of one process (HDF5Writer.cpp:132).
EqualLengths ==
  LET d == ActiveDimension(grid.cells) IN grid.cells[1] = grid.cells[d]
SameDimension == ActiveDimension(BlockSize(grid, procs)) = ActiveDimension(grid.cells)
EqualGridsInOrder ==
  (IF writer = "NetCDFMPIWriter" THEN EqualLengths /\ SameDimension ELSE procs = <<1, 1, 1>>)
  => FileInOrder
=============================================================================
