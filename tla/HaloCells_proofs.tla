-------------------------- MODULE HaloCells_proofs --------------------------
(***************************************************************************)
(* What is received over a side fills the ghost cells of that side, in the  *)
(* order in which the neighbour sends it, and after boundary conditions and *)
(* exchange each ghost cell holds the cell of the grid that lies there: for *)
(* every grid, every split whose blocks keep all directions of the grid      *)
(* (AllDirections), every number of ghost cells that no block is too narrow *)
(* for, on CPU and on GPU.  So the values that a structure function compares *)
(* are those of the cells it means.                                         *)
(***************************************************************************)
EXTENDS StructureFunctions, CartesianDecomposition_proofs, SequenceTheorems, WellFoundedInduction

(* Positions in a block of l by m by n and their indices.  The terms are    *)
(* given names, which the provers then leave alone.                         *)

IndexIn(l, m, x, y, z) == x + y * l + z * l * m
Volume3(l, m, n)       == l * m * n
ColumnOf(l, i)         == i % l
RowOf(l, m, i)         == (i \div l) % m
LayerAt(l, m, i)       == i \div (l * m)

LEMMA IndexInside ==
  ASSUME NEW l \in Nat, NEW m \in Nat, NEW n \in Nat,
         NEW x \in 0 .. l - 1, NEW y \in 0 .. m - 1, NEW z \in 0 .. n - 1
  PROVE  IndexIn(l, m, x, y, z) \in 0 .. Volume3(l, m, n) - 1
  <1>1. x + y * l + z * l * m \in 0 .. l * m * n - 1
    <2>1. /\ l \in Nat /\ m \in Nat /\ n \in Nat
          /\ x \in 0 .. l - 1 /\ y \in 0 .. m - 1 /\ z \in 0 .. n - 1
      OBVIOUS
    <2> QED
      BY <2>1, Compose
  <1> QED
    BY <1>1, Zenon DEF IndexIn, Volume3

LEMMA PositionOfIndex ==
  ASSUME NEW l \in Nat, NEW m \in Nat,
         NEW x \in 0 .. l - 1, NEW y \in 0 .. m - 1, NEW z \in Nat
  PROVE  /\ ColumnOf(l, IndexIn(l, m, x, y, z)) = x
         /\ RowOf(l, m, IndexIn(l, m, x, y, z)) = y
         /\ LayerAt(l, m, IndexIn(l, m, x, y, z)) = z
  <1>1. /\ l \in Nat /\ m \in Nat /\ z \in Nat
        /\ x \in 0 .. l - 1 /\ y \in 0 .. m - 1
        /\ x \in Nat /\ y \in Nat /\ l > 0 /\ m > 0
    OBVIOUS
  <1>2. PICK yz \in Nat : yz = y + z * m
    BY <1>1, TwoLayers
  <1>3. PICK lm \in Nat : lm = l * m
    BY <1>1, TwoLayers
  <1>4. PICK xy \in Nat : xy = x + y * l
    BY <1>1, TwoLayers
  <1>5. x + y * l + z * l * m = x + yz * l
    BY <1>2, Z3
  <1>6. x + y * l + z * l * m = xy + z * lm
    BY <1>3, <1>4, Z3
  <1>7. (x + yz * l) % l = x /\ (x + yz * l) \div l = yz
    BY <1>1, DivModUnique
  <1>8. (y + z * m) % m = y
    BY <1>1, DivModUnique
  <1>9. (xy + z * lm) \div lm = z
    <2>1. xy < lm
      BY <1>1, <1>3, <1>4, LayersBelow
    <2>2. xy \in 0 .. lm - 1
      BY <2>1
    <2> QED
      BY <2>2, DivModUnique
  <1>10. ColumnOf(l, IndexIn(l, m, x, y, z)) = x
    BY <1>5, <1>7, Zenon DEF ColumnOf, IndexIn
  <1>11. RowOf(l, m, IndexIn(l, m, x, y, z)) = y
    BY <1>2, <1>5, <1>7, <1>8, Zenon DEF RowOf, IndexIn
  <1>12. LayerAt(l, m, IndexIn(l, m, x, y, z)) = z
    BY <1>3, <1>6, <1>9, Zenon DEF LayerAt, IndexIn
  <1> QED
    BY <1>10, <1>11, <1>12

LEMMA IndexOfParts ==
  ASSUME NEW l \in Nat, NEW m \in Nat, NEW n \in Nat, l > 0, m > 0, n > 0,
         NEW i \in 0 .. Volume3(l, m, n) - 1
  PROVE  /\ ColumnOf(l, i) \in 0 .. l - 1
         /\ RowOf(l, m, i) \in 0 .. m - 1
         /\ LayerAt(l, m, i) \in 0 .. n - 1
         /\ i = IndexIn(l, m, ColumnOf(l, i), RowOf(l, m, i), LayerAt(l, m, i))
  <1>1. PICK e \in Nat : e = l * m * n
    BY Z3
  <1>2. i \in Nat /\ i < e
    <2>1. i \in 0 .. e - 1
      BY <1>1, Zenon DEF Volume3
    <2> QED
      BY <2>1
  <1>3. i < l * m * n
    BY <1>1, <1>2, Zenon
  <1>4. /\ i % l \in 0 .. l - 1 /\ (i \div l) % m \in 0 .. m - 1 /\ i \div (l * m) \in 0 .. n - 1
        /\ i = (i % l) + ((i \div l) % m) * l + (i \div (l * m)) * l * m
    BY <1>2, <1>3, Split
  <1> QED
    BY <1>4, Zenon DEF ColumnOf, RowOf, LayerAt, IndexIn

\* A set of natural numbers with 0 and with the successors of its elements has them all.
LEMMA AllNumbers ==
  ASSUME NEW S, 0 \in S, \A n \in Nat : n \in S => n + 1 \in S
  PROVE  \A n \in Nat : n \in S
  <1> SUFFICES ASSUME Nat \ S # {} PROVE FALSE
    OBVIOUS
  <1>1. PICK x \in Nat \ S : \A y \in Nat \ S : ~(<<y, x>> \in OpToRel(<, Nat))
    <2>1. Nat \ S \subseteq Nat
      OBVIOUS
    <2> QED
      BY <2>1, NatLessThanWellFounded, WFMin
  <1>2. x \in Nat /\ x # 0
    OBVIOUS
  <1>3. x - 1 \in Nat /\ x - 1 < x /\ (x - 1) + 1 = x
    BY <1>2
  <1>4. x - 1 \notin S
    BY <1>3
  <1>5. <<x - 1, x>> \in OpToRel(<, Nat)
    BY <1>2, <1>3, Zenon DEF OpToRel
  <1> QED
    BY <1>1, <1>3, <1>4, <1>5, Zenon

-----------------------------------------------------------------------------
(* Strips.                                                                  *)

Layers(v, side) == v.size[Direction(side)]

\* The numbers of a volume in the direction of a side: cells before the next
\* one in that direction, cells in that direction, and rows or layers of them.
LEMMA StripNumbers ==
  ASSUME NEW v \in Volume, NEW side \in 0 .. 5
  PROVE  /\ Stride(v, Direction(side)) \in Nat /\ Stride(v, Direction(side)) > 0
         /\ Layers(v, side) \in Nat /\ Layers(v, side) > 0
         /\ NumberOfSegments(v, side) \in Nat /\ NumberOfSegments(v, side) > 0
         /\ v.ghosts \in Nat
         /\ Direction(side) \in Axes
  <1>1. PICK a \in Nat, b \in Nat, c \in Nat :
          a = v.size[1] /\ b = v.size[2] /\ c = v.size[3] /\ a > 0 /\ b > 0 /\ c > 0
    BY DEF Volume, Axes
  <1>2. a * b \in Nat /\ a * b > 0 /\ b * c \in Nat /\ b * c > 0
    BY <1>1, ProductPositive
  <1>3. Direction(side) \in {1, 2, 3}
    BY DEF Direction
  <1>4. Stride(v, Direction(side)) \in {1, a, a * b}
    BY <1>1, <1>3 DEF Stride
  <1>5. NumberOfSegments(v, side) \in {1, c, b * c}
    BY <1>1, <1>3 DEF NumberOfSegments
  <1>6. Layers(v, side) \in {a, b, c}
    BY <1>1, <1>3 DEF Layers
  <1> QED
    BY <1>1, <1>2, <1>3, <1>4, <1>5, <1>6 DEF Axes, Volume

\* The segments of a datatype lie a row or layer apart.
LEMMA DisplacementOfSegment ==
  ASSUME NEW v \in Volume, NEW side \in 0 .. 5, NEW offset \in Nat,
         NEW i \in 0 .. NumberOfSegments(v, side) - 1
  PROVE  Displacements(v, side, offset)[i]
           = FirstDisplacement(v, side, offset)
             + i * (Stride(v, Direction(side)) * Layers(v, side))
  <1>1. PICK N \in Nat : N = NumberOfSegments(v, side)
    BY StripNumbers
  <1>2. PICK f \in Int : f = FirstDisplacement(v, side, offset)
    <2>1. PICK s \in Nat, n \in Nat, w \in Nat :
            s = Stride(v, Direction(side)) /\ n = Layers(v, side) /\ w = v.ghosts
      BY StripNumbers
    <2>2. s * offset \in Int /\ s * (n - w - offset) \in Int
      BY Z3
    <2> QED
      BY <2>1, <2>2 DEF FirstDisplacement, Layers
  <1>3. PICK p \in Nat : p = Stride(v, Direction(side)) * Layers(v, side)
    BY StripNumbers, ProductPositive
  <1> DEFINE Next0(g, j) == IF j = 0 THEN f ELSE g[j - 1] + p
             closed == [j \in 0 .. N - 1 |-> f + j * p]
             D == Displacements(v, side, offset)
  <1>4. closed = [j \in 0 .. N - 1 |-> Next0(closed, j)]
    <2>1. ASSUME NEW j \in 0 .. N - 1
          PROVE  f + j * p = Next0(closed, j)
      <3>1. CASE j = 0
        <4>1. 0 * p = 0
          BY Z3
        <4> QED
          BY <3>1, <4>1
      <3>2. CASE j # 0
        <4>1. j - 1 \in 0 .. N - 1
          BY <3>2
        <4>2. f + j * p = (f + (j - 1) * p) + p
          BY Z3
        <4> QED
          BY <3>2, <4>1, <4>2, Zenon
      <3> QED
        BY <3>1, <3>2
    <2> QED
      BY <2>1, Zenon
  <1>5. D = [j \in 0 .. N - 1 |-> Next0(D, j)]
    <2>1. D = CHOOSE g : g = [j \in 0 .. N - 1 |-> Next0(g, j)]
      BY <1>1, <1>2, <1>3, Zenon DEF Displacements, Layers
    <2> QED
      BY <1>4, <2>1, Zenon
  <1> DEFINE S == {j \in Nat : j < N => D[j] = f + j * p}
  <1>6. 0 \in S
    <2>1. 0 * p = 0
      BY Z3
    <2>2. 0 < N => D[0] = f
      BY <1>5
    <2> QED
      BY <2>1, <2>2
  <1>7. ASSUME NEW j \in Nat, j \in S
        PROVE  j + 1 \in S
    <2> SUFFICES ASSUME j + 1 < N PROVE D[j + 1] = f + (j + 1) * p
      OBVIOUS
    <2>1. D[j] = f + j * p
      BY <1>7
    <2>2. j + 1 \in 0 .. N - 1 /\ j + 1 # 0 /\ (j + 1) - 1 = j
      BY <1>1
    <2>3. D[j + 1] = D[j] + p
      BY <1>5, <2>2
    <2>4. (f + j * p) + p = f + (j + 1) * p
      BY Z3
    <2> QED
      BY <2>1, <2>3, <2>4, Zenon
  <1> HIDE DEF S
  <1>8. \A j \in Nat : j \in S
    BY <1>6, <1>7, AllNumbers
  <1>9. i \in Nat /\ i < N
    BY <1>1
  <1>10. D[i] = f + i * p
    BY <1>8, <1>9 DEF S
  <1> QED
    BY <1>2, <1>3, <1>10, Zenon DEF D

\* The ghosts cells' worth of planes from the plane first on, row by row and layer
\* by layer.
StripCell(v, side, first, i) ==
  LET s == Stride(v, Direction(side))
  IN  IndexIn(s, Layers(v, side), ColumnOf(s, i), first + RowOf(s, v.ghosts, i), LayerAt(s, v.ghosts, i))
StripSize(v, side) ==
  Volume3(Stride(v, Direction(side)), v.ghosts, NumberOfSegments(v, side))
Strip(v, side, first) == [k \in 1 .. StripSize(v, side) |-> StripCell(v, side, first, k - 1)]

\* MPI's datatypes are such strips, ...
LEMMA ElementsAreStrip ==
  ASSUME NEW v \in Volume, NEW side \in 0 .. 5, NEW offset \in Nat
  PROVE  Elements(v, side, offset)
           = Strip(v, side, IF IsBottom(side) THEN offset ELSE Layers(v, side) - v.ghosts - offset)
  <1>1. PICK s \in Nat, n \in Nat, N \in Nat, w \in Nat :
          /\ s = Stride(v, Direction(side)) /\ n = Layers(v, side)
          /\ N = NumberOfSegments(v, side) /\ w = v.ghosts
          /\ s > 0 /\ n > 0 /\ N > 0
    BY StripNumbers
  <1>2. PICK first \in Int :
          first = IF IsBottom(side) THEN offset ELSE Layers(v, side) - v.ghosts - offset
    BY <1>1
  <1>3. PICK D : D = Displacements(v, side, offset)
    OBVIOUS
  <1>4. PICK len \in Nat : len = w * s
    BY Z3
  <1>5. Elements(v, side, offset)
          = [k \in 1 .. N * len |-> D[(k - 1) \div len] + ((k - 1) % len)]
    BY <1>1, <1>3, <1>4, Zenon DEF Elements, Length
  <1>6. PICK e \in Nat : e = StripSize(v, side) /\ e = Volume3(s, w, N) /\ e = N * len
    <2>1. s * w * N = N * (w * s) /\ s * w * N \in Nat
      BY Z3
    <2> QED
      BY <1>1, <1>4, <2>1, Zenon DEF StripSize, Volume3
  <1>7. ASSUME NEW k \in 1 .. e
        PROVE  D[(k - 1) \div len] + ((k - 1) % len) = StripCell(v, side, first, k - 1)
    <2>1. PICK i : i = k - 1 /\ i \in 0 .. e - 1 /\ i \in Nat
      BY <1>6
    <2>2. w > 0
      <3>1. w = 0 => N * len = 0
        BY <1>4, Z3
      <3> QED
        BY <1>6, <2>1, <3>1
    <2>3. PICK lo \in 0 .. s - 1, y \in 0 .. w - 1, q \in 0 .. N - 1 :
            /\ lo = ColumnOf(s, i) /\ y = RowOf(s, w, i) /\ q = LayerAt(s, w, i)
            /\ i = IndexIn(s, w, lo, y, q)
      <3>1. i \in 0 .. Volume3(s, w, N) - 1
        BY <1>6, <2>1
      <3>2. /\ ColumnOf(s, i) \in 0 .. s - 1 /\ RowOf(s, w, i) \in 0 .. w - 1
            /\ LayerAt(s, w, i) \in 0 .. N - 1
            /\ i = IndexIn(s, w, ColumnOf(s, i), RowOf(s, w, i), LayerAt(s, w, i))
        BY <1>1, <2>2, <3>1, IndexOfParts
      <3> QED
        BY <3>2, Zenon
    <2>4. lo \in Nat /\ y \in Nat /\ q \in Nat /\ lo < s /\ y < w
      BY <2>3
    <2>5. PICK xy \in Nat : xy = lo + y * s /\ xy \in 0 .. len - 1
      <3>1. lo + y * s < s * w /\ lo + y * s \in Nat
        BY <1>1, <2>4, LayersBelow, TwoLayers
      <3>2. s * w = w * s
        BY Z3
      <3>3. lo + y * s < len
        BY <1>4, <3>1, <3>2
      <3>4. lo + y * s \in 0 .. len - 1
        BY <1>4, <3>1, <3>3
      <3> QED
        BY <3>1, <3>4
    <2>6. i = xy + q * len
      <3>1. lo + y * s + q * s * w = (lo + y * s) + q * (w * s)
        BY Z3
      <3> QED
        BY <1>4, <2>3, <2>5, <3>1, Zenon DEF IndexIn
    <2>7. i \div len = q /\ i % len = xy
      <3>1. len \in Nat /\ len > 0 /\ q \in Nat
        BY <2>4, <2>5
      <3>2. (xy + q * len) % len = xy /\ (xy + q * len) \div len = q
        BY <2>5, <3>1, DivModUnique
      <3> QED
        BY <2>6, <3>2, Zenon
    <2>8. D[q] = FirstDisplacement(v, side, offset) + q * (s * n)
      <3>1. q \in 0 .. NumberOfSegments(v, side) - 1
        BY <1>1
      <3>2. Displacements(v, side, offset)[q]
              = FirstDisplacement(v, side, offset) + q * (Stride(v, Direction(side)) * Layers(v, side))
        BY <3>1, DisplacementOfSegment
      <3> QED
        BY <1>1, <1>3, <3>2, Zenon
    <2>9. FirstDisplacement(v, side, offset) = s * first
      BY <1>1, <1>2 DEF FirstDisplacement, Layers
    <2>10. (s * first + q * (s * n)) + (lo + y * s) = lo + (first + y) * s + q * s * n
      BY Z3
    <2>11. StripCell(v, side, first, i) = lo + (first + y) * s + q * s * n
      BY <1>1, <2>3, Zenon DEF StripCell, IndexIn
    <2> QED
      BY <2>1, <2>5, <2>7, <2>8, <2>9, <2>10, <2>11, Zenon
  <1> QED
    BY <1>2, <1>5, <1>6, <1>7, Zenon DEF Strip

\* ... thread t of a kernel copies the t-th cell of its region, ...
LEMMA BoxCellOfThread ==
  ASSUME NEW extent, NEW a \in Nat, NEW b \in Nat, NEW c \in Nat, a > 0, b > 0, c > 0,
         extent[1] = a, extent[2] = b, extent[3] = c,
         NEW t \in 0 .. Volume3(a, b, c) - 1
  PROVE  /\ BoxCell(extent, t) = <<ColumnOf(a, t), RowOf(a, b, t), LayerAt(a, b, t)>>
         /\ BoxIndex(extent, BoxCell(extent, t)) = t
  <1>1. /\ ColumnOf(a, t) \in 0 .. a - 1 /\ RowOf(a, b, t) \in 0 .. b - 1
        /\ LayerAt(a, b, t) \in 0 .. c - 1
        /\ t = IndexIn(a, b, ColumnOf(a, t), RowOf(a, b, t), LayerAt(a, b, t))
    BY IndexOfParts
  <1>2. PICK x \in Nat, y \in Nat, z \in Nat :
          x = ColumnOf(a, t) /\ y = RowOf(a, b, t) /\ z = LayerAt(a, b, t) /\ x < a /\ y < b
    BY <1>1
  <1>3. t = IndexIn(a, b, x, y, z)
    BY <1>1, <1>2, Zenon
  <1>4. PICK yz \in Nat : yz = y + z * b
    BY TwoLayers
  <1>5. (t \div a) \div b = z
    <2>1. x + y * a + z * a * b = x + yz * a
      BY <1>4, Z3
    <2>2. x \in 0 .. a - 1 /\ y \in 0 .. b - 1
      BY <1>2
    <2>3. (x + yz * a) \div a = yz
      BY <2>2, DivModUnique
    <2>4. (y + z * b) \div b = z
      BY <2>2, DivModUnique
    <2> QED
      BY <1>3, <1>4, <2>1, <2>3, <2>4, Zenon DEF IndexIn
  <1>6. BoxCell(extent, t) = <<x, y, z>>
    BY <1>2, <1>5, Zenon DEF BoxCell, ColumnOf, RowOf
  <1>7. BoxIndex(extent, <<x, y, z>>) = x + y * a + z * a * b
    BY DEF BoxIndex
  <1> QED
    BY <1>2, <1>3, <1>6, <1>7, Zenon DEF IndexIn

\* ... and its region is a strip as well.
LEMMA RegionIsStrip ==
  ASSUME NEW v \in Volume, NEW side \in 0 .. 5, NEW from \in Nat, NEW to, to = from + v.ghosts
  PROVE  RegionCells(v, side, Slab(v, side, from, to)) = Strip(v, side, from)
  <1>1. PICK a \in Nat, b \in Nat, c \in Nat, w \in Nat :
          /\ a = v.size[1] /\ b = v.size[2] /\ c = v.size[3] /\ w = v.ghosts
          /\ a > 0 /\ b > 0 /\ c > 0
    BY DEF Volume, Axes
  <1>2. PICK d \in {1, 2, 3} : d = Direction(side)
    BY DEF Direction
  <1> DEFINE buffer == BufferExtent(v, side)
             region == Slab(v, side, from, to)
             extent == [e \in Axes |-> region.end[e] - region.start[e]]
             threads == 0 .. extent[1] * extent[2] * extent[3] - 1
             Thread(k) == CHOOSE t \in threads : BoxIndex(buffer, BoxCell(extent, t)) = k - 1
             Place(c0) == [d0 \in Axes |-> region.start[d0] + c0[d0]]
  <1>3. RegionCells(v, side, region)
           = [k \in 1 .. buffer[1] * buffer[2] * buffer[3] |->
                BoxIndex(v.size, Place(BoxCell(extent, Thread(k))))]
    BY Zenon DEF RegionCells
  <1>4. /\ buffer[1] = (IF d = 1 THEN w ELSE a)
        /\ buffer[2] = (IF d = 2 THEN w ELSE b)
        /\ buffer[3] = (IF d = 3 THEN w ELSE c)
    BY <1>1, <1>2 DEF BufferExtent, Axes
  <1>6. /\ region.start[1] = (IF d = 1 THEN from ELSE 0)
        /\ region.start[2] = (IF d = 2 THEN from ELSE 0)
        /\ region.start[3] = (IF d = 3 THEN from ELSE 0)
    BY <1>1, <1>2 DEF Slab, Axes
  <1>7. extent[1] = buffer[1] /\ extent[2] = buffer[2] /\ extent[3] = buffer[3]
    BY <1>1, <1>2 DEF Slab, BufferExtent, Axes
  <1>8. PICK l \in Nat, m \in Nat, n \in Nat : l = buffer[1] /\ m = buffer[2] /\ n = buffer[3]
    BY <1>1, <1>4
  <1>9. PICK e \in Nat : e = Volume3(l, m, n) /\ e = buffer[1] * buffer[2] * buffer[3]
    <2>1. l * m * n \in Nat
      BY Z3
    <2> QED
      BY <1>8, <2>1, Zenon DEF Volume3
  <1>10. threads = 0 .. e - 1 /\ \A x : Place(x) = [d0 \in Axes |-> region.start[d0] + x[d0]]
    BY <1>7, <1>9, Zenon
  <1> HIDE DEF extent, buffer, region, threads, Place
  <1>11. ASSUME NEW k \in 1 .. e
         PROVE  BoxIndex(v.size, Place(BoxCell(extent, Thread(k)))) = StripCell(v, side, from, k - 1)
    <2>1. PICK i : i = k - 1 /\ i \in 0 .. e - 1 /\ i \in Nat
      BY <1>9
    <2>2. l > 0 /\ m > 0 /\ n > 0
      <3>1. (l = 0 \/ m = 0 \/ n = 0) => l * m * n = 0
        BY Z3
      <3>2. e = l * m * n
        BY <1>9, Zenon DEF Volume3
      <3>3. e # 0
        BY <2>1
      <3> QED
        BY <3>1, <3>2, <3>3
    <2>3. \A t \in threads :
            /\ BoxCell(extent, t) = <<ColumnOf(l, t), RowOf(l, m, t), LayerAt(l, m, t)>>
            /\ BoxIndex(buffer, BoxCell(extent, t)) = t
      <3> SUFFICES ASSUME NEW t \in threads
                   PROVE  /\ BoxCell(extent, t) = <<ColumnOf(l, t), RowOf(l, m, t), LayerAt(l, m, t)>>
                          /\ BoxIndex(buffer, BoxCell(extent, t)) = t
        OBVIOUS
      <3>1. t \in 0 .. Volume3(l, m, n) - 1
        BY <1>9, <1>10, Zenon
      <3>2. extent[1] = l /\ extent[2] = m /\ extent[3] = n
        BY <1>7, <1>8
      <3>3. /\ BoxCell(extent, t) = <<ColumnOf(l, t), RowOf(l, m, t), LayerAt(l, m, t)>>
            /\ BoxIndex(extent, BoxCell(extent, t)) = t
        BY <2>2, <3>1, <3>2, BoxCellOfThread
      <3>4. BoxIndex(buffer, BoxCell(extent, t)) = BoxIndex(extent, BoxCell(extent, t))
        BY <1>7, Zenon DEF BoxIndex
      <3> QED
        BY <3>3, <3>4
    <2>4. Thread(k) = i
      <3>1. i \in threads /\ \A t \in threads : BoxIndex(buffer, BoxCell(extent, t)) = i <=> t = i
        BY <1>10, <2>1, <2>3
      <3> QED
        BY <2>1, <3>1, Zenon
    <2>5. /\ ColumnOf(l, i) \in 0 .. l - 1 /\ RowOf(l, m, i) \in 0 .. m - 1
          /\ LayerAt(l, m, i) \in 0 .. n - 1
          /\ i = IndexIn(l, m, ColumnOf(l, i), RowOf(l, m, i), LayerAt(l, m, i))
      <3>1. i \in 0 .. Volume3(l, m, n) - 1
        BY <1>9, <2>1, Zenon
      <3> QED
        BY <2>2, <3>1, IndexOfParts
    <2>6. PICK x \in Nat, y \in Nat, z \in Nat :
            /\ x = ColumnOf(l, i) /\ y = RowOf(l, m, i) /\ z = LayerAt(l, m, i)
            /\ x < l /\ y < m /\ z < n
      BY <2>5
    <2>7. i = IndexIn(l, m, x, y, z) /\ BoxCell(extent, i) = <<x, y, z>>
      <3>1. i \in threads
        BY <1>10, <2>1
      <3> QED
        BY <2>3, <2>5, <2>6, <3>1, Zenon
    <2>8. BoxIndex(v.size, Place(<<x, y, z>>))
            = (region.start[1] + x) + (region.start[2] + y) * a + (region.start[3] + z) * a * b
      BY <1>1, <1>10 DEF BoxIndex, Axes
    <2>9. (region.start[1] + x) + (region.start[2] + y) * a + (region.start[3] + z) * a * b
            = StripCell(v, side, from, i)
      <3>1. CASE d = 1
        <4>1. l = w /\ m = b /\ n = c
          BY <1>4, <1>8, <3>1
        <4>2. PICK yz \in Nat : yz = y + z * b
          BY TwoLayers
        <4>3. i = IndexIn(1, w, 0, x, yz)
          <5>1. x + y * w + z * w * b = 0 + x * 1 + yz * 1 * w
            BY <4>2, Z3
          <5> QED
            BY <2>7, <4>1, <5>1, Zenon DEF IndexIn
        <4>4. ColumnOf(1, i) = 0 /\ RowOf(1, w, i) = x /\ LayerAt(1, w, i) = yz
          <5>1. 1 \in Nat /\ 0 \in 0 .. 1 - 1 /\ x \in 0 .. w - 1
            BY <2>6, <4>1
          <5> QED
            BY <4>3, <5>1, PositionOfIndex
        <4>5. Stride(v, Direction(side)) = 1 /\ Layers(v, side) = a
          BY <1>1, <1>2, <3>1 DEF Stride, Layers
        <4>6. StripCell(v, side, from, i) = 0 + (from + x) * 1 + yz * 1 * a
          BY <1>1, <4>4, <4>5, Zenon DEF StripCell, IndexIn
        <4>7. region.start[1] = from /\ region.start[2] = 0 /\ region.start[3] = 0
          BY <1>6, <3>1
        <4>8. (from + x) + (0 + y) * a + (0 + z) * a * b = 0 + (from + x) * 1 + yz * 1 * a
          BY <4>2, Z3
        <4> QED
          BY <4>6, <4>7, <4>8, Zenon
      <3>2. CASE d = 2
        <4>1. l = a /\ m = w /\ n = c
          BY <1>4, <1>8, <3>2
        <4>2. Stride(v, Direction(side)) = a /\ Layers(v, side) = b
          BY <1>1, <1>2, <3>2 DEF Stride, Layers
        <4>3. StripCell(v, side, from, i) = x + (from + y) * a + z * a * b
          BY <1>1, <2>6, <4>1, <4>2, Zenon DEF StripCell, IndexIn
        <4>4. region.start[1] = 0 /\ region.start[2] = from /\ region.start[3] = 0
          BY <1>6, <3>2
        <4>5. 0 + x = x /\ 0 + z = z
          OBVIOUS
        <4> QED
          BY <4>3, <4>4, <4>5, Zenon
      <3>3. CASE d = 3
        <4>1. l = a /\ m = b /\ n = w
          BY <1>4, <1>8, <3>3
        <4>2. PICK xy \in Nat, ab \in Nat : xy = x + y * a /\ ab = a * b
          BY TwoLayers
        <4>3. i = IndexIn(ab, w, xy, z, 0)
          <5>1. x + y * a + z * a * b = xy + z * ab + 0 * ab * w
            BY <4>2, Z3
          <5> QED
            BY <2>7, <4>1, <5>1, Zenon DEF IndexIn
        <4>4. ColumnOf(ab, i) = xy /\ RowOf(ab, w, i) = z /\ LayerAt(ab, w, i) = 0
          <5>1. xy < ab
            BY <2>6, <4>1, <4>2, LayersBelow
          <5>2. xy \in 0 .. ab - 1 /\ z \in 0 .. w - 1 /\ 0 \in Nat
            BY <2>6, <4>1, <5>1
          <5> QED
            BY <4>3, <5>2, PositionOfIndex
        <4>5. Stride(v, Direction(side)) = ab /\ Layers(v, side) = c
          BY <1>1, <1>2, <3>3, <4>2 DEF Stride, Layers
        <4>6. StripCell(v, side, from, i) = xy + (from + z) * ab + 0 * ab * c
          BY <1>1, <4>4, <4>5, Zenon DEF StripCell, IndexIn
        <4>7. region.start[1] = 0 /\ region.start[2] = 0 /\ region.start[3] = from
          BY <1>6, <3>3
        <4>8. (0 + x) + (0 + y) * a + (from + z) * a * b = xy + (from + z) * ab + 0 * ab * c
          BY <4>2, Z3
        <4> QED
          BY <4>6, <4>7, <4>8, Zenon
      <3> QED
        BY <3>1, <3>2, <3>3
    <2> QED
      BY <2>1, <2>4, <2>7, <2>8, <2>9, Zenon
  <1>12. e = StripSize(v, side)
    <2>1. CASE d = 1
      <3>1. l = w /\ m = b /\ n = c
        BY <1>4, <1>8, <2>1
      <3>2. Stride(v, Direction(side)) = 1 /\ NumberOfSegments(v, side) = b * c
        BY <1>1, <1>2, <2>1 DEF Stride, NumberOfSegments
      <3>3. w * b * c = 1 * w * (b * c)
        BY Z3
      <3> QED
        BY <1>1, <1>9, <3>1, <3>2, <3>3, Zenon DEF StripSize, Volume3
    <2>2. CASE d = 2
      <3>1. l = a /\ m = w /\ n = c
        BY <1>4, <1>8, <2>2
      <3>2. Stride(v, Direction(side)) = a /\ NumberOfSegments(v, side) = c
        BY <1>1, <1>2, <2>2 DEF Stride, NumberOfSegments
      <3> QED
        BY <1>1, <1>9, <3>1, <3>2, Zenon DEF StripSize, Volume3
    <2>3. CASE d = 3
      <3>1. l = a /\ m = b /\ n = w
        BY <1>4, <1>8, <2>3
      <3>2. Stride(v, Direction(side)) = a * b /\ NumberOfSegments(v, side) = 1
        BY <1>1, <1>2, <2>3 DEF Stride, NumberOfSegments
      <3>3. a * b * w = (a * b) * w * 1
        BY Z3
      <3> QED
        BY <1>1, <1>9, <3>1, <3>2, <3>3, Zenon DEF StripSize, Volume3
    <2> QED
      BY <2>1, <2>2, <2>3
  <1> HIDE DEF Thread
  <1>13. RegionCells(v, side, region)
           = [k \in 1 .. e |-> BoxIndex(v.size, Place(BoxCell(extent, Thread(k))))]
    BY <1>3, <1>9, Zenon
  <1> QED
    BY <1>11, <1>12, <1>13, Zenon DEF Strip, region

\* The plane of a cell in the direction of a side.
CellsOf(v) == 0 .. v.size[1] * v.size[2] * v.size[3] - 1
Plane(v, side, i) == RowOf(Stride(v, Direction(side)), Layers(v, side), i)

LEMMA PlaneOfCell ==
  ASSUME NEW v \in Volume, NEW side \in 0 .. 5
  PROVE  /\ CellsOf(v) = 0 .. Volume3(Stride(v, Direction(side)), Layers(v, side),
                                       NumberOfSegments(v, side)) - 1
         /\ \A i \in CellsOf(v) : Cell(v, i)[Direction(side)] = Plane(v, side, i)
  <1>1. PICK a \in Nat, b \in Nat, c \in Nat :
          a = v.size[1] /\ b = v.size[2] /\ c = v.size[3] /\ a > 0 /\ b > 0 /\ c > 0
    BY DEF Volume, Axes
  <1>2. PICK d \in {1, 2, 3} : d = Direction(side)
    BY DEF Direction
  <1>3. CellsOf(v) = 0 .. Volume3(a, b, c) - 1
    BY <1>1, Zenon DEF CellsOf, Volume3
  <1>4. ASSUME NEW i \in CellsOf(v)
        PROVE  /\ i \in Nat
               /\ Cell(v, i) = <<ColumnOf(a, i), RowOf(a, b, i), LayerAt(a, b, i)>>
               /\ ColumnOf(a, i) \in 0 .. a - 1 /\ RowOf(a, b, i) \in 0 .. b - 1
               /\ LayerAt(a, b, i) \in 0 .. c - 1
               /\ i = IndexIn(a, b, ColumnOf(a, i), RowOf(a, b, i), LayerAt(a, b, i))
    <2>1. i \in 0 .. Volume3(a, b, c) - 1
      BY <1>3
    <2>2. i \in Nat
      <3>1. PICK e : e = Volume3(a, b, c)
        OBVIOUS
      <3>2. i \in 0 .. e - 1
        BY <2>1, <3>1
      <3>3. e \in Int
        <4>1. a * b * c \in Int
          BY Z3
        <4> QED
          BY <3>1, <4>1, Zenon DEF Volume3
      <3> QED
        BY <3>2, <3>3
    <2>3. Cell(v, i) = <<ColumnOf(a, i), RowOf(a, b, i), LayerAt(a, b, i)>>
      BY <1>1, Zenon DEF Cell, ColumnOf, RowOf, LayerAt
    <2> QED
      BY <1>1, <2>1, <2>2, <2>3, IndexOfParts
  <1>5. CASE d = 1
    <2>1. Stride(v, Direction(side)) = 1 /\ Layers(v, side) = a /\ NumberOfSegments(v, side) = b * c
      BY <1>1, <1>2, <1>5 DEF Stride, Layers, NumberOfSegments
    <2>2. a * b * c = 1 * a * (b * c)
      BY Z3
    <2>3. ASSUME NEW i \in CellsOf(v)
          PROVE  Cell(v, i)[1] = RowOf(1, a, i)
      <3>1. i \div 1 = i
        BY <1>4
      <3>2. RowOf(1, a, i) = ColumnOf(a, i)
        BY <3>1, Zenon DEF RowOf, ColumnOf
      <3> QED
        BY <1>4, <3>2
    <2>4. CellsOf(v) = 0 .. Volume3(1, a, b * c) - 1
      BY <1>3, <2>2, Zenon DEF Volume3
    <2> QED
      BY <1>2, <1>5, <2>1, <2>3, <2>4, Zenon DEF Plane
  <1>6. CASE d = 2
    <2>1. Stride(v, Direction(side)) = a /\ Layers(v, side) = b /\ NumberOfSegments(v, side) = c
      BY <1>1, <1>2, <1>6 DEF Stride, Layers, NumberOfSegments
    <2>2. \A i \in CellsOf(v) : Cell(v, i)[2] = RowOf(a, b, i)
      BY <1>4
    <2> QED
      BY <1>2, <1>3, <1>6, <2>1, <2>2, Zenon DEF Plane
  <1>7. CASE d = 3
    <2>1. PICK ab \in Nat : ab = a * b
      BY TwoLayers
    <2>2. Stride(v, Direction(side)) = ab /\ Layers(v, side) = c /\ NumberOfSegments(v, side) = 1
      BY <1>1, <1>2, <1>7, <2>1 DEF Stride, Layers, NumberOfSegments
    <2>3. a * b * c = ab * c * 1
      BY <2>1, Z3
    <2>4. ASSUME NEW i \in CellsOf(v)
          PROVE  Cell(v, i)[3] = RowOf(ab, c, i)
      <3>1. PICK z \in 0 .. c - 1 : z = LayerAt(a, b, i)
        BY <1>4
      <3>2. z % c = z
        BY <3>1
      <3>3. RowOf(ab, c, i) = z
        BY <2>1, <3>1, <3>2, Zenon DEF RowOf, LayerAt
      <3> QED
        BY <1>4, <3>1, <3>3
    <2>5. CellsOf(v) = 0 .. Volume3(ab, c, 1) - 1
      BY <1>3, <2>3, Zenon DEF Volume3
    <2> QED
      BY <1>2, <1>7, <2>2, <2>4, <2>5, Zenon DEF Plane
  <1> QED
    BY <1>5, <1>6, <1>7

\* A strip is made of the cells in its planes, each of them once.
LEMMA StripCells ==
  ASSUME NEW v \in Volume, NEW side \in 0 .. 5, NEW first \in Nat,
         first + v.ghosts <= Layers(v, side)
  PROVE  LET to == Strip(v, side, first) IN
         /\ \A k \in 1 .. StripSize(v, side) :
              /\ to[k] \in CellsOf(v)
              /\ Plane(v, side, to[k]) \in first .. first + v.ghosts - 1
         /\ \A i \in CellsOf(v) : Plane(v, side, i) \in first .. first + v.ghosts - 1 =>
              \E k \in 1 .. StripSize(v, side) : to[k] = i
         /\ \A j, k \in 1 .. StripSize(v, side) : to[j] = to[k] => j = k
  <1> DEFINE to == Strip(v, side, first)
  <1>1. PICK s \in Nat, n \in Nat, N \in Nat, w \in Nat :
          /\ s = Stride(v, Direction(side)) /\ n = Layers(v, side)
          /\ N = NumberOfSegments(v, side) /\ w = v.ghosts
          /\ s > 0 /\ n > 0 /\ N > 0
    BY StripNumbers
  <1>2. first + w <= n
    BY <1>1
  <1>3. PICK e \in Nat : e = StripSize(v, side) /\ e = Volume3(s, w, N)
    <2>1. s * w * N \in Nat
      BY Z3
    <2> QED
      BY <1>1, <2>1, Zenon DEF StripSize, Volume3
  <1>4. CellsOf(v) = 0 .. Volume3(s, n, N) - 1 /\ \A i : Plane(v, side, i) = RowOf(s, n, i)
    BY <1>1, PlaneOfCell, Zenon DEF Plane
  <1>5. \A k \in 1 .. e :
          to[k] = IndexIn(s, n, ColumnOf(s, k - 1), first + RowOf(s, w, k - 1), LayerAt(s, w, k - 1))
    BY <1>1, <1>3, Zenon DEF Strip, StripCell
  <1> HIDE DEF to
  <1>6. ASSUME NEW k \in 1 .. e
        PROVE  \E x \in 0 .. s - 1, y \in 0 .. w - 1, z \in 0 .. N - 1 :
                 /\ x = ColumnOf(s, k - 1) /\ y = RowOf(s, w, k - 1) /\ z = LayerAt(s, w, k - 1)
                 /\ k - 1 = IndexIn(s, w, x, y, z)
                 /\ to[k] = IndexIn(s, n, x, first + y, z)
    <2>1. PICK i : i = k - 1 /\ i \in 0 .. e - 1 /\ i \in Nat
      BY <1>3
    <2>2. w > 0
      <3>1. w = 0 => s * w * N = 0
        BY Z3
      <3>2. e = s * w * N
        BY <1>3, Zenon DEF Volume3
      <3>3. e # 0
        BY <2>1
      <3> QED
        BY <3>1, <3>2, <3>3
    <2>3. i \in 0 .. Volume3(s, w, N) - 1
      BY <1>3, <2>1, Zenon
    <2>4. /\ ColumnOf(s, i) \in 0 .. s - 1 /\ RowOf(s, w, i) \in 0 .. w - 1
          /\ LayerAt(s, w, i) \in 0 .. N - 1
          /\ i = IndexIn(s, w, ColumnOf(s, i), RowOf(s, w, i), LayerAt(s, w, i))
      BY <1>1, <2>2, <2>3, IndexOfParts
    <2> QED
      BY <1>5, <2>1, <2>4, Zenon
  <1>7. ASSUME NEW k \in 1 .. e, NEW x \in 0 .. s - 1, NEW y \in 0 .. w - 1, NEW z \in 0 .. N - 1,
               to[k] = IndexIn(s, n, x, first + y, z)
        PROVE  /\ to[k] \in CellsOf(v)
               /\ ColumnOf(s, to[k]) = x /\ RowOf(s, n, to[k]) = first + y /\ LayerAt(s, n, to[k]) = z
               /\ Plane(v, side, to[k]) \in first .. first + w - 1
    <2>1. PICK p : p = first + y
      OBVIOUS
    <2>2. p \in 0 .. n - 1 /\ p \in first .. first + w - 1 /\ z \in Nat
      BY <1>2, <2>1
    <2>3. to[k] = IndexIn(s, n, x, p, z)
      BY <1>7, <2>1
    <2>4. IndexIn(s, n, x, p, z) \in 0 .. Volume3(s, n, N) - 1
      BY <2>2, IndexInside
    <2>5. /\ ColumnOf(s, IndexIn(s, n, x, p, z)) = x /\ RowOf(s, n, IndexIn(s, n, x, p, z)) = p
          /\ LayerAt(s, n, IndexIn(s, n, x, p, z)) = z
      BY <2>2, PositionOfIndex
    <2> QED
      BY <1>4, <2>1, <2>2, <2>3, <2>4, <2>5, Zenon
  <1>8. ASSUME NEW k \in 1 .. e
        PROVE  to[k] \in CellsOf(v) /\ Plane(v, side, to[k]) \in first .. first + w - 1
    <2>1. PICK x \in 0 .. s - 1, y \in 0 .. w - 1, z \in 0 .. N - 1 :
            /\ x = ColumnOf(s, k - 1) /\ y = RowOf(s, w, k - 1) /\ z = LayerAt(s, w, k - 1)
            /\ k - 1 = IndexIn(s, w, x, y, z)
            /\ to[k] = IndexIn(s, n, x, first + y, z)
      BY <1>6
    <2> QED
      BY <1>7, <2>1
  <1>9. ASSUME NEW j \in 1 .. e, NEW k \in 1 .. e, to[j] = to[k]
        PROVE  j = k
    <2>1. PICK x \in 0 .. s - 1, y \in 0 .. w - 1, z \in 0 .. N - 1 :
            /\ x = ColumnOf(s, j - 1) /\ y = RowOf(s, w, j - 1) /\ z = LayerAt(s, w, j - 1)
            /\ j - 1 = IndexIn(s, w, x, y, z)
            /\ to[j] = IndexIn(s, n, x, first + y, z)
      BY <1>6
    <2>2. PICK x1 \in 0 .. s - 1, y1 \in 0 .. w - 1, z1 \in 0 .. N - 1 :
            /\ x1 = ColumnOf(s, k - 1) /\ y1 = RowOf(s, w, k - 1) /\ z1 = LayerAt(s, w, k - 1)
            /\ k - 1 = IndexIn(s, w, x1, y1, z1)
            /\ to[k] = IndexIn(s, n, x1, first + y1, z1)
      BY <1>6
    <2>3. ColumnOf(s, to[j]) = x /\ RowOf(s, n, to[j]) = first + y /\ LayerAt(s, n, to[j]) = z
      BY <1>7, <2>1
    <2>4. ColumnOf(s, to[k]) = x1 /\ RowOf(s, n, to[k]) = first + y1 /\ LayerAt(s, n, to[k]) = z1
      BY <1>7, <2>2
    <2>5. x = x1 /\ first + y = first + y1 /\ z = z1
      BY <1>9, <2>3, <2>4
    <2>6. y = y1
      BY <2>5
    <2>7. j - 1 = k - 1
      BY <2>1, <2>2, <2>5, <2>6
    <2> QED
      BY <2>7
  <1>10. ASSUME NEW i \in CellsOf(v), Plane(v, side, i) \in first .. first + w - 1
         PROVE  \E k \in 1 .. e : to[k] = i
    <2>1. i \in 0 .. Volume3(s, n, N) - 1
      BY <1>4
    <2>2. /\ ColumnOf(s, i) \in 0 .. s - 1 /\ LayerAt(s, n, i) \in 0 .. N - 1
          /\ i = IndexIn(s, n, ColumnOf(s, i), RowOf(s, n, i), LayerAt(s, n, i))
      BY <1>1, <2>1, IndexOfParts
    <2>3. PICK x \in 0 .. s - 1, z \in 0 .. N - 1 : x = ColumnOf(s, i) /\ z = LayerAt(s, n, i)
      BY <2>2
    <2>4. PICK y \in 0 .. w - 1 : first + y = RowOf(s, n, i)
      <3>1. PICK p : p = RowOf(s, n, i) /\ p \in first .. first + w - 1
        BY <1>4, <1>10
      <3>2. p - first \in 0 .. w - 1 /\ first + (p - first) = p
        BY <3>1
      <3> QED
        BY <3>1, <3>2
    <2>5. PICK m : m = IndexIn(s, w, x, y, z)
      OBVIOUS
    <2>6. m \in 0 .. e - 1
      <3>1. IndexIn(s, w, x, y, z) \in 0 .. Volume3(s, w, N) - 1
        BY IndexInside
      <3> QED
        BY <1>3, <2>5, <3>1, Zenon
    <2>7. ColumnOf(s, m) = x /\ RowOf(s, w, m) = y /\ LayerAt(s, w, m) = z
      <3>1. z \in Nat
        OBVIOUS
      <3> QED
        BY <2>5, <3>1, PositionOfIndex
    <2>8. m + 1 \in 1 .. e /\ (m + 1) - 1 = m
      BY <2>6
    <2>9. to[m + 1] = IndexIn(s, n, x, first + y, z)
      BY <1>5, <2>7, <2>8, Zenon
    <2> QED
      BY <2>2, <2>3, <2>4, <2>8, <2>9, Zenon
  <1> QED
    BY <1>1, <1>3, <1>8, <1>9, <1>10, Zenon DEF to

-----------------------------------------------------------------------------
(* The specification.                                                       *)

\* What holds from the beginning: all ranks have their block, and the volumes of
\* all blocks have the directions of the grid.
HaloCase ==
  /\ grid \in Grids /\ procs \in Splits
  /\ Divides(grid, procs)
  /\ domain = [r \in Ranks |-> Domain(grid, procs, r)]
  /\ width \in Nat /\ platform \in {"cpu", "cuda"}
  /\ AllDirections
  /\ NarrowBlocks \/ \A d \in 1 .. Dimension : BlockSize(grid, procs)[d] >= width
  /\ strips = Strips

LEMMA CaseInit == HaloInit => HaloCase
  <1> SUFFICES ASSUME HaloInit PROVE HaloCase
    OBVIOUS
  <1>1. PICK case \in Cases : /\ grid = case.grid /\ procs = case.procs
                              /\ width = case.width /\ platform = case.platform
    BY DEF HaloInit
  <1>2. grid \in Grids /\ procs \in Splits /\ width \in Nat /\ platform \in {"cpu", "cuda"}
    BY <1>1, CasesAssumption
  <1> QED
    BY <1>2, Zenon DEF HaloInit, HaloCase

LEMMA CaseKept == HaloCase /\ [HaloNext]_allVars => HaloCase'
  <1> SUFFICES ASSUME HaloCase, [HaloNext]_allVars PROVE HaloCase'
    OBVIOUS
  <1>1. UNCHANGED caseVars
    <2>1. ASSUME NEW r \in Ranks,
                 ApplyBoundary(r) \/ ExtractSides(r)
                   \/ \E side \in ActiveSides(grid.cells) : Receive(r, side)
          PROVE  UNCHANGED caseVars
      BY <2>1, Zenon DEF ApplyBoundary, ExtractSides, Receive
    <2>2. CASE UNCHANGED allVars
      BY <2>2 DEF allVars
    <2> QED
      BY <2>1, <2>2 DEF HaloNext
  <1>2. /\ grid' = grid /\ procs' = procs /\ domain' = domain
        /\ width' = width /\ platform' = platform /\ strips' = strips
    BY <1>1 DEF caseVars, vars
  <1>3. Dimension' = Dimension /\ Block' = Block
    BY <1>2 DEF Dimension, Block
  <1>4. Strips' = Strips
    BY <1>2, <1>3, Zenon DEF Strips
  <1>5. AllDirections' = AllDirections
    BY <1>2, <1>3 DEF AllDirections
  <1> QED
    BY <1>2, <1>3, <1>4, <1>5 DEF HaloCase, Ranks

LEMMA CaseFound ==
  HaloCase => IInv /\ (\A r \in Ranks : Done(r)) /\ grid \in Grid /\ procs \in Triples
  <1> SUFFICES ASSUME HaloCase
               PROVE  IInv /\ (\A r \in Ranks : Done(r)) /\ grid \in Grid /\ procs \in Triples
    OBVIOUS
  <1>1. \A r \in Ranks : domain[r] = Domain(grid, procs, r)
    BY DEF HaloCase
  <1>2. IInv
    BY <1>1 DEF HaloCase, IInv, Own
  <1>3. \A r \in Ranks : Done(r)
    <2>1. \A r \in Ranks : Domain(grid, procs, r).state = "done"
      BY DEF Domain
    <2> QED
      BY <1>1, <2>1, Zenon DEF Done
  <1> QED
    BY <1>2, <1>3, GridsAssumption, SplitsAssumption DEF HaloCase

LEMMA Dimensions == Dimension \in 1 .. 3 /\ \A side \in ActiveSides(grid.cells) :
                      side \in 0 .. 5 /\ Direction(side) \in 1 .. Dimension
  BY DEF Dimension, ActiveDimension, ActiveSides, Direction

\* The volume of a block has the dimensions of the grid, and it has ghost cells
\* in these directions and in no other.
LEMMA BlockDirections ==
  ASSUME HaloCase
  PROVE  /\ VolumeDimensions(BlockSize(grid, procs)) = Dimension
         /\ \A d \in Axes : (d = 1 \/ BlockSize(grid, procs)[d] > 1) <=> d <= Dimension
  <1>1. ASSUME NEW d \in Axes
        PROVE  \E n, b \in Nat : /\ n = grid.cells[d] /\ b = BlockSize(grid, procs)[d]
                                 /\ b > 0 /\ (n <= 1 => b = 1)
    <2>1. PICK n \in Nat, m \in Nat, b \in Nat :
            /\ n = grid.cells[d] /\ b = BlockSize(grid, procs)[d]
            /\ n = m * b /\ m > 0 /\ b > 0
      BY CaseFound, BlocksFill DEF HaloCase
    <2>2. n <= 1 => b = 1
      BY <2>1, Z3
    <2> QED
      BY <2>1, <2>2
  <1>2. PICK n2 \in Nat, b2 \in Nat : /\ n2 = grid.cells[2] /\ b2 = BlockSize(grid, procs)[2]
                                      /\ b2 > 0 /\ (n2 <= 1 => b2 = 1)
    BY <1>1 DEF Axes
  <1>3. PICK n3 \in Nat, b3 \in Nat : /\ n3 = grid.cells[3] /\ b3 = BlockSize(grid, procs)[3]
                                      /\ b3 > 0 /\ (n3 <= 1 => b3 = 1)
    BY <1>1 DEF Axes
  <1>4. PICK e \in 1 .. 3 : e = Dimension
    BY Dimensions
  <1>5. e = IF n3 > 1 THEN 3 ELSE IF n2 > 1 THEN 2 ELSE 1
    BY <1>2, <1>3, <1>4, Zenon DEF Dimension, ActiveDimension
  <1>6. (e >= 2 => b2 > 1) /\ (e >= 3 => b3 > 1)
    <2>1. \A d \in 2 .. e : BlockSize(grid, procs)[d] > 1
      BY <1>4 DEF HaloCase, AllDirections
    <2> QED
      BY <1>2, <1>3, <2>1
  <1>7. VolumeDimensions(BlockSize(grid, procs)) = e
    <2>1. e = IF b2 = 1 THEN 1 ELSE IF b3 = 1 THEN 2 ELSE 3
      BY <1>2, <1>3, <1>5, <1>6
    <2> QED
      BY <1>2, <1>3, <2>1, Zenon DEF VolumeDimensions
  <1>8. ASSUME NEW d \in Axes
        PROVE  (d = 1 \/ BlockSize(grid, procs)[d] > 1) <=> d <= e
    <2>1. (b2 > 1 <=> 2 <= e) /\ (b3 > 1 <=> 3 <= e) /\ 1 <= e
      BY <1>2, <1>3, <1>5, <1>6
    <2> QED
      BY <1>2, <1>3, <2>1 DEF Axes
  <1> QED
    BY <1>4, <1>7, <1>8

\* A block's volume.
LEMMA BlockVolume ==
  ASSUME HaloCase
  PROVE  /\ Block \in Volume
         /\ Block.ghosts = width /\ width \in Nat
         /\ \A d \in Axes : \E n \in Nat :
              /\ n = BlockSize(grid, procs)[d] /\ n > 0
              /\ Block.size[d] = n + (IF d <= Dimension THEN 2 * width ELSE 0)
              /\ NarrowBlocks \/ (d \in 1 .. Dimension => n >= width)
         /\ Indices = CellsOf(Block)
  <1>1. width \in Nat /\ Dimension \in 1 .. 3
    BY Dimensions DEF HaloCase
  <1>2. \A d \in Axes : \E n \in Nat : n = BlockSize(grid, procs)[d] /\ n > 0
    BY CaseFound, BlocksFill DEF HaloCase
  <1>3. ASSUME NEW d \in Axes
        PROVE  \E n \in Nat :
                 /\ n = BlockSize(grid, procs)[d] /\ n > 0
                 /\ Block.size[d] = n + (IF d <= Dimension THEN 2 * width ELSE 0)
                 /\ NarrowBlocks \/ (d \in 1 .. Dimension => n >= width)
    <2>1. PICK n \in Nat : n = BlockSize(grid, procs)[d] /\ n > 0
      BY <1>2
    <2>2. Block.size[d] = n + (IF d <= Dimension THEN 2 * width ELSE 0)
      <3>1. (d = 1 \/ n > 1) <=> d <= Dimension
        BY <2>1, BlockDirections
      <3>2. Block.size[d] = n + (IF d = 1 \/ n > 1 THEN 2 * width ELSE 0)
        BY <2>1 DEF Block
      <3> QED
        BY <3>1, <3>2
    <2>3. NarrowBlocks \/ (d \in 1 .. Dimension => n >= width)
      BY <2>1 DEF HaloCase
    <2> QED
      BY <2>1, <2>2, <2>3
  <1>4. Block.ghosts = width /\ Block.dimensions = Dimension
    BY BlockDirections DEF Block
  <1>5. Block = [dimensions |-> Dimension, size |-> Block.size, ghosts |-> width]
        /\ Block.size = [d \in Axes |-> Block.size[d]]
    BY BlockDirections DEF Block
  <1>6. \A d \in Axes : Block.size[d] \in Nat \ {0}
    <2> SUFFICES ASSUME NEW d \in Axes PROVE Block.size[d] \in Nat \ {0}
      OBVIOUS
    <2>1. PICK n \in Nat : n > 0 /\ Block.size[d] = n + (IF d <= Dimension THEN 2 * width ELSE 0)
      BY <1>3
    <2> QED
      BY <1>1, <2>1
  <1>7. Block.size \in [Axes -> Nat \ {0}]
    BY <1>5, <1>6
  <1>8. Block \in Volume
    BY <1>1, <1>5, <1>7 DEF Volume
  <1>9. Indices = CellsOf(Block)
    BY DEF Indices, CellsOf
  <1> QED
    BY <1>1, <1>3, <1>4, <1>8, <1>9

\* The strips of all sides: over the planes of ghost cells, and the planes next
\* to them.
SentFrom(side)     == IF IsBottom(side) THEN width ELSE Layers(Block, side) - 2 * width
ReceivedFrom(side) == IF IsBottom(side) THEN 0 ELSE Layers(Block, side) - width

LEMMA StripsOfSides ==
  ASSUME HaloCase, NEW side \in ActiveSides(grid.cells)
  PROVE  /\ DOMAIN strips = ActiveSides(grid.cells)
         /\ side \in 0 .. 5 /\ Opposite(side) \in ActiveSides(grid.cells)
         /\ \E n \in Nat : /\ n = BlockSize(grid, procs)[Direction(side)] /\ n > 0
                           /\ Layers(Block, side) = n + 2 * width
         /\ SentFrom(side) \in Nat /\ ReceivedFrom(side) \in Nat
         /\ strips[side].sent = Strip(Block, side, SentFrom(side))
         /\ strips[side].received = Strip(Block, side, ReceivedFrom(side))
  <1>1. side \in 0 .. 5 /\ Direction(side) \in 1 .. Dimension /\ Direction(side) \in Axes
    BY Dimensions DEF Axes
  <1>2. Opposite(side) \in ActiveSides(grid.cells)
    BY <1>1 DEF Opposite, IsBottom, ActiveSides, ActiveDimension
  <1>3. PICK n \in Nat : /\ n = BlockSize(grid, procs)[Direction(side)] /\ n > 0
                         /\ Layers(Block, side) = n + 2 * width
    BY <1>1, BlockVolume DEF Layers
  <1>4. Block \in Volume /\ Block.ghosts = width /\ width \in Nat
    BY BlockVolume
  <1>5. PICK f \in Nat, g \in Nat : f = SentFrom(side) /\ g = ReceivedFrom(side)
    BY <1>3, <1>4 DEF SentFrom, ReceivedFrom
  <1>6. /\ DOMAIN strips = ActiveSides(grid.cells)
        /\ platform = "cpu" => /\ strips[side].sent = SendType(Block, side)
                               /\ strips[side].received = ReceiveType(Block, side)
        /\ platform # "cpu" =>
             /\ strips[side].sent = RegionCells(Block, side, ExtractRegion(Block, side))
             /\ strips[side].received = RegionCells(Block, side, InsertRegion(Block, side))
    BY DEF HaloCase, Strips
  <1>7. CASE platform = "cpu"
    <2>1. PICK l \in Nat : l = Layers(Block, side)
      BY <1>3, <1>4
    <2>2. SendType(Block, side)
            = Strip(Block, side, IF IsBottom(side) THEN width ELSE Layers(Block, side) - width - width)
      BY <1>1, <1>4, ElementsAreStrip DEF SendType
    <2>3. ReceiveType(Block, side)
            = Strip(Block, side, IF IsBottom(side) THEN 0 ELSE Layers(Block, side) - width - 0)
      <3>1. 0 \in Nat
        OBVIOUS
      <3> QED
        BY <1>1, <1>4, <3>1, ElementsAreStrip DEF ReceiveType
    <2>4. l - width - width = l - 2 * width /\ l - width - 0 = l - width
      BY <1>4
    <2> QED
      BY <1>1, <1>2, <1>3, <1>5, <1>6, <1>7, <2>1, <2>2, <2>3, <2>4, Zenon DEF SentFrom, ReceivedFrom
  <1>8. CASE platform # "cpu"
    <2>1. PICK l \in Nat : l = Layers(Block, side) /\ l = n + 2 * width
      BY <1>3, <1>4
    <2>2. ExtractRegion(Block, side) = Slab(Block, side, f, f + width)
      <3>1. IsBottom(side) => f = width /\ f + width = 2 * width
        BY <1>4, <1>5 DEF SentFrom
      <3>2. ~IsBottom(side) => f = l - 2 * width /\ f + width = l - width
        BY <1>4, <1>5, <2>1 DEF SentFrom
      <3> QED
        BY <1>4, <2>1, <3>1, <3>2 DEF ExtractRegion, Layers
    <2>3. InsertRegion(Block, side) = Slab(Block, side, g, g + width)
      <3>1. IsBottom(side) => g = 0 /\ g + width = width
        BY <1>4, <1>5 DEF ReceivedFrom
      <3>2. ~IsBottom(side) => g = l - width /\ g + width = l
        BY <1>4, <1>5, <2>1 DEF ReceivedFrom
      <3> QED
        BY <1>4, <2>1, <3>1, <3>2 DEF InsertRegion, Layers
    <2>4. RegionCells(Block, side, Slab(Block, side, f, f + width)) = Strip(Block, side, f)
          /\ RegionCells(Block, side, Slab(Block, side, g, g + width)) = Strip(Block, side, g)
      BY <1>1, <1>4, RegionIsStrip
    <2> QED
      BY <1>1, <1>2, <1>3, <1>5, <1>6, <1>8, <2>2, <2>3, <2>4, Zenon
  <1> QED
    BY <1>7, <1>8

\* The ghost cells of a side are the cells of those planes.
LEMMA GhostPlanes ==
  ASSUME HaloCase, NEW side \in ActiveSides(grid.cells)
  PROVE  GhostLayer(side) =
           {i \in CellsOf(Block) :
              Plane(Block, side, i) \in ReceivedFrom(side) .. ReceivedFrom(side) + width - 1}
  <1>1. side \in 0 .. 5 /\ Block \in Volume /\ width \in Nat /\ Indices = CellsOf(Block)
    BY StripsOfSides, BlockVolume
  <1>2. \A i \in CellsOf(Block) : Cell(Block, i)[Direction(side)] = Plane(Block, side, i)
    BY <1>1, PlaneOfCell
  <1>3. PICK l \in Nat : l = Layers(Block, side) /\ l = Block.size[Direction(side)]
    BY <1>1, StripsOfSides DEF Layers
  <1>4. CASE IsBottom(side)
    <2>1. ReceivedFrom(side) = 0 /\ 0 + width - 1 = width - 1
      BY <1>1, <1>4 DEF ReceivedFrom
    <2> QED
      BY <1>1, <1>2, <1>4, <2>1 DEF GhostLayer
  <1>5. CASE ~IsBottom(side)
    <2>1. ReceivedFrom(side) = l - width /\ l - width + width - 1 = l - 1
      BY <1>1, <1>3, <1>5 DEF ReceivedFrom
    <2> QED
      BY <1>1, <1>2, <1>3, <1>5, <2>1 DEF GhostLayer
  <1> QED
    BY <1>4, <1>5

\* What a strip contains, for the ghost cells of a side.
Landing(side) == {strips[side].received[k] : k \in DOMAIN strips[side].received}

LEMMA ReceivedCells ==
  ASSUME HaloCase, NEW side \in ActiveSides(grid.cells)
  PROVE  /\ DOMAIN strips[side].received = 1 .. StripSize(Block, side)
         /\ Landing(side) = GhostLayer(side)
         /\ \A j, k \in DOMAIN strips[side].received :
              strips[side].received[j] = strips[side].received[k] => j = k
  <1> DEFINE to == strips[side].received
  <1>0. Landing(side) = {to[k] : k \in DOMAIN to}
    BY Zenon DEF Landing
  <1>1. /\ side \in 0 .. 5 /\ Block \in Volume /\ width \in Nat /\ Block.ghosts = width
        /\ to = Strip(Block, side, ReceivedFrom(side))
    BY StripsOfSides, BlockVolume
  <1> HIDE DEF to
  <1>2. PICK f \in Nat : f = ReceivedFrom(side) /\ f + width <= Layers(Block, side)
    <2>1. PICK n \in Nat : n > 0 /\ Layers(Block, side) = n + 2 * width
      BY StripsOfSides
    <2>2. width \in Nat
      BY <1>1
    <2>3. PICK f \in Nat : f = ReceivedFrom(side)
      BY StripsOfSides
    <2>4. f + width <= Layers(Block, side)
      BY <2>1, <2>2, <2>3 DEF ReceivedFrom
    <2> QED
      BY <2>3, <2>4
  <1>3. DOMAIN to = 1 .. StripSize(Block, side)
    BY <1>1 DEF Strip
  <1>4. /\ \A k \in 1 .. StripSize(Block, side) :
             /\ to[k] \in CellsOf(Block)
             /\ Plane(Block, side, to[k]) \in f .. f + width - 1
        /\ \A i \in CellsOf(Block) : Plane(Block, side, i) \in f .. f + width - 1 =>
             \E k \in 1 .. StripSize(Block, side) : to[k] = i
        /\ \A j, k \in 1 .. StripSize(Block, side) : to[j] = to[k] => j = k
    BY <1>1, <1>2, StripCells
  <1>5. GhostLayer(side) = {i \in CellsOf(Block) : Plane(Block, side, i) \in f .. f + width - 1}
    BY <1>2, GhostPlanes
  <1>6. Landing(side) = GhostLayer(side)
    BY <1>0, <1>3, <1>4, <1>5
  <1>7. \A j, k \in DOMAIN to : to[j] = to[k] => j = k
    BY <1>3, <1>4
  <1> QED
    BY <1>3, <1>6, <1>7 DEF to

LEMMA CaseFills == HaloCase => ReceiveFillsGhostLayer
  <1> SUFFICES ASSUME HaloCase, applied = {}, NEW side \in DOMAIN strips
               PROVE  /\ Landing(side) = GhostLayer(side)
                      /\ \A j, k \in DOMAIN strips[side].received :
                           strips[side].received[j] = strips[side].received[k] => j = k
    BY Zenon DEF ReceiveFillsGhostLayer, Landing
  <1>1. side \in ActiveSides(grid.cells)
    BY DEF HaloCase, Strips
  <1> QED
    BY <1>1, ReceivedCells, Zenon

\* The cells sent and received over a side lie a block's width apart.
LEMMA SentCells ==
  ASSUME HaloCase, NEW side \in ActiveSides(grid.cells),
         NEW to, to = strips[side].received, NEW from, from = strips[Opposite(side)].sent
  PROVE  /\ DOMAIN from = DOMAIN to
         /\ \A k \in DOMAIN to :
              from[k] = to[k] + (SentFrom(Opposite(side)) - ReceivedFrom(side))
                                * Stride(Block, Direction(side))
  <1>1. /\ side \in 0 .. 5 /\ Opposite(side) \in 0 .. 5
        /\ Direction(Opposite(side)) = Direction(side) /\ Block \in Volume
        /\ to = Strip(Block, side, ReceivedFrom(side))
        /\ from = Strip(Block, Opposite(side), SentFrom(Opposite(side)))
        /\ SentFrom(Opposite(side)) \in Nat /\ ReceivedFrom(side) \in Nat
    BY StripsOfSides, BlockVolume, SidesPair
  <1>2. PICK f \in Nat, g \in Nat : f = SentFrom(Opposite(side)) /\ g = ReceivedFrom(side)
    BY <1>1
  <1>3. Layers(Block, Opposite(side)) = Layers(Block, side)
        /\ StripSize(Block, Opposite(side)) = StripSize(Block, side)
    BY <1>1, Zenon DEF Layers, StripSize, NumberOfSegments
  <1>4. PICK s \in Nat, n \in Nat, N \in Nat, w \in Nat :
          /\ s = Stride(Block, Direction(side)) /\ n = Layers(Block, side)
          /\ N = NumberOfSegments(Block, side) /\ w = Block.ghosts
          /\ s > 0 /\ n > 0 /\ N > 0
    BY <1>1, StripNumbers
  <1>5. DOMAIN from = DOMAIN to /\ DOMAIN to = 1 .. StripSize(Block, side)
    BY <1>1, <1>3, Zenon DEF Strip
  <1>6. ASSUME NEW k \in DOMAIN to
        PROVE  from[k] = to[k] + (f - g) * s
    <2>1. PICK x, y, z : x = ColumnOf(s, k - 1) /\ y = RowOf(s, w, k - 1) /\ z = LayerAt(s, w, k - 1)
      BY Zenon
    <2>2. /\ from[k] = x + (f + y) * s + z * s * n
          /\ to[k] = x + (g + y) * s + z * s * n
      BY <1>1, <1>2, <1>3, <1>4, <1>5, <2>1, Zenon DEF Strip, StripCell, IndexIn
    <2>3. x \in Nat /\ y \in Nat /\ z \in Nat
      <3>1. PICK e \in Nat : e = StripSize(Block, side) /\ e = Volume3(s, w, N)
        <4>1. s * w * N \in Nat
          BY Z3
        <4> QED
          BY <1>4, <4>1, Zenon DEF StripSize, Volume3
      <3>2. PICK i : i = k - 1 /\ i \in 0 .. e - 1
        BY <1>5, <3>1
      <3>3. w > 0
        <4>1. w = 0 => s * w * N = 0
          BY Z3
        <4>2. e = s * w * N
          BY <3>1, Zenon DEF Volume3
        <4>3. e # 0
          BY <3>2
        <4> QED
          BY <4>1, <4>2, <4>3
      <3>4. i \in 0 .. Volume3(s, w, N) - 1
        BY <3>1, <3>2, Zenon
      <3>5. ColumnOf(s, i) \in 0 .. s - 1 /\ RowOf(s, w, i) \in 0 .. w - 1 /\ LayerAt(s, w, i) \in 0 .. N - 1
        BY <1>4, <3>3, <3>4, IndexOfParts
      <3> QED
        BY <2>1, <3>2, <3>5
    <2>4. x + (f + y) * s + z * s * n = (x + (g + y) * s + z * s * n) + (f - g) * s
      BY <2>3, Z3
    <2> QED
      BY <2>2, <2>4, Zenon
  <1> QED
    BY <1>2, <1>4, <1>5, <1>6, Zenon

\* The cells sent over the opposite side lie a block away.
LEMMA SentApart ==
  ASSUME HaloCase, NEW side \in ActiveSides(grid.cells),
         NEW k \in DOMAIN strips[side].received,
         NEW n \in Nat, n = BlockSize(grid, procs)[Direction(side)]
  PROVE  /\ k \in DOMAIN strips[Opposite(side)].sent
         /\ strips[Opposite(side)].sent[k]
              = strips[side].received[k]
                + (IF IsBottom(side) THEN n ELSE -n) * Stride(Block, Direction(side))
  <1>1. /\ side \in 0 .. 5 /\ width \in Nat
        /\ Direction(Opposite(side)) = Direction(side)
        /\ IsBottom(Opposite(side)) = ~IsBottom(side)
    BY StripsOfSides, BlockVolume, SidesPair
  <1>2. PICK l \in Nat : l = Layers(Block, side) /\ l = n + 2 * width
    BY <1>1, StripsOfSides
  <1>3. Layers(Block, Opposite(side)) = l
    BY <1>1, <1>2, Zenon DEF Layers
  <1>4. SentFrom(Opposite(side)) - ReceivedFrom(side) = IF IsBottom(side) THEN n ELSE -n
    <2>1. CASE IsBottom(side)
      <3>1. ~IsBottom(Opposite(side))
        BY <1>1, <2>1, Zenon
      <3>2. SentFrom(Opposite(side)) = l - 2 * width
        BY <1>3, <3>1, Zenon DEF SentFrom
      <3>3. ReceivedFrom(side) = 0
        BY <2>1, Zenon DEF ReceivedFrom
      <3> QED
        BY <1>1, <1>2, <2>1, <3>2, <3>3
    <2>2. CASE ~IsBottom(side)
      <3>1. IsBottom(Opposite(side))
        BY <1>1, <2>2, Zenon
      <3>2. SentFrom(Opposite(side)) = width
        BY <3>1, Zenon DEF SentFrom
      <3>3. ReceivedFrom(side) = l - width
        BY <1>2, <2>2, Zenon DEF ReceivedFrom
      <3> QED
        BY <1>1, <1>2, <2>2, <3>2, <3>3
    <2> QED
      BY <2>1, <2>2
  <1>5. PICK to, from : to = strips[side].received /\ from = strips[Opposite(side)].sent
    OBVIOUS
  <1>6. /\ DOMAIN from = DOMAIN to
        /\ from[k] = to[k] + (SentFrom(Opposite(side)) - ReceivedFrom(side))
                             * Stride(Block, Direction(side))
    BY <1>5, SentCells
  <1> QED
    BY <1>4, <1>5, <1>6, Zenon

LEMMA CaseCorresponds == HaloCase => StripsCorrespond
  <1> SUFFICES ASSUME HaloCase, applied = {}, NEW side \in DOMAIN strips
               PROVE  LET d     == Direction(side)
                          to    == strips[side].received
                          from  == strips[Opposite(side)].sent
                          block == (Block.size[d] - 2 * width) * Stride(Block, d)
                      IN  /\ Len(from) = Len(to)
                          /\ \A k \in DOMAIN to :
                               from[k] = IF IsBottom(side) THEN to[k] + block ELSE to[k] - block
    BY Zenon DEF StripsCorrespond
  <1> DEFINE to    == strips[side].received
             from  == strips[Opposite(side)].sent
             block == (Block.size[Direction(side)] - 2 * width) * Stride(Block, Direction(side))
  <1>0. /\ to = strips[side].received
        /\ from = strips[Opposite(side)].sent
        /\ block = (Block.size[Direction(side)] - 2 * width) * Stride(Block, Direction(side))
    OBVIOUS
  <1> HIDE DEF to, from, block
  <1>1. side \in ActiveSides(grid.cells)
    BY DEF HaloCase, Strips
  <1>2. /\ DOMAIN from = DOMAIN to
        /\ \A k \in DOMAIN to :
             from[k] = to[k] + (SentFrom(Opposite(side)) - ReceivedFrom(side))
                               * Stride(Block, Direction(side))
    BY <1>0, <1>1, SentCells
  <1>3. Len(from) = Len(to)
    <2>1. PICK e \in Nat : DOMAIN to = 1 .. e
      <3>1. DOMAIN to = 1 .. StripSize(Block, side)
        BY <1>0, <1>1, ReceivedCells, Zenon
      <3>2. PICK a \in Nat, b \in Nat, c \in Nat :
              /\ a = Stride(Block, Direction(side)) /\ b = Block.ghosts
              /\ c = NumberOfSegments(Block, side)
        BY <1>1, StripsOfSides, BlockVolume, StripNumbers
      <3>3. a * b * c \in Nat
        BY Z3
      <3>4. StripSize(Block, side) \in Nat
        BY <3>2, <3>3, Zenon DEF StripSize, Volume3
      <3> QED
        BY <3>1, <3>4
    <2>2. to = [k \in 1 .. e |-> to[k]] /\ from = [k \in 1 .. e |-> from[k]]
      <3>1. from = Strip(Block, Opposite(side), SentFrom(Opposite(side)))
            /\ to = Strip(Block, side, ReceivedFrom(side))
        BY <1>0, <1>1, StripsOfSides
      <3>2. /\ to = [k \in DOMAIN to |-> to[k]]
            /\ from = [k \in DOMAIN from |-> from[k]]
        BY <3>1, Zenon DEF Strip
      <3> QED
        BY <1>2, <2>1, <3>2
    <2>3. Len([k \in 1 .. e |-> to[k]]) = e /\ Len([k \in 1 .. e |-> from[k]]) = e
      OBVIOUS
    <2> QED
      BY <2>2, <2>3
  <1>4. ASSUME NEW k \in DOMAIN to
        PROVE  from[k] = IF IsBottom(side) THEN to[k] + block ELSE to[k] - block
    <2>1. /\ side \in 0 .. 5 /\ Block \in Volume /\ width \in Nat
          /\ Direction(Opposite(side)) = Direction(side)
          /\ IsBottom(Opposite(side)) = ~IsBottom(side)
      BY <1>1, StripsOfSides, BlockVolume, SidesPair
    <2>2. PICK n \in Nat : /\ n = BlockSize(grid, procs)[Direction(side)] /\ n > 0
                           /\ Layers(Block, side) = n + 2 * width
      BY <1>1, StripsOfSides
    <2>3. Layers(Block, Opposite(side)) = n + 2 * width /\ Block.size[Direction(side)] = n + 2 * width
      BY <2>1, <2>2 DEF Layers
    <2>4. PICK s \in Nat : s = Stride(Block, Direction(side))
      BY <2>1, StripNumbers
    <2>5. block = n * s
      <3>1. (n + 2 * width) - 2 * width = n
        BY <2>1
      <3> QED
        BY <1>0, <2>3, <2>4, <3>1, Zenon
    <2>6. to[k] \in Nat
      <3>1. to[k] \in GhostLayer(side)
        <4>1. Landing(side) = GhostLayer(side)
          BY <1>1, ReceivedCells, Zenon
        <4>2. to[k] \in Landing(side)
          BY <1>0, <1>4, Zenon DEF Landing
        <4> QED
          BY <4>1, <4>2
      <3>2. GhostLayer(side) \subseteq Indices
        BY DEF GhostLayer
      <3>3. PICK e \in Int : Indices = 0 .. e
        <4>1. PICK a \in Nat, b \in Nat, c \in Nat :
                a = Block.size[1] /\ b = Block.size[2] /\ c = Block.size[3]
          BY <2>1 DEF Volume, Axes
        <4>2. a * b * c \in Int
          BY Z3
        <4>3. a * b * c - 1 \in Int
          BY <4>2
        <4> QED
          BY <4>1, <4>3 DEF Indices
      <3> QED
        BY <3>1, <3>2, <3>3
    <2>7. PICK t \in Nat : t = to[k]
      BY <2>6
    <2>8. PICK b \in Nat : b = n * s
      BY Z3
    <2>9. from[k] = to[k] + (IF IsBottom(side) THEN n ELSE -n) * s
      BY <1>0, <1>1, <1>4, <2>2, <2>4, SentApart
    <2>10. (-n) * s = -b
      BY <2>8, Z3
    <2>11. t + (-b) = t - b
      OBVIOUS
    <2> QED
      BY <2>5, <2>7, <2>8, <2>9, <2>10, <2>11, Zenon
  <1> QED
    BY <1>0, <1>3, <1>4, Zenon

LEMMA CaseAlways == HaloSpec => []HaloCase
  BY CaseInit, CaseKept, PTL DEF HaloSpec

\* For every block with more than one cell in each active direction y and z, every
\* side and every number of ghost cells, on CPU and on GPU, what is received at a side goes to the ghost cells of that side, one
\* value to each of them, and to no other cell.
THEOREM ReceiveAlwaysFills == HaloSpec => []ReceiveFillsGhostLayer
  BY CaseAlways, CaseFills, PTL

\* Over every side of such a block the neighbour sends, in the same order, the cells
\* that lie a block away.
THEOREM StripsAlwaysCorrespond == HaloSpec => []StripsCorrespond
  BY CaseAlways, CaseCorresponds, PTL

-----------------------------------------------------------------------------
(* Cells of a block.                                                        *)

\* The cell at coordinate x in direction d that has the other coordinates of
\* cell i.
MovedTo(i, d, x) == Index(Block, [Cell(Block, i) EXCEPT ![d] = x])

\* The coordinates of a cell, and the index of a cell with one of them changed.
LEMMA CellsOfBlocks ==
  ASSUME HaloCase, NEW i \in Indices
  PROVE  /\ Cell(Block, i) \in [Axes -> Nat]
         /\ \A d \in Axes : Cell(Block, i)[d] \in 0 .. Block.size[d] - 1
         /\ i \in Nat
         /\ i = Index(Block, Cell(Block, i))
  <1>1. PICK l \in Nat, m \in Nat, n \in Nat :
          /\ l = Block.size[1] /\ m = Block.size[2] /\ n = Block.size[3]
          /\ l > 0 /\ m > 0 /\ n > 0
    BY BlockVolume DEF Volume, Axes
  <1>2. i \in 0 .. Volume3(l, m, n) - 1
    BY <1>1, Zenon DEF Indices, Volume3
  <1>3. PICK x \in 0 .. l - 1, y \in 0 .. m - 1, z \in 0 .. n - 1 :
          /\ x = ColumnOf(l, i) /\ y = RowOf(l, m, i) /\ z = LayerAt(l, m, i)
          /\ i = IndexIn(l, m, x, y, z)
    <2>1. /\ ColumnOf(l, i) \in 0 .. l - 1 /\ RowOf(l, m, i) \in 0 .. m - 1
          /\ LayerAt(l, m, i) \in 0 .. n - 1
          /\ i = IndexIn(l, m, ColumnOf(l, i), RowOf(l, m, i), LayerAt(l, m, i))
      BY <1>1, <1>2, IndexOfParts
    <2> QED
      BY <2>1, Zenon
  <1>4. Cell(Block, i) = <<x, y, z>>
    BY <1>1, <1>3, Zenon DEF Cell, ColumnOf, RowOf, LayerAt
  <1>5. Index(Block, <<x, y, z>>) = IndexIn(l, m, x, y, z)
    <2>1. Index(Block, <<x, y, z>>)
            = <<x, y, z>>[1] + <<x, y, z>>[2] * l + <<x, y, z>>[3] * l * m
      BY <1>1, Zenon DEF Index
    <2>2. <<x, y, z>>[1] = x /\ <<x, y, z>>[2] = y /\ <<x, y, z>>[3] = z
      OBVIOUS
    <2> QED
      BY <2>1, <2>2, Zenon DEF IndexIn
  <1>6. <<x, y, z>> \in [Axes -> Nat]
    BY DEF Axes
  <1>7. \A d \in Axes : <<x, y, z>>[d] \in 0 .. Block.size[d] - 1
    BY <1>1 DEF Axes
  <1>8. PICK e \in Int : e = Volume3(l, m, n) - 1
    <2>1. PICK p \in Nat : p = l * m * n
      BY Z3
    <2> QED
      BY <2>1 DEF Volume3
  <1>9. i \in Nat
    BY <1>2, <1>8
  <1> QED
    BY <1>3, <1>4, <1>5, <1>6, <1>7, <1>9, Zenon

LEMMA CellAtIndex ==
  ASSUME HaloCase, NEW c \in [Axes -> Nat], \A d \in Axes : c[d] \in 0 .. Block.size[d] - 1
  PROVE  Index(Block, c) \in Indices /\ Cell(Block, Index(Block, c)) = c
  <1>1. PICK l \in Nat, m \in Nat, n \in Nat :
          /\ l = Block.size[1] /\ m = Block.size[2] /\ n = Block.size[3]
          /\ l > 0 /\ m > 0 /\ n > 0
    BY BlockVolume DEF Volume, Axes
  <1>2. PICK x \in 0 .. l - 1, y \in 0 .. m - 1, z \in 0 .. n - 1 :
          x = c[1] /\ y = c[2] /\ z = c[3]
    BY <1>1 DEF Axes
  <1>3. Index(Block, c) = IndexIn(l, m, x, y, z)
    BY <1>1, <1>2, Zenon DEF Index, IndexIn
  <1>4. IndexIn(l, m, x, y, z) \in 0 .. Volume3(l, m, n) - 1
    BY IndexInside
  <1>5. /\ ColumnOf(l, IndexIn(l, m, x, y, z)) = x
        /\ RowOf(l, m, IndexIn(l, m, x, y, z)) = y
        /\ LayerAt(l, m, IndexIn(l, m, x, y, z)) = z
    <2>1. z \in Nat
      OBVIOUS
    <2> QED
      BY <2>1, PositionOfIndex
  <1>6. Cell(Block, Index(Block, c)) = <<x, y, z>>
    BY <1>1, <1>3, <1>5, Zenon DEF Cell, ColumnOf, RowOf, LayerAt
  <1>7. c = <<x, y, z>>
    BY <1>2 DEF Axes
  <1>8. Index(Block, c) \in Indices
    BY <1>1, <1>3, <1>4, Zenon DEF Indices, Volume3
  <1> QED
    BY <1>6, <1>7, <1>8, Zenon

LEMMA MovedCell ==
  ASSUME HaloCase, NEW i \in Indices, NEW d \in Axes, NEW x \in 0 .. Block.size[d] - 1
  PROVE  /\ MovedTo(i, d, x) \in Indices
         /\ Cell(Block, MovedTo(i, d, x)) = [Cell(Block, i) EXCEPT ![d] = x]
         /\ MovedTo(i, d, x) = i + (x - Cell(Block, i)[d]) * Stride(Block, d)
  <1>1. PICK l \in Nat, m \in Nat, n \in Nat :
          /\ l = Block.size[1] /\ m = Block.size[2] /\ n = Block.size[3]
          /\ l > 0 /\ m > 0 /\ n > 0
    BY BlockVolume DEF Volume, Axes
  <1>2. /\ Cell(Block, i) \in [Axes -> Nat]
        /\ \A e \in Axes : Cell(Block, i)[e] \in 0 .. Block.size[e] - 1
        /\ i = Index(Block, Cell(Block, i))
    BY CellsOfBlocks
  <1>3. PICK c \in [Axes -> Nat] : c = Cell(Block, i)
    BY <1>2
  <1>4. PICK t : t = [c EXCEPT ![d] = x]
    OBVIOUS
  <1>5. x \in Nat
    BY <1>1 DEF Axes
  <1>6. t \in [Axes -> Nat] /\ \A e \in Axes : t[e] = IF e = d THEN x ELSE c[e]
    BY <1>4, <1>5
  <1>7. \A e \in Axes : t[e] \in 0 .. Block.size[e] - 1
    BY <1>2, <1>3, <1>6
  <1>8. Index(Block, t) \in Indices /\ Cell(Block, Index(Block, t)) = t
    BY <1>6, <1>7, CellAtIndex
  <1>9. PICK a \in Nat, b \in Nat, f \in Nat : a = c[1] /\ b = c[2] /\ f = c[3]
    BY DEF Axes
  <1>10. i = a + b * l + f * l * m
    BY <1>1, <1>2, <1>3, <1>9, Zenon DEF Index
  <1>11. PICK s \in Nat, u \in Nat, w \in Nat :
           s = t[1] /\ u = t[2] /\ w = t[3] /\ Index(Block, t) = s + u * l + w * l * m
    <2>1. PICK s \in Nat, u \in Nat, w \in Nat : s = t[1] /\ u = t[2] /\ w = t[3]
      BY <1>6 DEF Axes
    <2>2. Index(Block, t) = s + u * l + w * l * m
      BY <1>1, <2>1, Zenon DEF Index
    <2> QED
      BY <2>1, <2>2
  <1>12. Index(Block, t) = i + (x - c[d]) * Stride(Block, d)
    <2>1. CASE d = 1
      <3>1. s = x /\ u = b /\ w = f /\ c[d] = a /\ Stride(Block, d) = 1
        BY <1>6, <1>9, <1>11, <2>1 DEF Axes, Stride
      <3>2. x + b * l + f * l * m = (a + b * l + f * l * m) + (x - a) * 1
        BY <1>5, Z3
      <3> QED
        BY <1>10, <1>11, <3>1, <3>2, Zenon
    <2>2. CASE d = 2
      <3>1. s = a /\ u = x /\ w = f /\ c[d] = b /\ Stride(Block, d) = l
        BY <1>1, <1>6, <1>9, <1>11, <2>2 DEF Axes, Stride
      <3>2. a + x * l + f * l * m = (a + b * l + f * l * m) + (x - b) * l
        BY <1>5, Z3
      <3> QED
        BY <1>10, <1>11, <3>1, <3>2, Zenon
    <2>3. CASE d = 3
      <3>1. s = a /\ u = b /\ w = x /\ c[d] = f
        BY <1>6, <1>9, <1>11, <2>3 DEF Axes
      <3>2. Stride(Block, d) = l * m
        <4>1. Stride(Block, 3) = Block.size[1] * Block.size[2]
          BY DEF Stride
        <4> QED
          BY <1>1, <2>3, <4>1, Zenon
      <3>3. a + b * l + x * l * m = (a + b * l + f * l * m) + (x - f) * (l * m)
        BY <1>5, Z3
      <3> QED
        BY <1>10, <1>11, <3>1, <3>2, <3>3, Zenon
    <2> QED
      BY <2>1, <2>2, <2>3 DEF Axes
  <1> QED
    BY <1>3, <1>4, <1>8, <1>12, Zenon DEF MovedTo

-----------------------------------------------------------------------------
(* The cells that a ghost cell may get its value from.                      *)

\* The number of the grid's cell at cell i of rank r, and for a ghost cell
\* outside in direction d, of the one that the grid's condition puts there.
Home(r, i) == Number(Position(r, i))
FoldedHome(r, i, d) ==
  LET position == Position(r, i)
  IN  Number([position EXCEPT ![d] = Folded(position[d], grid.cells[d])])

\* A ghost cell that is not in a corner lies at one side.
LEMMA GhostCell ==
  ASSUME HaloCase, NEW i \in Indices, NEW d \in 1 .. Dimension, d \in Outside(i)
  PROVE  \E n, c \in Nat :
           /\ n = BlockSize(grid, procs)[d] /\ n > 0 /\ (NarrowBlocks \/ n >= width)
           /\ Block.size[d] = n + 2 * width
           /\ c = Cell(Block, i)[d] /\ c < n + 2 * width
           /\ c < width \/ c >= n + width
           /\ SideOf(i, d) = IF c < width THEN 2 * d - 2 ELSE 2 * d - 1
           /\ SideOf(i, d) \in ActiveSides(grid.cells)
           /\ Direction(SideOf(i, d)) = d
           /\ IsBottom(SideOf(i, d)) <=> c < width
  <1>1. width \in Nat /\ Dimension \in 1 .. 3 /\ d \in Axes
    BY Dimensions, BlockVolume DEF Axes
  <1>2. PICK n \in Nat : /\ n = BlockSize(grid, procs)[d] /\ n > 0
                         /\ Block.size[d] = n + (IF d <= Dimension THEN 2 * width ELSE 0)
                         /\ NarrowBlocks \/ (d \in 1 .. Dimension => n >= width)
    BY <1>1, BlockVolume
  <1>3. Block.size[d] = n + 2 * width /\ (NarrowBlocks \/ n >= width)
    BY <1>1, <1>2
  <1>4. PICK c \in Nat : c = Cell(Block, i)[d] /\ c < n + 2 * width
    <2>1. Cell(Block, i)[d] \in 0 .. Block.size[d] - 1
      BY <1>1, CellsOfBlocks
    <2> QED
      BY <1>1, <1>3, <2>1
  <1>5. c < width \/ c >= n + width
    <2>1. PICK s \in Nat : s = Block.size[d] /\ s = n + 2 * width
      BY <1>1, <1>3
    <2>2. c \notin width .. s - width - 1
      BY <1>4, <2>1, Zenon DEF Outside
    <2> QED
      BY <1>1, <2>1, <2>2
  <1>6. SideOf(i, d) = IF c < width THEN 2 * d - 2 ELSE 2 * d - 1
    BY <1>4, Zenon DEF SideOf
  <1>7. PICK side \in 0 .. 5 : side = SideOf(i, d)
    BY <1>1, <1>6
  <1>8. side \in ActiveSides(grid.cells)
    <2>1. side \in 0 .. 2 * Dimension - 1
      BY <1>1, <1>6, <1>7
    <2> QED
      BY <2>1 DEF ActiveSides, Dimension
  <1>9. Direction(side) = d /\ (IsBottom(side) <=> c < width)
    BY <1>1, <1>6, <1>7 DEF Direction, IsBottom, Axes
  <1> QED
    BY <1>2, <1>3, <1>4, <1>5, <1>6, <1>7, <1>8, <1>9

\* Moved between the ghost cells, it is one of the block's own cells.
LEMMA MovedInside ==
  ASSUME HaloCase, NEW i \in Indices, NEW d \in 1 .. Dimension, Outside(i) = {d},
         NEW x \in width .. Block.size[d] - width - 1
  PROVE  /\ MovedTo(i, d, x) \in Indices /\ Outside(MovedTo(i, d, x)) = {}
         /\ Cell(Block, MovedTo(i, d, x)) = [Cell(Block, i) EXCEPT ![d] = x]
         /\ MovedTo(i, d, x) = i + (x - Cell(Block, i)[d]) * Stride(Block, d)
         /\ Cell(Block, i) \in [Axes -> Nat] /\ d \in Axes /\ x \in Nat
  <1>1. width \in Nat /\ Dimension \in 1 .. 3 /\ d \in Axes
    BY Dimensions, BlockVolume DEF Axes
  <1>2. PICK s \in Nat : s = Block.size[d]
    BY <1>1, BlockVolume DEF Volume
  <1>3. x \in 0 .. Block.size[d] - 1
    BY <1>1, <1>2
  <1>4. /\ MovedTo(i, d, x) \in Indices
        /\ Cell(Block, MovedTo(i, d, x)) = [Cell(Block, i) EXCEPT ![d] = x]
        /\ MovedTo(i, d, x) = i + (x - Cell(Block, i)[d]) * Stride(Block, d)
    BY <1>1, <1>3, MovedCell
  <1>5. Cell(Block, i) \in [Axes -> Nat]
    BY CellsOfBlocks
  <1>6. ASSUME NEW e \in 1 .. Dimension
        PROVE  e \notin Outside(MovedTo(i, d, x))
    <2>1. e \in Axes
      BY <1>1 DEF Axes
    <2>2. CASE e = d
      <3>1. Cell(Block, MovedTo(i, d, x))[e] = x
        BY <1>4, <1>5, <2>1, <2>2
      <3> QED
        BY <2>2, <3>1 DEF Outside
    <2>3. CASE e # d
      <3>1. Cell(Block, MovedTo(i, d, x))[e] = Cell(Block, i)[e]
        BY <1>4, <1>5, <2>1, <2>3
      <3>2. e \notin Outside(i)
        BY <2>3
      <3> QED
        BY <3>1, <3>2 DEF Outside
    <2> QED
      BY <2>2, <2>3
  <1>7. Outside(MovedTo(i, d, x)) = {}
    <2>1. Outside(MovedTo(i, d, x)) \subseteq 1 .. Dimension
      BY DEF Outside
    <2> QED
      BY <1>6, <2>1
  <1>8. x \in Nat
    BY <1>1, <1>2
  <1> QED
    BY <1>1, <1>4, <1>5, <1>7, <1>8

\* It is the cell that belongs there, if its coordinate across is right and
\* the two blocks lie at the same height.
LEMMA FoldedCell ==
  ASSUME HaloCase, NEW i \in Indices, NEW d \in 1 .. Dimension, Outside(i) = {d},
         NEW x \in width .. Block.size[d] - width - 1,
         NEW r \in Ranks, NEW q \in Ranks,
         \A e \in Axes \ {d} : domain[q].start[e] = domain[r].start[e],
         domain[q].start[d] + x - width
           = Folded(domain[r].start[d] + Cell(Block, i)[d] - width, grid.cells[d])
  PROVE  Home(q, MovedTo(i, d, x)) = FoldedHome(r, i, d)
  <1>1. /\ Cell(Block, MovedTo(i, d, x)) = [Cell(Block, i) EXCEPT ![d] = x]
        /\ Cell(Block, i) \in [Axes -> Nat] /\ d \in Axes /\ x \in Nat
    BY MovedInside
  <1>2. /\ Position(r, i)[d] = domain[r].start[d] + Cell(Block, i)[d] - width
        /\ Position(q, MovedTo(i, d, x))[d] = domain[q].start[d] + x - width
    <2>1. Cell(Block, MovedTo(i, d, x))[d] = x
      BY <1>1
    <2>2. d <= Dimension
      BY Dimensions
    <2> QED
      BY <1>1, <2>1, <2>2 DEF Position
  <1>3. PICK t : t = [Position(r, i) EXCEPT ![d] = Folded(Position(r, i)[d], grid.cells[d])]
    OBVIOUS
  <1>4. t = [e \in Axes |-> IF e = d THEN Folded(Position(r, i)[d], grid.cells[d]) ELSE Position(r, i)[e]]
    BY <1>3 DEF Position
  <1>5. ASSUME NEW e \in Axes
        PROVE  Position(q, MovedTo(i, d, x))[e] = t[e]
    <2>1. CASE e = d
      BY <1>2, <1>4, <2>1
    <2>2. CASE e # d
      <3>1. Cell(Block, MovedTo(i, d, x))[e] = Cell(Block, i)[e]
        BY <1>1, <2>2
      <3>2. domain[q].start[e] = domain[r].start[e]
        BY <2>2
      <3>3. t[e] = Position(r, i)[e]
        BY <1>4, <2>2
      <3> QED
        BY <3>1, <3>2, <3>3, Zenon DEF Position
    <2> QED
      BY <2>1, <2>2
  <1>6. Position(q, MovedTo(i, d, x)) = [e \in Axes |-> Position(q, MovedTo(i, d, x))[e]]
    BY DEF Position
  <1>7. Position(q, MovedTo(i, d, x)) = t
    BY <1>4, <1>5, <1>6
  <1> QED
    BY <1>3, <1>7, Zenon DEF Home, FoldedHome

LEMMA ModNear ==
  ASSUME NEW n \in Nat, n > 0, NEW x \in Int
  PROVE  /\ x \in 0 .. n - 1 => x % n = x
         /\ x \in -n .. -1 => x % n = x + n
         /\ x \in n .. 2 * n - 1 => x % n = x - n
  <1>1. PICK q \in Int, m \in 0 .. n - 1 : m = x % n /\ x = n * q + m
    BY Z3
  <1>2. x \in 0 .. n - 1 => m = x
    BY <1>1, Z3
  <1>3. x \in -n .. -1 => m = x + n
    BY <1>1, Z3
  <1>4. x \in n .. 2 * n - 1 => m = x - n
    BY <1>1, Z3
  <1> QED
    BY <1>1, <1>2, <1>3, <1>4

\* The grid's condition for a coordinate in the grid, before it and behind it.
LEMMA FoldedNear ==
  ASSUME NEW n \in Nat, n > 0, NEW x \in Int
  PROVE  /\ x \in 0 .. n - 1 => Folded(x, n) = x
         /\ grid.condition = "periodic" =>
              /\ x \in -n .. -1 => Folded(x, n) = x + n
              /\ x \in n .. 2 * n - 1 => Folded(x, n) = x - n
         /\ grid.condition # "periodic" =>
              /\ x \in -n .. -1 => Folded(x, n) = -1 - x
              /\ x \in n .. 2 * n - 1 => Folded(x, n) = 2 * n - 1 - x
  <1>1. PICK m : m = x % n
    OBVIOUS
  <1>2. /\ x \in 0 .. n - 1 => m = x
        /\ x \in -n .. -1 => m = x + n
        /\ x \in n .. 2 * n - 1 => m = x - n
    BY <1>1, ModNear
  <1>3. Folded(x, n) = IF grid.condition = "periodic" THEN m
                       ELSE IF x < 0 THEN -1 - x ELSE IF x >= n THEN 2 * n - 1 - x ELSE x
    BY <1>1, Zenon DEF Folded
  <1> QED
    BY <1>2, <1>3

\* The block of a rank in one direction.
LEMMA BlockAlong ==
  ASSUME HaloCase, NEW r \in Ranks, NEW d \in Axes
  PROVE  \E b, n, s \in Nat :
           /\ b = BlockSize(grid, procs)[d] /\ b = domain[r].cells[d] /\ b > 0
           /\ n = grid.cells[d] /\ s = domain[r].start[d] /\ s + b <= n
  <1>1. IInv /\ Done(r)
    BY CaseFound
  <1>2. PICK n \in Nat, m \in Nat, b \in Nat, k \in Nat :
           /\ n = grid.cells[d] /\ m = procs[d] /\ b = BlockSize(grid, procs)[d]
           /\ k = getCoordinates(r, procs)[d]
           /\ n = m * b /\ b > 0 /\ k < m
           /\ domain[r].start[d] = b * k /\ domain[r].cells[d] = b
    BY <1>1, BlockOf
  <1>3. PICK s \in Nat : s = b * k
    BY Z3
  <1>4. s + b <= n
    <2>1. PICK j \in Nat : m = k + 1 + j
      <3>1. m - k - 1 \in Nat /\ m = k + 1 + (m - k - 1)
        BY <1>2
      <3> QED
        BY <3>1
    <2>2. PICK p \in Nat : p = j * b
      BY Z3
    <2>3. (k + 1 + j) * b = b * k + b + j * b
      BY Z3
    <2>4. n = s + b + p
      BY <1>2, <1>3, <2>1, <2>2, <2>3, Zenon
    <2> QED
      BY <2>4
  <1> QED
    BY <1>2, <1>3, <1>4

\* A side is either left to MPI, or there is no rank across it.
LEMMA SideFound ==
  ASSUME HaloCase, NEW r \in Ranks, NEW side \in ActiveSides(grid.cells)
  PROVE  /\ domain[r].conditions[side] = "mpi" <=> domain[r].neighbours[side] # NoRank
         /\ domain[r].neighbours[side] # NoRank => domain[r].neighbours[side] \in Ranks
  <1>1. IInv /\ Done(r) /\ grid \in Grid /\ procs \in Triples /\ side \in 0 .. 5
    BY CaseFound, Dimensions
  <1>2. /\ domain[r].conditions[side] = LocalCondition(grid, procs, r, side)
        /\ domain[r].neighbours[side] = Neighbour(grid, procs, r, side)
    BY <1>1, FoundFields
  <1>3. CASE KeepsCondition(grid, procs, r, side)
    <2>1. domain[r].conditions[side] = grid.condition /\ domain[r].neighbours[side] = NoRank
      BY <1>2, <1>3, Zenon DEF LocalCondition, Neighbour
    <2>2. grid.condition # "mpi"
      BY <1>1 DEF Grid
    <2> QED
      BY <2>1, <2>2, Zenon
  <1>4. CASE ~KeepsCondition(grid, procs, r, side)
    <2>1. domain[r].conditions[side] = "mpi"
      BY <1>2, <1>4, Zenon DEF LocalCondition
    <2>2. Neighbour(grid, procs, r, side) \in RanksOf(procs)
      BY <1>1, <1>4, StepBack, Zenon DEF Ranks
    <2>3. domain[r].neighbours[side] \in Ranks
      BY <1>2, <2>2, Zenon DEF Ranks
    <2>4. NoRank \notin Ranks
      <3>1. \A p : NoRank \notin 0 .. p
        BY DEF NoRank
      <3> QED
        BY <3>1, Zenon DEF Ranks, RanksOf
    <2> QED
      BY <2>1, <2>3, <2>4, Zenon
  <1> QED
    BY <1>3, <1>4

\* Where a side keeps the grid's condition.
LEMMA KeptSide ==
  ASSUME HaloCase, NEW r \in Ranks, NEW side \in ActiveSides(grid.cells),
         domain[r].conditions[side] # "mpi",
         NEW b \in Nat, b = domain[r].cells[Direction(side)],
         NEW n \in Nat, n = grid.cells[Direction(side)],
         NEW s \in Nat, s = domain[r].start[Direction(side)]
  PROVE  /\ IsBottom(side) => s = 0
         /\ ~IsBottom(side) => s + b = n
         /\ grid.condition = "periodic" => b = n
  <1>1. KeptAtEnds /\ Done(r)
    BY CaseFound, EndsKept
  <1>2. /\ s = IF IsBottom(side) THEN 0 ELSE n - b
        /\ grid.condition = "periodic" => b = n
    BY <1>1, Zenon DEF KeptAtEnds
  <1> QED
    BY <1>2

\* The block across a side that is exchanged.
LEMMA AcrossSide ==
  ASSUME HaloCase, NEW r \in Ranks, NEW side \in ActiveSides(grid.cells),
         NEW q \in Ranks, q = domain[r].neighbours[side], NEW d, d = Direction(side)
  PROVE  /\ \A e \in Axes \ {d} : domain[q].start[e] = domain[r].start[e]
         /\ \E b, n, s, t \in Nat :
              /\ b = BlockSize(grid, procs)[d] /\ b > 0 /\ n = grid.cells[d]
              /\ s = domain[r].start[d] /\ t = domain[q].start[d]
              /\ s + b <= n /\ t + b <= n
              /\ IsBottom(side) => t + b = s \/ (grid.condition = "periodic" /\ s = 0 /\ t + b = n)
              /\ ~IsBottom(side) => s + b = t \/ (grid.condition = "periodic" /\ t = 0 /\ s + b = n)
  <1>1. BlocksAbut /\ Done(r) /\ Done(q)
    BY CaseFound, NextBlock
  <1>2. q # NoRank
    <2>1. \A p : NoRank \notin 0 .. p
      BY DEF NoRank
    <2> QED
      BY <2>1, Zenon DEF Ranks, RanksOf
  <1>3. d \in Axes /\ d = Direction(side)
    BY Dimensions DEF Axes
  <1>4. PICK b \in Nat, n \in Nat, s \in Nat :
           /\ b = BlockSize(grid, procs)[d] /\ b = domain[r].cells[d] /\ b > 0
           /\ n = grid.cells[d] /\ s = domain[r].start[d] /\ s + b <= n
    BY <1>3, BlockAlong
  <1>5. PICK c \in Nat, l \in Nat, t \in Nat :
           /\ c = BlockSize(grid, procs)[d] /\ c = domain[q].cells[d] /\ c > 0
           /\ l = grid.cells[d] /\ t = domain[q].start[d] /\ t + c <= l
    BY <1>3, BlockAlong
  <1>6. c = b /\ l = n
    BY <1>4, <1>5
  <1>7. \A e \in Axes \ {d} : domain[q].start[e] = domain[r].start[e]
    BY <1>1, <1>2, <1>3, Zenon DEF BlocksAbut
  <1>8. IsBottom(side) => \/ domain[r].start[d] = domain[q].start[d] + domain[q].cells[d]
                          \/ /\ grid.condition = "periodic" /\ domain[r].start[d] = 0
                             /\ domain[q].start[d] + domain[q].cells[d] = grid.cells[d]
    <2>1. LET f == Direction(side)
          IN  IsBottom(side) => \/ domain[r].start[f] = domain[q].start[f] + domain[q].cells[f]
                                \/ /\ grid.condition = "periodic" /\ domain[r].start[f] = 0
                                   /\ domain[q].start[f] + domain[q].cells[f] = grid.cells[f]
      BY <1>1, <1>2, Zenon DEF BlocksAbut
    <2> QED
      BY <1>3, <2>1, Zenon
  <1>9. ~IsBottom(side) => \/ domain[q].start[d] = domain[r].start[d] + domain[r].cells[d]
                           \/ /\ grid.condition = "periodic" /\ domain[q].start[d] = 0
                              /\ domain[r].start[d] + domain[r].cells[d] = grid.cells[d]
    <2>1. LET f == Direction(side)
          IN  ~IsBottom(side) => \/ domain[q].start[f] = domain[r].start[f] + domain[r].cells[f]
                                 \/ /\ grid.condition = "periodic" /\ domain[q].start[f] = 0
                                    /\ domain[r].start[f] + domain[r].cells[f] = grid.cells[f]
      BY <1>1, <1>2, Zenon DEF BlocksAbut
    <2> QED
      BY <1>3, <2>1, Zenon
  <1>10. IsBottom(side) => t + b = s \/ (grid.condition = "periodic" /\ s = 0 /\ t + b = n)
    BY <1>4, <1>5, <1>6, <1>8, Zenon
  <1>11. ~IsBottom(side) => s + b = t \/ (grid.condition = "periodic" /\ t = 0 /\ s + b = n)
    BY <1>4, <1>5, <1>6, <1>9, Zenon
  <1>12. \E b1, n1, s1, t1 \in Nat :
           /\ b1 = BlockSize(grid, procs)[d] /\ b1 > 0 /\ n1 = grid.cells[d]
           /\ s1 = domain[r].start[d] /\ t1 = domain[q].start[d]
           /\ s1 + b1 <= n1 /\ t1 + b1 <= n1
           /\ IsBottom(side) => t1 + b1 = s1 \/ (grid.condition = "periodic" /\ s1 = 0 /\ t1 + b1 = n1)
           /\ ~IsBottom(side) => s1 + b1 = t1 \/ (grid.condition = "periodic" /\ t1 = 0 /\ s1 + b1 = n1)
    <2>1. t + b <= n
      BY <1>5, <1>6
    <2> QED
      BY <1>4, <1>5, <1>10, <1>11, <2>1, Zenon
  <1> QED
    BY <1>7, <1>12, Zenon

-----------------------------------------------------------------------------
(* The boundary conditions.                                                 *)

\* The k-th step of BoundaryCPU.
BoundaryStep(r, k, m) ==
  LET side == (k - 1) \div Block.ghosts
      b    == ((k - 1) % Block.ghosts) + 1
  IN  IF domain[r].conditions[side] = "mpi" THEN m ELSE CopyPlane(m, Block, side, b)

Steps(r, f, n) == f = [k \in 0 .. n |-> IF k = 0 THEN memory[r] ELSE BoundaryStep(r, k, f[k - 1])]

\* The steps can be done, however many they are.
LEMMA StepsExist == \A r : \A n \in Nat : \E f : Steps(r, f, n)
  <1> SUFFICES ASSUME NEW r PROVE \A n \in Nat : \E f : Steps(r, f, n)
    OBVIOUS
  <1> DEFINE S == {n \in Nat : \E f : Steps(r, f, n)}
  <1>1. 0 \in S
    <2>1. PICK f : f = [k \in 0 .. 0 |-> memory[r]]
      OBVIOUS
    <2>2. f = [k \in 0 .. 0 |-> IF k = 0 THEN memory[r] ELSE BoundaryStep(r, k, f[k - 1])]
      <3>1. \A k \in 0 .. 0 : k = 0
        OBVIOUS
      <3> QED
        BY <2>1, <3>1, Zenon
    <2>3. 0 \in Nat
      OBVIOUS
    <2> QED
      BY <2>2, <2>3, Zenon DEF Steps
  <1>2. ASSUME NEW n \in Nat, n \in S
        PROVE  n + 1 \in S
    <2>1. PICK f : Steps(r, f, n)
      BY <1>2
    <2>2. PICK last : last = BoundaryStep(r, n + 1, f[n])
      OBVIOUS
    <2>3. PICK h : h = [k \in 0 .. n + 1 |-> IF k = n + 1 THEN last ELSE f[k]]
      OBVIOUS
    <2>4. ASSUME NEW k \in 0 .. n + 1
          PROVE  h[k] = IF k = 0 THEN memory[r] ELSE BoundaryStep(r, k, h[k - 1])
      <3>1. CASE k = 0
        <4>1. h[k] = f[0] /\ 0 \in 0 .. n
          BY <2>3, <3>1
        <4>2. f[0] = memory[r]
          BY <2>1, <4>1, Zenon DEF Steps
        <4> QED
          BY <3>1, <4>1, <4>2, Zenon
      <3>2. CASE k = n + 1
        <4>1. k - 1 = n /\ k # 0 /\ n # n + 1 /\ n \in 0 .. n + 1
          BY <3>2
        <4>2. h[k - 1] = f[n] /\ h[k] = last
          BY <2>3, <3>2, <4>1
        <4> QED
          BY <2>2, <3>2, <4>1, <4>2, Zenon
      <3>3. CASE k # 0 /\ k # n + 1
        <4>1. k \in 0 .. n /\ k - 1 \in 0 .. n + 1 /\ k - 1 # n + 1
          BY <3>3
        <4>2. h[k] = f[k] /\ h[k - 1] = f[k - 1]
          BY <2>3, <3>3, <4>1
        <4>3. f[k] = BoundaryStep(r, k, f[k - 1])
          BY <2>1, <3>3, <4>1, Zenon DEF Steps
        <4> QED
          BY <3>3, <4>2, <4>3, Zenon
      <3> QED
        BY <3>1, <3>2, <3>3
    <2>5. h = [k \in 0 .. n + 1 |-> h[k]]
      BY <2>3
    <2>6. Steps(r, h, n + 1)
      BY <2>4, <2>5, Zenon DEF Steps
    <2> QED
      BY <2>6
  <1> HIDE DEF S
  <1>3. \A n \in Nat : n \in S
    BY <1>1, <1>2, AllNumbers
  <1> QED
    BY <1>3 DEF S

LEMMA BoundaryRun ==
  ASSUME HaloCase, NEW r \in Ranks
  PROVE  \E f : Steps(r, f, 2 * Dimension * width) /\ WithBoundary(r) = f[2 * Dimension * width]
  <1>1. Block.ghosts = width /\ width \in Nat /\ Dimension \in 1 .. 3
    BY BlockVolume, Dimensions
  <1>2. PICK n \in Nat : n = 2 * Dimension * width
    <2>1. PICK d \in Nat : d = 2 * Dimension
      BY <1>1
    <2>2. PICK w \in Nat : w = width
      BY <1>1
    <2>3. PICK n \in Nat : n = d * w
      BY Z3
    <2> QED
      BY <2>1, <2>2, <2>3
  <1> DEFINE Next0(f, k) == IF k = 0 THEN memory[r] ELSE BoundaryStep(r, k, f[k - 1])
             after == CHOOSE f : f = [k \in 0 .. n |-> Next0(f, k)]
  <1>3. WithBoundary(r) = after[n]
    BY <1>1, <1>2, Zenon DEF WithBoundary, BoundaryStep
  <1>4. after = [k \in 0 .. n |-> Next0(after, k)]
    <2>1. \E f : f = [k \in 0 .. n |-> Next0(f, k)]
      BY StepsExist, Zenon DEF Steps
    <2> QED
      BY <2>1, Zenon
  <1>5. Steps(r, after, n)
    BY <1>4, Zenon DEF Steps
  <1> QED
    BY <1>2, <1>3, <1>5, Zenon

\* A memory in which the rank's own cells are right.
OwnRight(r, m) == \A i \in Indices : Outside(i) = {} => m[i] = Home(r, i)

\* One copy puts what belongs there into the plane that it writes, and into
\* that plane only.
LEMMA CopyIsRight ==
  ASSUME HaloCase, ~NarrowBlocks, NEW r \in Ranks, NEW side \in ActiveSides(grid.cells),
         domain[r].conditions[side] # "mpi", NEW b \in 1 .. width, NEW m, OwnRight(r, m)
  PROVE  /\ OwnRight(r, CopyPlane(m, Block, side, b))
         /\ \A i \in Indices : \A d \in 1 .. Dimension : Outside(i) = {d} =>
              CopyPlane(m, Block, side, b)[i] =
                IF d = Direction(side) /\ Cell(Block, i)[d] = WrittenPlane(Block, side, b)
                THEN FoldedHome(r, i, d) ELSE m[i]
  <1>1. PICK d \in Axes : d = Direction(side) /\ d \in 1 .. Dimension
    BY Dimensions DEF Axes
  <1>2. Block.ghosts = width /\ width \in Nat /\ Dimension \in 1 .. 3
    BY BlockVolume, Dimensions
  <1>3. PICK w \in Nat : w = width
    BY <1>2
  <1>4. PICK n \in Nat, l \in Nat, s \in Nat :
           /\ n = BlockSize(grid, procs)[d] /\ n = domain[r].cells[d] /\ n > 0
           /\ l = grid.cells[d] /\ s = domain[r].start[d] /\ s + n <= l
    BY BlockAlong
  <1>5. Block.size[d] = n + 2 * w /\ w <= n
    <2>1. PICK k \in Nat : /\ k = BlockSize(grid, procs)[d] /\ k > 0
                           /\ Block.size[d] = k + (IF d <= Dimension THEN 2 * width ELSE 0)
                           /\ NarrowBlocks \/ (d \in 1 .. Dimension => k >= width)
      BY BlockVolume
    <2>2. k = n /\ d <= Dimension
      <3>1. k = n
        BY <1>4, <2>1, Zenon
      <3> QED
        BY <1>1, <1>2, <3>1
    <2> QED
      BY <1>1, <1>3, <2>1, <2>2
  <1>6. /\ IsBottom(side) => s = 0
        /\ ~IsBottom(side) => s + n = l
        /\ grid.condition = "periodic" => n = l
    BY <1>1, <1>4, KeptSide
  <1>7. PICK v : v = WrittenPlane(Block, side, b)
    OBVIOUS
  <1>8. v = IF IsBottom(side) THEN w - b ELSE n + w - 1 + b
    <2>1. v = IF IsBottom(side) THEN w - b ELSE Block.size[d] - w - 1 + b
      BY <1>1, <1>2, <1>3, <1>7, Zenon DEF WrittenPlane
    <2> QED
      BY <1>5, <2>1
  <1>9. PICK x : x = IF grid.condition = "periodic" THEN PeriodicPlane(Block, side, b)
                     ELSE NeumannPlane(Block, side, b)
    OBVIOUS
  <1>10. x = IF grid.condition = "periodic"
             THEN IF IsBottom(side) THEN w + n - b ELSE w - 1 + b
             ELSE IF IsBottom(side) THEN w + b - 1 ELSE n + w - b
    <2>1. PeriodicPlane(Block, side, b) =
            IF IsBottom(side) THEN w + (Block.size[d] - 2 * w) - b
            ELSE Block.size[d] - w - 1 - (Block.size[d] - 2 * w) + b
      BY <1>1, <1>2, <1>3, Zenon DEF PeriodicPlane
    <2>2. NeumannPlane(Block, side, b) = IF IsBottom(side) THEN w + b - 1 ELSE Block.size[d] - w - b
      BY <1>1, <1>2, <1>3, Zenon DEF NeumannPlane
    <2>3. PeriodicPlane(Block, side, b) = IF IsBottom(side) THEN w + n - b ELSE w - 1 + b
      BY <1>3, <1>5, <2>1
    <2>4. NeumannPlane(Block, side, b) = IF IsBottom(side) THEN w + b - 1 ELSE n + w - b
      BY <1>3, <1>5, <2>2
    <2> QED
      BY <1>9, <2>3, <2>4, Zenon
  <1>11. x \in width .. Block.size[d] - width - 1
    BY <1>3, <1>5, <1>10
  <1>12. \A i \in Indices : CopyPlane(m, Block, side, b)[i] =
                              IF Cell(Block, i)[d] = v THEN m[MovedTo(i, d, x)] ELSE m[i]
    BY <1>1, <1>7, <1>9 DEF CopyPlane, MovedTo
  <1>13. ASSUME NEW i \in Indices, Cell(Block, i)[d] = v
         PROVE  d \in Outside(i)
    <2>1. v \notin width .. Block.size[d] - width - 1
      BY <1>3, <1>5, <1>8
    <2> QED
      BY <1>1, <1>13, <2>1, Zenon DEF Outside
  <1>14. OwnRight(r, CopyPlane(m, Block, side, b))
    <2> SUFFICES ASSUME NEW i \in Indices, Outside(i) = {}
                 PROVE  CopyPlane(m, Block, side, b)[i] = Home(r, i)
      BY Zenon DEF OwnRight
    <2>1. Cell(Block, i)[d] # v
      BY <1>13
    <2>2. m[i] = Home(r, i)
      BY Zenon DEF OwnRight
    <2> QED
      BY <1>12, <2>1, <2>2
  <1>15. ASSUME NEW i \in Indices, Outside(i) = {d}, Cell(Block, i)[d] = v
         PROVE  m[MovedTo(i, d, x)] = FoldedHome(r, i, d)
    <2>1. MovedTo(i, d, x) \in Indices /\ Outside(MovedTo(i, d, x)) = {}
      BY <1>1, <1>11, <1>15, MovedInside
    <2>2. m[MovedTo(i, d, x)] = Home(r, MovedTo(i, d, x))
      BY <2>1, Zenon DEF OwnRight
    <2>3. PICK c \in Nat : c = v
      BY <1>3, <1>8
    <2>4. s + (x - w) = Folded(s + (c - w), l)
      <3>1. PICK y \in Int : y = s + (c - w)
        OBVIOUS
      <3>2. l > 0
        BY <1>4
      <3>3. CASE IsBottom(side)
        <4>1. y \in -l .. -1
              /\ s + (x - w) = IF grid.condition = "periodic" THEN y + l ELSE -1 - y
          <5>1. s = 0 /\ c = w - b /\ b <= w /\ b >= 1
            BY <1>3, <1>6, <1>8, <2>3, <3>3
          <5>2. y = -b /\ y \in -l .. -1
            BY <1>4, <1>5, <3>1, <5>1
          <5>3. grid.condition = "periodic" => n = l /\ x = w + n - b
            BY <1>6, <1>10, <3>3
          <5>4. grid.condition # "periodic" => x = w + b - 1
            BY <1>10, <3>3
          <5> QED
            BY <5>1, <5>2, <5>3, <5>4
        <4> QED
          BY <3>1, <3>2, <4>1, FoldedNear
      <3>4. CASE ~IsBottom(side)
        <4>1. y \in l .. 2 * l - 1
              /\ s + (x - w) = IF grid.condition = "periodic" THEN y - l ELSE 2 * l - 1 - y
          BY <1>3, <1>4, <1>5, <1>6, <1>8, <1>10, <2>3, <3>1, <3>4
        <4> QED
          BY <3>1, <3>2, <4>1, FoldedNear
      <3> QED
        BY <3>3, <3>4
    <2>5. domain[r].start[d] + x - width
            = Folded(domain[r].start[d] + Cell(Block, i)[d] - width, grid.cells[d])
      BY <1>3, <1>4, <1>15, <2>3, <2>4, Zenon
    <2>6. Home(r, MovedTo(i, d, x)) = FoldedHome(r, i, d)
      BY <1>1, <1>11, <1>15, <2>5, FoldedCell
    <2> QED
      BY <2>2, <2>6, Zenon
  <1>16. ASSUME NEW i \in Indices, NEW e \in 1 .. Dimension, Outside(i) = {e}
         PROVE  CopyPlane(m, Block, side, b)[i] =
                  IF e = Direction(side) /\ Cell(Block, i)[e] = WrittenPlane(Block, side, b)
                  THEN FoldedHome(r, i, e) ELSE m[i]
    <2>1. CASE Cell(Block, i)[d] = v
      <3>1. e = d
        BY <1>13, <1>16, <2>1
      <3>2. CopyPlane(m, Block, side, b)[i] = m[MovedTo(i, d, x)]
        BY <1>12, <2>1
      <3> QED
        BY <1>1, <1>7, <1>15, <1>16, <2>1, <3>1, <3>2, Zenon
    <2>2. CASE Cell(Block, i)[d] # v
      <3>1. CopyPlane(m, Block, side, b)[i] = m[i]
        BY <1>12, <2>2
      <3> QED
        BY <1>1, <1>7, <2>2, <3>1, Zenon
    <2> QED
      BY <2>1, <2>2
  <1> QED
    BY <1>14, <1>16, Zenon

\* How far outside a ghost cell lies, and in which step it is written.
Depth(i, d) ==
  IF Cell(Block, i)[d] < width THEN width - Cell(Block, i)[d]
  ELSE Cell(Block, i)[d] - (Block.size[d] - width - 1)
StepOf(i, d) == SideOf(i, d) * width + Depth(i, d)

LEMMA StepOfCell ==
  ASSUME HaloCase, NEW i \in Indices, NEW d \in 1 .. Dimension, d \in Outside(i)
  PROVE  /\ SideOf(i, d) \in ActiveSides(grid.cells) /\ Direction(SideOf(i, d)) = d
         /\ Depth(i, d) \in 1 .. width
         /\ Cell(Block, i)[d] = WrittenPlane(Block, SideOf(i, d), Depth(i, d))
         /\ StepOf(i, d) \in Nat \ {0} /\ StepOf(i, d) <= 2 * Dimension * width
         /\ (StepOf(i, d) - 1) \div width = SideOf(i, d)
         /\ ((StepOf(i, d) - 1) % width) + 1 = Depth(i, d)
  <1>1. PICK n \in Nat, c \in Nat :
           /\ n = BlockSize(grid, procs)[d] /\ n > 0 /\ (NarrowBlocks \/ n >= width)
           /\ Block.size[d] = n + 2 * width
           /\ c = Cell(Block, i)[d] /\ c < n + 2 * width
           /\ c < width \/ c >= n + width
           /\ SideOf(i, d) = IF c < width THEN 2 * d - 2 ELSE 2 * d - 1
           /\ SideOf(i, d) \in ActiveSides(grid.cells)
           /\ Direction(SideOf(i, d)) = d
           /\ IsBottom(SideOf(i, d)) <=> c < width
    BY GhostCell
  <1>2. Dimension \in 1 .. 3 /\ width \in Nat /\ Block.ghosts = width
    BY Dimensions, BlockVolume
  <1>3. PICK w \in Nat : w = width
    BY <1>2
  <1>4. PICK k \in Nat : k = SideOf(i, d) /\ k <= 2 * Dimension - 1
    <2>1. SideOf(i, d) \in 0 .. 2 * Dimension - 1
      BY <1>1 DEF ActiveSides, Dimension
    <2> QED
      BY <1>2, <2>1
  <1>5. PICK b : b = Depth(i, d)
    OBVIOUS
  <1>6. b = IF c < w THEN w - c ELSE c - (n + w - 1)
    <2>1. b = IF c < w THEN w - c ELSE c - (Block.size[d] - w - 1)
      BY <1>1, <1>3, <1>5, Zenon DEF Depth
    <2> QED
      BY <1>1, <1>3, <2>1
  <1>7. b \in 1 .. w
    BY <1>1, <1>3, <1>6
  <1>8. c = WrittenPlane(Block, k, b)
    <2>1. WrittenPlane(Block, k, b) = IF IsBottom(k) THEN w - b ELSE Block.size[d] - w - 1 + b
      BY <1>1, <1>2, <1>3, <1>4, Zenon DEF WrittenPlane
    <2> QED
      BY <1>1, <1>3, <1>4, <1>6, <2>1
  <1>9. PICK j \in 0 .. w - 1 : b = j + 1
    <2>1. b - 1 \in 0 .. w - 1 /\ b = (b - 1) + 1
      BY <1>7
    <2> QED
      BY <2>1
  <1>10. PICK e \in Nat : e = k * w
    BY Z3
  <1>11. StepOf(i, d) = e + (j + 1) /\ StepOf(i, d) - 1 = j + e
    <2>1. StepOf(i, d) = e + b
      BY <1>3, <1>4, <1>5, <1>10, Zenon DEF StepOf
    <2> QED
      BY <1>9, <2>1
  <1>12. (j + e) \div w = k /\ (j + e) % w = j
    <2>1. w > 0
      BY <1>9
    <2> QED
      BY <1>10, <2>1, DivModUnique
  <1>13. e + (j + 1) <= 2 * Dimension * width
    <2>1. PICK m \in Nat : m = 2 * Dimension - 1 - k
      BY <1>2, <1>4
    <2>2. PICK p \in Nat : p = m * w
      BY Z3
    <2>3. 2 * Dimension = k + 1 + m
      BY <1>2, <1>4, <2>1
    <2>4. (k + 1 + m) * w = k * w + w + m * w
      BY Z3
    <2>5. 2 * Dimension * width = e + w + p
      BY <1>3, <1>10, <2>2, <2>3, <2>4, Zenon
    <2> QED
      BY <1>9, <2>5
  <1>14. /\ StepOf(i, d) \in Nat \ {0} /\ StepOf(i, d) <= 2 * Dimension * width
    <2>1. e + (j + 1) \in Nat \ {0}
      OBVIOUS
    <2> QED
      BY <1>11, <1>13, <2>1, Zenon
  <1>15. (StepOf(i, d) - 1) \div width = k /\ ((StepOf(i, d) - 1) % width) + 1 = b
    BY <1>3, <1>9, <1>11, <1>12, Zenon
  <1> QED
    BY <1>1, <1>3, <1>4, <1>5, <1>7, <1>8, <1>14, <1>15, Zenon

\* The ghost cells whose step is done are right.
DoneBy(r, m, k) ==
  \A i \in Indices : \A d \in 1 .. Dimension :
    /\ Outside(i) = {d} /\ domain[r].conditions[SideOf(i, d)] # "mpi"
    /\ StepOf(i, d) <= k
    => m[i] = FoldedHome(r, i, d)

LEMMA StepIsRight ==
  ASSUME HaloCase, ~NarrowBlocks, NEW r \in Ranks, NEW m, NEW k \in Nat,
         k + 1 <= 2 * Dimension * width, OwnRight(r, m), DoneBy(r, m, k)
  PROVE  OwnRight(r, BoundaryStep(r, k + 1, m)) /\ DoneBy(r, BoundaryStep(r, k + 1, m), k + 1)
  <1>1. Dimension \in 1 .. 3 /\ width \in Nat /\ Block.ghosts = width
    BY Dimensions, BlockVolume
  <1>2. PICK w \in Nat : w = width
    BY <1>1
  <1>3. PICK e \in Nat : e = 2 * Dimension
    BY <1>1
  <1>4. w > 0
    <2>1. w = 0 => e * w = 0
      BY Z3
    <2>2. PICK p \in Nat : p = e * w
      BY Z3
    <2>3. k + 1 <= p
      BY <1>2, <1>3, <2>2, Zenon
    <2>4. p # 0
      BY <2>3
    <2> QED
      BY <2>1, <2>2, <2>4
  <1>5. PICK side \in Nat, j \in 0 .. w - 1 : /\ side = k \div w /\ j = k % w
                                              /\ k = w * side + j
    BY <1>4, DivMod
  <1>6. side \in ActiveSides(grid.cells)
    <2>1. side < e
      <3>1. k < e * w
        <4>1. PICK p \in Nat : p = e * w
          BY Z3
        <4>2. k + 1 <= p
          BY <1>2, <1>3, <4>1, Zenon
        <4> QED
          BY <4>1, <4>2
      <3> QED
        BY <1>4, <1>5, <3>1, Z3
    <2>2. side \in 0 .. 2 * Dimension - 1
      BY <1>1, <1>3, <2>1
    <2> QED
      BY <2>2 DEF ActiveSides, Dimension
  <1>7. PICK b : b = j + 1
    OBVIOUS
  <1>8. b \in 1 .. width
    BY <1>2, <1>5, <1>7
  <1>9. BoundaryStep(r, k + 1, m) =
          IF domain[r].conditions[side] = "mpi" THEN m ELSE CopyPlane(m, Block, side, b)
    <2>1. (k + 1) - 1 = k
      OBVIOUS
    <2>2. (k \div Block.ghosts) = side /\ (k % Block.ghosts) + 1 = b
      BY <1>1, <1>2, <1>5, <1>7, Zenon
    <2> QED
      BY <2>1, <2>2, Zenon DEF BoundaryStep
  <1>10. ASSUME NEW i \in Indices, NEW d \in 1 .. Dimension, Outside(i) = {d},
                StepOf(i, d) <= k + 1, ~(StepOf(i, d) <= k)
         PROVE  /\ SideOf(i, d) = side /\ Direction(side) = d
                /\ Cell(Block, i)[d] = WrittenPlane(Block, side, b)
    <2>1. d \in Outside(i)
      BY <1>10
    <2>2. /\ Direction(SideOf(i, d)) = d
          /\ Cell(Block, i)[d] = WrittenPlane(Block, SideOf(i, d), Depth(i, d))
          /\ StepOf(i, d) \in Nat
          /\ (StepOf(i, d) - 1) \div width = SideOf(i, d)
          /\ ((StepOf(i, d) - 1) % width) + 1 = Depth(i, d)
      BY <2>1, StepOfCell
    <2>3. StepOf(i, d) - 1 = k
      BY <1>10, <2>2
    <2>4. SideOf(i, d) = side /\ Depth(i, d) = b
      BY <1>2, <1>5, <1>7, <2>2, <2>3, Zenon
    <2> QED
      BY <2>2, <2>4, Zenon
  <1>11. CASE domain[r].conditions[side] = "mpi"
    <2>1. BoundaryStep(r, k + 1, m) = m
      BY <1>9, <1>11
    <2>2. DoneBy(r, m, k + 1)
      BY <1>10, <1>11, Zenon DEF DoneBy
    <2> QED
      BY <2>1, <2>2, Zenon
  <1>12. CASE domain[r].conditions[side] # "mpi"
    <2>1. PICK new : new = CopyPlane(m, Block, side, b)
      OBVIOUS
    <2>2. BoundaryStep(r, k + 1, m) = new
      BY <1>9, <1>12, <2>1
    <2>3. /\ OwnRight(r, new)
          /\ \A i \in Indices : \A d \in 1 .. Dimension : Outside(i) = {d} =>
               new[i] =
                 IF d = Direction(side) /\ Cell(Block, i)[d] = WrittenPlane(Block, side, b)
                 THEN FoldedHome(r, i, d) ELSE m[i]
      BY <1>6, <1>8, <1>12, <2>1, CopyIsRight
    <2>4. DoneBy(r, new, k + 1)
      <3> SUFFICES ASSUME NEW i \in Indices, NEW d \in 1 .. Dimension, Outside(i) = {d},
                          domain[r].conditions[SideOf(i, d)] # "mpi", StepOf(i, d) <= k + 1
                   PROVE  new[i] = FoldedHome(r, i, d)
        BY Zenon DEF DoneBy
      <3>1. CASE StepOf(i, d) <= k
        <4>1. m[i] = FoldedHome(r, i, d)
          BY <3>1, Zenon DEF DoneBy
        <4> QED
          BY <2>3, <4>1, Zenon
      <3>2. CASE ~(StepOf(i, d) <= k)
        BY <1>10, <2>3, <3>2, Zenon
      <3> QED
        BY <3>1, <3>2
    <2> QED
      BY <2>2, <2>3, <2>4, Zenon
  <1> QED
    BY <1>11, <1>12

\* After all of them, so is every ghost cell at a side that MPI does not fill.
LEMMA BoundaryIsRight ==
  ASSUME HaloCase, ~NarrowBlocks, NEW r \in Ranks, OwnRight(r, memory[r])
  PROVE  /\ OwnRight(r, WithBoundary(r))
         /\ \A i \in Indices : \A d \in 1 .. Dimension :
              Outside(i) = {d} /\ domain[r].conditions[SideOf(i, d)] # "mpi"
                => WithBoundary(r)[i] = FoldedHome(r, i, d)
  <1>1. PICK n \in Nat : n = 2 * Dimension * width
    <2>1. Dimension \in 1 .. 3 /\ width \in Nat
      BY Dimensions, BlockVolume
    <2>2. PICK d \in Nat, w \in Nat : d = 2 * Dimension /\ w = width
      BY <2>1
    <2>3. PICK n \in Nat : n = d * w
      BY Z3
    <2> QED
      BY <2>2, <2>3
  <1>2. PICK f : Steps(r, f, n) /\ WithBoundary(r) = f[n]
    BY <1>1, BoundaryRun
  <1> DEFINE S == {k \in Nat : k <= n => OwnRight(r, f[k]) /\ DoneBy(r, f[k], k)}
  <1>3. 0 \in S
    <2>1. 0 \in 0 .. n
      OBVIOUS
    <2>2. f[0] = memory[r]
      BY <1>2, <2>1, Zenon DEF Steps
    <2>3. ASSUME NEW i \in Indices, NEW d \in 1 .. Dimension, Outside(i) = {d}
          PROVE  ~(StepOf(i, d) <= 0)
      <3>1. d \in Outside(i)
        BY <2>3
      <3>2. StepOf(i, d) \in Nat \ {0}
        BY <3>1, StepOfCell
      <3> QED
        BY <3>2
    <2>4. DoneBy(r, f[0], 0)
      BY <2>3, Zenon DEF DoneBy
    <2> QED
      BY <2>2, <2>4
  <1>4. ASSUME NEW k \in Nat, k \in S
        PROVE  k + 1 \in S
    <2> SUFFICES ASSUME k + 1 <= n
                 PROVE  OwnRight(r, f[k + 1]) /\ DoneBy(r, f[k + 1], k + 1)
      OBVIOUS
    <2>1. k <= n /\ k + 1 \in 0 .. n /\ k + 1 # 0 /\ (k + 1) - 1 = k
      OBVIOUS
    <2>2. OwnRight(r, f[k]) /\ DoneBy(r, f[k], k)
      BY <1>4, <2>1
    <2>3. f[k + 1] = BoundaryStep(r, k + 1, f[k])
      BY <1>2, <2>1, Zenon DEF Steps
    <2>4. k + 1 <= 2 * Dimension * width
      BY <1>1
    <2> QED
      BY <2>2, <2>3, <2>4, StepIsRight
  <1> HIDE DEF S
  <1>5. \A k \in Nat : k \in S
    BY <1>3, <1>4, AllNumbers
  <1>6. OwnRight(r, f[n]) /\ DoneBy(r, f[n], n)
    BY <1>5 DEF S
  <1>7. ASSUME NEW i \in Indices, NEW d \in 1 .. Dimension, Outside(i) = {d}
        PROVE  StepOf(i, d) <= n
    <2>1. d \in Outside(i)
      BY <1>7
    <2> QED
      BY <1>1, <2>1, StepOfCell
  <1> QED
    BY <1>2, <1>6, <1>7, Zenon DEF DoneBy

-----------------------------------------------------------------------------
(* The exchange.                                                            *)

\* The ghost layer of a side, by where its cells lie.
LEMMA LayerOfSide ==
  ASSUME HaloCase, NEW side \in ActiveSides(grid.cells), NEW i \in Indices
  PROVE  /\ i \in GhostLayer(side) => /\ Direction(side) \in Outside(i)
                                      /\ SideOf(i, Direction(side)) = side
         /\ Direction(side) \in Outside(i) /\ SideOf(i, Direction(side)) = side
              => i \in GhostLayer(side)
  <1>1. PICK d \in Axes : d = Direction(side) /\ d \in 1 .. Dimension
    BY Dimensions DEF Axes
  <1>2. side \in 0 .. 5 /\ Dimension \in 1 .. 3 /\ width \in Nat
    BY Dimensions, BlockVolume
  <1>3. PICK n \in Nat : n > 0 /\ Block.size[d] = n + 2 * width
    <2>1. PICK n \in Nat : /\ n = BlockSize(grid, procs)[d] /\ n > 0
                           /\ Block.size[d] = n + (IF d <= Dimension THEN 2 * width ELSE 0)
                           /\ NarrowBlocks \/ (d \in 1 .. Dimension => n >= width)
      BY BlockVolume
    <2>2. d <= Dimension
      BY <1>1, <1>2
    <2> QED
      BY <2>1, <2>2
  <1>4. PICK c \in Nat : c = Cell(Block, i)[d] /\ c < n + 2 * width
    <2>1. Cell(Block, i)[d] \in 0 .. Block.size[d] - 1
      BY CellsOfBlocks
    <2> QED
      BY <1>2, <1>3, <2>1
  <1>5. d \in Outside(i) <=> c < width \/ c >= n + width
    <2>1. d \in Outside(i) <=> c \notin width .. Block.size[d] - width - 1
      BY <1>1, <1>4, Zenon DEF Outside
    <2> QED
      BY <1>2, <1>3, <1>4, <2>1
  <1>6. SideOf(i, d) = side <=> (c < width <=> IsBottom(side))
    <2>1. SideOf(i, d) = IF c < width THEN 2 * d - 2 ELSE 2 * d - 1
      BY <1>4, Zenon DEF SideOf
    <2>2. side = IF IsBottom(side) THEN 2 * d - 2 ELSE 2 * d - 1
      BY <1>1, <1>2 DEF Direction, IsBottom
    <2>3. 2 * d - 2 # 2 * d - 1
      BY <1>1, <1>2
    <2> QED
      BY <2>1, <2>2, <2>3
  <1>7. i \in GhostLayer(side) <=> IF IsBottom(side) THEN c < width ELSE c >= n + width
    <2>1. i \in GhostLayer(side) <=>
            c \in IF IsBottom(side) THEN 0 .. width - 1
                  ELSE Block.size[d] - width .. Block.size[d] - 1
      BY <1>1, <1>4, Zenon DEF GhostLayer
    <2> QED
      BY <1>2, <1>3, <1>4, <2>1
  <1> QED
    BY <1>1, <1>2, <1>5, <1>6, <1>7

\* They are cells of the neighbour's own that belong into the ghost cells.
LEMMA CellAcross ==
  ASSUME HaloCase, ~NarrowBlocks, NEW r \in Ranks, NEW side \in ActiveSides(grid.cells),
         NEW q \in Ranks, q = domain[r].neighbours[side],
         NEW d \in 1 .. Dimension, d = Direction(side),
         NEW i \in Indices, Outside(i) = {d}, SideOf(i, d) = side,
         NEW k \in DOMAIN strips[side].received, strips[side].received[k] = i
  PROVE  /\ k \in DOMAIN strips[Opposite(side)].sent
         /\ strips[Opposite(side)].sent[k] \in Indices
         /\ Outside(strips[Opposite(side)].sent[k]) = {}
         /\ Home(q, strips[Opposite(side)].sent[k]) = FoldedHome(r, i, d)
  <1>1. width \in Nat /\ d \in Axes /\ d \in Outside(i)
    BY BlockVolume, Dimensions DEF Axes
  <1>2. PICK w \in Nat : w = width
    BY <1>1
  <1>3. PICK b \in Nat, n \in Nat, s \in Nat, t \in Nat :
          /\ b = BlockSize(grid, procs)[d] /\ b > 0 /\ n = grid.cells[d]
          /\ s = domain[r].start[d] /\ t = domain[q].start[d]
          /\ s + b <= n /\ t + b <= n
          /\ IsBottom(side) => t + b = s \/ (grid.condition = "periodic" /\ s = 0 /\ t + b = n)
          /\ ~IsBottom(side) => s + b = t \/ (grid.condition = "periodic" /\ t = 0 /\ s + b = n)
    BY AcrossSide
  <1>4. \A e \in Axes \ {d} : domain[q].start[e] = domain[r].start[e]
    BY AcrossSide
  <1>5. PICK c \in Nat :
           /\ b >= w /\ Block.size[d] = b + 2 * w
           /\ c = Cell(Block, i)[d] /\ c < b + 2 * w
           /\ c < w \/ c >= b + w
           /\ IsBottom(side) <=> c < w
    <2>1. PICK m \in Nat, c \in Nat :
           /\ m = BlockSize(grid, procs)[d] /\ m > 0 /\ (NarrowBlocks \/ m >= width)
           /\ Block.size[d] = m + 2 * width
           /\ c = Cell(Block, i)[d] /\ c < m + 2 * width
           /\ c < width \/ c >= m + width
           /\ SideOf(i, d) = IF c < width THEN 2 * d - 2 ELSE 2 * d - 1
           /\ SideOf(i, d) \in ActiveSides(grid.cells)
           /\ Direction(SideOf(i, d)) = d
           /\ IsBottom(SideOf(i, d)) <=> c < width
      BY <1>1, GhostCell
    <2>2. m = b
      BY <1>3, <2>1
    <2> QED
      BY <1>2, <2>1, <2>2
  <1>6. PICK x \in Nat : x = IF IsBottom(side) THEN c + b ELSE c - b
    <2>1. (IF IsBottom(side) THEN c + b ELSE c - b) \in Nat
      BY <1>5
    <2> QED
      BY <2>1
  <1>7. x \in width .. Block.size[d] - width - 1
    BY <1>2, <1>5, <1>6
  <1>8. /\ MovedTo(i, d, x) \in Indices /\ Outside(MovedTo(i, d, x)) = {}
        /\ MovedTo(i, d, x) = i + (x - c) * Stride(Block, d)
    BY <1>5, <1>7, MovedInside
  <1>9. /\ k \in DOMAIN strips[Opposite(side)].sent
        /\ strips[Opposite(side)].sent[k]
             = strips[side].received[k] + (IF IsBottom(side) THEN b ELSE -b) * Stride(Block, d)
    BY <1>3, SentApart
  <1>10. x - c = IF IsBottom(side) THEN b ELSE -b
    BY <1>6
  <1>11. strips[Opposite(side)].sent[k] = MovedTo(i, d, x)
    BY <1>8, <1>9, <1>10, Zenon
  <1>12. t + (x - w) = Folded(s + (c - w), n)
    <2>1. PICK y \in Int : y = s + (c - w)
      OBVIOUS
    <2>2. n > 0
      BY <1>3
    <2>3. CASE IsBottom(side)
      <3>1. x = c + b /\ c < w
        BY <1>5, <1>6, <2>3
      <3>2. CASE t + b = s
        <4>1. y \in 0 .. n - 1 /\ t + (x - w) = y
          BY <1>3, <1>5, <2>1, <3>1, <3>2
        <4> QED
          BY <2>1, <2>2, <4>1, FoldedNear
      <3>3. CASE grid.condition = "periodic" /\ s = 0 /\ t + b = n
        <4>1. y \in -n .. -1 /\ t + (x - w) = y + n
          BY <1>3, <1>5, <2>1, <3>1, <3>3
        <4> QED
          BY <2>1, <2>2, <3>3, <4>1, FoldedNear
      <3> QED
        BY <1>3, <2>3, <3>2, <3>3
    <2>4. CASE ~IsBottom(side)
      <3>1. x = c - b /\ c >= b + w /\ c < b + 2 * w
        BY <1>5, <1>6, <2>4
      <3>2. CASE s + b = t
        <4>1. y \in 0 .. n - 1 /\ t + (x - w) = y
          BY <1>3, <1>5, <2>1, <3>1, <3>2
        <4> QED
          BY <2>1, <2>2, <4>1, FoldedNear
      <3>3. CASE grid.condition = "periodic" /\ t = 0 /\ s + b = n
        <4>1. y \in n .. 2 * n - 1 /\ t + (x - w) = y - n
          BY <1>3, <1>5, <2>1, <3>1, <3>3
        <4> QED
          BY <2>1, <2>2, <3>3, <4>1, FoldedNear
      <3> QED
        BY <1>3, <2>4, <3>2, <3>3
    <2> QED
      BY <2>3, <2>4
  <1>13. domain[q].start[d] + x - width
           = Folded(domain[r].start[d] + Cell(Block, i)[d] - width, grid.cells[d])
    BY <1>2, <1>3, <1>5, <1>12, Zenon
  <1>14. Home(q, MovedTo(i, d, x)) = FoldedHome(r, i, d)
    BY <1>4, <1>7, <1>13, FoldedCell
  <1> QED
    BY <1>8, <1>9, <1>11, <1>14, Zenon

-----------------------------------------------------------------------------
(* Every step.                                                              *)

GhostsRight(r, m) ==
  \A i \in Indices : \A d \in 1 .. Dimension :
    Outside(i) = {d} /\ Filled(r, SideOf(i, d)) => m[i] = FoldedHome(r, i, d)

\* What a rank has staged of its own cells.
StagedRight(r, buffers) ==
  \A side \in ActiveSides(grid.cells) : \A k \in DOMAIN strips[side].sent :
    strips[side].sent[k] \in Indices /\ Outside(strips[side].sent[k]) = {}
      => buffers[side][k] = Home(r, strips[side].sent[k])

Shapes ==
  /\ memory = [r \in Ranks |-> memory[r]] /\ staged = [r \in Ranks |-> staged[r]]
  /\ received = [r \in Ranks |-> received[r]]

\* The inductive invariant: a rank's own cells are right at any time, and so is
\* what it has staged of them; what it has not asked for has not come.
HaloInv ==
  /\ HaloCase /\ Shapes
  /\ \A r \in Ranks : r \notin applied => received[r] = {}
  /\ \A r \in Ranks : OwnRight(r, memory[r]) /\ GhostsRight(r, memory[r])
  /\ \A r \in Ranks : staged[r] = Nothing \/ StagedRight(r, staged[r])

LEMMA InvImpliesRight == HaloInv => CellsRight
  <1> SUFFICES ASSUME HaloInv, NEW i \in Indices, NEW r \in Ranks
               PROVE  /\ Outside(i) = {} => memory[r][i] = Number(Position(r, i))
                      /\ \A d \in Outside(i) : Outside(i) = {d} /\ Filled(r, SideOf(i, d)) =>
                           memory[r][i] = FoldedHome(r, i, d)
    BY Zenon DEF CellsRight, FoldedHome
  <1>1. OwnRight(r, memory[r]) /\ GhostsRight(r, memory[r])
    BY Zenon DEF HaloInv
  <1>2. \A d \in Outside(i) : d \in 1 .. Dimension
    BY DEF Outside
  <1> QED
    BY <1>1, <1>2, Zenon DEF OwnRight, GhostsRight, Home

LEMMA InvInit == HaloInit => HaloInv
  <1> SUFFICES ASSUME HaloInit PROVE HaloInv
    OBVIOUS
  <1>1. HaloCase
    BY CaseInit
  <1>2. /\ memory = [r \in Ranks |-> [i \in Indices |->
                       IF Outside(i) = {} THEN Number(Position(r, i)) ELSE Garbage]]
        /\ applied = {}
        /\ staged = [r \in Ranks |-> Nothing]
        /\ received = [r \in Ranks |-> {}]
    BY Zenon DEF HaloInit
  <1>3. Shapes
    BY <1>2 DEF Shapes
  <1>4. ASSUME NEW r \in Ranks
        PROVE  /\ received[r] = {} /\ staged[r] = Nothing
               /\ OwnRight(r, memory[r]) /\ GhostsRight(r, memory[r])
    <2>1. received[r] = {} /\ staged[r] = Nothing
      BY <1>2
    <2>2. memory[r] = [i \in Indices |->
                         IF Outside(i) = {} THEN Number(Position(r, i)) ELSE Garbage]
      BY <1>2, Zenon
    <2>3. OwnRight(r, memory[r])
      BY <2>2, Zenon DEF OwnRight, Home
    <2>4. \A side : ~Filled(r, side)
      BY <1>2, <2>1 DEF Filled
    <2> QED
      BY <2>1, <2>3, <2>4, Zenon DEF GhostsRight
  <1> QED
    BY <1>1, <1>3, <1>4, Zenon DEF HaloInv

\* What a step leaves alone.
LEMMA SameCells ==
  ASSUME UNCHANGED caseVars
  PROVE  /\ grid' = grid /\ domain' = domain /\ strips' = strips
         /\ Ranks' = Ranks /\ Indices' = Indices /\ Dimension' = Dimension
         /\ \A i : Outside(i)' = Outside(i)
         /\ \A i, d : SideOf(i, d)' = SideOf(i, d)
         /\ \A r, i : Home(r, i)' = Home(r, i)
         /\ \A r, i, d : FoldedHome(r, i, d)' = FoldedHome(r, i, d)
  <1>1. /\ grid' = grid /\ procs' = procs /\ domain' = domain
        /\ width' = width /\ platform' = platform /\ strips' = strips
    BY DEF caseVars, vars
  <1>2. Dimension' = Dimension /\ Block' = Block
    BY <1>1 DEF Dimension, Block
  <1>3. Ranks' = Ranks /\ Indices' = Indices
    BY <1>1, <1>2 DEF Ranks, Indices
  <1>4. ASSUME NEW i PROVE Outside(i)' = Outside(i)
    BY <1>1, <1>2, Zenon DEF Outside
  <1>5. ASSUME NEW i, NEW d PROVE SideOf(i, d)' = SideOf(i, d)
    BY <1>1, <1>2, Zenon DEF SideOf
  <1>6. ASSUME NEW r, NEW i PROVE Position(r, i)' = Position(r, i)
    BY <1>1, <1>2, Zenon DEF Position
  <1>7. ASSUME NEW c PROVE Number(c)' = Number(c)
    BY <1>1, Zenon DEF Number
  <1>8. ASSUME NEW r, NEW i PROVE Home(r, i)' = Home(r, i)
    <2>1. PICK p : p = Position(r, i) /\ Position(r, i)' = p
      BY <1>6
    <2> QED
      BY <1>1, <2>1, Zenon DEF Home, Number
  <1>9. ASSUME NEW r, NEW i, NEW d PROVE FoldedHome(r, i, d)' = FoldedHome(r, i, d)
    <2>1. PICK p : p = Position(r, i) /\ Position(r, i)' = p
      BY <1>6
    <2>2. PICK x : x = Folded(p[d], grid.cells[d])
      OBVIOUS
    <2>3. Folded(p[d], grid.cells[d])' = x
      BY <1>1, <2>2, Zenon DEF Folded
    <2> QED
      BY <1>1, <2>1, <2>2, <2>3, Zenon DEF FoldedHome, Number
  <1> QED
    BY <1>1, <1>2, <1>3, <1>4, <1>5, <1>8, <1>9, Zenon

FilledThen(r, side) ==
  IF domain[r].neighbours[side] = NoRank THEN r \in applied' ELSE side \in received'[r]

\* So the invariant holds afterwards if it holds for the same cells and sides.
LEMMA InvAfter ==
  ASSUME HaloCase', UNCHANGED caseVars, Shapes',
         \A r \in Ranks : r \notin applied' => received'[r] = {},
         \A r \in Ranks : OwnRight(r, memory'[r]),
         \A r \in Ranks : \A i \in Indices : \A d \in 1 .. Dimension :
           Outside(i) = {d} /\ FilledThen(r, SideOf(i, d)) => memory'[r][i] = FoldedHome(r, i, d),
         \A r \in Ranks : staged'[r] = Nothing \/ StagedRight(r, staged'[r])
  PROVE  HaloInv'
  <1>1. /\ grid' = grid /\ domain' = domain /\ strips' = strips
        /\ Ranks' = Ranks /\ Indices' = Indices /\ Dimension' = Dimension
        /\ \A i : Outside(i)' = Outside(i)
        /\ \A i, d : SideOf(i, d)' = SideOf(i, d)
        /\ \A r, i : Home(r, i)' = Home(r, i)
        /\ \A r, i, d : FoldedHome(r, i, d)' = FoldedHome(r, i, d)
    BY SameCells
  <1>2. ASSUME NEW r \in Ranks
        PROVE  OwnRight(r, memory[r])'
    <2> SUFFICES ASSUME NEW i \in Indices', Outside(i)' = {}
                 PROVE  memory'[r][i] = Home(r, i)'
      BY Zenon DEF OwnRight
    <2>1. i \in Indices /\ Outside(i) = {} /\ Home(r, i)' = Home(r, i)
      BY <1>1
    <2>2. OwnRight(r, memory'[r])
      BY Zenon
    <2> QED
      BY <2>1, <2>2, Zenon DEF OwnRight
  <1>3. ASSUME NEW r \in Ranks
        PROVE  GhostsRight(r, memory[r])'
    <2> SUFFICES ASSUME NEW i \in Indices', NEW d \in (1 .. Dimension)',
                        Outside(i)' = {d}, Filled(r, SideOf(i, d))'
                 PROVE  memory'[r][i] = FoldedHome(r, i, d)'
      BY Zenon DEF GhostsRight
    <2>1. i \in Indices /\ d \in 1 .. Dimension /\ Outside(i) = {d}
          /\ FoldedHome(r, i, d)' = FoldedHome(r, i, d)
      BY <1>1
    <2>2. PICK side : side = SideOf(i, d) /\ SideOf(i, d)' = side
      BY <1>1
    <2>3. FilledThen(r, side)
      BY <1>1, <2>2, Zenon DEF Filled, FilledThen
    <2> QED
      BY <2>1, <2>2, <2>3, Zenon
  <1>4. ASSUME NEW r \in Ranks, StagedRight(r, staged'[r])
        PROVE  StagedRight(r, staged[r])'
    <2> SUFFICES ASSUME NEW side \in ActiveSides(grid.cells)', NEW k \in DOMAIN strips'[side].sent,
                        strips'[side].sent[k] \in Indices', Outside(strips[side].sent[k])' = {}
                 PROVE  staged'[r][side][k] = Home(r, strips[side].sent[k])'
      BY Zenon DEF StagedRight
    <2>1. side \in ActiveSides(grid.cells) /\ k \in DOMAIN strips[side].sent
          /\ strips[side].sent[k] \in Indices
      BY <1>1
    <2>2. PICK j : j = strips[side].sent[k]
      OBVIOUS
    <2>3. strips'[side].sent[k] = j
      BY <1>1, <2>2
    <2>4. Outside(strips[side].sent[k])' = Outside(j)
      <3>1. Outside(strips[side].sent[k])' = Outside(j)'
        BY <2>3, Zenon DEF Outside
      <3> QED
        BY <1>1, <3>1, Zenon
    <2>5. Home(r, strips[side].sent[k])' = Home(r, j)
      <3>1. Home(r, strips[side].sent[k])' = Home(r, j)'
        BY <2>3, Zenon DEF Home
      <3> QED
        BY <1>1, <3>1, Zenon
    <2>6. staged'[r][side][k] = Home(r, j)
      <3>1. Outside(strips[side].sent[k]) = {}
        BY <2>2, <2>4, Zenon
      <3> QED
        BY <1>4, <2>1, <2>2, <3>1, Zenon DEF StagedRight
    <2> QED
      BY <2>5, <2>6, Zenon
  <1>5. \A r \in Ranks' : r \in Ranks
    BY <1>1
  <1> QED
    BY <1>2, <1>3, <1>4, <1>5, Zenon DEF HaloInv

LEMMA ApplyKeeps ==
  ASSUME HaloInv, ~NarrowBlocks, NEW r \in Ranks, ApplyBoundary(r), HaloCase'
  PROVE  HaloInv'
  <1>1. /\ HaloCase /\ Shapes
        /\ \A q \in Ranks : q \notin applied => received[q] = {}
        /\ \A q \in Ranks : OwnRight(q, memory[q]) /\ GhostsRight(q, memory[q])
        /\ \A q \in Ranks : staged[q] = Nothing \/ StagedRight(q, staged[q])
    BY Zenon DEF HaloInv
  <1>2. /\ r \notin applied /\ applied' = applied \cup {r}
        /\ memory' = [memory EXCEPT ![r] = WithBoundary(r)]
        /\ UNCHANGED caseVars /\ staged' = staged /\ received' = received
    BY Zenon DEF ApplyBoundary
  <1>3. /\ memory' = [q \in Ranks |-> memory'[q]] /\ memory'[r] = WithBoundary(r)
        /\ \A q \in Ranks : q # r => memory'[q] = memory[q]
    BY <1>1, <1>2 DEF Shapes
  <1>4. Shapes'
    <2>1. Ranks' = Ranks
      BY <1>2, SameCells
    <2> QED
      BY <1>1, <1>2, <1>3, <2>1 DEF Shapes
  <1>5. \A q \in Ranks : q \notin applied' => received'[q] = {}
    BY <1>1, <1>2
  <1>6. /\ OwnRight(r, WithBoundary(r))
        /\ \A i \in Indices : \A d \in 1 .. Dimension :
              Outside(i) = {d} /\ domain[r].conditions[SideOf(i, d)] # "mpi"
                => WithBoundary(r)[i] = FoldedHome(r, i, d)
    BY <1>1, BoundaryIsRight
  <1>7. \A q \in Ranks : OwnRight(q, memory'[q])
    BY <1>1, <1>3, <1>6
  <1>8. ASSUME NEW q \in Ranks, NEW i \in Indices, NEW d \in 1 .. Dimension,
               Outside(i) = {d}, FilledThen(q, SideOf(i, d))
        PROVE  memory'[q][i] = FoldedHome(q, i, d)
    <2>1. CASE q = r
      <3>1. d \in Outside(i)
        BY <1>8
      <3>2. PICK side \in ActiveSides(grid.cells) : side = SideOf(i, d)
        BY <1>1, <3>1, StepOfCell
      <3>3. received'[r] = {}
        BY <1>1, <1>2
      <3>4. domain[r].neighbours[side] = NoRank
        BY <1>8, <2>1, <3>2, <3>3, Zenon DEF FilledThen
      <3>5. domain[r].conditions[side] # "mpi"
        BY <1>1, <3>4, SideFound
      <3> QED
        BY <1>3, <1>6, <1>8, <2>1, <3>2, <3>5, Zenon
    <2>2. CASE q # r
      <3>1. Filled(q, SideOf(i, d))
        BY <1>2, <1>8, <2>2 DEF FilledThen, Filled
      <3>2. memory[q][i] = FoldedHome(q, i, d)
        BY <1>1, <1>8, <3>1, Zenon DEF GhostsRight
      <3> QED
        BY <1>3, <2>2, <3>2
    <2> QED
      BY <2>1, <2>2
  <1>9. \A q \in Ranks : staged'[q] = Nothing \/ StagedRight(q, staged'[q])
    BY <1>1, <1>2
  <1> QED
    BY <1>2, <1>4, <1>5, <1>7, <1>8, <1>9, InvAfter

LEMMA ExtractKeeps ==
  ASSUME HaloInv, NEW r \in Ranks, ExtractSides(r), HaloCase'
  PROVE  HaloInv'
  <1>1. /\ HaloCase /\ Shapes
        /\ \A q \in Ranks : q \notin applied => received[q] = {}
        /\ \A q \in Ranks : OwnRight(q, memory[q]) /\ GhostsRight(q, memory[q])
        /\ \A q \in Ranks : staged[q] = Nothing \/ StagedRight(q, staged[q])
    BY Zenon DEF HaloInv
  <1>2. /\ staged' = [staged EXCEPT ![r] =
             [side \in ActiveSides(grid.cells) |->
                [k \in DOMAIN strips[side].sent |-> memory[r][strips[side].sent[k]]]]]
        /\ UNCHANGED caseVars /\ memory' = memory /\ applied' = applied /\ received' = received
    BY Zenon DEF ExtractSides
  <1>3. PICK buffers : buffers =
          [side \in ActiveSides(grid.cells) |->
             [k \in DOMAIN strips[side].sent |-> memory[r][strips[side].sent[k]]]]
    OBVIOUS
  <1>4. /\ staged' = [q \in Ranks |-> staged'[q]] /\ staged'[r] = buffers
        /\ \A q \in Ranks : q # r => staged'[q] = staged[q]
    <2>1. staged' = [staged EXCEPT ![r] = buffers]
      BY <1>2, <1>3, Zenon
    <2> QED
      BY <1>1, <2>1 DEF Shapes
  <1>5. Shapes'
    <2>1. Ranks' = Ranks
      BY <1>2, SameCells
    <2> QED
      BY <1>1, <1>2, <1>4, <2>1 DEF Shapes
  <1>6. StagedRight(r, buffers)
    <2> SUFFICES ASSUME NEW side \in ActiveSides(grid.cells), NEW k \in DOMAIN strips[side].sent,
                        strips[side].sent[k] \in Indices, Outside(strips[side].sent[k]) = {}
                 PROVE  buffers[side][k] = Home(r, strips[side].sent[k])
      BY Zenon DEF StagedRight
    <2>1. buffers[side][k] = memory[r][strips[side].sent[k]]
      BY <1>3
    <2> QED
      BY <1>1, <2>1, Zenon DEF OwnRight
  <1>7. \A q \in Ranks : staged'[q] = Nothing \/ StagedRight(q, staged'[q])
    BY <1>1, <1>4, <1>6
  <1>8. ASSUME NEW q \in Ranks, NEW i \in Indices, NEW d \in 1 .. Dimension,
               Outside(i) = {d}, FilledThen(q, SideOf(i, d))
        PROVE  memory'[q][i] = FoldedHome(q, i, d)
    <2>1. Filled(q, SideOf(i, d))
      BY <1>2, <1>8 DEF FilledThen, Filled
    <2> QED
      BY <1>1, <1>2, <1>8, <2>1, Zenon DEF GhostsRight
  <1>9. (\A q \in Ranks : q \notin applied' => received'[q] = {})
        /\ \A q \in Ranks : OwnRight(q, memory'[q])
    BY <1>1, <1>2
  <1> QED
    BY <1>2, <1>5, <1>7, <1>8, <1>9, InvAfter

LEMMA ReceiveKeeps ==
  ASSUME HaloInv, ~NarrowBlocks, NEW r \in Ranks, NEW side \in ActiveSides(grid.cells),
         Receive(r, side), HaloCase'
  PROVE  HaloInv'
  <1>1. /\ HaloCase /\ Shapes
        /\ \A q \in Ranks : q \notin applied => received[q] = {}
        /\ \A q \in Ranks : OwnRight(q, memory[q]) /\ GhostsRight(q, memory[q])
        /\ \A q \in Ranks : staged[q] = Nothing \/ StagedRight(q, staged[q])
    BY Zenon DEF HaloInv
  <1>2. PICK sent \in ActiveSides(grid.cells) :
          /\ Available(r, side, sent)
          /\ LET to    == strips[side].received
                 At(i) == CHOOSE k \in DOMAIN to : to[k] = i
                 came  == Arriving(Across(r, side), sent)
             IN  memory' = [memory EXCEPT ![r] = [i \in Indices |->
                              IF \E k \in DOMAIN to : to[k] = i THEN came[At(i)] ELSE @[i]]]
    BY Zenon DEF Receive
  <1>3. /\ Posted(r)
        /\ received' = [received EXCEPT ![r] = received[r] \cup {side}]
        /\ UNCHANGED caseVars /\ applied' = applied /\ staged' = staged
    BY Zenon DEF Receive
  <1>4. PICK q : /\ q = domain[r].neighbours[side] /\ q # NoRank /\ Posted(q)
                 /\ sent = Opposite(side)
    BY <1>2, Zenon DEF Available, Across, TagsMatch
  <1>5. q \in Ranks
    BY <1>1, <1>4, SideFound
  <1>6. PICK to, came : to = strips[side].received /\ came = Arriving(q, sent)
    OBVIOUS
  <1>7. PICK new : new = [i \in Indices |->
                            IF \E k \in DOMAIN to : to[k] = i
                            THEN came[CHOOSE k \in DOMAIN to : to[k] = i] ELSE memory[r][i]]
    OBVIOUS
  <1>8. memory' = [memory EXCEPT ![r] = new]
    BY <1>2, <1>4, <1>6, <1>7, Zenon DEF Across
  <1>9. /\ memory' = [p \in Ranks |-> memory'[p]] /\ memory'[r] = new
        /\ \A p \in Ranks : p # r => memory'[p] = memory[p]
    BY <1>1, <1>8 DEF Shapes
  <1>10. /\ received' = [p \in Ranks |-> received'[p]] /\ received'[r] = received[r] \cup {side}
         /\ \A p \in Ranks : p # r => received'[p] = received[p]
    BY <1>1, <1>3 DEF Shapes
  <1>11. Shapes'
    <2>1. Ranks' = Ranks
      BY <1>3, SameCells
    <2> QED
      BY <1>1, <1>3, <1>9, <1>10, <2>1 DEF Shapes
  <1>12. \A i \in Indices : (\E k \in DOMAIN to : to[k] = i) <=> i \in GhostLayer(side)
    <2>1. Landing(side) = GhostLayer(side)
      BY <1>1, ReceivedCells, Zenon
    <2>2. \A i : (\E k \in DOMAIN to : to[k] = i) <=> i \in Landing(side)
      BY <1>6, Zenon DEF Landing
    <2> QED
      BY <2>1, <2>2, Zenon
  <1>13. ASSUME NEW i \in Indices, i \notin GhostLayer(side)
         PROVE  new[i] = memory[r][i]
    BY <1>7, <1>12, <1>13
  <1>14. OwnRight(r, new)
    <2> SUFFICES ASSUME NEW i \in Indices, Outside(i) = {}
                 PROVE  new[i] = Home(r, i)
      BY Zenon DEF OwnRight
    <2>1. i \notin GhostLayer(side)
      BY <1>1, LayerOfSide
    <2>2. new[i] = memory[r][i]
      BY <1>13, <2>1
    <2> QED
      BY <1>1, <2>2, Zenon DEF OwnRight
  <1>15. ASSUME NEW i \in Indices, NEW d \in 1 .. Dimension, Outside(i) = {d}, SideOf(i, d) = side
         PROVE  new[i] = FoldedHome(r, i, d)
    <2>1. d = Direction(side) /\ i \in GhostLayer(side)
      <3>1. d \in Outside(i)
        BY <1>15
      <3>2. Direction(SideOf(i, d)) = d
        BY <1>1, <3>1, StepOfCell
      <3>3. d = Direction(side)
        BY <1>15, <3>2
      <3> QED
        BY <1>1, <1>15, <3>1, <3>3, LayerOfSide
    <2>2. PICK k : k = CHOOSE j \in DOMAIN to : to[j] = i
      OBVIOUS
    <2>3. k \in DOMAIN to /\ to[k] = i
      BY <1>12, <2>1, <2>2, Zenon
    <2>4. new[i] = came[k]
      <3>1. \E j \in DOMAIN to : to[j] = i
        BY <2>3
      <3>2. new[i] = IF \E j \in DOMAIN to : to[j] = i
                     THEN came[CHOOSE j \in DOMAIN to : to[j] = i] ELSE memory[r][i]
        BY <1>7, Zenon
      <3> QED
        BY <2>2, <3>1, <3>2, Zenon
    <2>5. PICK j : j = strips[sent].sent[k]
      OBVIOUS
    <2>6. /\ k \in DOMAIN strips[sent].sent /\ j \in Indices /\ Outside(j) = {}
          /\ Home(q, j) = FoldedHome(r, i, d)
      <3>1. /\ k \in DOMAIN strips[Opposite(side)].sent
            /\ strips[Opposite(side)].sent[k] \in Indices
            /\ Outside(strips[Opposite(side)].sent[k]) = {}
            /\ Home(q, strips[Opposite(side)].sent[k]) = FoldedHome(r, i, d)
        BY <1>1, <1>4, <1>5, <1>6, <1>15, <2>1, <2>3, CellAcross
      <3> QED
        BY <1>4, <2>5, <3>1, Zenon
    <2>7. came[k] = Home(q, j)
      <3>1. CASE platform = "cuda"
        <4>1. came = staged[q][sent]
          BY <1>6, <3>1, Zenon DEF Arriving
        <4>2. staged[q] # Nothing
          BY <1>4, <3>1, Zenon DEF Posted
        <4>3. StagedRight(q, staged[q])
          BY <1>1, <1>5, <4>2
        <4> QED
          BY <2>5, <2>6, <4>1, <4>3, Zenon DEF StagedRight
      <3>2. CASE platform # "cuda"
        <4>1. came = [l \in DOMAIN strips[sent].sent |-> memory[q][strips[sent].sent[l]]]
          BY <1>6, <3>2, Zenon DEF Arriving
        <4>2. came[k] = memory[q][j]
          BY <2>5, <2>6, <4>1
        <4> QED
          BY <1>1, <1>5, <2>6, <4>2, Zenon DEF OwnRight
      <3> QED
        BY <3>1, <3>2
    <2> QED
      BY <2>4, <2>6, <2>7, Zenon
  <1>16. ASSUME NEW i \in Indices, NEW d \in 1 .. Dimension, Outside(i) = {d}, SideOf(i, d) # side,
                FilledThen(r, SideOf(i, d))
         PROVE  new[i] = FoldedHome(r, i, d)
    <2>1. i \notin GhostLayer(side)
      <3>1. ASSUME i \in GhostLayer(side)
            PROVE  FALSE
        <4>1. Direction(side) \in Outside(i) /\ SideOf(i, Direction(side)) = side
          BY <1>1, <3>1, LayerOfSide
        <4>2. Direction(side) = d
          BY <1>16, <4>1
        <4> QED
          BY <1>16, <4>1, <4>2
      <3> QED
        BY <3>1
    <2>2. Filled(r, SideOf(i, d))
      BY <1>3, <1>10, <1>16 DEF Filled, FilledThen
    <2>3. memory[r][i] = FoldedHome(r, i, d)
      BY <1>1, <1>16, <2>2, Zenon DEF GhostsRight
    <2> QED
      BY <1>13, <2>1, <2>3
  <1>17. ASSUME NEW p \in Ranks, NEW i \in Indices, NEW d \in 1 .. Dimension,
                Outside(i) = {d}, FilledThen(p, SideOf(i, d))
         PROVE  memory'[p][i] = FoldedHome(p, i, d)
    <2>1. CASE p = r
      <3>1. new[i] = FoldedHome(r, i, d)
        BY <1>15, <1>16, <1>17, <2>1
      <3> QED
        BY <1>9, <2>1, <3>1
    <2>2. CASE p # r
      <3>1. Filled(p, SideOf(i, d))
        BY <1>3, <1>10, <1>17, <2>2 DEF FilledThen, Filled
      <3>2. memory[p][i] = FoldedHome(p, i, d)
        BY <1>1, <1>17, <3>1, Zenon DEF GhostsRight
      <3> QED
        BY <1>9, <2>2, <3>2
    <2> QED
      BY <2>1, <2>2
  <1>18. \A p \in Ranks : p \notin applied' => received'[p] = {}
    <2>1. r \in applied
      BY <1>3, Zenon DEF Posted
    <2> QED
      BY <1>1, <1>3, <1>10, <2>1
  <1>19. (\A p \in Ranks : OwnRight(p, memory'[p]))
         /\ \A p \in Ranks : staged'[p] = Nothing \/ StagedRight(p, staged'[p])
    BY <1>1, <1>3, <1>9, <1>14
  <1> QED
    BY <1>3, <1>11, <1>17, <1>18, <1>19, InvAfter

LEMMA InvKept == ~NarrowBlocks /\ HaloInv /\ [HaloNext]_allVars => HaloInv'
  <1> SUFFICES ASSUME ~NarrowBlocks, HaloInv, [HaloNext]_allVars PROVE HaloInv'
    OBVIOUS
  <1>1. HaloCase'
    <2>1. HaloCase
      BY Zenon DEF HaloInv
    <2> QED
      BY <2>1, CaseKept
  <1>2. ASSUME NEW r \in Ranks, ApplyBoundary(r)
        PROVE  HaloInv'
    BY <1>1, <1>2, ApplyKeeps
  <1>3. ASSUME NEW r \in Ranks, ExtractSides(r)
        PROVE  HaloInv'
    BY <1>1, <1>3, ExtractKeeps
  <1>4. ASSUME NEW r \in Ranks, NEW side \in ActiveSides(grid.cells), Receive(r, side)
        PROVE  HaloInv'
    BY <1>1, <1>4, ReceiveKeeps
  <1>5. CASE UNCHANGED allVars
    <2>1. /\ UNCHANGED caseVars /\ memory' = memory /\ applied' = applied
          /\ staged' = staged /\ received' = received
      BY <1>5 DEF allVars
    <2>2. /\ Shapes
          /\ \A q \in Ranks : q \notin applied => received[q] = {}
          /\ \A q \in Ranks : OwnRight(q, memory[q]) /\ GhostsRight(q, memory[q])
          /\ \A q \in Ranks : staged[q] = Nothing \/ StagedRight(q, staged[q])
      BY Zenon DEF HaloInv
    <2>3. Shapes'
      <3>1. Ranks' = Ranks
        BY <2>1, SameCells
      <3> QED
        BY <2>1, <2>2, <3>1 DEF Shapes
    <2>4. ASSUME NEW q \in Ranks, NEW i \in Indices, NEW d \in 1 .. Dimension,
                 Outside(i) = {d}, FilledThen(q, SideOf(i, d))
          PROVE  memory'[q][i] = FoldedHome(q, i, d)
      <3>1. Filled(q, SideOf(i, d))
        BY <2>1, <2>4 DEF FilledThen, Filled
      <3> QED
        BY <2>1, <2>2, <2>4, <3>1, Zenon DEF GhostsRight
    <2>5. /\ \A q \in Ranks : q \notin applied' => received'[q] = {}
          /\ \A q \in Ranks : OwnRight(q, memory'[q])
          /\ \A q \in Ranks : staged'[q] = Nothing \/ StagedRight(q, staged'[q])
      BY <2>1, <2>2
    <2> QED
      BY <1>1, <2>1, <2>3, <2>4, <2>5, InvAfter
  <1> QED
    BY <1>2, <1>3, <1>4, <1>5 DEF HaloNext

\* Whatever the grid, its split into blocks with more than one cell in each active
\* direction y and z, the number of ghost cells and the platform, and in whatever order the ranks are served: the ranks' own cells are never
\* overwritten, and the ghost cells at a side that has been filled hold the
\* cells of the grid that lie there, if no block is narrower than its ghost
\* cells are wide.
THEOREM CellsAlwaysRight == ASSUME ~NarrowBlocks PROVE HaloSpec => []CellsRight
  <1>1. HaloInit => HaloInv
    BY InvInit
  <1>2. HaloInv /\ [HaloNext]_allVars => HaloInv'
    BY InvKept
  <1>3. HaloInv => CellsRight
    BY InvImpliesRight
  <1> QED
    BY <1>1, <1>2, <1>3, PTL DEF HaloSpec
-----------------------------------------------------------------------------
(* The pairs of a structure function (StructureFunctions).                  *)

\* Where the cell c, counted from the first inner one, lies in the volume.
Placed(c) == [e \in Axes |-> c[e] + GhostsIn(Block, e)]

\* The position in the grid of the cell c of rank r.
Lies(r, c) == [e \in Axes |-> domain[r].start[e] + c[e]]

\* Is the cell c an inner one?
InInner(c) == \A e \in Axes : c[e] < InnerCells(Block, e)

\* The inner cells of a block along one direction, and its ghost cells.
LEMMA InnerOfBlock ==
  ASSUME HaloCase, NEW e \in Axes
  PROVE  \E b, g \in Nat :
           /\ b = BlockSize(grid, procs)[e] /\ b > 0
           /\ b = InnerCells(Block, e) /\ g = GhostsIn(Block, e)
           /\ g = (IF e <= Dimension THEN width ELSE 0)
           /\ Block.size[e] = b + 2 * g
  <1>1. PICK b \in Nat : /\ b = BlockSize(grid, procs)[e] /\ b > 0
                         /\ Block.size[e] = b + (IF e <= Dimension THEN 2 * width ELSE 0)
    BY BlockVolume
  <1>2. width \in Nat /\ Block.ghosts = width /\ Block.dimensions = Dimension
    BY BlockVolume, BlockDirections DEF Block
  <1>3. PICK g \in Nat : g = (IF e <= Dimension THEN width ELSE 0)
    BY <1>2
  <1>4. GhostsIn(Block, e) = g
    BY <1>2, <1>3 DEF GhostsIn
  <1>5. Block.size[e] = b + 2 * g
    BY <1>1, <1>2, <1>3
  <1>6. InnerCells(Block, e) = b
    <2>1. InnerCells(Block, e) = (b + 2 * g) - 2 * g
      BY <1>4, <1>5, Zenon DEF InnerCells
    <2> QED
      BY <2>1
  <1> QED
    BY <1>1, <1>3, <1>4, <1>5, <1>6

\* A cell at most a ghost layer behind the inner cells, in the volume and in the
\* grid.
LEMMA PlacedCell ==
  ASSUME HaloCase, NEW r \in Ranks, NEW c \in [Axes -> Nat],
         \A e \in Axes : c[e] < InnerCells(Block, e) + GhostsIn(Block, e)
  PROVE  /\ Index(Block, Placed(c)) \in Indices
         /\ Cell(Block, Index(Block, Placed(c))) = Placed(c)
         /\ Position(r, Index(Block, Placed(c))) = Lies(r, c)
         /\ \A e \in 1 .. Dimension :
              e \in Outside(Index(Block, Placed(c))) <=> c[e] >= InnerCells(Block, e)
  <1>1. ASSUME NEW e \in Axes
        PROVE  Placed(c)[e] \in Nat /\ Placed(c)[e] \in 0 .. Block.size[e] - 1
    <2>1. PICK b, g \in Nat : /\ b = InnerCells(Block, e) /\ g = GhostsIn(Block, e)
                              /\ Block.size[e] = b + 2 * g
      BY InnerOfBlock
    <2>2. Placed(c)[e] = c[e] + g /\ c[e] \in Nat /\ c[e] < b + g
      BY <2>1 DEF Placed
    <2> QED
      BY <2>1, <2>2
  <1>2. Placed(c) \in [Axes -> Nat]
    <2>1. Placed(c) = [e \in Axes |-> Placed(c)[e]]
      BY DEF Placed
    <2> QED
      BY <1>1, <2>1
  <1>3. PICK i : i = Index(Block, Placed(c))
    OBVIOUS
  <1>4. i \in Indices /\ Cell(Block, i) = Placed(c)
    BY <1>1, <1>2, <1>3, CellAtIndex
  <1>5. Position(r, i) = Lies(r, c)
    <2>1. ASSUME NEW e \in Axes
          PROVE  domain[r].start[e] + Cell(Block, i)[e] - (IF e <= Dimension THEN width ELSE 0)
                   = domain[r].start[e] + c[e]
      <3>1. PICK g \in Nat : /\ g = GhostsIn(Block, e)
                             /\ g = (IF e <= Dimension THEN width ELSE 0)
        BY InnerOfBlock
      <3>2. Cell(Block, i)[e] = c[e] + g /\ c[e] \in Nat
        BY <1>4, <3>1 DEF Placed
      <3>3. PICK s \in Nat : s = domain[r].start[e]
        BY BlockAlong
      <3>4. s + (c[e] + g) - g = s + c[e]
        BY <3>2
      <3> QED
        BY <3>1, <3>2, <3>3, <3>4
    <2> QED
      BY <2>1 DEF Position, Lies
  <1>6. ASSUME NEW e \in 1 .. Dimension
        PROVE  e \in Outside(i) <=> c[e] >= InnerCells(Block, e)
    <2>1. width \in Nat /\ e \in Axes
      BY Dimensions, BlockVolume DEF Axes
    <2>2. PICK b, g \in Nat : /\ b = InnerCells(Block, e) /\ g = GhostsIn(Block, e)
                              /\ g = (IF e <= Dimension THEN width ELSE 0)
                              /\ Block.size[e] = b + 2 * g
      BY <2>1, InnerOfBlock
    <2>3. g = width
      BY <2>2, Dimensions
    <2>4. Cell(Block, i)[e] = c[e] + width /\ c[e] \in Nat
      BY <1>4, <2>1, <2>2, <2>3 DEF Placed
    <2>5. Block.size[e] - width - 1 = b + width - 1
      BY <2>2, <2>3
    <2>6. e \in Outside(i) <=> c[e] + width \notin width .. b + width - 1
      BY <2>4, <2>5 DEF Outside
    <2> QED
      BY <2>1, <2>2, <2>4, <2>6
  <1> QED
    BY <1>3, <1>4, <1>5, <1>6
\* The value of an inner cell is that of the cell of the grid which lies there.
LEMMA InnerValue ==
  ASSUME HaloInv, NEW r \in Ranks, NEW c \in [Axes -> Nat], InInner(c)
  PROVE  memory[r][Index(Block, Placed(c))] = Number(Lies(r, c))
  <1>1. HaloCase /\ OwnRight(r, memory[r])
    BY Zenon DEF HaloInv
  <1>2. ASSUME NEW e \in Axes
        PROVE  c[e] < InnerCells(Block, e) + GhostsIn(Block, e)
    <2>1. PICK b, g \in Nat : b = InnerCells(Block, e) /\ g = GhostsIn(Block, e)
      BY <1>1, InnerOfBlock
    <2>2. c[e] \in Nat /\ c[e] < b
      BY <2>1 DEF InInner
    <2> QED
      BY <2>1, <2>2
  <1>3. PICK i : i = Index(Block, Placed(c))
    OBVIOUS
  <1>4. /\ i \in Indices /\ Position(r, i) = Lies(r, c)
        /\ \A e \in 1 .. Dimension : e \in Outside(i) <=> c[e] >= InnerCells(Block, e)
    BY <1>1, <1>2, <1>3, PlacedCell
  <1>5. Outside(i) = {}
    <2>1. ASSUME NEW e \in 1 .. Dimension
          PROVE  e \notin Outside(i)
      <3>1. e \in Axes
        BY Dimensions DEF Axes
      <3>2. PICK b \in Nat : b = InnerCells(Block, e)
        BY <1>1, <3>1, InnerOfBlock
      <3>3. c[e] \in Nat /\ c[e] < b
        BY <3>1, <3>2 DEF InInner
      <3> QED
        BY <1>4, <3>2, <3>3
    <2>2. Outside(i) \subseteq 1 .. Dimension
      BY DEF Outside
    <2> QED
      BY <2>1, <2>2
  <1> QED
    BY <1>1, <1>3, <1>4, <1>5, Zenon DEF OwnRight, Home

\* Along a direction that is not split, a rank has whole lines of the grid, and
\* no side across it is left to MPI.
LEMMA WholeLine ==
  ASSUME HaloCase, NEW r \in Ranks, NEW d \in 1 .. Dimension, procs[d] = 1
  PROVE  /\ domain[r].start[d] = 0 /\ InnerCells(Block, d) = grid.cells[d]
         /\ 2 * d - 1 \in ActiveSides(grid.cells)
         /\ domain[r].neighbours[2 * d - 1] = NoRank
  <1>1. IInv /\ Done(r) /\ grid \in Grid /\ procs \in Triples
    BY CaseFound
  <1>2. d \in Axes /\ Dimension \in 1 .. 3
    BY Dimensions DEF Axes
  <1>3. PICK n, m, b, k \in Nat :
          /\ n = grid.cells[d] /\ m = procs[d] /\ b = BlockSize(grid, procs)[d]
          /\ k = getCoordinates(r, procs)[d]
          /\ n = m * b /\ b > 0 /\ k < m
          /\ domain[r].start[d] = b * k /\ domain[r].cells[d] = b
    BY <1>1, <1>2, BlockOf
  <1>4. m = 1 /\ k = 0
    BY <1>3
  <1>5. n = b /\ domain[r].start[d] = 0
    BY <1>3, <1>4
  <1>6. InnerCells(Block, d) = b
    BY <1>2, <1>3, InnerOfBlock
  <1>7. PICK side \in 0 .. 5 : side = 2 * d - 1
    BY <1>2
  <1>8. side \in ActiveSides(grid.cells) /\ Direction(side) = d /\ ~IsBottom(side)
    <2>1. side \in 0 .. 2 * Dimension - 1
      BY <1>2, <1>7
    <2>2. side \in ActiveSides(grid.cells)
      BY <2>1 DEF ActiveSides, Dimension
    <2> QED
      BY <1>2, <1>7, <2>2 DEF Direction, IsBottom, Axes
  <1>9. KeepsCondition(grid, procs, r, side)
    <2>1. AtGridSide(r, procs, side)
      <3>1. procs[d] - 1 = 0
        BY <1>3, <1>4
      <3>2. getCoordinates(r, procs)[d] = procs[d] - 1
        BY <1>3, <1>4, <3>1, Zenon
      <3> QED
        BY <1>8, <3>2, Zenon DEF AtGridSide
    <2> QED
      BY <1>8, <2>1 DEF KeepsCondition
  <1>10. domain[r].neighbours[side] = NoRank
    <2>1. domain[r].neighbours[side] = Neighbour(grid, procs, r, side)
      BY <1>1, <1>8, FoundFields
    <2> QED
      BY <1>9, <2>1, Zenon DEF Neighbour
  <1> QED
    BY <1>3, <1>5, <1>6, <1>7, <1>8, <1>10

\* The first ghost cell behind a line that is not around the end holds the
\* line's last cell.
LEMMA ValueBehind ==
  ASSUME HaloInv, width >= 1, grid.condition # "periodic",
         NEW r \in applied, r \in Ranks, NEW d \in 1 .. Dimension, procs[d] = 1,
         NEW c \in [Axes -> Nat], c[d] = InnerCells(Block, d),
         \A e \in Axes \ {d} : c[e] < InnerCells(Block, e)
  PROVE  memory[r][Index(Block, Placed(c))]
           = Number([Lies(r, c) EXCEPT ![d] = grid.cells[d] - 1])
  <1>1. HaloCase /\ GhostsRight(r, memory[r])
    BY Zenon DEF HaloInv
  <1>2. d \in Axes /\ Dimension \in 1 .. 3 /\ width \in Nat
    BY <1>1, Dimensions, BlockVolume DEF Axes
  <1>3. PICK n \in Nat : n = grid.cells[d] /\ n > 0 /\ n = InnerCells(Block, d)
    <2>1. InnerCells(Block, d) = grid.cells[d]
      BY <1>1, WholeLine
    <2> QED
      BY <1>1, <1>2, <2>1, InnerOfBlock
  <1>4. ASSUME NEW e \in Axes
        PROVE  c[e] < InnerCells(Block, e) + GhostsIn(Block, e)
    <2>1. PICK b, g \in Nat : /\ b = InnerCells(Block, e) /\ g = GhostsIn(Block, e)
                              /\ g = (IF e <= Dimension THEN width ELSE 0)
      BY <1>1, InnerOfBlock
    <2>2. c[e] \in Nat /\ (c[e] < b \/ (e = d /\ c[e] = b))
      BY <2>1
    <2>3. e = d => g >= 1
      BY <1>2, <2>1
    <2> QED
      BY <2>1, <2>2, <2>3
  <1>5. PICK i : i = Index(Block, Placed(c))
    OBVIOUS
  <1>6. /\ i \in Indices /\ Position(r, i) = Lies(r, c) /\ Cell(Block, i) = Placed(c)
        /\ \A e \in 1 .. Dimension : e \in Outside(i) <=> c[e] >= InnerCells(Block, e)
    BY <1>1, <1>4, <1>5, PlacedCell
  <1>7. Outside(i) = {d}
    <2>1. ASSUME NEW e \in 1 .. Dimension
          PROVE  e \in Outside(i) <=> e = d
      <3>1. e \in Axes
        BY <1>2 DEF Axes
      <3>2. PICK b \in Nat : b = InnerCells(Block, e)
        BY <1>1, <3>1, InnerOfBlock
      <3>3. c[e] \in Nat /\ (c[e] >= b <=> e = d)
        BY <3>1, <3>2
      <3> QED
        BY <1>6, <3>2, <3>3
    <2>2. Outside(i) \subseteq 1 .. Dimension
      BY DEF Outside
    <2> QED
      BY <2>1, <2>2
  <1>8. SideOf(i, d) = 2 * d - 1
    <2>1. PICK g \in Nat : g = GhostsIn(Block, d) /\ g = (IF d <= Dimension THEN width ELSE 0)
      BY <1>1, <1>2, InnerOfBlock
    <2>2. g = width
      BY <1>2, <2>1
    <2>3. Cell(Block, i)[d] = n + width
      BY <1>2, <1>3, <1>6, <2>1, <2>2 DEF Placed
    <2>4. ~(n + width < width)
      BY <1>2
    <2> QED
      BY <2>3, <2>4, Zenon DEF SideOf
  <1>9. Filled(r, SideOf(i, d))
    BY <1>1, <1>8, WholeLine DEF Filled
  <1>10. memory[r][i] = FoldedHome(r, i, d)
    BY <1>1, <1>6, <1>7, <1>9, Zenon DEF GhostsRight
  <1>11. Lies(r, c)[d] = n
    <2>1. Lies(r, c)[d] = domain[r].start[d] + c[d]
      BY <1>2 DEF Lies
    <2>2. domain[r].start[d] = 0
      BY <1>1, WholeLine
    <2> QED
      BY <1>3, <2>1, <2>2
  <1>12. Folded(n, n) = n - 1
    <2>1. n \in n .. 2 * n - 1 => Folded(n, n) = 2 * n - 1 - n
      BY <1>3, FoldedNear
    <2> QED
      BY <1>3, <2>1
  <1> QED
    BY <1>3, <1>5, <1>6, <1>10, <1>11, <1>12, Zenon DEF FoldedHome
\* Which condition a structure function asks for: if it is not that of MPI, it is
\* the one of the grid.
LEMMA ConditionAsked ==
  ASSUME HaloCase, NEW r \in Ranks, NEW d \in 1 .. Dimension, ConditionFor(r, d) # "mpi"
  PROVE  ConditionFor(r, d) = grid.condition /\ grid.condition \in {"periodic", "neumann"}
  <1>1. IInv /\ Done(r) /\ grid \in Grid
    BY CaseFound
  <1>2. PICK side \in 0 .. 5 : side = d - 1
    BY Dimensions
  <1>3. ConditionFor(r, d) = LocalCondition(grid, procs, r, side)
    <2>1. domain[r].conditions[side] = LocalCondition(grid, procs, r, side)
      BY <1>1, FoundFields
    <2> QED
      BY <1>2, <2>1, Zenon DEF ConditionFor
  <1>4. ConditionFor(r, d) = grid.condition
    BY <1>3, Zenon DEF LocalCondition
  <1> QED
    BY <1>1, <1>4 DEF Grid

\* A function with one value changed.
LEMMA ValueChanged ==
  ASSUME NEW S, NEW T, NEW f \in [S -> T], NEW d \in S, NEW v \in T
  PROVE  /\ [f EXCEPT ![d] = v] \in [S -> T]
         /\ [f EXCEPT ![d] = v][d] = v
         /\ \A e \in S \ {d} : [f EXCEPT ![d] = v][e] = f[e]
         /\ [f EXCEPT ![d] = v] = [e \in S |-> IF e = d THEN v ELSE f[e]]
  OBVIOUS

\* The position of a cell.
LEMMA LiesAt ==
  ASSUME HaloCase, NEW r \in Ranks, NEW c \in [Axes -> Nat]
  PROVE  Lies(r, c) \in [Axes -> Nat]
  <1>1. ASSUME NEW e \in Axes
        PROVE  domain[r].start[e] + c[e] \in Nat
    <2>1. PICK s \in Nat : s = domain[r].start[e]
      BY BlockAlong
    <2>2. PICK w \in Nat : w = c[e]
      OBVIOUS
    <2>3. s + w \in Nat
      OBVIOUS
    <2> QED
      BY <2>1, <2>2, <2>3
  <1> QED
    BY <1>1, Zenon DEF Lies

\* A position with one coordinate changed.
LEMMA ChangedPosition ==
  ASSUME NEW r, NEW c, NEW d \in Axes, NEW z
  PROVE  [Lies(r, c) EXCEPT ![d] = z]
           = [e \in Axes |-> IF e = d THEN z ELSE domain[r].start[e] + c[e]]
  <1>1. PICK f : f = [e \in Axes |-> domain[r].start[e] + c[e]]
    OBVIOUS
  <1>2. [f EXCEPT ![d] = z] = [e \in Axes |-> IF e = d THEN z ELSE f[e]]
    BY <1>1
  <1>3. \A e \in Axes : f[e] = domain[r].start[e] + c[e]
    BY <1>1
  <1> QED
    BY <1>1, <1>2, <1>3, Zenon DEF Lies

\* What is read for the cell h cells behind c: inside the line, the cell there;
\* behind its end, the cell that the condition puts there.
LEMMA PartnerValue ==
  ASSUME HaloInv, width >= 1, NEW r \in applied, r \in Ranks,
         NEW d \in 1 .. Dimension, procs[d] = 1, ConditionFor(r, d) # "mpi",
         NEW c \in [Axes -> Nat], InInner(c), NEW h \in Nat
  PROVE  memory[r][ReadAt(Block, ConditionFor(r, d), [c EXCEPT ![d] = @ + h])]
           = Number(Nearest([Lies(r, c) EXCEPT ![d] = @ + h]))
  <1>1. HaloCase
    BY Zenon DEF HaloInv
  <1>2. d \in Axes
    BY Dimensions DEF Axes
  <1>3. PICK n \in Nat, x \in Nat : n = grid.cells[d] /\ n > 0 /\ n = InnerCells(Block, d)
                                  /\ x = c[d] /\ x < n
    <2>1. InnerCells(Block, d) = grid.cells[d]
      BY <1>1, WholeLine
    <2>2. c[d] \in Nat /\ c[d] < InnerCells(Block, d)
      BY <1>2 DEF InInner
    <2> QED
      BY <1>1, <1>2, <2>1, <2>2, InnerOfBlock
  <1>4. domain[r].start[d] = 0
    BY <1>1, WholeLine
  <1>5. ConditionFor(r, d) = grid.condition /\ grid.condition \in {"periodic", "neumann"}
    BY <1>1, ConditionAsked
  <1>6. PICK y \in Nat : y = AtBoundary(grid.condition, x + h, n) /\ y <= n
                        /\ (grid.condition = "periodic" => y = (x + h) % n /\ y < n)
                        /\ (grid.condition # "periodic" => y = IF x + h > n THEN n ELSE x + h)
    <2>1. CASE grid.condition = "periodic"
      <3>1. PICK m \in 0 .. n - 1 : m = (x + h) % n
        BY <1>3, Z3
      <3>2. AtBoundary(grid.condition, x + h, n) = m
        BY <2>1, <3>1, Zenon DEF AtBoundary
      <3>3. m \in Nat /\ m <= n /\ m < n
        BY <1>3
      <3> QED
        BY <2>1, <3>1, <3>2, <3>3
    <2>2. CASE grid.condition # "periodic"
      <3>1. AtBoundary(grid.condition, x + h, n) = Clamped(x + h, n)
        BY <2>2, Zenon DEF AtBoundary
      <3>2. Clamped(x + h, n) = IF x + h > n THEN n ELSE x + h
        BY DEF Clamped
      <3>3. Clamped(x + h, n) \in Nat /\ Clamped(x + h, n) <= n
        BY <1>3, <3>2
      <3> QED
        BY <2>2, <3>1, <3>2, <3>3
    <2> QED
      BY <2>1, <2>2
  <1>7. PICK q : q = [c EXCEPT ![d] = y]
    OBVIOUS
  <1>8. q \in [Axes -> Nat] /\ q[d] = y /\ \A e \in Axes \ {d} : q[e] = c[e]
    BY <1>2, <1>7, ValueChanged
  <1>9. ReadAt(Block, ConditionFor(r, d), [c EXCEPT ![d] = @ + h]) = Index(Block, Placed(q))
    <2>1. PICK w \in Nat : w = x + h
      OBVIOUS
    <2>2. PICK f : f = [c EXCEPT ![d] = w]
      OBVIOUS
    <2>3. f = [c EXCEPT ![d] = @ + h]
      BY <1>3, <2>1, <2>2, Zenon
    <2>4. f[d] = x + h /\ \A e \in Axes \ {d} : f[e] = c[e]
      BY <1>2, <2>1, <2>2, ValueChanged
    <2>5. ASSUME NEW e \in Axes
          PROVE  AtBoundary(grid.condition, f[e], InnerCells(Block, e)) = q[e]
      <3>1. CASE e = d
        BY <1>3, <1>6, <1>8, <2>4, <3>1, Zenon
      <3>2. CASE e # d
        <4>1. PICK b \in Nat, z \in Nat : b = InnerCells(Block, e) /\ b > 0 /\ z = c[e] /\ z < b
          BY <1>1, InnerOfBlock DEF InInner
        <4>2. f[e] = z /\ q[e] = z
          BY <1>8, <2>4, <3>2, <4>1
        <4>3. PICK m : m = z % b
          OBVIOUS
        <4>4. m = z
          BY <4>1, <4>3, ModNear
        <4>5. Clamped(z, b) = z
          BY <4>1 DEF Clamped
        <4>6. AtBoundary(grid.condition, z, b) = z
          BY <4>3, <4>4, <4>5, Zenon DEF AtBoundary
        <4> QED
          BY <4>1, <4>2, <4>6, Zenon
      <3> QED
        BY <3>1, <3>2
    <2>6. [e \in Axes |-> AtBoundary(grid.condition, f[e], InnerCells(Block, e)) + GhostsIn(Block, e)]
            = Placed(q)
      BY <2>5, Zenon DEF Placed
    <2>7. ReadAt(Block, grid.condition, f) = Index(Block, Placed(q))
      BY <2>6, Zenon DEF ReadAt
    <2> QED
      BY <1>5, <2>3, <2>7, Zenon
  <1>10. PICK z : z = IF grid.condition = "periodic" THEN (x + h) % n
                      ELSE IF x + h >= n THEN n - 1 ELSE x + h
    OBVIOUS
  <1>11. Nearest([Lies(r, c) EXCEPT ![d] = @ + h]) = [Lies(r, c) EXCEPT ![d] = z]
    <2>1. PICK w \in Nat : w = x + h
      OBVIOUS
    <2>2. PICK p : p = [Lies(r, c) EXCEPT ![d] = w]
      OBVIOUS
    <2>3. p = [Lies(r, c) EXCEPT ![d] = @ + h]
      <3>1. Lies(r, c)[d] = 0 + x
        BY <1>2, <1>3, <1>4, Zenon DEF Lies
      <3>2. Lies(r, c)[d] + h = w
        BY <2>1, <3>1
      <3> QED
        BY <2>2, <3>2, Zenon
    <2>4. /\ p[d] = x + h
          /\ \A e \in Axes \ {d} : p[e] = domain[r].start[e] + c[e]
      <3>1. p[d] = w /\ \A e \in Axes \ {d} : p[e] = Lies(r, c)[e]
        BY <1>1, <1>2, <2>2, LiesAt, ValueChanged
      <3>2. \A e \in Axes : Lies(r, c)[e] = domain[r].start[e] + c[e]
        BY Zenon DEF Lies
      <3> QED
        BY <2>1, <3>1, <3>2, Zenon
    <2>5. ASSUME NEW e \in Axes
          PROVE  (IF grid.condition = "periodic" THEN p[e] % grid.cells[e]
                  ELSE IF p[e] >= grid.cells[e] THEN grid.cells[e] - 1 ELSE p[e])
                   = IF e = d THEN z ELSE domain[r].start[e] + c[e]
      <3>1. CASE e = d
        BY <1>3, <1>10, <2>4, <3>1, Zenon
      <3>2. CASE e # d
        <4>1. PICK b \in Nat, l \in Nat, s \in Nat :
                /\ b = BlockSize(grid, procs)[e] /\ l = grid.cells[e]
                /\ s = domain[r].start[e] /\ s + b <= l
          BY <1>1, BlockAlong
        <4>2. PICK u \in Nat : u = c[e] /\ u < b
          <5>1. b = InnerCells(Block, e)
            BY <1>1, <4>1, InnerOfBlock
          <5> QED
            BY <5>1 DEF InInner
        <4>3. PICK t \in Nat : t = s + u
          BY <4>1
        <4>4. t < l /\ l > 0 /\ ~(t >= l) /\ t \in 0 .. l - 1
          BY <4>1, <4>2, <4>3
        <4>5. PICK m : m = t % l
          OBVIOUS
        <4>6. m = t
          BY <4>4, <4>5, ModNear
        <4>7. p[e] = t
          BY <2>4, <3>2, <4>1, <4>2, <4>3
        <4> QED
          BY <3>2, <4>1, <4>2, <4>3, <4>4, <4>5, <4>6, <4>7, Zenon
      <3> QED
        BY <3>1, <3>2
    <2>6. [Lies(r, c) EXCEPT ![d] = z]
            = [e \in Axes |-> IF e = d THEN z ELSE domain[r].start[e] + c[e]]
      BY <1>2, ChangedPosition
    <2>7. Nearest(p) = [e \in Axes |-> IF e = d THEN z ELSE domain[r].start[e] + c[e]]
      BY <2>5, Zenon DEF Nearest
    <2> QED
      BY <2>3, <2>6, <2>7, Zenon
  <1>12. CASE y < n
    <2>1. InInner(q)
      BY <1>3, <1>8, <1>12 DEF InInner
    <2>2. memory[r][Index(Block, Placed(q))] = Number(Lies(r, q))
      BY <1>8, <2>1, InnerValue
    <2>3. y = z
      BY <1>3, <1>6, <1>10, <1>12
    <2>4. Lies(r, q) = [Lies(r, c) EXCEPT ![d] = z]
      <3>1. domain[r].start[d] + q[d] = z
        BY <1>4, <1>8, <2>3
      <3> QED
        BY <1>2, <1>8, <3>1 DEF Lies
    <2> QED
      BY <1>9, <1>11, <2>2, <2>4, Zenon
  <1>13. CASE ~(y < n)
    <2>1. y = n /\ grid.condition # "periodic"
      BY <1>3, <1>6, <1>13
    <2>2. q[d] = InnerCells(Block, d) /\ \A e \in Axes \ {d} : q[e] < InnerCells(Block, e)
      BY <1>3, <1>8, <2>1 DEF InInner
    <2>3. memory[r][Index(Block, Placed(q))] = Number([Lies(r, q) EXCEPT ![d] = n - 1])
      BY <1>3, <1>8, <2>1, <2>2, ValueBehind
    <2>4. z = n - 1
      <3>1. x + h >= n
        BY <1>3, <1>6, <2>1
      <3> QED
        BY <1>10, <2>1, <3>1, Zenon
    <2>5. [Lies(r, q) EXCEPT ![d] = n - 1] = [Lies(r, c) EXCEPT ![d] = z]
      BY <1>2, <1>8, <2>4 DEF Lies
    <2> QED
      BY <1>9, <1>11, <2>3, <2>5, Zenon
  <1> QED
    BY <1>12, <1>13

\* The inductive invariant, and the ghost cells that every reconstruction needs.
PairsInv == HaloInv /\ width >= 1 /\ applied \subseteq Ranks

\* What is compared is what the invariant says of the two cells' values.
LEMMA PairsRight == PairsInv => PairsOfLine
  <1> SUFFICES ASSUME PairsInv, NEW r \in applied, NEW d \in 1 .. Dimension,
                      procs[d] = 1, ConditionFor(r, d) # "mpi", NEW pair \in DOMAIN Compared(r, d)
               PROVE  LET p == [e \in Axes |-> domain[r].start[e] + pair[1][e]]
                      IN  Compared(r, d)[pair]
                            = <<Number(p), Number(Nearest([p EXCEPT ![d] = @ + pair[2]]))>>
    BY Zenon DEF PairsOfLine
  <1>1. pair \in Inner(Block) \X (0 .. NumberOfH - 1)
    BY DEF Compared
  <1>2. PICK c \in Inner(Block), h \in 0 .. NumberOfH - 1 : c = pair[1] /\ h = pair[2]
    BY <1>1
  <1>3. HaloInv /\ HaloCase /\ width >= 1 /\ r \in Ranks
    BY Zenon DEF PairsInv, HaloInv
  <1>4. h \in Nat
    BY NumberOfHAssumption
  <1>5. c \in [Axes -> Nat] /\ InInner(c)
    <2>1. PICK u, v, w \in Nat :
            u = InnerCells(Block, 1) /\ v = InnerCells(Block, 2) /\ w = InnerCells(Block, 3)
      BY <1>3, InnerOfBlock DEF Axes
    <2>2. PICK x \in 0 .. u - 1, y \in 0 .. v - 1, z \in 0 .. w - 1 : c = <<x, y, z>>
      BY <2>1 DEF Inner
    <2> QED
      BY <2>1, <2>2 DEF Axes, InInner
  <1>6. Compared(r, d)[pair]
          = <<memory[r][Index(Block, Placed(c))],
              memory[r][ReadAt(Block, ConditionFor(r, d), [c EXCEPT ![d] = @ + h])]>>
    BY <1>1, <1>2, Zenon DEF Compared, Placed
  <1>7. memory[r][Index(Block, Placed(c))] = Number(Lies(r, c))
    BY <1>3, <1>5, InnerValue
  <1>8. memory[r][ReadAt(Block, ConditionFor(r, d), [c EXCEPT ![d] = @ + h])]
          = Number(Nearest([Lies(r, c) EXCEPT ![d] = @ + h]))
    BY <1>3, <1>4, <1>5, PartnerValue
  <1> QED
    BY <1>2, <1>6, <1>7, <1>8, Zenon DEF Lies

\* It holds at the start: whatever the case, there are ghost cells.
LEMMA PairsInit == HaloInit => PairsInv
  <1> SUFFICES ASSUME HaloInit PROVE PairsInv
    OBVIOUS
  <1>1. PICK case \in Cases : width = case.width
    BY DEF HaloInit
  <1>2. width >= 1
    BY <1>1, GhostCellsAssumption
  <1>3. applied = {}
    BY DEF HaloInit
  <1> QED
    BY <1>2, <1>3, InvInit DEF PairsInv

\* Every step keeps it.
LEMMA PairsKept == ~NarrowBlocks /\ PairsInv /\ [HaloNext]_allVars => PairsInv'
  <1> SUFFICES ASSUME ~NarrowBlocks, PairsInv, [HaloNext]_allVars PROVE PairsInv'
    OBVIOUS
  <1>1. HaloInv /\ width >= 1 /\ applied \subseteq Ranks
    BY Zenon DEF PairsInv
  <1>2. HaloInv'
    BY <1>1, InvKept
  <1>3. width' = width /\ procs' = procs /\ applied' \subseteq Ranks
    <2>1. ASSUME NEW r \in Ranks, ApplyBoundary(r)
          PROVE  width' = width /\ procs' = procs /\ applied' \subseteq Ranks
      BY <1>1, <2>1 DEF ApplyBoundary, caseVars, vars
    <2>2. ASSUME NEW r \in Ranks, ExtractSides(r)
          PROVE  width' = width /\ procs' = procs /\ applied' \subseteq Ranks
      <3>1. UNCHANGED <<caseVars, memory, applied, received>>
        BY <2>2, Zenon DEF ExtractSides
      <3> QED
        BY <1>1, <3>1 DEF caseVars, vars
    <2>3. ASSUME NEW r \in Ranks, NEW side \in ActiveSides(grid.cells), Receive(r, side)
          PROVE  width' = width /\ procs' = procs /\ applied' \subseteq Ranks
      <3>1. UNCHANGED <<caseVars, applied, staged>>
        BY <2>3, Zenon DEF Receive
      <3> QED
        BY <1>1, <3>1 DEF caseVars, vars
    <2>4. CASE UNCHANGED allVars
      BY <1>1, <2>4 DEF allVars, caseVars, vars
    <2> QED
      BY <2>1, <2>2, <2>3, <2>4 DEF HaloNext
  <1> QED
    BY <1>1, <1>2, <1>3 DEF PairsInv, Ranks

\* On every grid, split into blocks that keep its directions and are as wide as their
\* ghost cells, with any number of ghost cells and of distances: once
\* the boundary conditions are applied, and whatever has been received since, a
\* structure function along a direction that is not split compares every cell with
\* the cells behind it in the whole grid.
THEOREM PairsAlwaysOfLine == ASSUME ~NarrowBlocks PROVE HaloSpec => []PairsOfLine
  <1>1. HaloInit => PairsInv
    BY PairsInit
  <1>2. PairsInv /\ [HaloNext]_allVars => PairsInv'
    BY PairsKept
  <1>3. PairsInv => PairsOfLine
    BY PairsRight
  <1> QED
    BY <1>1, <1>2, <1>3, PTL DEF HaloSpec
=============================================================================
