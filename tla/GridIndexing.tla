---------------------------- MODULE GridIndexing ---------------------------
(***************************************************************************)
(* The arithmetic of positions in a block of l by m by n and their indices  *)
(* x + y * l + z * l * m: a position has one index, and an index below      *)
(* l * m * n has one position.  The ranks of a decomposition, the cells of  *)
(* a volume and the threads of a kernel are counted like that.              *)
(***************************************************************************)
EXTENDS Integers, TLAPS

\* Quotient and remainder by a positive number ...
LEMMA DivMod ==
  ASSUME NEW a \in Nat, NEW n \in Nat, n > 0
  PROVE /\ a \div n \in Nat
        /\ a % n \in 0 .. n - 1
        /\ a = n * (a \div n) + (a % n)
  BY Z3

\* ... and that nothing else is a quotient and a remainder.
LEMMA DivModUnique ==
  ASSUME NEW n \in Nat, n > 0, NEW q \in Nat, NEW x \in 0 .. n - 1
  PROVE /\ (x + q * n) % n = x
        /\ (x + q * n) \div n = q
  BY Z3

\* Layers of n elements: an index in the first m layers is below n * m ...
LEMMA LayersBelow ==
  ASSUME NEW x \in Nat, NEW n \in Nat, NEW y \in Nat, NEW m \in Nat, x < n, y < m
  PROVE x + y * n < n * m
  BY Z3

\* ... and one below n * m is in the first m layers.
LEMMA LayerOf ==
  ASSUME NEW x \in Nat, NEW n \in Nat, NEW y \in Nat, NEW m \in Nat, x < n, x + y * n < n * m
  PROVE y < m
  BY Z3

\* Rows and layers of rows, counted in either order.
LEMMA TwoLayers ==
  ASSUME NEW x \in Nat, NEW y \in Nat, NEW z \in Nat, NEW n \in Nat, NEW m \in Nat
  PROVE /\ x + y * n + z * n * m = x + (y + z * m) * n
        /\ x + y * n + z * n * m = (x + y * n) + z * (n * m)
        /\ y * n \in Nat /\ z * n * m \in Nat /\ y + z * m \in Nat /\ n * m \in Nat
        /\ x + y * n \in Nat
  BY Z3

\* A product of positive numbers is positive.
LEMMA ProductPositive ==
  ASSUME NEW n \in Nat, NEW m \in Nat, n > 0, m > 0
  PROVE n * m > 0 /\ n * m \in Nat
  BY Z3

\* The index of a position in a block of l by m by n, and the way back.
LEMMA Compose ==
  ASSUME NEW l \in Nat, NEW m \in Nat, NEW n \in Nat,
         NEW x \in 0 .. l - 1, NEW y \in 0 .. m - 1, NEW z \in 0 .. n - 1,
         NEW i, i = x + y * l + z * l * m
  PROVE /\ i \in 0 .. l * m * n - 1
        /\ i % l = x /\ (i \div l) % m = y /\ i \div (l * m) = z
  <1>0. x \in Nat /\ y \in Nat /\ z \in Nat /\ l > 0 /\ m > 0 /\ n > 0
    OBVIOUS
  <1>1. PICK lm \in Nat : lm = l * m /\ lm > 0
    BY <1>0, ProductPositive
  <1>2. PICK xy \in Nat : xy = x + y * l /\ xy < lm
    BY <1>0, <1>1, LayersBelow, TwoLayers
  <1>3. PICK yz \in Nat : yz = y + z * m
    BY <1>0, TwoLayers
  <1>4. i = xy + z * lm /\ i = x + yz * l
    BY <1>0, <1>1, <1>2, <1>3, TwoLayers
  <1>5. xy \in 0 .. lm - 1
    BY <1>2
  <1>6. i \div lm = z
    BY <1>0, <1>1, <1>4, <1>5, DivModUnique
  <1>7. i % l = x /\ i \div l = yz
    BY <1>0, <1>4, DivModUnique
  <1>8. yz % m = y
    BY <1>0, <1>3, DivModUnique
  <1>9. xy + z * lm < lm * n
    BY <1>0, <1>1, <1>2, LayersBelow
  <1>10. z * lm \in Nat /\ lm * n = l * m * n
    BY <1>0, <1>1, ProductPositive, Z3
  <1> QED
    BY <1>1, <1>2, <1>4, <1>6, <1>7, <1>8, <1>9, <1>10

\* The position of an index, and the way back.
LEMMA Split ==
  ASSUME NEW l \in Nat, NEW m \in Nat, NEW n \in Nat, l > 0, m > 0, n > 0,
         NEW r \in Nat, r < l * m * n
  PROVE /\ r % l \in 0 .. l - 1 /\ (r \div l) % m \in 0 .. m - 1 /\ r \div (l * m) \in 0 .. n - 1
        /\ r = (r % l) + ((r \div l) % m) * l + (r \div (l * m)) * l * m
  <1>1. PICK lm \in Nat : lm = l * m /\ lm > 0
    BY ProductPositive
  <1>2. PICK x \in Nat, q \in Nat : x = r % l /\ x < l /\ q = r \div l /\ r = l * q + x
    BY DivMod
  <1>3. PICK y \in Nat, z \in Nat : y = q % m /\ y < m /\ z = q \div m /\ q = m * z + y
    BY DivMod
  <1>4. PICK xy \in Nat : xy = x + y * l /\ xy < lm
    BY <1>1, <1>2, <1>3, LayersBelow, TwoLayers
  <1>5. r = x + y * l + z * l * m
    BY <1>2, <1>3, Z3
  <1>6. r = xy + z * lm
    BY <1>1, <1>4, <1>5, TwoLayers
  <1>7. xy \in 0 .. lm - 1
    BY <1>4
  <1>8. r \div lm = z
    BY <1>1, <1>6, <1>7, DivModUnique
  <1>9. xy + z * lm < lm * n
    BY <1>1, <1>6, Z3
  <1>10. z < n
    BY <1>4, <1>9, LayerOf
  <1> QED
    BY <1>1, <1>2, <1>3, <1>5, <1>8, <1>10
=============================================================================
