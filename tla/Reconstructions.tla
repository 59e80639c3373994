-------------------------- MODULE Reconstructions --------------------------
(***************************************************************************)
(* The reconstructions: the values at the left and right face of a cell     *)
(* made from the values of the cells around it.  v[i] is the value of the   *)
(* cell that lies i cells away in the direction of the reconstruction, in   *)
(* one variable; for the choice of stencils and weights it is the variable  *)
(* that indicates them.  Values are multiples of a small unit: faces are    *)
(* given with the factor in the comment, so that nothing is rounded.        *)
(***************************************************************************)
EXTENDS Integers

\* ENOCoeffiecients<k>::coefficients, with the factor 12.
ENOCoefficients(k) ==
  CASE k = 1 -> <<<<12>>, <<12>>>>
    [] k = 2 -> <<<<18, -6>>, <<6, 6>>, <<-6, 18>>>>
    [] k = 3 -> <<<<22, -14, 4>>, <<4, 10, -2>>, <<-2, 10, 4>>, <<4, -14, 22>>>>
    [] k = 4 -> <<<<25, -23, 13, -3>>, <<3, 13, -5, 1>>, <<-1, 7, 7, -1>>,
                  <<1, -5, 13, 3>>, <<-3, 13, -23, 25>>>>

\* The sum over a stencil of k cells whose first one is shift cells to the left.
Summed(k, row, shift, v) ==
  LET term(j) == IF j < k THEN ENOCoefficients(k)[row + 1][j + 1] * v[j - shift] ELSE 0
  IN  term(0) + term(1) + term(2) + term(3)

\* Both faces, with the factor 12.
LeftFace(k, shift, v)  == Summed(k, shift, shift, v)
RightFace(k, shift, v) == Summed(k, shift + 1, shift, v)

-----------------------------------------------------------------------------
(* ENO: on CPUs and GPUs alike.                                             *)

\* computeDividedDifferences: a difference is kept at the index of its left cell.
Differences(v) == [i \in Int |-> v[i + 1] - v[i]]

DividedDifferences(level, v) ==
  CASE level = 1 -> Differences(v)
    [] level = 2 -> Differences(Differences(v))
    [] level = 3 -> Differences(Differences(Differences(v)))

Absolute(a) == IF a < 0 THEN -a ELSE a

\* Both differences of a level are the ones beside the cell, at every level.
GoesLeft(level, v) ==
  LET differences == DividedDifferences(level, v)
  IN  Absolute(differences[-1]) < Absolute(differences[0])

ENOShift(k, v) ==
  LET step(level) == IF level < k /\ GoesLeft(level, v) THEN 1 ELSE 0
  IN  step(1) + step(2) + step(3)

-----------------------------------------------------------------------------
(* WENO: w[shift] stands for 1 / (beta + epsilon)^2 of the stencil with that *)
(* shift, up to a common factor.                                            *)

\* WENOCoefficients<k>::coefficients, with the factor 10 (or 3).
WENOCoefficients(k) == CASE k = 2 -> <<2, 1>>
                         [] k = 3 -> <<3, 6, 1>>

AlphaRight(k, shift, w) ==
  IF shift < k THEN WENOCoefficients(k)[shift + 1] * w[shift] ELSE 0
AlphaLeft(k, shift, w) ==
  IF shift < k THEN WENOCoefficients(k)[k - shift] * w[shift] ELSE 0

AlphaLeftSum(k, w)  == AlphaLeft(k, 0, w) + AlphaLeft(k, 1, w) + AlphaLeft(k, 2, w)
AlphaRightSum(k, w) == AlphaRight(k, 0, w) + AlphaRight(k, 1, w) + AlphaRight(k, 2, w)

\* The faces, with the factor 12 and that of the sum of the alphas.
WENOLeft(k, w, v) ==
  LET term(shift) == IF shift < k THEN AlphaLeft(k, shift, w) * LeftFace(k, shift, v) ELSE 0
  IN  term(0) + term(1) + term(2)
WENORight(k, w, v) ==
  LET term(shift) == IF shift < k THEN AlphaRight(k, shift, w) * RightFace(k, shift, v) ELSE 0
  IN  term(0) + term(1) + term(2)

\* WENO2, which computes the faces of weno2 by a formula of its own, in Euler's
\* case from the weight of all variables.  With the factor 2 and the sum of the
\* weights.
WENO2Left(w, v) ==
  LET w0 == w[0]  w1 == 2 * w[1]
  IN  w1 * v[-1] + (3 * w0 + w1) * v[0] - w0 * v[1]
WENO2Right(w, v) ==
  LET w0 == 2 * w[0]  w1 == w[1]
  IN  w0 * v[1] + (3 * w1 + w0) * v[0] - w1 * v[-1]

-----------------------------------------------------------------------------
(* The limiters.                                                            *)

Sign(a)    == IF a > 0 THEN 1 ELSE IF a = 0 THEN 0 ELSE -1
Least(a, b) == IF a < b THEN a ELSE b

minmod(a, b) ==
  IF Sign(a) = Sign(b) THEN Sign(a) * Least(Absolute(a), Absolute(b)) ELSE 0
minmod3(a, b, c) ==
  IF Sign(a) = Sign(b) /\ Sign(b) = Sign(c)
  THEN Sign(a) * Least(Absolute(a), Least(Absolute(b), Absolute(c))) ELSE 0

\* Twice the slope sigma, ...
SlopeMC(v) == minmod3(4 * (v[1] - v[0]), v[1] - v[-1], 4 * (v[0] - v[-1]))
SlopeMM(v) == minmod(2 * (v[1] - v[0]), 2 * (v[0] - v[-1]))
\* ... and the faces, with the factor 4.
LimitedLeft(slope, v)  == 4 * v[0] - slope
LimitedRight(slope, v) == 4 * v[0] + slope
=============================================================================
