---------------------------- MODULE ScalarFluxes ----------------------------
(***************************************************************************)
(* The numerical fluxes of the scalar equations, as functions of the values  *)
(* left and right of a face, and the combinations of higher order.  Values   *)
(* are multiples of a small unit and each flux is given with a factor that   *)
(* leaves nothing to round.  The entropy conservative flux takes logarithms  *)
(* and is not among them.                                                    *)
(***************************************************************************)
EXTENDS Integers

Equations == {"burgers", "cubic", "linear"}

Positive(u) == IF u > 0 THEN u ELSE 0
Negative(u) == IF u < 0 THEN u ELSE 0
Greater(a, b) == IF a < b THEN b ELSE a

\* computePointFlux, with the factor 6.
PointFlux(equation, u) ==
  CASE equation = "burgers" -> 3 * u * u
    [] equation = "cubic"   -> 2 * u * u * u
    [] equation = "linear"  -> 6 * u

EigenValue(equation, u) ==
  CASE equation = "burgers" -> u
    [] equation = "cubic"   -> u * u
    [] equation = "linear"  -> 1

WaveSpeed(equation, u) ==
  LET eigenvalue == EigenValue(equation, u)
  IN  IF eigenvalue < 0 THEN -eigenvalue ELSE eigenvalue

\* Central and Rusanov, with the factor 12.
Central(equation, left, right) ==
  PointFlux(equation, left) + PointFlux(equation, right)

Rusanov(equation, left, right) ==
  Central(equation, left, right)
    - 6 * Greater(WaveSpeed(equation, left), WaveSpeed(equation, right)) * (right - left)

\* The fluxes of single equations, with the factor 6.
BurgersGodunov(left, right) ==
  Greater(PointFlux("burgers", Positive(left)), PointFlux("burgers", Negative(right)))

BurgersRoe(left, right) ==
  IF left >= -right THEN PointFlux("burgers", Positive(left))
                    ELSE PointFlux("burgers", Negative(right))

\* The sign of the slope of the chord, or of the flux itself.
CubicRoe(left, right) ==
  LET rightwards ==
        IF left # right
        THEN (PointFlux("cubic", left) - PointFlux("cubic", right)) * (left - right) >= 0
        ELSE left * left >= 0
  IN  IF rightwards THEN PointFlux("cubic", left) ELSE PointFlux("cubic", right)

LinearUpwind(left, right) == PointFlux("linear", left)

LinearRoe(left, right) == PointFlux("linear", Positive(left))

-----------------------------------------------------------------------------
(* The combinations at the face after cell i, where flux[<<j, k>>] is the    *)
(* base flux of the values of cells j and k: with the factors 6 and 30.      *)

TecnoCombined4(flux, i) ==
  8 * flux[<<i, i + 1>>] - (flux[<<i - 1, i + 1>>] + flux[<<i, i + 2>>])

TecnoCombined6(flux, i) ==
  45 * flux[<<i, i + 1>>] - 9 * (flux[<<i - 1, i + 1>>] + flux[<<i, i + 2>>])
    + (flux[<<i - 2, i + 1>>] + flux[<<i - 1, i + 2>>] + flux[<<i, i + 3>>])
=============================================================================
