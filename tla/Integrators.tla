---------------------------- MODULE Integrators ----------------------------
(***************************************************************************)
(* The substeps of the Runge-Kutta integrators: how performSubstep makes a  *)
(* volume out of dt * F(u[substep]) and the volumes u[0], ..., u[substep]   *)
(* of the step.  The operations are element by element, on CPUs and GPUs,   *)
(* so a volume may be any function to the integers: here the elements are   *)
(* multiples of 1 / Unit, and every division below comes out even.          *)
(***************************************************************************)
EXTENDS Integers

Integrators == {"forwardeuler", "rungekutta2", "rungekutta3", "rungekutta4"}

getNumberOfSubsteps(i) ==
  CASE i = "forwardeuler" -> 1
    [] i = "rungekutta2"  -> 2
    [] i = "rungekutta3"  -> 3
    [] i = "rungekutta4"  -> 4

\* v += w, and v *= p / q.
Plus(v, w)     == [n \in DOMAIN v |-> v[n] + w[n]]
Times(v, p, q) == [n \in DOMAIN v |-> (v[n] * p) \div q]

\* addLinearCombination, with coefficients over a common denominator.
LinearCombination(q, p1, v1, p2, v2, p3, v3, p4, v4, p5, v5) ==
  [n \in DOMAIN v1 |->
     (p1 * v1[n] + p2 * v2[n] + p3 * v3[n] + p4 * v4[n] + p5 * v5[n]) \div q]

\* RungeKutta2: the average of u[0] and a second step.
RungeKutta2(substep, f, u) ==
  LET euler == Plus(f, u[substep])
  IN  CASE substep = 0 -> euler
        [] substep = 1 -> Times(Plus(euler, u[0]), 1, 2)

RungeKutta3(substep, f, u) ==
  LET euler == Plus(f, u[substep])
  IN  CASE substep = 0 -> euler
        [] substep = 1 -> Times(Plus(Times(euler, 1, 3), u[0]), 3, 4)
        [] substep = 2 -> Times(Plus(Times(euler, 2, 1), u[0]), 1, 3)

RungeKutta4(substep, f, u) ==
  CASE substep \in {0, 1} -> Plus(Times(f, 1, 2), u[0])
    [] substep = 2        -> Plus(f, u[0])
    [] substep = 3        -> LinearCombination(6, 1, f, 2, u[1], 4, u[2], 2, u[3], -2, u[0])

\* f is dt * F(u[substep]).
performSubstep(i, substep, f, u) ==
  CASE i = "forwardeuler" -> Plus(f, u[0])
    [] i = "rungekutta2"  -> RungeKutta2(substep, f, u)
    [] i = "rungekutta3"  -> RungeKutta3(substep, f, u)
    [] i = "rungekutta4"  -> RungeKutta4(substep, f, u)

-----------------------------------------------------------------------------
(* Two kinds of volumes, for the theorems.                                  *)

Unit  == 24
Terms == 0 .. 4

\* For a linear F, a volume of a step is a polynomial in dt * F, applied to the
\* volume that the step begins with: its coefficients.
Identity   == [n \in Terms |-> IF n = 0 THEN Unit ELSE 0]
Applied(v) == [n \in Terms |-> IF n = 0 THEN 0 ELSE v[n - 1]]

\* All volumes u[0], ..., of a step, up to the one that is swapped to the front.
Step(i, u) ==
  /\ u[0] = Identity
  /\ \A k \in 0 .. getNumberOfSubsteps(i) - 1 :
       u[k + 1] = performSubstep(i, k, Applied(u[k]), u)

\* The coefficients of exp(dt * F), up to the order of the integrator.
ExactToOrder(i, v) ==
  /\ v[0] = Unit
  /\ \A n \in 1 .. getNumberOfSubsteps(i) : n * v[n] = v[n - 1]

\* The weights with which u[0], ..., u[3] and, as the last one, dt * F(u[k])
\* enter the result of a substep.
Symbol(j)     == [n \in Terms |-> IF n = j THEN Unit ELSE 0]
Weights(i, k) == performSubstep(i, k, Symbol(4), [j \in 0 .. 3 |-> Symbol(j)])

\* Unit times the result of a substep in one cell.
Result(w, f, u) == w[4] * f + w[0] * u[0] + w[1] * u[1] + w[2] * u[2] + w[3] * u[3]
=============================================================================
