--------------------------- MODULE Numerics_proofs ---------------------------
(***************************************************************************)
(* What the formulas of the numerical methods are chosen for.               *)
(*                                                                         *)
(* Integrators: the order of each integrator, and that the first three keep *)
(* what forward Euler keeps.                                                *)
(*                                                                         *)
(* Reconstructions: how exact they are for polynomials, that the limiters   *)
(* make no new extrema, and which stencils ENO takes at a jump.             *)
(*                                                                         *)
(* Fluxes of the scalar equations: consistency, Godunov's flux and its      *)
(* monotonicity, and the order of the combinations.                         *)
(*                                                                         *)
(* Loops: every element and every cell is worked on exactly once, on CPUs   *)
(* and on GPUs, for volumes of every size; and where the two do different   *)
(* things.                                                                  *)
(***************************************************************************)
EXTENDS Integrators, Reconstructions, ScalarFluxes, CellLoops, GridIndexing, TLAPS

(* Integrators.                                                             *)

\* The polynomials of each integrator's volumes, one after the other.
\* A volume by its coefficients.
Coefficients(v, a, b, c, d, e) ==
  /\ DOMAIN v = Terms
  /\ v[0] = a /\ v[1] = b /\ v[2] = c /\ v[3] = d /\ v[4] = e

\* The volume of the beginning of a step.
LEMMA IdentityCoefficients == Coefficients(Identity, 24, 0, 0, 0, 0)
BY DEF Coefficients, Identity, Terms, Unit

\* The operator F moves coefficients up by one power of dt.
LEMMA AppliedCoefficients ==
  ASSUME NEW v, NEW a, NEW b, NEW c, NEW d, NEW e, Coefficients(v, a, b, c, d, e)
  PROVE  Coefficients(Applied(v), 0, a, b, c, d)
BY DEF Coefficients, Applied, Terms

\* Sums ...
LEMMA PlusCoefficients ==
  ASSUME NEW v, NEW a \in Int, NEW b \in Int, NEW c \in Int, NEW d \in Int, NEW e \in Int,
         NEW w, NEW a1 \in Int, NEW b1 \in Int, NEW c1 \in Int, NEW d1 \in Int, NEW e1 \in Int,
         Coefficients(v, a, b, c, d, e), Coefficients(w, a1, b1, c1, d1, e1)
  PROVE  Coefficients(Plus(v, w), a + a1, b + b1, c + c1, d + d1, e + e1)
BY DEF Coefficients, Plus, Terms

\* ... and multiples are taken coefficient by coefficient.
LEMMA TimesCoefficients ==
  ASSUME NEW v, NEW a, NEW b, NEW c, NEW d, NEW e, NEW p, NEW q,
         Coefficients(v, a, b, c, d, e)
  PROVE  Coefficients(Times(v, p, q), (a * p) \div q, (b * p) \div q, (c * p) \div q,
                      (d * p) \div q, (e * p) \div q)
<1>1. Terms = DOMAIN v /\ \A n \in Terms : Times(v, p, q)[n] = (v[n] * p) \div q
  BY Zenon DEF Coefficients, Times
<1>2. DOMAIN Times(v, p, q) = Terms
  BY <1>1, Zenon DEF Times
<1>3. {0, 1, 2, 3, 4} \subseteq Terms
  BY DEF Terms
<1> QED
  BY <1>1, <1>2, <1>3, Zenon DEF Coefficients

\* The last volume of a step is exact to the order of forwardeuler, ...
LEMMA EulerStages ==
  ASSUME NEW u, Step("forwardeuler", u)
  PROVE  ExactToOrder("forwardeuler", u[1])
<1>1. Coefficients(u[0], 24, 0, 0, 0, 0)
  BY IdentityCoefficients DEF Step
<1>2. u[1] = Plus(Applied(u[0]), u[0])
  BY SMT DEF Step, getNumberOfSubsteps, performSubstep
<1>3. Coefficients(u[1], 24, 24, 0, 0, 0)
  <2>1. Coefficients(Applied(u[0]), 0, 24, 0, 0, 0)
    BY <1>1, AppliedCoefficients
  <2>2. Coefficients(Plus(Applied(u[0]), u[0]), 24, 24, 0, 0, 0)
    BY <2>1, <1>1, PlusCoefficients
  <2> QED
    BY <1>2, <2>2
<1> QED
  BY <1>3 DEF Coefficients, ExactToOrder, getNumberOfSubsteps, Unit

\* ... of rungekutta2, ...
LEMMA RK2Stages ==
  ASSUME NEW u, Step("rungekutta2", u)
  PROVE  ExactToOrder("rungekutta2", u[2])
<1>1. Coefficients(u[0], 24, 0, 0, 0, 0)
  BY IdentityCoefficients DEF Step
<1>2. u[1] = Plus(Applied(u[0]), u[0])
  BY SMT DEF Step, getNumberOfSubsteps, performSubstep, RungeKutta2
<1>3. u[2] = Times(Plus(Plus(Applied(u[1]), u[1]), u[0]), 1, 2)
  BY SMT DEF Step, getNumberOfSubsteps, performSubstep, RungeKutta2
<1>4. Coefficients(u[1], 24, 24, 0, 0, 0)
  <2>1. Coefficients(Applied(u[0]), 0, 24, 0, 0, 0)
    BY <1>1, AppliedCoefficients
  <2>2. Coefficients(Plus(Applied(u[0]), u[0]), 24, 24, 0, 0, 0)
    BY <2>1, <1>1, PlusCoefficients
  <2> QED
    BY <1>2, <2>2
<1>5. Coefficients(u[2], 24, 24, 12, 0, 0)
  <2>1. Coefficients(Applied(u[1]), 0, 24, 24, 0, 0)
    BY <1>4, AppliedCoefficients
  <2>2. Coefficients(Plus(Applied(u[1]), u[1]), 24, 48, 24, 0, 0)
    BY <2>1, <1>4, PlusCoefficients
  <2>3. Coefficients(Plus(Plus(Applied(u[1]), u[1]), u[0]), 48, 48, 24, 0, 0)
    BY <2>2, <1>1, PlusCoefficients
  <2>4. Coefficients(Times(Plus(Plus(Applied(u[1]), u[1]), u[0]), 1, 2), 24, 24, 12, 0, 0)
    <3>1. Coefficients(Times(Plus(Plus(Applied(u[1]), u[1]), u[0]), 1, 2),
                       (48 * 1) \div 2, (48 * 1) \div 2, (24 * 1) \div 2, (0 * 1) \div 2, (0 * 1) \div 2)
      BY <2>3, TimesCoefficients, Zenon
    <3>2. (48 * 1) \div 2 = 24 /\ (24 * 1) \div 2 = 12 /\ (0 * 1) \div 2 = 0
      OBVIOUS
    <3> QED
      BY <3>1, <3>2, Zenon
  <2> QED
    BY <1>3, <2>4
<1> QED
  BY <1>5 DEF Coefficients, ExactToOrder, getNumberOfSubsteps, Unit

\* ... of rungekutta3 ...
LEMMA RK3Stages ==
  ASSUME NEW u, Step("rungekutta3", u)
  PROVE  ExactToOrder("rungekutta3", u[3])
<1>1. Coefficients(u[0], 24, 0, 0, 0, 0)
  BY IdentityCoefficients DEF Step
<1>2. u[1] = Plus(Applied(u[0]), u[0])
  BY SMT DEF Step, getNumberOfSubsteps, performSubstep, RungeKutta3
<1>3. u[2] = Times(Plus(Times(Plus(Applied(u[1]), u[1]), 1, 3), u[0]), 3, 4)
  BY SMT DEF Step, getNumberOfSubsteps, performSubstep, RungeKutta3
<1>4. u[3] = Times(Plus(Times(Plus(Applied(u[2]), u[2]), 2, 1), u[0]), 1, 3)
  BY SMT DEF Step, getNumberOfSubsteps, performSubstep, RungeKutta3
<1>5. Coefficients(u[1], 24, 24, 0, 0, 0)
  <2>1. Coefficients(Applied(u[0]), 0, 24, 0, 0, 0)
    BY <1>1, AppliedCoefficients
  <2>2. Coefficients(Plus(Applied(u[0]), u[0]), 24, 24, 0, 0, 0)
    BY <2>1, <1>1, PlusCoefficients
  <2> QED
    BY <1>2, <2>2
<1>6. Coefficients(u[2], 24, 12, 6, 0, 0)
  <2>1. Coefficients(Applied(u[1]), 0, 24, 24, 0, 0)
    BY <1>5, AppliedCoefficients
  <2>2. Coefficients(Plus(Applied(u[1]), u[1]), 24, 48, 24, 0, 0)
    BY <2>1, <1>5, PlusCoefficients
  <2>3. Coefficients(Times(Plus(Applied(u[1]), u[1]), 1, 3), 8, 16, 8, 0, 0)
    <3>1. Coefficients(Times(Plus(Applied(u[1]), u[1]), 1, 3),
                       (24 * 1) \div 3, (48 * 1) \div 3, (24 * 1) \div 3, (0 * 1) \div 3, (0 * 1) \div 3)
      BY <2>2, TimesCoefficients, Zenon
    <3>2. (24 * 1) \div 3 = 8 /\ (48 * 1) \div 3 = 16 /\ (0 * 1) \div 3 = 0
      OBVIOUS
    <3> QED
      BY <3>1, <3>2, Zenon
  <2>4. Coefficients(Plus(Times(Plus(Applied(u[1]), u[1]), 1, 3), u[0]), 32, 16, 8, 0, 0)
    BY <2>3, <1>1, PlusCoefficients
  <2>5. Coefficients(Times(Plus(Times(Plus(Applied(u[1]), u[1]), 1, 3), u[0]), 3, 4), 24, 12, 6, 0, 0)
    <3>1. Coefficients(Times(Plus(Times(Plus(Applied(u[1]), u[1]), 1, 3), u[0]), 3, 4),
                       (32 * 3) \div 4, (16 * 3) \div 4, (8 * 3) \div 4, (0 * 3) \div 4, (0 * 3) \div 4)
      BY <2>4, TimesCoefficients, Zenon
    <3>2. (32 * 3) \div 4 = 24 /\ (16 * 3) \div 4 = 12 /\ (8 * 3) \div 4 = 6 /\ (0 * 3) \div 4 = 0
      OBVIOUS
    <3> QED
      BY <3>1, <3>2, Zenon
  <2> QED
    BY <1>3, <2>5
<1>7. Coefficients(u[3], 24, 24, 12, 4, 0)
  <2>1. Coefficients(Applied(u[2]), 0, 24, 12, 6, 0)
    BY <1>6, AppliedCoefficients
  <2>2. Coefficients(Plus(Applied(u[2]), u[2]), 24, 36, 18, 6, 0)
    BY <2>1, <1>6, PlusCoefficients
  <2>3. Coefficients(Times(Plus(Applied(u[2]), u[2]), 2, 1), 48, 72, 36, 12, 0)
    <3>1. Coefficients(Times(Plus(Applied(u[2]), u[2]), 2, 1),
                       (24 * 2) \div 1, (36 * 2) \div 1, (18 * 2) \div 1, (6 * 2) \div 1, (0 * 2) \div 1)
      BY <2>2, TimesCoefficients, Zenon
    <3>2. (24 * 2) \div 1 = 48 /\ (36 * 2) \div 1 = 72 /\ (18 * 2) \div 1 = 36 /\ (6 * 2) \div 1 = 12 /\ (0 * 2) \div 1 = 0
      OBVIOUS
    <3> QED
      BY <3>1, <3>2, Zenon
  <2>4. Coefficients(Plus(Times(Plus(Applied(u[2]), u[2]), 2, 1), u[0]), 72, 72, 36, 12, 0)
    BY <2>3, <1>1, PlusCoefficients
  <2>5. Coefficients(Times(Plus(Times(Plus(Applied(u[2]), u[2]), 2, 1), u[0]), 1, 3), 24, 24, 12, 4, 0)
    <3>1. Coefficients(Times(Plus(Times(Plus(Applied(u[2]), u[2]), 2, 1), u[0]), 1, 3),
                       (72 * 1) \div 3, (72 * 1) \div 3, (36 * 1) \div 3, (12 * 1) \div 3, (0 * 1) \div 3)
      BY <2>4, TimesCoefficients, Zenon
    <3>2. (72 * 1) \div 3 = 24 /\ (36 * 1) \div 3 = 12 /\ (12 * 1) \div 3 = 4 /\ (0 * 1) \div 3 = 0
      OBVIOUS
    <3> QED
      BY <3>1, <3>2, Zenon
  <2> QED
    BY <1>4, <2>5
<1> QED
  BY <1>7 DEF Coefficients, ExactToOrder, getNumberOfSubsteps, Unit

\* ... and of rungekutta4.
LEMMA RK4Stages ==
  ASSUME NEW u, Step("rungekutta4", u)
  PROVE  ExactToOrder("rungekutta4", u[4])
<1>1. Coefficients(u[0], 24, 0, 0, 0, 0)
  BY IdentityCoefficients DEF Step
<1>2. u[1] = Plus(Times(Applied(u[0]), 1, 2), u[0])
  BY SMT DEF Step, getNumberOfSubsteps, performSubstep, RungeKutta4
<1>3. u[2] = Plus(Times(Applied(u[1]), 1, 2), u[0])
  BY SMT DEF Step, getNumberOfSubsteps, performSubstep, RungeKutta4
<1>4. u[3] = Plus(Applied(u[2]), u[0])
  BY SMT DEF Step, getNumberOfSubsteps, performSubstep, RungeKutta4
<1>5. u[4] = LinearCombination(6, 1, Applied(u[3]), 2, u[1], 4, u[2], 2, u[3], -2, u[0])
  BY SMT DEF Step, getNumberOfSubsteps, performSubstep, RungeKutta4
<1>6. Coefficients(u[1], 24, 12, 0, 0, 0)
  <2>1. Coefficients(Applied(u[0]), 0, 24, 0, 0, 0)
    BY <1>1, AppliedCoefficients
  <2>2. Coefficients(Times(Applied(u[0]), 1, 2), 0, 12, 0, 0, 0)
    <3>1. Coefficients(Times(Applied(u[0]), 1, 2),
                       (0 * 1) \div 2, (24 * 1) \div 2, (0 * 1) \div 2, (0 * 1) \div 2, (0 * 1) \div 2)
      BY <2>1, TimesCoefficients, Zenon
    <3>2. (0 * 1) \div 2 = 0 /\ (24 * 1) \div 2 = 12
      OBVIOUS
    <3> QED
      BY <3>1, <3>2, Zenon
  <2>3. Coefficients(Plus(Times(Applied(u[0]), 1, 2), u[0]), 24, 12, 0, 0, 0)
    BY <2>2, <1>1, PlusCoefficients
  <2> QED
    BY <1>2, <2>3
<1>7. Coefficients(u[2], 24, 12, 6, 0, 0)
  <2>1. Coefficients(Applied(u[1]), 0, 24, 12, 0, 0)
    BY <1>6, AppliedCoefficients
  <2>2. Coefficients(Times(Applied(u[1]), 1, 2), 0, 12, 6, 0, 0)
    <3>1. Coefficients(Times(Applied(u[1]), 1, 2),
                       (0 * 1) \div 2, (24 * 1) \div 2, (12 * 1) \div 2, (0 * 1) \div 2, (0 * 1) \div 2)
      BY <2>1, TimesCoefficients, Zenon
    <3>2. (0 * 1) \div 2 = 0 /\ (24 * 1) \div 2 = 12 /\ (12 * 1) \div 2 = 6
      OBVIOUS
    <3> QED
      BY <3>1, <3>2, Zenon
  <2>3. Coefficients(Plus(Times(Applied(u[1]), 1, 2), u[0]), 24, 12, 6, 0, 0)
    BY <2>2, <1>1, PlusCoefficients
  <2> QED
    BY <1>3, <2>3
<1>8. Coefficients(u[3], 24, 24, 12, 6, 0)
  <2>1. Coefficients(Applied(u[2]), 0, 24, 12, 6, 0)
    BY <1>7, AppliedCoefficients
  <2>2. Coefficients(Plus(Applied(u[2]), u[0]), 24, 24, 12, 6, 0)
    BY <2>1, <1>1, PlusCoefficients
  <2> QED
    BY <1>4, <2>2
<1>9. Coefficients(u[4], 24, 24, 12, 4, 1)
  <2>1. Coefficients(Applied(u[3]), 0, 24, 24, 12, 6)
    BY <1>8, AppliedCoefficients
  <2>2. Coefficients(LinearCombination(6, 1, Applied(u[3]), 2, u[1], 4, u[2], 2, u[3], -2, u[0]), 24, 24, 12, 4, 1)
    BY <2>1, <1>6, <1>7, <1>8, <1>1 DEF Coefficients, LinearCombination, Terms
  <2> QED
    BY <1>5, <2>2
<1> QED
  BY <1>9 DEF Coefficients, ExactToOrder, getNumberOfSubsteps, Unit

(* Each integrator is exact to its order.  The substeps are written as short *)
(* sums in place, each with a factor of its own: one wrong factor, or a      *)
(* volume taken from the wrong substep, would still converge, and be of a    *)
(* lower order.                                                              *)
THEOREM ExactToItsOrder ==
  ASSUME NEW i \in Integrators, NEW u, Step(i, u)
  PROVE  ExactToOrder(i, u[getNumberOfSubsteps(i)])
<1>1. CASE i = "forwardeuler"
  BY <1>1, EulerStages, SMT DEF getNumberOfSubsteps
<1>2. CASE i = "rungekutta2"
  BY <1>2, RK2Stages, SMT DEF getNumberOfSubsteps
<1>3. CASE i = "rungekutta3"
  BY <1>3, RK3Stages, SMT DEF getNumberOfSubsteps
<1>4. CASE i = "rungekutta4"
  BY <1>4, RK4Stages, SMT DEF getNumberOfSubsteps
<1> QED
  BY <1>1, <1>2, <1>3, <1>4 DEF Integrators

-----------------------------------------------------------------------------
(* The average that each substep takes.                                     *)

\* A volume that stands for itself.
LEMMA SymbolCoefficients ==
  /\ Coefficients(Symbol(0), 24, 0, 0, 0, 0)
  /\ Coefficients(Symbol(1), 0, 24, 0, 0, 0)
  /\ Coefficients(Symbol(2), 0, 0, 24, 0, 0)
  /\ Coefficients(Symbol(3), 0, 0, 0, 24, 0)
  /\ Coefficients(Symbol(4), 0, 0, 0, 0, 24)
BY DEF Coefficients, Symbol, Terms, Unit

\* What a substep of forwardeuler takes of each volume, ...
LEMMA EulerWeights ==
  /\ Coefficients(Weights("forwardeuler", 0), 24, 0, 0, 0, 24)
<1>1. Coefficients(Weights("forwardeuler", 0), 24, 0, 0, 0, 24)
  <2>1. Weights("forwardeuler", 0) = Plus(Symbol(4), Symbol(0))
    BY SMT DEF Weights, performSubstep
  <2>2. Coefficients(Plus(Symbol(4), Symbol(0)), 24, 0, 0, 0, 24)
    BY SymbolCoefficients, PlusCoefficients
  <2> QED
    BY <2>1, <2>2
<1> QED
  BY <1>1

\* ... one of rungekutta2 ...
LEMMA RK2Weights ==
  /\ Coefficients(Weights("rungekutta2", 0), 24, 0, 0, 0, 24)
  /\ Coefficients(Weights("rungekutta2", 1), 12, 12, 0, 0, 12)
<1>1. Coefficients(Weights("rungekutta2", 0), 24, 0, 0, 0, 24)
  <2>1. Weights("rungekutta2", 0) = Plus(Symbol(4), Symbol(0))
    BY SMT DEF Weights, performSubstep, RungeKutta2
  <2>2. Coefficients(Plus(Symbol(4), Symbol(0)), 24, 0, 0, 0, 24)
    BY SymbolCoefficients, PlusCoefficients
  <2> QED
    BY <2>1, <2>2
<1>2. Coefficients(Weights("rungekutta2", 1), 12, 12, 0, 0, 12)
  <2>1. Weights("rungekutta2", 1) = Times(Plus(Plus(Symbol(4), Symbol(1)), Symbol(0)), 1, 2)
    BY SMT DEF Weights, performSubstep, RungeKutta2
  <2>2. Coefficients(Plus(Symbol(4), Symbol(1)), 0, 24, 0, 0, 24)
    BY SymbolCoefficients, PlusCoefficients
  <2>3. Coefficients(Plus(Plus(Symbol(4), Symbol(1)), Symbol(0)), 24, 24, 0, 0, 24)
    BY <2>2, SymbolCoefficients, PlusCoefficients
  <2>4. Coefficients(Times(Plus(Plus(Symbol(4), Symbol(1)), Symbol(0)), 1, 2), 12, 12, 0, 0, 12)
    <3>1. Coefficients(Times(Plus(Plus(Symbol(4), Symbol(1)), Symbol(0)), 1, 2),
                       (24 * 1) \div 2, (24 * 1) \div 2, (0 * 1) \div 2, (0 * 1) \div 2, (24 * 1) \div 2)
      BY <2>3, TimesCoefficients, Zenon
    <3>2. (24 * 1) \div 2 = 12 /\ (0 * 1) \div 2 = 0
      OBVIOUS
    <3> QED
      BY <3>1, <3>2, Zenon
  <2> QED
    BY <2>1, <2>4
<1> QED
  BY <1>1, <1>2

\* ... and one of rungekutta3.
LEMMA RK3Weights ==
  /\ Coefficients(Weights("rungekutta3", 0), 24, 0, 0, 0, 24)
  /\ Coefficients(Weights("rungekutta3", 1), 18, 6, 0, 0, 6)
  /\ Coefficients(Weights("rungekutta3", 2), 8, 0, 16, 0, 16)
<1>1. Coefficients(Weights("rungekutta3", 0), 24, 0, 0, 0, 24)
  <2>1. Weights("rungekutta3", 0) = Plus(Symbol(4), Symbol(0))
    BY SMT DEF Weights, performSubstep, RungeKutta3
  <2>2. Coefficients(Plus(Symbol(4), Symbol(0)), 24, 0, 0, 0, 24)
    BY SymbolCoefficients, PlusCoefficients
  <2> QED
    BY <2>1, <2>2
<1>2. Coefficients(Weights("rungekutta3", 1), 18, 6, 0, 0, 6)
  <2>1. Weights("rungekutta3", 1) = Times(Plus(Times(Plus(Symbol(4), Symbol(1)), 1, 3), Symbol(0)), 3, 4)
    BY SMT DEF Weights, performSubstep, RungeKutta3
  <2>2. Coefficients(Plus(Symbol(4), Symbol(1)), 0, 24, 0, 0, 24)
    BY SymbolCoefficients, PlusCoefficients
  <2>3. Coefficients(Times(Plus(Symbol(4), Symbol(1)), 1, 3), 0, 8, 0, 0, 8)
    <3>1. Coefficients(Times(Plus(Symbol(4), Symbol(1)), 1, 3),
                       (0 * 1) \div 3, (24 * 1) \div 3, (0 * 1) \div 3, (0 * 1) \div 3, (24 * 1) \div 3)
      BY <2>2, TimesCoefficients, Zenon
    <3>2. (0 * 1) \div 3 = 0 /\ (24 * 1) \div 3 = 8
      OBVIOUS
    <3> QED
      BY <3>1, <3>2, Zenon
  <2>4. Coefficients(Plus(Times(Plus(Symbol(4), Symbol(1)), 1, 3), Symbol(0)), 24, 8, 0, 0, 8)
    BY <2>3, SymbolCoefficients, PlusCoefficients
  <2>5. Coefficients(Times(Plus(Times(Plus(Symbol(4), Symbol(1)), 1, 3), Symbol(0)), 3, 4), 18, 6, 0, 0, 6)
    <3>1. Coefficients(Times(Plus(Times(Plus(Symbol(4), Symbol(1)), 1, 3), Symbol(0)), 3, 4),
                       (24 * 3) \div 4, (8 * 3) \div 4, (0 * 3) \div 4, (0 * 3) \div 4, (8 * 3) \div 4)
      BY <2>4, TimesCoefficients, Zenon
    <3>2. (24 * 3) \div 4 = 18 /\ (8 * 3) \div 4 = 6 /\ (0 * 3) \div 4 = 0
      OBVIOUS
    <3> QED
      BY <3>1, <3>2, Zenon
  <2> QED
    BY <2>1, <2>5
<1>3. Coefficients(Weights("rungekutta3", 2), 8, 0, 16, 0, 16)
  <2>1. Weights("rungekutta3", 2) = Times(Plus(Times(Plus(Symbol(4), Symbol(2)), 2, 1), Symbol(0)), 1, 3)
    BY SMT DEF Weights, performSubstep, RungeKutta3
  <2>2. Coefficients(Plus(Symbol(4), Symbol(2)), 0, 0, 24, 0, 24)
    BY SymbolCoefficients, PlusCoefficients
  <2>3. Coefficients(Times(Plus(Symbol(4), Symbol(2)), 2, 1), 0, 0, 48, 0, 48)
    <3>1. Coefficients(Times(Plus(Symbol(4), Symbol(2)), 2, 1),
                       (0 * 2) \div 1, (0 * 2) \div 1, (24 * 2) \div 1, (0 * 2) \div 1, (24 * 2) \div 1)
      BY <2>2, TimesCoefficients, Zenon
    <3>2. (0 * 2) \div 1 = 0 /\ (24 * 2) \div 1 = 48
      OBVIOUS
    <3> QED
      BY <3>1, <3>2, Zenon
  <2>4. Coefficients(Plus(Times(Plus(Symbol(4), Symbol(2)), 2, 1), Symbol(0)), 24, 0, 48, 0, 48)
    BY <2>3, SymbolCoefficients, PlusCoefficients
  <2>5. Coefficients(Times(Plus(Times(Plus(Symbol(4), Symbol(2)), 2, 1), Symbol(0)), 1, 3), 8, 0, 16, 0, 16)
    <3>1. Coefficients(Times(Plus(Times(Plus(Symbol(4), Symbol(2)), 2, 1), Symbol(0)), 1, 3),
                       (24 * 1) \div 3, (0 * 1) \div 3, (48 * 1) \div 3, (0 * 1) \div 3, (48 * 1) \div 3)
      BY <2>4, TimesCoefficients, Zenon
    <3>2. (24 * 1) \div 3 = 8 /\ (0 * 1) \div 3 = 0 /\ (48 * 1) \div 3 = 16
      OBVIOUS
    <3> QED
      BY <3>1, <3>2, Zenon
  <2> QED
    BY <2>1, <2>5
<1> QED
  BY <1>1, <1>2, <1>3

(* A substep of the first three integrators leaves a cell between the bounds *)
(* that all volumes of the step keep, if a step of forward Euler from the    *)
(* substep's own volume does: dt is the one that the first substep found     *)
(* stable, and they use forward Euler with that dt and averages only.        *)
(* (The fourth subtracts a third of u[0] at its end: it promises no such     *)
(* thing.)                                                                   *)
THEOREM KeepsBounds ==
  ASSUME NEW i \in Integrators \ {"rungekutta4"},
         NEW k \in 0 .. getNumberOfSubsteps(i) - 1,
         NEW u \in [0 .. 3 -> Int], NEW f \in Int, NEW lo \in Int, NEW hi \in Int,
         \A j \in 0 .. k : lo <= u[j] /\ u[j] <= hi,
         lo <= u[k] + f, u[k] + f <= hi
  PROVE  /\ Unit * lo <= Result(Weights(i, k), f, u)
         /\ Result(Weights(i, k), f, u) <= Unit * hi
<1>1. CASE i = "forwardeuler"
  <2>1. k = 0
    BY <1>1, SMT DEF getNumberOfSubsteps
  <2>2. Result(Weights(i, k), f, u) = 24 * f + 24 * u[0]
    BY <1>1, <2>1, EulerWeights DEF Coefficients, Result
  <2> QED
    BY <2>1, <2>2 DEF Unit
<1>2. CASE i = "rungekutta2"
  <2>1. k = 0 \/ k = 1
    BY <1>2, SMT DEF getNumberOfSubsteps
  <2>2. CASE k = 0
    <3>1. Result(Weights(i, k), f, u) = 24 * f + 24 * u[0]
      BY <1>2, <2>2, RK2Weights DEF Coefficients, Result
    <3> QED
      BY <2>2, <3>1 DEF Unit
  <2>3. CASE k = 1
    <3>1. Result(Weights(i, k), f, u) = 12 * f + 12 * u[0] + 12 * u[1]
      BY <1>2, <2>3, RK2Weights DEF Coefficients, Result
    <3> QED
      BY <2>3, <3>1 DEF Unit
  <2> QED
    BY <2>1, <2>2, <2>3
<1>3. CASE i = "rungekutta3"
  <2>1. k = 0 \/ k = 1 \/ k = 2
    BY <1>3, SMT DEF getNumberOfSubsteps
  <2>2. CASE k = 0
    <3>1. Result(Weights(i, k), f, u) = 24 * f + 24 * u[0]
      BY <1>3, <2>2, RK3Weights DEF Coefficients, Result
    <3> QED
      BY <2>2, <3>1 DEF Unit
  <2>3. CASE k = 1
    <3>1. Result(Weights(i, k), f, u) = 6 * f + 18 * u[0] + 6 * u[1]
      BY <1>3, <2>3, RK3Weights DEF Coefficients, Result
    <3> QED
      BY <2>3, <3>1 DEF Unit
  <2>4. CASE k = 2
    <3>1. Result(Weights(i, k), f, u) = 16 * f + 8 * u[0] + 16 * u[2]
      BY <1>3, <2>4, RK3Weights DEF Coefficients, Result
    <3> QED
      BY <2>4, <3>1 DEF Unit
  <2> QED
    BY <2>1, <2>2, <2>3, <2>4
<1> QED
  BY <1>1, <1>2, <1>3 DEF Integrators

-----------------------------------------------------------------------------
(* Reconstructions.                                                         *)

\* The averages over the cells [i, i + 1] of p0 + p1 x + ... + p4 x^4, with the
\* factor 60.
Average(i, p0, p1, p2, p3, p4) ==
  LET next == i + 1
  IN  60 * p0 + 30 * p1 * (2 * i + 1) + 20 * p2 * (3 * i * i + 3 * i + 1)
        + 15 * p3 * (next * next * next * next - i * i * i * i)
        + 12 * p4 * (next * next * next * next * next - i * i * i * i * i)

AveragesOf(v, p0, p1, p2, p3, p4) ==
  \A i \in -4 .. 4 : v[i] = Average(i, p0, p1, p2, p3, p4)

DegreeBelow(k, p1, p2, p3, p4) ==
  /\ k < 2 => p1 = 0
  /\ k < 3 => p2 = 0
  /\ k < 4 => p3 = 0
  /\ k < 5 => p4 = 0

\* The averages by their numbers.
LEMMA AverageValues ==
  ASSUME NEW v, NEW p0 \in Int, NEW p1 \in Int, NEW p2 \in Int, NEW p3 \in Int, NEW p4 \in Int,
         AveragesOf(v, p0, p1, p2, p3, p4)
  PROVE  /\ v[-3] = 60 * p0 - 150 * p1 + 380 * p2 - 975 * p3 + 2532 * p4
         /\ v[-2] = 60 * p0 - 90 * p1 + 140 * p2 - 225 * p3 + 372 * p4
         /\ v[-1] = 60 * p0 - 30 * p1 + 20 * p2 - 15 * p3 + 12 * p4
         /\ v[0] = 60 * p0 + 30 * p1 + 20 * p2 + 15 * p3 + 12 * p4
         /\ v[1] = 60 * p0 + 90 * p1 + 140 * p2 + 225 * p3 + 372 * p4
         /\ v[2] = 60 * p0 + 150 * p1 + 380 * p2 + 975 * p3 + 2532 * p4
         /\ v[3] = 60 * p0 + 210 * p1 + 740 * p2 + 2625 * p3 + 9372 * p4
BY SMT DEF AveragesOf, Average

\* The faces of each order and shift by the coefficients of their stencil.
LEMMA FacesOfENO2 ==
  ASSUME NEW v
  PROVE  /\ LeftFace(2, 0, v) = 18 * v[0] + (-6) * v[1] + 0 + 0
         /\ LeftFace(2, 1, v) = 6 * v[-1] + 6 * v[0] + 0 + 0
         /\ RightFace(2, 0, v) = 6 * v[0] + 6 * v[1] + 0 + 0
         /\ RightFace(2, 1, v) = (-6) * v[-1] + 18 * v[0] + 0 + 0
BY SMT DEF LeftFace, RightFace, Summed, ENOCoefficients

\* The same for order three ...
LEMMA FacesOfENO3 ==
  ASSUME NEW v
  PROVE  /\ LeftFace(3, 0, v) = 22 * v[0] + (-14) * v[1] + 4 * v[2] + 0
         /\ LeftFace(3, 1, v) = 4 * v[-1] + 10 * v[0] + (-2) * v[1] + 0
         /\ LeftFace(3, 2, v) = (-2) * v[-2] + 10 * v[-1] + 4 * v[0] + 0
         /\ RightFace(3, 0, v) = 4 * v[0] + 10 * v[1] + (-2) * v[2] + 0
         /\ RightFace(3, 1, v) = (-2) * v[-1] + 10 * v[0] + 4 * v[1] + 0
         /\ RightFace(3, 2, v) = 4 * v[-2] + (-14) * v[-1] + 22 * v[0] + 0
BY SMT DEF LeftFace, RightFace, Summed, ENOCoefficients

\* ... and four.
LEMMA FacesOfENO4 ==
  ASSUME NEW v
  PROVE  /\ LeftFace(4, 0, v) = 25 * v[0] + (-23) * v[1] + 13 * v[2] + (-3) * v[3]
         /\ LeftFace(4, 1, v) = 3 * v[-1] + 13 * v[0] + (-5) * v[1] + 1 * v[2]
         /\ LeftFace(4, 2, v) = (-1) * v[-2] + 7 * v[-1] + 7 * v[0] + (-1) * v[1]
         /\ LeftFace(4, 3, v) = 1 * v[-3] + (-5) * v[-2] + 13 * v[-1] + 3 * v[0]
         /\ RightFace(4, 0, v) = 3 * v[0] + 13 * v[1] + (-5) * v[2] + 1 * v[3]
         /\ RightFace(4, 1, v) = (-1) * v[-1] + 7 * v[0] + 7 * v[1] + (-1) * v[2]
         /\ RightFace(4, 2, v) = 1 * v[-2] + (-5) * v[-1] + 13 * v[0] + 3 * v[1]
         /\ RightFace(4, 3, v) = (-3) * v[-3] + 13 * v[-2] + (-23) * v[-1] + 25 * v[0]
BY SMT DEF LeftFace, RightFace, Summed, ENOCoefficients

\* Every stencil of ENOCoeffiecients<k>, whichever shift ENO takes, gives the
\* values of a polynomial of degree below k at both faces of the cell from its
\* averages over cells.
THEOREM ENOExact ==
  ASSUME NEW k \in 2 .. 4, NEW shift \in 0 .. k - 1, NEW v,
         NEW p0 \in Int, NEW p1 \in Int, NEW p2 \in Int, NEW p3 \in Int,
         AveragesOf(v, p0, p1, p2, p3, 0), DegreeBelow(k, p1, p2, p3, 0)
  PROVE  /\ LeftFace(k, shift, v) = 720 * p0
         /\ RightFace(k, shift, v) = 720 * (p0 + p1 + p2 + p3)
<1>1. CASE k = 2
  BY <1>1, FacesOfENO2, AverageValues, SMT DEF DegreeBelow
<1>2. CASE k = 3
  BY <1>2, FacesOfENO3, AverageValues, SMT DEF DegreeBelow
<1>3. CASE k = 4
  <2>1. /\ v[-3] = 60 * p0 - 150 * p1 + 380 * p2 - 975 * p3
        /\ v[-2] = 60 * p0 - 90 * p1 + 140 * p2 - 225 * p3
        /\ v[-1] = 60 * p0 - 30 * p1 + 20 * p2 - 15 * p3
        /\ v[0] = 60 * p0 + 30 * p1 + 20 * p2 + 15 * p3
        /\ v[1] = 60 * p0 + 90 * p1 + 140 * p2 + 225 * p3
        /\ v[2] = 60 * p0 + 150 * p1 + 380 * p2 + 975 * p3
        /\ v[3] = 60 * p0 + 210 * p1 + 740 * p2 + 2625 * p3
    BY AverageValues, SMT
  <2>2. CASE shift \in 0 .. 1
    BY <1>3, <2>1, <2>2, FacesOfENO4, SMT
  <2>3. CASE shift \in 2 .. 3
    BY <1>3, <2>1, <2>3, FacesOfENO4, SMT
  <2> QED
    BY <1>3, <2>2, <2>3, SMT
<1>4. k = 2 \/ k = 3 \/ k = 4
  BY SMT
<1> QED
  BY <1>1, <1>2, <1>3, <1>4

-----------------------------------------------------------------------------
(* WENO.                                                                    *)

\* The coefficients of two stencils, each multiplied by its weight, ...
LEMMA AlphasOfWENO2 ==
  ASSUME NEW w
  PROVE  /\ AlphaLeft(2, 0, w) = 1 * w[0] /\ AlphaLeft(2, 1, w) = 2 * w[1]
         /\ AlphaLeft(2, 2, w) = 0
         /\ AlphaRight(2, 0, w) = 2 * w[0] /\ AlphaRight(2, 1, w) = 1 * w[1]
         /\ AlphaRight(2, 2, w) = 0
BY SMT DEF AlphaLeft, AlphaRight, WENOCoefficients

\* ... and of three.
LEMMA AlphasOfWENO3 ==
  ASSUME NEW w
  PROVE  /\ AlphaLeft(3, 0, w) = 1 * w[0] /\ AlphaLeft(3, 1, w) = 6 * w[1]
         /\ AlphaLeft(3, 2, w) = 3 * w[2]
         /\ AlphaRight(3, 0, w) = 3 * w[0] /\ AlphaRight(3, 1, w) = 6 * w[1]
         /\ AlphaRight(3, 2, w) = 1 * w[2]
BY SMT DEF AlphaLeft, AlphaRight, WENOCoefficients

\* Both faces from two stencils ...
LEMMA FacesOfWENO2 ==
  ASSUME NEW w \in [0 .. 2 -> Int], NEW v \in [Int -> Int]
  PROVE  /\ WENOLeft(2, w, v) = w[0] * LeftFace(2, 0, v) + (2 * w[1]) * LeftFace(2, 1, v)
         /\ WENORight(2, w, v) = (2 * w[0]) * RightFace(2, 0, v) + w[1] * RightFace(2, 1, v)
<1>1. w[0] \in Int /\ w[1] \in Int
  BY SMT
<1>2. /\ LeftFace(2, 0, v) \in Int /\ LeftFace(2, 1, v) \in Int
      /\ RightFace(2, 0, v) \in Int /\ RightFace(2, 1, v) \in Int
  BY FacesOfENO2, SMT
<1>3. /\ WENOLeft(2, w, v)
           = AlphaLeft(2, 0, w) * LeftFace(2, 0, v) + AlphaLeft(2, 1, w) * LeftFace(2, 1, v) + 0
      /\ WENORight(2, w, v)
           = AlphaRight(2, 0, w) * RightFace(2, 0, v) + AlphaRight(2, 1, w) * RightFace(2, 1, v) + 0
  BY SMT DEF WENOLeft, WENORight
<1> QED
  BY <1>1, <1>2, <1>3, AlphasOfWENO2, SMT

\* ... and from three.
LEMMA FacesOfWENO3 ==
  ASSUME NEW w \in [0 .. 2 -> Int], NEW v \in [Int -> Int]
  PROVE  /\ WENOLeft(3, w, v) = w[0] * LeftFace(3, 0, v) + (6 * w[1]) * LeftFace(3, 1, v)
                                  + (3 * w[2]) * LeftFace(3, 2, v)
         /\ WENORight(3, w, v) = (3 * w[0]) * RightFace(3, 0, v) + (6 * w[1]) * RightFace(3, 1, v)
                                   + w[2] * RightFace(3, 2, v)
<1>1. w[0] \in Int /\ w[1] \in Int /\ w[2] \in Int
  BY SMT
<1>2. /\ WENOLeft(3, w, v)
           = AlphaLeft(3, 0, w) * LeftFace(3, 0, v) + AlphaLeft(3, 1, w) * LeftFace(3, 1, v)
               + AlphaLeft(3, 2, w) * LeftFace(3, 2, v)
      /\ WENORight(3, w, v)
           = AlphaRight(3, 0, w) * RightFace(3, 0, v) + AlphaRight(3, 1, w) * RightFace(3, 1, v)
               + AlphaRight(3, 2, w) * RightFace(3, 2, v)
  BY SMT DEF WENOLeft, WENORight
<1> QED
  BY <1>1, <1>2, AlphasOfWENO3, SMT

\* A factor that three terms have in common.
LEMMA SameValues ==
  \A a, b, c, x \in Int : a * x + b * x + c * x = (a + b + c) * x
BY SMT

\* The sums of the weights.
LEMMA AlphaSums ==
  ASSUME NEW w \in [0 .. 2 -> Int]
  PROVE  /\ AlphaLeftSum(2, w) = w[0] + 2 * w[1]
         /\ AlphaRightSum(2, w) = 2 * w[0] + w[1]
         /\ AlphaLeftSum(3, w) = w[0] + 6 * w[1] + 3 * w[2]
         /\ AlphaRightSum(3, w) = 3 * w[0] + 6 * w[1] + w[2]
<1>1. w[0] \in Int /\ w[1] \in Int /\ w[2] \in Int
  BY SMT
<1> QED
  BY <1>1, AlphasOfWENO2, AlphasOfWENO3, SMT DEF AlphaLeftSum, AlphaRightSum

\* Whatever weights the smoothness of the stencils gives, WENOCPU<k> is exact
\* for polynomials of degree below k: the weights of a face add up to one.
THEOREM WENOExact ==
  ASSUME NEW k \in 2 .. 3, NEW w \in [0 .. 2 -> Int], NEW v \in [Int -> Int],
         NEW p0 \in Int, NEW p1 \in Int, NEW p2 \in Int,
         AveragesOf(v, p0, p1, p2, 0, 0), DegreeBelow(k, p1, p2, 0, 0)
  PROVE  /\ WENOLeft(k, w, v) = AlphaLeftSum(k, w) * (720 * p0)
         /\ WENORight(k, w, v) = AlphaRightSum(k, w) * (720 * (p0 + p1 + p2))
<1>1. w[0] \in Int /\ w[1] \in Int /\ w[2] \in Int
  BY SMT
<1>2. CASE k = 2
  <2>1. /\ LeftFace(2, 0, v) = 720 * p0 /\ LeftFace(2, 1, v) = 720 * p0
        /\ RightFace(2, 0, v) = 720 * (p0 + p1 + p2)
        /\ RightFace(2, 1, v) = 720 * (p0 + p1 + p2)
    BY <1>2, FacesOfENO2, AverageValues, SMT DEF DegreeBelow
  <2> QED
    BY <1>1, <1>2, <2>1, FacesOfWENO2, AlphaSums, SMT
<1>3. CASE k = 3
  <2>1. /\ LeftFace(3, 0, v) = 720 * p0 /\ LeftFace(3, 1, v) = 720 * p0
        /\ LeftFace(3, 2, v) = 720 * p0
        /\ RightFace(3, 0, v) = 720 * (p0 + p1 + p2)
        /\ RightFace(3, 1, v) = 720 * (p0 + p1 + p2)
        /\ RightFace(3, 2, v) = 720 * (p0 + p1 + p2)
    BY <1>3, FacesOfENO3, AverageValues, SMT DEF DegreeBelow
  <2> QED
    <3>1. /\ AlphaLeft(3, 0, w) \in Int /\ AlphaLeft(3, 1, w) \in Int
          /\ AlphaLeft(3, 2, w) \in Int
          /\ AlphaRight(3, 0, w) \in Int /\ AlphaRight(3, 1, w) \in Int
          /\ AlphaRight(3, 2, w) \in Int
      BY <1>1, AlphasOfWENO3, SMT
    <3>2. 720 * p0 \in Int /\ 720 * (p0 + p1 + p2) \in Int
      BY SMT
    <3>3. WENOLeft(3, w, v) = AlphaLeftSum(3, w) * (720 * p0)
      BY <2>1, <3>1, <3>2, SameValues, SMT DEF WENOLeft, AlphaLeftSum
    <3>4. WENORight(3, w, v) = AlphaRightSum(3, w) * (720 * (p0 + p1 + p2))
      BY <2>1, <3>1, <3>2, SameValues, SMT DEF WENORight, AlphaRightSum
    <3> QED
      BY <1>3, <3>3, <3>4, Zenon
<1>4. k = 2 \/ k = 3
  BY SMT
<1> QED
  BY <1>2, <1>3, <1>4

\* Where the stencils are equally smooth, WENOCPU<3> is exact for polynomials of
\* degree below 5, and WENOCPU<2> below 3: this is what the coefficients of
\* WENOCoefficients are chosen for.
THEOREM WENOHighOrder ==
  ASSUME NEW k \in 2 .. 3, NEW w \in [0 .. 2 -> Int], w[0] = w[1], w[1] = w[2],
         NEW v \in [Int -> Int],
         NEW p0 \in Int, NEW p1 \in Int, NEW p2 \in Int, NEW p3 \in Int, NEW p4 \in Int,
         AveragesOf(v, p0, p1, p2, p3, p4), DegreeBelow(2 * k - 1, p1, p2, p3, p4)
  PROVE  /\ WENOLeft(k, w, v) = AlphaLeftSum(k, w) * (720 * p0)
         /\ WENORight(k, w, v) = AlphaRightSum(k, w) * (720 * (p0 + p1 + p2 + p3 + p4))
<1>1. w[0] \in Int
  BY SMT
<1>2. CASE k = 2
  <2>1. p3 = 0 /\ p4 = 0
    BY <1>2, SMT DEF DegreeBelow
  <2>2. /\ LeftFace(2, 0, v) + 2 * LeftFace(2, 1, v) = 3 * (720 * p0)
        /\ 2 * RightFace(2, 0, v) + RightFace(2, 1, v) = 3 * (720 * (p0 + p1 + p2))
    <3>1. AveragesOf(v, p0, p1, p2, 0, 0)
      BY <2>1, Zenon
    <3>2. /\ v[-1] = 60 * p0 - 30 * p1 + 20 * p2
          /\ v[0] = 60 * p0 + 30 * p1 + 20 * p2
          /\ v[1] = 60 * p0 + 90 * p1 + 140 * p2
      BY <3>1, AverageValues, SMT
    <3> QED
      BY <3>2, FacesOfENO2, SMT
  <2>3. /\ LeftFace(2, 0, v) \in Int /\ LeftFace(2, 1, v) \in Int
        /\ RightFace(2, 0, v) \in Int /\ RightFace(2, 1, v) \in Int
    BY FacesOfENO2, SMT
  <2>4. /\ WENOLeft(2, w, v) = w[0] * (LeftFace(2, 0, v) + 2 * LeftFace(2, 1, v))
        /\ WENORight(2, w, v) = w[0] * (2 * RightFace(2, 0, v) + RightFace(2, 1, v))
    BY <1>1, <2>3, FacesOfWENO2, SMT
  <2>5. AlphaLeftSum(2, w) = w[0] * 3 /\ AlphaRightSum(2, w) = w[0] * 3
    BY <1>1, AlphaSums, SMT
  <2> QED
    BY <1>1, <1>2, <2>1, <2>2, <2>4, <2>5, SMT
<1>3. CASE k = 3
  <2>1. /\ LeftFace(3, 0, v) + 6 * LeftFace(3, 1, v) + 3 * LeftFace(3, 2, v)
             = 10 * (720 * p0)
        /\ 3 * RightFace(3, 0, v) + 6 * RightFace(3, 1, v) + RightFace(3, 2, v)
             = 10 * (720 * (p0 + p1 + p2 + p3 + p4))
    BY FacesOfENO3, AverageValues, SMT
  <2>2. /\ LeftFace(3, 0, v) \in Int /\ LeftFace(3, 1, v) \in Int /\ LeftFace(3, 2, v) \in Int
        /\ RightFace(3, 0, v) \in Int /\ RightFace(3, 1, v) \in Int
        /\ RightFace(3, 2, v) \in Int
    BY FacesOfENO3, SMT
  <2>3. /\ WENOLeft(3, w, v)
             = w[0] * (LeftFace(3, 0, v) + 6 * LeftFace(3, 1, v) + 3 * LeftFace(3, 2, v))
        /\ WENORight(3, w, v)
             = w[0] * (3 * RightFace(3, 0, v) + 6 * RightFace(3, 1, v) + RightFace(3, 2, v))
    BY <1>1, <2>2, FacesOfWENO3, SMT
  <2>4. AlphaLeftSum(3, w) = w[0] * 10 /\ AlphaRightSum(3, w) = w[0] * 10
    BY <1>1, AlphaSums, SMT
  <2> QED
    BY <1>1, <1>3, <2>1, <2>3, <2>4, SMT
<1>4. k = 2 \/ k = 3
  BY SMT
<1> QED
  BY <1>2, <1>3, <1>4

\* weno2 (WENO2.hpp) and weno2 of WENOCPU (wenof2 in the configuration) are two
\* programs of the same scheme: for the same weights they give the same faces.
THEOREM WENO2IsWENO ==
  ASSUME NEW w \in [0 .. 2 -> Int], NEW v \in [Int -> Int]
  PROVE  /\ WENOLeft(2, w, v) = 6 * WENO2Left(w, v)
         /\ WENORight(2, w, v) = 6 * WENO2Right(w, v)
<1>1. /\ w[0] \in Int /\ w[1] \in Int
      /\ v[-1] \in Int /\ v[0] \in Int /\ v[1] \in Int
  BY SMT
<1> QED
  BY <1>1, FacesOfWENO2, FacesOfENO2, SMT DEF WENO2Left, WENO2Right

-----------------------------------------------------------------------------
(* The limiters.                                                            *)

Between(x, a, b) == (a <= x /\ x <= b) \/ (b <= x /\ x <= a)

\* Minmod lies between zero and its arguments of one sign, or is zero.
LEMMA MinmodOf ==
  ASSUME NEW a \in Int, NEW b \in Int
  PROVE  \/ /\ a >= 0 /\ b >= 0
            /\ minmod(a, b) \in Int /\ 0 <= minmod(a, b)
            /\ minmod(a, b) <= a /\ minmod(a, b) <= b
         \/ /\ a <= 0 /\ b <= 0
            /\ minmod(a, b) \in Int /\ minmod(a, b) <= 0
            /\ a <= minmod(a, b) /\ b <= minmod(a, b)
         \/ minmod(a, b) = 0
<1>1. Sign(a) = (IF a > 0 THEN 1 ELSE IF a = 0 THEN 0 ELSE -1)
  BY DEF Sign
<1>2. Sign(b) = (IF b > 0 THEN 1 ELSE IF b = 0 THEN 0 ELSE -1)
  BY DEF Sign
<1>3. CASE a > 0 /\ b > 0
  BY <1>1, <1>2, <1>3, SMT DEF minmod, Least, Absolute
<1>4. CASE a < 0 /\ b < 0
  BY <1>1, <1>2, <1>4, SMT DEF minmod, Least, Absolute
<1>5. CASE ~(a > 0 /\ b > 0) /\ ~(a < 0 /\ b < 0)
  BY <1>1, <1>2, <1>5, SMT DEF minmod, Least, Absolute
<1> QED
  BY <1>3, <1>4, <1>5

\* The same for three arguments.
LEMMA Minmod3Of ==
  ASSUME NEW a \in Int, NEW b \in Int, NEW c \in Int
  PROVE  \/ /\ a >= 0 /\ c >= 0
            /\ minmod3(a, b, c) \in Int /\ 0 <= minmod3(a, b, c)
            /\ minmod3(a, b, c) <= a /\ minmod3(a, b, c) <= c
         \/ /\ a <= 0 /\ c <= 0
            /\ minmod3(a, b, c) \in Int /\ minmod3(a, b, c) <= 0
            /\ a <= minmod3(a, b, c) /\ c <= minmod3(a, b, c)
         \/ minmod3(a, b, c) = 0
<1>1. \A x \in Int : Sign(x) = (IF x > 0 THEN 1 ELSE IF x = 0 THEN 0 ELSE -1)
  BY DEF Sign
<1>2. CASE a > 0 /\ b > 0 /\ c > 0
  BY <1>1, <1>2, SMT DEF minmod3, Least, Absolute
<1>3. CASE a < 0 /\ b < 0 /\ c < 0
  BY <1>1, <1>3, SMT DEF minmod3, Least, Absolute
<1>4. CASE ~(a > 0 /\ b > 0 /\ c > 0) /\ ~(a < 0 /\ b < 0 /\ c < 0)
  <2>1. Sign(a) = Sign(b) /\ Sign(b) = Sign(c) => Sign(a) = 0 /\ a = 0 /\ b = 0 /\ c = 0
    BY <1>1, <1>4, SMT
  <2> QED
    BY <2>1, SMT DEF minmod3, Least, Absolute
<1> QED
  BY <1>2, <1>3, <1>4

\* The slope of MC leaves a face between the values beside it.
LEMMA LimitedMC ==
  ASSUME NEW left \in Int, NEW middle \in Int, NEW right \in Int
  PROVE  /\ Between(4 * middle - minmod3(4 * (right - middle), right - left, 4 * (middle - left)),
                    4 * left, 4 * middle)
         /\ Between(4 * middle + minmod3(4 * (right - middle), right - left, 4 * (middle - left)),
                    4 * middle, 4 * right)
<1> DEFINE slope == minmod3(4 * (right - middle), right - left, 4 * (middle - left))
<1>1. \/ /\ 4 * (right - middle) >= 0 /\ 4 * (middle - left) >= 0
         /\ slope \in Int /\ 0 <= slope
         /\ slope <= 4 * (right - middle) /\ slope <= 4 * (middle - left)
      \/ /\ 4 * (right - middle) <= 0 /\ 4 * (middle - left) <= 0
         /\ slope \in Int /\ slope <= 0
         /\ 4 * (right - middle) <= slope /\ 4 * (middle - left) <= slope
      \/ slope = 0
  <2>1. 4 * (right - middle) \in Int /\ right - left \in Int /\ 4 * (middle - left) \in Int
    BY SMT
  <2> QED
    BY <2>1, Minmod3Of, Zenon
<1> HIDE DEF slope
<1>2. slope \in Int
  BY <1>1, SMT
<1>3. \/ /\ 4 * left <= 4 * middle - slope /\ 4 * middle - slope <= 4 * middle
         /\ 4 * middle <= 4 * middle + slope /\ 4 * middle + slope <= 4 * right
      \/ /\ 4 * middle <= 4 * middle - slope /\ 4 * middle - slope <= 4 * left
         /\ 4 * right <= 4 * middle + slope /\ 4 * middle + slope <= 4 * middle
      \/ slope = 0
  BY <1>1, <1>2, SMT
<1>4. CASE slope = 0
  <2>1. /\ Between(4 * middle - 0, 4 * left, 4 * middle)
        /\ Between(4 * middle + 0, 4 * middle, 4 * right)
    BY SMT DEF Between
  <2> QED
    BY <1>4, <2>1, Zenon DEF slope
<1> QED
  BY <1>3, <1>4, Zenon DEF Between, slope

\* So does the slope of minmod.
LEMMA LimitedMM ==
  ASSUME NEW left \in Int, NEW middle \in Int, NEW right \in Int
  PROVE  /\ Between(4 * middle - minmod(2 * (right - middle), 2 * (middle - left)),
                    4 * left, 4 * middle)
         /\ Between(4 * middle + minmod(2 * (right - middle), 2 * (middle - left)),
                    4 * middle, 4 * right)
<1> DEFINE slope == minmod(2 * (right - middle), 2 * (middle - left))
<1>1. \/ /\ 2 * (right - middle) >= 0 /\ 2 * (middle - left) >= 0
         /\ slope \in Int /\ 0 <= slope
         /\ slope <= 2 * (right - middle) /\ slope <= 2 * (middle - left)
      \/ /\ 2 * (right - middle) <= 0 /\ 2 * (middle - left) <= 0
         /\ slope \in Int /\ slope <= 0
         /\ 2 * (right - middle) <= slope /\ 2 * (middle - left) <= slope
      \/ slope = 0
  <2>1. 2 * (right - middle) \in Int /\ 2 * (middle - left) \in Int
    BY SMT
  <2> QED
    BY <2>1, MinmodOf, Zenon
<1> HIDE DEF slope
<1>2. slope \in Int
  BY <1>1, SMT
<1>3. \/ /\ 4 * left <= 4 * middle - slope /\ 4 * middle - slope <= 4 * middle
         /\ 4 * middle <= 4 * middle + slope /\ 4 * middle + slope <= 4 * right
      \/ /\ 4 * middle <= 4 * middle - slope /\ 4 * middle - slope <= 4 * left
         /\ 4 * right <= 4 * middle + slope /\ 4 * middle + slope <= 4 * middle
      \/ slope = 0
  BY <1>1, <1>2, SMT
<1>4. CASE slope = 0
  <2>1. /\ Between(4 * middle - 0, 4 * left, 4 * middle)
        /\ Between(4 * middle + 0, 4 * middle, 4 * right)
    BY SMT DEF Between
  <2> QED
    BY <1>4, <2>1, Zenon DEF slope
<1> QED
  BY <1>3, <1>4, Zenon DEF Between, slope

\* Each limiter puts a cell's faces between the cell's value and that of the
\* neighbour on that side: the reconstruction makes no new extrema.
THEOREM LimitersStayBetween ==
  ASSUME NEW v \in [Int -> Int], NEW slope \in {SlopeMC(v), SlopeMM(v)}
  PROVE  /\ Between(LimitedLeft(slope, v), 4 * v[-1], 4 * v[0])
         /\ Between(LimitedRight(slope, v), 4 * v[0], 4 * v[1])
<1>1. v[-1] \in Int /\ v[0] \in Int /\ v[1] \in Int
  BY SMT
<1>2. CASE slope = SlopeMC(v)
  BY <1>1, <1>2, LimitedMC, Zenon DEF SlopeMC, LimitedLeft, LimitedRight
<1>3. CASE slope = SlopeMM(v)
  BY <1>1, <1>3, LimitedMM, Zenon DEF SlopeMM, LimitedLeft, LimitedRight
<1> QED
  BY <1>2, <1>3

-----------------------------------------------------------------------------
(* ENO at a jump between the cells j and j + 1.                             *)

JumpAfter(j, a, b, v) == v = [i \in Int |-> IF i <= j THEN a ELSE b]

\* eno2 takes the stencil on the cell's own side of a jump, wherever it is: both
\* faces have the cell's value.
THEOREM SecondOrderKeepsToItsSide ==
  ASSUME NEW j \in Int, NEW a \in Int, NEW b \in Int, NEW v, JumpAfter(j, a, b, v)
  PROVE  /\ LeftFace(2, ENOShift(2, v), v) = 12 * v[0]
         /\ RightFace(2, ENOShift(2, v), v) = 12 * v[0]
<1>1. /\ v[-1] = (IF -1 <= j THEN a ELSE b) /\ v[0] = (IF 0 <= j THEN a ELSE b)
      /\ v[1] = (IF 1 <= j THEN a ELSE b)
  BY SMT DEF JumpAfter
<1>2. GoesLeft(1, v) <=> Absolute(v[0] - v[-1]) < Absolute(v[1] - v[0])
  BY SMT DEF GoesLeft, DividedDifferences, Differences
<1>3. ENOShift(2, v) = IF GoesLeft(1, v) THEN 1 ELSE 0
  BY SMT DEF ENOShift
<1> QED
  BY <1>1, <1>2, <1>3, FacesOfENO2, SMT DEF Absolute

\* eno3 compares the differences beside the cell on its second level too, not
\* those at the stencil it has moved to: in the cell before a jump it takes the
\* stencil across it, and the faces lie beyond the cell's value.  Everywhere
\* else it keeps to its side.
THEOREM ThirdOrderCrossesBeforeJump ==
  ASSUME NEW j \in Int, NEW a \in Int, NEW b \in Int, a # b,
         NEW v, JumpAfter(j, a, b, v)
  PROVE  /\ j # 0 => /\ LeftFace(3, ENOShift(3, v), v) = 12 * v[0]
                     /\ RightFace(3, ENOShift(3, v), v) = 12 * v[0]
         /\ j = 0 => /\ LeftFace(3, ENOShift(3, v), v) = 12 * v[0] - 2 * (b - a)
                     /\ RightFace(3, ENOShift(3, v), v) = 12 * v[0] + 4 * (b - a)
<1>1. /\ v[-2] = (IF -2 <= j THEN a ELSE b) /\ v[-1] = (IF -1 <= j THEN a ELSE b)
      /\ v[0] = (IF 0 <= j THEN a ELSE b) /\ v[1] = (IF 1 <= j THEN a ELSE b)
      /\ v[2] = (IF 2 <= j THEN a ELSE b)
  BY SMT DEF JumpAfter
<1>2. GoesLeft(1, v) <=> Absolute(v[0] - v[-1]) < Absolute(v[1] - v[0])
  BY SMT DEF GoesLeft, DividedDifferences, Differences
<1>3. GoesLeft(2, v) <=> Absolute((v[1] - v[0]) - (v[0] - v[-1]))
                           < Absolute((v[2] - v[1]) - (v[1] - v[0]))
  BY SMT DEF GoesLeft, DividedDifferences, Differences
<1>4. ENOShift(3, v) = (IF GoesLeft(1, v) THEN 1 ELSE 0) + (IF GoesLeft(2, v) THEN 1 ELSE 0)
  BY SMT DEF ENOShift
<1>5. CASE j >= 0
  BY <1>1, <1>2, <1>3, <1>4, <1>5, FacesOfENO3, SMT DEF Absolute
<1>6. CASE j < 0
  BY <1>1, <1>2, <1>3, <1>4, <1>6, FacesOfENO3, SMT DEF Absolute
<1> QED
  BY <1>5, <1>6, SMT

-----------------------------------------------------------------------------
(* Fluxes.                                                                  *)

\* The point fluxes as polynomials.
LEMMA PointFluxes ==
  /\ \A u : PointFlux("burgers", u) = 3 * u * u
  /\ \A u : PointFlux("cubic", u) = 2 * u * u * u
  /\ \A u : PointFlux("linear", u) = 6 * u
BY DEF PointFlux

\* Every flux of equal values is the equation's own flux, as conservation laws
\* need for a limit to be a solution; linear::Roe is the exception, below.
THEOREM FluxesConsistent ==
  ASSUME NEW u \in Int
  PROVE  /\ \A equation \in Equations :
              /\ Central(equation, u, u) = 2 * PointFlux(equation, u)
              /\ Rusanov(equation, u, u) = 2 * PointFlux(equation, u)
         /\ BurgersGodunov(u, u) = PointFlux("burgers", u)
         /\ BurgersRoe(u, u) = PointFlux("burgers", u)
         /\ CubicRoe(u, u) = PointFlux("cubic", u)
         /\ LinearUpwind(u, u) = PointFlux("linear", u)
<1>1. ASSUME NEW equation \in Equations
      PROVE  /\ PointFlux(equation, u) \in Int
             /\ WaveSpeed(equation, u) \in Int
  BY SMT DEF Equations, PointFlux, WaveSpeed, EigenValue
<1>2. ASSUME NEW f \in Int, NEW s \in Int
      PROVE  f + f = 2 * f /\ f + f - 6 * s * (u - u) = 2 * f
  <2>1. u - u = 0
    BY SMT
  <2>2. 6 * s * 0 = 0
    BY SMT
  <2> QED
    BY <2>1, <2>2, SMT
<1>3. \A s \in Int : Greater(s, s) = s
  BY SMT DEF Greater
<1>4. ASSUME NEW equation \in Equations
      PROVE  /\ Central(equation, u, u) = 2 * PointFlux(equation, u)
             /\ Rusanov(equation, u, u) = 2 * PointFlux(equation, u)
  <2>1. PointFlux(equation, u) \in Int /\ WaveSpeed(equation, u) \in Int
    BY <1>1
  <2>2. Central(equation, u, u) = PointFlux(equation, u) + PointFlux(equation, u)
    BY DEF Central
  <2>3. Greater(WaveSpeed(equation, u), WaveSpeed(equation, u)) = WaveSpeed(equation, u)
    BY <1>3, <2>1, Zenon
  <2>4. Rusanov(equation, u, u) = PointFlux(equation, u) + PointFlux(equation, u)
                                    - 6 * WaveSpeed(equation, u) * (u - u)
    BY <2>1, <2>2, <2>3, SMT DEF Rusanov
  <2> QED
    BY <1>2, <2>1, <2>2, <2>4, Zenon
<1>5. BurgersGodunov(u, u) = PointFlux("burgers", u) /\ BurgersRoe(u, u) = PointFlux("burgers", u)
  <2>1. 3 * 0 * 0 = 0 /\ 3 * u * u \in Int /\ 3 * u * u >= 0
    BY SMT
  <2> QED
    BY <2>1, PointFluxes, SMT DEF BurgersGodunov, BurgersRoe, Positive, Negative, Greater
<1>6. CubicRoe(u, u) = PointFlux("cubic", u)
  BY SMT DEF CubicRoe
<1>7. LinearUpwind(u, u) = PointFlux("linear", u)
  BY DEF LinearUpwind
<1> QED
  BY <1>4, <1>5, <1>6, <1>7

\* linear::Roe is commented as "just the upwind flux" (linear/Roe.hpp:27) but
\* takes the left value only if it is positive: of a negative state it makes no
\* flux, and it is the upwind flux exactly where the left value is not negative.
THEOREM LinearRoeOnlyForPositive ==
  ASSUME NEW left \in Int, NEW right \in Int
  PROVE  LinearRoe(left, right) = LinearUpwind(left, right) <=> left >= 0
BY SMT DEF LinearRoe, LinearUpwind, PointFlux, Positive

\* A square grows above zero ...
LEMMA SquareGrows ==
  \A a, b \in Int : 0 <= a /\ a <= b => 0 <= 3 * a * a /\ 3 * a * a <= 3 * b * b
<1> SUFFICES ASSUME NEW a \in Int, NEW b \in Int, 0 <= a, a <= b
             PROVE  0 <= 3 * a * a /\ 3 * a * a <= 3 * b * b
  OBVIOUS
<1>1. 0 <= a * a /\ a * a <= a * b /\ a * b <= b * b
  BY SMT
<1> QED
  BY <1>1, SMT

\* ... and shrinks below.
LEMMA SquareShrinks ==
  \A a, b \in Int : a <= b /\ b <= 0 => 0 <= 3 * b * b /\ 3 * b * b <= 3 * a * a
<1> SUFFICES ASSUME NEW a \in Int, NEW b \in Int, a <= b, b <= 0
             PROVE  0 <= 3 * b * b /\ 3 * b * b <= 3 * a * a
  OBVIOUS
<1>1. 0 <= -b /\ -b <= -a /\ -a \in Int /\ -b \in Int
  BY SMT
<1>2. 0 <= 3 * (-b) * (-b) /\ 3 * (-b) * (-b) <= 3 * (-a) * (-a)
  BY <1>1, SquareGrows, Zenon
<1>3. 3 * (-b) * (-b) = 3 * b * b /\ 3 * (-a) * (-a) = 3 * a * a
  BY SMT
<1> QED
  BY <1>2, <1>3, SMT

\* The formula of burgers::Godunov is Godunov's flux: the least flux between the
\* values if they increase, the greatest if they decrease.
THEOREM GodunovIsExact ==
  ASSUME NEW left \in Int, NEW right \in Int
  PROVE  /\ left <= right =>
              /\ \A u \in left .. right : BurgersGodunov(left, right) <= PointFlux("burgers", u)
              /\ \E u \in left .. right : BurgersGodunov(left, right) = PointFlux("burgers", u)
         /\ right <= left =>
              /\ \A u \in right .. left : PointFlux("burgers", u) <= BurgersGodunov(left, right)
              /\ \E u \in right .. left : BurgersGodunov(left, right) = PointFlux("burgers", u)
<1>1. \A u \in Int : PointFlux("burgers", u) \in Int /\ 0 <= PointFlux("burgers", u)
  BY PointFluxes, SMT
<1>2. \A a, b \in Int : 0 <= a /\ a <= b => PointFlux("burgers", a) <= PointFlux("burgers", b)
  BY PointFluxes, SquareGrows, SMT
<1>3. \A a, b \in Int : a <= b /\ b <= 0 => PointFlux("burgers", b) <= PointFlux("burgers", a)
  BY PointFluxes, SquareShrinks, SMT
<1>4. PointFlux("burgers", 0) = 0
  BY PointFluxes, SMT
<1>5. CASE left >= 0 /\ right >= 0
  <2>1. BurgersGodunov(left, right) = PointFlux("burgers", left)
    BY <1>1, <1>4, <1>5, SMT DEF BurgersGodunov, Greater, Positive, Negative
  <2> QED
    BY <1>1, <1>2, <1>5, <2>1, SMT
<1>6. CASE left <= 0 /\ right <= 0
  <2>1. BurgersGodunov(left, right) = PointFlux("burgers", right)
    BY <1>1, <1>4, <1>6, SMT DEF BurgersGodunov, Greater, Positive, Negative
  <2> QED
    BY <1>1, <1>3, <1>6, <2>1, SMT
<1>7. CASE left < 0 /\ right > 0
  <2>1. BurgersGodunov(left, right) = PointFlux("burgers", 0)
    BY <1>1, <1>4, <1>7, SMT DEF BurgersGodunov, Greater, Positive, Negative
  <2> QED
    BY <1>1, <1>4, <1>7, <2>1, SMT
<1>8. CASE left > 0 /\ right < 0
  <2>1. BurgersGodunov(left, right) = Greater(PointFlux("burgers", left), PointFlux("burgers", right))
    BY <1>8, SMT DEF BurgersGodunov, Positive, Negative
  <2>2. \A u \in right .. left : PointFlux("burgers", u) <= PointFlux("burgers", left)
                                 \/ PointFlux("burgers", u) <= PointFlux("burgers", right)
    BY <1>2, <1>3, <1>8, SMT
  <2> QED
    BY <1>1, <1>8, <2>1, <2>2, SMT DEF Greater
<1> QED
  BY <1>5, <1>6, <1>7, <1>8, SMT

\* burgers::Roe, which chooses by the sign of the shock's speed, is the same
\* flux as burgers::Godunov.
THEOREM RoeIsGodunov ==
  ASSUME NEW left \in Int, NEW right \in Int
  PROVE  BurgersRoe(left, right) = BurgersGodunov(left, right)
<1> DEFINE a == Positive(left)
           b == -Negative(right)
<1>1. a \in Int /\ b \in Int /\ 0 <= a /\ 0 <= b
  BY SMT DEF Positive, Negative
<1>2. /\ left >= -right => b <= a \/ (a = 0 /\ b = 0)
      /\ ~(left >= -right) => a <= b
  BY SMT DEF Positive, Negative
<1>3. PointFlux("burgers", Negative(right)) = 3 * b * b
  BY PointFluxes, SMT DEF Negative
<1>4. PointFlux("burgers", Positive(left)) = 3 * a * a
  BY PointFluxes, Zenon
<1> HIDE DEF a, b
<1>5. CASE left >= -right
  <2>1. 3 * b * b <= 3 * a * a
    BY <1>1, <1>2, <1>5, SquareGrows, SMT
  <2> QED
    BY <1>1, <1>3, <1>4, <1>5, <2>1, SMT DEF BurgersRoe, BurgersGodunov, Greater
<1>6. CASE ~(left >= -right)
  <2>1. 3 * a * a <= 3 * b * b
    BY <1>1, <1>2, <1>6, SquareGrows, SMT
  <2> QED
    BY <1>1, <1>3, <1>4, <1>6, <2>1, SMT DEF BurgersRoe, BurgersGodunov, Greater
<1> QED
  BY <1>5, <1>6

\* burgers::Godunov is monotone: no less for a greater left value and no greater
\* for a greater right value, which is what keeps first order solutions in bounds.
THEOREM GodunovMonotone ==
  ASSUME NEW left \in Int, NEW right \in Int, NEW more \in Int
  PROVE  /\ left <= more => BurgersGodunov(left, right) <= BurgersGodunov(more, right)
         /\ right <= more => BurgersGodunov(left, more) <= BurgersGodunov(left, right)
<1>1. \A u \in Int : PointFlux("burgers", u) \in Int
  BY PointFluxes, SMT
<1>2. \A a, b \in Int : a <= b => PointFlux("burgers", Positive(a)) <= PointFlux("burgers", Positive(b))
  <2>1. \A a, b \in Int : a <= b => 0 <= Positive(a) /\ Positive(a) <= Positive(b)
    BY SMT DEF Positive
  <2>2. \A a \in Int : Positive(a) \in Int
    BY SMT DEF Positive
  <2> QED
    BY <2>1, <2>2, PointFluxes, SquareGrows, SMT
<1>3. \A a, b \in Int : a <= b => PointFlux("burgers", Negative(b)) <= PointFlux("burgers", Negative(a))
  <2>1. \A a, b \in Int : a <= b => Negative(b) <= 0 /\ Negative(a) <= Negative(b)
    BY SMT DEF Negative
  <2>2. \A a \in Int : Negative(a) \in Int
    BY SMT DEF Negative
  <2> QED
    BY <2>1, <2>2, PointFluxes, SquareShrinks, SMT
<1>4. \A a, b, c, d \in Int : a <= b /\ c <= d => Greater(a, c) <= Greater(b, d)
  BY SMT DEF Greater
<1>5. \A u \in Int : Positive(u) \in Int /\ Negative(u) \in Int
  BY SMT DEF Positive, Negative
<1>6. \A u \in Int : /\ PointFlux("burgers", Positive(u)) \in Int
                     /\ PointFlux("burgers", Negative(u)) \in Int
  BY <1>1, <1>5, Zenon
<1>7. \A a \in Int : a <= a
  BY SMT
<1> QED
  BY <1>2, <1>3, <1>4, <1>6, <1>7, Zenon DEF BurgersGodunov

-----------------------------------------------------------------------------
(* The combinations.                                                        *)

\* A flux f that is a polynomial of the place, and the central base flux of it
\* (with the factor 2).
ValuesOf(f, p0, p1, p2, p3, p4, p5, p6) ==
  /\ f[-3] = p0 - 3 * p1 + 9 * p2 - 27 * p3 + 81 * p4 - 243 * p5 + 729 * p6
  /\ f[-2] = p0 - 2 * p1 + 4 * p2 - 8 * p3 + 16 * p4 - 32 * p5 + 64 * p6
  /\ f[-1] = p0 - p1 + p2 - p3 + p4 - p5 + p6
  /\ f[0] = p0
  /\ f[1] = p0 + p1 + p2 + p3 + p4 + p5 + p6
  /\ f[2] = p0 + 2 * p1 + 4 * p2 + 8 * p3 + 16 * p4 + 32 * p5 + 64 * p6
  /\ f[3] = p0 + 3 * p1 + 9 * p2 + 27 * p3 + 81 * p4 + 243 * p5 + 729 * p6

CentralOf(flux, f) ==
  \A j, k \in -3 .. 3 : flux[<<j, k>>] = f[j] + f[k]

\* A combination of central fluxes, as a sum of point fluxes.
LEMMA CombinedCentral ==
  ASSUME NEW flux, NEW f \in [-3 .. 3 -> Int], CentralOf(flux, f)
  PROVE  /\ TecnoCombined4(flux, 0) = 8 * (f[0] + f[1]) - ((f[-1] + f[1]) + (f[0] + f[2]))
         /\ TecnoCombined4(flux, -1) = 8 * (f[-1] + f[0]) - ((f[-2] + f[0]) + (f[-1] + f[1]))
         /\ TecnoCombined6(flux, 0) =
              45 * (f[0] + f[1]) - 9 * ((f[-1] + f[1]) + (f[0] + f[2]))
                + ((f[-2] + f[1]) + (f[-1] + f[2]) + (f[0] + f[3]))
         /\ TecnoCombined6(flux, -1) =
              45 * (f[-1] + f[0]) - 9 * ((f[-2] + f[0]) + (f[-1] + f[1]))
                + ((f[-3] + f[0]) + (f[-2] + f[1]) + (f[-1] + f[2]))
<1>1. /\ 0 + 1 = 1 /\ 0 - 1 = -1 /\ 0 + 2 = 2 /\ 0 - 2 = -2 /\ 0 + 3 = 3
      /\ (-1) + 1 = 0 /\ (-1) - 1 = -2 /\ (-1) + 2 = 1 /\ (-1) - 2 = -3 /\ (-1) + 3 = 2
      /\ {-3, -2, -1, 0, 1, 2, 3} \subseteq -3 .. 3
  BY SMT
<1> QED
  BY <1>1, SMT DEF TecnoCombined4, TecnoCombined6, CentralOf

\* The difference of the combined fluxes at a cell's faces is the derivative of
\* the flux there: exactly, for a polynomial of degree four with tecno4 and of
\* degree six with tecno6, which is what their factors and cells are chosen for.
\* The base flux is the mean of the flux at both cells, the simplest
\* one that is symmetric; the code combines entropy conservative ones and Godunov's.
THEOREM CombinationsExact ==
  ASSUME NEW flux, NEW f \in [-3 .. 3 -> Int], CentralOf(flux, f),
         NEW p0 \in Int, NEW p1 \in Int, NEW p2 \in Int, NEW p3 \in Int, NEW p4 \in Int,
         NEW p5 \in Int, NEW p6 \in Int, ValuesOf(f, p0, p1, p2, p3, p4, p5, p6)
  PROVE  /\ p5 = 0 /\ p6 = 0 => TecnoCombined4(flux, 0) - TecnoCombined4(flux, -1) = 12 * p1
         /\ TecnoCombined6(flux, 0) - TecnoCombined6(flux, -1) = 60 * p1
BY CombinedCentral, SMT DEF ValuesOf


-----------------------------------------------------------------------------
(* Elements and threads.                                                    *)

\* The blocks suffice, and less than one of them is to spare.
LEMMA BlocksSuffice ==
  ASSUME NEW size \in Nat
  PROVE \E blocks \in Nat : /\ blocks = (size + ThreadCount - 1) \div ThreadCount
                            /\ size <= blocks * ThreadCount
                            /\ blocks * ThreadCount < size + ThreadCount
  BY Z3 DEF ThreadCount

\* A thread's number is a natural number, and no other thread has it.
LEMMA OneNumber ==
  ASSUME NEW size \in Nat, NEW t \in Threads(size), NEW u \in Threads(size)
  PROVE /\ ThreadIndex(t) \in Nat
        /\ ThreadIndex(t) = ThreadIndex(u) => t = u
  <1>1. PICK blocks \in Nat : blocks = (size + ThreadCount - 1) \div ThreadCount
    BY BlocksSuffice
  <1>2. PICK b \in 0 .. blocks - 1, k \in 0 .. ThreadCount - 1 : t = <<b, k>>
    BY <1>1 DEF Threads
  <1>3. PICK c \in 0 .. blocks - 1, l \in 0 .. ThreadCount - 1 : u = <<c, l>>
    BY <1>1 DEF Threads
  <1>4. ThreadIndex(t) = k + b * 1024 /\ ThreadIndex(u) = l + c * 1024
    BY <1>2, <1>3 DEF ThreadIndex, ThreadCount
  <1>5. k \in 0 .. 1023 /\ l \in 0 .. 1023 /\ b \in Nat /\ c \in Nat
    BY <1>2, <1>3 DEF ThreadCount
  <1>6. k + b * 1024 = l + c * 1024 => k = l /\ b = c
    BY <1>5
  <1> QED
    BY <1>2, <1>3, <1>4, <1>5, <1>6

\* Every element has a thread.
LEMMA ThreadOf ==
  ASSUME NEW size \in Nat, NEW i \in 0 .. size - 1
  PROVE \E t \in Threads(size) : ThreadIndex(t) = i
  <1>1. PICK blocks \in Nat : /\ blocks = (size + ThreadCount - 1) \div ThreadCount
                              /\ size <= blocks * ThreadCount
    BY BlocksSuffice
  <1>2. PICK b \in Nat, k \in 0 .. 1023 : i = k + b * 1024
    <2>1. i \div 1024 \in Nat /\ i % 1024 \in 0 .. 1023 /\ i = (i % 1024) + (i \div 1024) * 1024
      BY Z3
    <2> QED
      BY <2>1
  <1>3. b < blocks
    BY <1>1, <1>2 DEF ThreadCount
  <1>4. <<b, k>> \in Threads(size)
    BY <1>1, <1>2, <1>3 DEF Threads, ThreadCount
  <1>5. ThreadIndex(<<b, k>>) = i
    BY <1>2 DEF ThreadIndex, ThreadCount
  <1> QED
    BY <1>4, <1>5

(* A launch with (size + 1023) / 1024 blocks of 1024 threads that return if  *)
(* their number is not below size works on every element exactly once, like  *)
(* the loops over the host's memory: no operation of CudaMemory, and no      *)
(* function of the cell computer, leaves an element out or takes it twice.   *)
THEOREM EachElementOnce ==
  ASSUME NEW size \in Nat
  PROVE /\ {ThreadIndex(t) : t \in Working(size)} = HostElements(size)
        /\ \A t, u \in Working(size) : ThreadIndex(t) = ThreadIndex(u) => t = u
  <1>1. \A t \in Working(size) : ThreadIndex(t) \in HostElements(size)
    BY OneNumber DEF Working, HostElements
  <1>2. \A i \in HostElements(size) : \E t \in Working(size) : ThreadIndex(t) = i
    BY ThreadOf DEF Working, HostElements
  <1>3. \A t, u \in Working(size) : ThreadIndex(t) = ThreadIndex(u) => t = u
    BY OneNumber DEF Working
  <1> QED
    BY <1>1, <1>2, <1>3

-----------------------------------------------------------------------------
(* Cells and elements.                                                      *)

\* Positions and extents in single numbers.
LEMMA Parts ==
  /\ \A c \in Triples : c = <<c[1], c[2], c[3]>> /\ c[1] \in Int /\ c[2] \in Int /\ c[3] \in Int
  /\ \A n \in Extents : /\ n \in Triples
                        /\ n[1] \in Nat /\ n[2] \in Nat /\ n[3] \in Nat
                        /\ n[1] > 0 /\ n[2] > 0 /\ n[3] > 0
  /\ \A c \in Triples, start, end \in Triples :
       c \in Box(start, end) <=> /\ start[1] <= c[1] /\ c[1] < end[1]
                                 /\ start[2] <= c[2] /\ c[2] < end[2]
                                 /\ start[3] <= c[3] /\ c[3] < end[3]
  /\ \A start, end : Box(start, end) \subseteq Triples
  BY DEF Triples, Extents, Box, Axes

\* The cells of the whole volume.
LEMMA WholeVolume ==
  ASSUME NEW n \in Extents
  PROVE /\ LoopCells(n, Zero, Zero) = Box(Zero, n)
        /\ \A c \in Box(Zero, n) : /\ c = <<c[1], c[2], c[3]>>
                                   /\ c[1] \in 0 .. n[1] - 1
                                   /\ c[2] \in 0 .. n[2] - 1
                                   /\ c[3] \in 0 .. n[3] - 1
        /\ \A x \in 0 .. n[1] - 1, y \in 0 .. n[2] - 1, z \in 0 .. n[3] - 1 :
             <<x, y, z>> \in Box(Zero, n)
        /\ Size(n) \in Nat
  <1>1. n[1] \in Nat /\ n[2] \in Nat /\ n[3] \in Nat /\ n = <<n[1], n[2], n[3]>>
    BY Parts
  <1>2. Subtract(n, Zero) = n
    BY <1>1 DEF Subtract, Zero
  <1>3. Size(n) \in Nat
    BY <1>1, Parts, ProductPositive DEF Size
  <1>4. \A c \in Box(Zero, n) : /\ c = <<c[1], c[2], c[3]>>
                                /\ c[1] \in 0 .. n[1] - 1
                                /\ c[2] \in 0 .. n[2] - 1
                                /\ c[3] \in 0 .. n[3] - 1
    BY <1>1 DEF Box, Zero, Axes, Triples
  <1>5. \A x \in 0 .. n[1] - 1, y \in 0 .. n[2] - 1, z \in 0 .. n[3] - 1 :
          <<x, y, z>> \in Box(Zero, n)
    BY <1>1 DEF Box, Zero, Axes, Triples
  <1> QED
    BY <1>2, <1>3, <1>4, <1>5 DEF LoopCells

\* An element of the volume for every cell, another one for another cell.
LEMMA IndexInside ==
  ASSUME NEW n \in Extents, NEW c \in Box(Zero, n)
  PROVE /\ Index(n, c) \in 0 .. Size(n) - 1
        /\ Index(n, c) % n[1] = c[1]
        /\ (Index(n, c) \div n[1]) % n[2] = c[2]
        /\ Index(n, c) \div (n[1] * n[2]) = c[3]
  <1>1. /\ n[1] \in Nat /\ n[2] \in Nat /\ n[3] \in Nat
        /\ c[1] \in 0 .. n[1] - 1 /\ c[2] \in 0 .. n[2] - 1 /\ c[3] \in 0 .. n[3] - 1
    BY Parts, WholeVolume
  <1>2. PICK l \in Nat, m \in Nat, k \in Nat : l = n[1] /\ m = n[2] /\ k = n[3]
    BY <1>1
  <1>3. PICK x \in 0 .. l - 1, y \in 0 .. m - 1, z \in 0 .. k - 1 :
          x = c[1] /\ y = c[2] /\ z = c[3]
    BY <1>1, <1>2
  <1>4. PICK i : i = x + y * l + z * l * m
    OBVIOUS
  <1>5. /\ i \in 0 .. l * m * k - 1
        /\ i % l = x /\ (i \div l) % m = y /\ i \div (l * m) = z
    BY <1>4, Compose
  <1>6. Index(n, c) = i /\ Size(n) = l * m * k
    BY <1>2, <1>3, <1>4 DEF Index, Size
  <1> QED
    BY <1>2, <1>3, <1>5, <1>6

\* The cell that an index is taken apart into lies in the volume and has that index.
LEMMA CellOfIndex ==
  ASSUME NEW n \in Extents, NEW i \in 0 .. Size(n) - 1
  PROVE LET c == <<i % n[1], (i \div n[1]) % n[2], i \div (n[1] * n[2])>>
        IN  c \in Box(Zero, n) /\ Index(n, c) = i
  <1>1. n[1] \in Nat /\ n[2] \in Nat /\ n[3] \in Nat /\ n[1] > 0 /\ n[2] > 0 /\ n[3] > 0
    BY Parts
  <1>2. i \in Nat /\ i < n[1] * n[2] * n[3]
    BY WholeVolume DEF Size
  <1>3. /\ i % n[1] \in 0 .. n[1] - 1 /\ (i \div n[1]) % n[2] \in 0 .. n[2] - 1
        /\ i \div (n[1] * n[2]) \in 0 .. n[3] - 1
        /\ i = (i % n[1]) + ((i \div n[1]) % n[2]) * n[1] + (i \div (n[1] * n[2])) * n[1] * n[2]
    BY <1>1, <1>2, Split
  <1> QED
    BY <1>3, WholeVolume DEF Index

(* The loop of transform_volume and for_each_cell reaches every element of    *)
(* the memory once, so that what a cell computer does cell by cell on the CPU *)
(* is done for the elements that its kernels take on the GPU.                 *)
THEOREM EachCellOneElement ==
  ASSUME NEW n \in Extents
  PROVE /\ {Index(n, c) : c \in LoopCells(n, Zero, Zero)} = HostElements(Size(n))
        /\ \A c, d \in LoopCells(n, Zero, Zero) : Index(n, c) = Index(n, d) => c = d
  <1>1. \A c \in Box(Zero, n) : Index(n, c) \in HostElements(Size(n))
    BY IndexInside DEF HostElements
  <1>2. \A i \in HostElements(Size(n)) : \E c \in Box(Zero, n) : Index(n, c) = i
    BY CellOfIndex DEF HostElements
  <1>3. ASSUME NEW c \in Box(Zero, n), NEW d \in Box(Zero, n), Index(n, c) = Index(n, d)
        PROVE c = d
    <2>1. c[1] = d[1] /\ c[2] = d[2] /\ c[3] = d[3]
      BY <1>3, IndexInside
    <2> QED
      BY <2>1, WholeVolume
  <1> QED
    BY <1>1, <1>2, <1>3, WholeVolume

-----------------------------------------------------------------------------
(* Boxes of cells.                                                          *)

\* A box is the volume of its extent, moved to its start.
LEMMA MovedBox ==
  ASSUME NEW start \in Triples, NEW end \in Triples
  PROVE /\ Subtract(end, start) \in Triples
        /\ \A c \in Box(start, end) : /\ Subtract(c, start) \in Box(Zero, Subtract(end, start))
                                      /\ c = Add(Subtract(c, start), start)
        /\ \A c \in Box(Zero, Subtract(end, start)) : Add(c, start) \in Box(start, end)
        /\ \A c, d \in Triples : Add(c, start) = Add(d, start) => c = d
  <1>1. /\ start = <<start[1], start[2], start[3]>> /\ end = <<end[1], end[2], end[3]>>
        /\ start[1] \in Int /\ start[2] \in Int /\ start[3] \in Int
        /\ end[1] \in Int /\ end[2] \in Int /\ end[3] \in Int
    BY Parts
  <1>2. Subtract(end, start) \in Triples
    BY <1>1 DEF Subtract, Triples
  <1>3. ASSUME NEW c \in Box(start, end)
        PROVE /\ Subtract(c, start) \in Box(Zero, Subtract(end, start))
              /\ c = Add(Subtract(c, start), start)
    BY <1>1 DEF Subtract, Add, Box, Zero, Axes, Triples
  <1>4. ASSUME NEW c \in Box(Zero, Subtract(end, start))
        PROVE Add(c, start) \in Box(start, end)
    BY <1>1 DEF Subtract, Add, Box, Zero, Axes, Triples
  <1>5. ASSUME NEW c \in Triples, NEW d \in Triples, Add(c, start) = Add(d, start)
        PROVE c = d
    <2>1. c[1] = d[1] /\ c[2] = d[2] /\ c[3] = d[3]
      BY <1>1, <1>5, Parts DEF Add
    <2> QED
      BY <2>1, Parts
  <1> QED
    BY <1>2, <1>3, <1>4, <1>5

\* Layers of n elements, in both directions.
LEMMA LayersExact ==
  ASSUME NEW x \in Nat, NEW n \in Nat, NEW y \in Nat, NEW m \in Nat, x < n
  PROVE x + y * n < n * m <=> y < m
  <1>1. y < m => x + y * n < n * m
    BY LayersBelow
  <1>2. x + y * n < n * m => y < m
    BY LayerOf
  <1> QED
    BY <1>1, <1>2

\* The threads that are not turned away are those with an element of the box.
LEMMA RejectsSurplus ==
  ASSUME NEW m \in Extents, NEW i \in Nat
  PROVE ~Rejects(i, m) <=> i < Size(m)
  <1>1. PICK l \in Nat, k \in Nat, h \in Nat :
          l = m[1] /\ k = m[2] /\ h = m[3] /\ l > 0 /\ k > 0 /\ h > 0
    BY Parts
  <1>2. PICK lk \in Nat : lk = l * k /\ lk > 0
    BY <1>1, ProductPositive
  <1>3. i % l < l
    BY <1>1, DivMod
  <1>4. PICK q \in Nat : q = i \div l
    BY <1>1, DivMod
  <1>5. q % k < k
    BY <1>1, DivMod
  <1>6. PICK x \in Nat, z \in Nat : z = i \div lk /\ x < lk /\ i = x + z * lk
    <2>1. /\ i \div lk \in Nat /\ i % lk \in 0 .. lk - 1
          /\ i = lk * (i \div lk) + (i % lk)
      BY <1>2, DivMod
    <2>2. lk * (i \div lk) = (i \div lk) * lk
      BY <2>1, <1>2, Z3
    <2> QED
      BY <2>1, <2>2
  <1>7. i % l \in Nat /\ q % k \in Nat
    BY <1>1, <1>4, DivMod
  <1>8. ~Rejects(i, m) <=> z < h
    BY <1>1, <1>2, <1>3, <1>4, <1>5, <1>6, <1>7 DEF Rejects
  <1>9. x + z * lk < lk * h <=> z < h
    <2>1. x \in Nat /\ z \in Nat /\ lk \in Nat /\ h \in Nat /\ x < lk
      BY <1>1, <1>2, <1>6
    <2> QED
      BY <2>1, LayersExact
  <1>10. Size(m) = lk * h
    BY <1>1, <1>2 DEF Size
  <1> QED
    BY <1>6, <1>8, <1>9, <1>10

(* A kernel over a box of cells, launched with makeKernelLaunchParameters,   *)
(* works on every cell of the box and on no other one, and no two threads    *)
(* share a cell: the fluxes and reconstructions of cells are neither added   *)
(* twice nor left out, whatever start and end are.                           *)
THEOREM EachCellOneThread ==
  ASSUME NEW start \in Triples, NEW end \in Triples, Subtract(end, start) \in Extents
  PROVE /\ {CellOfThread(t, start, end) : t \in BoxThreads(start, end)} = Box(start, end)
        /\ \A t, u \in BoxThreads(start, end) :
             CellOfThread(t, start, end) = CellOfThread(u, start, end) => t = u
  <1> DEFINE m == Subtract(end, start)
  <1> DEFINE At(i) == <<i % m[1], (i \div m[1]) % m[2], i \div (m[1] * m[2])>>
  <1>1. m \in Extents /\ Size(m) \in Nat
    BY WholeVolume
  <1>2. ASSUME NEW t \in BoxThreads(start, end)
        PROVE /\ t \in Threads(Size(m))
              /\ ThreadIndex(t) \in 0 .. Size(m) - 1
              /\ CellOfThread(t, start, end) = Add(At(ThreadIndex(t)), start)
    <2>1. t \in Threads(Size(m)) /\ ~Rejects(ThreadIndex(t), m)
      BY DEF BoxThreads
    <2>2. ThreadIndex(t) \in Nat
      BY <1>1, <2>1, OneNumber
    <2> QED
      BY <1>1, <2>1, <2>2, RejectsSurplus DEF CellOfThread, getCoordinates
  <1>3. \A i \in 0 .. Size(m) - 1 : At(i) \in Box(Zero, m) /\ Index(m, At(i)) = i
    BY <1>1, CellOfIndex
  <1> HIDE DEF At, m
  <1>4. ASSUME NEW t \in BoxThreads(start, end)
        PROVE CellOfThread(t, start, end) \in Box(start, end)
    <2>1. At(ThreadIndex(t)) \in Box(Zero, m)
      BY <1>2, <1>3
    <2>2. Add(At(ThreadIndex(t)), start) \in Box(start, end)
      BY <2>1, MovedBox DEF m
    <2> QED
      BY <1>2, <2>2
  <1>5. ASSUME NEW c \in Box(start, end)
        PROVE \E t \in BoxThreads(start, end) : CellOfThread(t, start, end) = c
    <2>1. PICK d \in Box(Zero, m) : c = Add(d, start)
      BY MovedBox DEF m
    <2>2. PICK i \in 0 .. Size(m) - 1 : i = Index(m, d)
      BY <1>1, IndexInside
    <2>3. At(i) = d
      BY <1>1, <2>2, IndexInside, WholeVolume DEF At
    <2>4. PICK t \in Threads(Size(m)) : ThreadIndex(t) = i
      BY <1>1, ThreadOf
    <2>5. i \in Nat /\ i < Size(m)
      BY <1>1
    <2>6. t \in BoxThreads(start, end)
      BY <1>1, <2>4, <2>5, RejectsSurplus DEF BoxThreads, m
    <2> QED
      BY <1>2, <2>1, <2>3, <2>4, <2>6
  <1>6. ASSUME NEW t \in BoxThreads(start, end), NEW u \in BoxThreads(start, end),
               CellOfThread(t, start, end) = CellOfThread(u, start, end)
        PROVE t = u
    <2>1. At(ThreadIndex(t)) \in Triples /\ At(ThreadIndex(u)) \in Triples
      BY <1>2, <1>3, Parts
    <2>2. At(ThreadIndex(t)) = At(ThreadIndex(u))
      BY <1>2, <1>6, <2>1, MovedBox
    <2>3. ThreadIndex(t) = ThreadIndex(u)
      BY <1>2, <1>3, <2>2
    <2> QED
      BY <1>1, <1>2, <2>3, OneNumber
  <1> QED
    BY <1>4, <1>5, <1>6

(* for_each_midpoint and fill_volume give each cell that is no ghost cell a  *)
(* midpoint of its own, and copyInternalCells an element of the output: all  *)
(* midpoints of a grid that is the volume without its ghost cells are taken. *)
THEOREM EachCellOneMidpoint ==
  ASSUME NEW n \in Extents, NEW ghosts \in Triples,
         Subtract(Subtract(n, ghosts), ghosts) \in Extents
  PROVE LET grid == Subtract(Subtract(n, ghosts), ghosts)
        IN  /\ {MidpointIndex(grid, ghosts, c) : c \in InnerCells(n, ghosts)}
                 = HostElements(Size(grid))
            /\ \A c, d \in InnerCells(n, ghosts) :
                 MidpointIndex(grid, ghosts, c) = MidpointIndex(grid, ghosts, d) => c = d
  <1> DEFINE grid == Subtract(Subtract(n, ghosts), ghosts)
  <1>1. grid \in Extents /\ Subtract(n, ghosts) \in Triples
    BY MovedBox, Parts
  <1>2. /\ {Index(grid, c) : c \in Box(Zero, grid)} = HostElements(Size(grid))
        /\ \A c, d \in Box(Zero, grid) : Index(grid, c) = Index(grid, d) => c = d
    BY <1>1, EachCellOneElement, WholeVolume
  <1>3. /\ \A c \in InnerCells(n, ghosts) : /\ Subtract(c, ghosts) \in Box(Zero, grid)
                                            /\ c = Add(Subtract(c, ghosts), ghosts)
        /\ \A c \in Box(Zero, grid) : Add(c, ghosts) \in InnerCells(n, ghosts)
    BY <1>1, MovedBox DEF InnerCells
  <1>4. \A c \in Box(Zero, grid) : Subtract(Add(c, ghosts), ghosts) = c
    BY Parts DEF Add, Subtract
  <1>5. \A c : MidpointIndex(grid, ghosts, c) = Index(grid, Subtract(c, ghosts))
    BY DEF MidpointIndex
  <1> HIDE DEF grid
  <1>6. ASSUME NEW i \in HostElements(Size(grid))
        PROVE \E c \in InnerCells(n, ghosts) : MidpointIndex(grid, ghosts, c) = i
    <2>1. PICK c \in Box(Zero, grid) : Index(grid, c) = i
      BY <1>2
    <2> QED
      BY <1>3, <1>4, <1>5, <2>1
  <1>7. \A c \in InnerCells(n, ghosts) : MidpointIndex(grid, ghosts, c) \in HostElements(Size(grid))
    BY <1>2, <1>3, <1>5
  <1>8. ASSUME NEW c \in InnerCells(n, ghosts), NEW d \in InnerCells(n, ghosts),
               MidpointIndex(grid, ghosts, c) = MidpointIndex(grid, ghosts, d)
        PROVE c = d
    <2>1. Subtract(c, ghosts) = Subtract(d, ghosts)
      BY <1>2, <1>3, <1>5, <1>8
    <2> QED
      BY <1>3, <2>1
  <1> QED
    BY <1>6, <1>7, <1>8 DEF grid

-----------------------------------------------------------------------------
(* Neighbours.                                                              *)

(* for_each_internal_volume_index hands out elements of the volume as left    *)
(* and right neighbours exactly if at least one layer is left out: without    *)
(* ghost cells across the direction the first cell's left index is none of    *)
(* the direction's.                                                           *)
THEOREM NeighboursInside ==
  ASSUME NEW n \in Extents, NEW axis \in Axes, NEW layer \in Nat, 2 * layer < n[axis]
  PROVE (\A c \in CellsAlong(n, axis, layer) :
           /\ Subtract(c, make_direction_vector(axis)) \in Box(Zero, n)
           /\ Add(c, make_direction_vector(axis)) \in Box(Zero, n)
           /\ LeftIndex(n, axis, c) \in HostElements(Size(n))
           /\ RightIndex(n, axis, c) \in HostElements(Size(n)))
        <=> layer > 0
  <1>1. /\ n \in Triples /\ n = <<n[1], n[2], n[3]>>
        /\ n[1] \in Nat /\ n[2] \in Nat /\ n[3] \in Nat /\ n[1] > 0 /\ n[2] > 0 /\ n[3] > 0
    BY Parts
  <1>2. axis = 1 \/ axis = 2 \/ axis = 3
    BY DEF Axes
  <1>3. ASSUME layer > 0, NEW c \in CellsAlong(n, axis, layer)
        PROVE /\ Subtract(c, make_direction_vector(axis)) \in Box(Zero, n)
              /\ Add(c, make_direction_vector(axis)) \in Box(Zero, n)
    <2>1. c \in Box(Zero, n) /\ layer <= c[axis] /\ c[axis] < n[axis] - layer
      BY DEF CellsAlong
    <2>2. /\ c[1] \in 0 .. n[1] - 1 /\ c[2] \in 0 .. n[2] - 1 /\ c[3] \in 0 .. n[3] - 1
      BY <2>1, WholeVolume
    <2>3. CASE axis = 1
      <3>1. /\ Subtract(c, make_direction_vector(axis)) = <<c[1] - 1, c[2], c[3]>>
            /\ Add(c, make_direction_vector(axis)) = <<c[1] + 1, c[2], c[3]>>
        BY <2>2, <2>3 DEF Subtract, Add, make_direction_vector
      <3>2. c[1] - 1 \in 0 .. n[1] - 1 /\ c[1] + 1 \in 0 .. n[1] - 1
        BY <1>1, <1>3, <2>1, <2>2, <2>3
      <3> QED
        BY <2>2, <3>1, <3>2, WholeVolume
    <2>4. CASE axis = 2
      <3>1. /\ Subtract(c, make_direction_vector(axis)) = <<c[1], c[2] - 1, c[3]>>
            /\ Add(c, make_direction_vector(axis)) = <<c[1], c[2] + 1, c[3]>>
        BY <2>2, <2>4 DEF Subtract, Add, make_direction_vector
      <3>2. c[2] - 1 \in 0 .. n[2] - 1 /\ c[2] + 1 \in 0 .. n[2] - 1
        BY <1>1, <1>3, <2>1, <2>2, <2>4
      <3> QED
        BY <2>2, <3>1, <3>2, WholeVolume
    <2>5. CASE axis = 3
      <3>1. /\ Subtract(c, make_direction_vector(axis)) = <<c[1], c[2], c[3] - 1>>
            /\ Add(c, make_direction_vector(axis)) = <<c[1], c[2], c[3] + 1>>
        BY <2>2, <2>5 DEF Subtract, Add, make_direction_vector
      <3>2. c[3] - 1 \in 0 .. n[3] - 1 /\ c[3] + 1 \in 0 .. n[3] - 1
        BY <1>1, <1>3, <2>1, <2>2, <2>5
      <3> QED
        BY <2>2, <3>1, <3>2, WholeVolume
    <2> QED
      BY <1>2, <2>3, <2>4, <2>5
  <1>4. ASSUME layer = 0
        PROVE /\ Zero \in CellsAlong(n, axis, layer)
              /\ Subtract(Zero, make_direction_vector(axis)) \notin Box(Zero, n)
    <2>1. Zero \in Box(Zero, n) /\ Zero[axis] = 0 /\ n[axis] > 0
      BY <1>1, <1>2 DEF Zero, Box, Triples, Axes
    <2>2. Zero \in CellsAlong(n, axis, layer)
      BY <1>1, <1>2, <1>4, <2>1 DEF CellsAlong
    <2>3. Subtract(Zero, make_direction_vector(axis))[axis] = -1
      BY <1>2 DEF Subtract, Zero, make_direction_vector
    <2>4. \A c \in Box(Zero, n) : c[axis] >= 0
      BY <1>2 DEF Box, Zero, Axes
    <2> QED
      BY <2>2, <2>3, <2>4
  <1>5. \A c \in Box(Zero, n) : Index(n, c) \in HostElements(Size(n))
    BY IndexInside DEF HostElements
  <1> QED
    BY <1>3, <1>4, <1>5 DEF LeftIndex, RightIndex

(* The total variation in two dimensions takes the differences of the same   *)
(* pairs of elements on CPUs and GPUs.  In one dimension the host compares an *)
(* element with itself where it wants the one below, so that this difference  *)
(* is zero, but the device's test of ny is for more than zero and not for     *)
(* more than one: it reads in front of the memory, for every cell.            *)
THEOREM VariationReadsInFrontOnGpu ==
  ASSUME NEW n \in Extents, n[3] = 1, NEW start \in Box(Zero, n), NEW end \in Triples,
         \A d \in Axes : end[d] <= n[d],
         NEW c \in Box(VariationStart(n, start), end)
  PROVE /\ BelowOnHost(n, c) \in HostElements(Size(n))
        /\ n[2] > 1 => BelowOnDevice(n, c) = BelowOnHost(n, c)
        /\ n[2] = 1 => /\ BelowOnHost(n, c) = Index(n, c)
                       /\ BelowOnDevice(n, c) < 0
  <1>1. n[1] \in Nat /\ n[2] \in Nat /\ n[1] > 0 /\ n[2] > 0
    BY Parts
  <1>2. /\ start[1] \in 0 .. n[1] - 1 /\ start[2] \in 0 .. n[2] - 1 /\ start[3] \in 0 .. n[3] - 1
        /\ end[1] <= n[1] /\ end[2] <= n[2] /\ end[3] <= n[3]
        /\ end[1] \in Int /\ end[2] \in Int /\ end[3] \in Int
    BY WholeVolume, Parts DEF Axes
  <1>3. /\ c \in Triples
        /\ start[1] + 1 <= c[1] /\ c[1] < end[1]
        /\ start[2] + (IF n[2] > 1 THEN 1 ELSE 0) <= c[2] /\ c[2] < end[2]
        /\ start[3] <= c[3] /\ c[3] < end[3]
    <2>1. VariationStart(n, start) = <<start[1] + 1, start[2] + (IF n[2] > 1 THEN 1 ELSE 0), start[3]>>
      BY <1>2 DEF VariationStart, Add
    <2> QED
      BY <2>1 DEF Box, Axes
  <1>4. c[1] \in 0 .. n[1] - 1 /\ c[2] \in 0 .. n[2] - 1 /\ c[3] = 0
    BY <1>1, <1>2, <1>3, Parts
  <1>5. CASE n[2] > 1
    <2>1. c[2] - 1 \in 0 .. n[2] - 1
      BY <1>1, <1>2, <1>3, <1>4, <1>5
    <2>2. <<c[1], c[2] - 1, c[3]>> \in Box(Zero, n)
      BY <1>4, <2>1, WholeVolume
    <2>3. /\ BelowOnHost(n, c) = Index(n, <<c[1], c[2] - 1, c[3]>>)
          /\ BelowOnDevice(n, c) = Index(n, <<c[1], c[2] - 1, c[3]>>)
      BY <1>1, <1>5 DEF BelowOnHost, BelowOnDevice
    <2> QED
      BY <1>5, <2>2, <2>3, IndexInside DEF HostElements
  <1>6. CASE n[2] = 1
    <2>1. c[2] = 0 /\ c[3] = 0
      BY <1>4, <1>6
    <2>2. c \in Box(Zero, n) /\ c = <<c[1], 0, c[3]>>
      BY <1>3, <1>4, <2>1, WholeVolume, Parts
    <2>3. BelowOnHost(n, c) = Index(n, c)
      BY <1>6, <2>2 DEF BelowOnHost
    <2>4. BelowOnDevice(n, c) = c[1] - n[1]
      BY <1>1, <1>4, <1>6, <2>1 DEF BelowOnDevice, Index
    <2> QED
      BY <1>1, <1>4, <1>6, <2>2, <2>3, <2>4, IndexInside DEF HostElements
  <1> QED
    BY <1>1, <1>5, <1>6

-----------------------------------------------------------------------------
(* Constraints.                                                             *)

(* The vector of results keeps nothing of an earlier call, though it is       *)
(* static and is not cleared: every element has its thread.  But its          *)
(* elements are reduced with the maximum, so the GPU's check succeeds if ANY  *)
(* cell obeys the constraints, and the CPU's if ALL do: what the CPU accepts  *)
(* the GPU accepts, and a volume that is bad in one cell and good in another  *)
(* is accepted by the GPU alone.                                              *)
THEOREM OneGoodCellPassesOnGpu ==
  ASSUME NEW n \in Extents, NEW left,
         NEW obeys \in [HostElements(Size(n)) -> BOOLEAN],
         NEW finite \in [HostElements(Size(n)) -> BOOLEAN]
  PROVE /\ ObeysOnCuda(Size(n), left, obeys) <=> \E c \in Box(Zero, n) : obeys[Index(n, c)]
        /\ ObeysOnCpu(n, obeys, finite) => ObeysOnCuda(Size(n), left, obeys)
        /\ \A c, d \in Box(Zero, n) :
             obeys[Index(n, c)] /\ ~obeys[Index(n, d)] =>
               ObeysOnCuda(Size(n), left, obeys) /\ ~ObeysOnCpu(n, obeys, finite)
  <1>1. Size(n) \in Nat /\ LoopCells(n, Zero, Zero) = Box(Zero, n)
    BY WholeVolume
  <1>2. \A i \in 0 .. Size(n) - 1 : \E t \in Working(Size(n)) : ThreadIndex(t) = i
    <2>1. {ThreadIndex(t) : t \in Working(Size(n))} = HostElements(Size(n))
      BY <1>1, EachElementOnce
    <2> QED
      BY <2>1 DEF HostElements
  <1>3. ASSUME NEW i \in 0 .. Size(n) - 1
        PROVE Results(Size(n), left, obeys)[i] > 0 <=> obeys[i]
    <2>1. \E t \in Working(Size(n)) : ThreadIndex(t) = i
      BY <1>2
    <2>2. Results(Size(n), left, obeys)[i] = IF obeys[i] THEN 1 ELSE 0
      BY <2>1, Zenon DEF Results
    <2>3. CASE obeys[i]
      <3>1. Results(Size(n), left, obeys)[i] = 1
        BY <2>2, <2>3, Zenon
      <3> QED
        BY <3>1, <2>3
    <2>4. CASE ~obeys[i]
      <3>1. Results(Size(n), left, obeys)[i] = 0
        BY <2>2, <2>4, Zenon
      <3> QED
        BY <3>1, <2>4
    <2> QED
      BY <2>3, <2>4
  <1>4. ObeysOnCuda(Size(n), left, obeys) <=> \E i \in 0 .. Size(n) - 1 : obeys[i]
    BY <1>3, Zenon DEF ObeysOnCuda
  <1>5. {Index(n, c) : c \in Box(Zero, n)} = 0 .. Size(n) - 1
    BY <1>1, EachCellOneElement DEF HostElements
  <1>6. ObeysOnCuda(Size(n), left, obeys) <=> \E c \in Box(Zero, n) : obeys[Index(n, c)]
    BY <1>4, <1>5
  <1>7. Zero \in Box(Zero, n)
    BY Parts DEF Zero, Box, Triples, Axes, Extents
  <1>8. ObeysOnCpu(n, obeys, finite) => \A c \in Box(Zero, n) : obeys[Index(n, c)]
    BY <1>1 DEF ObeysOnCpu
  <1> QED
    BY <1>6, <1>7, <1>8
=============================================================================
