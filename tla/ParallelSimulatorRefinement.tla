-------------------- MODULE ParallelSimulatorRefinement --------------------
(* The time loop implements LockstepStages: the refinement mapping.          *)
EXTENDS ParallelSimulator

\* The ranks across the sides of r; itself, if it is alone in a periodic line.
Adjacent == [r \in Ranks |-> {Neighbours[r][s] : s \in Sides} \ {NoRank}]

\* The solution of a rank is what conservedVolumes[0] holds; within a step
\* that is still the state the step began with.
Solution == [r \in Ranks |-> interior[r][Volume(r, 0)]]

Lockstep == INSTANCE LockstepStages WITH
  Adjacent <- Adjacent, Steps <- 0 .. Cfl, solution <- Solution

\* Each stage and step that a rank completes, with its two threads, messages,
\* reductions and swapped pointers, is one step of LockstepStages, and nothing
\* else a rank does is seen there: no stage is computed before its neighbours
\* gave theirs, the solution is exact after every step, and all ranks take the
\* same steps (ConservedSystem.cpp:31, Integrator.cpp:20, Simulator.cpp:77).
ImplementsLockstep == Lockstep!Spec
=============================================================================
