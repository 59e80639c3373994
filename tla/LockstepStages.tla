-------------------------- MODULE LockstepStages --------------------------
(***************************************************************************)
(* What the time loop of several ranks promises, with no thread, no message *)
(* and no buffer in sight: every rank advances its block from one exact     *)
(* Runge-Kutta stage to the next.  It may be ahead of a rank that it shares *)
(* a side with by the stage it just computed and no more, of any other rank *)
(* by the distance between them, and a step begins only where every rank    *)
(* has finished the last one.  All ranks go through the same times.         *)
(***************************************************************************)
EXTENDS Integers, Sequences

CONSTANTS
  Ranks,      \* the ranks
  Adjacent,   \* Adjacent[r]: the ranks that r shares a side with
  Substeps,   \* stages of a step
  Steps,      \* lengths that a step may have
  EndTime     \* no step begins at this time or later

VARIABLES
  stage,      \* stage[r]: stages that r has completed
  substep,    \* substep[r]: those of them that belong to the step under way
  solution,   \* solution[r]: stage that the state of its last step holds
  clock       \* clock[r]: the times its steps ended at

vars == <<stage, substep, solution, clock>>

Init ==
  /\ stage    = [r \in Ranks |-> 0]
  /\ substep  = [r \in Ranks |-> 0]
  /\ solution = [r \in Ranks |-> 0]
  /\ clock    = [r \in Ranks |-> << >>]

Now(r) == IF clock[r] = << >> THEN 0 ELSE clock[r][Len(clock[r])]

\* The values of its neighbours for this stage exist, and at the first stage
\* of a step those of all ranks do: the step is chosen by all of them.
MayAdvance(r) ==
  /\ Now(r) < EndTime
  /\ \A q \in Adjacent[r] : stage[q] >= stage[r]
  /\ substep[r] = 0 => \A q \in Ranks : stage[q] >= stage[r]

Advance(r) ==
  /\ MayAdvance(r)
  /\ substep[r] + 1 < Substeps
  /\ stage' = [stage EXCEPT ![r] = @ + 1]
  /\ substep' = [substep EXCEPT ![r] = @ + 1]
  /\ UNCHANGED <<solution, clock>>

\* The end of step k is chosen by the first rank that gets there.
Agreed(k, t) == \A q \in Ranks : Len(clock[q]) >= k => clock[q][k] = t

EndStep(r) ==
  /\ MayAdvance(r)
  /\ substep[r] + 1 = Substeps
  /\ stage' = [stage EXCEPT ![r] = @ + 1]
  /\ substep' = [substep EXCEPT ![r] = 0]
  /\ solution' = [solution EXCEPT ![r] = stage[r] + 1]
  /\ \E d \in Steps :
       /\ Agreed(Len(clock[r]) + 1, Now(r) + d)
       /\ clock' = [clock EXCEPT ![r] = Append(@, Now(r) + d)]

Next == \E r \in Ranks : Advance(r) \/ EndStep(r)

Spec == Init /\ [][Next]_vars
=============================================================================
