------------------------- MODULE ParallelSimulator -------------------------
(***************************************************************************)
(* The time loop of alsvinn on several MPI ranks.  Each rank owns one block *)
(* of the grid and runs two threads: the main thread goes through           *)
(* alsvinncli's loop, Simulator::performStep, the Runge-Kutta substeps and  *)
(* ConservedSystem::operator(); that operator spawns a short-lived exchange *)
(* thread which posts CartesianCellExchanger's sends and receives and waits *)
(* for them while the main thread computes the fluxes of the inner region.  *)
(*                                                                         *)
(* Data are abstracted to provenance.  A block of cells is known by the     *)
(* number of Runge-Kutta stages it is the result of, and the ghost cells of *)
(* a side by the rank and the stage their content came from.  A stage       *)
(* computed from anything but the right inputs is Garbage, and stays so:    *)
(* "never Garbage" says that the decomposed run computes what a run on one  *)
(* rank would compute.                                                     *)
(*                                                                         *)
(* MPI is external: a message is a record in the history of its channel     *)
(* (sender, side), the i-th receive on a channel matches the i-th send, and *)
(* the library is free to buffer a send (which completes it at once) or to  *)
(* read the sender's memory when the message is delivered.                  *)
(***************************************************************************)
EXTENDS Integers, Sequences, FiniteSets

CONSTANTS
  Ranks,        \* the ranks of the communicator
  Dimensions,   \* active dimensions of the grid
  Neighbours,   \* Neighbours[r][side]: rank across that side, or NoRank
  Substeps,     \* stages of the Runge-Kutta integrator
  WaveSpeeds,   \* local wave speeds (per cell length) the fluxes may find
  Cfl,          \* CFL number, in units of time times wave speed
  EndTime,      \* endTime of the simulation
  MayThrow      \* may checkConstraints throw?

NoRank  == -1
Garbage == -1

Sides       == 0 .. 2 * Dimensions - 1
Directions  == 3  \* reductions of a step: inactive directions count too
Slots       == 0 .. Substeps
Opposite(s) == IF s % 2 = 0 THEN s + 1 ELSE s - 1

ASSUME SizesAssumption ==
  /\ IsFiniteSet(Ranks) /\ Ranks # {} /\ Ranks \subseteq Nat
  /\ Dimensions \in 1 .. 3
  /\ Substeps \in Nat \ {0}
  /\ MayThrow \in BOOLEAN

ASSUME SpeedsAssumption ==
  /\ WaveSpeeds \subseteq Nat \ {0}
  /\ Cfl \in Nat
  /\ EndTime \in Nat

\* What CartesianDecomposition hands to the exchangers (proved there).
ASSUME NeighboursAssumption ==
  /\ Neighbours \in [Ranks -> [Sides -> Ranks \cup {NoRank}]]
  /\ \A r \in Ranks, s \in Sides : Neighbours[r][s] # NoRank =>
        Neighbours[Neighbours[r][s]][Opposite(s)] = r

VARIABLES
  pc,         \* where the main thread of a rank is
  thread,     \* where its exchange thread is
  nextSide,   \* the side whose requests the exchange thread posts next
  substep,    \* Runge-Kutta substep under way
  front,      \* memory that conservedVolumes[0] points at
  interior,   \* interior[r][v]: the stage the cells of memory v hold
  ghost,      \* ghost[r][v][side]: <<rank, stage>> the ghost cells hold
  sends,      \* sends[r][side]: every message posted on the channel
  recvd,      \* recvd[r][side]: receives completed at that side
  pending,    \* pending[r]: sides with a receive posted and not completed
  speeds,     \* speeds[r]: every value the rank gave to MPI_Allreduce
  total,      \* waveSpeedTotal of the reductions of this step so far
  dt,         \* time step, computed at substep 0
  time,       \* currentTime of TimestepInformation
  clock,      \* history of currentTime, one entry for each step performed
  stage       \* history: stages this rank has completed since the start

mainVars   == <<pc, substep, front, interior, dt, time, clock, stage>>
reduceVars == <<speeds, total>>
mpiVars    == <<thread, nextSide, sends, recvd, pending, ghost>>
vars       == <<mainVars, reduceVars, mpiVars>>

Stages   == Nat \cup {Garbage}
Cells    == Ranks \X Stages
Messages == [slot : Slots, complete : BOOLEAN, data : Cells]

TypeOK ==
  /\ pc \in [Ranks -> {"loop", "system", "inner", "join", "sides", "speed",
                       "allreduce", "update", "check", "thrown", "exit"}]
  /\ thread \in [Ranks -> {"none", "post", "wait", "done"}]
  /\ nextSide \in [Ranks -> 0 .. 2 * Dimensions]
  /\ substep \in [Ranks -> 0 .. Substeps - 1]
  /\ front \in [Ranks -> {0, Substeps}]
  /\ interior \in [Ranks -> [Slots -> Stages]]
  /\ ghost \in [Ranks -> [Slots -> [Sides -> Cells]]]
  /\ sends \in [Ranks -> [Sides -> Seq(Messages)]]
  /\ recvd \in [Ranks -> [Sides -> Nat]]
  /\ pending \in [Ranks -> SUBSET Sides]
  /\ speeds \in [Ranks -> Seq(Nat)]
  /\ total \in [Ranks -> Nat]
  /\ dt \in [Ranks -> Nat]
  /\ time \in [Ranks -> Nat]
  /\ clock \in [Ranks -> Seq(Nat)]
  /\ stage \in [Ranks -> Nat]

-----------------------------------------------------------------------------
HasSide(r, side) == Neighbours[r][side] # NoRank

\* conservedVolumes[0].swap(conservedVolumes.back()) exchanges two pointers,
\* so the memory behind conservedVolumes[k] depends on the number of swaps.
Volume(r, k) ==
  IF k = 0 THEN front[r] ELSE IF k = Substeps THEN Substeps - front[r] ELSE k

Input(r)  == Volume(r, substep[r])
Output(r) == Volume(r, substep[r] + 1)

AtEnd(r) == time[r] >= EndTime

Goto(r, from, to) == pc[r] = from /\ pc' = [pc EXCEPT ![r] = to]

Init ==
  /\ pc       = [r \in Ranks |-> "loop"]
  /\ thread   = [r \in Ranks |-> "none"]
  /\ nextSide = [r \in Ranks |-> 0]
  /\ substep  = [r \in Ranks |-> 0]
  /\ front    = [r \in Ranks |-> 0]
  /\ interior = [r \in Ranks |-> [v \in Slots |-> IF v = 0 THEN 0 ELSE Garbage]]
  /\ ghost    = [r \in Ranks |-> [v \in Slots |-> [s \in Sides |->
                   <<r, IF v = 0 /\ ~ HasSide(r, s) THEN 0 ELSE Garbage>>]]]
  /\ sends    = [r \in Ranks |-> [s \in Sides |-> << >>]]
  /\ recvd    = [r \in Ranks |-> [s \in Sides |-> 0]]
  /\ pending  = [r \in Ranks |-> {}]
  /\ speeds   = [r \in Ranks |-> << >>]
  /\ total    = [r \in Ranks |-> 0]
  /\ dt       = [r \in Ranks |-> 0]
  /\ time     = [r \in Ranks |-> 0]
  /\ clock    = [r \in Ranks |-> << >>]
  /\ stage    = [r \in Ranks |-> 0]

\* Fault: the loop does not end when atEnd holds.
LoopSpins(r) ==
  /\ Goto(r, "loop", IF AtEnd(r) THEN "loop" ELSE "system")
  /\ UNCHANGED <<substep, front, interior, dt, time, clock, stage>>
  /\ UNCHANGED <<reduceVars, mpiVars>>

\* while (!simulator->atEnd()) simulator->performStep()
Loop(r) ==
  /\ Goto(r, "loop", IF AtEnd(r) THEN "exit" ELSE "system")
  /\ UNCHANGED <<substep, front, interior, dt, time, clock, stage>>
  /\ UNCHANGED <<reduceVars, mpiVars>>

-----------------------------------------------------------------------------
(* ConservedSystem::operator(): two threads between spawn and join.         *)

\* std::thread cellExchangeThread(...)
SpawnExchange(r) ==
  /\ Goto(r, "system", "inner")
  /\ thread' = [thread EXCEPT ![r] = "post"]
  /\ nextSide' = [nextSide EXCEPT ![r] = 0]
  /\ UNCHANGED <<substep, front, interior, dt, time, clock, stage>>
  /\ UNCHANGED <<sends, recvd, pending, ghost, reduceVars>>

\* The inner region reads no ghost cell (module FluxRegions), so it depends
\* on the rank's own cells only.
InnerFlux(r) ==
  /\ Goto(r, "inner", "join")
  /\ UNCHANGED <<substep, front, interior, dt, time, clock, stage>>
  /\ UNCHANGED <<mpiVars, reduceVars>>

\* One turn of exchangeCells' loop: the send of a side, tagged with that
\* side, and the receive of the opposite side with the same tag.
PostSide(r) ==
  LET side == nextSide[r]
      message == [slot |-> Input(r), complete |-> FALSE, data |-> <<r, Garbage>>]
  IN
  /\ thread[r] = "post"
  /\ side < 2 * Dimensions
  /\ sends' = IF HasSide(r, side)
              THEN [sends EXCEPT ![r][side] = Append(@, message)]
              ELSE sends
  /\ pending' = IF HasSide(r, Opposite(side))
                THEN [pending EXCEPT ![r] = @ \cup {Opposite(side)}]
                ELSE pending
  /\ nextSide' = [nextSide EXCEPT ![r] = side + 1]
  /\ thread' = [thread EXCEPT ![r] = IF side + 1 = 2 * Dimensions THEN "wait" ELSE "post"]
  /\ UNCHANGED <<recvd, ghost, mainVars, reduceVars>>

\* What a message carries: the copy the library took, or else the strip of
\* interior cells in the sender's memory as it is now.
Content(r, side, i) ==
  LET m == sends[r][side][i]
  IN  IF m.complete THEN m.data ELSE <<r, interior[r][m.slot]>>

\* The send request of message i completes, with the content sent.
Complete(r, side, i) ==
  sends' = [sends EXCEPT ![r][side][i] =
              [@ EXCEPT !.complete = TRUE, !.data = Content(r, side, i)]]

\* The MPI library copies a message to a buffer of its own.
BufferSend(r, side) ==
  /\ \E i \in 1 .. Len(sends[r][side]) :
       /\ ~ sends[r][side][i].complete
       /\ Complete(r, side, i)
  /\ UNCHANGED <<thread, nextSide, recvd, pending, ghost, mainVars, reduceVars>>

\* The MPI library matches the receive pending at this side with the next
\* message of its channel, and writes the ghost cells of the input volume.
Deliver(r, side) ==
  LET from == Neighbours[r][side]
      i    == recvd[r][side] + 1
  IN
  /\ side \in pending[r]
  /\ i <= Len(sends[from][Opposite(side)])
  /\ ghost' = [ghost EXCEPT ![r][Input(r)][side] = Content(from, Opposite(side), i)]
  /\ Complete(from, Opposite(side), i)
  /\ recvd' = [recvd EXCEPT ![r][side] = i]
  /\ pending' = [pending EXCEPT ![r] = @ \ {side}]
  /\ UNCHANGED <<thread, nextSide, mainVars, reduceVars>>

\* Fault: only the sends are in the container that is waited for.
OnlySendsDone(r) ==
  \A s \in Sides : \A i \in 1 .. Len(sends[r][s]) : sends[r][s][i].complete

RequestsDone(r) ==
  /\ pending[r] = {}
  /\ \A s \in Sides : \A i \in 1 .. Len(sends[r][s]) : sends[r][s][i].complete

\* request.waitForAll(); the thread ends.
WaitForAll(r) ==
  /\ thread[r] = "wait"
  /\ RequestsDone(r)
  /\ thread' = [thread EXCEPT ![r] = "done"]
  /\ UNCHANGED <<nextSide, sends, recvd, pending, ghost, mainVars, reduceVars>>

\* Faults: no join before the sides; the thread is detached.
NoJoin(r) == thread[r] \in {"post", "wait", "done"}
DetachThread(r) ==
  /\ Goto(r, "join", "sides")
  /\ UNCHANGED <<substep, front, interior, dt, time, clock, stage>>
  /\ UNCHANGED <<mpiVars, reduceVars>>

\* cellExchangeThread.join()
CanJoin(r) == thread[r] = "done"
Join(r) ==
  /\ CanJoin(r)
  /\ Goto(r, "join", "sides")
  /\ thread' = [thread EXCEPT ![r] = "none"]
  /\ UNCHANGED <<nextSide, sends, recvd, pending, ghost, reduceVars>>
  /\ UNCHANGED <<substep, front, interior, dt, time, clock, stage>>

\* The inputs that the stage under way ought to have.
GhostsFresh(r) ==
  \A s \in Sides : ghost[r][Input(r)][s] =
     IF HasSide(r, s) THEN <<Neighbours[r][s], stage[r]>> ELSE <<r, stage[r]>>

VolumesFresh(r) ==
  \A k \in 0 .. substep[r] :
     interior[r][Volume(r, k)] = stage[r] - substep[r] + k

\* The fluxes of the strips along the sides read the ghost cells; output now
\* holds F(u).  The wave speed is reduced at substep 0 only.
SideFlux(r) ==
  /\ Goto(r, "sides", IF substep[r] = 0 THEN "speed" ELSE "update")
  /\ interior' = [interior EXCEPT ![r][Output(r)] =
                    IF GhostsFresh(r) THEN stage[r] + 1 ELSE Garbage]
  /\ UNCHANGED <<substep, front, dt, time, clock, stage, mpiVars, reduceVars>>

-----------------------------------------------------------------------------
(* Integrator::computeTimestep: one MPI_Allreduce for each of the three     *)
(* directions.  An inactive direction has cell length 1 and wave speed 0.   *)

LocalSpeeds(r) == IF Len(speeds[r]) % Directions < Dimensions THEN WaveSpeeds ELSE {0}

EnterAllreduce(r) ==
  /\ Goto(r, "speed", "allreduce")
  /\ \E w \in LocalSpeeds(r) : speeds' = [speeds EXCEPT ![r] = Append(@, w)]
  /\ UNCHANGED <<substep, front, interior, dt, time, clock, stage>>
  /\ UNCHANGED <<total, mpiVars>>

\* The reduction a rank is in returns when every rank has entered it.
Arrived(r) == \A q \in Ranks : Len(speeds[q]) >= Len(speeds[r])

\* Its result, CellExchanger::adjustWaveSpeed, is the largest value given.
Given(r)      == {speeds[q][Len(speeds[r])] : q \in Ranks}
\* Faults: the reduction is left out; it takes the minimum.
LocalSpeedOnly(r, w) == w = speeds[r][Len(speeds[r])]
SmallestSpeed(r, w)  == \A v \in Given(r) : w <= v

Reduced(r, w) == \A v \in Given(r) : v <= w

\* dt = cfl / waveSpeedTotal, in whole units of time.
Timestep(waveSpeedTotal) == Cfl \div waveSpeedTotal

\* Fault: the wave speeds of the directions are not added up.
LastSpeedOnly(r) ==
  LET last == Len(speeds[r]) % Directions = 0
  IN
  /\ Goto(r, "allreduce", IF last THEN "update" ELSE "speed")
  /\ Arrived(r)
  /\ \E w \in Given(r) :
       /\ Reduced(r, w)
       /\ total' = total
       /\ dt' = [dt EXCEPT ![r] = IF last THEN Timestep(w + 1) ELSE @]
  /\ UNCHANGED <<substep, front, interior, time, clock, stage, speeds, mpiVars>>

\* The last of the three reductions gives the time step.
LeaveAllreduce(r) ==
  LET last == Len(speeds[r]) % Directions = 0
  IN
  /\ Goto(r, "allreduce", IF last THEN "update" ELSE "speed")
  /\ Arrived(r)
  /\ \E w \in Given(r) :
       /\ Reduced(r, w)
       /\ total' = [total EXCEPT ![r] = IF last THEN 0 ELSE @ + w]
       /\ dt' = [dt EXCEPT ![r] = IF last THEN Timestep(total[r] + w) ELSE @]
  /\ UNCHANGED <<substep, front, interior, time, clock, stage, speeds, mpiVars>>

-----------------------------------------------------------------------------
(* The rest of the substep and of the step.                                 *)

\* Fault: the boundary condition is applied to the substep's input.
BoundaryOnInput(r) ==
  /\ interior' = [interior EXCEPT ![r][Output(r)] =
                    IF VolumesFresh(r) /\ @ = stage[r] + 1 THEN @ ELSE Garbage]
  /\ ghost' = [ghost EXCEPT ![r][Input(r)] =
                 [s \in Sides |-> <<r, IF HasSide(r, s) THEN Garbage ELSE stage[r] + 1>>]]
  /\ stage' = [stage EXCEPT ![r] = @ + 1]

\* output = combination of dt * output and the earlier volumes of this step,
\* then boundary->applyBoundaryConditions: ghost cells at a physical boundary
\* are set from the new cells, those at an MPI boundary hold no grid's state.
Combine(r) ==
  /\ interior' = [interior EXCEPT ![r][Output(r)] =
                    IF VolumesFresh(r) /\ @ = stage[r] + 1 THEN @ ELSE Garbage]
  /\ ghost' = [ghost EXCEPT ![r][Output(r)] =
                 [s \in Sides |-> <<r, IF HasSide(r, s) THEN Garbage ELSE stage[r] + 1>>]]
  /\ stage' = [stage EXCEPT ![r] = @ + 1]

\* Another substep of incrementSolution follows.
NextSubstep(r) ==
  /\ substep[r] + 1 < Substeps
  /\ Goto(r, "update", "system")
  /\ Combine(r)
  /\ substep' = [substep EXCEPT ![r] = @ + 1]
  /\ UNCHANGED <<front, dt, time, clock>>
  /\ UNCHANGED <<thread, nextSide, sends, recvd, pending, reduceVars>>

\* Faults: no swap; a swap with the volume before the last.
SwapForgotten(r) == front' = front
SwapOther(r)     == front' = [front EXCEPT ![r] = Substeps - 1 - @]

\* conservedVolumes[0].swap(conservedVolumes.back())
SwapVolumes(r) == front' = [front EXCEPT ![r] = Substeps - @]

\* The last substep: swap the volumes and increment the time.
FinishStep(r) ==
  /\ substep[r] + 1 = Substeps
  /\ Goto(r, "update", "check")
  /\ Combine(r)
  /\ SwapVolumes(r)
  /\ substep' = [substep EXCEPT ![r] = 0]
  /\ time' = [time EXCEPT ![r] = @ + dt[r]]
  /\ clock' = [clock EXCEPT ![r] = Append(@, time[r] + dt[r])]
  /\ UNCHANGED <<dt, thread, nextSide, sends, recvd, pending, reduceVars>>

\* checkConstraints holds, and the writers get conservedVolumes[0].
CheckPasses(r) ==
  /\ Goto(r, "check", "loop")
  /\ UNCHANGED <<substep, front, interior, dt, time, clock, stage>>
  /\ UNCHANGED <<mpiVars, reduceVars>>

\* Fault: the constraints are checked before the step is complete.
ThrowsInStep(r) ==
  /\ MayThrow
  /\ substep[r] + 1 = Substeps
  /\ Goto(r, "update", "thrown")
  /\ UNCHANGED <<substep, front, interior, dt, time, clock, stage>>
  /\ UNCHANGED <<mpiVars, reduceVars>>

\* checkConstraints throws: main catches, and returns EXIT_FAILURE without
\* another call of MPI.
CheckThrows(r) ==
  /\ MayThrow
  /\ Goto(r, "check", "thrown")
  /\ UNCHANGED <<substep, front, interior, dt, time, clock, stage>>
  /\ UNCHANGED <<mpiVars, reduceVars>>

\* Every rank is past the loop and MPI_Finalize returns.
Finalize ==
  /\ \A r \in Ranks : pc[r] = "exit"
  /\ UNCHANGED vars

Main(r) ==
  \/ Loop(r) \/ SpawnExchange(r) \/ InnerFlux(r) \/ Join(r) \/ SideFlux(r)
  \/ EnterAllreduce(r) \/ LeaveAllreduce(r)
  \/ NextSubstep(r) \/ FinishStep(r) \/ CheckPasses(r) \/ CheckThrows(r)

Exchange(r) == PostSide(r) \/ WaitForAll(r)

Next ==
  \/ \E r \in Ranks : Main(r) \/ Exchange(r)
  \/ \E r \in Ranks, s \in Sides : BufferSend(r, s) \/ Deliver(r, s)
  \/ Finalize

\* The operating system runs both threads of every rank, and MPI delivers a
\* message once its receive is posted.  Nothing makes it buffer a send.
Fairness ==
  /\ \A r \in Ranks : WF_vars(Main(r)) /\ WF_vars(Exchange(r))
  /\ \A r \in Ranks, s \in Sides : WF_vars(Deliver(r, s))

Spec == Init /\ [][Next]_vars /\ Fairness

-----------------------------------------------------------------------------
(* Correctness.                                                             *)

\* What checkConstraints and the writers are given, and what every stage
\* starts from, is exact: no stage of any rank ever used a ghost cell or an
\* earlier volume that was not the right one, however the ranks, their two
\* threads and the messages interleave.  So the decomposed run computes what
\* one rank would (Simulator.cpp:191, ConservedSystem.cpp:31).
NoStaleHalo ==
  \A r \in Ranks : substep[r] = 0 /\ pc[r] \in {"loop", "system", "check", "thrown", "exit"} =>
     interior[r][Volume(r, 0)] = stage[r]

\* The strips along the sides are computed only when every side across which
\* there is a rank holds that rank's cells of this very stage: the neighbour
\* may be a whole stage ahead by then (CartesianCellExchanger.cpp:51).
SidesReadFreshGhosts ==
  \A r \in Ranks : pc[r] = "sides" => GhostsFresh(r)

\* The two threads of a rank are never inside MPI at once: a reduction starts
\* only after the exchange thread ended.  alsvinncli calls MPI_Init and asks
\* for no thread support (main.cpp:128).
MPISerialized ==
  \A r \in Ranks : pc[r] \in {"speed", "allreduce"} => thread[r] = "none"

\* Ranks never disagree on the time they reached after the same number of
\* steps, so atEnd and every writer decide the same on all of them
\* (Integrator.cpp:20, Simulator.cpp:77).
SameClock ==
  \A q, r \in Ranks : \A k \in 1 .. Len(clock[q]) :
     k <= Len(clock[r]) => clock[q][k] = clock[r][k]

\* The step taken satisfies the CFL condition of every rank, not only the
\* condition of the rank that takes it (CellExchanger's max over all ranks).
CFLHolds ==
  \A q, r \in Ranks : \A k \in 1 .. Len(clock[r]) :
     LET step == clock[r][k] - (IF k = 1 THEN 0 ELSE clock[r][k - 1])
         mine == speeds[q][3 * k - 2] + speeds[q][3 * k - 1] + speeds[q][3 * k]
     IN  step * mine <= Cfl

\* A channel never holds more than two messages that were not received: a
\* rank cannot run ahead and fill the library's buffers, although nothing but
\* the neighbour's own messages holds it back between the reductions.
ChannelBounded ==
  \A r \in Ranks, s \in Sides : HasSide(r, s) =>
     Len(sends[r][s]) - recvd[Neighbours[r][s]][Opposite(s)] \in 0 .. 2

\* A rank that throws stops all the others within the step that follows: no
\* rank ever completes a step that it began after the throw, so no output of
\* a later time is written (Simulator.cpp:180).
ThrowStopsAll ==
  \A q, r \in Ranks : pc[q] = "thrown" => Len(clock[r]) <= Len(clock[q])

\* Every rank reaches the end of the simulation when no constraint fails.
Completes == <>(\A r \in Ranks : pc[r] = "exit")
=============================================================================
