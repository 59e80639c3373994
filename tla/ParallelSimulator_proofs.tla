---------------------- MODULE ParallelSimulator_proofs ----------------------
(* Proofs about ParallelSimulator, for every set of ranks, decomposition,   *)
(* number of dimensions and number of Runge-Kutta stages: halos and         *)
(* channels, then the clocks of the ranks, for every choice of wave speeds, *)
(* and last the refinement of LockstepStages.                               *)
EXTENDS ParallelSimulatorRefinement, SequenceTheorems, TLAPS

-----------------------------------------------------------------------------
(* The inductive invariant.  All its parts but the last are about one rank; *)
(* none says how far apart two neighbours may be.                           *)

Exchanging == {"inner", "join"}
Exchanged  == {"sides", "speed", "allreduce", "update"}

\* The exchange thread lives between spawn and join.
ThreadOK(r) ==
  /\ thread[r] # "none" <=> pc[r] \in Exchanging
  /\ thread[r] = "post" => nextSide[r] < 2 * Dimensions
  /\ thread[r] \in {"wait", "done"} => nextSide[r] = 2 * Dimensions

\* Has the exchange of the stage under way posted the send of this side, and
\* completed the receive of this side (posted with the opposite send)?
Posted(r, s)   == pc[r] \in Exchanged \/ (pc[r] \in Exchanging /\ s < nextSide[r])
Received(r, s) == Posted(r, Opposite(s)) /\ s \notin pending[r]

\* Every channel carried one message for each stage completed, and one more
\* when the stage under way has posted it.
CountOK(r) ==
  \A s \in Sides :
    /\ HasSide(r, s) =>
         /\ Len(sends[r][s]) = stage[r] + (IF Posted(r, s) THEN 1 ELSE 0)
         /\ recvd[r][s] = stage[r] + (IF Received(r, s) THEN 1 ELSE 0)
    /\ ~ HasSide(r, s) => sends[r][s] = << >>

\* Message i of a channel carries the sender's cells after i - 1 stages; one
\* that the library has yet to read is the sender's last, and the memory it
\* will be read from is the input of the sender's stage under way.
MessagesOK(r) ==
  \A s \in Sides : \A i \in 1 .. Len(sends[r][s]) :
    IF sends[r][s][i].complete
    THEN sends[r][s][i].data = <<r, i - 1>>
    ELSE /\ i = stage[r] + 1
         /\ sends[r][s][i].slot = Input(r)
         /\ thread[r] \in {"post", "wait"}

\* Receives are pending during an exchange only, at sides it has posted.
PendingOK(r) ==
  /\ \A s \in pending[r] : Posted(r, Opposite(s))
  /\ pending[r] # {} => thread[r] \in {"post", "wait"}

\* The ghost cells of the input: those across a physical boundary belong to
\* it, and those across a rank's boundary once they were received.
GhostsOK(r) ==
  \A s \in Sides :
    /\ ~ HasSide(r, s) => ghost[r][Input(r)][s] = <<r, stage[r]>>
    /\ HasSide(r, s) /\ Received(r, s) =>
         ghost[r][Input(r)][s] = <<Neighbours[r][s], stage[r]>>

\* The volumes of the step under way hold its successive stages.
VolumesOK(r) ==
  /\ VolumesFresh(r)
  /\ pc[r] \in {"speed", "allreduce", "update"} => interior[r][Output(r)] = stage[r] + 1

RankOK(r) ==
  /\ ThreadOK(r) /\ CountOK(r) /\ MessagesOK(r)
  /\ PendingOK(r) /\ GhostsOK(r) /\ VolumesOK(r)

\* A side's receives never outrun what its neighbour sent.
ChannelInv ==
  \A r \in Ranks, s \in Sides : HasSide(r, s) =>
    recvd[r][s] <= Len(sends[Neighbours[r][s]][Opposite(s)])

HaloInv == (\A r \in Ranks : RankOK(r)) /\ ChannelInv

-----------------------------------------------------------------------------
(* Facts about the operators of the model.                                  *)

\* The side of the neighbour that faces a side is one of its sides.
LEMMA OppositeSide ==
  ASSUME NEW s \in Sides
  PROVE  Opposite(s) \in Sides /\ Opposite(Opposite(s)) = s
BY SizesAssumption DEF Opposite, Sides

\* The memory behind every conservedVolumes[k] is one of the slots.
LEMMA VolumeSlot ==
  ASSUME TypeOK, NEW r \in Ranks, NEW k \in Slots
  PROVE  Volume(r, k) \in Slots
<1>1. front[r] \in {0, Substeps} /\ Substeps \in Nat
  BY SizesAssumption DEF TypeOK
<1> QED
  BY <1>1 DEF Volume, Slots

\* Input and output of a substep are different slots.
LEMMA InputOutput ==
  ASSUME TypeOK, NEW r \in Ranks
  PROVE  Input(r) \in Slots /\ Output(r) \in Slots /\ Input(r) # Output(r)
<1>1. /\ front[r] \in {0, Substeps} /\ Substeps \in Nat \ {0}
      /\ substep[r] \in 0 .. Substeps - 1
  BY SizesAssumption DEF TypeOK
<1> QED
  BY <1>1 DEF Volume, Slots, Input, Output

\* What a message carries is some rank's cells.
LEMMA ContentCells ==
  ASSUME TypeOK, NEW r \in Ranks, NEW s \in Sides, NEW i \in 1 .. Len(sends[r][s])
  PROVE  Content(r, s, i) \in Cells
<1>1. sends[r][s][i] \in Messages
  BY DEF TypeOK
<1>2. interior[r] \in [Slots -> Stages]
  BY DEF TypeOK
<1>3. CASE sends[r][s][i].complete
  BY <1>1, <1>3 DEF Content, Messages
<1>4. CASE ~ sends[r][s][i].complete
  <2>1. sends[r][s][i].slot \in Slots
    BY <1>1 DEF Messages
  <2> QED
    BY <1>2, <1>4, <2>1 DEF Content, Cells
<1> QED
  BY <1>3, <1>4

\* Completing a message changes that message only.
LEMMA CompleteSends ==
  ASSUME TypeOK, NEW r \in Ranks, NEW s \in Sides, NEW i \in 1 .. Len(sends[r][s]),
         Complete(r, s, i)
  PROVE  /\ sends' \in [Ranks -> [Sides -> Seq(Messages)]]
         /\ \A q \in Ranks, t \in Sides :
              /\ Len(sends'[q][t]) = Len(sends[q][t])
              /\ <<q, t>> # <<r, s>> => sends'[q][t] = sends[q][t]
         /\ \A j \in 1 .. Len(sends[r][s]) : j # i => sends'[r][s][j] = sends[r][s][j]
         /\ sends'[r][s][i].complete
         /\ sends'[r][s][i].data = Content(r, s, i)
<1> DEFINE m == [sends[r][s][i] EXCEPT !.complete = TRUE, !.data = Content(r, s, i)]
           new == [sends[r][s] EXCEPT ![i] = m]
<1>1. sends[r][s] \in Seq(Messages) /\ sends[r][s][i] \in Messages
  BY DEF TypeOK
<1>2. m \in Messages /\ m.complete /\ m.data = Content(r, s, i)
  BY <1>1, ContentCells DEF Messages
<1>3. /\ new \in Seq(Messages)
      /\ Len(new) = Len(sends[r][s])
      /\ new[i] = m
      /\ \A j \in 1 .. Len(sends[r][s]) : j # i => new[j] = sends[r][s][j]
  BY <1>1, <1>2, ExceptSeq
<1>4. sends' = [sends EXCEPT ![r] = [@ EXCEPT ![s] = new]]
  BY DEF Complete
<1> HIDE DEF new
<1> QED
  BY <1>2, <1>3, <1>4 DEF TypeOK

-----------------------------------------------------------------------------
(* Types.  That dt is a number needs a positive sum of wave speeds, hence   *)
(* the values given to the reductions.                                      *)

Rest == {"loop", "system", "inner", "join", "sides", "update", "check", "thrown", "exit"}

\* An active direction gives a positive wave speed, another one gives 0.
GivenInv ==
  \A r \in Ranks : \A i \in 1 .. Len(speeds[r]) :
    /\ (i - 1) % Directions < Dimensions => speeds[r][i] > 0
    /\ (i - 1) % Directions >= Dimensions => speeds[r][i] = 0

\* A rank leaves a reduction before it enters the next, and three of them
\* make a time step; after the first of them the sum is positive.
TotalInv ==
  \A r \in Ranks :
    /\ pc[r] \in Rest => Len(speeds[r]) % Directions = 0
    /\ pc[r] = "speed" /\ Len(speeds[r]) % Directions # 0 => total[r] > 0
    /\ pc[r] = "allreduce" => Len(speeds[r]) > 0
    /\ pc[r] = "allreduce" /\ Len(speeds[r]) % Directions # 1 => total[r] > 0

\* Receives are posted at sides with a neighbour.
PendingSides == \A r \in Ranks : \A s \in pending[r] : HasSide(r, s)

TypeInv == TypeOK /\ GivenInv /\ TotalInv /\ PendingSides

\* Counting modulo three: what comes before and after.
LEMMA BeforeFirst ==
  ASSUME NEW n \in Nat, n > 0, n % 3 = 1
  PROVE  (n - 1) % 3 = 0
OBVIOUS

\* ... and a number is no multiple if the next is not the first after one.
LEMMA AfterLast ==
  ASSUME NEW n \in Nat, (n + 1) % 3 # 1
  PROVE  n % 3 # 0
OBVIOUS

\* A positive sum gives a time step that is a number.
LEMMA TimestepNat ==
  ASSUME NEW n \in Nat, n > 0
  PROVE  Timestep(n) \in Nat
BY SpeedsAssumption DEF Timestep

\* The types hold at first.
LEMMA TypeInit == Init => TypeInv
<1> SUFFICES ASSUME Init PROVE TypeInv
  OBVIOUS
<1> USE SizesAssumption DEF Init
<1>1. ghost \in [Ranks -> [Slots -> [Sides -> Cells]]]
  BY DEF Cells, Stages, Garbage
<1>2. interior \in [Ranks -> [Slots -> Stages]]
  BY DEF Stages, Garbage
<1>3. sends \in [Ranks -> [Sides -> Seq(Messages)]]
  OBVIOUS
<1>4. speeds \in [Ranks -> Seq(Nat)] /\ clock \in [Ranks -> Seq(Nat)]
  OBVIOUS
<1>5. TypeOK
  BY <1>1, <1>2, <1>3, <1>4 DEF TypeOK
<1>6. \A r \in Ranks : Len(speeds[r]) = 0
  OBVIOUS
<1> QED
  BY <1>5, <1>6 DEF TypeInv, GivenInv, TotalInv, PendingSides, Directions

CombineTypes(r) ==
  /\ interior' \in [Ranks -> [Slots -> Stages]]
  /\ ghost' \in [Ranks -> [Slots -> [Sides -> Cells]]]
  /\ stage' \in [Ranks -> Nat]

\* A volume that a stage has combined is again a volume.
LEMMA CombineTypeOK ==
  ASSUME TypeOK, NEW r \in Ranks, Combine(r)
  PROVE  CombineTypes(r)
<1>1. stage[r] + 1 \in Stages /\ Garbage \in Stages
  BY DEF TypeOK, Stages
<1>2. interior' \in [Ranks -> [Slots -> Stages]]
  BY <1>1, InputOutput DEF TypeOK, Combine
<1>3. [s \in Sides |-> <<r, IF HasSide(r, s) THEN Garbage ELSE stage[r] + 1>>] \in [Sides -> Cells]
  BY <1>1 DEF Cells
<1>4. ghost' \in [Ranks -> [Slots -> [Sides -> Cells]]]
  BY <1>3 DEF TypeOK, Combine
<1> QED
  BY <1>2, <1>4 DEF TypeOK, Combine, CombineTypes

\* Every step preserves the types.
LEMMA TypeStep == TypeInv /\ [Next]_vars => TypeInv'
<1> SUFFICES ASSUME TypeInv, [Next]_vars PROVE TypeInv'
  OBVIOUS
<1> USE SizesAssumption DEF TypeInv, PendingSides, HasSide
<1>1. ASSUME NEW r \in Ranks, Loop(r) PROVE TypeInv'
  BY <1>1 DEF TypeOK, GivenInv, TotalInv, Loop, Goto, mpiVars, reduceVars, Rest
<1>2. ASSUME NEW r \in Ranks, SpawnExchange(r) PROVE TypeInv'
  <2>1. thread' \in [Ranks -> {"none", "post", "wait", "done"}]
    BY <1>2 DEF TypeOK, SpawnExchange
  <2>2. nextSide' \in [Ranks -> 0 .. 2 * Dimensions]
    BY <1>2 DEF TypeOK, SpawnExchange
  <2>3. GivenInv' /\ TotalInv'
    BY <1>2 DEF TypeOK, GivenInv, TotalInv, SpawnExchange, Goto, reduceVars, Rest
  <2> QED
    BY <1>2, <2>1, <2>2, <2>3 DEF TypeOK, SpawnExchange, Goto, reduceVars
<1>3. ASSUME NEW r \in Ranks, InnerFlux(r) PROVE TypeInv'
  BY <1>3 DEF TypeOK, GivenInv, TotalInv, InnerFlux, Goto, mpiVars, reduceVars, Rest
<1>4. ASSUME NEW r \in Ranks, Join(r) PROVE TypeInv'
  BY <1>4 DEF TypeOK, GivenInv, TotalInv, Join, Goto, reduceVars, Rest
<1>5. ASSUME NEW r \in Ranks, SideFlux(r) PROVE TypeInv'
  <2>1. interior' \in [Ranks -> [Slots -> Stages]]
    <3>1. stage[r] + 1 \in Stages /\ Garbage \in Stages
      BY DEF TypeOK, Stages
    <3> QED
      BY <1>5, <3>1 DEF TypeOK, SideFlux
  <2>2. GivenInv' /\ TotalInv'
    BY <1>5 DEF TypeOK, GivenInv, TotalInv, SideFlux, Goto, reduceVars, Rest, Directions
  <2> QED
    BY <1>5, <2>1, <2>2 DEF TypeOK, SideFlux, Goto, mpiVars, reduceVars
<1>6. ASSUME NEW r \in Ranks, EnterAllreduce(r) PROVE TypeInv'
  <2>1. PICK w \in LocalSpeeds(r) : speeds' = [speeds EXCEPT ![r] = Append(@, w)]
    BY <1>6 DEF EnterAllreduce
  <2>2. w \in Nat
    BY <2>1, SpeedsAssumption DEF LocalSpeeds
  <2>3. speeds' \in [Ranks -> Seq(Nat)]
    BY <2>1, <2>2 DEF TypeOK
  <2>4. Len(speeds[r]) % Directions < Dimensions <=> w > 0
    BY <2>1, SpeedsAssumption DEF LocalSpeeds
  <2>5. Len(speeds[r]) % Directions >= Dimensions => w = 0
    BY <2>1, SpeedsAssumption DEF LocalSpeeds, TypeOK, Directions
  <2>6. /\ speeds[r] \in Seq(Nat)
        /\ speeds'[r] = Append(speeds[r], w)
        /\ \A q \in Ranks : q # r => speeds'[q] = speeds[q]
    BY <2>1 DEF TypeOK
  <2>7. GivenInv'
    <3> SUFFICES ASSUME NEW q \in Ranks, NEW i \in 1 .. Len(speeds'[q])
                 PROVE  /\ (i - 1) % Directions < Dimensions => speeds'[q][i] > 0
                        /\ (i - 1) % Directions >= Dimensions => speeds'[q][i] = 0
      BY DEF GivenInv
    <3>1. CASE q = r /\ i = Len(speeds[r]) + 1
      <4>1. speeds'[q][i] = w /\ i - 1 = Len(speeds[r])
        BY <2>2, <2>6, <3>1
      <4> QED
        BY <2>4, <2>5, <4>1
    <3>2. CASE ~ (q = r /\ i = Len(speeds[r]) + 1)
      <4>1. i \in 1 .. Len(speeds[q]) /\ speeds'[q][i] = speeds[q][i]
        <5>1. CASE q # r
          BY <2>6, <5>1
        <5>2. CASE q = r
          BY <2>2, <2>6, <3>2, <5>2
        <5> QED
          BY <5>1, <5>2
      <4> QED
        BY <4>1 DEF GivenInv
    <3> QED
      BY <3>1, <3>2
  <2>8. TotalInv'
    <3>1. /\ pc[r] = "speed" /\ pc' = [pc EXCEPT ![r] = "allreduce"]
          /\ UNCHANGED total
      BY <1>6 DEF EnterAllreduce, Goto
    <3>2. Len(speeds'[r]) = Len(speeds[r]) + 1 /\ Len(speeds[r]) \in Nat
      BY <2>2, <2>6
    <3>3. Len(speeds'[r]) % 3 # 1 => Len(speeds[r]) % 3 # 0
      BY <3>2, AfterLast
    <3>4. \A q \in Ranks : q # r => pc'[q] = pc[q] /\ speeds'[q] = speeds[q]
      BY <2>6, <3>1 DEF TypeOK
    <3>5. pc'[r] = "allreduce" /\ total'[r] = total[r]
      BY <3>1 DEF TypeOK
    <3>6. Len(speeds'[r]) > 0
      BY <3>2
    <3>7. Len(speeds'[r]) % 3 # 1 => total[r] > 0
      BY <3>1, <3>3 DEF TotalInv, Directions
    <3> QED
      BY <3>1, <3>4, <3>5, <3>6, <3>7 DEF TotalInv, Rest, Directions
  <2> QED
    BY <1>6, <2>3, <2>7, <2>8 DEF TypeOK, EnterAllreduce, Goto, mpiVars
<1>7. ASSUME NEW r \in Ranks, LeaveAllreduce(r) PROVE TypeInv'
  <2> DEFINE n == Len(speeds[r])
             last == n % Directions = 0
  <2>1. PICK w \in Given(r) :
          /\ Reduced(r, w)
          /\ total' = [total EXCEPT ![r] = IF last THEN 0 ELSE @ + w]
          /\ dt' = [dt EXCEPT ![r] = IF last THEN Timestep(total[r] + w) ELSE @]
    BY <1>7 DEF LeaveAllreduce
  <2>2. pc[r] = "allreduce" /\ n \in Nat \ {0} /\ total[r] \in Nat
    BY <1>7 DEF TypeOK, TotalInv, LeaveAllreduce, Goto
  <2>3. PICK q \in Ranks : w = speeds[q][n]
    BY DEF Given
  <2>4. n \in 1 .. Len(speeds[q]) /\ w \in Nat
    <3>1. Len(speeds[q]) >= n /\ speeds[q] \in Seq(Nat)
      BY <1>7 DEF TypeOK, LeaveAllreduce, Arrived
    <3> HIDE DEF n
    <3> QED
      BY <2>2, <2>3, <3>1
  <2>5. n % Directions = 1 => w > 0
    <3>1. ASSUME n % Directions = 1 PROVE (n - 1) % Directions = 0
      <4> HIDE DEF n
      <4> QED
        BY <2>2, <3>1, BeforeFirst DEF Directions
    <3>2. (n - 1) % Directions = 0 => speeds[q][n] > 0
      <4>1. (n - 1) % Directions < Dimensions => speeds[q][n] > 0
        BY <2>4 DEF GivenInv
      <4> QED
        BY <4>1
    <3> QED
      BY <2>3, <3>1, <3>2
  <2>6. total[r] + w \in Nat /\ total[r] + w > 0
    BY <2>2, <2>4, <2>5 DEF TotalInv
  <2>7. total' \in [Ranks -> Nat] /\ dt' \in [Ranks -> Nat]
    BY <2>1, <2>6, TimestepNat DEF TypeOK
  <2>8. pc' = [pc EXCEPT ![r] = IF last THEN "update" ELSE "speed"] /\ UNCHANGED speeds
    BY <1>7 DEF LeaveAllreduce, Goto
  <2>9. GivenInv'
    BY <2>8 DEF GivenInv
  <2>10. TotalInv'
    BY <2>1, <2>6, <2>8 DEF TypeOK, TotalInv, Rest
  <2> QED
    BY <1>7, <2>7, <2>8, <2>9, <2>10 DEF TypeOK, LeaveAllreduce, mpiVars
<1>8. ASSUME NEW r \in Ranks, NextSubstep(r) PROVE TypeInv'
  <2>1. Combine(r) => CombineTypes(r)
    BY CombineTypeOK
  <2>2. GivenInv' /\ TotalInv'
    BY <1>8 DEF TypeOK, GivenInv, TotalInv, NextSubstep, Goto, reduceVars, Rest
  <2>3. substep' \in [Ranks -> 0 .. Substeps - 1]
    <3>1. substep[r] + 1 \in 0 .. Substeps - 1 /\ substep \in [Ranks -> 0 .. Substeps - 1]
      BY <1>8 DEF TypeOK, NextSubstep
    <3>2. substep' = [substep EXCEPT ![r] = substep[r] + 1]
      BY <1>8 DEF NextSubstep
    <3> DEFINE substeps == 0 .. Substeps - 1
    <3> HIDE DEF substeps
    <3>3. substep[r] + 1 \in substeps /\ substep \in [Ranks -> substeps]
      BY <3>1 DEF substeps
    <3>4. substep' \in [Ranks -> substeps]
      BY <3>2, <3>3
    <3> QED
      BY <3>4 DEF substeps
  <2> QED
    BY <1>8, <2>1, <2>2, <2>3 DEF TypeOK, CombineTypes, NextSubstep, Goto, reduceVars
<1>9. ASSUME NEW r \in Ranks, FinishStep(r) PROVE TypeInv'
  <2>1. Combine(r) => CombineTypes(r)
    BY CombineTypeOK
  <2>2. GivenInv' /\ TotalInv'
    BY <1>9 DEF TypeOK, GivenInv, TotalInv, FinishStep, Goto, reduceVars, Rest
  <2>3. substep' \in [Ranks -> 0 .. Substeps - 1] /\ front' \in [Ranks -> {0, Substeps}]
    <3>1. front[r] \in {0, Substeps} /\ Substeps - front[r] \in {0, Substeps}
      BY DEF TypeOK
    <3>2. front' \in [Ranks -> {0, Substeps}]
      BY <1>9, <3>1 DEF TypeOK, FinishStep, SwapVolumes
    <3>3. 0 \in 0 .. Substeps - 1
      OBVIOUS
    <3> QED
      BY <1>9, <3>2, <3>3 DEF TypeOK, FinishStep
  <2>4. time' \in [Ranks -> Nat] /\ clock' \in [Ranks -> Seq(Nat)]
    <3> DEFINE t == time[r] + dt[r]
    <3>1. t \in Nat
      BY DEF TypeOK
    <3>2. time' = [time EXCEPT ![r] = t] /\ clock' = [clock EXCEPT ![r] = Append(@, t)]
      BY <1>9 DEF FinishStep
    <3>3. time \in [Ranks -> Nat] /\ clock \in [Ranks -> Seq(Nat)]
      BY DEF TypeOK
    <3> HIDE DEF t
    <3>4. Append(clock[r], t) \in Seq(Nat)
      BY <3>1, <3>3
    <3> QED
      BY <3>1, <3>2, <3>3, <3>4
  <2>5. pc' = [pc EXCEPT ![r] = "check"] /\ CombineTypes(r)
    BY <1>9, <2>1 DEF FinishStep, Goto
  <2>6. UNCHANGED <<dt, thread, nextSide, sends, recvd, pending, speeds, total>>
    BY <1>9 DEF FinishStep, reduceVars
  <2>7. TypeOK'
    BY <2>3, <2>4, <2>5, <2>6 DEF TypeOK, CombineTypes
  <2> QED
    BY <2>2, <2>6, <2>7
<1>10. ASSUME NEW r \in Ranks, CheckPasses(r) \/ CheckThrows(r) PROVE TypeInv'
  <2>1. GivenInv' /\ TotalInv'
    BY <1>10 DEF TypeOK, GivenInv, TotalInv, CheckPasses, CheckThrows, Goto, reduceVars, Rest
  <2>2. TypeOK'
    BY <1>10 DEF TypeOK, CheckPasses, CheckThrows, Goto, mpiVars, reduceVars
  <2> QED
    BY <1>10, <2>1, <2>2 DEF CheckPasses, CheckThrows, mpiVars
<1>11. ASSUME NEW r \in Ranks, PostSide(r) PROVE TypeInv'
  <2>1. nextSide[r] \in Sides
    <3>1. nextSide[r] \in 0 .. 2 * Dimensions /\ nextSide[r] < 2 * Dimensions
      BY <1>11 DEF TypeOK, PostSide
    <3> QED
      BY <3>1 DEF Sides
  <2>2. sends' \in [Ranks -> [Sides -> Seq(Messages)]]
    <3> DEFINE m == [slot |-> Input(r), complete |-> FALSE, data |-> <<r, Garbage>>]
    <3>1. m \in Messages
      BY InputOutput DEF Messages, Cells, Stages
    <3>2. sends \in [Ranks -> [Sides -> Seq(Messages)]]
      BY DEF TypeOK
    <3>3. sends' = IF HasSide(r, nextSide[r])
                   THEN [sends EXCEPT ![r][nextSide[r]] = Append(@, m)] ELSE sends
      BY <1>11 DEF PostSide
    <3> HIDE DEF m
    <3>4. Append(sends[r][nextSide[r]], m) \in Seq(Messages)
      BY <2>1, <3>1, <3>2
    <3> QED
      BY <2>1, <3>2, <3>3, <3>4
  <2>3. pending' \in [Ranks -> SUBSET Sides]
    BY <1>11, <2>1, OppositeSide DEF TypeOK, PostSide
  <2>4. /\ nextSide' \in [Ranks -> 0 .. 2 * Dimensions]
        /\ thread' \in [Ranks -> {"none", "post", "wait", "done"}]
    BY <1>11 DEF TypeOK, PostSide
  <2>5. GivenInv' /\ TotalInv'
    BY <1>11 DEF GivenInv, TotalInv, PostSide, mainVars, reduceVars
  <2>6. PendingSides'
    BY <1>11, <2>1, OppositeSide DEF TypeOK, PostSide
  <2> QED
    BY <1>11, <2>2, <2>3, <2>4, <2>5, <2>6 DEF TypeOK, PostSide, mainVars, reduceVars
<1>12. ASSUME NEW r \in Ranks, WaitForAll(r) PROVE TypeInv'
  BY <1>12 DEF TypeOK, GivenInv, TotalInv, WaitForAll, mainVars, reduceVars
<1>13. ASSUME NEW r \in Ranks, NEW s \in Sides, BufferSend(r, s) PROVE TypeInv'
  <2>1. sends' \in [Ranks -> [Sides -> Seq(Messages)]]
    BY <1>13, CompleteSends DEF BufferSend
  <2>2. GivenInv' /\ TotalInv'
    BY <1>13 DEF GivenInv, TotalInv, BufferSend, mainVars, reduceVars
  <2> QED
    BY <1>13, <2>1, <2>2 DEF TypeOK, BufferSend, mainVars, reduceVars
<1>14. ASSUME NEW r \in Ranks, NEW s \in Sides, Deliver(r, s) PROVE TypeInv'
  <2> DEFINE from == Neighbours[r][s]
             i == recvd[r][s] + 1
  <2>1. i \in 1 .. Len(sends[from][Opposite(s)]) /\ Opposite(s) \in Sides /\ from \in Ranks
    <3>1. from # NoRank
      BY <1>14 DEF Deliver
    <3>2. from \in Ranks /\ recvd[r][s] \in Nat /\ Opposite(s) \in Sides
      BY <3>1, OppositeSide, NeighboursAssumption DEF TypeOK
    <3>3. i <= Len(sends[from][Opposite(s)]) /\ sends[from][Opposite(s)] \in Seq(Messages)
      BY <1>14, <3>2 DEF TypeOK, Deliver
    <3> QED
      BY <3>2, <3>3
  <2>2. sends' \in [Ranks -> [Sides -> Seq(Messages)]]
    BY <1>14, <2>1, CompleteSends DEF Deliver
  <2>3. ghost' \in [Ranks -> [Slots -> [Sides -> Cells]]]
    BY <1>14, <2>1, ContentCells DEF TypeOK, Deliver
  <2>4. recvd' \in [Ranks -> [Sides -> Nat]] /\ pending' \in [Ranks -> SUBSET Sides]
    BY <1>14 DEF TypeOK, Deliver
  <2>5. GivenInv' /\ TotalInv'
    BY <1>14 DEF GivenInv, TotalInv, Deliver, mainVars, reduceVars
  <2> QED
    BY <1>14, <2>2, <2>3, <2>4, <2>5 DEF TypeOK, Deliver, mainVars, reduceVars
<1>15. CASE UNCHANGED vars
  BY <1>15 DEF TypeOK, GivenInv, TotalInv, vars, mainVars, mpiVars, reduceVars
<1>16. CASE Finalize
  BY <1>15, <1>16 DEF Finalize
<1> QED
  BY <1>1, <1>2, <1>3, <1>4, <1>5, <1>6, <1>7, <1>8, <1>9, <1>10, <1>11, <1>12, <1>13,
     <1>14, <1>15, <1>16 DEF Next, Main, Exchange

\* Every variable keeps its type, whatever the ranks, the dimensions and the
\* number of stages are (Simulator.cpp:191).
THEOREM TypeCorrect == Spec => []TypeOK
<1>1. TypeInv => TypeOK
  BY DEF TypeInv
<1> QED
  BY TypeInit, TypeStep, <1>1, PTL DEF Spec

-----------------------------------------------------------------------------
(* The halo exchange: what a step of a rank does to its own part.           *)

\* Different volumes of a step are different memory.
LEMMA VolumeInjective ==
  ASSUME TypeOK, NEW r \in Ranks, NEW j \in Slots, NEW k \in Slots, j # k
  PROVE  Volume(r, j) # Volume(r, k)
<1>1. front[r] \in {0, Substeps} /\ Substeps \in Nat \ {0}
  BY SizesAssumption DEF TypeOK
<1> QED
  BY <1>1 DEF Volume, Slots

\* Everything that the invariant says of a rank, but pc.
SameMemory(r) ==
  /\ thread'[r] = thread[r] /\ nextSide'[r] = nextSide[r] /\ substep'[r] = substep[r]
  /\ front'[r] = front[r] /\ interior'[r] = interior[r] /\ ghost'[r] = ghost[r]
  /\ sends'[r] = sends[r] /\ recvd'[r] = recvd[r] /\ pending'[r] = pending[r]
  /\ stage'[r] = stage[r]

\* Moving between points of the loop that are on the same side of the
\* exchange changes nothing.
LEMMA Move ==
  ASSUME TypeOK, NEW r \in Ranks, RankOK(r), SameMemory(r),
         pc'[r] \in Exchanging <=> pc[r] \in Exchanging,
         pc'[r] \in Exchanged <=> pc[r] \in Exchanged,
         pc'[r] \in {"speed", "allreduce", "update"} => pc[r] \in {"speed", "allreduce", "update"}
  PROVE  RankOK(r)'
<1> USE DEF RankOK, SameMemory
<1>1. /\ \A s : Posted(r, s)' <=> Posted(r, s)
      /\ \A s : Received(r, s)' <=> Received(r, s)
  BY DEF Posted, Received
<1>2. Input(r)' = Input(r) /\ Output(r)' = Output(r) /\ \A k : Volume(r, k)' = Volume(r, k)
  BY DEF Input, Output, Volume
<1>3. ThreadOK(r)'
  BY DEF ThreadOK
<1>4. CountOK(r)'
  BY <1>1 DEF CountOK
<1>5. MessagesOK(r)'
  BY <1>2 DEF MessagesOK
<1>6. PendingOK(r)'
  BY <1>1 DEF PendingOK
<1>7. GhostsOK(r)'
  BY <1>1, <1>2 DEF GhostsOK
<1>8. VolumesOK(r)'
  BY <1>2 DEF VolumesOK, VolumesFresh
<1> QED
  BY <1>3, <1>4, <1>5, <1>6, <1>7, <1>8

\* A spawned exchange has posted nothing.
LEMMA SpawnOK ==
  ASSUME TypeOK, NEW r \in Ranks, RankOK(r), SpawnExchange(r)
  PROVE  RankOK(r)'
<1> USE DEF RankOK
<1>1. /\ pc[r] = "system" /\ pc'[r] = "inner" /\ thread[r] = "none" /\ pending[r] = {}
      /\ thread'[r] = "post" /\ nextSide'[r] = 0
      /\ UNCHANGED <<substep, front, interior, stage, sends, recvd, pending, ghost>>
  BY DEF TypeOK, SpawnExchange, Goto, ThreadOK, PendingOK, Exchanging
<1>2. \A s \in Sides : ~ Posted(r, s) /\ ~ Posted(r, s)' /\ ~ Received(r, s) /\ ~ Received(r, s)'
  <2>1. \A s \in Sides : ~ Posted(r, s) /\ ~ Posted(r, s)'
    BY <1>1 DEF Posted, Exchanged, Exchanging, Sides
  <2> QED
    BY <2>1, OppositeSide DEF Received
<1>3. ThreadOK(r)'
  BY <1>1, SizesAssumption DEF ThreadOK, Exchanging
<1>4. CountOK(r)'
  BY <1>1, <1>2 DEF CountOK
<1>5. MessagesOK(r)'
  BY <1>1 DEF MessagesOK, Input, Volume
<1>6. PendingOK(r)'
  BY <1>1 DEF PendingOK
<1>7. GhostsOK(r)'
  BY <1>1, <1>2 DEF GhostsOK, Input, Volume
<1>8. VolumesOK(r)'
  BY <1>1 DEF VolumesOK, VolumesFresh, Volume
<1> QED
  BY <1>3, <1>4, <1>5, <1>6, <1>7, <1>8

\* A joined exchange has posted everything, and nothing is pending.
LEMMA JoinOK ==
  ASSUME TypeOK, NEW r \in Ranks, RankOK(r), Join(r)
  PROVE  RankOK(r)'
<1> USE DEF RankOK
<1>1. /\ pc[r] = "join" /\ pc'[r] = "sides" /\ thread[r] = "done" /\ thread'[r] = "none"
      /\ pending[r] = {} /\ nextSide[r] = 2 * Dimensions
      /\ UNCHANGED <<nextSide, substep, front, interior, stage, sends, recvd, pending, ghost>>
  BY DEF TypeOK, Join, CanJoin, Goto, ThreadOK, PendingOK
<1>2. \A s \in Sides : Posted(r, s) /\ Posted(r, s)' /\ Received(r, s) /\ Received(r, s)'
  <2>1. \A s \in Sides : Posted(r, s) /\ Posted(r, s)'
    BY <1>1, SizesAssumption DEF Posted, Exchanged, Exchanging, Sides
  <2> QED
    BY <1>1, <2>1, OppositeSide DEF Received
<1>3. ThreadOK(r)'
  BY <1>1 DEF ThreadOK, Exchanging
<1>4. CountOK(r)'
  BY <1>1, <1>2 DEF CountOK
<1>5. MessagesOK(r)'
  BY <1>1 DEF MessagesOK, Input, Volume
<1>6. PendingOK(r)'
  BY <1>1 DEF PendingOK
<1>7. GhostsOK(r)'
  BY <1>1, <1>2 DEF GhostsOK, Input, Volume
<1>8. VolumesOK(r)'
  BY <1>1 DEF VolumesOK, VolumesFresh, Volume
<1> QED
  BY <1>3, <1>4, <1>5, <1>6, <1>7, <1>8

\* After the exchange every ghost cell is right, whatever the neighbours do.
LEMMA ExchangedFresh ==
  ASSUME TypeOK, NEW r \in Ranks, RankOK(r), pc[r] \in Exchanged
  PROVE  GhostsFresh(r) /\ thread[r] = "none" /\ pending[r] = {}
<1>1. thread[r] = "none" /\ pending[r] = {}
  BY DEF TypeOK, RankOK, ThreadOK, PendingOK, Exchanging, Exchanged
<1>2. \A s \in Sides : Received(r, s)
  BY <1>1 DEF Received, Posted
<1> QED
  BY <1>1, <1>2 DEF RankOK, GhostsOK, GhostsFresh

\* So the fluxes are exact; they go to none of the volumes of the step.
LEMMA SideFluxOK ==
  ASSUME TypeOK, NEW r \in Ranks, RankOK(r), SideFlux(r)
  PROVE  RankOK(r)'
<1> USE DEF RankOK
<1>1. /\ pc[r] = "sides" /\ pc'[r] \in {"speed", "update"} /\ thread[r] = "none"
      /\ UNCHANGED <<thread, nextSide, substep, front, stage, sends, recvd, pending, ghost>>
  BY ExchangedFresh DEF TypeOK, SideFlux, Goto, mpiVars, Exchanged
<1>2. GhostsFresh(r)
  BY <1>1, ExchangedFresh DEF Exchanged
<1>3. interior' = [interior EXCEPT ![r][Output(r)] = stage[r] + 1]
  BY <1>2 DEF SideFlux
<1>4. \A s : (Posted(r, s)' <=> Posted(r, s)) /\ (Received(r, s)' <=> Received(r, s))
  BY <1>1 DEF Posted, Received, Exchanged, Exchanging
<1>5. Input(r)' = Input(r) /\ Output(r)' = Output(r) /\ \A k : Volume(r, k)' = Volume(r, k)
  BY <1>1 DEF Input, Output, Volume
<1>6. ThreadOK(r)'
  BY <1>1 DEF ThreadOK, Exchanging
<1>7. CountOK(r)'
  BY <1>1, <1>4 DEF CountOK
<1>8. MessagesOK(r)'
  BY <1>1, <1>5 DEF MessagesOK
<1>9. PendingOK(r)'
  BY <1>1, <1>4 DEF PendingOK
<1>10. GhostsOK(r)'
  BY <1>1, <1>4, <1>5 DEF GhostsOK
<1>11. VolumesOK(r)'
  <2>1. substep[r] \in 0 .. Substeps - 1 /\ Substeps \in Nat
    BY SizesAssumption DEF TypeOK
  <2>2. interior'[r][Output(r)] = stage[r] + 1
    BY <1>3, InputOutput DEF TypeOK
  <2>3. ASSUME NEW k \in 0 .. substep[r]
        PROVE  interior'[r][Volume(r, k)] = interior[r][Volume(r, k)]
    <3>1. k \in Slots /\ substep[r] + 1 \in Slots /\ k # substep[r] + 1
      BY <2>1 DEF Slots
    <3>2. Volume(r, k) # Output(r) /\ Volume(r, k) \in Slots
      BY <3>1, VolumeInjective, VolumeSlot DEF Output
    <3> QED
      BY <1>3, <3>2 DEF TypeOK
  <2>4. VolumesFresh(r)'
    BY <1>1, <1>5, <2>3 DEF VolumesOK, VolumesFresh
  <2> QED
    BY <1>1, <1>5, <2>2, <2>4 DEF VolumesOK
<1> QED
  BY <1>6, <1>7, <1>8, <1>9, <1>10, <1>11

\* The output of a substep is the input of the next, in this step or, after
\* the swap, in the one that follows.
LEMMA NextInput ==
  ASSUME TypeOK, NEW r \in Ranks, NextSubstep(r) \/ FinishStep(r)
  PROVE  Input(r)' = Output(r)
<1>1. /\ substep[r] \in 0 .. Substeps - 1 /\ front[r] \in {0, Substeps}
      /\ Substeps \in Nat \ {0}
  BY SizesAssumption DEF TypeOK
<1>2. CASE NextSubstep(r)
  <2>1. substep'[r] = substep[r] + 1 /\ front' = front
    BY <1>2 DEF TypeOK, NextSubstep
  <2> QED
    BY <2>1 DEF Input, Output, Volume
<1>3. CASE FinishStep(r)
  <2>1. substep'[r] = 0 /\ front'[r] = Substeps - front[r] /\ substep[r] + 1 = Substeps
    BY <1>3 DEF TypeOK, FinishStep, SwapVolumes
  <2> QED
    BY <1>1, <2>1 DEF Input, Output, Volume
<1> QED
  BY <1>2, <1>3

\* A stage ends: the new input is exact and its exchange has not begun.
LEMMA CombineOK ==
  ASSUME TypeOK, NEW r \in Ranks, RankOK(r), NextSubstep(r) \/ FinishStep(r)
  PROVE  RankOK(r)'
<1> USE DEF RankOK
<1>1. /\ pc[r] = "update" /\ pc'[r] \in {"system", "check"} /\ Combine(r)
      /\ UNCHANGED <<thread, nextSide, sends, recvd, pending>>
  BY DEF TypeOK, NextSubstep, FinishStep, Goto
<1>2. thread[r] = "none" /\ pending[r] = {}
  BY <1>1, ExchangedFresh DEF Exchanged
<1>3. \A s : Posted(r, s) /\ ~ Posted(r, s)' /\ Received(r, s) /\ ~ Received(r, s)'
  BY <1>1, <1>2 DEF Posted, Received, Exchanged, Exchanging
<1>4. stage'[r] = stage[r] + 1 /\ stage[r] \in Nat
  BY <1>1 DEF TypeOK, Combine
<1>5. interior' = interior
  <2>1. interior[r][Output(r)] = stage[r] + 1 /\ VolumesFresh(r)
    BY <1>1 DEF VolumesOK
  <2> QED
    BY <1>1, <2>1, InputOutput DEF TypeOK, Combine
<1>6. Input(r)' = Output(r)
  BY NextInput
<1>7. ThreadOK(r)'
  BY <1>1, <1>2 DEF ThreadOK, Exchanging
<1>8. CountOK(r)'
  BY <1>1, <1>3, <1>4 DEF TypeOK, CountOK
<1>9. MessagesOK(r)'
  BY <1>1, <1>2 DEF MessagesOK
<1>10. PendingOK(r)'
  BY <1>1, <1>2 DEF PendingOK
<1>11. GhostsOK(r)'
  <2>1. ghost'[r][Output(r)] =
          [s \in Sides |-> <<r, IF HasSide(r, s) THEN Garbage ELSE stage[r] + 1>>]
    BY <1>1, InputOutput DEF TypeOK, Combine
  <2> QED
    BY <1>3, <1>4, <1>6, <2>1 DEF GhostsOK
<1>12. VolumesOK(r)'
  <2>1. interior[r][Output(r)] = stage[r] + 1 /\ VolumesFresh(r)
    BY <1>1 DEF VolumesOK
  <2>2. substep[r] \in Nat
    BY SizesAssumption DEF TypeOK
  <2>3. CASE NextSubstep(r)
    <3>1. substep'[r] = substep[r] + 1 /\ front' = front
      BY <2>3 DEF TypeOK, NextSubstep
    <3>2. \A k : Volume(r, k)' = Volume(r, k)
      BY <3>1 DEF Volume
    <3>3. ASSUME NEW k \in 0 .. substep[r] + 1
          PROVE  interior[r][Volume(r, k)] = stage[r] - substep[r] + k
      <4>1. CASE k \in 0 .. substep[r]
        BY <2>1, <4>1 DEF VolumesFresh
      <4>2. CASE k = substep[r] + 1
        BY <1>4, <2>1, <2>2, <4>2 DEF Output
      <4> QED
        BY <2>2, <4>1, <4>2
    <3>4. VolumesFresh(r)'
      BY <1>4, <1>5, <2>2, <3>1, <3>2, <3>3 DEF VolumesFresh
    <3> QED
      BY <1>1, <3>4 DEF VolumesOK
  <2>4. CASE FinishStep(r)
    <3>1. substep'[r] = 0
      BY <2>4 DEF TypeOK, FinishStep
    <3>2. Volume(r, 0)' = Output(r)
      BY <1>6, <3>1 DEF Input
    <3>3. VolumesFresh(r)'
      BY <1>4, <1>5, <2>1, <3>1, <3>2 DEF VolumesFresh
    <3> QED
      BY <1>1, <3>3 DEF VolumesOK
  <2> QED
    BY <2>3, <2>4
<1> QED
  BY <1>7, <1>8, <1>9, <1>10, <1>11, <1>12

\* What a channel holds after a message more.
LEMMA Appended ==
  ASSUME NEW q \in Seq(Messages), NEW m
  PROVE  /\ Len(Append(q, m)) = Len(q) + 1
         /\ Append(q, m)[Len(q) + 1] = m
         /\ \A i \in 1 .. Len(q) : Append(q, m)[i] = q[i]
         /\ Len(q) \in Nat
OBVIOUS

\* Posting a side adds this stage's message to its channel.
LEMMA PostSideOK ==
  ASSUME TypeOK, NEW r \in Ranks, RankOK(r), PostSide(r)
  PROVE  RankOK(r)'
<1> USE DEF RankOK
<1> DEFINE side == nextSide[r]
           m == [slot |-> Input(r), complete |-> FALSE, data |-> <<r, Garbage>>]
<1>1. /\ thread[r] = "post" /\ side \in Sides
      /\ UNCHANGED <<pc, substep, front, interior, stage, recvd, ghost>>
  <2>1. side \in 0 .. 2 * Dimensions /\ side < 2 * Dimensions /\ thread[r] = "post"
    BY DEF TypeOK, PostSide
  <2>2. side \in Sides
    BY <2>1, SizesAssumption DEF Sides
  <2>3. UNCHANGED <<pc, substep, front, interior, stage, recvd, ghost>>
    BY DEF PostSide, mainVars
  <2> QED
    BY <2>1, <2>2, <2>3
<1>2. pc[r] \in Exchanging /\ pc[r] \notin Exchanged
  BY <1>1 DEF ThreadOK, Exchanging, Exchanged
<1>3. /\ nextSide'[r] = side + 1
      /\ thread'[r] = IF side + 1 = 2 * Dimensions THEN "wait" ELSE "post"
  BY DEF TypeOK, PostSide
<1>4. \A s \in Sides : Posted(r, s) <=> s < side
  BY <1>2 DEF Posted
<1>5. \A s \in Sides : Posted(r, s)' <=> s < side \/ s = side
  BY <1>1, <1>2, <1>3 DEF Posted, Sides
<1>6. ASSUME NEW s \in Sides
      PROVE  sends'[r][s] = IF s = side /\ HasSide(r, s) THEN Append(sends[r][s], m)
                                                         ELSE sends[r][s]
  BY <1>1 DEF TypeOK, PostSide
<1>7. pending'[r] = IF HasSide(r, Opposite(side)) THEN pending[r] \cup {Opposite(side)}
                                                  ELSE pending[r]
  BY <1>1, OppositeSide DEF TypeOK, PostSide
<1>8. ASSUME NEW s \in Sides
      PROVE  HasSide(r, s) => (Received(r, s)' <=> Received(r, s))
  <2>1. CASE s = Opposite(side)
    <3>1. Opposite(s) = side /\ ~ Posted(r, side)
      BY <1>1, <1>4, <2>1, OppositeSide DEF Sides
    <3> QED
      BY <1>7, <2>1, <3>1 DEF Received
  <2>2. CASE s # Opposite(side)
    <3>1. Opposite(s) \in Sides /\ Opposite(s) # side
      BY <2>2, OppositeSide
    <3>2. s \in pending'[r] <=> s \in pending[r]
      BY <1>7, <2>2
    <3> QED
      BY <1>4, <1>5, <3>1, <3>2 DEF Received
  <2> QED
    BY <2>1, <2>2
<1>9. ThreadOK(r)'
  <2>1. side + 1 = 2 * Dimensions \/ side + 1 < 2 * Dimensions
    BY <1>1, SizesAssumption DEF Sides
  <2> QED
    BY <1>1, <1>2, <1>3, <2>1 DEF ThreadOK
<1>10. CountOK(r)'
  <2> SUFFICES ASSUME NEW s \in Sides
               PROVE  /\ HasSide(r, s) =>
                           /\ Len(sends'[r][s]) = stage[r] + (IF Posted(r, s)' THEN 1 ELSE 0)
                           /\ recvd[r][s] = stage[r] + (IF Received(r, s)' THEN 1 ELSE 0)
                      /\ ~ HasSide(r, s) => sends'[r][s] = << >>
    BY <1>1 DEF CountOK, HasSide
  <2>1. sends[r][s] \in Seq(Messages) /\ stage[r] \in Nat
    BY DEF TypeOK
  <2>2. ~ HasSide(r, s) => sends'[r][s] = << >>
    BY <1>6 DEF CountOK
  <2>3. HasSide(r, s) => Len(sends'[r][s]) = stage[r] + (IF Posted(r, s)' THEN 1 ELSE 0)
    <3>1. CASE s = side
      <4>1. ~ Posted(r, s) /\ Posted(r, s)'
        BY <1>4, <1>5, <3>1 DEF Sides
      <4>2. HasSide(r, s) => Len(sends'[r][s]) = Len(sends[r][s]) + 1
        <5>1. HasSide(r, s) => sends'[r][s] = Append(sends[r][s], m)
          BY <1>6, <3>1
        <5> HIDE DEF m
        <5>2. Len(Append(sends[r][s], m)) = Len(sends[r][s]) + 1
          BY <2>1, Appended
        <5> QED
          BY <5>1, <5>2
      <4>3. HasSide(r, s) => Len(sends[r][s]) = stage[r] + 0
        BY <4>1 DEF CountOK
      <4> QED
        BY <2>1, <4>1, <4>2, <4>3
    <3>2. CASE s # side
      BY <1>4, <1>5, <1>6, <3>2 DEF CountOK
    <3> QED
      BY <3>1, <3>2
  <2> QED
    BY <1>8, <2>2, <2>3 DEF CountOK
<1>11. MessagesOK(r)'
  <2> SUFFICES ASSUME NEW s \in Sides, NEW i \in 1 .. Len(sends'[r][s])
               PROVE  IF sends'[r][s][i].complete
                      THEN sends'[r][s][i].data = <<r, i - 1>>
                      ELSE /\ i = stage[r] + 1
                           /\ sends'[r][s][i].slot = Input(r)
                           /\ thread'[r] \in {"post", "wait"}
    BY <1>1 DEF MessagesOK, Input, Volume
  <2>1. sends[r][s] \in Seq(Messages)
    BY DEF TypeOK
  <2>2. CASE s = side /\ HasSide(r, s) /\ i = Len(sends[r][s]) + 1
    <3>1. sends'[r][s] = Append(sends[r][s], m)
      BY <1>6, <2>2
    <3>2. sends'[r][s][i] = m
      BY <2>1, <2>2, <3>1, Appended
    <3>3. ~ Posted(r, s) /\ stage[r] \in Nat
      BY <1>1, <1>4, <2>2 DEF TypeOK, Sides
    <3>4. i = stage[r] + 1
      BY <2>2, <3>3 DEF CountOK
    <3> QED
      BY <1>3, <3>2, <3>4
  <2>3. CASE ~ (s = side /\ HasSide(r, s) /\ i = Len(sends[r][s]) + 1)
    <3>1. i \in 1 .. Len(sends[r][s]) /\ sends'[r][s][i] = sends[r][s][i]
      <4>1. CASE s = side /\ HasSide(r, s)
        <5>1. sends'[r][s] = Append(sends[r][s], m)
          BY <1>6, <4>1
        <5>2. i \in 1 .. Len(sends[r][s]) + 1 /\ i # Len(sends[r][s]) + 1
          BY <2>1, <2>3, <4>1, <5>1, Appended
        <5>3. i \in 1 .. Len(sends[r][s])
          BY <2>1, <5>2, Appended
        <5> QED
          BY <2>1, <5>1, <5>3, Appended
      <4>2. CASE ~ (s = side /\ HasSide(r, s))
        BY <1>6, <4>2
      <4> QED
        BY <4>1, <4>2
    <3> QED
      BY <1>3, <3>1 DEF MessagesOK
  <2> QED
    BY <2>2, <2>3
<1>12. PendingOK(r)'
  <2>1. \A s \in pending'[r] : Posted(r, Opposite(s))'
    <3> SUFFICES ASSUME NEW s \in pending'[r] PROVE Posted(r, Opposite(s))'
      OBVIOUS
    <3>1. CASE s \in pending[r]
      <4>1. s \in Sides /\ Posted(r, Opposite(s))
        BY <3>1 DEF TypeOK, PendingOK
      <4> QED
        BY <1>4, <1>5, <4>1, OppositeSide
    <3>2. CASE s \notin pending[r]
      <4>1. s = Opposite(side)
        BY <1>7, <3>2
      <4> QED
        BY <1>1, <1>5, <4>1, OppositeSide
    <3> QED
      BY <3>1, <3>2
  <2> QED
    BY <1>3, <2>1 DEF PendingOK
<1>13. GhostsOK(r)'
  BY <1>1, <1>8 DEF GhostsOK, Input, Volume, HasSide
<1>14. VolumesOK(r)'
  BY <1>1 DEF VolumesOK, VolumesFresh, Volume, Output
<1> QED
  BY <1>9, <1>10, <1>11, <1>12, <1>13, <1>14

\* The exchange thread ends when none of its requests is left.
LEMMA WaitForAllOK ==
  ASSUME TypeOK, NEW r \in Ranks, RankOK(r), WaitForAll(r)
  PROVE  RankOK(r)'
<1> USE DEF RankOK
<1>1. /\ thread[r] = "wait" /\ thread'[r] = "done" /\ RequestsDone(r)
      /\ UNCHANGED <<nextSide, sends, recvd, pending, ghost>>
      /\ UNCHANGED <<pc, substep, front, interior, stage>>
  BY DEF TypeOK, WaitForAll, mainVars
<1>2. /\ \A s : Posted(r, s)' <=> Posted(r, s)
      /\ \A s : Received(r, s)' <=> Received(r, s)
  BY <1>1 DEF Posted, Received
<1>3. Input(r)' = Input(r) /\ Output(r)' = Output(r) /\ \A k : Volume(r, k)' = Volume(r, k)
  BY <1>1 DEF Input, Output, Volume
<1>4. ThreadOK(r)'
  BY <1>1 DEF ThreadOK
<1>5. CountOK(r)'
  BY <1>1, <1>2 DEF CountOK
<1>6. MessagesOK(r)'
  BY <1>1 DEF MessagesOK, RequestsDone
<1>7. PendingOK(r)'
  BY <1>1 DEF PendingOK, RequestsDone
<1>8. GhostsOK(r)'
  BY <1>1, <1>2, <1>3 DEF GhostsOK
<1>9. VolumesOK(r)'
  BY <1>1, <1>3 DEF VolumesOK, VolumesFresh
<1> QED
  BY <1>4, <1>5, <1>6, <1>7, <1>8, <1>9

\* A message read now carries the stage that its place in the channel says.
LEMMA ContentStage ==
  ASSUME TypeOK, NEW r \in Ranks, RankOK(r), NEW s \in Sides,
         NEW i \in 1 .. Len(sends[r][s])
  PROVE  Content(r, s, i) = <<r, i - 1>>
<1>1. CASE sends[r][s][i].complete
  BY <1>1 DEF RankOK, MessagesOK, Content
<1>2. CASE ~ sends[r][s][i].complete
  <2>1. i = stage[r] + 1 /\ sends[r][s][i].slot = Input(r)
    BY <1>2 DEF RankOK, MessagesOK
  <2>2. substep[r] \in Nat /\ stage[r] \in Nat
    BY SizesAssumption DEF TypeOK
  <2>3. interior[r][Input(r)] = stage[r]
    BY <2>2 DEF RankOK, VolumesOK, VolumesFresh, Input
  <2> QED
    BY <1>2, <2>1, <2>2, <2>3 DEF Content
<1> QED
  BY <1>1, <1>2

\* Completing a send of r concerns the messages of r only.
LEMMA CompleteOK ==
  ASSUME TypeOK, NEW r \in Ranks, RankOK(r), NEW s \in Sides,
         NEW i \in 1 .. Len(sends[r][s]), Complete(r, s, i),
         UNCHANGED <<pc, thread, nextSide, substep, front, stage>>
  PROVE  MessagesOK(r)'
<1> SUFFICES ASSUME NEW t \in Sides, NEW j \in 1 .. Len(sends'[r][t])
             PROVE  IF sends'[r][t][j].complete
                    THEN sends'[r][t][j].data = <<r, j - 1>>
                    ELSE /\ j = stage[r] + 1
                         /\ sends'[r][t][j].slot = Input(r)
                         /\ thread[r] \in {"post", "wait"}
  BY DEF MessagesOK, Input, Volume
<1>1. j \in 1 .. Len(sends[r][t])
  BY CompleteSends
<1>2. CASE t = s /\ j = i
  BY <1>2, CompleteSends, ContentStage
<1>3. CASE ~ (t = s /\ j = i)
  <2>1. sends'[r][t][j] = sends[r][t][j]
    BY <1>1, <1>3, CompleteSends
  <2> QED
    BY <1>1, <2>1 DEF RankOK, MessagesOK
<1> QED
  BY <1>2, <1>3

\* A send may complete early: nothing else of its rank changes.
LEMMA BufferSendOK ==
  ASSUME TypeOK, NEW r \in Ranks, RankOK(r), NEW s \in Sides, BufferSend(r, s)
  PROVE  /\ RankOK(r)'
         /\ \A q \in Ranks, t \in Sides : Len(sends'[q][t]) = Len(sends[q][t])
<1>1. PICK i \in 1 .. Len(sends[r][s]) : Complete(r, s, i)
  BY DEF BufferSend
<1>2. UNCHANGED <<pc, thread, nextSide, substep, front, interior, stage, recvd, pending, ghost>>
  BY DEF BufferSend, mainVars
<1>3. \A q \in Ranks, t \in Sides : Len(sends'[q][t]) = Len(sends[q][t])
  BY <1>1, CompleteSends
<1>4. MessagesOK(r)'
  BY <1>1, <1>2, CompleteOK
<1>5. ThreadOK(r)'
  BY <1>2 DEF RankOK, ThreadOK
<1>6. CountOK(r)'
  <2>1. ASSUME NEW t \in Sides, sends[r][t] = << >> PROVE sends'[r][t] = << >>
    <3>1. sends' \in [Ranks -> [Sides -> Seq(Messages)]]
      BY <1>1, CompleteSends
    <3>2. Len(sends'[r][t]) = 0
      BY <1>3, <2>1
    <3> QED
      BY <3>1, <3>2
  <2> QED
    BY <1>2, <1>3, <2>1 DEF RankOK, CountOK, Posted, Received, HasSide
<1>7. PendingOK(r)'
  BY <1>2 DEF RankOK, PendingOK, Posted
<1>8. GhostsOK(r)'
  BY <1>2 DEF RankOK, GhostsOK, Received, Posted, Input, Volume, HasSide
<1>9. VolumesOK(r)'
  BY <1>2 DEF RankOK, VolumesOK, VolumesFresh, Volume, Output
<1> QED
  BY <1>3, <1>4, <1>5, <1>6, <1>7, <1>8, <1>9 DEF RankOK

\* Sender and message of a delivery.
LEMMA Delivered ==
  ASSUME TypeInv, NEW r \in Ranks, NEW s \in Sides, Deliver(r, s)
  PROVE  /\ HasSide(r, s) /\ Neighbours[r][s] \in Ranks /\ Opposite(s) \in Sides
         /\ recvd[r][s] + 1 \in 1 .. Len(sends[Neighbours[r][s]][Opposite(s)])
<1>1. HasSide(r, s)
  BY DEF TypeInv, PendingSides, Deliver
<1>2. Neighbours[r][s] \in Ranks /\ Opposite(s) \in Sides
  BY <1>1, OppositeSide, NeighboursAssumption DEF HasSide
<1>3. recvd[r][s] \in Nat /\ sends[Neighbours[r][s]][Opposite(s)] \in Seq(Messages)
  BY <1>2 DEF TypeInv, TypeOK
<1>4. recvd[r][s] + 1 <= Len(sends[Neighbours[r][s]][Opposite(s)])
  BY DEF Deliver
<1> QED
  BY <1>1, <1>2, <1>3, <1>4

\* A delivery fills the ghost cells of one side with the neighbour's cells of
\* the stage that the receiver is at, and completes the sender's message.
LEMMA DeliverOK ==
  ASSUME TypeInv, NEW r \in Ranks, \A q \in Ranks : RankOK(q), NEW s \in Sides, Deliver(r, s),
         NEW q \in Ranks
  PROVE  RankOK(q)'
<1> USE DEF TypeInv
<1> DEFINE from == Neighbours[r][s]
           opp  == Opposite(s)
           i    == recvd[r][s] + 1
<1>1. /\ HasSide(r, s) /\ from \in Ranks /\ opp \in Sides
      /\ i \in 1 .. Len(sends[from][opp])
  BY Delivered
<1>2. /\ UNCHANGED <<pc, thread, nextSide, substep, front, interior, stage>>
      /\ Complete(from, opp, i) /\ s \in pending[r]
      /\ recvd' = [recvd EXCEPT ![r][s] = i]
      /\ pending' = [pending EXCEPT ![r] = @ \ {s}]
  BY DEF Deliver, mainVars
<1>3. Content(from, opp, i) = <<from, i - 1>>
  BY <1>1, ContentStage
<1>4. ghost' = [ghost EXCEPT ![r][Input(r)][s] = <<from, i - 1>>]
  BY <1>3 DEF Deliver
<1>5. \A p \in Ranks, t \in Sides : Len(sends'[p][t]) = Len(sends[p][t])
  BY <1>1, <1>2, CompleteSends
<1>6. Posted(r, opp) /\ ~ Received(r, s) /\ thread[r] \in {"post", "wait"}
  BY <1>2 DEF RankOK, PendingOK, Received
<1>7. recvd[r][s] = stage[r] /\ stage[r] \in Nat
  BY <1>1, <1>6 DEF RankOK, CountOK, TypeOK
<1>8. \A t : Posted(q, t)' <=> Posted(q, t)
  BY <1>2 DEF Posted
<1>9. \A t \in Sides :
        Received(q, t)' <=> Received(q, t) \/ (q = r /\ t = s)
  BY <1>2, <1>6, <1>8 DEF Received, TypeOK
<1>10. ThreadOK(q)'
  BY <1>2 DEF RankOK, ThreadOK
<1>11. MessagesOK(q)'
  <2>1. CASE q = from
    BY <1>1, <1>2, <2>1, CompleteOK
  <2>2. CASE q # from
    <3>1. \A t \in Sides : sends'[q][t] = sends[q][t]
      BY <1>1, <1>2, <2>2, CompleteSends
    <3> QED
      BY <1>2, <3>1 DEF RankOK, MessagesOK, Input, Volume
  <2> QED
    BY <2>1, <2>2
<1>12. CountOK(q)'
  <2> SUFFICES ASSUME NEW t \in Sides
               PROVE  /\ HasSide(q, t) =>
                           /\ Len(sends'[q][t]) = stage[q] + (IF Posted(q, t)' THEN 1 ELSE 0)
                           /\ recvd'[q][t] = stage[q] + (IF Received(q, t)' THEN 1 ELSE 0)
                      /\ ~ HasSide(q, t) => sends'[q][t] = << >>
    BY <1>2 DEF CountOK, HasSide
  <2>1. HasSide(q, t) => Len(sends'[q][t]) = stage[q] + (IF Posted(q, t)' THEN 1 ELSE 0)
    BY <1>5, <1>8 DEF RankOK, CountOK
  <2>2. HasSide(q, t) => recvd'[q][t] = stage[q] + (IF Received(q, t)' THEN 1 ELSE 0)
    <3>1. CASE q = r /\ t = s
      BY <1>2, <1>7, <1>9, <3>1 DEF TypeOK
    <3>2. CASE ~ (q = r /\ t = s)
      <4>1. recvd'[q][t] = recvd[q][t]
        BY <1>2, <3>2 DEF TypeOK
      <4> QED
        BY <1>9, <3>2, <4>1 DEF RankOK, CountOK
    <3> QED
      BY <3>1, <3>2
  <2>3. ~ HasSide(q, t) => sends'[q][t] = << >>
    <3>1. sends' \in [Ranks -> [Sides -> Seq(Messages)]]
      BY <1>1, <1>2, CompleteSends
    <3>2. ~ HasSide(q, t) => sends[q][t] = << >>
      BY DEF RankOK, CountOK
    <3> QED
      BY <1>5, <3>1, <3>2
  <2> QED
    BY <2>1, <2>2, <2>3
<1>13. PendingOK(q)'
  BY <1>2, <1>8 DEF RankOK, PendingOK, TypeOK
<1>14. GhostsOK(q)'
  <2> SUFFICES ASSUME NEW t \in Sides
               PROVE  /\ ~ HasSide(q, t) => ghost'[q][Input(q)][t] = <<q, stage[q]>>
                      /\ HasSide(q, t) /\ Received(q, t)' =>
                           ghost'[q][Input(q)][t] = <<Neighbours[q][t], stage[q]>>
    <3>1. Input(q)' = Input(q) /\ stage' = stage
      BY <1>2 DEF Input, Volume
    <3>2. \A t : HasSide(q, t)' <=> HasSide(q, t)
      BY DEF HasSide
    <3> QED
      BY <3>1, <3>2 DEF GhostsOK
  <2>1. CASE q = r /\ t = s
    <3>1. ghost'[r][Input(r)][s] = <<from, i - 1>>
      <4>1. ghost \in [Ranks -> [Slots -> [Sides -> Cells]]] /\ Input(r) \in Slots
        BY InputOutput DEF TypeOK
      <4> HIDE DEF TypeInv, from, i
      <4> QED
        BY <1>4, <4>1
    <3>2. i - 1 = stage[r]
      BY <1>7
    <3> QED
      BY <1>1, <2>1, <3>1, <3>2
  <2>2. CASE ~ (q = r /\ t = s)
    <3>1. ghost'[q][Input(q)][t] = ghost[q][Input(q)][t]
      BY <1>4, <2>2, InputOutput DEF TypeOK
    <3> QED
      BY <1>9, <2>2, <3>1 DEF RankOK, GhostsOK
  <2> QED
    BY <2>1, <2>2
<1>15. VolumesOK(q)'
  BY <1>2 DEF RankOK, VolumesOK, VolumesFresh, Volume, Output
<1> QED
  BY <1>10, <1>11, <1>12, <1>13, <1>14, <1>15 DEF RankOK

-----------------------------------------------------------------------------
(* The invariant of all ranks, and the theorems.                            *)

\* At first no exchange is under way and every volume is exact.
LEMMA HaloInit == Init => HaloInv
<1> SUFFICES ASSUME Init PROVE HaloInv
  OBVIOUS
<1>1. ASSUME NEW r \in Ranks PROVE RankOK(r)
  <2>1. /\ pc[r] = "loop" /\ thread[r] = "none" /\ substep[r] = 0 /\ front[r] = 0
        /\ stage[r] = 0 /\ pending[r] = {}
        /\ \A s \in Sides : sends[r][s] = << >> /\ recvd[r][s] = 0
    BY DEF Init
  <2>2. Input(r) = 0 /\ Volume(r, 0) = 0 /\ 0 \in Slots
    BY <2>1, SizesAssumption DEF Input, Volume, Slots
  <2>3. interior[r][0] = 0 /\ \A s \in Sides : ~ HasSide(r, s) => ghost[r][0][s] = <<r, 0>>
    BY <2>2 DEF Init
  <2>4. \A s : ~ Posted(r, s) /\ ~ Received(r, s)
    BY <2>1 DEF Posted, Received, Exchanged, Exchanging
  <2>5. ThreadOK(r) /\ PendingOK(r)
    BY <2>1 DEF ThreadOK, PendingOK, Exchanging
  <2>6. CountOK(r) /\ MessagesOK(r)
    BY <2>1, <2>4 DEF CountOK, MessagesOK
  <2>7. GhostsOK(r) /\ VolumesOK(r)
    BY <2>1, <2>2, <2>3, <2>4 DEF GhostsOK, VolumesOK, VolumesFresh
  <2> QED
    BY <2>5, <2>6, <2>7 DEF RankOK
<1>2. ChannelInv
  <2> SUFFICES ASSUME NEW r \in Ranks, NEW s \in Sides, HasSide(r, s)
               PROVE  recvd[r][s] <= Len(sends[Neighbours[r][s]][Opposite(s)])
    BY DEF ChannelInv
  <2>1. Neighbours[r][s] \in Ranks /\ Opposite(s) \in Sides
    BY NeighboursAssumption, OppositeSide DEF HasSide
  <2> QED
    BY <2>1 DEF Init
<1> QED
  BY <1>1, <1>2 DEF HaloInv

\* Receives stay behind sends when no channel shrinks and none is received.
LEMMA ChannelGrows ==
  ASSUME TypeOK, ChannelInv, recvd' = recvd,
         \A q \in Ranks, t \in Sides : Len(sends'[q][t]) \in Nat /\ Len(sends'[q][t]) >= Len(sends[q][t])
  PROVE  ChannelInv'
<1> SUFFICES ASSUME NEW r \in Ranks, NEW s \in Sides, HasSide(r, s)
             PROVE  recvd[r][s] <= Len(sends'[Neighbours[r][s]][Opposite(s)])
  BY DEF ChannelInv, HasSide
<1> DEFINE from == Neighbours[r][s]
           opp  == Opposite(s)
<1>1. from \in Ranks /\ opp \in Sides
  BY NeighboursAssumption, OppositeSide DEF HasSide
<1>2. recvd[r][s] \in Nat /\ Len(sends[from][opp]) \in Nat
  BY <1>1 DEF TypeOK
<1>3. recvd[r][s] <= Len(sends[from][opp])
  BY DEF ChannelInv
<1>4. Len(sends'[from][opp]) \in Nat /\ Len(sends'[from][opp]) >= Len(sends[from][opp])
  BY <1>1
<1> HIDE DEF from, opp
<1>5. recvd[r][s] <= Len(sends'[from][opp])
  BY <1>2, <1>3, <1>4
<1> QED
  BY <1>5 DEF from, opp

\* A step of one rank leaves the others as they are.
LEMMA OthersMove ==
  ASSUME TypeOK, NEW q \in Ranks, RankOK(q), SameMemory(q), pc'[q] = pc[q]
  PROVE  RankOK(q)'
BY Move

\* A step of the main thread or of the exchange thread of rank r, which does
\* not receive: the invariant of r is the lemma of that action, given here.
LEMMA LocalStep ==
  ASSUME TypeInv, TypeOK', HaloInv, NEW r \in Ranks, RankOK(r)', recvd' = recvd,
         \A q \in Ranks : q # r => SameMemory(q) /\ pc'[q] = pc[q],
         \A t \in Sides : Len(sends'[r][t]) >= Len(sends[r][t])
  PROVE  HaloInv'
<1>1. \A q \in Ranks : RankOK(q)'
  BY OthersMove DEF TypeInv, HaloInv
<1>2. \A q \in Ranks, t \in Sides : Len(sends[q][t]) \in Nat /\ Len(sends'[q][t]) \in Nat
  <2>1. /\ sends \in [Ranks -> [Sides -> Seq(Messages)]]
        /\ sends' \in [Ranks -> [Sides -> Seq(Messages)]]
    BY DEF TypeInv, TypeOK
  <2> QED
    BY <2>1
<1>3. \A q \in Ranks, t \in Sides : Len(sends'[q][t]) >= Len(sends[q][t])
  <2> SUFFICES ASSUME NEW q \in Ranks, NEW t \in Sides
               PROVE  Len(sends'[q][t]) >= Len(sends[q][t])
    OBVIOUS
  <2>1. CASE q = r
    BY <2>1
  <2>2. CASE q # r
    BY <1>2, <2>2 DEF SameMemory
  <2> QED
    BY <2>1, <2>2
<1>4. ChannelInv'
  BY <1>2, <1>3, ChannelGrows DEF TypeInv, HaloInv
<1> QED
  BY <1>1, <1>4 DEF HaloInv

\* The steps of a main thread.
LEMMA MainOK ==
  ASSUME TypeInv, TypeOK', HaloInv, NEW r \in Ranks, Main(r)
  PROVE  HaloInv'
<1> USE DEF TypeInv
<1>1. RankOK(r)
  BY DEF HaloInv
<1> DEFINE Still == UNCHANGED <<thread, nextSide, substep, front, interior, ghost, sends,
                                recvd, pending, stage>>
<1>2. Still => SameMemory(r)
  BY DEF SameMemory
<1>3. RankOK(r)'
  <2>1. CASE Loop(r)
    <3>1. Still /\ pc[r] = "loop" /\ pc'[r] \in {"exit", "system"}
      BY <2>1 DEF TypeOK, Loop, Goto, mpiVars
    <3> QED
      BY <1>1, <1>2, <3>1, Move DEF Exchanging, Exchanged
  <2>2. CASE InnerFlux(r)
    <3>1. Still /\ pc[r] = "inner" /\ pc'[r] = "join"
      BY <2>2 DEF TypeOK, InnerFlux, Goto, mpiVars
    <3> QED
      BY <1>1, <1>2, <3>1, Move DEF Exchanging, Exchanged
  <2>3. CASE EnterAllreduce(r)
    <3>1. Still /\ pc[r] = "speed" /\ pc'[r] = "allreduce"
      BY <2>3 DEF TypeOK, EnterAllreduce, Goto, mpiVars
    <3> QED
      BY <1>1, <1>2, <3>1, Move DEF Exchanging, Exchanged
  <2>4. CASE LeaveAllreduce(r)
    <3>1. Still /\ pc[r] = "allreduce" /\ pc'[r] \in {"speed", "update"}
      BY <2>4 DEF TypeOK, LeaveAllreduce, Goto, mpiVars
    <3> QED
      BY <1>1, <1>2, <3>1, Move DEF Exchanging, Exchanged
  <2>5. CASE CheckPasses(r) \/ CheckThrows(r)
    <3>1. Still /\ pc[r] = "check" /\ pc'[r] \in {"loop", "thrown"}
      BY <2>5 DEF TypeOK, CheckPasses, CheckThrows, Goto, mpiVars
    <3> QED
      BY <1>1, <1>2, <3>1, Move DEF Exchanging, Exchanged
  <2> QED
    BY <1>1, <2>1, <2>2, <2>3, <2>4, <2>5, SpawnOK, JoinOK, SideFluxOK, CombineOK DEF Main
<1>4. \A q \in Ranks : q # r => SameMemory(q) /\ pc'[q] = pc[q]
  <2> SUFFICES ASSUME NEW q \in Ranks, q # r PROVE SameMemory(q) /\ pc'[q] = pc[q]
    OBVIOUS
  <2>1. CASE Loop(r) \/ InnerFlux(r) \/ CheckPasses(r) \/ CheckThrows(r)
    BY <2>1 DEF TypeOK, SameMemory, Loop, InnerFlux, CheckPasses, CheckThrows, Goto, mpiVars
  <2>2. CASE SpawnExchange(r) \/ Join(r)
    BY <2>2 DEF TypeOK, SameMemory, SpawnExchange, Join, Goto
  <2>3. CASE EnterAllreduce(r) \/ LeaveAllreduce(r)
    BY <2>3 DEF TypeOK, SameMemory, EnterAllreduce, LeaveAllreduce, Goto, mpiVars
  <2>4. CASE SideFlux(r)
    BY <2>4 DEF TypeOK, SameMemory, SideFlux, Goto, mpiVars
  <2>5. CASE NextSubstep(r)
    BY <2>5 DEF TypeOK, SameMemory, NextSubstep, Combine, Goto
  <2>6. CASE FinishStep(r)
    <3>1. UNCHANGED <<thread, nextSide, sends, recvd, pending>>
      BY <2>6 DEF FinishStep
    <3>2. /\ pc'[q] = pc[q] /\ substep'[q] = substep[q] /\ front'[q] = front[q]
          /\ interior'[q] = interior[q] /\ ghost'[q] = ghost[q] /\ stage'[q] = stage[q]
      BY <2>6 DEF TypeOK, FinishStep, Combine, SwapVolumes, Goto
    <3> QED
      BY <3>1, <3>2 DEF SameMemory
  <2> QED
    BY <2>1, <2>2, <2>3, <2>4, <2>5, <2>6 DEF Main
<1>5. recvd' = recvd /\ sends' = sends
  BY DEF Main, Loop, SpawnExchange, InnerFlux, Join, SideFlux, EnterAllreduce, LeaveAllreduce,
     NextSubstep, FinishStep, CheckPasses, CheckThrows, mpiVars
<1>6. \A t \in Sides : Len(sends'[r][t]) >= Len(sends[r][t])
  BY <1>5 DEF TypeOK
<1> QED
  BY <1>3, <1>4, <1>5, <1>6, LocalStep

\* The steps of an exchange thread.
LEMMA ExchangeOK ==
  ASSUME TypeInv, TypeOK', HaloInv, NEW r \in Ranks, Exchange(r)
  PROVE  HaloInv'
<1> USE DEF TypeInv
<1>1. RankOK(r)'
  BY PostSideOK, WaitForAllOK DEF HaloInv, Exchange
<1>2. \A q \in Ranks : q # r => SameMemory(q) /\ pc'[q] = pc[q]
  <2>1. CASE PostSide(r)
    BY <2>1 DEF TypeOK, SameMemory, PostSide, mainVars
  <2>2. CASE WaitForAll(r)
    BY <2>2 DEF TypeOK, SameMemory, WaitForAll, mainVars
  <2> QED
    BY <2>1, <2>2 DEF Exchange
<1>3. recvd' = recvd
  BY DEF Exchange, PostSide, WaitForAll
<1>4. ASSUME NEW t \in Sides PROVE Len(sends'[r][t]) >= Len(sends[r][t])
  <2> DEFINE m == [slot |-> Input(r), complete |-> FALSE, data |-> <<r, Garbage>>]
  <2>1. sends[r][t] \in Seq(Messages)
    BY DEF TypeOK
  <2>2. sends'[r][t] = sends[r][t] \/ sends'[r][t] = Append(sends[r][t], m)
    <3>1. CASE PostSide(r)
      <4>1. sends \in [Ranks -> [Sides -> Seq(Messages)]]
        BY DEF TypeOK
      <4>2. sends' = sends \/ sends' = [sends EXCEPT ![r][nextSide[r]] = Append(@, m)]
        BY <3>1 DEF PostSide
      <4> HIDE DEF m
      <4> QED
        BY <4>1, <4>2
    <3>2. CASE WaitForAll(r)
      BY <3>2 DEF WaitForAll
    <3> QED
      BY <3>1, <3>2 DEF Exchange
  <2> HIDE DEF m
  <2> QED
    BY <2>1, <2>2, Appended
<1> QED
  BY <1>1, <1>2, <1>3, <1>4, LocalStep

\* The steps of the MPI library.
LEMMA LibraryOK ==
  ASSUME TypeInv, TypeOK', HaloInv, NEW r \in Ranks, NEW s \in Sides,
         BufferSend(r, s) \/ Deliver(r, s)
  PROVE  HaloInv'
<1> USE DEF TypeInv
<1>1. CASE BufferSend(r, s)
  <2>1. RankOK(r)' /\ \A q \in Ranks, t \in Sides : Len(sends'[q][t]) = Len(sends[q][t])
    BY <1>1, BufferSendOK DEF HaloInv
  <2>2. \A q \in Ranks : q # r => SameMemory(q) /\ pc'[q] = pc[q]
    <3>1. PICK i \in 1 .. Len(sends[r][s]) : Complete(r, s, i)
      BY <1>1 DEF BufferSend
    <3>2. \A q \in Ranks : q # r => sends'[q] = sends[q]
      BY <3>1 DEF TypeOK, Complete
    <3> QED
      BY <1>1, <3>2 DEF SameMemory, BufferSend, mainVars
  <2>3. \A t \in Sides : Len(sends'[r][t]) >= Len(sends[r][t])
    <3>1. sends \in [Ranks -> [Sides -> Seq(Messages)]]
      BY DEF TypeOK
    <3> QED
      BY <2>1, <3>1
  <2> QED
    BY <1>1, <2>1, <2>2, <2>3, LocalStep DEF BufferSend
<1>2. CASE Deliver(r, s)
  <2>1. \A q \in Ranks : RankOK(q)'
    BY <1>2, DeliverOK DEF HaloInv
  <2>2. ChannelInv'
    <3> SUFFICES ASSUME NEW q \in Ranks, NEW t \in Sides, HasSide(q, t)
                 PROVE  recvd'[q][t] <= Len(sends'[Neighbours[q][t]][Opposite(t)])
      BY DEF ChannelInv, HasSide
    <3>1. Neighbours[q][t] \in Ranks /\ Opposite(t) \in Sides
      BY NeighboursAssumption, OppositeSide DEF HasSide
    <3>2. \A p \in Ranks, u \in Sides : Len(sends'[p][u]) = Len(sends[p][u])
      <4>1. Complete(Neighbours[r][s], Opposite(s), recvd[r][s] + 1)
        BY <1>2 DEF Deliver
      <4> QED
        BY <1>2, <4>1, Delivered, CompleteSends
    <3>3. CASE q = r /\ t = s
      <4>1. recvd'[r][s] = recvd[r][s] + 1
        BY <1>2 DEF TypeOK, Deliver
      <4>2. recvd[r][s] + 1 <= Len(sends[Neighbours[r][s]][Opposite(s)])
        BY <1>2 DEF Deliver
      <4> QED
        BY <3>1, <3>2, <3>3, <4>1, <4>2
    <3>4. CASE ~ (q = r /\ t = s)
      <4>1. recvd'[q][t] = recvd[q][t]
        BY <1>2, <3>4 DEF TypeOK, Deliver
      <4> QED
        BY <3>1, <3>2, <4>1 DEF HaloInv, ChannelInv
    <3> QED
      BY <3>3, <3>4
  <2> QED
    BY <2>1, <2>2 DEF HaloInv
<1> QED
  BY <1>1, <1>2

Invariant == TypeInv /\ HaloInv

\* Every step preserves the invariant, be it one of a main thread, of an
\* exchange thread or of the MPI library.
LEMMA InvariantStep == Invariant /\ [Next]_vars => Invariant'
<1> SUFFICES ASSUME Invariant, [Next]_vars PROVE Invariant'
  OBVIOUS
<1> USE DEF Invariant
<1>1. TypeInv' /\ TypeOK'
  BY TypeStep DEF TypeInv
<1>2. CASE \E r \in Ranks : Main(r) \/ Exchange(r)
  BY <1>1, <1>2, MainOK, ExchangeOK
<1>3. CASE \E r \in Ranks, s \in Sides : BufferSend(r, s) \/ Deliver(r, s)
  BY <1>1, <1>3, LibraryOK
<1>4. CASE UNCHANGED vars
  <2>1. ChannelInv'
    BY <1>4 DEF HaloInv, ChannelInv, HasSide, vars, mpiVars
  <2>2. \A r \in Ranks : RankOK(r)'
    BY <1>4, OthersMove DEF TypeInv, HaloInv, SameMemory, vars, mainVars, mpiVars
  <2> QED
    BY <1>1, <2>1, <2>2 DEF HaloInv
<1>5. CASE Finalize
  BY <1>4, <1>5 DEF Finalize
<1> QED
  BY <1>2, <1>3, <1>4, <1>5 DEF Next

\* So it holds in every state.
LEMMA InvariantHolds == Spec => []Invariant
<1>1. Init => Invariant
  BY TypeInit, HaloInit DEF Invariant
<1> QED
  BY <1>1, InvariantStep, PTL DEF Spec

\* However the ranks, their threads and the messages interleave, no stage of
\* any rank is computed from a wrong ghost cell or a wrong volume: decomposed
\* runs of any size compute what one rank would (ConservedSystem.cpp:31).
THEOREM HaloNeverStale == Spec => []NoStaleHalo
<1>1. Invariant => NoStaleHalo
  <2> SUFFICES ASSUME Invariant, NEW r \in Ranks, substep[r] = 0
               PROVE  interior[r][Volume(r, 0)] = stage[r]
    BY DEF NoStaleHalo
  <2>1. VolumesFresh(r) /\ stage[r] \in Nat
    BY DEF Invariant, HaloInv, RankOK, VolumesOK, TypeInv, TypeOK
  <2> QED
    BY <2>1 DEF VolumesFresh
<1> QED
  BY <1>1, InvariantHolds, PTL

\* The strips along the sides are computed from the neighbours' cells of the
\* very stage under way (ConservedSystem.cpp:63).
THEOREM GhostsFreshAtSides == Spec => []SidesReadFreshGhosts
<1>1. Invariant => SidesReadFreshGhosts
  BY ExchangedFresh DEF Invariant, HaloInv, TypeInv, SidesReadFreshGhosts, Exchanged
<1> QED
  BY <1>1, InvariantHolds, PTL

\* A rank's exchange thread and main thread are never in MPI together.
THEOREM NoConcurrentMPI == Spec => []MPISerialized
<1>1. Invariant => MPISerialized
  BY ExchangedFresh DEF Invariant, HaloInv, TypeInv, MPISerialized, Exchanged
<1> QED
  BY <1>1, InvariantHolds, PTL

\* The stages a and b of two neighbours, and what both sent and received.
LEMMA AtMostTwo ==
  ASSUME NEW a \in Nat, NEW b \in Nat, NEW sentA \in Nat, NEW sentB \in Nat,
         NEW gotA \in Nat, NEW gotB \in Nat,
         gotB <= sentA, gotA <= sentB, sentA <= a + 1, sentB <= b + 1, gotA >= a, gotB >= b
  PROVE  sentA - gotB \in 0 .. 2
OBVIOUS

\* No channel holds more than two messages: a rank is at most one stage ahead
\* of a neighbour, whatever the reductions do.
THEOREM ChannelsBounded == Spec => []ChannelBounded
<1>1. Invariant => ChannelBounded
  <2> SUFFICES ASSUME Invariant, NEW r \in Ranks, NEW s \in Sides, HasSide(r, s)
               PROVE  Len(sends[r][s]) - recvd[Neighbours[r][s]][Opposite(s)] \in 0 .. 2
    BY DEF ChannelBounded
  <2> DEFINE n == Neighbours[r][s]
             o == Opposite(s)
  <2>1. n \in Ranks /\ o \in Sides /\ Opposite(o) = s
    BY NeighboursAssumption, OppositeSide DEF HasSide
  <2>2. Neighbours[n][o] = r
    BY NeighboursAssumption DEF HasSide
  <2>3. HasSide(n, o)
    BY <2>2, SizesAssumption DEF HasSide, NoRank
  <2>4. recvd[n][o] <= Len(sends[r][s]) /\ recvd[r][s] <= Len(sends[n][o])
    BY <2>1, <2>2, <2>3 DEF Invariant, HaloInv, ChannelInv
  <2>5. /\ stage[r] \in Nat /\ stage[n] \in Nat /\ recvd[r][s] \in Nat /\ recvd[n][o] \in Nat
        /\ Len(sends[r][s]) \in Nat /\ Len(sends[n][o]) \in Nat
    <3>1. /\ stage \in [Ranks -> Nat] /\ recvd \in [Ranks -> [Sides -> Nat]]
          /\ sends \in [Ranks -> [Sides -> Seq(Messages)]]
      BY DEF Invariant, TypeInv, TypeOK
    <3> HIDE DEF n, o
    <3> QED
      BY <2>1, <3>1
  <2>6. /\ Len(sends[r][s]) <= stage[r] + 1 /\ recvd[r][s] >= stage[r]
        /\ Len(sends[n][o]) <= stage[n] + 1 /\ recvd[n][o] >= stage[n]
    <3>1. CountOK(r) /\ CountOK(n)
      BY <2>1 DEF Invariant, HaloInv, RankOK
    <3> HIDE DEF n, o
    <3> QED
      BY <2>1, <2>3, <2>5, <3>1 DEF CountOK
  <2> HIDE DEF n, o
  <2>7. Len(sends[r][s]) - recvd[n][o] \in 0 .. 2
    BY <2>4, <2>5, <2>6, AtMostTwo
  <2> QED
    BY <2>7 DEF n, o
<1> QED
  BY <1>1, InvariantHolds, PTL

-----------------------------------------------------------------------------
(* The inductive invariant.  It says what the reductions of a step gave by  *)
(* what all ranks entered, so that it is the same for all of them.          *)

Reducing == {"speed", "allreduce"}
InStep   == {"system", "inner", "join", "sides", "speed", "allreduce", "update"}

\* A rank has left all the reductions it entered but the one it is in, and
\* some of those it entered belong to the step under way.
Left(r)    == IF pc[r] = "allreduce" THEN Len(speeds[r]) - 1 ELSE Len(speeds[r])
Entered(r) == Len(speeds[r]) - 3 * Len(clock[r])

\* Where in a step a rank is, and how many reductions of it it has entered.
PlaceOK(r) ==
  /\ pc[r] \notin {"system", "inner", "join", "sides", "update"} => substep[r] = 0
  /\ stage[r] = Substeps * Len(clock[r]) + substep[r]
  /\ pc[r] \in InStep => time[r] < EndTime
  /\ pc[r] = "speed" => Entered(r) \in 0 .. 2
  /\ pc[r] = "allreduce" => Entered(r) \in 1 .. 3
  /\ pc[r] \notin Reducing =>
       Entered(r) = IF pc[r] = "update" \/ substep[r] > 0 THEN 3 ELSE 0

\* Nobody leaves a reduction that another rank has yet to enter.
ReduceInv == \A q, r \in Ranks : Len(speeds[q]) >= Left(r)

\* The result of reduction i, when all ranks have entered it.
Largest(i) ==
  CHOOSE w \in {speeds[q][i] : q \in Ranks} : \A q \in Ranks : speeds[q][i] <= w

\* The results that a rank knows are the largest values that ranks gave.
ResultsOK(r) ==
  \A i \in 1 .. Left(r) :
    /\ Largest(i) \in {speeds[q][i] : q \in Ranks}
    /\ \A q \in Ranks : speeds[q][i] <= Largest(i)

\* The sum of the first n results of step k + 1, for n < 3, and the length of
\* step k.
SumTo(k, n) ==
  (IF n > 0 THEN Largest(3 * k + 1) ELSE 0) + (IF n > 1 THEN Largest(3 * k + 2) ELSE 0)
StepLength(k) == Timestep(Largest(3 * k - 2) + Largest(3 * k - 1) + Largest(3 * k))

SumOK(r) ==
  total[r] = IF pc[r] \in Reducing THEN SumTo(Len(clock[r]), Left(r) - 3 * Len(clock[r])) ELSE 0

\* The time before step k of a rank.
Before(r, k) == IF k = 1 THEN 0 ELSE clock[r][k - 1]

ClockOK(r) ==
  /\ pc[r] \notin Reducing /\ Entered(r) = 3 => dt[r] = StepLength(Len(clock[r]) + 1)
  /\ \A k \in 1 .. Len(clock[r]) : clock[r][k] = Before(r, k) + StepLength(k)
  /\ time[r] = Before(r, Len(clock[r]) + 1)

StepOK(r) == PlaceOK(r) /\ ResultsOK(r) /\ SumOK(r) /\ ClockOK(r)

ClockInv ==
  /\ \A r \in Ranks : StepOK(r)
  /\ ReduceInv
  /\ SameClock

-----------------------------------------------------------------------------
(* Reductions do not change once every rank has entered them.               *)

\* What a rank gave to the reductions stays what it was.
Grows == \A q \in Ranks :
  /\ Len(speeds'[q]) >= Len(speeds[q])
  /\ \A i \in 1 .. Len(speeds[q]) : speeds'[q][i] = speeds[q][i]

\* What a reduction gave does not change once all have entered it.
LEMMA ResultKept ==
  ASSUME TypeOK, Grows, NEW i \in Nat \ {0}, \A q \in Ranks : Len(speeds[q]) >= i
  PROVE  Largest(i)' = Largest(i)
<1>1. \A q \in Ranks : speeds[q] \in Seq(Nat)
  BY DEF TypeOK
<1>2. \A q \in Ranks : i \in 1 .. Len(speeds[q])
  BY <1>1
<1>3. \A q \in Ranks : speeds'[q][i] = speeds[q][i]
  BY <1>2 DEF Grows
<1>4. {speeds'[q][i] : q \in Ranks} = {speeds[q][i] : q \in Ranks}
  BY <1>3
<1> QED
  BY <1>3, <1>4 DEF Largest

\* The value that a rank takes out of a reduction is its result.
LEMMA ResultTaken ==
  ASSUME TypeOK, NEW i \in Nat \ {0}, \A q \in Ranks : Len(speeds[q]) >= i,
         NEW w \in {speeds[q][i] : q \in Ranks}, \A q \in Ranks : speeds[q][i] <= w
  PROVE  w = Largest(i)
<1>1. \A q \in Ranks : speeds[q][i] \in Nat
  <2> SUFFICES ASSUME NEW q \in Ranks PROVE speeds[q][i] \in Nat
    OBVIOUS
  <2>1. speeds[q] \in Seq(Nat)
    BY DEF TypeOK
  <2> QED
    BY <2>1
<1>2. \A v \in {speeds[q][i] : q \in Ranks} :
        (\A q \in Ranks : speeds[q][i] <= v) => v = w
  BY <1>1
<1> QED
  BY <1>2 DEF Largest


\* What ranks give to a reduction and what it gives are numbers.
LEMMA GivenNat ==
  ASSUME TypeOK, NEW q \in Ranks, NEW i \in 1 .. Len(speeds[q])
  PROVE  speeds[q][i] \in Nat
<1>1. speeds[q] \in Seq(Nat)
  BY DEF TypeOK
<1> QED
  BY <1>1

\* What a rank knows of a reduction is a number.
LEMMA KnownNat ==
  ASSUME TypeOK, ReduceInv, NEW r \in Ranks, ResultsOK(r), NEW i \in 1 .. Left(r)
  PROVE  Largest(i) \in Nat
<1>1. PICK q \in Ranks : Largest(i) = speeds[q][i]
  BY DEF ResultsOK
<1>2. Len(speeds[q]) >= Left(r) /\ Len(speeds[q]) \in Nat /\ Left(r) \in Int
  BY DEF ReduceInv, TypeOK, Left
<1> QED
  BY <1>1, <1>2, GivenNat

\* A result that some rank knows stays, and so do the sums and the length of a
\* step that are made of such results.
LEMMA KnownKept ==
  ASSUME TypeOK, ReduceInv, Grows, NEW r \in Ranks
  PROVE  /\ \A i \in 1 .. Left(r) : Largest(i)' = Largest(i)
         /\ \A i \in 1 .. Left(r) : \A q \in Ranks : speeds'[q][i] = speeds[q][i]
         /\ \A k \in Nat, n \in 0 .. 2 : 3 * k + n <= Left(r) => SumTo(k, n)' = SumTo(k, n)
         /\ \A k \in Nat \ {0} : 3 * k <= Left(r) => StepLength(k)' = StepLength(k)
<1>1. Left(r) \in Int /\ \A q \in Ranks : Len(speeds[q]) \in Nat
  BY DEF TypeOK, Left
<1>2. \A i \in 1 .. Left(r) : Largest(i)' = Largest(i)
  BY <1>1, ResultKept DEF ReduceInv
<1>3. \A i \in 1 .. Left(r) : \A q \in Ranks : speeds'[q][i] = speeds[q][i]
  BY <1>1 DEF ReduceInv, Grows
<1>4. ASSUME NEW k \in Nat, NEW n \in 0 .. 2, 3 * k + n <= Left(r)
      PROVE  SumTo(k, n)' = SumTo(k, n)
  <2>1. n > 0 => 3 * k + 1 \in 1 .. Left(r)
    BY <1>1, <1>4
  <2>2. n > 1 => 3 * k + 2 \in 1 .. Left(r)
    BY <1>1, <1>4
  <2> QED
    BY <1>2, <2>1, <2>2 DEF SumTo
<1>5. ASSUME NEW k \in Nat \ {0}, 3 * k <= Left(r)
      PROVE  StepLength(k)' = StepLength(k)
  <2>1. 3 * k - 2 \in 1 .. Left(r) /\ 3 * k - 1 \in 1 .. Left(r) /\ 3 * k \in 1 .. Left(r)
    BY <1>1, <1>5
  <2> QED
    BY <1>2, <2>1 DEF StepLength, Timestep
<1> QED
  BY <1>2, <1>3, <1>4, <1>5

\* The reductions of the steps performed were left, and not more than three
\* others were.
LEMMA LeftBetween ==
  ASSUME TypeOK, NEW r \in Ranks, PlaceOK(r)
  PROVE  /\ Len(clock[r]) \in Nat /\ Len(speeds[r]) \in Nat /\ Left(r) \in Nat
         /\ 3 * Len(clock[r]) <= Left(r) /\ Left(r) <= 3 * Len(clock[r]) + 3
         /\ pc[r] \in Reducing => Left(r) - 3 * Len(clock[r]) \in 0 .. 2
         /\ pc[r] \notin Reducing => Left(r) = Len(speeds[r])
<1>1. Len(clock[r]) \in Nat /\ Len(speeds[r]) \in Nat
  BY DEF TypeOK
<1>2. CASE pc[r] = "speed"
  BY <1>1, <1>2 DEF PlaceOK, Left, Entered, Reducing
<1>3. CASE pc[r] = "allreduce"
  BY <1>1, <1>3 DEF PlaceOK, Left, Entered, Reducing
<1>4. CASE pc[r] \notin Reducing
  <2>1. Entered(r) \in {0, 3}
    BY <1>4 DEF PlaceOK
  <2> QED
    BY <1>1, <1>4, <2>1 DEF Left, Entered, Reducing
<1> QED
  BY <1>2, <1>3, <1>4 DEF Reducing

\* A rank that does nothing while others enter and leave reductions.
Idle(q) ==
  /\ pc'[q] = pc[q] /\ speeds'[q] = speeds[q] /\ total'[q] = total[q] /\ dt'[q] = dt[q]
  /\ time'[q] = time[q] /\ clock'[q] = clock[q] /\ stage'[q] = stage[q]
  /\ substep'[q] = substep[q]

\* A step without a reduction keeps what holds of its clock.
LEMMA IdleOK ==
  ASSUME TypeOK, ClockInv, Grows, NEW q \in Ranks, Idle(q)
  PROVE  StepOK(q)' /\ Left(q)' = Left(q)
<1>1. PlaceOK(q) /\ ResultsOK(q) /\ SumOK(q) /\ ClockOK(q) /\ ReduceInv
  BY DEF ClockInv, StepOK
<1>2. PlaceOK(q)'
  BY <1>1 DEF PlaceOK, Idle, Entered
<1>3. Left(q)' = Left(q)
  BY DEF Left, Idle
<1>4. ResultsOK(q)'
  <2>1. \A i \in 1 .. Left(q) :
          /\ Largest(i)' = Largest(i)
          /\ {speeds'[p][i] : p \in Ranks} = {speeds[p][i] : p \in Ranks}
          /\ \A p \in Ranks : speeds'[p][i] = speeds[p][i]
    BY <1>1, KnownKept
  <2> QED
    BY <1>1, <1>3, <2>1 DEF ResultsOK
<1>5. SumOK(q)'
  <2>1. CASE pc[q] \in Reducing
    <3>1. PICK k \in Nat, n \in 0 .. 2 : k = Len(clock[q]) /\ n = Left(q) - 3 * Len(clock[q])
      BY <1>1, <2>1, LeftBetween
    <3>2. 3 * k + n <= Left(q)
      BY <1>1, <3>1, LeftBetween
    <3>3. SumTo(k, n)' = SumTo(k, n)
      BY <1>1, <3>2, KnownKept
    <3> QED
      BY <1>1, <1>3, <2>1, <3>1, <3>3 DEF SumOK, Idle
  <2>2. CASE pc[q] \notin Reducing
    BY <1>1, <2>2 DEF SumOK, Idle
  <2> QED
    BY <2>1, <2>2
<1>6. ClockOK(q)'
  <2>1. /\ \A k \in Nat \ {0} : 3 * k <= Left(q) => StepLength(k)' = StepLength(k)
        /\ Len(clock[q]) \in Nat /\ 3 * Len(clock[q]) <= Left(q) /\ Left(q) \in Nat
    BY <1>1, KnownKept, LeftBetween
  <2>2. \A k \in 1 .. Len(clock[q]) : StepLength(k)' = StepLength(k)
    BY <2>1
  <2>3. ASSUME pc[q] \notin Reducing, Entered(q) = 3
        PROVE  dt[q] = StepLength(Len(clock[q]) + 1)'
    <3>1. PICK k \in Nat \ {0} : k = Len(clock[q]) + 1
      BY <2>1
    <3>2. 3 * k <= Left(q)
      BY <1>1, <2>1, <2>3, <3>1, LeftBetween DEF Entered
    <3>3. StepLength(k)' = StepLength(k) /\ dt[q] = StepLength(k)
      BY <1>1, <2>1, <2>3, <3>1, <3>2 DEF ClockOK
    <3> QED
      BY <3>1, <3>3 DEF Idle
  <2> QED
    BY <1>1, <2>2, <2>3 DEF ClockOK, Idle, Entered, Before
<1> QED
  BY <1>2, <1>3, <1>4, <1>5, <1>6 DEF StepOK

-----------------------------------------------------------------------------
(* The steps of a rank preserve the invariant.                              *)

\* It is enough to look at the rank that takes the step, at what it does to
\* the reductions, and at its clock.
LEMMA StepOfOne ==
  ASSUME TypeOK, TypeOK', ClockInv, Grows, NEW r \in Ranks,
         \A q \in Ranks : q # r => Idle(q),
         StepOK(r)', SameClock',
         \A q \in Ranks : Len(speeds'[q]) >= Left(r)'
  PROVE  ClockInv'
<1>1. \A q \in Ranks : q # r => StepOK(q)' /\ Left(q)' = Left(q)
  BY IdleOK
<1>2. ASSUME NEW q \in Ranks, NEW p \in Ranks PROVE Len(speeds'[q]) >= Left(p)'
  <2>1. CASE p = r
    BY <2>1
  <2>2. CASE p # r
    <3>1. Len(speeds'[q]) >= Len(speeds[q]) /\ Len(speeds[q]) >= Left(p) /\ Left(p)' = Left(p)
      BY <1>1, <2>2 DEF ClockInv, ReduceInv, Grows
    <3>2. Left(p) \in Nat
      BY LeftBetween DEF ClockInv, StepOK
    <3>3. speeds[q] \in Seq(Nat) /\ speeds'[q] \in Seq(Nat)
      BY DEF TypeOK
    <3> QED
      BY <3>1, <3>2, <3>3
  <2> QED
    BY <2>1, <2>2
<1> QED
  BY <1>1, <1>2 DEF ClockInv, ReduceInv

\* Steps between the reductions and the updates.
Walks(r) ==
  \/ Loop(r) \/ SpawnExchange(r) \/ InnerFlux(r) \/ Join(r) \/ SideFlux(r)
  \/ CheckPasses(r) \/ CheckThrows(r)

\* So does every step of the main thread inside a substep.
LEMMA WalksOK ==
  ASSUME TypeOK, TypeOK', ClockInv, NEW r \in Ranks, Walks(r)
  PROVE  ClockInv'
<1>1. UNCHANGED <<substep, dt, time, clock, stage, speeds, total>>
  BY DEF Walks, Loop, SpawnExchange, InnerFlux, Join, SideFlux, CheckPasses, CheckThrows, reduceVars
<1>2. pc' = [pc EXCEPT ![r] = pc'[r]] /\ pc[r] \notin Reducing /\ pc'[r] # "allreduce"
  BY DEF TypeOK, Walks, Loop, SpawnExchange, InnerFlux, Join, SideFlux, CheckPasses, CheckThrows,
         Goto, Reducing
<1>3. StepOK(r)
  BY DEF ClockInv
<1>4. PlaceOK(r)' /\ (pc'[r] = "speed" => Entered(r) = 0)
  <2>1. /\ Entered(r)' = Entered(r) /\ stage'[r] = Substeps * Len(clock'[r]) + substep'[r]
        /\ substep'[r] = substep[r] /\ time'[r] = time[r] /\ substep[r] \in Nat
        /\ time[r] \in Nat /\ EndTime \in Nat
    BY <1>1, <1>3, SpeedsAssumption DEF StepOK, PlaceOK, Entered, TypeOK
  <2>2. PlaceOK(r)
    BY <1>3 DEF StepOK
  <2> USE <1>2, <2>1, <2>2 DEF PlaceOK, Goto, TypeOK, InStep, Reducing
  <2>3. CASE Loop(r)
    BY <2>3 DEF Loop, AtEnd
  <2>4. CASE SpawnExchange(r)
    BY <2>4 DEF SpawnExchange
  <2>5. CASE InnerFlux(r)
    BY <2>5 DEF InnerFlux
  <2>6. CASE Join(r)
    BY <2>6 DEF Join
  <2>7. CASE SideFlux(r)
    BY <2>7 DEF SideFlux
  <2>8. CASE CheckPasses(r) \/ CheckThrows(r)
    BY <2>8 DEF CheckPasses, CheckThrows
  <2> QED
    BY <2>3, <2>4, <2>5, <2>6, <2>7, <2>8 DEF Walks
<1>5. Left(r)' = Left(r) /\ Left(r) = Len(speeds[r])
  BY <1>1, <1>2, <1>3 DEF Left, Reducing
<1>6. Grows
  BY <1>1 DEF Grows, TypeOK
<1>7. StepOK(r)'
  <2>1. \A i : Largest(i)' = Largest(i)
    BY <1>1 DEF Largest
  <2>2. ResultsOK(r)'
    BY <1>1, <1>3, <1>5, <2>1 DEF StepOK, ResultsOK
  <2>3. SumOK(r)'
    <3>1. total'[r] = 0
      BY <1>1, <1>2, <1>3 DEF StepOK, SumOK
    <3>2. CASE pc'[r] = "speed"
      <4>1. Left(r)' - 3 * Len(clock'[r]) = 0
        BY <1>1, <1>4, <1>5, <3>2 DEF Entered
      <4>2. \A k : SumTo(k, 0)' = 0
        BY DEF SumTo
      <4> QED
        BY <3>1, <3>2, <4>1, <4>2 DEF SumOK, Reducing
    <3>3. CASE pc'[r] # "speed"
      BY <1>2, <3>1, <3>3 DEF SumOK, Reducing
    <3> QED
      BY <3>2, <3>3
  <2>4. ClockOK(r)'
    BY <1>1, <1>2, <1>3, <1>4, <2>1 DEF StepOK, ClockOK, Entered, Before, StepLength, Timestep, Reducing
  <2> QED
    BY <1>4, <2>2, <2>3, <2>4 DEF StepOK
<1>8. SameClock'
  BY <1>1 DEF ClockInv, SameClock
<1>9. \A q \in Ranks : q # r => Idle(q)
  BY <1>1, <1>2 DEF Idle, TypeOK
<1>10. \A q \in Ranks : Len(speeds'[q]) >= Left(r)'
  BY <1>1, <1>5 DEF ClockInv, ReduceInv
<1> QED
  BY <1>6, <1>7, <1>8, <1>9, <1>10, StepOfOne

\* Entering a reduction keeps it, too.
LEMMA EnterOK ==
  ASSUME TypeOK, TypeOK', ClockInv, NEW r \in Ranks, EnterAllreduce(r)
  PROVE  ClockInv'
<1>1. /\ UNCHANGED <<substep, dt, time, clock, stage, total>>
      /\ pc[r] = "speed" /\ pc' = [pc EXCEPT ![r] = "allreduce"]
  BY DEF EnterAllreduce, Goto
<1>2. PICK w \in LocalSpeeds(r) : speeds' = [speeds EXCEPT ![r] = Append(@, w)]
  BY DEF EnterAllreduce
<1>3. /\ speeds'[r] = Append(speeds[r], w) /\ speeds[r] \in Seq(Nat) /\ w \in Nat
      /\ \A q \in Ranks : speeds[q] \in Seq(Nat)
      /\ \A q \in Ranks : q # r => speeds'[q] = speeds[q]
  BY <1>2, SpeedsAssumption DEF TypeOK, LocalSpeeds
<1>4. /\ Len(speeds'[r]) = Len(speeds[r]) + 1
      /\ \A i \in 1 .. Len(speeds[r]) : speeds'[r][i] = speeds[r][i]
  BY <1>3
<1>5. Grows
  BY <1>3, <1>4 DEF Grows
<1>6. StepOK(r) /\ ReduceInv
  BY DEF ClockInv
<1>7. Left(r)' = Left(r) /\ pc'[r] = "allreduce"
  BY <1>1, <1>3, <1>4 DEF Left, TypeOK
<1>8. StepOK(r)'
  <2>1. PlaceOK(r)'
    <3>1. Entered(r) \in 0 .. 2 /\ Entered(r)' = Entered(r) + 1
      BY <1>1, <1>3, <1>4, <1>6 DEF StepOK, PlaceOK, Entered, TypeOK
    <3> QED
      BY <1>1, <1>6, <1>7, <3>1 DEF StepOK, PlaceOK, Reducing, InStep
  <2>2. \A i \in 1 .. Left(r) :
          /\ Largest(i)' = Largest(i)
          /\ {speeds'[p][i] : p \in Ranks} = {speeds[p][i] : p \in Ranks}
          /\ \A p \in Ranks : speeds'[p][i] = speeds[p][i]
    BY <1>5, <1>6, KnownKept
  <2>3. ResultsOK(r)'
    BY <1>6, <1>7, <2>2 DEF StepOK, ResultsOK
  <2>4. /\ pc[r] \in Reducing /\ pc'[r] \in Reducing
        /\ 3 * Len(clock[r]) <= Left(r) /\ Len(clock[r]) \in Nat /\ Left(r) \in Nat
        /\ Left(r) - 3 * Len(clock[r]) \in 0 .. 2
    BY <1>1, <1>6, <1>7, LeftBetween DEF StepOK, Reducing
  <2>5. SumOK(r)'
    <3>1. PICK k \in Nat, n \in 0 .. 2 : k = Len(clock[r]) /\ n = Left(r) - 3 * Len(clock[r])
      BY <2>4
    <3>2. 3 * k + n <= Left(r)
      BY <2>4, <3>1
    <3>3. SumTo(k, n)' = SumTo(k, n)
      BY <1>5, <1>6, <3>2, KnownKept
    <3> QED
      BY <1>1, <1>6, <1>7, <2>4, <3>1, <3>3 DEF StepOK, SumOK
  <2>6. ClockOK(r)'
    <3>1. \A k \in Nat \ {0} : 3 * k <= Left(r) => StepLength(k)' = StepLength(k)
      BY <1>5, <1>6, KnownKept
    <3>2. \A k \in 1 .. Len(clock[r]) : StepLength(k)' = StepLength(k)
      BY <2>4, <3>1
    <3> QED
      BY <1>1, <1>6, <2>4, <3>2 DEF StepOK, ClockOK, Before
  <2> QED
    BY <2>1, <2>3, <2>5, <2>6 DEF StepOK
<1>9. \A q \in Ranks : q # r => Idle(q)
  BY <1>1, <1>3 DEF Idle, TypeOK
<1>10. \A q \in Ranks : Len(speeds'[q]) >= Left(r)'
  <2>1. Left(r) \in Nat /\ \A q \in Ranks : Len(speeds[q]) >= Left(r)
    BY <1>6, LeftBetween DEF StepOK, ReduceInv
  <2> QED
    BY <1>3, <1>4, <1>7, <2>1
<1>11. SameClock'
  BY <1>1 DEF ClockInv, SameClock
<1> QED
  BY <1>5, <1>8, <1>9, <1>10, <1>11, StepOfOne

\* A rank that leaves a reduction knows its result, which is the same for all.
LEMMA LeaveOK ==
  ASSUME TypeOK, TypeOK', ClockInv, NEW r \in Ranks, LeaveAllreduce(r)
  PROVE  ClockInv'
<1> DEFINE last == Len(speeds[r]) % Directions = 0
<1>1. /\ UNCHANGED <<substep, time, clock, stage, speeds>>
      /\ pc[r] = "allreduce" /\ pc' = [pc EXCEPT ![r] = IF last THEN "update" ELSE "speed"]
      /\ Arrived(r)
  BY DEF LeaveAllreduce, Goto
<1>2. PICK w \in Given(r) :
        /\ Reduced(r, w)
        /\ total' = [total EXCEPT ![r] = IF last THEN 0 ELSE @ + w]
        /\ dt' = [dt EXCEPT ![r] = IF last THEN Timestep(total[r] + w) ELSE @]
  BY DEF LeaveAllreduce
<1>3. StepOK(r) /\ ReduceInv
  BY DEF ClockInv
<1>4. PICK k \in Nat, n \in 0 .. 2 :
        /\ k = Len(clock[r]) /\ n = Left(r) - 3 * k
        /\ Len(speeds[r]) = 3 * k + n + 1 /\ Left(r) = 3 * k + n
  <2>1. PICK k \in Nat, left \in Nat, entered \in Nat :
          k = Len(clock[r]) /\ left = Left(r) /\ entered = Len(speeds[r])
    BY <1>3, LeftBetween DEF StepOK
  <2>2. left = entered - 1
    BY <1>1, <2>1 DEF Left
  <2>3. left - 3 * k \in 0 .. 2
    BY <1>1, <1>3, <2>1, LeftBetween DEF StepOK, Reducing
  <2>4. PICK n \in 0 .. 2 : n = left - 3 * k
    BY <2>3
  <2>5. entered = 3 * k + n + 1 /\ left = 3 * k + n
    BY <2>2, <2>4
  <2> QED
    BY <2>1, <2>4, <2>5
<1>5. last <=> n = 2
  BY <1>4 DEF Directions
<1>6. w = Largest(3 * k + n + 1) /\ w \in {speeds[q][3 * k + n + 1] : q \in Ranks}
      /\ \A q \in Ranks : speeds[q][3 * k + n + 1] <= w
  <2>1. \A q \in Ranks : Len(speeds[q]) >= 3 * k + n + 1
    BY <1>1, <1>4 DEF Arrived
  <2>2. /\ w \in {speeds[q][3 * k + n + 1] : q \in Ranks}
        /\ \A q \in Ranks : speeds[q][3 * k + n + 1] <= w
    BY <1>2, <1>4 DEF Given, Reduced
  <2>3. 3 * k + n + 1 \in Nat \ {0}
    OBVIOUS
  <2> QED
    BY <2>1, <2>2, <2>3, ResultTaken
<1>7. Grows
  BY <1>1 DEF Grows, TypeOK
<1>8. \A i : Largest(i)' = Largest(i)
  BY <1>1 DEF Largest
<1>9. /\ pc'[r] = IF n = 2 THEN "update" ELSE "speed"
      /\ total'[r] = IF n = 2 THEN 0 ELSE total[r] + w
      /\ dt'[r] = IF n = 2 THEN Timestep(total[r] + w) ELSE dt[r]
      /\ Left(r)' = 3 * k + n + 1
  BY <1>1, <1>2, <1>4, <1>5 DEF TypeOK, Left
<1>10. total[r] = SumTo(k, n)
  BY <1>1, <1>3, <1>4 DEF StepOK, SumOK, Reducing
<1>11. StepOK(r)'
  <2>1. PlaceOK(r)'
    <3>1. Entered(r)' = n + 1
      BY <1>1, <1>4 DEF Entered
    <3> QED
      BY <1>1, <1>3, <1>9, <3>1 DEF StepOK, PlaceOK, Reducing, InStep
  <2>2. ResultsOK(r)'
    <3> SUFFICES ASSUME NEW i \in 1 .. 3 * k + n + 1
                 PROVE  /\ Largest(i) \in {speeds[q][i] : q \in Ranks}
                        /\ \A q \in Ranks : speeds[q][i] <= Largest(i)
      BY <1>1, <1>8, <1>9 DEF ResultsOK
    <3>1. CASE i = 3 * k + n + 1
      BY <1>6, <3>1
    <3>2. CASE i # 3 * k + n + 1
      <4>1. i \in 1 .. Left(r)
        BY <1>4, <3>2
      <4> QED
        BY <1>3, <4>1 DEF StepOK, ResultsOK
    <3> QED
      BY <3>1, <3>2
  <2>3. SumOK(r)'
    <3>1. CASE n = 2
      BY <1>9, <3>1 DEF SumOK, Reducing
    <3>2. CASE n = 0 \/ n = 1
      <4>1. SumTo(k, n) + w = SumTo(k, n + 1)
        <5>1. w \in Nat
          <6>1. PICK q \in Ranks : w = speeds[q][3 * k + n + 1]
            BY <1>6
          <6>2. Len(speeds[q]) \in Nat /\ Len(speeds[q]) >= 3 * k + n + 1
            BY <1>1, <1>4 DEF Arrived, TypeOK
          <6>3. 3 * k + n + 1 \in 1 .. Len(speeds[q])
            BY <6>2
          <6> QED
            BY <6>1, <6>3, GivenNat
        <5>2. CASE n = 0
          BY <1>6, <5>1, <5>2 DEF SumTo
        <5>3. CASE n = 1
          <6>1. Largest(3 * k + 1) \in Nat
            <7>1. 3 * k + 1 \in 1 .. Left(r)
              BY <1>4, <5>3
            <7> QED
              BY <1>3, <7>1, KnownNat DEF StepOK
          <6> QED
            BY <1>6, <5>1, <5>3, <6>1 DEF SumTo
        <5> QED
          BY <3>2, <5>2, <5>3
      <4>2. Left(r)' - 3 * Len(clock'[r]) = n + 1 /\ pc'[r] \in Reducing
        BY <1>1, <1>4, <1>9, <3>2 DEF Reducing
      <4> QED
        <5>1. total'[r] = SumTo(k, n + 1)
          BY <1>9, <1>10, <3>2, <4>1
        <5>2. SumTo(Len(clock'[r]), Left(r)' - 3 * Len(clock'[r])) = SumTo(k, n + 1)
          BY <1>1, <1>4, <4>2
        <5> QED
          BY <1>8, <4>2, <5>1, <5>2 DEF SumOK, SumTo
    <3> QED
      BY <3>1, <3>2
  <2>4. ClockOK(r)'
    <3>1. ASSUME n = 2 PROVE dt'[r] = StepLength(k + 1)
      <4>1. /\ 3 * (k + 1) - 2 = 3 * k + 1 /\ 3 * (k + 1) - 1 = 3 * k + 2
            /\ 3 * (k + 1) = 3 * k + n + 1
        BY <3>1
      <4>2. SumTo(k, n) = Largest(3 * k + 1) + Largest(3 * k + 2)
        BY <3>1 DEF SumTo
      <4> QED
        BY <1>6, <1>9, <1>10, <3>1, <4>1, <4>2 DEF StepLength
    <3>2. n # 2 => pc'[r] \in Reducing
      BY <1>9 DEF Reducing
    <3>3. \A j : StepLength(j)' = StepLength(j)
      BY <1>8 DEF StepLength, Timestep
    <3> QED
      BY <1>1, <1>3, <1>4, <3>1, <3>2, <3>3 DEF StepOK, ClockOK, Before, Entered
  <2> QED
    BY <2>1, <2>2, <2>3, <2>4 DEF StepOK
<1>12. SameClock'
  BY <1>1 DEF ClockInv, SameClock
<1>13. \A q \in Ranks : q # r => Idle(q)
  BY <1>1, <1>2 DEF Idle, TypeOK
<1>14. \A q \in Ranks : Len(speeds'[q]) >= Left(r)'
  BY <1>1, <1>4, <1>9 DEF Arrived
<1> QED
  BY <1>7, <1>11, <1>12, <1>13, <1>14, StepOfOne

\* A substep within a step does not touch reductions and clock.
LEMMA NextSubstepOK ==
  ASSUME TypeOK, TypeOK', ClockInv, NEW r \in Ranks, NextSubstep(r)
  PROVE  ClockInv'
<1>1. /\ UNCHANGED <<dt, time, clock, speeds, total>>
      /\ pc[r] = "update" /\ pc' = [pc EXCEPT ![r] = "system"]
      /\ stage' = [stage EXCEPT ![r] = @ + 1]
      /\ substep' = [substep EXCEPT ![r] = @ + 1]
  BY DEF NextSubstep, Goto, Combine, reduceVars
<1>2. StepOK(r)
  BY DEF ClockInv
<1>3. Left(r)' = Left(r) /\ Left(r) = Len(speeds[r]) /\ pc'[r] = "system"
  BY <1>1 DEF Left, TypeOK
<1>4. Grows
  BY <1>1 DEF Grows, TypeOK
<1>5. \A i : Largest(i)' = Largest(i)
  BY <1>1 DEF Largest
<1>6. StepOK(r)'
  <2>1. PlaceOK(r)'
    <3>1. /\ stage'[r] = stage[r] + 1 /\ substep'[r] = substep[r] + 1
          /\ stage[r] = Substeps * Len(clock[r]) + substep[r]
          /\ Entered(r) = 3 /\ Entered(r)' = 3 /\ time[r] < EndTime /\ substep[r] \in Nat
      BY <1>1, <1>2 DEF StepOK, PlaceOK, Entered, InStep, Reducing, TypeOK
    <3>2. stage'[r] = Substeps * Len(clock[r]) + substep'[r]
      <4>1. PICK c \in Int : c = Substeps * Len(clock[r])
        BY SizesAssumption DEF TypeOK
      <4> QED
        BY <3>1, <4>1
    <3> QED
      BY <1>1, <1>3, <3>1, <3>2 DEF PlaceOK, Reducing
  <2>2. ResultsOK(r)'
    BY <1>1, <1>2, <1>3, <1>5 DEF StepOK, ResultsOK
  <2>3. SumOK(r)'
    BY <1>1, <1>2, <1>3 DEF StepOK, SumOK, Reducing
  <2>4. ClockOK(r)'
    BY <1>1, <1>2, <1>3, <1>5 DEF StepOK, ClockOK, Entered, Before, StepLength, Timestep, Reducing
  <2> QED
    BY <2>1, <2>2, <2>3, <2>4 DEF StepOK
<1>7. SameClock'
  BY <1>1 DEF ClockInv, SameClock
<1>8. \A q \in Ranks : q # r => Idle(q)
  BY <1>1 DEF Idle, TypeOK
<1>9. \A q \in Ranks : Len(speeds'[q]) >= Left(r)'
  BY <1>1, <1>3 DEF ClockInv, ReduceInv
<1> QED
  BY <1>4, <1>6, <1>7, <1>8, <1>9, StepOfOne

\* A step has as many stages as the integrator.
LEMMA NextMultiple ==
  ASSUME NEW n \in Nat, NEW c \in Nat
  PROVE  n * c \in Nat /\ n * (c + 1) \in Nat /\ n * (c + 1) = n * c + n
BY Z3

\* What FinishStep does to clock and counters.
LEMMA Finished ==
  ASSUME TypeOK, ClockInv, NEW r \in Ranks, FinishStep(r), NEW c \in Nat, c = Len(clock[r])
  PROVE  /\ UNCHANGED <<dt, speeds, total>>
         /\ pc[r] = "update" /\ pc' = [pc EXCEPT ![r] = "check"] /\ pc'[r] = "check"
         /\ stage' = [stage EXCEPT ![r] = @ + 1] /\ stage'[r] = Substeps * (c + 1)
         /\ substep' = [substep EXCEPT ![r] = 0] /\ substep'[r] = 0
         /\ time' = [time EXCEPT ![r] = @ + dt[r]] /\ time'[r] = time[r] + dt[r]
         /\ \A q \in Ranks : q # r => clock'[q] = clock[q]
         /\ Len(clock'[r]) = c + 1 /\ clock'[r][c + 1] = time[r] + dt[r]
         /\ \A k \in 1 .. c : clock'[r][k] = clock[r][k]
         /\ dt[r] = StepLength(c + 1) /\ Len(speeds[r]) = 3 * (c + 1)
<1>1. /\ UNCHANGED <<dt, speeds, total>>
      /\ pc[r] = "update" /\ pc' = [pc EXCEPT ![r] = "check"]
      /\ stage' = [stage EXCEPT ![r] = @ + 1]
      /\ substep' = [substep EXCEPT ![r] = 0]
      /\ time' = [time EXCEPT ![r] = @ + dt[r]]
      /\ clock' = [clock EXCEPT ![r] = Append(@, time[r] + dt[r])]
      /\ substep[r] + 1 = Substeps
  BY DEF FinishStep, Goto, Combine, reduceVars
<1>2. PICK t : t = time[r] + dt[r]
  OBVIOUS
<1>3. t \in Nat /\ clock[r] \in Seq(Nat)
  BY <1>2 DEF TypeOK
<1>4. /\ clock'[r] = Append(clock[r], t)
      /\ \A q \in Ranks : q # r => clock'[q] = clock[q]
  BY <1>1, <1>2 DEF TypeOK
<1>5. /\ Len(clock'[r]) = c + 1 /\ clock'[r][c + 1] = t
      /\ \A k \in 1 .. c : clock'[r][k] = clock[r][k]
  BY <1>3, <1>4
<1>6. StepOK(r)
  BY DEF ClockInv
<1>7. Entered(r) = 3
  BY <1>1, <1>6 DEF StepOK, PlaceOK, Reducing
<1>8. dt[r] = StepLength(c + 1) /\ Len(speeds[r]) = 3 * (c + 1)
  <2>1. Len(speeds[r]) \in Nat /\ Len(speeds[r]) - 3 * c = 3
    BY <1>7 DEF Entered, TypeOK
  <2> QED
    BY <1>1, <1>6, <1>7, <2>1 DEF StepOK, ClockOK, Reducing
<1>9. stage'[r] = Substeps * (c + 1)
  <2>1. stage[r] = Substeps * c + substep[r] /\ stage'[r] = stage[r] + 1
    BY <1>1, <1>6 DEF StepOK, PlaceOK, TypeOK
  <2>2. substep[r] \in Nat /\ Substeps \in Nat
    BY SizesAssumption DEF TypeOK
  <2>3. PICK n \in Nat, m \in Nat : n = Substeps * c /\ m = Substeps * (c + 1) /\ m = n + Substeps
    BY <2>2, NextMultiple
  <2>4. stage[r] = n + substep[r] /\ stage'[r] = stage[r] + 1 /\ substep[r] + 1 = Substeps
    BY <1>1, <2>1, <2>3
  <2>5. m = n + Substeps /\ n \in Nat /\ m \in Nat
    BY <2>3
  <2>6. stage'[r] = m
    BY <2>2, <2>4, <2>5
  <2> QED
    BY <2>3, <2>6
<1> QED
  BY <1>1, <1>2, <1>4, <1>5, <1>8, <1>9 DEF TypeOK

\* The end of a step: the time goes on by the length that all ranks know.
LEMMA FinishOK ==
  ASSUME TypeOK, TypeOK', ClockInv, NEW r \in Ranks, FinishStep(r)
  PROVE  ClockInv'
<1>0. StepOK(r) /\ SameClock
  BY DEF ClockInv
<1>lengths. \A q \in Ranks : Len(clock[q]) \in Nat
  BY DEF TypeOK
<1>1. PICK c \in Nat : c = Len(clock[r])
  BY <1>lengths
<1>2. /\ UNCHANGED <<dt, speeds, total>>
      /\ pc[r] = "update" /\ pc' = [pc EXCEPT ![r] = "check"] /\ pc'[r] = "check"
      /\ stage' = [stage EXCEPT ![r] = @ + 1] /\ stage'[r] = Substeps * (c + 1)
      /\ substep' = [substep EXCEPT ![r] = 0] /\ substep'[r] = 0
      /\ time' = [time EXCEPT ![r] = @ + dt[r]] /\ time'[r] = time[r] + dt[r]
      /\ \A q \in Ranks : q # r => clock'[q] = clock[q]
      /\ Len(clock'[r]) = c + 1 /\ clock'[r][c + 1] = time[r] + dt[r]
      /\ \A k \in 1 .. c : clock'[r][k] = clock[r][k]
      /\ dt[r] = StepLength(c + 1) /\ Len(speeds[r]) = 3 * (c + 1)
  BY <1>1, Finished
<1>3. Left(r)' = Left(r) /\ Left(r) = Len(speeds[r])
  BY <1>2 DEF Left
<1>4. Grows
  BY <1>2 DEF Grows, TypeOK
<1>5. \A k : StepLength(k)' = StepLength(k)
  BY <1>2 DEF StepLength, Timestep, Largest
<1>6. \A k \in 1 .. c + 1 : Before(r, k)' = Before(r, k)
  <2> SUFFICES ASSUME NEW k \in 1 .. c + 1, k # 1 PROVE clock'[r][k - 1] = clock[r][k - 1]
    BY DEF Before
  <2>1. k - 1 \in 1 .. c
    OBVIOUS
  <2> QED
    BY <1>2, <2>1
<1>7. time[r] = Before(r, c + 1)
  BY <1>0, <1>1 DEF StepOK, ClockOK
<1>8. StepOK(r)'
  <2>1. PlaceOK(r)'
    <3>1. Entered(r)' = 0
      BY <1>2 DEF Entered
    <3>2. stage'[r] = Substeps * (c + 1) + 0
      <4>1. Substeps * (c + 1) \in Nat
        BY NextMultiple, SizesAssumption
      <4> QED
        BY <1>2, <4>1
    <3> QED
      BY <1>2, <3>1, <3>2 DEF PlaceOK, Reducing, InStep
  <2>2. ResultsOK(r)'
    BY <1>0, <1>2, <1>3 DEF StepOK, ResultsOK, Largest
  <2>3. SumOK(r)'
    BY <1>0, <1>2 DEF StepOK, SumOK, Reducing
  <2>4. ClockOK(r)'
    <3>1. Entered(r)' = 0
      BY <1>2 DEF Entered
    <3>2. ASSUME NEW k \in 1 .. c + 1 PROVE clock'[r][k] = Before(r, k)' + StepLength(k)'
      <4>1. CASE k = c + 1
        BY <1>2, <1>5, <1>6, <1>7, <4>1
      <4>2. CASE k # c + 1
        <5>1. k \in 1 .. c
          BY <4>2
        <5>2. clock[r][k] = Before(r, k) + StepLength(k)
          BY <1>0, <1>1, <5>1 DEF StepOK, ClockOK
        <5> QED
          BY <1>2, <1>5, <1>6, <5>1, <5>2
      <4> QED
        BY <4>1, <4>2
    <3>3. time'[r] = Before(r, c + 2)'
      <4>1. c + 2 # 1 /\ (c + 2) - 1 = c + 1
        OBVIOUS
      <4> QED
        BY <1>2, <4>1 DEF Before
    <3>4. Len(clock'[r]) + 1 = c + 2
      BY <1>2
    <3> QED
      BY <1>2, <3>1, <3>2, <3>3, <3>4 DEF ClockOK
  <2> QED
    BY <2>1, <2>2, <2>3, <2>4 DEF StepOK
<1>9. SameClock'
  <2>1. ASSUME NEW q \in Ranks, q # r, Len(clock[q]) >= c + 1
        PROVE  clock[q][c + 1] = clock'[r][c + 1]
    <3>1. Len(clock[q]) \in Nat
      BY DEF TypeOK
    <3>2. c + 1 \in 1 .. Len(clock[q])
      BY <2>1, <3>1
    <3>3. clock[q][c + 1] = Before(q, c + 1) + StepLength(c + 1)
      BY <3>2 DEF ClockInv, StepOK, ClockOK
    <3>4. Before(q, c + 1) = Before(r, c + 1)
      <4>1. CASE c = 0
        BY <4>1 DEF Before
      <4>2. CASE c # 0
        <5>1. c \in 1 .. Len(clock[q]) /\ c <= Len(clock[r]) /\ c + 1 # 1 /\ (c + 1) - 1 = c
          BY <1>1, <2>1, <3>1, <4>2
        <5> QED
          BY <1>0, <5>1 DEF SameClock, Before
      <4> QED
        BY <4>1, <4>2
    <3> QED
      BY <1>2, <1>7, <3>3, <3>4
  <2>2. ASSUME NEW q \in Ranks, NEW p \in Ranks, NEW k \in 1 .. Len(clock'[q]), k <= Len(clock'[p])
        PROVE  clock'[q][k] = clock'[p][k]
    <3>1. Len(clock[q]) \in Nat /\ Len(clock[p]) \in Nat
      BY <1>lengths
    <3>2. CASE q # r /\ p # r
      BY <1>0, <1>2, <2>2, <3>2 DEF SameClock
    <3>3. CASE q = r /\ p = r
      BY <3>3
    <3>4. CASE q = r /\ p # r
      <4>1. k \in 1 .. c + 1 /\ k <= Len(clock[p])
        BY <1>2, <2>2, <3>4
      <4>2. CASE k = c + 1
        BY <1>2, <2>1, <3>4, <4>1, <4>2
      <4>3. CASE k # c + 1
        <5>1. k \in 1 .. c
          BY <4>1, <4>3
        <5> QED
          BY <1>0, <1>1, <1>2, <3>4, <4>1, <5>1 DEF SameClock
      <4> QED
        BY <4>2, <4>3
    <3>5. CASE q # r /\ p = r
      <4>1. k \in 1 .. Len(clock[q]) /\ k <= c + 1
        BY <1>2, <2>2, <3>5
      <4>2. CASE k = c + 1
        <5>1. Len(clock[q]) >= c + 1
          BY <3>1, <4>1, <4>2
        <5> QED
          BY <1>2, <2>1, <3>5, <4>2, <5>1
      <4>3. CASE k # c + 1
        <5>1. k <= c /\ k \in 1 .. c
          BY <3>1, <4>1, <4>3
        <5> QED
          BY <1>0, <1>1, <1>2, <3>5, <4>1, <5>1 DEF SameClock
      <4> QED
        BY <4>2, <4>3
    <3> QED
      BY <3>2, <3>3, <3>4, <3>5
  <2> QED
    BY <2>2 DEF SameClock
<1>10. \A q \in Ranks : q # r => Idle(q)
  BY <1>2 DEF Idle, TypeOK
<1>11. \A q \in Ranks : Len(speeds'[q]) >= Left(r)'
  BY <1>2, <1>3 DEF ClockInv, ReduceInv
<1> QED
  BY <1>4, <1>8, <1>9, <1>10, <1>11, StepOfOne

\* The invariant holds at first, ...
LEMMA ClockInit == Init => ClockInv
<1> SUFFICES ASSUME Init PROVE ClockInv
  OBVIOUS
<1>1. /\ \A r \in Ranks : pc[r] = "loop" /\ speeds[r] = << >> /\ clock[r] = << >> /\ total[r] = 0
      /\ \A r \in Ranks : time[r] = 0 /\ substep[r] = 0 /\ stage[r] = 0
  BY DEF Init
<1>2. \A r \in Ranks : Len(speeds[r]) = 0 /\ Len(clock[r]) = 0
  BY <1>1
<1>3. ASSUME NEW r \in Ranks PROVE StepOK(r) /\ Left(r) = 0
  <2>1. Left(r) = 0 /\ Entered(r) = 0
    BY <1>1, <1>2 DEF Left, Entered
  <2>2. PlaceOK(r)
    <3>1. Substeps * 0 + 0 = 0
      BY SizesAssumption
    <3> QED
      BY <1>1, <1>2, <2>1, <3>1 DEF PlaceOK, InStep, Reducing
  <2>3. ResultsOK(r) /\ SumOK(r)
    BY <1>1, <2>1 DEF ResultsOK, SumOK, Reducing
  <2>4. ClockOK(r)
    BY <1>1, <1>2, <2>1 DEF ClockOK, Before
  <2> QED
    BY <2>1, <2>2, <2>3, <2>4 DEF StepOK
<1>4. ReduceInv
  BY <1>2, <1>3 DEF ReduceInv
<1>5. SameClock
  BY <1>2 DEF SameClock
<1> QED
  BY <1>3, <1>4, <1>5 DEF ClockInv

\* ... is preserved by what does not concern it, ...
LEMMA ClockUnchanged ==
  ASSUME TypeOK, ClockInv, UNCHANGED <<pc, speeds, total, dt, time, clock, stage, substep>>
  PROVE  ClockInv'
<1>1. Grows
  BY DEF Grows, TypeOK
<1>2. \A q \in Ranks : StepOK(q)'
  BY <1>1, IdleOK DEF Idle
<1>3. ReduceInv' /\ SameClock'
  BY DEF ClockInv, ReduceInv, SameClock, Left
<1> QED
  BY <1>2, <1>3 DEF ClockInv

\* ... and by every step.
LEMMA ClockStep == TypeOK /\ TypeOK' /\ ClockInv /\ [Next]_vars => ClockInv'
<1> SUFFICES ASSUME TypeOK, TypeOK', ClockInv, [Next]_vars PROVE ClockInv'
  OBVIOUS
<1>1. ASSUME NEW r \in Ranks, Main(r) PROVE ClockInv'
  BY <1>1, WalksOK, EnterOK, LeaveOK, NextSubstepOK, FinishOK DEF Main, Walks
<1>2. ASSUME NEW r \in Ranks, Exchange(r) PROVE ClockInv'
  BY <1>2, ClockUnchanged DEF Exchange, PostSide, WaitForAll, mainVars, reduceVars
<1>3. ASSUME NEW r \in Ranks, NEW s \in Sides, BufferSend(r, s) \/ Deliver(r, s) PROVE ClockInv'
  BY <1>3, ClockUnchanged DEF BufferSend, Deliver, mainVars, reduceVars
<1>4. CASE UNCHANGED vars
  BY <1>4, ClockUnchanged DEF vars, mainVars, reduceVars
<1> QED
  BY <1>1, <1>2, <1>3, <1>4 DEF Next, Finalize

\* The invariant holds in every state.
LEMMA ClockHolds == Spec => [](TypeInv /\ ClockInv)
<1>1. Init => TypeInv /\ ClockInv
  BY TypeInit, ClockInit
<1>2. TypeInv /\ ClockInv /\ [Next]_vars => TypeInv' /\ ClockInv'
  BY TypeStep, ClockStep DEF TypeInv
<1> QED
  BY <1>1, <1>2, PTL DEF Spec

-----------------------------------------------------------------------------
(* What follows of it.                                                      *)

\* However the ranks interleave, and whatever wave speeds each of them finds,
\* they go through the same times (Integrator.cpp:20, Simulator.cpp:77).
THEOREM ClocksAgree == Spec => []SameClock
<1>1. TypeInv /\ ClockInv => SameClock
  BY DEF ClockInv
<1> QED
  BY <1>1, ClockHolds, PTL

\* A rank that throws stops all the others within the step that follows: the
\* next step's reductions wait for it forever (Simulator.cpp:180).
THEOREM AllStopAfterThrow == Spec => []ThrowStopsAll
<1>1. ASSUME TypeInv, ClockInv PROVE ThrowStopsAll
  <2> SUFFICES ASSUME NEW q \in Ranks, NEW r \in Ranks, pc[q] = "thrown"
               PROVE  Len(clock[r]) <= Len(clock[q])
    BY DEF ThrowStopsAll
  <2>1. TypeOK /\ PlaceOK(q) /\ PlaceOK(r) /\ Len(speeds[q]) >= Left(r)
    BY <1>1 DEF TypeInv, ClockInv, StepOK, ReduceInv
  <2>2. Entered(q) = 0
    BY <2>1 DEF PlaceOK, Reducing
  <2>3. /\ Len(clock[q]) \in Nat /\ Len(speeds[q]) \in Nat /\ Left(r) \in Nat
        /\ Len(clock[r]) \in Nat /\ 3 * Len(clock[r]) <= Left(r)
    BY <2>1, LeftBetween
  <2>4. Len(speeds[q]) = 3 * Len(clock[q])
    BY <2>2, <2>3 DEF Entered
  <2> QED
    BY <2>1, <2>3, <2>4
<1> QED
  BY <1>1, ClockHolds, PTL

\* Rounding down keeps the product below the CFL number.
LEMMA QuotientBelow ==
  ASSUME NEW c \in Nat, NEW n \in Nat, n > 0, NEW m \in Nat, m <= n
  PROVE  c \div n \in Nat /\ (c \div n) * m <= c /\ c \div n <= c
<1>1. PICK q \in Nat : q = c \div n /\ n * q <= c
  BY Z3
<1>2. q * m <= n * q
  BY Z3
<1>3. q <= n * q
  BY Z3
<1> QED
  BY <1>1, <1>2, <1>3, Z3

\* The results of the reductions of a step bound what any rank gave to them,
\* and the first one is positive.
LEMMA StepResults ==
  ASSUME TypeInv, ClockInv, NEW r \in Ranks, NEW k \in Nat \ {0}, 3 * k <= Left(r), NEW q \in Ranks
  PROVE  \E a, b, c \in Nat, x, y, z \in Nat :
           /\ a = Largest(3 * k - 2) /\ b = Largest(3 * k - 1) /\ c = Largest(3 * k)
           /\ x = speeds[q][3 * k - 2] /\ y = speeds[q][3 * k - 1] /\ z = speeds[q][3 * k]
           /\ x <= a /\ y <= b /\ z <= c /\ x > 0
<1>1. TypeOK /\ ReduceInv /\ ResultsOK(r) /\ StepOK(r) /\ GivenInv
  BY DEF TypeInv, ClockInv, StepOK
<1>2. Left(r) \in Nat /\ Len(speeds[q]) \in Nat /\ Len(speeds[q]) >= Left(r)
  <2>1. Left(r) \in Nat /\ Len(speeds[q]) >= Left(r)
    BY <1>1, LeftBetween DEF StepOK, ReduceInv
  <2>2. speeds[q] \in Seq(Nat)
    BY <1>1 DEF TypeOK
  <2> QED
    BY <2>1, <2>2
<1>3. /\ 3 * k - 2 \in 1 .. Left(r) /\ 3 * k - 1 \in 1 .. Left(r) /\ 3 * k \in 1 .. Left(r)
      /\ 3 * k - 2 \in 1 .. Len(speeds[q])
      /\ 3 * k - 1 \in 1 .. Len(speeds[q])
      /\ 3 * k \in 1 .. Len(speeds[q])
  BY <1>2
<1>4. \A i \in 1 .. Left(r) : Largest(i) \in Nat /\ speeds[q][i] <= Largest(i)
  BY <1>1, KnownNat DEF ResultsOK
<1>5. \A i \in 1 .. Len(speeds[q]) : speeds[q][i] \in Nat
  BY <1>1, GivenNat
<1>6. speeds[q][3 * k - 2] > 0
  <2>1. ((3 * k - 2) - 1) % 3 = 0
    OBVIOUS
  <2>2. 0 < Dimensions
    BY SizesAssumption
  <2>3. ((3 * k - 2) - 1) % Directions < Dimensions
    BY <2>1, <2>2 DEF Directions
  <2> QED
    BY <1>1, <1>3, <2>3 DEF GivenInv
<1> QED
  BY <1>3, <1>4, <1>5, <1>6

\* Every step of every rank satisfies the CFL condition of all of them.
THEOREM CFLOfAllRanks == Spec => []CFLHolds
<1>1. ASSUME TypeInv, ClockInv PROVE CFLHolds
  <2> SUFFICES ASSUME NEW q \in Ranks, NEW r \in Ranks, NEW k \in 1 .. Len(clock[r])
               PROVE  (clock[r][k] - (IF k = 1 THEN 0 ELSE clock[r][k - 1]))
                        * (speeds[q][3 * k - 2] + speeds[q][3 * k - 1] + speeds[q][3 * k]) <= Cfl
    BY DEF CFLHolds
  <2>1. TypeOK /\ PlaceOK(r) /\ ClockOK(r)
    BY <1>1 DEF TypeInv, ClockInv, StepOK
  <2>2. k \in Nat \ {0} /\ 3 * k <= Left(r)
    <3>1. Len(clock[r]) \in Nat /\ Left(r) \in Nat /\ 3 * Len(clock[r]) <= Left(r)
      BY <2>1, LeftBetween
    <3> QED
      BY <3>1
  <2>3. PICK a, b, c \in Nat, x, y, z \in Nat :
           /\ a = Largest(3 * k - 2) /\ b = Largest(3 * k - 1) /\ c = Largest(3 * k)
           /\ x = speeds[q][3 * k - 2] /\ y = speeds[q][3 * k - 1] /\ z = speeds[q][3 * k]
           /\ x <= a /\ y <= b /\ z <= c /\ x > 0
    BY <1>1, <2>2, StepResults
  <2>4. PICK n \in Nat, m \in Nat : n = a + b + c /\ m = x + y + z /\ n > 0 /\ m <= n
    <3>1. x <= a /\ y <= b /\ z <= c /\ x > 0
      BY <2>3
    <3>2. a + b + c \in Nat /\ x + y + z \in Nat /\ a + b + c > 0 /\ x + y + z <= a + b + c
      BY <3>1
    <3> QED
      BY <3>2
  <2>5. StepLength(k) = Cfl \div n
    BY <2>3, <2>4 DEF StepLength, Timestep
  <2>6. PICK d \in Nat : d = Cfl \div n /\ d * m <= Cfl
    BY <2>4, QuotientBelow, SpeedsAssumption
  <2>7. PICK t \in Nat : t = IF k = 1 THEN 0 ELSE clock[r][k - 1]
    <3>1. k # 1 => k - 1 \in 1 .. Len(clock[r])
      BY <2>2
    <3>2. clock[r] \in Seq(Nat)
      BY <2>1 DEF TypeOK
    <3> QED
      BY <3>1, <3>2
  <2>8. clock[r][k] - (IF k = 1 THEN 0 ELSE clock[r][k - 1]) = d
    <3>1. clock[r][k] = t + d
      BY <2>1, <2>5, <2>6, <2>7 DEF ClockOK, Before
    <3>2. (t + d) - t = d
      OBVIOUS
    <3> QED
      BY <2>7, <3>1, <3>2
  <2> QED
    BY <2>3, <2>4, <2>6, <2>8
<1> QED
  BY <1>1, ClockHolds, PTL

-----------------------------------------------------------------------------
(* The refinement, step by step.                                            *)

\* A rank whose exchange is over has its neighbours at its stage or beyond.
LEMMA NeighboursThere ==
  ASSUME Invariant, NEW r \in Ranks, pc[r] \in Exchanged, NEW q \in Adjacent[r]
  PROVE  q \in Ranks /\ stage[q] >= stage[r]
<1>1. PICK s \in Sides : q = Neighbours[r][s] /\ HasSide(r, s)
  BY DEF Adjacent, HasSide
<1>2. PICK o \in Sides : o = Opposite(s) /\ Opposite(o) = s
  BY OppositeSide
<1>3. q \in Ranks /\ Neighbours[q][o] = r
  BY <1>1, <1>2, NeighboursAssumption DEF HasSide
<1>4. HasSide(q, o)
  BY <1>3, SizesAssumption DEF HasSide, NoRank
<1>5. TypeOK /\ RankOK(r) /\ RankOK(q) /\ ChannelInv
  BY <1>3 DEF Invariant, TypeInv, HaloInv
<1>6. Received(r, s)
  BY <1>2, <1>5, ExchangedFresh DEF Received, Posted
<1>7. stage[r] \in Nat /\ stage[q] \in Nat /\ Len(sends[q][o]) \in Nat
  BY <1>3 , <1>5 DEF TypeOK
<1>8. recvd[r][s] = stage[r] + 1
  BY <1>1, <1>5, <1>6 DEF RankOK, CountOK
<1>9. Len(sends[q][o]) <= stage[q] + 1
  BY <1>3, <1>4, <1>5, <1>7 DEF RankOK, CountOK
<1>10. recvd[r][s] <= Len(sends[q][o])
  BY <1>1, <1>2, <1>5 DEF ChannelInv
<1> QED
  BY <1>3, <1>7, <1>8, <1>9, <1>10

\* A rank that ends the first stage of a step has all ranks there.
LEMMA AllThere ==
  ASSUME TypeOK, ClockInv, NEW r \in Ranks, pc[r] = "update", substep[r] = 0, NEW q \in Ranks
  PROVE  stage[q] >= stage[r]
<1>1. PlaceOK(r) /\ PlaceOK(q) /\ Len(speeds[q]) >= Left(r)
  BY DEF ClockInv, StepOK, ReduceInv
<1>2. PICK c \in Nat, b \in Nat, k \in Nat, n \in Nat :
        c = Len(clock[r]) /\ b = Len(clock[q]) /\ k = Len(speeds[q]) /\ n = Left(r)
  BY <1>1, LeftBetween
<1>3. n = 3 * c + 3
  <2>1. Entered(r) = 3 /\ Left(r) = Len(speeds[r]) /\ Len(speeds[r]) \in Nat
    BY <1>1, LeftBetween DEF PlaceOK, Reducing
  <2> QED
    BY <1>2, <2>1 DEF Entered
<1>4. k <= 3 * b + 3
  <2>1. Entered(q) \in 0 .. 3
    BY <1>1 DEF PlaceOK, Reducing
  <2> QED
    BY <1>2, <2>1 DEF Entered
<1>5. b >= c
  BY <1>1, <1>2, <1>3, <1>4
<1>6. Substeps \in Nat /\ substep[q] \in Nat
  BY SizesAssumption DEF TypeOK
<1>7. PICK m \in Nat, o \in Nat : m = Substeps * b /\ o = Substeps * c /\ m >= o
  BY <1>5, <1>6, Z3
<1>8. stage[q] = m + substep[q] /\ stage[r] = o + 0
  BY <1>1, <1>2, <1>7 DEF PlaceOK
<1> QED
  BY <1>6, <1>7, <1>8

\* So a stage ends only when the specification allows it.
LEMMA UpdateMayAdvance ==
  ASSUME Invariant, ClockInv, NEW r \in Ranks, pc[r] = "update"
  PROVE  /\ Lockstep!MayAdvance(r)
         /\ Lockstep!Now(r) = time[r]
<1>1. TypeOK /\ PlaceOK(r) /\ ClockOK(r)
  BY DEF Invariant, TypeInv, ClockInv, StepOK
<1>2. Lockstep!Now(r) = time[r]
  <2>1. clock[r] \in Seq(Nat) /\ time[r] = Before(r, Len(clock[r]) + 1)
    BY <1>1 DEF TypeOK, ClockOK
  <2>2. CASE clock[r] = << >>
    BY <2>1, <2>2 DEF Before, Lockstep!Now
  <2>3. CASE clock[r] # << >>
    <3>1. Len(clock[r]) \in Nat /\ Len(clock[r]) # 0
      BY <2>1, <2>3
    <3>2. Len(clock[r]) + 1 # 1 /\ (Len(clock[r]) + 1) - 1 = Len(clock[r])
      BY <3>1
    <3> QED
      BY <2>1, <2>3, <3>2 DEF Before, Lockstep!Now
  <2> QED
    BY <2>2, <2>3
<1>3. time[r] < EndTime
  BY <1>1 DEF PlaceOK, InStep
<1>4. \A q \in Adjacent[r] : stage[q] >= stage[r]
  BY NeighboursThere DEF Exchanged
<1>5. substep[r] = 0 => \A q \in Ranks : stage[q] >= stage[r]
  BY <1>1, AllThere
<1> QED
  BY <1>2, <1>3, <1>4, <1>5 DEF Lockstep!MayAdvance

\* Within a step conservedVolumes[0] is not written.
LEMMA SolutionKept ==
  ASSUME TypeOK, NEW r \in Ranks, UNCHANGED front,
         \A v \in Slots : v # Output(r) => interior'[r][v] = interior[r][v],
         \A q \in Ranks : q # r => interior'[q] = interior[q]
  PROVE  Solution' = Solution
<1>1. substep[r] \in 0 .. Substeps - 1 /\ Substeps \in Nat
  BY SizesAssumption DEF TypeOK
<1>2. 0 \in Slots /\ substep[r] + 1 \in Slots /\ 0 # substep[r] + 1
  BY <1>1 DEF Slots
<1>3. Volume(r, 0) \in Slots /\ Volume(r, 0) # Output(r)
  BY <1>2, VolumeSlot, VolumeInjective DEF Output
<1>4. \A q \in Ranks : Volume(q, 0)' = Volume(q, 0)
  BY DEF Volume
<1>5. \A q \in Ranks : interior'[q][Volume(q, 0)'] = interior[q][Volume(q, 0)]
  BY <1>3, <1>4
<1> QED
  BY <1>5 DEF Solution

\* What the combination writes is what the fluxes left there.
LEMMA CombineExact ==
  ASSUME Invariant, NEW r \in Ranks, pc[r] = "update", Combine(r)
  PROVE  interior' = interior /\ interior[r][Output(r)] = stage[r] + 1
<1>1. TypeOK /\ VolumesOK(r)
  BY DEF Invariant, TypeInv, HaloInv, RankOK
<1>2. interior[r][Output(r)] = stage[r] + 1 /\ VolumesFresh(r)
  BY <1>1 DEF VolumesOK
<1> QED
  BY <1>1, <1>2, InputOutput DEF TypeOK, Combine

\* The end of a stage within a step is that of the specification, ...
LEMMA NextSubstepAdvances ==
  ASSUME Invariant, ClockInv, NEW r \in Ranks, NextSubstep(r)
  PROVE  Lockstep!Advance(r)
<1>1. TypeOK
  BY DEF Invariant, TypeInv
<1>2. /\ pc[r] = "update" /\ substep[r] + 1 < Substeps /\ Combine(r)
      /\ UNCHANGED <<front, clock>>
      /\ stage' = [stage EXCEPT ![r] = @ + 1]
      /\ substep' = [substep EXCEPT ![r] = @ + 1]
  BY DEF NextSubstep, Goto, Combine
<1>3. UNCHANGED Solution
  BY <1>1, <1>2, CombineExact, SolutionKept
<1> QED
  BY <1>2, <1>3, UpdateMayAdvance DEF Lockstep!Advance

\* ... and the end of a step too: the solution is the exact one, and the time
\* is the one that the ranks which ended the step before came to.
LEMMA FinishStepEnds ==
  ASSUME Invariant, TypeInv', ClockInv, ClockInv', NEW r \in Ranks, FinishStep(r)
  PROVE  Lockstep!EndStep(r)
<1>1. TypeOK /\ TypeOK' /\ StepOK(r)
  BY DEF Invariant, TypeInv, ClockInv
<1>2. /\ pc[r] = "update" /\ substep[r] + 1 = Substeps /\ Combine(r)
      /\ front' = [front EXCEPT ![r] = Substeps - @]
      /\ stage' = [stage EXCEPT ![r] = @ + 1]
      /\ substep' = [substep EXCEPT ![r] = 0]
      /\ clock' = [clock EXCEPT ![r] = Append(@, time[r] + dt[r])]
  BY DEF FinishStep, Goto, Combine, SwapVolumes
<1>3. Lockstep!MayAdvance(r) /\ Lockstep!Now(r) = time[r]
  BY <1>2, UpdateMayAdvance
<1>4. Solution' = [Solution EXCEPT ![r] = stage[r] + 1]
  <2>1. interior' = interior /\ interior[r][Output(r)] = stage[r] + 1
    BY <1>2, CombineExact
  <2>2. Volume(r, 0)' = Output(r)
    <3>1. Input(r)' = Output(r) /\ substep'[r] = 0
      BY <1>1, <1>2, NextInput DEF TypeOK
    <3> QED
      BY <3>1 DEF Input
  <2>3. \A q \in Ranks : q # r => Volume(q, 0)' = Volume(q, 0)
    BY <1>1, <1>2 DEF Volume, TypeOK
  <2>4. \A q \in Ranks : interior'[q][Volume(q, 0)'] =
          IF q = r THEN stage[r] + 1 ELSE interior[q][Volume(q, 0)]
    BY <2>1, <2>2, <2>3
  <2> QED
    BY <2>4 DEF Solution
<1>5. PICK c \in Nat : c = Len(clock[r])
  BY <1>1 DEF TypeOK
<1>6. /\ clock'[r][c + 1] = time[r] + dt[r] /\ Len(clock'[r]) = c + 1
      /\ dt[r] = StepLength(c + 1) /\ Len(speeds[r]) = 3 * (c + 1)
      /\ \A q \in Ranks : q # r => clock'[q] = clock[q]
  BY <1>1, <1>5, Finished
<1>7. Lockstep!Agreed(c + 1, time[r] + dt[r])
  <2> SUFFICES ASSUME NEW q \in Ranks, Len(clock[q]) >= c + 1
               PROVE  clock[q][c + 1] = time[r] + dt[r]
    BY DEF Lockstep!Agreed
  <2>1. q # r
    BY <1>5
  <2>2. clock'[q] = clock[q] /\ Len(clock[q]) \in Nat
    BY <1>1, <1>6, <2>1 DEF TypeOK
  <2>3. c + 1 \in 1 .. Len(clock'[q]) /\ c + 1 <= Len(clock'[r])
    BY <1>6, <2>2
  <2>4. clock'[q][c + 1] = clock'[r][c + 1]
    BY <2>3 DEF ClockInv, SameClock
  <2> QED
    BY <1>6, <2>2, <2>4
<1>8. dt[r] \in 0 .. Cfl
  <2>1. Left(r) = 3 * (c + 1)
    BY <1>2, <1>6 DEF Left
  <2>2. PICK x, y, z \in Nat :
          /\ x = Largest(3 * (c + 1) - 2) /\ y = Largest(3 * (c + 1) - 1)
          /\ z = Largest(3 * (c + 1)) /\ x > 0
    <3>1. c + 1 \in Nat \ {0} /\ 3 * (c + 1) <= Left(r)
      BY <2>1
    <3>2. TypeInv
      BY DEF Invariant
    <3>3. PICK l, m, n \in Nat, x, y, z \in Nat :
            /\ l = Largest(3 * (c + 1) - 2) /\ m = Largest(3 * (c + 1) - 1)
            /\ n = Largest(3 * (c + 1)) /\ x <= l /\ x > 0
      BY <3>1, <3>2, StepResults
    <3>4. l > 0
      BY <3>3
    <3> QED
      BY <3>3, <3>4
  <2>3. PICK n \in Nat : n = x + y + z /\ n > 0
    BY <2>2
  <2>4. dt[r] = Cfl \div n
    BY <1>6, <2>2, <2>3 DEF StepLength, Timestep
  <2>5. PICK d \in Nat : d = Cfl \div n /\ d <= Cfl
    BY <2>3, QuotientBelow, SpeedsAssumption
  <2> QED
    BY <2>4, <2>5, SpeedsAssumption
<1>9. \E d \in 0 .. Cfl :
        /\ Lockstep!Agreed(Len(clock[r]) + 1, Lockstep!Now(r) + d)
        /\ clock' = [clock EXCEPT ![r] = Append(@, Lockstep!Now(r) + d)]
  BY <1>2, <1>3, <1>5, <1>7, <1>8
<1> QED
  BY <1>2, <1>3, <1>4, <1>9 DEF Lockstep!EndStep

\* Everything else is not seen there.
LEMMA OthersStutter ==
  ASSUME Invariant, [Next]_vars,
         ~ \E r \in Ranks : NextSubstep(r) \/ FinishStep(r)
  PROVE  UNCHANGED Lockstep!vars
<1>1. UNCHANGED <<stage, substep, clock, front>>
  BY DEF Next, Main, Exchange, Loop, SpawnExchange, InnerFlux, Join, SideFlux, EnterAllreduce,
         LeaveAllreduce, CheckPasses, CheckThrows, PostSide, WaitForAll, BufferSend, Deliver,
         Finalize, vars, mainVars
<1>2. UNCHANGED Solution
  <2>1. CASE \E r \in Ranks : SideFlux(r)
    <3>1. PICK r \in Ranks : SideFlux(r)
      BY <2>1
    <3>2. TypeOK /\ Output(r) \in Slots
      BY InputOutput DEF Invariant, TypeInv
    <3>3. /\ \A v \in Slots : v # Output(r) => interior'[r][v] = interior[r][v]
          /\ \A q \in Ranks : q # r => interior'[q] = interior[q]
      BY <3>1, <3>2 DEF SideFlux, TypeOK
    <3> QED
      BY <1>1, <3>2, <3>3, SolutionKept
  <2>2. CASE ~ \E r \in Ranks : SideFlux(r)
    <3>1. UNCHANGED interior
      BY <2>2 DEF Next, Main, Exchange, Loop, SpawnExchange, InnerFlux, Join, EnterAllreduce,
             LeaveAllreduce, CheckPasses, CheckThrows, PostSide, WaitForAll, BufferSend, Deliver,
             Finalize, vars, mainVars
    <3> QED
      BY <1>1, <3>1 DEF Solution, Volume
  <2> QED
    BY <2>1, <2>2
<1> QED
  BY <1>1, <1>2 DEF Lockstep!vars

\* The time loop of any number of ranks, with two threads each, messages,
\* reductions and swapped pointers, does what LockstepStages says: every stage
\* is computed when its neighbours' values exist, every step begins where all
\* ranks ended the last one, its solution is exact and its time the same for
\* all (ConservedSystem.cpp:31, Integrator.cpp:20, Simulator.cpp:77).
THEOREM TimeLoopInLockstep == Spec => ImplementsLockstep
<1>1. Init => Lockstep!Init
  <2>1. Init => Solution = [r \in Ranks |-> 0]
    <3> SUFFICES ASSUME Init PROVE \A r \in Ranks : interior[r][Volume(r, 0)] = 0
      BY DEF Solution
    <3>1. 0 \in Slots
      BY SizesAssumption DEF Slots
    <3> QED
      BY <3>1 DEF Init, Volume
  <2> QED
    BY <2>1 DEF Init, Lockstep!Init
<1>2. ASSUME Invariant, TypeInv', ClockInv, ClockInv', [Next]_vars
      PROVE  [Lockstep!Next]_(Lockstep!vars)
  <2>1. CASE \E r \in Ranks : NextSubstep(r) \/ FinishStep(r)
    BY <1>2, <2>1, NextSubstepAdvances, FinishStepEnds DEF Lockstep!Next
  <2>2. CASE ~ \E r \in Ranks : NextSubstep(r) \/ FinishStep(r)
    BY <1>2, <2>2, OthersStutter
  <2> QED
    BY <2>1, <2>2
<1> QED
  BY <1>1, <1>2, InvariantHolds, ClockHolds, PTL DEF Spec, ImplementsLockstep, Lockstep!Spec
=============================================================================
