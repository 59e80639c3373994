----------------------------- MODULE SaveTimes -----------------------------
(***************************************************************************)
(* When the simulator saves.  The writers that are given an interval also   *)
(* adjust the time step, so that their save times are hit; the loop ends    *)
(* when the end time is reached.  Time is counted in small units.  In       *)
(* RoundedSetups, save times and the sum of the time and a step are off by  *)
(* a unit or less, as floating-point numbers are; in Setups they are exact. *)
(***************************************************************************)
EXTENDS Integers, Sequences

CONSTANTS
  Setups,      \* configurations: sequences of nodes, the writer before functionals
  RoundedSetups,
  StepSizes,   \* time steps that the CFL condition may give
  CellLength,  \* dx
  EndTime,
  MaxSaves     \* no saver comes to a higher number of saves

\* A node of the configuration has a part, "writer" or "functional", and the
\* settings that are given, by their names in the file.
Has(node, setting) == setting \in DOMAIN node

\* Numbers are natural ones, times are multiples of the unit, and saves around
\* one time end before those around the next begin.  The only snapshot of an
\* average around time zero would end it before anything is integrated, and
\* TimeIntegratedWriter has nothing to write then: a null pointer.
NodeAssumption(node) ==
  /\ node.part \in {"writer", "functional"}
  /\ Has(node, "numberOfSaves") =>
       /\ node.numberOfSaves \in 1 .. MaxSaves - 2
       /\ EndTime % node.numberOfSaves = 0
  /\ Has(node, "numberOfCoarseSaves") =>
       /\ Has(node, "numberOfSaves") /\ Has(node, "numberOfSkips")
       /\ node.numberOfCoarseSaves \in Nat /\ node.numberOfSkips \in Nat
       /\ 2 * node.numberOfCoarseSaves * (node.numberOfSkips + 1) * CellLength
            < EndTime \div node.numberOfSaves
  /\ Has(node, "writeInitialTimestep") => node.writeInitialTimestep \in BOOLEAN
  /\ Has(node, "time") <=> Has(node, "timeRadius")
  /\ Has(node, "time") => node.time \in Nat /\ node.timeRadius \in Nat
  /\ Has(node, "numberOfSnapshots") =>
       /\ Has(node, "time") /\ node.numberOfSnapshots \in Nat \ {0}
       /\ node.timeRadius % node.numberOfSnapshots = 0
       /\ (node.timeRadius \div node.numberOfSnapshots) * (MaxSaves - 2) >= EndTime
       /\ node.part = "writer" /\ node.numberOfSnapshots = 1 => node.time > 0
  /\ node.part = "functional" => Has(node, "time") \/ Has(node, "numberOfSaves")

ASSUME SetupsAssumption ==
  \A setup \in Setups \cup RoundedSetups :
    /\ Len(setup) \in Nat
    /\ \A w \in 1 .. Len(setup) :
         NodeAssumption(setup[w]) /\ (setup[w].part = "writer" => w = 1)
ASSUME TimesAssumption ==
  /\ EndTime \in Nat \ {0} /\ MaxSaves \in Nat /\ CellLength \in Nat \ {0}
  /\ StepSizes \subseteq Nat \ {0}

-----------------------------------------------------------------------------
(* SimulatorSetup: the savers that are built for a configuration.           *)

\* What is behind a saver: a file for each call; TimeIntegratedWriter, which
\* averages over a ball around a time; or TimeIntegrationFunctional.
Target ==
  [kind : {"file", "average", "functional"}, time : Nat, radius : Nat]

\* The savers: FixedIntervalWriter; CoarseGrainingIntervalWriter, where
\* spacing is (numberOfSkips + 1) * dx; or none, called after each step.
Saver ==
  [kind : {"fixed", "coarse", "none"}, target : Target,
   interval : Nat, start : Nat, initial : BOOLEAN, coarseSaves : Nat, spacing : Nat]

File == [kind |-> "file", time |-> 0, radius |-> 0]

\* The integral over the ball that a node describes.
Ball(node, kind) == [kind |-> kind, time |-> node.time, radius |-> node.timeRadius]

EachStep(g) ==
  [kind |-> "none", target |-> g, interval |-> 0, start |-> 0, initial |-> FALSE,
   coarseSaves |-> 0, spacing |-> 0]

\* Savers a number of times up to the end time, from a start, or coarsely.
Fixed(g, saves, initial) ==
  [EachStep(g) EXCEPT !.kind = "fixed", !.interval = EndTime \div saves, !.initial = initial]
Snapshots(g, snapshots) ==
  [EachStep(g) EXCEPT !.kind = "fixed", !.interval = g.radius \div snapshots,
     !.start = IF g.time > g.radius THEN g.time - g.radius ELSE 0]
Coarse(g, saves, coarseSaves, skips) ==
  [EachStep(g) EXCEPT !.kind = "coarse", !.interval = EndTime \div saves,
     !.coarseSaves = coarseSaves, !.spacing = (skips + 1) * CellLength]

\* A writer node whose ball has no snapshots gets its file at each step: the
\* TimeIntegratedWriter that is built for it is not the one that is returned.
createWriter(node) ==
  CASE Has(node, "numberOfSaves") /\ Has(node, "numberOfCoarseSaves") ->
         Coarse(File, node.numberOfSaves, node.numberOfCoarseSaves, node.numberOfSkips)
    [] Has(node, "numberOfSaves") /\ ~Has(node, "numberOfCoarseSaves") ->
         Fixed(File, node.numberOfSaves,
               Has(node, "writeInitialTimestep") /\ node.writeInitialTimestep)
    [] ~Has(node, "numberOfSaves") /\ Has(node, "numberOfSnapshots") ->
         Snapshots(Ball(node, "average"), node.numberOfSnapshots)
    [] OTHER -> EachStep(File)

createFunctional(node) ==
  CASE Has(node, "time") /\ Has(node, "numberOfSnapshots") ->
         Snapshots(Ball(node, "functional"), node.numberOfSnapshots)
    [] Has(node, "time") /\ ~Has(node, "numberOfSnapshots") ->
         EachStep(Ball(node, "functional"))
    [] OTHER -> Fixed(File, node.numberOfSaves, TRUE)

SaversOf(setup) ==
  [w \in 1 .. Len(setup) |->
     IF setup[w].part = "writer" THEN createWriter(setup[w]) ELSE createFunctional(setup[w])]

Rounded == {SaversOf(setup) : setup \in RoundedSetups}

\* The save times of a saver lie further apart than errors of rounding reach, and
\* the only snapshot of an average lies further inside its ball.
ASSUME RoundingAssumption ==
  \A built \in Rounded : \A w \in DOMAIN built :
    LET s == built[w]
    IN  /\ s.kind # "none" => s.interval - 2 * s.coarseSaves * s.spacing >= 4
        /\ s.kind = "coarse" => s.spacing >= 2
        /\ s.target.kind = "average" /\ s.interval = s.target.radius => s.target.time >= 4

-----------------------------------------------------------------------------
VARIABLES
  savers,    \* the writers of this simulator
  error,     \* the error of each product of a saver
  phase,     \* "built", "running" or "finalized"
  time,      \* currentTime
  state,     \* state[w]: the counters of saver w
  target,    \* target[w]: what the target of saver w remembers
  files      \* files[w]: the times of the files that w has written

vars == <<savers, error, phase, time, state, target, files>>

Writers == 1 .. Len(savers)

\* The errors of rounding.
Rounding == IF savers \in Rounded THEN {-1, 0, 1} ELSE {0}

\* The products numberSaved * timeInterval, up to the end time.
Products ==
  {p \in Writers \X (1 .. MaxSaves) : p[2] * savers[p[1]].interval \in 1 .. EndTime}

Smallest(S) == CHOOSE x \in S : \A y \in S : x <= y
Distance(a, b) == IF a < b THEN b - a ELSE a - b

-----------------------------------------------------------------------------
(* The savers.                                                              *)

\* Fault: the first save is not skipped.
NeverSkipped(s) == [saved |-> 0, small |-> 0, first |-> TRUE]

\* The constructors.
Fresh(s) ==
  [saved |-> IF s.kind = "fixed" /\ ~s.initial THEN 1 ELSE 0, small |-> 0, first |-> TRUE]

\* The next save time.
NextSave(w) ==
  savers[w].interval * state[w].saved
    + (IF <<w, state[w].saved>> \in Products THEN error[<<w, state[w].saved>>] ELSE 0)
    + (IF savers[w].kind = "coarse" THEN savers[w].spacing * state[w].small
       ELSE savers[w].start)

\* Fault: a save waits for a time after the next save time.
DueAfter(w, t) == savers[w].kind = "none" \/ t > NextSave(w)

\* Does write pass the volume on at time t?
Due(w, t) == savers[w].kind = "none" \/ t >= NextSave(w)

\* The counters of FixedIntervalWriter after write at time t.
FixedCounted(w, t) ==
  [state[w] EXCEPT !.saved = IF Due(w, t) THEN @ + 1 ELSE @]

\* Those of CoarseGrainingIntervalWriter: saves around a time are numbered
\* from -coarseSaves to coarseSaves, and the first write starts over.
CoarseCounted(w, t) ==
  LET s     == state[w]
      lower == -savers[w].coarseSaves
      small == CASE s.first               -> lower
                 [] ~s.first /\ Due(w, t)  -> s.small + 1
                 [] ~s.first /\ ~Due(w, t) -> s.small
      saved == IF s.saved = 0 THEN 1 ELSE s.saved
  IN  IF small = savers[w].coarseSaves + 1
      THEN [saved |-> saved + 1, small |-> lower, first |-> FALSE]
      ELSE [saved |-> saved, small |-> small, first |-> FALSE]

Counted(w, t) ==
  CASE savers[w].kind = "none"   -> state[w]
    [] savers[w].kind = "fixed"  -> FixedCounted(w, t)
    [] savers[w].kind = "coarse" -> CoarseCounted(w, t)

\* Faults: the step is not adjusted; the difference is the wrong way round.
NotAdjusted(w)  == {}
WrongWayRound(w) ==
  IF savers[w].kind # "none" /\ state[w].saved > 0 THEN {time - NextSave(w)} ELSE {}

\* What adjustTimestep takes the minimum with.
Remaining(w) ==
  IF savers[w].kind # "none" /\ state[w].saved > 0 THEN {NextSave(w) - time} ELSE {}

-----------------------------------------------------------------------------
(* Their targets.  Instead of a volume they sum up the weights.             *)

Empty == [last |-> 0, weight |-> 0, written |-> FALSE]

\* Fault: the end of the ball is left out.
InsideOpen(g, t) == Distance(t, g.time) < g.radius

\* Is time t one whose volume is added?
Inside(g, t) ==
  IF g.kind = "functional" THEN Distance(t, g.time) <= g.radius
  ELSE Distance(t, g.time) < g.radius

\* Fault: a target does not remember that it has written.
NotRemembered(g, m, t) ==
  [last |-> t, weight |-> m.weight + (IF Inside(g, t) THEN t - m.last ELSE 0), written |-> FALSE]

\* The target after a call of its write at time t.
Added(g, m, t) ==
  [last    |-> t,
   weight  |-> m.weight + (IF Inside(g, t) THEN t - m.last ELSE 0),
   written |-> m.written \/ (g.kind = "average" /\ t >= g.time + g.radius)]

\* The files that the call writes.
Written(g, m, t) ==
  CASE g.kind = "file" -> <<t>>
    [] g.kind = "average" -> IF ~m.written /\ t >= g.time + g.radius THEN <<g.time>> ELSE << >>
    [] g.kind = "functional" -> << >>

\* callWriters at time t.
CallWriters(t) ==
  /\ state' = [w \in Writers |-> Counted(w, t)]
  /\ target' = [w \in Writers |->
       IF Due(w, t) THEN Added(savers[w].target, target[w], t) ELSE target[w]]
  /\ files' = [w \in Writers |->
       IF Due(w, t) THEN files[w] \o Written(savers[w].target, target[w], t) ELSE files[w]]

-----------------------------------------------------------------------------
(* The simulator.                                                           *)

Init ==
  /\ \E setup \in Setups \cup RoundedSetups : savers = SaversOf(setup)
  /\ error \in [Products -> Rounding]
  /\ phase = "built"
  /\ time = 0
  /\ state = [w \in Writers |-> Fresh(savers[w])]
  /\ target = [w \in Writers |-> Empty]
  /\ files = [w \in Writers |-> << >>]

\* main calls the writers before the first step.
Start ==
  /\ phase = "built"
  /\ phase' = "running"
  /\ CallWriters(time)
  /\ UNCHANGED <<savers, error, time>>

AtEnd == time >= EndTime

\* The step of the CFL condition, adjusted by every saver in turn.
PerformStep ==
  /\ phase = "running" /\ ~AtEnd
  /\ \E cfl \in StepSizes, e \in Rounding :
       LET dt == Smallest({cfl} \cup UNION {Remaining(w) : w \in Writers})
       IN  \* the sum is that of the time only for a step of zero
           /\ dt > 0 => dt + e > 0
           /\ dt = 0 => e = 0
           /\ time' = time + dt + e
           /\ CallWriters(time + dt + e)
  /\ UNCHANGED <<savers, error, phase>>

\* The functional writes when the simulator is finalized.
Finalize ==
  /\ phase = "running" /\ AtEnd
  /\ phase' = "finalized"
  /\ files' = [w \in Writers |->
       IF savers[w].target.kind = "functional" THEN Append(files[w], time) ELSE files[w]]
  /\ UNCHANGED <<savers, error, time, state, target>>

Next == Start \/ PerformStep \/ Finalize

Spec == Init /\ [][Next]_vars
-----------------------------------------------------------------------------
(* Correctness.                                                             *)

TypeOK ==
  /\ savers \in Seq(Saver)
  /\ error \in [Products -> Rounding]
  /\ phase \in {"built", "running", "finalized"}
  /\ time \in Nat
  /\ state \in [Writers -> [saved : 0 .. MaxSaves, small : Int, first : BOOLEAN]]
  /\ target \in [Writers -> [last : Nat, weight : Nat, written : BOOLEAN]]
  /\ files \in [Writers -> Seq(Nat)]

\* Two errors of rounding at most lie between a time and what it should be.
Slack == IF savers \in Rounded THEN 2 ELSE 0

\* The time that the j-th save is meant for: every interval, or, with coarse
\* saves, the numbers of them around every interval.
Scheduled(w, j) ==
  LET s == savers[w]
      n == 2 * s.coarseSaves + 1
  IN  CASE s.kind = "fixed" -> s.start + s.interval * (IF s.initial THEN j - 1 ELSE j)
        [] s.kind = "coarse" /\ j = 1 -> 0
        [] s.kind = "coarse" /\ j > 1 ->
             s.interval * ((j - 2) \div n + 1) + s.spacing * (((j - 2) % n) - s.coarseSaves)

\* Whatever steps the CFL condition gives and however many savers adjust them,
\* each saver has saved once at each of its times up to now, at that time, and
\* at no other (FixedIntervalWriter.hpp:27, CoarseGrainingIntervalWriter.hpp:31).
SavedOnTime ==
  phase # "built" =>
    \A w \in Writers : savers[w].kind # "none" /\ savers[w].target.kind = "file" =>
      /\ \A j \in 1 .. Len(files[w]) : Distance(files[w][j], Scheduled(w, j)) <= Slack
      /\ Scheduled(w, Len(files[w]) + 1) + Slack > time

\* No step of the loop goes back or stands still, so that the loop comes to its
\* end: the time left until the next save of any saver is positive when a step
\* starts (Integrator.cpp:57).
StepsForward == [][phase = "running" /\ phase' = "running" => time' > time]_vars

\* A simulator that saves a number of times up to the end time, which is the
\* last of them, ends at that time in exact arithmetic: the step is cut at the
\* end (TimestepAdjuster.hpp:25).  A last save time that is rounded down lets
\* it take one more step, which nothing cuts.
EndsExactly ==
  /\ AtEnd
  /\ savers \notin Rounded
  /\ \E w \in Writers : savers[w].kind = "fixed" /\ savers[w].start = 0
                       /\ EndTime % savers[w].interval = 0
  => time = EndTime

\* An integral over a ball that the simulation has passed is made of weights
\* that add up to the length of the ball in exact arithmetic, up to a step if
\* no save times surround it (TimeIntegrationFunctional.hpp:24).
WeightsCoverBall ==
  phase = "finalized" /\ savers \notin Rounded =>
    \A w \in Writers :
      LET g == savers[w].target
      IN  g.kind = "functional" /\ g.radius <= g.time /\ g.time + g.radius <= EndTime =>
            IF savers[w].kind = "fixed" THEN target[w].weight = 2 * g.radius
            ELSE \E step \in StepSizes : Distance(target[w].weight, 2 * g.radius) <= step

\* A time average is written once at most and not before something has been
\* integrated, and it is written if a save time is where its ball ends
\* (TimeIntegratedWriter.cpp:34, 54): where the ball begins before time zero, or
\* times are rounded, the end time may come before the save.
AverageOnce ==
  \A w \in Writers :
    LET g == savers[w].target
    IN  g.kind = "average" =>
          /\ files[w] \in {<< >>, <<g.time>>}
          /\ files[w] # << >> => target[w].weight > 0
          /\ /\ phase = "finalized" /\ savers \notin Rounded
             /\ g.radius <= g.time /\ g.time + g.radius <= EndTime
             => files[w] # << >>
=============================================================================
