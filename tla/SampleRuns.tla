----------------------------- MODULE SampleRuns -----------------------------
(***************************************************************************)
(* alsuq: Runner::run on all processes.  A process draws the parameters of  *)
(* its next sample, simulates it together with its group, and has writers   *)
(* and statistics called after every step; when all its samples are done,   *)
(* it reduces and writes the statistics.                                    *)
(*                                                                         *)
(* Between two collective calls a process touches nothing but its own       *)
(* state, so an action is the completion of one collective call, and takes  *)
(* every process that took part on to its next one.  A collective call      *)
(* completes when all processes of its communicator are in it.  (MPI lets   *)
(* some go on earlier; a program may not rely on that.)                     *)
(*                                                                         *)
(* In place of solutions, files and statistics hold which samples went into *)
(* them, and at which time.                                                 *)
(***************************************************************************)
EXTENDS LoadBalance, Sequences, FiniteSets, FiniteSetsExt

CONSTANTS
  Lengths,               \* the lengths of the random parameters, in their order
  StepSizes,             \* time steps that the CFL condition may ask for
  EndTime,
  SampleInterval,        \* between two saves of a sample, ...
  StatisticsInterval,    \* ... and between two snapshots of the statistics
  WriteInitialTimestep,  \* do both begin at time 0?
  BallTime, BallRadius,  \* of functional_time_integrated
  MayThrow               \* may a simulation throw?

ASSUME TimesAssumption ==
  /\ StepSizes \subseteq Nat \ {0} /\ EndTime \in Nat \ {0}
  /\ \E largest \in StepSizes : \A dt \in StepSizes : dt <= largest
  /\ SampleInterval \in 1 .. EndTime /\ EndTime % SampleInterval = 0
  /\ StatisticsInterval \in 1 .. EndTime /\ EndTime % StatisticsInterval = 0
  /\ BallTime \in Nat /\ BallRadius \in Nat
  /\ BallTime - BallRadius >= 0 /\ BallTime + BallRadius <= EndTime
ASSUME SwitchesAssumption == WriteInitialTimestep \in BOOLEAN /\ MayThrow \in BOOLEAN

VARIABLES
  process,  \* process[r]: the state of process r, see TypeOK
  files,    \* the files of the samples, by their number
  reports   \* what has been written of the statistics

vars == <<process, files, reports>>

-----------------------------------------------------------------------------
(* Random numbers: STLMersenne.  One generator serves all parameters of a   *)
(* process; a random number is its position in the generator's stream.      *)

\* The components of all parameters in the order in which they are drawn.
Components ==
  LET first[p \in 1 .. Len(Lengths) + 1] == IF p = 1 THEN 0 ELSE first[p - 1] + Lengths[p - 1]
      Parameter(k) == CHOOSE p \in 1 .. Len(Lengths) : first[p] < k /\ k <= first[p + 1]
  IN  [k \in 1 .. first[Len(Lengths) + 1] |->
         [dimension |-> Lengths[Parameter(k)], component |-> k - 1 - first[Parameter(k)]]]

\* Where the generator is after it has discarded numbers for a component of a
\* sample, when it has generated so many.
Position(generated, c, sample) ==
  LET d == c.dimension
      n == IF generated \div d < sample - 1 THEN (sample - 1) * d ELSE generated
  IN  IF n % d < c.component - 1 THEN n + c.component - 1 - (n % d) ELSE n

\* SampleGenerator::generate for all parameters.
Numbers(generated, sample) ==
  LET number[k \in DOMAIN Components] ==
        Position(IF k = 1 THEN generated ELSE number[k - 1] + 1, Components[k], sample)
  IN  number

-----------------------------------------------------------------------------
(* Statistics.  A snapshot is found by its key: which statistics, which     *)
(* time, and which of its volumes.                                          *)

MeanKey(t)     == <<1, t, 1>>
VarianceKey(t) == <<1, t, 2>>
IntegralKey    == <<2, BallTime, 1>>

\* The order of the maps that hold them.
Before(j, k) ==
  \/ j[1] < k[1]
  \/ j[1] = k[1] /\ j[2] < k[2]
  \/ j[1] = k[1] /\ j[2] = k[2] /\ j[3] < k[3]
Least(keys) == CHOOSE k \in keys : \A j \in keys : j = k \/ Before(k, j)

\* How much of each sample is in a volume, how often it has been divided by
\* the number of samples, and what has been subtracted from it.
Zero == [of |-> [s \in Samples |-> 0], divisions |-> 0, minus |-> << >>]

\* f with v for x, which may be new to it.
Put(f, x, v) == [y \in DOMAIN f \cup {x} |-> IF y = x THEN v ELSE f[y]]

\* findOrCreateSnapshot, and what is added to it.
Added(snapshots, key, sample, weight) ==
  LET found == IF key \in DOMAIN snapshots THEN snapshots[key] ELSE Zero
  IN  Put(snapshots, key, [found EXCEPT !.of[sample] = @ + weight])

\* The first save that a writer or statistics counts to.
Fresh == IF WriteInitialTimestep THEN 0 ELSE 1

\* Fault: the count of the sample before goes on.
NotRestarted(p) == p.counted

\* FixedIntervalStatistics lives as long as the process; it finds out by the
\* time that a new sample has begun.
Restarted(p) == IF p.time = 0 THEN Fresh ELSE p.counted

\* FixedIntervalStatistics with MeanVariance.
MeanVariance(p, sample) ==
  LET counted == Restarted(p)
  IN  IF p.time >= counted * StatisticsInterval
      THEN [p EXCEPT !.counted = counted + 1,
                     !.snapshots = Added(Added(@, MeanKey(p.time), sample, 1),
                                         VarianceKey(p.time), sample, 1)]
      ELSE [p EXCEPT !.counted = counted]

\* Fault: a new sample's first call counts from the end of the one before.
AnyTimeSince(p) == TRUE

\* No time has passed since the last call, which was of another sample.
TimeHasPassed(p) == p.time > p.lastTime

\* TimeIntegratedFunctionalStatistics.
Integral(p, sample) ==
  LET inside == BallTime - BallRadius <= p.time /\ p.time <= BallTime + BallRadius
      dt     == IF inside /\ TimeHasPassed(p) THEN p.time - p.lastTime ELSE 0
  IN  [p EXCEPT !.lastTime = p.time, !.snapshots = Added(@, IntegralKey, sample, dt)]

KeysOf(p, statistics) == {k \in DOMAIN p.snapshots : k[1] = statistics}

\* MeanVariance::finalizeStatistics: the square of the mean is subtracted.
Finalized(p) ==
  [p EXCEPT !.snapshots = [k \in DOMAIN @ |->
     IF k[1] = 1 /\ k[3] = 2 THEN [@[k] EXCEPT !.minus = <<p.snapshots[MeanKey(k[2])]>>]
     ELSE @[k]]]

-----------------------------------------------------------------------------
(* What a process does up to its next collective call.                      *)

Calling(p, call) == [p EXCEPT !.call = call]
Reducing(p, keys) ==
  Calling(p, IF keys = {} THEN [kind |-> "returned"] ELSE [kind |-> "reduce", key |-> Least(keys)])

\* The next turn of the loop over the samples, up to makeGroupNames.
StartSample(p, r) ==
  IF p.at > SamplesPerProcess THEN Reducing(p, DOMAIN p.snapshots)
  ELSE LET numbers == Numbers(p.generated, SampleOf(r, p.at))
       IN  Calling([p EXCEPT !.generated = numbers[Len(numbers)] + 1,
                             !.drawn = Append(@, numbers)], [kind |-> "gather"])

\* atEnd, and the start of the next step.
Loop(p, r) ==
  IF p.time >= EndTime THEN StartSample([p EXCEPT !.at = @ + 1], r)
  ELSE Calling(p, [kind |-> "step", sample |-> SampleOf(r, p.at),
                   numbers |-> p.drawn[p.at], time |-> p.time])

CallStatistics(p, r) ==
  LET sample == SampleOf(r, p.at) IN Loop(Integral(MeanVariance(p, sample), sample), r)

\* Fault: every sample makes its own files.
NewAlways(p) == TRUE

\* firstCall of FiniteVolumeSimulatorCreator.
NewFile(p) == p.at = 1

\* callWriters: the sample's own writer comes first.
CallWriters(p, r) ==
  IF p.time >= p.saves * SampleInterval
  THEN Calling(p, [kind |-> "write", new |-> NewFile(p), number |-> p.saves - Fresh,
                   names |-> p.names, time |-> p.time])
  ELSE CallStatistics(p, r)

\* A new simulator with its own writer, and its first callWriters.
AfterGather(p, r, names) ==
  CallWriters([p EXCEPT !.names = names, !.time = 0, !.saves = Fresh], r)

AfterWrite(p, r) == CallStatistics([p EXCEPT !.saves = @ + 1], r)

\* adjustTimestep of the writer and of the statistics.
Adjusted(p, dt) ==
  Min({dt, p.saves * SampleInterval - p.time, p.counted * StatisticsInterval - p.time})

AfterStep(p, r, dt) == CallWriters([p EXCEPT !.time = @ + Adjusted(p, dt)], r)

\* Fault: only the first of all processes.
FirstFinalizes(r) == r = 0

Finalizes(r) == StatisticalRank(r) = 0

\* combineStatistics goes on to its next volume; after the last one the first
\* process of the communicator finalizes and writes, the others go on.
AfterReduce(p, r) ==
  LET key  == p.call.key
      rest == {k \in KeysOf(p, key[1]) : Before(key, k)}
  IN  IF rest # {} THEN Reducing(p, rest)
      ELSE IF Finalizes(r)
           THEN LET q == IF key[1] = 1 THEN Finalized(p) ELSE p
                IN  Calling(q, [kind |-> "report", key |-> Least(KeysOf(q, key[1]))])
           ELSE Reducing(p, {k \in DOMAIN p.snapshots : k[1] > key[1]})

\* writeStatistics goes on to its next volume.
AfterReport(p) ==
  LET key  == p.call.key
      rest == {k \in KeysOf(p, key[1]) : Before(key, k)}
  IN  IF rest # {} THEN Calling(p, [kind |-> "report", key |-> Least(rest)])
      ELSE Reducing(p, {k \in DOMAIN p.snapshots : k[1] > key[1]})

-----------------------------------------------------------------------------
(* Collective calls.                                                        *)

NewProcess ==
  [at |-> 1, generated |-> 0, drawn |-> << >>, names |-> << >>, time |-> 0, saves |-> Fresh,
   counted |-> Fresh, lastTime |-> 0, snapshots |-> << >>, call |-> [kind |-> "returned"]]

Init ==
  /\ process = [r \in Ranks |-> StartSample(NewProcess, r)]
  /\ files = << >>
  /\ reports = {}

Communicator(r, kind) ==
  CASE kind \in {"gather", "reduce"} -> Statistical(r)
    [] kind \in {"step", "report"}   -> Spatial(r)
    [] kind = "write"                -> Ranks

\* All processes of r's communicator are in a call of this kind.
Ready(r, kind) == \A q \in Communicator(r, kind) : process[q].call.kind = kind

\* Those of r's communicator go on, each by After, the others stay.
Advance(r, kind, After(_)) ==
  process' = [q \in Ranks |-> IF q \in Communicator(r, kind) THEN After(q) ELSE process[q]]

\* MPI_Allgather in makeGroupNames: the samples in the order of the ranks.
Gather(r) ==
  /\ Ready(r, "gather")
  /\ LET At(i)    == CHOOSE q \in Statistical(r) : StatisticalRank(q) = i - 1
         names    == [i \in 1 .. MultiSample |-> SampleOf(At(i), process[At(i)].at)]
         After(q) == AfterGather(process[q], q, names)
     IN  Advance(r, "gather", After)
  /\ UNCHANGED <<files, reports>>

\* NetCDFMPIWriter::write: datasets for all samples are defined, and each
\* process fills its part of its own one.  What is not new must be there, and
\* a dataset cannot be defined twice.
Write ==
  /\ Ready(0, "write")
  /\ LET call  == process[0].call
         old   == IF call.new THEN << >> ELSE files[call.number].datasets
         defined == {call.names[i] : i \in DOMAIN call.names}
         Filler(s, part) ==
           CHOOSE q \in Ranks : /\ SpatialRank(q) = part
                                /\ process[q].call.names[StatisticalRank(q) + 1] = s
         Data(s) == [part \in 0 .. MultiSpatial - 1 |->
                       LET q == Filler(s, part)
                       IN  <<SampleOf(q, process[q].at), process[q].time>>]
         After(q) == AfterWrite(process[q], q)
     IN  /\ call.new \/ call.number \in DOMAIN files
         /\ DOMAIN old \cap defined = {}
         /\ files' = Put(files, call.number,
              [time |-> IF call.new THEN call.time ELSE files[call.number].time,
               datasets |-> [s \in DOMAIN old \cup defined |->
                               IF s \in defined THEN Data(s) ELSE old[s]]])
         /\ Advance(0, "write", After)
  /\ UNCHANGED reports

\* A step of a group, with its reductions.
Step(r) ==
  /\ Ready(r, "step")
  /\ \E dt \in StepSizes : LET After(q) == AfterStep(process[q], q, dt)
                           IN  Advance(r, "step", After)
  /\ UNCHANGED <<files, reports>>

\* A process throws at the start of a step, and leaves.
Throw(r) ==
  /\ MayThrow /\ process[r].call.kind = "step"
  /\ process' = [process EXCEPT ![r] = Calling(@, [kind |-> "thrown"])]
  /\ UNCHANGED <<files, reports>>

\* "/= samples".
Divided(snapshot) == [snapshot EXCEPT !.divisions = @ + 1]

\* MPI_Reduce of one volume in combineStatistics; every process divides what
\* it has then.
Reduce(r) ==
  /\ Ready(r, "reduce")
  /\ LET Operand(q) == process[q].snapshots[process[q].call.key]
         sum == [s \in Samples |-> MapThenSumSet(LAMBDA q : Operand(q).of[s], Statistical(r))]
         Result(q) == IF StatisticalRank(q) = 0 THEN [Operand(q) EXCEPT !.of = sum] ELSE Operand(q)
         After(q) ==
           AfterReduce([process[q] EXCEPT !.snapshots[process[q].call.key] = Divided(Result(q))], q)
     IN  Advance(r, "reduce", After)
  /\ UNCHANGED <<files, reports>>

\* A statistics' file, each process writing its part.
Report(r) ==
  /\ Ready(r, "report")
  /\ reports' = reports \cup
       {[key |-> process[q].call.key, part |-> SpatialRank(q),
         value |-> process[q].snapshots[process[q].call.key]] : q \in Spatial(r)}
  /\ LET After(q) == AfterReport(process[q]) IN Advance(r, "report", After)
  /\ UNCHANGED files

Next ==
  \/ Write
  \/ \E r \in Ranks : Gather(r) \/ Step(r) \/ Throw(r) \/ Reduce(r) \/ Report(r)

\* MPI completes collective calls that all have entered, and processes run.
Spec == Init /\ [][Next]_vars /\ WF_vars(Next)

-----------------------------------------------------------------------------
(* Correctness.                                                             *)

IsSum(v)    == v.of \in [Samples -> 0 .. EndTime] /\ v.divisions \in 0 .. 1
IsVolume(v) ==
  IsSum(v) /\ (v.minus = << >> \/ (Len(v.minus) = 1 /\ IsSum(v.minus[1])))

TypeOK ==
  /\ \A r \in Ranks : LET p == process[r] IN
       /\ p.at \in 1 .. SamplesPerProcess + 1
       /\ p.time \in 0 .. EndTime /\ p.lastTime \in 0 .. EndTime
       /\ p.saves \in 0 .. EndTime \div SampleInterval + 1
       /\ p.counted \in 0 .. EndTime \div StatisticsInterval + 1
       /\ Len(p.drawn) \in {p.at, p.at - 1}
       /\ Len(p.names) \in {0, MultiSample}
       /\ \A k \in DOMAIN p.snapshots : IsVolume(p.snapshots[k])
       /\ p.call.kind \in {"gather", "write", "step", "reduce", "report", "returned", "thrown"}
  /\ \A n \in DOMAIN files : n \in 0 .. EndTime \div SampleInterval
  /\ \A report \in reports : IsVolume(report.value)

InCollective(r) == process[r].call.kind \notin {"returned", "thrown"}

\* All processes of the communicator that r waits for are in a call on it.
Meet(r) ==
  /\ InCollective(r)
  /\ \A q \in Communicator(r, process[r].call.kind) :
       InCollective(q) /\ Communicator(q, process[q].call.kind) = Communicator(r, process[r].call.kind)

\* When the processes of a communicator meet in a collective call, it is the
\* same call for all of them, about the same thing: the same file, new or not,
\* with the same datasets, the same sample with the same parameters at the
\* same time, the same volume of the same snapshot.  Groups have their own
\* clocks, and nothing but the order of the calls pairs these calls up
\* (StatisticsHelper.cpp:35, FiniteVolumeSimulatorCreator.cpp:68,
\* NetCDFMPIWriter.cpp:44).
CollectivesMatch ==
  \A r \in Ranks : Meet(r) =>
    \A q \in Communicator(r, process[r].call.kind) : process[q].call = process[r].call

\* A file of the samples holds, at each save time, datasets of as many samples
\* as have come to it, each with what that sample was at that time in all its
\* parts, and nothing written is lost when a later sample is added to the file
\* (FiniteVolumeSimulatorCreator.cpp:48, NetCDFMPIWriter.cpp:44).
FilesHoldSamples ==
  /\ \A n \in DOMAIN files :
       LET saved == (n + Fresh) * SampleInterval IN
       /\ files[n].time = saved
       /\ \A s \in DOMAIN files[n].datasets : \A part \in 0 .. MultiSpatial - 1 :
            files[n].datasets[s][part] = <<s, saved>>
  /\ \A r \in Ranks : \A k \in 1 .. process[r].at - 1 :
       \A n \in 0 .. EndTime \div SampleInterval - Fresh :
         n \in DOMAIN files /\ SampleOf(r, k) \in DOMAIN files[n].datasets

Mean == [of |-> [s \in Samples |-> 1], divisions |-> 1, minus |-> << >>]
MaximumOf(S) == CHOOSE x \in S : \A y \in S : y <= x

\* What is written as a mean has every sample in it once, from exactly the time
\* of the snapshot, and is divided once; a variance is that of all samples, less
\* the square of that mean; a time integral has every sample's time in the ball,
\* up to a step.  No sample is missed because another one threw: then nothing
\* is written.  When the processes that write return, all snapshots are there
\* (StatisticsHelper.cpp:35, FixedIntervalStatistics.cpp:73, Runner.cpp:39,
\* TimeIntegratedFunctionalStatistics.cpp:66).
StatisticsOfAllSamples ==
  /\ \A report \in reports :
       IF report.key = IntegralKey
       THEN /\ report.value.divisions = 1
            /\ \A s \in Samples :
                 LET missed == report.value.of[s] - 2 * BallRadius
                 IN  -MaximumOf(StepSizes) < missed /\ missed <= MaximumOf(StepSizes)
       ELSE report.value = IF report.key[3] = 1 THEN Mean ELSE [Mean EXCEPT !.minus = <<Mean>>]
  /\ \A r \in Ranks : process[r].call.kind = "returned" /\ StatisticalRank(r) = 0 =>
       {report.key : report \in {x \in reports : x.part = SpatialRank(r)}} =
         {IntegralKey} \cup UNION {{MeanKey(n * StatisticsInterval), VarianceKey(n * StatisticsInterval)} :
                                    n \in Fresh .. EndTime \div StatisticsInterval}

\* No random number is used twice: samples are independent, whichever process
\* draws them, and so are the components of a sample (STLMersenne.cpp:23).
IndependentSamples ==
  \A q, r \in Ranks : \A i \in DOMAIN process[q].drawn, j \in DOMAIN process[r].drawn :
    SampleOf(q, i) # SampleOf(r, j) =>
      {process[q].drawn[i][c] : c \in DOMAIN Components}
        \cap {process[r].drawn[j][c] : c \in DOMAIN Components} = {}

\* Unless a simulation throws, all processes return: nobody waits in a
\* collective call that another one never enters (Runner.cpp:39).
Completes ==
  <>(\/ \A r \in Ranks : process[r].call.kind = "returned"
     \/ \E r \in Ranks : process[r].call.kind = "thrown")
=============================================================================
