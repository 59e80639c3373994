-------------------------- MODULE SampleRuns_proofs --------------------------
(***************************************************************************)
(* The processes of Runner::run meet in the same collective calls, and      *)
(* files and statistics have every sample once, whatever the numbers of     *)
(* processes and samples, the intervals and the time steps.                 *)
(*                                                                         *)
(* A process is always in one of five states, by the collective call that   *)
(* it is in; what it has counted and integrated so far is determined by its *)
(* clock, up to a step.  The properties about several processes need that   *)
(* these agree where no call has made them: on their samples and saves.     *)
(***************************************************************************)
EXTENDS SampleRuns, GridIndexing, TLAPS, FiniteSetTheorems, NaturalsInduction, SequenceTheorems

-----------------------------------------------------------------------------
(* The inductive invariant.                                                 *)

\* The last save of a sample.
LastSave  == EndTime \div SampleInterval

\* The last snapshot of the statistics.
LastCount == EndTime \div StatisticsInterval

\* The names that makeGroupNames finds for the k-th samples.
NamesAt(k) == [i \in 1 .. MultiSample |-> SampleStart + SamplesPerProcess * (i - 1) + k - 1]

\* The keys of the snapshots that MeanVariance makes, and of all snapshots.
CountKeys == {<<1, n * StatisticsInterval, volume>> : n \in Fresh .. LastCount, volume \in {1, 2}}
AllKeys   == {IntegralKey} \cup CountKeys

\* By how much a time integral may miss its ball.
LargestStep == MaximumOf(StepSizes)

\* A time integral over the whole ball, up to a step.
Whole(a) ==
  /\ a \in 0 .. EndTime
  /\ -LargestStep < a - 2 * BallRadius /\ a - 2 * BallRadius <= LargestStep

\* A time integral up to time t.
Partial(a, t) ==
  LET begin == BallTime - BallRadius
  IN  IF t < begin THEN a = 0
      ELSE IF t <= BallTime + BallRadius
           THEN a \in 0 .. t /\ t - begin <= a /\ a <= (t - begin) + LargestStep
           ELSE Whole(a)

\* Process r has done sample s, when it is at its k-th one.
DoneBefore(r, k, s) == SampleOf(r, 1) <= s /\ s < SampleOf(r, k)

\* What process r has counted for snapshot n, when it has counted c of its k-th sample.
Counts(r, k, c, n) ==
  [of |-> [s \in Samples |-> IF DoneBefore(r, k, s) \/ (s = SampleOf(r, k) /\ n < c) THEN 1 ELSE 0],
   divisions |-> 0, minus |-> << >>]

\* What it has integrated, when the last call for its k-th sample was at time t.
IntegralOK(v, r, k, t) ==
  /\ v = [of |-> v.of, divisions |-> 0, minus |-> << >>]
  /\ v.of \in [Samples -> 0 .. EndTime]
  /\ \A s \in Samples :
       /\ DoneBefore(r, k, s) => Whole(v.of[s])
       /\ s = SampleOf(r, k) => Partial(v.of[s], t)
       /\ ~DoneBefore(r, k, s) /\ s # SampleOf(r, k) => v.of[s] = 0

\* The snapshots of process r; t = -1: no call for its k-th sample so far.
Volumes(snapshots, r, k, c, t) ==
  /\ DOMAIN snapshots =
       {<<1, n * StatisticsInterval, volume>> :
          n \in Fresh .. (IF k > 1 THEN LastCount ELSE c - 1), volume \in {1, 2}}
       \cup (IF k > 1 \/ t >= 0 THEN {IntegralKey} ELSE {})
  /\ \A n \in Fresh .. (IF k > 1 THEN LastCount ELSE c - 1), volume \in {1, 2} :
       snapshots[<<1, n * StatisticsInterval, volume>>] = Counts(r, k, c, n)
  /\ k > 1 \/ t >= 0 => IntegralOK(snapshots[IntegralKey], r, k, t)

\* The fields of a process.
Fields == {"at", "generated", "drawn", "names", "time", "saves", "counted", "lastTime",
           "snapshots", "call"}

\* s is a sequence, whatever its elements are.
IsSequence(s) == s \in Seq({s[i] : i \in DOMAIN s})

\* A counter that counts the save times up to now.
CountsTo(n, interval, time) == n >= 1 /\ (n - 1) * interval <= time /\ time < n * interval

\* Ready for callStatistics, for its k-th sample.
BeforeStatistics(r, p) ==
  IF p.time = 0 THEN Volumes(p.snapshots, r, p.at, Fresh, -1)
  ELSE /\ p.lastTime < p.time /\ p.time <= p.lastTime + LargestStep
       /\ CountsTo(p.counted, StatisticsInterval, p.lastTime)
       /\ p.time <= p.counted * StatisticsInterval
       /\ Volumes(p.snapshots, r, p.at, p.counted, p.lastTime)

\* In a write, for its k-th sample: the save that is due.
WriteState(r, p) ==
  /\ p.at \in 1 .. SamplesPerProcess /\ p.names = NamesAt(p.at)
  /\ p.saves \in Fresh .. LastSave /\ p.time = p.saves * SampleInterval
  /\ p.call = [kind |-> "write", new |-> p.at = 1, number |-> p.saves - Fresh,
               names |-> p.names, time |-> p.time]
  /\ BeforeStatistics(r, p)

\* At a step, its statistics called for the current time.
StepState(r, p) ==
  /\ p.at \in 1 .. SamplesPerProcess /\ p.names = NamesAt(p.at)
  /\ p.time < EndTime /\ p.lastTime = p.time
  /\ CountsTo(p.saves, SampleInterval, p.time)
  /\ CountsTo(p.counted, StatisticsInterval, p.time)
  /\ Volumes(p.snapshots, r, p.at, p.counted, p.time)

\* In makeGroupNames, its earlier samples done.
GatherState(r, p) ==
  /\ p.at \in 1 .. SamplesPerProcess /\ p.call = [kind |-> "gather"]
  /\ Volumes(p.snapshots, r, p.at, Fresh, -1)

\* What has been reduced, and reported.
Reduced(p) ==
  {j \in AllKeys : \/ p.call.kind = "reduce" /\ Before(j, p.call.key)
                   \/ p.call.kind = "report" /\ j[1] <= p.call.key[1]
                   \/ p.call.kind = "returned"}
Reported(p) ==
  {j \in AllKeys : \/ p.call.kind = "reduce" /\ j[1] < p.call.key[1]
                   \/ p.call.kind = "report" /\ Before(j, p.call.key)
                   \/ p.call.kind = "returned"}

\* MeanVariance is finalized.
IsFinal(p) == p.call.kind = "reduce" => p.call.key = IntegralKey

\* What is written in the end.
Final(v, key, final) ==
  IF key = IntegralKey
  THEN /\ v = [of |-> v.of, divisions |-> 1, minus |-> << >>]
       /\ v.of \in [Samples -> 0 .. EndTime] /\ \A s \in Samples : Whole(v.of[s])
  ELSE v = IF key[3] = 2 /\ final THEN [Mean EXCEPT !.minus = <<Mean>>] ELSE Mean

\* All samples done: what is not reduced yet is what it has counted and integrated
\* itself; what is, is final on the process that writes it.
LastState(r, p) ==
  /\ p.at = SamplesPerProcess + 1
  /\ DOMAIN p.snapshots = AllKeys
  /\ \/ \E key \in AllKeys : p.call = [kind |-> "reduce", key |-> key]
     \/ StatisticalRank(r) = 0 /\ \E key \in AllKeys : p.call = [kind |-> "report", key |-> key]
     \/ p.call = [kind |-> "returned"]
  /\ \A key \in AllKeys \ Reduced(p) :
       IF key = IntegralKey THEN IntegralOK(p.snapshots[key], r, SamplesPerProcess + 1, -1)
       ELSE p.snapshots[key] = Counts(r, SamplesPerProcess + 1, Fresh, Fresh)
  /\ \A key \in Reduced(p) :
       IF StatisticalRank(r) = 0 THEN Final(p.snapshots[key], key, IsFinal(p))
       ELSE /\ p.snapshots[key] = [of |-> p.snapshots[key].of, divisions |-> 1, minus |-> << >>]
            /\ p.snapshots[key].of \in [Samples -> 0 .. EndTime]

\* What holds of a process whatever its call is.
FieldsOK(p) ==
  /\ DOMAIN p = Fields
  /\ IsSequence(p.drawn) /\ Len(p.drawn) = IF p.at <= SamplesPerProcess THEN p.at ELSE p.at - 1
  /\ p.names = << >> \/ \E k \in 1 .. SamplesPerProcess : p.names = NamesAt(k)
  /\ p.time \in 0 .. EndTime /\ p.lastTime \in 0 .. EndTime
  /\ p.saves \in 0 .. LastSave + 1 /\ p.counted \in 0 .. LastCount + 1

\* The call of a step.
StepCall(r, p) == [kind |-> "step", sample |-> SampleOf(r, p.at), numbers |-> p.drawn[p.at], time |-> p.time]

\* The states of a process, by its call.
StateOK(r, p) ==
  /\ FieldsOK(p)
  /\ \/ GatherState(r, p)
     \/ WriteState(r, p)
     \/ StepState(r, p) /\ p.call = StepCall(r, p)
     \/ StepState(r, p) /\ p.call = [kind |-> "thrown"]
     \/ LastState(r, p)

\* The next save of the current sample, and its time.
Sampling(p) == p.call.kind \in {"write", "step", "thrown"}
Saved(p) == IF Sampling(p) THEN p.saves ELSE Fresh
Clock(p) == IF Sampling(p) THEN p.time ELSE 0

\* What is the same on several processes, whatever they have in between: all are at
\* the same sample and save; those of a group have one clock, have drawn the same and
\* reported the same; those of a column gather and have reduced the same.
Together(state) ==
  /\ \A q, r \in Ranks : state[q].at = state[r].at /\ Saved(state[q]) = Saved(state[r])
  /\ \A r \in Ranks : \A q \in Spatial(r) :
       /\ Clock(state[q]) = Clock(state[r])
       /\ state[q].drawn = state[r].drawn /\ state[q].generated = state[r].generated
       /\ StatisticalRank(r) = 0 => Reported(state[q]) = Reported(state[r])
  /\ \A r \in Ranks : \A q \in Statistical(r) :
       /\ state[q].call.kind = "gather" <=> state[r].call.kind = "gather"
       /\ Reduced(state[q]) = Reduced(state[r])

\* The files when every process is at its k-th sample and its next save is this one.
FilesOK(k, saves) ==
  /\ \A m \in DOMAIN files :
       /\ m \in 0 .. LastSave - Fresh
       /\ files[m].time = (m + Fresh) * SampleInterval
       /\ \A s \in DOMAIN files[m].datasets : \A part \in 0 .. MultiSpatial - 1 :
            files[m].datasets[s][part] = <<s, files[m].time>>
  /\ \A m \in 0 .. LastSave - Fresh : \A r \in Ranks : \A j \in 1 .. SamplesPerProcess :
       j < k \/ (j = k /\ m + Fresh < saves) =>
         m \in DOMAIN files /\ SampleOf(r, j) \in DOMAIN files[m].datasets

\* What is written is final, and it is what those who write have reported.
ReportsOK ==
  /\ \A x \in reports : x.key \in AllKeys /\ Final(x.value, x.key, TRUE)
  /\ \A r \in Ranks : StatisticalRank(r) = 0 =>
       {x.key : x \in {y \in reports : y.part = SpatialRank(r)}} = Reported(process[r])

\* The inductive invariant.
IInv ==
  /\ DOMAIN process = Ranks
  /\ \A r \in Ranks : StateOK(r, process[r])
  /\ Together(process)
  /\ \A r \in Ranks : FilesOK(process[r].at, Saved(process[r]))
  /\ ReportsOK

-----------------------------------------------------------------------------
(* Processes, groups and samples.                                           *)

\* The processes are those of all groups with all parts.
LEMMA GroupAndPart ==
  ASSUME NEW r \in Ranks
  PROVE  /\ StatisticalRank(r) \in 0 .. MultiSample - 1
         /\ SpatialRank(r) \in 0 .. MultiSpatial - 1
         /\ r = SpatialRank(r) + StatisticalRank(r) * MultiSpatial
         /\ r \in Nat
  <1>1. MultiSample \in Nat /\ MultiSpatial \in Nat /\ MultiSpatial > 0 /\ MultiSample > 0
    BY CountsAssumption
  <1>2. PICK m \in Nat : m = MultiSample * MultiSpatial /\ m = MultiSpatial * MultiSample
    BY <1>1, Z3
  <1>3. r \in Nat /\ r < m
    BY <1>1, <1>2 DEF Ranks
  <1>4. PICK g \in Nat, part \in 0 .. MultiSpatial - 1 :
          g = r \div MultiSpatial /\ part = r % MultiSpatial /\ r = MultiSpatial * g + part
    BY <1>1, <1>3, DivMod
  <1>5. PICK gm \in Nat : gm = g * MultiSpatial /\ gm = MultiSpatial * g
    BY <1>1, Z3
  <1>6. part \in Nat /\ part < MultiSpatial /\ part + g * MultiSpatial < MultiSpatial * MultiSample
    BY <1>1, <1>2, <1>3, <1>4, <1>5
  <1>7. g < MultiSample
    BY <1>1, <1>6, LayerOf
  <1> QED
    BY <1>1, <1>3, <1>4, <1>5, <1>7 DEF StatisticalRank, SpatialRank

\* Every group has a process for every part.
LEMMA RankOf ==
  ASSUME NEW g \in 0 .. MultiSample - 1, NEW part \in 0 .. MultiSpatial - 1
  PROVE  \E r \in Ranks : StatisticalRank(r) = g /\ SpatialRank(r) = part
  <1>1. MultiSample \in Nat /\ MultiSpatial \in Nat /\ MultiSpatial > 0 /\ MultiSample > 0
    BY CountsAssumption
  <1>2. g \in Nat /\ part \in Nat /\ part < MultiSpatial /\ g < MultiSample
    BY <1>1
  <1>3. part + g * MultiSpatial < MultiSpatial * MultiSample
    BY <1>1, <1>2, LayersBelow
  <1>4. MultiSpatial * MultiSample = MultiSample * MultiSpatial /\ g * MultiSpatial \in Nat
        /\ MultiSample * MultiSpatial \in Nat
    BY <1>1, <1>2, Z3
  <1>5. part + g * MultiSpatial \in Ranks
    BY <1>2, <1>3, <1>4 DEF Ranks
  <1>6. (part + g * MultiSpatial) % MultiSpatial = part
        /\ (part + g * MultiSpatial) \div MultiSpatial = g
    BY <1>1, <1>2, DivModUnique
  <1> QED
    BY <1>5, <1>6 DEF StatisticalRank, SpatialRank

\* A process is determined by its group and its part.
LEMMA OneRank ==
  ASSUME NEW q \in Ranks, NEW r \in Ranks,
         StatisticalRank(q) = StatisticalRank(r), SpatialRank(q) = SpatialRank(r)
  PROVE  q = r
  BY GroupAndPart, Zenon

\* An interval that divides the end time has its last multiple there.
LEMMA Counted ==
  ASSUME NEW n \in Nat, n > 0, EndTime % n = 0
  PROVE  EndTime \div n \in Nat /\ (EndTime \div n) * n = EndTime /\ EndTime \div n > 0
  <1>1. EndTime \in Nat /\ EndTime > 0
    BY TimesAssumption
  <1>2. PICK q \in Nat, x \in 0 .. n - 1 : q = EndTime \div n /\ x = EndTime % n /\ EndTime = n * q + x
    BY <1>1, DivMod
  <1>3. EndTime = n * q
    BY <1>2
  <1>4. q * n = EndTime /\ q > 0
    BY <1>1, <1>3, Z3
  <1> QED
    BY <1>2, <1>4

\* The numbers that the assumptions on times are about.
LEMMA LastTimes ==
  /\ EndTime \in Nat /\ EndTime > 0
  /\ SampleInterval \in Nat /\ SampleInterval > 0
  /\ StatisticsInterval \in Nat /\ StatisticsInterval > 0
  /\ LastSave \in Nat /\ LastSave > 0 /\ LastSave * SampleInterval = EndTime
  /\ LastCount \in Nat /\ LastCount > 0 /\ LastCount * StatisticsInterval = EndTime
  /\ Fresh \in {0, 1}
  BY TimesAssumption, Counted DEF LastSave, LastCount, Fresh

\* The numbers of samples and of processes; all samples are given out.
LEMMA SamplesCounted ==
  /\ SamplesPerProcess \in Nat /\ SamplesPerProcess > 0
  /\ SamplesPerProcess * MultiSample = NumberOfSamples
  /\ SampleStart \in Nat /\ MultiSample \in Nat /\ MultiSample > 0
  /\ NumberOfSamples \in Nat /\ NumberOfSamples > 0
  /\ MultiSpatial \in Nat /\ MultiSpatial > 0
  <1>1. MultiSample \in Nat /\ MultiSample > 0 /\ NumberOfSamples \in Nat /\ NumberOfSamples > 0
    BY CountsAssumption
  <1>2. PICK q \in Nat, x \in 0 .. MultiSample - 1 :
          /\ q = NumberOfSamples \div MultiSample /\ x = NumberOfSamples % MultiSample
          /\ NumberOfSamples = MultiSample * q + x
    BY <1>1, DivMod
  <1>3. NumberOfSamples = MultiSample * q
    <2>1. x = 0
      BY <1>2, DivisorAssumption, Zenon
    <2>2. PICK m \in Nat : m = MultiSample * q
      BY <1>1, <1>2, Z3
    <2> QED
      BY <1>2, <2>1, <2>2
  <1>4. q * MultiSample = NumberOfSamples /\ q > 0
    BY <1>1, <1>3, Z3
  <1> QED
    BY <1>1, <1>2, <1>4, CountsAssumption DEF SamplesPerProcess

\* A sample of the g-th group.
LEMMA SampleNumber ==
  ASSUME NEW r \in Ranks, NEW k \in Int
  PROVE  /\ SampleOf(r, k) \in Int
         /\ SampleOf(r, k) = SampleOf(r, 1) + k - 1
         /\ \A q \in Spatial(r) : SampleOf(q, k) = SampleOf(r, k)
  <1>1. PICK g \in Nat : g = StatisticalRank(r)
    BY GroupAndPart, SamplesCounted
  <1>2. PICK m \in Nat : m = SamplesPerProcess * g
    BY SamplesCounted, Z3
  <1>3. \A q \in Spatial(r) : StatisticalRank(q) = g
    BY <1>1 DEF Spatial
  <1> QED
    BY <1>1, <1>2, <1>3, SamplesCounted DEF SampleOf

\* A block of n in a row of m of them.
LEMMA GroupStarts ==
  ASSUME NEW n \in Nat, NEW g \in Nat, NEW m \in Nat, n * m \in Nat, g < m
  PROVE  n * g \in Nat /\ n * g + n <= n * m
  BY Z3

\* A process computes none but the samples of the run.
LEMMA SampleInRange ==
  ASSUME NEW r \in Ranks, NEW k \in 1 .. SamplesPerProcess
  PROVE  SampleOf(r, k) \in Samples
  <1>1. PICK g \in Nat : g = StatisticalRank(r) /\ g < MultiSample
    BY GroupAndPart, SamplesCounted
  <1>2. PICK a \in Nat : a = SamplesPerProcess * g /\ a + SamplesPerProcess <= NumberOfSamples
    BY <1>1, SamplesCounted, GroupStarts
  <1> QED
    BY <1>1, <1>2, SamplesCounted DEF SampleOf, Samples

\* loadBalance gives each sample to one group: of every column of processes, those with
\* the same part of the grid, exactly one has computed it in the end, for any numbers of
\* samples and groups.
THEOREM OneOwner ==
  ASSUME NEW s \in Samples, NEW part \in 0 .. MultiSpatial - 1
  PROVE  \E q \in Ranks :
           /\ SpatialRank(q) = part
           /\ DoneBefore(q, SamplesPerProcess + 1, s)
           /\ \A r \in Ranks :
                DoneBefore(r, SamplesPerProcess + 1, s) => StatisticalRank(r) = StatisticalRank(q)
  <1> DEFINE n == SamplesPerProcess
             x == s - SampleStart
  <1>1. n \in Nat /\ n > 0 /\ x \in Nat /\ x < NumberOfSamples
    BY SamplesCounted DEF Samples
  <1>2. PICK g \in Nat, y \in 0 .. n - 1 : x = n * g + y
    BY <1>1, DivMod
  <1>3. PICK ng \in Nat : ng = n * g /\ ng = g * n
    BY <1>1, Z3
  <1>4. g < MultiSample
    <2>1. y + g * n < n * MultiSample
      BY <1>1, <1>2, <1>3, SamplesCounted
    <2>2. y \in Nat /\ y < n
      BY <1>1
    <2> QED
      BY <1>1, <2>1, <2>2, SamplesCounted, LayerOf
  <1>5. PICK q \in Ranks : StatisticalRank(q) = g /\ SpatialRank(q) = part
    BY <1>4, RankOf, SamplesCounted
  <1>6. DoneBefore(q, n + 1, s)
    BY <1>1, <1>2, <1>3, <1>5, SamplesCounted DEF DoneBefore, SampleOf, Samples
  <1>7. ASSUME NEW r \in Ranks, DoneBefore(r, n + 1, s) PROVE StatisticalRank(r) = g
    <2>1. PICK h \in Nat : h = StatisticalRank(r)
      BY GroupAndPart, SamplesCounted
    <2>2. PICK nh \in Nat : nh = n * h
      BY <1>1, <2>1, Z3
    <2>3. nh <= x /\ x < nh + n
      BY <1>1, <1>7, <2>1, <2>2, SamplesCounted DEF DoneBefore, SampleOf, Samples
    <2>4. ng < nh + n /\ nh < ng + n
      BY <1>1, <1>2, <1>3, <2>3
    <2>5. n * g < n * h + n /\ n * h < n * g + n
      BY <1>3, <2>2, <2>4
    <2>6. g = h
      <3> HIDE DEF n
      <3> QED
        BY <1>1, <2>1, <2>5, Z3
    <2> QED
      BY <2>1, <2>6
  <1> QED
    BY <1>5, <1>6, <1>7

-----------------------------------------------------------------------------
(* Reductions: what a sum over a column is.                                 *)

\* What process q has of sample s in the volume that it reduces.
OperandOf(state, q, s) == state[q].snapshots[state[q].call.key].of[s]

\* MapThenSumSet, as the recursion over the subsets that it is.
IsSums(sums, S, state, s) ==
  sums = [T \in SUBSET S |->
            IF T = {} THEN 0
            ELSE OperandOf(state, CHOOSE x \in T : TRUE, s) + sums[T \ {CHOOSE x \in T : TRUE}]]

SumAt(state, S, s) == (CHOOSE sums : IsSums(sums, S, state, s))[S]

\* If all but one of them have zero, the sum is that of the one.
LEMMA SumOfOne ==
  ASSUME NEW S, IsFiniteSet(S), NEW state, NEW s, NEW q \in S,
         OperandOf(state, q, s) \in Nat,
         \A x \in S \ {q} : OperandOf(state, x, s) = 0
  PROVE  SumAt(state, S, s) = OperandOf(state, q, s)
  <1> DEFINE Term(x) == OperandOf(state, x, s)
             Chosen(T) == CHOOSE x \in T : TRUE
             one == [T \in SUBSET S |-> IF q \in T THEN Term(q) ELSE 0]
             sums == CHOOSE sums : IsSums(sums, S, state, s)
  <1>1. \A T \in SUBSET S : T # {} => Chosen(T) \in T
    OBVIOUS
  <1>2. \A x \in S : x # q => Term(x) = 0
    OBVIOUS
  <1>3. Term(q) \in Nat
    OBVIOUS
  <1>4. IsSums(one, S, state, s)
    <2>1. \A T \in SUBSET S : one[T] = IF T = {} THEN 0 ELSE Term(Chosen(T)) + one[T \ {Chosen(T)}]
      <3> TAKE T \in SUBSET S
      <3>1. CASE T = {}
        BY <3>1
      <3>2. CASE T # {}
        <4>1. PICK x : x = Chosen(T) /\ x \in T
          BY <1>1, <3>2
        <4>2. T \ {x} \in SUBSET S /\ x \in S
          BY <4>1
        <4>3. one[T] = IF q \in T THEN Term(q) ELSE 0
          OBVIOUS
        <4>4. one[T \ {x}] = IF q \in T \ {x} THEN Term(q) ELSE 0
          BY <4>2
        <4> HIDE DEF one, Term, Chosen
        <4>5. one[T] = Term(x) + one[T \ {x}]
          BY <1>2, <1>3, <4>1, <4>2, <4>3, <4>4
        <4> QED
          BY <3>2, <4>1, <4>5
      <3> QED
        BY <3>1, <3>2
    <2>2. one = [T \in SUBSET S |-> IF T = {} THEN 0 ELSE Term(Chosen(T)) + one[T \ {Chosen(T)}]]
      <3>1. one = [T \in SUBSET S |-> one[T]]
        OBVIOUS
      <3> HIDE DEF one
      <3> QED
        BY <2>1, <3>1
    <2> QED
      BY <2>2 DEF IsSums
  <1>5. IsSums(sums, S, state, s)
    BY <1>4, Zenon
  <1>6. \A T \in SUBSET S : sums[T] = IF T = {} THEN 0 ELSE Term(Chosen(T)) + sums[T \ {Chosen(T)}]
    <2> HIDE DEF sums
    <2> QED
      BY <1>5 DEF IsSums
  <1> HIDE DEF sums
  <1> DEFINE Bad == {T \in SUBSET S : sums[T] # one[T]}
  <1>7. Bad = {}
    <2> SUFFICES ASSUME Bad # {} PROVE FALSE
      OBVIOUS
    <2>1. Bad \subseteq FiniteSubsetsOf(S)
      BY FS_FiniteSubsetsOfFinite
    <2>2. PICK T \in Bad : \A U \in Bad : ~(<<U, T>> \in StrictSubsetOrdering(S))
      <3> HIDE DEF Bad
      <3> QED
        BY <2>1, FS_StrictSubsetOrderingWellFounded, WFMin, Zenon
    <2>3. T \in SUBSET S /\ sums[T] # one[T]
      OBVIOUS
    <2>4. T # {}
      BY <1>6, <2>3
    <2>5. PICK x : x = Chosen(T) /\ x \in T
      BY <1>1, <2>3, <2>4
    <2>6. T \ {x} \in SUBSET S /\ T \ {x} # T /\ x \in S
      BY <2>3, <2>5
    <2>7. <<T \ {x}, T>> \in StrictSubsetOrdering(S)
      BY <2>3, <2>6 DEF StrictSubsetOrdering
    <2>8. sums[T \ {x}] = one[T \ {x}]
      BY <2>2, <2>6, <2>7
    <2>9. sums[T] = Term(x) + one[T \ {x}]
      <3> HIDE DEF one, Term, Chosen
      <3> QED
        BY <1>6, <2>3, <2>4, <2>5, <2>8
    <2>10. one[T] = IF q \in T THEN Term(q) ELSE 0
      BY <2>3
    <2>11. one[T \ {x}] = IF q \in T \ {x} THEN Term(q) ELSE 0
      BY <2>6
    <2> HIDE DEF one, Term, Chosen
    <2> QED
      BY <1>2, <1>3, <2>3, <2>5, <2>6, <2>9, <2>10, <2>11
  <1>8. sums[S] = Term(q)
    BY <1>7
  <1>9. SumAt(state, S, s) = sums[S]
    BY Zenon DEF sums, SumAt
  <1> QED
    BY <1>8, <1>9

\* What the reduction of a volume returns is that recursion.
LEMMA SumIsRecursive ==
  ASSUME NEW S, NEW state
  PROVE  [s \in Samples |-> MapThenSumSet(LAMBDA q : state[q].snapshots[state[q].call.key].of[s], S)]
           = [s \in Samples |-> SumAt(state, S, s)]
  BY DEF MapThenSumSet, MapThenFoldSet, IsSums, OperandOf, SumAt

-----------------------------------------------------------------------------
(* Snapshots and their keys.                                                *)

\* The keys of the n-th snapshot.
CountKey(n, volume) == <<1, n * StatisticsInterval, volume>>

\* A multiple of an interval determines its factor.
LEMMA SameMultiple ==
  ASSUME NEW m \in Int, NEW n \in Int, NEW i \in Nat, i > 0, m * i = n * i
  PROVE  m = n
  BY Z3

\* A key determines its snapshot and its volume.
LEMMA CountKeyIsOne ==
  ASSUME NEW m \in Int, NEW n \in Int, NEW v, NEW w
  PROVE  /\ CountKey(m, v) = CountKey(n, w) <=> m = n /\ v = w
         /\ CountKey(m, v) # IntegralKey
  <1>1. CountKey(m, v) # IntegralKey
    BY DEF CountKey, IntegralKey
  <1>2. CountKey(m, v) = CountKey(n, w) => m * StatisticsInterval = n * StatisticsInterval /\ v = w
    BY DEF CountKey
  <1>3. m * StatisticsInterval = n * StatisticsInterval => m = n
    BY LastTimes, SameMultiple
  <1> QED
    BY <1>1, <1>2, <1>3, Zenon

\* The keys of means and variances are those of all snapshots of MeanVariance.
LEMMA KeysOfAll ==
  /\ CountKeys = {CountKey(n, volume) : n \in Fresh .. LastCount, volume \in {1, 2}}
  /\ \A n : /\ MeanKey(n * StatisticsInterval) = CountKey(n, 1)
             /\ VarianceKey(n * StatisticsInterval) = CountKey(n, 2)
  BY DEF CountKeys, CountKey, MeanKey, VarianceKey

\* What a key is.
LEMMA KeyForm ==
  ASSUME NEW key \in AllKeys
  PROVE  /\ key = <<key[1], key[2], key[3]>>
         /\ key[1] \in {1, 2} /\ key[2] \in Nat /\ key[3] \in {1, 2}
         /\ key[1] = 2 <=> key = IntegralKey
         /\ key[1] = 1 <=> key \in CountKeys
  <1>1. BallTime \in Nat
    BY TimesAssumption
  <1>2. CASE key = IntegralKey
    BY <1>1, <1>2 DEF IntegralKey, CountKeys
  <1>3. CASE key \in CountKeys
    <2>1. PICK n \in Fresh .. LastCount, volume \in {1, 2} : key = <<1, n * StatisticsInterval, volume>>
      BY <1>3 DEF CountKeys
    <2>2. PICK t \in Nat : t = n * StatisticsInterval
      <3>1. n \in Nat /\ StatisticsInterval \in Nat
        BY LastTimes
      <3> QED
        BY <3>1, Z3
    <2>3. key = <<1, t, volume>>
      BY <2>1, <2>2
    <2> QED
      BY <1>3, <2>3 DEF IntegralKey
  <1> QED
    BY <1>2, <1>3 DEF AllKeys

\* The maps' order of the keys is a strict total order.
LEMMA KeyOrder ==
  ASSUME NEW j \in AllKeys, NEW k \in AllKeys
  PROVE  /\ ~Before(j, j)
         /\ Before(j, k) => ~Before(k, j) /\ j[1] <= k[1] /\ j # k
         /\ j # k => Before(j, k) \/ Before(k, j)
         /\ \A l \in AllKeys : Before(j, k) /\ Before(k, l) => Before(j, l)
         /\ j[1] < k[1] => Before(j, k)
  <1>1. j[1] \in Nat /\ j[2] \in Nat /\ j[3] \in Nat /\ k[1] \in Nat /\ k[2] \in Nat /\ k[3] \in Nat
    BY KeyForm
  <1>2. j # k => j[1] # k[1] \/ j[2] # k[2] \/ j[3] # k[3]
    BY KeyForm, Zenon
  <1>3. ASSUME NEW l \in AllKeys PROVE Before(j, k) /\ Before(k, l) => Before(j, l)
    <2>1. l[1] \in Nat /\ l[2] \in Nat /\ l[3] \in Nat
      BY KeyForm
    <2> QED
      BY <1>1, <2>1 DEF Before
  <1> QED
    BY <1>1, <1>2, <1>3 DEF Before

\* The number of a key in its order.
KeyNumber(key) == IF key[1] = 1 THEN 2 * key[2] + key[3] ELSE 2 * EndTime + 3

\* Every set of keys that is not empty has a first one.
LEMMA LeastKey ==
  ASSUME NEW keys \in SUBSET AllKeys, keys # {}
  PROVE  /\ Least(keys) \in keys
         /\ \A j \in keys : j = Least(keys) \/ Before(Least(keys), j)
  <1> DEFINE numbers == {KeyNumber(key) : key \in keys}
  <1>1. \A key \in keys : KeyNumber(key) \in Nat
    BY KeyForm, LastTimes DEF KeyNumber
  <1>2. PICK n \in numbers : \A m \in numbers : ~(<<m, n>> \in OpToRel(<, Nat))
    <2>1. numbers \subseteq Nat /\ numbers # {}
      BY <1>1
    <2> HIDE DEF numbers
    <2> QED
      BY <2>1, NatLessThanWellFounded, WFMin
  <1>3. PICK k \in keys : n = KeyNumber(k)
    OBVIOUS
  <1>4. ASSUME NEW j \in keys PROVE j = k \/ Before(k, j)
    <2>1. ~(KeyNumber(j) < KeyNumber(k))
      BY <1>1, <1>2, <1>3 DEF OpToRel
    <2>2. KeyNumber(j) \in Nat /\ KeyNumber(k) \in Nat
      BY <1>1
    <2>3. j \in AllKeys /\ k \in AllKeys
      OBVIOUS
    <2>4. CASE k[1] = 1 /\ j[1] = 1
      <3>1. 2 * j[2] + j[3] >= 2 * k[2] + k[3]
        BY <2>1, <2>2, <2>4 DEF KeyNumber
      <3>2. /\ j[2] \in Nat /\ j[3] \in {1, 2} /\ k[2] \in Nat /\ k[3] \in {1, 2}
        BY KeyForm
      <3>3. j[2] > k[2] \/ (j[2] = k[2] /\ j[3] >= k[3])
        BY <3>1, <3>2
      <3>4. j # k => j[2] # k[2] \/ j[3] # k[3]
        BY <2>4, KeyForm, Zenon
      <3> QED
        BY <2>4, <3>2, <3>3, <3>4 DEF Before
    <2>5. CASE k[1] = 1 /\ j[1] = 2
      BY <2>5 DEF Before
    <2>6. CASE k[1] = 2 /\ j[1] = 2
      BY <2>6, KeyForm
    <2>7. CASE k[1] = 2 /\ j[1] = 1
      <3>1. 2 * j[2] + j[3] >= 2 * EndTime + 3
        BY <2>1, <2>2, <2>7 DEF KeyNumber
      <3>2. PICK m \in Fresh .. LastCount, v \in {1, 2} : j = CountKey(m, v)
        BY <2>7, KeyForm, KeysOfAll
      <3>3. m \in Nat /\ m <= LastCount
        BY LastTimes
      <3>4. m * StatisticsInterval <= LastCount * StatisticsInterval /\ m * StatisticsInterval \in Nat
        BY <3>3, LastTimes, Z3
      <3>5. j[2] <= EndTime /\ j[3] <= 2 /\ j[2] \in Nat /\ j[3] \in Nat
        BY <3>2, <3>4, LastTimes DEF CountKey
      <3> QED
        BY <3>1, <3>5, LastTimes
    <2> QED
      BY <2>3, <2>4, <2>5, <2>6, <2>7, KeyForm
  <1>5. \E l \in keys : \A j \in keys : j = l \/ Before(l, j)
    BY <1>4
  <1> QED
    BY <1>5, Zenon DEF Least

\* There is a largest time step.
LEMMA StepsBounded ==
  /\ LargestStep \in Nat /\ LargestStep > 0
  /\ \A dt \in StepSizes : dt \in Nat /\ dt > 0 /\ dt <= LargestStep
  <1>1. PICK largest \in StepSizes : \A dt \in StepSizes : dt <= largest
    BY TimesAssumption
  <1>2. LargestStep \in StepSizes /\ \A dt \in StepSizes : dt <= LargestStep
    BY <1>1, Zenon DEF LargestStep, MaximumOf
  <1> QED
    BY <1>2, TimesAssumption

-----------------------------------------------------------------------------
(* What is added to a snapshot.                                             *)

\* A snapshot, perhaps a new one, with what is added to it.
Found(f, key)   == IF key \in DOMAIN f THEN f[key] ELSE Zero
Plus(volume, s, w) == [volume EXCEPT !.of[s] = @ + w]

\* g is f with v for key.
IsPut(g, f, key, v) ==
  /\ DOMAIN g = DOMAIN f \cup {key} /\ g[key] = v
  /\ \A j \in DOMAIN f : j # key => g[j] = f[j]

\* What findOrCreateSnapshot finds or creates is added to, and no other snapshot is touched.
LEMMA AddedKeys ==
  ASSUME NEW f, NEW key, NEW s, NEW w
  PROVE  IsPut(Added(f, key, s, w), f, key, Plus(Found(f, key), s, w))
  <1> DEFINE v == Plus(Found(f, key), s, w)
  <1>1. Added(f, key, s, w) = [y \in DOMAIN f \cup {key} |-> IF y = key THEN v ELSE f[y]]
    BY DEF Added, Put, Plus, Found
  <1> HIDE DEF v
  <1>2. IsPut(Added(f, key, s, w), f, key, v)
    BY <1>1 DEF IsPut
  <1> QED
    BY <1>2 DEF v

\* The count of a sample is added once.
LEMMA CountOnce ==
  ASSUME NEW r \in Ranks, NEW k \in 1 .. SamplesPerProcess, NEW c \in Nat
  PROVE  LET s == SampleOf(r, k)
         IN  /\ Plus(Counts(r, k, c, c), s, 1) = Counts(r, k, c + 1, c)
             /\ k = 1 => Plus(Zero, s, 1) = Counts(r, k, c + 1, c)
             /\ \A n \in Int : n # c => Counts(r, k, c + 1, n) = Counts(r, k, c, n)
  <1> DEFINE s == SampleOf(r, k)
  <1>1. s \in Samples /\ ~DoneBefore(r, k, s)
    <2>1. s \in Int
      BY SampleNumber
    <2> QED
      BY <2>1, SampleInRange DEF DoneBefore
  <1>2. k = 1 => \A x \in Samples : ~DoneBefore(r, k, x)
    <2>1. SampleOf(r, 1) \in Int
      BY SampleNumber
    <2> QED
      BY <2>1, SamplesCounted DEF DoneBefore, Samples
  <1> HIDE DEF s
  <1>3. s = SampleOf(r, k)
    BY DEF s
  <1>4. Plus(Counts(r, k, c, c), s, 1) = Counts(r, k, c + 1, c)
    <2> DEFINE f == [x \in Samples |-> IF DoneBefore(r, k, x) \/ (x = s /\ c < c) THEN 1 ELSE 0]
               g == [x \in Samples |-> IF DoneBefore(r, k, x) \/ (x = s /\ c < c + 1) THEN 1 ELSE 0]
    <2>1. f[s] = 0 /\ g[s] = 1
      BY <1>1
    <2>2. \A x \in Samples : x # s => f[x] = g[x]
      OBVIOUS
    <2>3. f = [x \in Samples |-> f[x]] /\ g = [x \in Samples |-> g[x]]
      OBVIOUS
    <2>4. Counts(r, k, c, c) = [of |-> f, divisions |-> 0, minus |-> << >>]
          /\ Counts(r, k, c + 1, c) = [of |-> g, divisions |-> 0, minus |-> << >>]
      BY <1>3, Zenon DEF Counts
    <2> HIDE DEF f, g
    <2>5. [f EXCEPT ![s] = @ + 1] = g
      BY <1>1, <2>1, <2>2, <2>3
    <2> QED
      BY <2>4, <2>5 DEF Plus
  <1>5. k = 1 => Plus(Zero, s, 1) = Counts(r, k, c + 1, c)
    <2> SUFFICES ASSUME k = 1 PROVE Plus(Zero, s, 1) = Counts(r, k, c + 1, c)
      OBVIOUS
    <2>1. [[x \in Samples |-> 0] EXCEPT ![s] = @ + 1]
            = [x \in Samples |-> IF DoneBefore(r, k, x) \/ (x = s /\ c < c + 1) THEN 1 ELSE 0]
      BY <1>1, <1>2
    <2> QED
      BY <1>3, <2>1 DEF Counts, Zero, Plus
  <1>6. ASSUME NEW n \in Int, n # c PROVE Counts(r, k, c + 1, n) = Counts(r, k, c, n)
    <2>1. n < c + 1 <=> n < c
      BY <1>6
    <2> QED
      BY <2>1 DEF Counts
  <1> QED
    BY <1>3, <1>4, <1>5, <1>6

\* Which keys there are.
KeysAt(k, c, t) ==
  {<<1, n * StatisticsInterval, volume>> :
     n \in Fresh .. (IF k > 1 THEN LastCount ELSE c - 1), volume \in {1, 2}}
  \cup (IF k > 1 \/ t >= 0 THEN {IntegralKey} ELSE {})

\* Volumes, taken apart.
LEMMA VolumesParts ==
  ASSUME NEW f, NEW r, NEW k, NEW c, NEW t
  PROVE  Volumes(f, r, k, c, t) <=>
           /\ DOMAIN f = KeysAt(k, c, t)
           /\ \A n \in Fresh .. (IF k > 1 THEN LastCount ELSE c - 1), volume \in {1, 2} :
                f[CountKey(n, volume)] = Counts(r, k, c, n)
           /\ k > 1 \/ t >= 0 => IntegralOK(f[IntegralKey], r, k, t)
  BY DEF Volumes, KeysAt, CountKey

\* KeysAt, key by key.
UpTo(k, c) == IF k > 1 THEN LastCount ELSE c - 1
HasKeys(keys, k, c, t) ==
  /\ \A n \in Int, volume \in {1, 2} : CountKey(n, volume) \in keys <=> n \in Fresh .. UpTo(k, c)
  /\ IntegralKey \in keys <=> k > 1 \/ t >= 0
  /\ \A key \in keys : \/ key = IntegralKey
                        \/ \E n \in Fresh .. UpTo(k, c), volume \in {1, 2} : key = CountKey(n, volume)

\* That is what these keys are.
LEMMA KeysAtIs ==
  ASSUME NEW k \in Int, NEW c \in Int, NEW t \in Int
  PROVE  HasKeys(KeysAt(k, c, t), k, c, t)
  <1> DEFINE upTo == IF k > 1 THEN LastCount ELSE c - 1
             counts == {CountKey(n, volume) : n \in Fresh .. upTo, volume \in {1, 2}}
             integrals == IF k > 1 \/ t >= 0 THEN {IntegralKey} ELSE {}
  <1>1. KeysAt(k, c, t) = counts \cup integrals
    BY DEF KeysAt, CountKey
  <1>2. ASSUME NEW n \in Int, NEW volume \in {1, 2}, CountKey(n, volume) \in counts
        PROVE  n \in Fresh .. upTo
    <2>1. PICK m \in Fresh .. upTo, w \in {1, 2} : CountKey(n, volume) = CountKey(m, w)
      BY <1>2
    <2>2. m \in Int
      OBVIOUS
    <2>3. n = m
      BY <2>1, <2>2, CountKeyIsOne
    <2> QED
      BY <2>3
  <1>3. \A n \in Int : \A volume : CountKey(n, volume) # IntegralKey
    BY CountKeyIsOne
  <1>4. \A n \in Fresh .. upTo, volume \in {1, 2} : CountKey(n, volume) \in counts
    OBVIOUS
  <1>5. IntegralKey \notin counts
    BY <1>3
  <1>6. \A n \in Int, volume \in {1, 2} : CountKey(n, volume) \in KeysAt(k, c, t) <=> n \in Fresh .. upTo
    BY <1>1, <1>2, <1>3, <1>4
  <1>7. IntegralKey \in KeysAt(k, c, t) <=> k > 1 \/ t >= 0
    BY <1>1, <1>5
  <1>8. \A key \in KeysAt(k, c, t) :
          key = IntegralKey \/ \E n \in Fresh .. upTo, volume \in {1, 2} : key = CountKey(n, volume)
    BY <1>1
  <1> QED
    BY <1>6, <1>7, <1>8, Zenon DEF HasKeys, UpTo

\* MeanVariance's snapshot of a save has the sample once more.
LEMMA CountAdded ==
  ASSUME NEW r \in Ranks, NEW k \in 1 .. SamplesPerProcess, NEW c \in Fresh .. LastCount, NEW t \in Int,
         NEW f, Volumes(f, r, k, c, t)
  PROVE  LET s == SampleOf(r, k)
             time == c * StatisticsInterval
         IN  Volumes(Added(Added(f, MeanKey(time), s, 1), VarianceKey(time), s, 1), r, k, c + 1, t)
  <1>0. PICK d \in Int : d = c + 1 /\ d - 1 = c
    BY LastTimes
  <1> DEFINE s == SampleOf(r, k)
             m == CountKey(c, 1)
             v == CountKey(c, 2)
             g == Added(f, m, s, 1)
             h == Added(g, v, s, 1)
             old == IF k > 1 THEN LastCount ELSE c - 1
             new == IF k > 1 THEN LastCount ELSE c
  <1>1. c \in Int /\ k \in Int /\ c \in Nat /\ k \in Nat /\ k >= 1
        /\ LastCount \in Nat /\ Fresh \in Nat /\ Fresh <= c /\ c <= LastCount
        /\ c + 1 \in Int /\ (c + 1) - 1 = c
    BY LastTimes, SamplesCounted
  <1>2. /\ DOMAIN f = KeysAt(k, c, t)
        /\ \A n \in Fresh .. old, volume \in {1, 2} : f[CountKey(n, volume)] = Counts(r, k, c, n)
        /\ k > 1 \/ t >= 0 => IntegralOK(f[IntegralKey], r, k, t)
    BY VolumesParts
  <1>2a. HasKeys(DOMAIN f, k, c, t)
    BY <1>1, <1>2, KeysAtIs, Zenon
  <1>2b. HasKeys(KeysAt(k, d, t), k, d, t)
    BY <1>0, <1>1, KeysAtIs, Zenon
  <1>2c. UpTo(k, c) = old /\ UpTo(k, d) = new
    BY <1>0 DEF UpTo
  <1>3. c \in Fresh .. old <=> k > 1
    BY <1>1
  <1>4. m \in DOMAIN f <=> k > 1
    BY <1>1, <1>2, <1>3, <1>2a, <1>2b, <1>2c DEF HasKeys
  <1>5. v \in DOMAIN f <=> k > 1
    BY <1>1, <1>2, <1>3, <1>2a, <1>2b, <1>2c DEF HasKeys
  <1>5a. \A key \in KeysAt(k, d, t) :
            key = IntegralKey \/ \E n \in Fresh .. new, volume \in {1, 2} : key = CountKey(n, volume)
    BY <1>2b, <1>2c DEF HasKeys
  <1>6. \A n \in Int, volume \in {1, 2} :
          /\ CountKey(n, volume) = m <=> n = c /\ volume = 1
          /\ CountKey(n, volume) = v <=> n = c /\ volume = 2
    BY <1>1, CountKeyIsOne
  <1>7. m # v /\ m # IntegralKey /\ v # IntegralKey
    BY <1>1, CountKeyIsOne
  <1>8. /\ Plus(Counts(r, k, c, c), s, 1) = Counts(r, k, c + 1, c)
        /\ k = 1 => Plus(Zero, s, 1) = Counts(r, k, c + 1, c)
        /\ \A n \in Int : n # c => Counts(r, k, c + 1, n) = Counts(r, k, c, n)
    BY <1>1, CountOnce
  <1> HIDE DEF s
  <1>9. k > 1 => f[m] = Counts(r, k, c, c) /\ f[v] = Counts(r, k, c, c)
    BY <1>2, <1>3
  <1>10. Plus(Found(f, m), s, 1) = Counts(r, k, c + 1, c)
    <2>1. CASE k > 1
      BY <2>1, <1>4, <1>8, <1>9 DEF Found
    <2>2. CASE k = 1
      BY <2>2, <1>4, <1>8 DEF Found
    <2> QED
      BY <1>1, <2>1, <2>2
  <1>11. Plus(Found(f, v), s, 1) = Counts(r, k, c + 1, c)
    <2>1. CASE k > 1
      BY <2>1, <1>5, <1>8, <1>9 DEF Found
    <2>2. CASE k = 1
      BY <2>2, <1>5, <1>8 DEF Found
    <2> QED
      BY <1>1, <2>1, <2>2
  <1> HIDE DEF m, v
  <1>12. /\ DOMAIN g = DOMAIN f \cup {m} /\ g[m] = Counts(r, k, c + 1, c)
         /\ \A j \in DOMAIN f : j # m => g[j] = f[j]
    <2>1. IsPut(g, f, m, Plus(Found(f, m), s, 1))
      BY AddedKeys, Zenon
    <2> HIDE DEF g
    <2> QED
      BY <2>1, <1>10 DEF IsPut
  <1>13. Found(g, v) = Found(f, v)
    BY <1>7, <1>12 DEF Found
  <1> HIDE DEF g
  <1>14. /\ DOMAIN h = DOMAIN g \cup {v} /\ h[v] = Counts(r, k, c + 1, c)
         /\ \A j \in DOMAIN g : j # v => h[j] = g[j]
    <2>1. IsPut(h, g, v, Plus(Found(g, v), s, 1))
      BY AddedKeys, Zenon
    <2> HIDE DEF h
    <2> QED
      BY <2>1, <1>11, <1>13 DEF IsPut
  <1> HIDE DEF h
  <1>15. /\ DOMAIN h = DOMAIN f \cup {m, v} /\ h[m] = Counts(r, k, c + 1, c) /\ h[v] = Counts(r, k, c + 1, c)
         /\ \A j \in DOMAIN f : j # m /\ j # v => h[j] = f[j]
    BY <1>7, <1>12, <1>14
  <1>16. DOMAIN h = KeysAt(k, d, t)
    <2>1. ASSUME NEW key \in KeysAt(k, d, t) PROVE key \in DOMAIN h
      <3>1. CASE key = IntegralKey
        BY <2>1, <3>1, <1>0, <1>1, <1>2, <1>15, <1>2a, <1>2b, <1>2c DEF HasKeys
      <3>2. CASE \E n \in Fresh .. new, volume \in {1, 2} : key = CountKey(n, volume)
        <4>1. PICK n \in Fresh .. new, volume \in {1, 2} : key = CountKey(n, volume)
          BY <3>2
        <4>2. CASE n = c
          <5>1. key = m \/ key = v
            BY <4>1, <4>2 DEF m, v
          <5> QED
            BY <5>1, <1>15
        <4>3. CASE n # c
          <5>1. n \in Fresh .. old /\ n \in Int
            BY <4>3, <1>1
          <5>2. key \in KeysAt(k, c, t)
            BY <5>1, <4>1, <1>1, <1>2, <1>2a, <1>2b, <1>2c DEF HasKeys
          <5> QED
            BY <5>2, <1>2, <1>15
        <4> QED
          BY <4>2, <4>3
      <3> QED
        BY <3>1, <3>2, <2>1, <1>5a
    <2>2. ASSUME NEW key \in DOMAIN h PROVE key \in KeysAt(k, d, t)
      <3>1. c \in Fresh .. new
        BY <1>1
      <3>2. m \in KeysAt(k, d, t) /\ v \in KeysAt(k, d, t)
        BY <3>1, <1>1, <1>2a, <1>2b, <1>2c DEF m, v, HasKeys
      <3>3. ASSUME key \in KeysAt(k, c, t) PROVE key \in KeysAt(k, d, t)
        <4>1. CASE key = IntegralKey
          BY <3>3, <4>1, <1>0, <1>1, <1>2, <1>2a, <1>2b, <1>2c DEF HasKeys
        <4>2. CASE \E n \in Fresh .. old, volume \in {1, 2} : key = CountKey(n, volume)
          <5>1. PICK n \in Fresh .. old, volume \in {1, 2} : key = CountKey(n, volume)
            BY <4>2
          <5>2. n \in Fresh .. new /\ n \in Int
            BY <1>1
          <5> QED
            BY <5>1, <5>2, <1>0, <1>1, <1>2, <1>2a, <1>2b, <1>2c DEF HasKeys
        <4> QED
          BY <3>3, <4>1, <4>2, <1>1, <1>2, <1>2a, <1>2b, <1>2c DEF HasKeys
      <3> QED
        BY <3>2, <3>3, <1>2, <1>15
    <2> QED
      BY <2>1, <2>2
  <1>17. \A n \in Fresh .. new, volume \in {1, 2} : h[CountKey(n, volume)] = Counts(r, k, c + 1, n)
    <2> TAKE n \in Fresh .. new, volume \in {1, 2}
    <2>1. CASE n = c
      BY <2>1, <1>15 DEF m, v
    <2>2. CASE n # c
      <3>1. n \in Fresh .. old /\ n \in Int
        BY <2>2, <1>1
      <3>2. CountKey(n, volume) # m /\ CountKey(n, volume) # v
        BY <2>2, <3>1, <1>6
      <3>3. CountKey(n, volume) \in DOMAIN f
        BY <3>1, <1>1, <1>2, <1>2a, <1>2b, <1>2c DEF HasKeys
      <3> QED
        BY <2>2, <3>1, <3>2, <3>3, <1>2, <1>8, <1>15
    <2> QED
      BY <2>1, <2>2
  <1>18. k > 1 \/ t >= 0 => IntegralOK(h[IntegralKey], r, k, t)
    <2> SUFFICES ASSUME k > 1 \/ t >= 0 PROVE IntegralOK(h[IntegralKey], r, k, t)
      OBVIOUS
    <2>1. IntegralKey \in DOMAIN f
      BY <1>1, <1>2, <1>2a, <1>2b, <1>2c DEF HasKeys
    <2> QED
      BY <2>1, <1>2, <1>7, <1>15
  <1>19. Volumes(h, r, k, c + 1, t)
    <2>1. \A n \in Fresh .. (IF k > 1 THEN LastCount ELSE d - 1), volume \in {1, 2} :
            h[CountKey(n, volume)] = Counts(r, k, d, n)
      BY <1>0, <1>17
    <2>2. Volumes(h, r, k, d, t)
      BY <2>1, <1>0, <1>16, <1>18, VolumesParts
    <2> QED
      BY <2>2, <1>0
  <1>20. MeanKey(c * StatisticsInterval) = m /\ VarianceKey(c * StatisticsInterval) = v
    BY KeysOfAll DEF m, v
  <1> QED
    BY <1>19, <1>20, <1>0 DEF h, g, s

\* What is added to the time integral is the sample's, and of no other.
LEMMA IntegralAdded ==
  ASSUME NEW r \in Ranks, NEW k \in 1 .. SamplesPerProcess, NEW c \in Int, NEW t \in -1 .. EndTime,
         NEW f, Volumes(f, r, k, c, t), NEW dt \in Nat, NEW time \in 0 .. EndTime,
         \A a \in 0 .. EndTime : Partial(a, t) => a + dt \in 0 .. EndTime /\ Partial(a + dt, time)
  PROVE  Volumes(Added(f, IntegralKey, SampleOf(r, k), dt), r, k, c, time)
  <1> DEFINE s == SampleOf(r, k)
             found == Found(f, IntegralKey)
             v == Plus(found, s, dt)
             g == Added(f, IntegralKey, s, dt)
  <1>1. /\ DOMAIN f = KeysAt(k, c, t)
        /\ \A n \in Fresh .. (IF k > 1 THEN LastCount ELSE c - 1), volume \in {1, 2} :
             f[CountKey(n, volume)] = Counts(r, k, c, n)
        /\ k > 1 \/ t >= 0 => IntegralOK(f[IntegralKey], r, k, t)
    BY VolumesParts
  <1>2. /\ DOMAIN g = DOMAIN f \cup {IntegralKey} /\ g[IntegralKey] = v
        /\ \A j \in DOMAIN f : j # IntegralKey => g[j] = f[j]
    <2>1. IsPut(g, f, IntegralKey, v)
      BY AddedKeys, Zenon
    <2> HIDE DEF g, v
    <2> QED
      BY <2>1 DEF IsPut
  <1>3. k \in Int /\ k >= 1 /\ t \in Int /\ time \in Int /\ time >= 0 /\ EndTime \in Nat
    BY LastTimes, SamplesCounted
  <1>3a. HasKeys(DOMAIN f, k, c, t)
    BY <1>1, <1>3, KeysAtIs, Zenon
  <1>4. s \in Samples /\ SampleOf(r, 1) \in Int /\ s = SampleOf(r, 1) + k - 1
    BY SampleInRange, SampleNumber, SamplesCounted
  <1> HIDE DEF s, g
  <1>5. IntegralOK(found, r, k, t)
    <2>1. CASE k > 1 \/ t >= 0
      BY <2>1, <1>1, <1>3, <1>3a DEF Found, HasKeys, UpTo
    <2>2. CASE ~(k > 1 \/ t >= 0)
      <3>1. found = Zero /\ k = 1 /\ t = -1
        BY <2>2, <1>1, <1>3, <1>3a DEF Found, HasKeys, UpTo
      <3>2. \A x \in Samples : ~DoneBefore(r, 1, x)
        BY <1>4 DEF DoneBefore, Samples
      <3>3. Partial(0, -1)
        BY TimesAssumption DEF Partial
      <3> DEFINE none == [x \in Samples |-> 0]
      <3>4. Zero = [of |-> none, divisions |-> 0, minus |-> << >>]
        BY DEF Zero
      <3>5. none \in [Samples -> 0 .. EndTime] /\ \A x \in Samples : none[x] = 0
        BY <1>3
      <3> HIDE DEF none
      <3>6. Zero.of = none
        BY <3>4
      <3> QED
        BY <3>1, <3>2, <3>3, <3>4, <3>5, <3>6 DEF IntegralOK
    <2> QED
      BY <2>1, <2>2
  <1> HIDE DEF found
  <1>6. PICK of \in [Samples -> 0 .. EndTime] : found = [of |-> of, divisions |-> 0, minus |-> << >>] /\ of = found.of
    BY <1>5 DEF IntegralOK
  <1>7. \A x \in Samples :
          /\ DoneBefore(r, k, x) => Whole(of[x])
          /\ x = s => Partial(of[x], t)
          /\ ~DoneBefore(r, k, x) /\ x # s => of[x] = 0
    BY <1>5, <1>6, Zenon DEF IntegralOK, s
  <1>8. ~DoneBefore(r, k, s)
    BY <1>4 DEF DoneBefore, s
  <1>9. of[s] + dt \in 0 .. EndTime /\ Partial(of[s] + dt, time)
    BY <1>4, <1>7
  <1>10. PICK new \in [Samples -> 0 .. EndTime] : new = [of EXCEPT ![s] = @ + dt]
    BY <1>4, <1>9
  <1>11. v = [of |-> new, divisions |-> 0, minus |-> << >>]
    <2>1. v = [found EXCEPT !.of = [found.of EXCEPT ![s] = @ + dt]]
      BY DEF Plus
    <2>2. [found.of EXCEPT ![s] = @ + dt] = new
      BY <1>6, <1>10
    <2> HIDE DEF v
    <2> QED
      BY <1>6, <2>1, <2>2
  <1>12. new[s] = of[s] + dt /\ \A x \in Samples : x # s => new[x] = of[x]
    BY <1>4, <1>10
  <1> HIDE DEF v
  <1>13. v.of = new
    BY <1>11
  <1>14. IntegralOK(v, r, k, time)
    <2>1. \A x \in Samples :
            /\ DoneBefore(r, k, x) => Whole(new[x])
            /\ x = s => Partial(new[x], time)
            /\ ~DoneBefore(r, k, x) /\ x # s => new[x] = 0
      <3> TAKE x \in Samples
      <3>1. CASE x = s
        BY <3>1, <1>8, <1>9, <1>12
      <3>2. CASE x # s
        BY <3>2, <1>7, <1>12
      <3> QED
        BY <3>1, <3>2
    <2> QED
      BY <2>1, <1>11, <1>13, Zenon DEF IntegralOK, s
  <1>15. DOMAIN g = KeysAt(k, c, time)
    <2>1. KeysAt(k, c, time) = KeysAt(k, c, t) \cup {IntegralKey}
      BY <1>3 DEF KeysAt
    <2> QED
      BY <2>1, <1>1, <1>2
  <1>16. \A n \in Fresh .. (IF k > 1 THEN LastCount ELSE c - 1), volume \in {1, 2} :
           g[CountKey(n, volume)] = Counts(r, k, c, n)
    <2> TAKE n \in Fresh .. (IF k > 1 THEN LastCount ELSE c - 1), volume \in {1, 2}
    <2>1. n \in Int
      BY LastTimes
    <2>2. CountKey(n, volume) \in DOMAIN f /\ CountKey(n, volume) # IntegralKey
      BY <2>1, <1>1, <1>3, <1>3a, CountKeyIsOne DEF HasKeys, UpTo
    <2> QED
      BY <2>2, <1>1, <1>2
  <1>17. IntegralOK(g[IntegralKey], r, k, time)
    BY <1>2, <1>14
  <1> QED
    BY <1>15, <1>16, <1>17, VolumesParts DEF g, s

\* At the end of a sample the process has it as it has those before.
LEMMA SampleDone ==
  ASSUME NEW r \in Ranks, NEW k \in 1 .. SamplesPerProcess,
         NEW f, Volumes(f, r, k, LastCount + 1, EndTime)
  PROVE  Volumes(f, r, k + 1, Fresh, -1)
  <1>1. k \in Int /\ k >= 1 /\ k + 1 > 1 /\ LastCount \in Nat /\ EndTime >= 0 /\ (LastCount + 1) - 1 = LastCount
    BY LastTimes, SamplesCounted
  <1>2. /\ DOMAIN f = KeysAt(k, LastCount + 1, EndTime)
        /\ \A n \in Fresh .. LastCount, volume \in {1, 2} : f[CountKey(n, volume)] = Counts(r, k, LastCount + 1, n)
        /\ IntegralOK(f[IntegralKey], r, k, EndTime)
    BY <1>1, VolumesParts
  <1>3. KeysAt(k, LastCount + 1, EndTime) = KeysAt(k + 1, Fresh, -1)
    BY <1>1 DEF KeysAt
  <1>4. /\ SampleOf(r, k) \in Int /\ SampleOf(r, k + 1) = SampleOf(r, k) + 1
        /\ SampleOf(r, 1) \in Int /\ SampleOf(r, 1) <= SampleOf(r, k)
    BY <1>1, SampleNumber
  <1>5. \A s \in Samples : /\ DoneBefore(r, k + 1, s) <=> DoneBefore(r, k, s) \/ s = SampleOf(r, k)
                           /\ s = SampleOf(r, k + 1) => ~DoneBefore(r, k, s) /\ s # SampleOf(r, k)
    BY <1>4 DEF DoneBefore, Samples
  <1>6. ASSUME NEW n \in Fresh .. LastCount PROVE Counts(r, k, LastCount + 1, n) = Counts(r, k + 1, Fresh, n)
    <2>1. n < LastCount + 1 /\ ~(n < Fresh)
      BY <1>1, LastTimes
    <2> QED
      BY <2>1, <1>5 DEF Counts
  <1>7. IntegralOK(f[IntegralKey], r, k + 1, -1)
    <2>1. \A a : Partial(a, EndTime) => Whole(a)
      BY TimesAssumption, StepsBounded DEF Partial, Whole
    <2>2. Partial(0, -1)
      BY TimesAssumption DEF Partial
    <2> QED
      BY <1>2, <1>5, <2>1, <2>2 DEF IntegralOK
  <1> QED
    BY <1>1, <1>2, <1>3, <1>6, <1>7, VolumesParts

-----------------------------------------------------------------------------
(* A sample, step by step: what the statistics make of a process in one of  *)
(* the states of StateOK, what starts a sample, and what ends it.           *)

\* Multiples of an interval are in the order of their factors.
LEMMA Multiples ==
  ASSUME NEW a \in Int, NEW b \in Int, NEW i \in Nat, i > 0
  PROVE  /\ a * i \in Int /\ (a + 1) * i = a * i + i /\ (a - 1) * i = a * i - i
         /\ a * i <= b * i => a <= b
         /\ a * i < b * i => a < b
         /\ 0 * i = 0 /\ 1 * i = i
  <1>1. a * i \in Int /\ (a + 1) * i = a * i + i /\ (a - 1) * i = a * i - i
    BY Z3
  <1>2. a * i <= b * i => a <= b
    BY Z3
  <1>3. a * i < b * i => a < b
    BY Z3
  <1> QED
    BY <1>1, <1>2, <1>3

\* A time integral from one call to the next.
LEMMA PartialStep ==
  ASSUME NEW t \in -1 .. EndTime, NEW time \in 0 .. EndTime, NEW a \in 0 .. EndTime, NEW dt,
         Partial(a, t),
         \/ t = -1 /\ time = 0 /\ dt = 0
         \/ /\ 0 <= t /\ t < time /\ time <= t + LargestStep
            /\ dt = IF BallTime - BallRadius <= time /\ time <= BallTime + BallRadius THEN time - t ELSE 0
  PROVE  dt \in Nat /\ a + dt \in 0 .. EndTime /\ Partial(a + dt, time)
  <1>1. PICK b \in Nat, e \in Nat : b = BallTime - BallRadius /\ e = BallTime + BallRadius
                                    /\ e - b = 2 * BallRadius /\ e <= EndTime /\ BallRadius \in Nat
    BY TimesAssumption
  <1>2. EndTime \in Nat /\ LargestStep \in Nat /\ LargestStep > 0
    BY LastTimes, StepsBounded
  <1> QED
    BY <1>1, <1>2 DEF Partial, Whole

\* What MeanVariance changes of a process.
LEMMA MeanVarianceFields ==
  ASSUME NEW p, DOMAIN p = Fields, NEW s
  PROVE  LET q == MeanVariance(p, s)
             c == Restarted(p)
             due == p.time >= c * StatisticsInterval
         IN  /\ DOMAIN q = Fields /\ q.at = p.at /\ q.generated = p.generated /\ q.drawn = p.drawn
             /\ q.names = p.names /\ q.time = p.time /\ q.saves = p.saves /\ q.lastTime = p.lastTime
             /\ q.call = p.call
             /\ q.counted = IF due THEN c + 1 ELSE c
             /\ q.snapshots = IF due THEN Added(Added(p.snapshots, MeanKey(p.time), s, 1), VarianceKey(p.time), s, 1)
                              ELSE p.snapshots
  BY DEF MeanVariance, Fields

\* What TimeIntegratedFunctionalStatistics changes of it.
LEMMA IntegralFields ==
  ASSUME NEW p, DOMAIN p = Fields, NEW s
  PROVE  LET q == Integral(p, s)
             inside == BallTime - BallRadius <= p.time /\ p.time <= BallTime + BallRadius
         IN  /\ DOMAIN q = Fields /\ q.at = p.at /\ q.generated = p.generated /\ q.drawn = p.drawn
             /\ q.names = p.names /\ q.time = p.time /\ q.saves = p.saves /\ q.counted = p.counted
             /\ q.call = p.call
             /\ q.lastTime = p.time
             /\ q.snapshots = Added(p.snapshots, IntegralKey, s,
                                    IF inside /\ p.time > p.lastTime THEN p.time - p.lastTime ELSE 0)
  BY DEF Integral, TimeHasPassed, Fields

\* In the k-th sample, before and after the statistics.
InSample(p) ==
  /\ FieldsOK(p) /\ p.at \in 1 .. SamplesPerProcess /\ p.names = NamesAt(p.at)
  /\ CountsTo(p.saves, SampleInterval, p.time)

\* FixedIntervalStatistics counts the snapshots up to now, also at a sample's first call.
LEMMA Counting ==
  ASSUME NEW r \in Ranks, NEW p, InSample(p), BeforeStatistics(r, p)
  PROVE  LET q == MeanVariance(p, SampleOf(r, p.at))
         IN  /\ q.counted \in 0 .. LastCount + 1 /\ CountsTo(q.counted, StatisticsInterval, p.time)
             /\ Volumes(q.snapshots, r, p.at, q.counted, IF p.time = 0 THEN -1 ELSE p.lastTime)
  <1> DEFINE s == SampleOf(r, p.at)
             q == MeanVariance(p, s)
             t == IF p.time = 0 THEN -1 ELSE p.lastTime
  <1>1. DOMAIN p = Fields /\ p.at \in 1 .. SamplesPerProcess
    BY DEF InSample, FieldsOK
  <1>2. PICK time \in Nat : time = p.time /\ time <= EndTime
    BY LastTimes DEF InSample, FieldsOK
  <1>3. p.counted \in Int /\ p.lastTime \in Nat /\ t \in Int
    BY LastTimes DEF InSample, FieldsOK
  <1>4. PICK c \in Int : c = Restarted(p)
    BY <1>2, <1>3, LastTimes DEF Restarted
  <1>5. Volumes(p.snapshots, r, p.at, c, t)
    BY <1>2, <1>4, Zenon DEF BeforeStatistics, Restarted
  <1>6. PICK x \in Int : x = c * StatisticsInterval /\ (c + 1) * StatisticsInterval = x + StatisticsInterval
                         /\ (c - 1) * StatisticsInterval = x - StatisticsInterval
    BY <1>4, LastTimes, Multiples
  <1>7. \/ c = Fresh /\ time = 0
        \/ c >= 1 /\ time > 0 /\ x - StatisticsInterval <= time /\ time <= x
    <2>1. CASE time = 0
      BY <2>1, <1>2, <1>4 DEF Restarted
    <2>2. CASE time # 0
      <3>1. c = p.counted
        BY <2>2, <1>2, <1>4 DEF Restarted
      <3>2. p.lastTime < p.time /\ CountsTo(p.counted, StatisticsInterval, p.lastTime)
            /\ p.time <= p.counted * StatisticsInterval
        BY <2>2, <1>2, Zenon DEF BeforeStatistics
      <3>3. c >= 1 /\ x - StatisticsInterval <= p.lastTime /\ p.time <= x
        BY <3>1, <3>2, <1>6 DEF CountsTo
      <3> QED
        BY <3>2, <3>3, <2>2, <1>2, <1>3, <1>6, LastTimes
    <2> QED
      BY <2>1, <2>2
  <1>8. (Fresh = 0 /\ x = 0) \/ (Fresh = 1 /\ x = StatisticsInterval) \/ c # Fresh
    <2>1. CASE c = 0
      BY <2>1, <1>6, LastTimes, Multiples
    <2>2. CASE c = 1
      BY <2>2, <1>6, LastTimes, Multiples
    <2> QED
      BY <2>1, <2>2, LastTimes
  <1>9. CASE time >= x
    <2>1. time = x
      BY <1>2, <1>7, <1>8, <1>9, LastTimes
    <2>2. c <= LastCount
      BY <1>2, <1>4, <1>6, <2>1, LastTimes, Multiples
    <2>3. c >= Fresh /\ c >= 0
      BY <1>7, LastTimes
    <2>4. q.counted = c + 1
          /\ q.snapshots = Added(Added(p.snapshots, MeanKey(x), s, 1), VarianceKey(x), s, 1)
      <3>1. p.time >= Restarted(p) * StatisticsInterval
        BY <1>2, <1>4, <1>6, <1>9
      <3>2. p.time = x
        BY <1>2, <2>1
      <3> QED
        BY <1>1, <1>4, <3>1, <3>2, MeanVarianceFields
    <2>5. c \in Fresh .. LastCount
      BY <2>2, <2>3, LastTimes
    <2>6. Volumes(q.snapshots, r, p.at, c + 1, t)
      <3> HIDE DEF t, q
      <3> QED
        BY <1>1, <1>3, <1>5, <1>6, <2>4, <2>5, CountAdded DEF s
    <2>7. CountsTo(c + 1, StatisticsInterval, p.time)
      BY <1>2, <1>4, <1>6, <2>1, <2>3, LastTimes DEF CountsTo
    <2> HIDE DEF q, t
    <2> QED
      BY <2>2, <2>3, <2>4, <2>6, <2>7, <1>4, LastTimes DEF q, t, s
  <1>10. CASE time < x
    <2>1. ~(p.time >= Restarted(p) * StatisticsInterval)
      BY <1>2, <1>4, <1>6, <1>10
    <2>2. q.counted = c /\ q.snapshots = p.snapshots
      BY <1>1, <1>4, <2>1, MeanVarianceFields
    <2>3. CountsTo(c, StatisticsInterval, p.time)
      <3>1. c >= 1 /\ x - StatisticsInterval <= time
        <4>1. CASE c = Fresh /\ time = 0
          BY <4>1, <1>8, <1>10, LastTimes
        <4>2. CASE c >= 1 /\ x - StatisticsInterval <= time
          BY <4>2
        <4> QED
          BY <1>7, <4>1, <4>2
      <3> QED
        BY <3>1, <1>2, <1>6, <1>10 DEF CountsTo
    <2>4. c \in 0 .. LastCount + 1
      BY <1>4, LastTimes DEF Restarted, InSample, FieldsOK
    <2> HIDE DEF q, t
    <2> QED
      BY <1>5, <2>2, <2>3, <2>4 DEF q, t, s
  <1> QED
    BY <1>2, <1>6, <1>9, <1>10

\* What p and q, a process before and after it did something, agree on.
SameSample(p, q) ==
  /\ q.at = p.at /\ q.generated = p.generated /\ q.drawn = p.drawn
  /\ q.names = p.names /\ q.time = p.time /\ q.saves = p.saves

\* Statistics have seen the sample at its present time.
AfterStatistics(r, p) ==
  /\ InSample(p) /\ p.lastTime = p.time
  /\ CountsTo(p.counted, StatisticsInterval, p.time)
  /\ Volumes(p.snapshots, r, p.at, p.counted, p.time)

\* The statistics are called for the current time.
LEMMA StatisticsCalled ==
  ASSUME NEW r \in Ranks, NEW p, InSample(p), BeforeStatistics(r, p)
  PROVE  LET s == SampleOf(r, p.at)
             q == Integral(MeanVariance(p, s), s)
         IN  SameSample(p, q) /\ AfterStatistics(r, q)
  <1> DEFINE s == SampleOf(r, p.at)
             m == MeanVariance(p, s)
             q == Integral(m, s)
             t == IF p.time = 0 THEN -1 ELSE p.lastTime
             inside == BallTime - BallRadius <= p.time /\ p.time <= BallTime + BallRadius
             dt == IF inside /\ p.time > p.lastTime THEN p.time - p.lastTime ELSE 0
  <1>1. DOMAIN p = Fields /\ p.at \in 1 .. SamplesPerProcess /\ p.time \in 0 .. EndTime
        /\ p.lastTime \in 0 .. EndTime
    BY DEF InSample, FieldsOK
  <1>2. /\ m.counted \in 0 .. LastCount + 1 /\ CountsTo(m.counted, StatisticsInterval, p.time)
        /\ Volumes(m.snapshots, r, p.at, m.counted, t)
    BY Counting
  <1> HIDE DEF s
  <1>3. DOMAIN m = Fields /\ SameSample(p, m) /\ m.lastTime = p.lastTime
    BY <1>1, MeanVarianceFields DEF SameSample
  <1> HIDE DEF m
  <1>4. /\ DOMAIN q = Fields /\ SameSample(p, q) /\ q.counted = m.counted /\ q.lastTime = p.time
        /\ q.snapshots = Added(m.snapshots, IntegralKey, s, dt)
    BY <1>3, IntegralFields DEF SameSample
  <1> HIDE DEF q
  <1>5. t \in -1 .. EndTime /\ EndTime \in Nat /\ m.counted \in Int
    BY <1>1, <1>2, LastTimes
  <1>6. \/ t = -1 /\ p.time = 0 /\ dt = 0
        \/ /\ 0 <= t /\ t < p.time /\ p.time <= t + LargestStep
           /\ dt = IF inside THEN p.time - t ELSE 0
    <2>1. CASE p.time = 0
      BY <2>1, <1>1
    <2>2. CASE p.time # 0
      <3>1. p.lastTime < p.time /\ p.time <= p.lastTime + LargestStep
        BY <2>2, Zenon DEF BeforeStatistics
      <3> QED
        BY <2>2, <3>1, <1>1
    <2> QED
      BY <2>1, <2>2
  <1>7. dt \in Nat
    BY <1>1
  <1>8. \A a \in 0 .. EndTime : Partial(a, t) => a + dt \in 0 .. EndTime /\ Partial(a + dt, p.time)
    <2> TAKE a \in 0 .. EndTime
    <2> SUFFICES ASSUME Partial(a, t) PROVE a + dt \in 0 .. EndTime /\ Partial(a + dt, p.time)
      OBVIOUS
    <2> HIDE DEF t
    <2>1. \/ t = -1 /\ p.time = 0 /\ dt = 0
          \/ /\ 0 <= t /\ t < p.time /\ p.time <= t + LargestStep
             /\ dt = IF BallTime - BallRadius <= p.time /\ p.time <= BallTime + BallRadius THEN p.time - t ELSE 0
      BY <1>6
    <2> HIDE DEF dt
    <2> QED
      BY <2>1, <1>1, <1>5, PartialStep
  <1> HIDE DEF dt, t
  <1>9. Volumes(q.snapshots, r, p.at, m.counted, p.time)
    BY <1>1, <1>2, <1>4, <1>5, <1>7, <1>8, IntegralAdded DEF s
  <1>10. InSample(q)
    BY <1>1, <1>2, <1>4 DEF InSample, FieldsOK, SameSample
  <1> QED
    BY <1>2, <1>4, <1>9, <1>10 DEF AfterStatistics, SameSample, q, m, s

\* A sequence, and one more.
LEMMA Appended ==
  ASSUME NEW f, IsSequence(f), NEW x
  PROVE  /\ IsSequence(Append(f, x)) /\ Len(Append(f, x)) = Len(f) + 1 /\ Len(f) \in Nat
         /\ DOMAIN f = 1 .. Len(f)
         /\ Append(f, x)[Len(f) + 1] = x
         /\ \A i \in 1 .. Len(f) : Append(f, x)[i] = f[i]
  <1> DEFINE S == {f[i] : i \in DOMAIN f}
  <1>1. f \in Seq(S)
    BY DEF IsSequence
  <1> HIDE DEF S
  <1>2. f \in Seq(S \cup {x})
    BY <1>1
  <1> DEFINE T == S \cup {x}
             g == Append(f, x)
  <1>3. /\ g \in Seq(T) /\ Len(g) = Len(f) + 1 /\ Len(f) \in Nat /\ DOMAIN f = 1 .. Len(f)
        /\ DOMAIN g = 1 .. Len(f) + 1
        /\ g[Len(f) + 1] = x /\ \A i \in 1 .. Len(f) : g[i] = f[i]
    <2> HIDE DEF T
    <2>1. x \in T /\ f \in Seq(T)
      BY <1>2 DEF T
    <2> QED
      BY <2>1
  <1>4. g \in Seq({g[i] : i \in DOMAIN g})
    <2> DEFINE U == {g[i] : i \in DOMAIN g}
    <2>1. \A i \in DOMAIN g : g[i] \in U
      OBVIOUS
    <2>2. Len(g) \in Nat /\ g = [i \in 1 .. Len(g) |-> g[i]] /\ DOMAIN g = 1 .. Len(g)
      <3> HIDE DEF T, U, g
      <3> QED
        BY <1>3
    <2> HIDE DEF U, g
    <2>3. g \in [1 .. Len(g) -> U]
      BY <2>1, <2>2
    <2> QED
      BY <2>2, <2>3 DEF U
  <1> QED
    BY <1>3, <1>4 DEF IsSequence

\* What the next turn of the loop changes of a process.
LEMMA StartSampleFields ==
  ASSUME NEW r, NEW p, DOMAIN p = Fields
  PROVE  LET q == StartSample(p, r)
             numbers == Numbers(p.generated, SampleOf(r, p.at))
         IN  /\ DOMAIN q = Fields /\ q.at = p.at /\ q.names = p.names
             /\ q.time = p.time /\ q.saves = p.saves /\ q.counted = p.counted /\ q.lastTime = p.lastTime
             /\ q.snapshots = p.snapshots
             /\ IF p.at > SamplesPerProcess
                THEN /\ q.generated = p.generated /\ q.drawn = p.drawn
                     /\ q.call = IF DOMAIN p.snapshots = {} THEN [kind |-> "returned"]
                                 ELSE [kind |-> "reduce", key |-> Least(DOMAIN p.snapshots)]
                ELSE /\ q.generated = numbers[Len(numbers)] + 1 /\ q.drawn = Append(p.drawn, numbers)
                     /\ q.call = [kind |-> "gather"]
  <1>1. CASE p.at > SamplesPerProcess
    BY <1>1 DEF StartSample, Reducing, Calling, Fields
  <1>2. CASE ~(p.at > SamplesPerProcess)
    <2> DEFINE numbers == Numbers(p.generated, SampleOf(r, p.at))
    <2>1. StartSample(p, r) = Calling([p EXCEPT !.generated = numbers[Len(numbers)] + 1,
                             !.drawn = Append(@, numbers)], [kind |-> "gather"])
      BY <1>2, Zenon DEF StartSample
    <2> HIDE DEF numbers
    <2> QED
      BY <1>2, <2>1 DEF Calling, Fields, numbers
  <1> QED
    BY <1>1, <1>2

\* Process r is between two samples, or has done the last one.
Between(r, p) ==
  /\ DOMAIN p = Fields /\ p.at \in 1 .. SamplesPerProcess + 1
  /\ IsSequence(p.drawn) /\ Len(p.drawn) = p.at - 1
  /\ p.names = << >> \/ \E k \in 1 .. SamplesPerProcess : p.names = NamesAt(k)
  /\ p.time \in 0 .. EndTime /\ p.lastTime \in 0 .. EndTime
  /\ p.saves \in 0 .. LastSave + 1 /\ p.counted \in 0 .. LastCount + 1
  /\ Volumes(p.snapshots, r, p.at, Fresh, -1)

\* What a process has drawn when it goes on from p to its k-th sample.
Drew(p, q, k, sample) ==
  /\ q.at = k
  /\ q.generated = IF k > SamplesPerProcess THEN p.generated
                   ELSE Numbers(p.generated, sample)[Len(Numbers(p.generated, sample))] + 1
  /\ q.drawn = IF k > SamplesPerProcess THEN p.drawn
               ELSE Append(p.drawn, Numbers(p.generated, sample))

\* It waits for the others, and has reduced and reported nothing.
IsStarted(q) ==
  /\ ~Sampling(q) /\ (q.call.kind = "gather" <=> q.at <= SamplesPerProcess)
  /\ Reduced(q) = {} /\ Reported(q) = {}

\* The next turn of the loop ends in makeGroupNames, or in the first reduction.
LEMMA SampleStarted ==
  ASSUME NEW r \in Ranks, NEW p, Between(r, p)
  PROVE  LET q == StartSample(p, r)
         IN  /\ StateOK(r, q) /\ IsStarted(q) /\ Drew(p, q, p.at, SampleOf(r, p.at))
  <1> DEFINE q == StartSample(p, r)
             numbers == Numbers(p.generated, SampleOf(r, p.at))
  <1>1. DOMAIN p = Fields /\ p.at \in 1 .. SamplesPerProcess + 1 /\ p.at \in Int /\ SamplesPerProcess \in Nat
        /\ SamplesPerProcess > 0
    BY SamplesCounted DEF Between
  <1>2. /\ DOMAIN q = Fields /\ q.at = p.at /\ q.names = p.names
        /\ q.time = p.time /\ q.saves = p.saves /\ q.counted = p.counted /\ q.lastTime = p.lastTime
        /\ q.snapshots = p.snapshots
        /\ IF p.at > SamplesPerProcess
           THEN /\ q.generated = p.generated /\ q.drawn = p.drawn
                /\ q.call = IF DOMAIN p.snapshots = {} THEN [kind |-> "returned"]
                            ELSE [kind |-> "reduce", key |-> Least(DOMAIN p.snapshots)]
           ELSE /\ q.generated = numbers[Len(numbers)] + 1 /\ q.drawn = Append(p.drawn, numbers)
                /\ q.call = [kind |-> "gather"]
    BY <1>1, StartSampleFields
  <1> HIDE DEF q
  <1>3. Drew(p, q, p.at, SampleOf(r, p.at))
    BY <1>2, Zenon DEF Drew
  <1> HIDE DEF numbers
  <1>4. FieldsOK(q)
    <2>1. IsSequence(q.drawn) /\ Len(q.drawn) = IF q.at <= SamplesPerProcess THEN q.at ELSE q.at - 1
      <3>1. CASE p.at > SamplesPerProcess
        BY <3>1, <1>1, <1>2 DEF Between
      <3>2. CASE ~(p.at > SamplesPerProcess)
        <4>1. IsSequence(p.drawn) /\ Len(p.drawn) = p.at - 1
          BY DEF Between
        <4>2. IsSequence(Append(p.drawn, numbers)) /\ Len(Append(p.drawn, numbers)) = Len(p.drawn) + 1
          BY <4>1, Appended
        <4>3. q.drawn = Append(p.drawn, numbers)
          BY <3>2, <1>2
        <4>4. IsSequence(q.drawn) /\ Len(q.drawn) = Len(p.drawn) + 1
          BY <4>2, <4>3, Zenon
        <4>5. Len(q.drawn) = q.at
          BY <4>1, <4>4, <1>1, <1>2
        <4> QED
          BY <3>2, <4>4, <4>5, <1>1, <1>2
      <3> QED
        BY <3>1, <3>2
    <2> QED
      BY <2>1, <1>2 DEF FieldsOK, Between
  <1>5. CASE p.at <= SamplesPerProcess
    <2>1. q.call = [kind |-> "gather"]
      BY <1>1, <1>2, <1>5
    <2>2. GatherState(r, q)
      BY <2>1, <1>1, <1>2, <1>5 DEF GatherState, Between
    <2>3. q.call.kind = "gather"
      BY <2>1
    <2>4. IsStarted(q)
      BY <2>3, <1>2, <1>5 DEF IsStarted, Sampling, Reduced, Reported
    <2> QED
      BY <2>2, <2>4, <1>3, <1>4 DEF StateOK, q
  <1>6. CASE p.at > SamplesPerProcess
    <2>1. p.at = SamplesPerProcess + 1 /\ p.at > 1
      BY <1>1, <1>6
    <2>2. Volumes(p.snapshots, r, p.at, Fresh, -1)
      BY DEF Between
    <2>3. /\ DOMAIN p.snapshots = KeysAt(p.at, Fresh, -1)
          /\ \A n \in Fresh .. LastCount, volume \in {1, 2} :
               p.snapshots[CountKey(n, volume)] = Counts(r, p.at, Fresh, n)
          /\ IntegralOK(p.snapshots[IntegralKey], r, p.at, -1)
      BY <2>1, <2>2, VolumesParts
    <2>4. DOMAIN p.snapshots = AllKeys
      BY <2>1, <2>3, KeysOfAll DEF KeysAt, AllKeys, CountKey
    <2>5. AllKeys # {}
      BY DEF AllKeys
    <2> DEFINE least == Least(AllKeys)
    <2>6. least \in AllKeys /\ \A j \in AllKeys : ~Before(j, least)
      <3>1. least \in AllKeys /\ \A j \in AllKeys : j = least \/ Before(least, j)
        BY <2>5, LeastKey
      <3> HIDE DEF least
      <3> QED
        BY <3>1, KeyOrder
    <2> HIDE DEF least
    <2>7. q.call = [kind |-> "reduce", key |-> least]
      BY <1>2, <1>6, <2>4, <2>5 DEF least
    <2>8. q.call.kind = "reduce" /\ q.call.key = least
      BY <2>7
    <2>9. \A j \in AllKeys : ~(j[1] < least[1])
      BY <2>6, KeyOrder
    <2>10. Reduced(q) = {} /\ Reported(q) = {}
      BY <2>6, <2>8, <2>9 DEF Reduced, Reported
    <2>11. IsStarted(q)
      BY <2>8, <2>10, <1>1, <1>2, <1>6 DEF IsStarted, Sampling
    <2>12. \A key \in AllKeys :
             IF key = IntegralKey THEN IntegralOK(q.snapshots[key], r, SamplesPerProcess + 1, -1)
             ELSE q.snapshots[key] = Counts(r, SamplesPerProcess + 1, Fresh, Fresh)
      <3> TAKE key \in AllKeys
      <3>1. CASE key = IntegralKey
        BY <3>1, <1>2, <2>1, <2>3
      <3>2. CASE key # IntegralKey
        <4>1. PICK n \in Fresh .. LastCount, volume \in {1, 2} : key = CountKey(n, volume)
          BY <3>2, KeysOfAll DEF AllKeys
        <4>2. ~(n < Fresh)
          BY LastTimes
        <4>3. Counts(r, SamplesPerProcess + 1, Fresh, n) = Counts(r, SamplesPerProcess + 1, Fresh, Fresh)
          BY <4>2, LastTimes DEF Counts
        <4> QED
          BY <3>2, <4>1, <4>3, <1>2, <2>1, <2>3
      <3> QED
        BY <3>1, <3>2
    <2>13. LastState(r, q)
      BY <2>1, <2>4, <2>6, <2>7, <2>10, <2>12, <1>2 DEF LastState
    <2> QED
      BY <2>11, <2>13, <1>3, <1>4 DEF StateOK, q
  <1> QED
    BY <1>1, <1>5, <1>6

\* What becomes of a process whose statistics have seen the present time.
GoesOn(r, p, q) ==
  /\ StateOK(r, q)
  /\ IF p.time = EndTime
     THEN IsStarted(q) /\ Drew(p, q, p.at + 1, SampleOf(r, p.at + 1))
     ELSE SameSample(p, q) /\ q.call.kind = "step"

\* A call changes nothing but itself.
LEMMA StepFields ==
  ASSUME NEW p, DOMAIN p = Fields, NEW call
  PROVE  LET q == Calling(p, call)
         IN  /\ DOMAIN q = Fields /\ SameSample(p, q) /\ q.counted = p.counted /\ q.lastTime = p.lastTime
             /\ q.snapshots = p.snapshots /\ q.call = call
  BY DEF Calling, Fields, SameSample

\* After the statistics there is a step, or the sample is done.
LEMMA LoopGoesOn ==
  ASSUME NEW r \in Ranks, NEW p, AfterStatistics(r, p)
  PROVE  GoesOn(r, p, Loop(p, r))
  <1>1. /\ FieldsOK(p) /\ p.at \in 1 .. SamplesPerProcess /\ p.names = NamesAt(p.at)
        /\ CountsTo(p.saves, SampleInterval, p.time) /\ p.lastTime = p.time
        /\ CountsTo(p.counted, StatisticsInterval, p.time)
        /\ Volumes(p.snapshots, r, p.at, p.counted, p.time)
    BY Zenon DEF AfterStatistics, InSample
  <1>2. /\ DOMAIN p = Fields
        /\ IsSequence(p.drawn) /\ Len(p.drawn) = IF p.at <= SamplesPerProcess THEN p.at ELSE p.at - 1
        /\ p.names = << >> \/ \E k \in 1 .. SamplesPerProcess : p.names = NamesAt(k)
        /\ p.time \in 0 .. EndTime /\ p.lastTime \in 0 .. EndTime
        /\ p.saves \in 0 .. LastSave + 1 /\ p.counted \in 0 .. LastCount + 1
    BY <1>1, Zenon DEF FieldsOK
  <1>3. CASE p.time = EndTime
    <2> DEFINE m == [p EXCEPT !.at = @ + 1]
    <2>1. /\ DOMAIN m = Fields /\ m.at = p.at + 1 /\ m.generated = p.generated /\ m.drawn = p.drawn
          /\ m.names = p.names /\ m.time = p.time /\ m.saves = p.saves /\ m.counted = p.counted
          /\ m.lastTime = p.lastTime /\ m.snapshots = p.snapshots
      BY <1>2 DEF Fields
    <2> HIDE DEF m
    <2>2. p.counted = LastCount + 1
      <3>1. PICK c \in Int : c = p.counted
        BY <1>2, LastTimes
      <3>2. (c - 1) * StatisticsInterval <= LastCount * StatisticsInterval
            /\ LastCount * StatisticsInterval < c * StatisticsInterval
        BY <3>1, <1>1, <1>3, LastTimes DEF CountsTo
      <3>3. LastCount < c
        BY <3>2, LastTimes, Multiples
      <3>4. PICK d \in Int : d = c - 1
        OBVIOUS
      <3>5. d <= LastCount
        BY <3>2, <3>4, LastTimes, Multiples
      <3> QED
        BY <3>1, <3>3, <3>4, <3>5, LastTimes
    <2>3. Volumes(p.snapshots, r, p.at + 1, Fresh, -1)
      BY <1>1, <1>3, <2>2, SampleDone
    <2>4. Between(r, m)
      BY <1>1, <1>2, <2>1, <2>3, SamplesCounted DEF Between
    <2>5. StateOK(r, StartSample(m, r)) /\ IsStarted(StartSample(m, r))
          /\ Drew(m, StartSample(m, r), m.at, SampleOf(r, m.at))
      BY <2>4, SampleStarted
    <2>6. Loop(p, r) = StartSample(m, r)
      BY <1>2, <1>3, LastTimes DEF Loop, m
    <2>7. Drew(p, StartSample(m, r), p.at + 1, SampleOf(r, p.at + 1))
      BY <2>1, <2>5 DEF Drew
    <2> QED
      BY <1>3, <2>5, <2>6, <2>7 DEF GoesOn
  <1>4. CASE p.time # EndTime
    <2> DEFINE q == Calling(p, StepCall(r, p))
    <2>1. Loop(p, r) = q
      BY <1>2, <1>4, LastTimes DEF Loop, StepCall
    <2>2. /\ DOMAIN q = Fields /\ SameSample(p, q) /\ q.counted = p.counted /\ q.lastTime = p.lastTime
          /\ q.snapshots = p.snapshots /\ q.call = StepCall(r, p)
      BY <1>2, StepFields
    <2> HIDE DEF q
    <2>3. FieldsOK(q) /\ StepState(r, q) /\ StepCall(r, q) = StepCall(r, p)
      BY <1>1, <1>2, <1>4, <2>2, LastTimes DEF FieldsOK, StepState, SameSample, StepCall
    <2>4. q.call.kind = "step"
      BY <2>2 DEF StepCall
    <2> QED
      BY <1>4, <2>1, <2>2, <2>3, <2>4 DEF GoesOn, StateOK
  <1> QED
    BY <1>3, <1>4

\* Before them, too.
LEMMA StatisticsGoOn ==
  ASSUME NEW r \in Ranks, NEW p, InSample(p), BeforeStatistics(r, p)
  PROVE  GoesOn(r, p, CallStatistics(p, r))
  <1> DEFINE s == SampleOf(r, p.at)
             m == Integral(MeanVariance(p, s), s)
             q == Loop(m, r)
  <1>1. SameSample(p, m) /\ AfterStatistics(r, m)
    BY StatisticsCalled
  <1>2. CallStatistics(p, r) = q
    BY DEF CallStatistics
  <1> HIDE DEF m
  <1>3. GoesOn(r, m, q)
    BY <1>1, LoopGoesOn
  <1> HIDE DEF q
  <1> QED
    BY <1>1, <1>2, <1>3 DEF GoesOn, SameSample, Drew

\* Before callWriters.
Arrived(r, p) ==
  /\ FieldsOK(p) /\ p.at \in 1 .. SamplesPerProcess /\ p.names = NamesAt(p.at)
  /\ p.saves \in Fresh .. LastSave /\ p.time <= p.saves * SampleInterval
  /\ p.saves >= 1 => (p.saves - 1) * SampleInterval <= p.time
  /\ BeforeStatistics(r, p)

\* After it.
WriteOrStep(r, p, q) ==
  /\ StateOK(r, q) /\ SameSample(p, q)
  /\ q.call.kind \in {"write", "step"}

\* When the clock has moved, a save is written if it is due.
LEMMA WritersGoOn ==
  ASSUME NEW r \in Ranks, NEW p, Arrived(r, p)
  PROVE  WriteOrStep(r, p, CallWriters(p, r))
  <1>1. /\ FieldsOK(p) /\ DOMAIN p = Fields /\ p.at \in 1 .. SamplesPerProcess /\ p.names = NamesAt(p.at)
        /\ p.saves \in Fresh .. LastSave /\ p.time <= p.saves * SampleInterval
        /\ p.saves >= 1 => (p.saves - 1) * SampleInterval <= p.time
        /\ BeforeStatistics(r, p) /\ p.time \in 0 .. EndTime
    BY DEF Arrived, FieldsOK
  <1>2. PICK x \in Int : x = p.saves * SampleInterval /\ x <= EndTime
    <2>1. PICK n \in Int : n = p.saves /\ n <= LastSave
      BY <1>1, LastTimes
    <2>2. PICK d \in Nat : LastSave = n + d
      <3>1. LastSave - n \in Nat /\ LastSave = n + (LastSave - n)
        BY <2>1, LastTimes
      <3> QED
        BY <3>1, Zenon
    <2>3. n * SampleInterval \in Int /\ n * SampleInterval <= (n + d) * SampleInterval
      BY <2>1, LastTimes, Z3
    <2> QED
      BY <2>1, <2>2, <2>3, LastTimes
  <1>3. CASE p.time >= x
    <2> DEFINE call == [kind |-> "write", new |-> NewFile(p), number |-> p.saves - Fresh,
                        names |-> p.names, time |-> p.time]
               q == Calling(p, call)
    <2>1. CallWriters(p, r) = q
      BY <1>2, <1>3 DEF CallWriters
    <2>2. call.kind = "write" /\ call = [kind |-> "write", new |-> p.at = 1, number |-> p.saves - Fresh,
                                         names |-> p.names, time |-> p.time]
      BY DEF NewFile
    <2> HIDE DEF call
    <2>3. /\ DOMAIN q = Fields /\ SameSample(p, q) /\ q.counted = p.counted /\ q.lastTime = p.lastTime
          /\ q.snapshots = p.snapshots /\ q.call = call
      BY <1>1, StepFields
    <2> HIDE DEF q
    <2>4. FieldsOK(q)
      BY <1>1, <2>3 DEF FieldsOK, SameSample
    <2>5. BeforeStatistics(r, q)
      BY <1>1, <2>3 DEF BeforeStatistics, SameSample
    <2>6. WriteState(r, q)
      BY <1>1, <1>2, <1>3, <2>2, <2>3, <2>5 DEF WriteState, SameSample
    <2> QED
      BY <2>1, <2>2, <2>3, <2>4, <2>6 DEF WriteOrStep, StateOK
  <1>4. CASE p.time < x
    <2>1. CallWriters(p, r) = CallStatistics(p, r)
      BY <1>1, <1>2, <1>4, LastTimes DEF CallWriters
    <2>2. p.saves >= 1
      <3>1. CASE p.saves = 0
        BY <3>1, <1>1, <1>2, <1>4, LastTimes, Multiples
      <3> QED
        BY <3>1, <1>1, LastTimes
    <2>3. InSample(p)
      BY <1>1, <1>2, <1>4, <2>2 DEF InSample, CountsTo
    <2>4. GoesOn(r, p, CallStatistics(p, r))
      BY <1>1, <2>3, StatisticsGoOn
    <2>5. p.time # EndTime
      BY <1>1, <1>2, <1>4, LastTimes
    <2> QED
      BY <2>1, <2>4, <2>5 DEF GoesOn, WriteOrStep
  <1> QED
    BY <1>1, <1>2, <1>3, <1>4, LastTimes

\* The call tells what a process is doing.
LEMMA StateByCall ==
  ASSUME NEW r, NEW p, StateOK(r, p)
  PROVE  /\ FieldsOK(p)
         /\ p.call.kind \in {"gather", "write", "step", "thrown", "reduce", "report", "returned"}
         /\ p.call.kind = "gather" => GatherState(r, p)
         /\ p.call.kind = "write" => WriteState(r, p)
         /\ p.call.kind = "step" => StepState(r, p) /\ p.call = StepCall(r, p)
         /\ p.call.kind = "thrown" => StepState(r, p)
         /\ p.call.kind \in {"reduce", "report", "returned"} => LastState(r, p)
  <1>1. FieldsOK(p)
    BY DEF StateOK
  <1>2. CASE GatherState(r, p)
    <2>1. p.call.kind = "gather"
      BY <1>2 DEF GatherState
    <2> QED
      BY <1>1, <1>2, <2>1
  <1>3. CASE WriteState(r, p)
    <2>1. p.call.kind = "write"
      BY <1>3 DEF WriteState
    <2> QED
      BY <1>1, <1>3, <2>1
  <1>4. CASE StepState(r, p) /\ p.call = StepCall(r, p)
    <2>1. p.call.kind = "step"
      BY <1>4 DEF StepCall
    <2> QED
      BY <1>1, <1>4, <2>1
  <1>5. CASE StepState(r, p) /\ p.call = [kind |-> "thrown"]
    <2>1. p.call.kind = "thrown"
      BY <1>5
    <2> QED
      BY <1>1, <1>5, <2>1
  <1>6. CASE LastState(r, p)
    <2>1. p.call.kind \in {"reduce", "report", "returned"}
      <3>1. \/ \E key \in AllKeys : p.call = [kind |-> "reduce", key |-> key]
            \/ \E key \in AllKeys : p.call = [kind |-> "report", key |-> key]
            \/ p.call = [kind |-> "returned"]
        BY <1>6, Zenon DEF LastState
      <3>2. ASSUME NEW key, p.call = [kind |-> "reduce", key |-> key] PROVE p.call.kind = "reduce"
        BY <3>2
      <3>3. ASSUME NEW key, p.call = [kind |-> "report", key |-> key] PROVE p.call.kind = "report"
        BY <3>3
      <3>4. ASSUME p.call = [kind |-> "returned"] PROVE p.call.kind = "returned"
        BY <3>4
      <3> QED
        BY <3>1, <3>2, <3>3, <3>4, Zenon
    <2> QED
      BY <1>1, <1>6, <2>1
  <1> QED
    BY <1>2, <1>3, <1>4, <1>5, <1>6, Zenon DEF StateOK

\* A process goes on from makeGroupNames to a write or to its first step.
LEMMA GatherGoesOn ==
  ASSUME NEW r \in Ranks, NEW p, StateOK(r, p), p.call.kind = "gather"
  PROVE  LET q == AfterGather(p, r, NamesAt(p.at))
         IN  /\ StateOK(r, q) /\ q.call.kind \in {"write", "step"}
             /\ q.at = p.at /\ q.generated = p.generated /\ q.drawn = p.drawn
             /\ q.time = 0 /\ q.saves = Fresh
  <1>1. FieldsOK(p) /\ GatherState(r, p)
    BY StateByCall
  <1>2. /\ DOMAIN p = Fields /\ p.at \in 1 .. SamplesPerProcess
        /\ Volumes(p.snapshots, r, p.at, Fresh, -1)
    BY <1>1 DEF FieldsOK, GatherState
  <1> DEFINE m == [p EXCEPT !.names = NamesAt(p.at), !.time = 0, !.saves = Fresh]
             q == CallWriters(m, r)
  <1>3. /\ DOMAIN m = Fields /\ m.at = p.at /\ m.generated = p.generated /\ m.drawn = p.drawn
        /\ m.names = NamesAt(p.at) /\ m.time = 0 /\ m.saves = Fresh /\ m.counted = p.counted
        /\ m.lastTime = p.lastTime /\ m.snapshots = p.snapshots
    BY <1>2 DEF Fields
  <1>4. AfterGather(p, r, NamesAt(p.at)) = q
    BY DEF AfterGather
  <1> HIDE DEF m
  <1>5. FieldsOK(m)
    BY <1>1, <1>2, <1>3, LastTimes DEF FieldsOK
  <1>6. BeforeStatistics(r, m)
    BY <1>2, <1>3 DEF BeforeStatistics
  <1>7. m.saves \in Fresh .. LastSave /\ m.time <= m.saves * SampleInterval
        /\ (m.saves >= 1 => (m.saves - 1) * SampleInterval <= m.time)
    <2>1. CASE Fresh = 0
      BY <2>1, <1>3, LastTimes, Multiples
    <2>2. CASE Fresh = 1
      BY <2>2, <1>3, LastTimes, Multiples
    <2> QED
      BY <2>1, <2>2, LastTimes
  <1>8. Arrived(r, m)
    BY <1>2, <1>3, <1>5, <1>6, <1>7 DEF Arrived
  <1>9. WriteOrStep(r, m, q)
    BY <1>8, WritersGoOn
  <1> HIDE DEF q
  <1> QED
    BY <1>3, <1>4, <1>9 DEF WriteOrStep, SameSample

\* After a save: the last one is that of the sample's end.
LEMMA WriteGoesOn ==
  ASSUME NEW r \in Ranks, NEW p, StateOK(r, p), p.call.kind = "write"
  PROVE  LET q == AfterWrite(p, r)
         IN  /\ StateOK(r, q)
             /\ IF p.saves = LastSave
                THEN IsStarted(q) /\ Drew(p, q, p.at + 1, SampleOf(r, p.at + 1))
                ELSE /\ q.call.kind = "step"
                     /\ q.at = p.at /\ q.generated = p.generated /\ q.drawn = p.drawn
                     /\ q.time = p.time /\ q.saves = p.saves + 1
  <1>1. FieldsOK(p) /\ WriteState(r, p)
    BY StateByCall
  <1>2. /\ DOMAIN p = Fields /\ p.at \in 1 .. SamplesPerProcess /\ p.names = NamesAt(p.at)
        /\ p.saves \in Fresh .. LastSave /\ p.time = p.saves * SampleInterval
        /\ BeforeStatistics(r, p)
    BY <1>1 DEF FieldsOK, WriteState
  <1> DEFINE m == [p EXCEPT !.saves = @ + 1]
             q == CallStatistics(m, r)
  <1>3. /\ DOMAIN m = Fields /\ m.at = p.at /\ m.generated = p.generated /\ m.drawn = p.drawn
        /\ m.names = p.names /\ m.time = p.time /\ m.saves = p.saves + 1 /\ m.counted = p.counted
        /\ m.lastTime = p.lastTime /\ m.snapshots = p.snapshots
    BY <1>2 DEF Fields
  <1>4. AfterWrite(p, r) = q
    BY DEF AfterWrite
  <1> HIDE DEF m
  <1>5. PICK n \in Nat : n = p.saves /\ n <= LastSave
    BY <1>2, LastTimes
  <1>6. FieldsOK(m)
    BY <1>1, <1>3, <1>5, LastTimes DEF FieldsOK
  <1>7. BeforeStatistics(r, m)
    BY <1>2, <1>3 DEF BeforeStatistics
  <1>8. CountsTo(m.saves, SampleInterval, m.time)
    <2>1. n * SampleInterval \in Int /\ (n + 1) * SampleInterval = n * SampleInterval + SampleInterval
      BY <1>5, LastTimes, Multiples
    <2>2. PICK d \in Int : d = n + 1 /\ d - 1 = n /\ d >= 1
      BY <1>5
    <2>3. CountsTo(d, SampleInterval, p.time)
      BY <1>2, <1>5, <2>1, <2>2, LastTimes DEF CountsTo
    <2> QED
      BY <1>3, <1>5, <2>2, <2>3
  <1>9. InSample(m)
    BY <1>2, <1>3, <1>6, <1>8 DEF InSample
  <1>10. GoesOn(r, m, q)
    BY <1>7, <1>9, StatisticsGoOn
  <1>11. p.time = EndTime <=> p.saves = LastSave
    BY <1>2, <1>5, LastTimes, SameMultiple
  <1> HIDE DEF q
  <1>12. CASE p.saves = LastSave
    <2>1. StateOK(r, q) /\ IsStarted(q) /\ Drew(m, q, m.at + 1, SampleOf(r, m.at + 1))
      BY <1>3, <1>10, <1>11, <1>12 DEF GoesOn
    <2> QED
      BY <2>1, <1>3, <1>4, <1>12 DEF Drew
  <1>13. CASE p.saves # LastSave
    <2>1. StateOK(r, q) /\ SameSample(m, q) /\ q.call.kind = "step"
      BY <1>3, <1>10, <1>11, <1>13 DEF GoesOn
    <2> QED
      BY <2>1, <1>3, <1>4, <1>13 DEF SameSample
  <1> QED
    BY <1>12, <1>13

\* A step ends at the next save or snapshot at the latest.
LEMMA AdjustedStep ==
  ASSUME NEW p, NEW dt \in StepSizes, p.time \in Nat, p.saves \in Nat, p.counted \in Nat,
         p.time < p.saves * SampleInterval, p.time < p.counted * StatisticsInterval
  PROVE  /\ Adjusted(p, dt) \in Nat /\ Adjusted(p, dt) > 0 /\ Adjusted(p, dt) <= LargestStep
         /\ p.time + Adjusted(p, dt) <= p.saves * SampleInterval
         /\ p.time + Adjusted(p, dt) <= p.counted * StatisticsInterval
  <1>1. PICK x \in Int, y \in Int : x = p.saves * SampleInterval /\ y = p.counted * StatisticsInterval
    BY LastTimes, Z3
  <1>2. dt \in Nat /\ dt > 0 /\ dt <= LargestStep /\ LargestStep \in Nat
    BY StepsBounded
  <1> DEFINE S == {dt, x - p.time, y - p.time}
  <1>3. \E m \in S : \A z \in S : m <= z
    <2>1. CASE dt <= x - p.time /\ dt <= y - p.time
      BY <2>1, <1>1, <1>2
    <2>2. CASE x - p.time <= dt /\ x - p.time <= y - p.time
      BY <2>2, <1>1, <1>2
    <2>3. CASE y - p.time <= dt /\ y - p.time <= x - p.time
      BY <2>3, <1>1, <1>2
    <2> QED
      BY <1>1, <1>2, <2>1, <2>2, <2>3
  <1>4. Adjusted(p, dt) = Min(S)
    BY <1>1 DEF Adjusted
  <1> HIDE DEF S
  <1>5. Min(S) \in S /\ \A z \in S : Min(S) <= z
    BY <1>3 DEF Min
  <1>6. PICK m \in S : m = Adjusted(p, dt) /\ \A z \in S : m <= z
    BY <1>4, <1>5
  <1> QED
    BY <1>1, <1>2, <1>6 DEF S

\* A step ends at the next save or snapshot at the latest.
LEMMA StepGoesOn ==
  ASSUME NEW r \in Ranks, NEW p, StateOK(r, p), p.call.kind = "step", NEW dt \in StepSizes
  PROVE  LET q == AfterStep(p, r, dt)
         IN  /\ StateOK(r, q) /\ q.call.kind \in {"write", "step"}
             /\ q.at = p.at /\ q.generated = p.generated /\ q.drawn = p.drawn
             /\ q.time = p.time + Adjusted(p, dt) /\ q.saves = p.saves
  <1>1. FieldsOK(p) /\ StepState(r, p)
    BY StateByCall
  <1>2. /\ DOMAIN p = Fields /\ p.at \in 1 .. SamplesPerProcess /\ p.names = NamesAt(p.at)
        /\ p.time \in 0 .. EndTime /\ p.saves \in 0 .. LastSave + 1 /\ p.counted \in 0 .. LastCount + 1
        /\ p.time < EndTime /\ p.lastTime = p.time
        /\ CountsTo(p.saves, SampleInterval, p.time)
        /\ CountsTo(p.counted, StatisticsInterval, p.time)
        /\ Volumes(p.snapshots, r, p.at, p.counted, p.time)
    BY <1>1 DEF FieldsOK, StepState
  <1>3. PICK time \in Nat, n \in Nat, c \in Nat : time = p.time /\ n = p.saves /\ c = p.counted
    BY <1>2, LastTimes
  <1>4. /\ n >= 1 /\ (n - 1) * SampleInterval <= time /\ time < n * SampleInterval
        /\ c >= 1 /\ (c - 1) * StatisticsInterval <= time /\ time < c * StatisticsInterval
    BY <1>2, <1>3 DEF CountsTo
  <1>5. PICK x \in Int, y \in Int : x = n * SampleInterval /\ y = c * StatisticsInterval
    BY LastTimes, Z3
  <1>6. n <= LastSave
    <2>1. PICK d \in Int : d = n - 1 /\ d * SampleInterval <= time
      BY <1>3, <1>4
    <2>2. d * SampleInterval < LastSave * SampleInterval
      <3>1. d * SampleInterval \in Int
        BY <2>1, LastTimes, Multiples
      <3> QED
        BY <2>1, <3>1, <1>2, <1>3, LastTimes
    <2>3. d < LastSave
      BY <2>2, LastTimes, Multiples
    <2> QED
      BY <2>1, <2>3, LastTimes
  <1>7. PICK a \in Nat : /\ a = Adjusted(p, dt) /\ a > 0 /\ a <= LargestStep
                         /\ time + a <= x /\ time + a <= y
    <2>1. p.time \in Nat /\ p.saves \in Nat /\ p.counted \in Nat
          /\ p.time < p.saves * SampleInterval /\ p.time < p.counted * StatisticsInterval
      BY <1>3, <1>4
    <2>2. /\ Adjusted(p, dt) \in Nat /\ Adjusted(p, dt) > 0 /\ Adjusted(p, dt) <= LargestStep
          /\ p.time + Adjusted(p, dt) <= p.saves * SampleInterval
          /\ p.time + Adjusted(p, dt) <= p.counted * StatisticsInterval
      BY <2>1, AdjustedStep
    <2> QED
      BY <2>2, <1>3, <1>5
  <1> DEFINE m == [p EXCEPT !.time = @ + Adjusted(p, dt)]
             q == CallWriters(m, r)
  <1>8. /\ DOMAIN m = Fields /\ m.at = p.at /\ m.generated = p.generated /\ m.drawn = p.drawn
        /\ m.names = p.names /\ m.time = p.time + Adjusted(p, dt) /\ m.saves = p.saves
        /\ m.counted = p.counted /\ m.lastTime = p.lastTime /\ m.snapshots = p.snapshots
    BY <1>2 DEF Fields
  <1>9. AfterStep(p, r, dt) = q
    BY DEF AfterStep
  <1> HIDE DEF m
  <1>10. m.time = time + a /\ m.saves = n /\ m.counted = c /\ m.lastTime = time
    BY <1>2, <1>3, <1>7, <1>8
  <1>11. x <= EndTime
    <2>1. n * SampleInterval <= LastSave * SampleInterval
      <3>1. PICK d \in Nat : LastSave = n + d
        <4>1. LastSave - n \in Nat /\ LastSave = n + (LastSave - n)
          BY <1>6, LastTimes
        <4> QED
          BY <4>1, Zenon
      <3>2. n * SampleInterval <= (n + d) * SampleInterval
        BY LastTimes, Z3
      <3> QED
        BY <3>1, <3>2
    <2> QED
      BY <2>1, <1>5, LastTimes
  <1>12. FieldsOK(m)
    BY <1>1, <1>2, <1>7, <1>8, <1>10, <1>11, LastTimes DEF FieldsOK
  <1>13. BeforeStatistics(r, m)
    <2>1. m.time # 0 /\ m.lastTime < m.time /\ m.time <= m.lastTime + LargestStep
          /\ m.time <= m.counted * StatisticsInterval
      BY <1>5, <1>7, <1>10, StepsBounded
    <2>2. CountsTo(m.counted, StatisticsInterval, m.lastTime)
          /\ Volumes(m.snapshots, r, m.at, m.counted, m.lastTime)
      BY <1>2, <1>8
    <2> QED
      BY <2>1, <2>2, Zenon DEF BeforeStatistics
  <1>14. Arrived(r, m)
    <2>1. m.saves \in Fresh .. LastSave
      BY <1>4, <1>6, <1>10, LastTimes
    <2>2. m.time <= m.saves * SampleInterval
      BY <1>5, <1>7, <1>10
    <2>3. (m.saves - 1) * SampleInterval <= m.time
      <3>1. PICK z \in Int : z = (n - 1) * SampleInterval
        <4>1. PICK d \in Int : d = n - 1
          OBVIOUS
        <4>2. d * SampleInterval \in Int
          BY LastTimes, Multiples
        <4> QED
          BY <4>1, <4>2
      <3> QED
        BY <3>1, <1>4, <1>7, <1>10
    <2> QED
      BY <2>1, <2>2, <2>3, <1>2, <1>8, <1>12, <1>13 DEF Arrived
  <1>15. WriteOrStep(r, m, q)
    BY <1>14, WritersGoOn
  <1> HIDE DEF q
  <1> QED
    BY <1>8, <1>9, <1>15 DEF WriteOrStep, SameSample

\* The keys of the same statistics after key, all of them, and those of later statistics.
RestOf(key)  == {k \in AllKeys : k[1] = key[1] /\ Before(key, k)}

-----------------------------------------------------------------------------
(* After the last sample: from one volume to the next.                      *)

\* The keys of a snapshot's statistics, and those of later statistics.
OwnOf(key)   == {k \in AllKeys : k[1] = key[1]}
LaterOf(key) == {k \in AllKeys : k[1] > key[1]}

\* Reducing and reporting a volume lead to the next one of the same statistics,
LEMMA RestKeys ==
  ASSUME NEW key \in AllKeys
  PROVE  IF RestOf(key) # {}
         THEN LET n == Least(RestOf(key))
              IN  /\ n \in AllKeys /\ n[1] = key[1] /\ key # IntegralKey /\ n # IntegralKey /\ key[1] = 1
                  /\ \A j \in AllKeys : Before(j, n) <=> Before(j, key) \/ j = key
         ELSE \A j \in AllKeys : j[1] <= key[1] <=> Before(j, key) \/ j = key
  <1>0. key[1] \in {1, 2} /\ \A j \in AllKeys : j[1] \in {1, 2}
    BY KeyForm
  <1>1. CASE RestOf(key) # {}
    <2> DEFINE n == Least(RestOf(key))
    <2>1. n \in RestOf(key) /\ \A j \in RestOf(key) : j = n \/ Before(n, j)
      <3>1. RestOf(key) \in SUBSET AllKeys
        BY DEF RestOf
      <3> QED
        BY <1>1, <3>1, LeastKey, Zenon
    <2> HIDE DEF n
    <2>2. n \in AllKeys /\ n[1] = key[1] /\ Before(key, n) /\ n # key
      BY <2>1, KeyOrder DEF RestOf
    <2>3. key[1] = 1
      <3>1. key[1] = 2 <=> key = IntegralKey
        BY KeyForm
      <3>2. n[1] = 2 <=> n = IntegralKey
        BY <2>2, KeyForm
      <3> QED
        BY <1>0, <2>2, <3>1, <3>2
    <2>4. key # IntegralKey /\ n # IntegralKey
      BY <2>2, <2>3 DEF IntegralKey
    <2>5. ASSUME NEW j \in AllKeys PROVE Before(j, n) <=> Before(j, key) \/ j = key
      <3>1. ASSUME Before(j, n), j # key, ~Before(j, key) PROVE FALSE
        <4>1. Before(key, j)
          BY <3>1, KeyOrder
        <4>2. key[1] <= j[1] /\ j[1] <= n[1]
          BY <3>1, <4>1, <2>2, KeyOrder
        <4>3. j \in RestOf(key)
          BY <4>1, <4>2, <2>2, <1>0 DEF RestOf
        <4>4. j = n \/ Before(n, j)
          BY <4>3, <2>1
        <4> QED
          BY <3>1, <4>4, <2>2, KeyOrder
      <3>2. Before(j, key) => Before(j, n)
        BY <2>2, KeyOrder
      <3> QED
        BY <3>1, <3>2, <2>2
    <2> QED
      BY <1>1, <2>2, <2>3, <2>4, <2>5 DEF n
  <1>2. CASE RestOf(key) = {}
    <2>1. ASSUME NEW j \in AllKeys PROVE j[1] <= key[1] <=> Before(j, key) \/ j = key
      <3>1. Before(j, key) \/ j = key => j[1] <= key[1]
        BY <1>0, KeyOrder
      <3>2. ASSUME j[1] <= key[1], j # key, Before(key, j) PROVE FALSE
        <4>1. key[1] <= j[1]
          BY <3>2, KeyOrder
        <4>2. j \in RestOf(key)
          BY <4>1, <3>2, <1>0 DEF RestOf
        <4> QED
          BY <4>2, <1>2
      <3> QED
        BY <3>1, <3>2, KeyOrder
    <2> QED
      BY <1>2, <2>1
  <1> QED
    BY <1>1, <1>2

\* to the first one again, to report it,
LEMMA OwnKeys ==
  ASSUME NEW key \in AllKeys
  PROVE  LET n == Least(OwnOf(key))
         IN  /\ n \in AllKeys /\ n[1] = key[1]
             /\ \A j \in AllKeys : Before(j, n) <=> j[1] < key[1]
  <1>0. key[1] \in {1, 2} /\ \A j \in AllKeys : j[1] \in {1, 2}
    BY KeyForm
  <1> DEFINE n == Least(OwnOf(key))
  <1>1. n \in OwnOf(key) /\ \A j \in OwnOf(key) : j = n \/ Before(n, j)
    <2>1. OwnOf(key) \in SUBSET AllKeys /\ OwnOf(key) # {}
      BY DEF OwnOf
    <2> QED
      BY <2>1, LeastKey, Zenon
  <1> HIDE DEF n
  <1>2. n \in AllKeys /\ n[1] = key[1]
    BY <1>1 DEF OwnOf
  <1>3. ASSUME NEW j \in AllKeys PROVE Before(j, n) <=> j[1] < key[1]
    <2>1. j[1] < key[1] => Before(j, n)
      BY <1>2, KeyOrder
    <2>2. ASSUME Before(j, n), ~(j[1] < key[1]) PROVE FALSE
      <3>1. j[1] <= n[1]
        BY <2>2, <1>2, KeyOrder
      <3>2. j \in OwnOf(key)
        BY <3>1, <2>2, <1>0, <1>2 DEF OwnOf
      <3> QED
        BY <3>2, <2>2, <1>1, <1>2, KeyOrder
    <2> QED
      BY <2>1, <2>2
  <1> QED
    BY <1>2, <1>3 DEF n

\* or to the first one of later statistics.
LEMMA LaterKeys ==
  ASSUME NEW key \in AllKeys
  PROVE  IF LaterOf(key) # {}
         THEN Least(LaterOf(key)) = IntegralKey /\ key[1] = 1
              /\ \A j \in AllKeys : /\ Before(j, IntegralKey) <=> j[1] <= key[1]
                                    /\ j[1] < IntegralKey[1] <=> j[1] <= key[1]
         ELSE \A j \in AllKeys : j[1] <= key[1]
  <1>0. key[1] \in {1, 2} /\ \A j \in AllKeys : j[1] \in {1, 2}
    BY KeyForm
  <1>1. CASE LaterOf(key) # {}
    <2>1. Least(LaterOf(key)) \in LaterOf(key)
      <3>1. LaterOf(key) \in SUBSET AllKeys
        BY DEF LaterOf
      <3> QED
        BY <1>1, <3>1, LeastKey, Zenon
    <2>2. PICK n \in AllKeys : n = Least(LaterOf(key)) /\ n[1] > key[1]
      BY <2>1 DEF LaterOf
    <2>3. n[1] = 2 /\ key[1] = 1
      BY <1>0, <2>2
    <2>4. n = IntegralKey
      BY <2>3, KeyForm
    <2>5. \A j \in AllKeys : Before(j, IntegralKey) <=> j[1] <= key[1]
      <3> TAKE j \in AllKeys
      <3>1. CASE j[1] = 1
        BY <3>1, <2>3, <2>4, KeyOrder
      <3>2. CASE j[1] = 2
        <4>1. j = IntegralKey
          BY <3>2, KeyForm
        <4> QED
          BY <4>1, <3>2, <2>3, KeyOrder
      <3> QED
        BY <3>1, <3>2, <1>0
    <2>6. \A j \in AllKeys : j[1] < IntegralKey[1] <=> j[1] <= key[1]
      BY <1>0, <2>3, <2>4
    <2> QED
      BY <1>1, <2>2, <2>3, <2>4, <2>5, <2>6
  <1>2. CASE LaterOf(key) = {}
    <2>1. \A j \in AllKeys : ~(j[1] > key[1])
      BY <1>2 DEF LaterOf
    <2> QED
      BY <1>0, <1>2, <2>1
  <1> QED
    BY <1>1, <1>2

\* The snapshots of a process, of which some have been reduced.
HoldsLast(r, snapshots, reduced, final) ==
  /\ DOMAIN snapshots = AllKeys
  /\ \A key \in AllKeys \ reduced :
       IF key = IntegralKey THEN IntegralOK(snapshots[key], r, SamplesPerProcess + 1, -1)
       ELSE snapshots[key] = Counts(r, SamplesPerProcess + 1, Fresh, Fresh)
  /\ \A key \in reduced :
       IF StatisticalRank(r) = 0 THEN Final(snapshots[key], key, final)
       ELSE /\ snapshots[key] = [of |-> snapshots[key].of, divisions |-> 1, minus |-> << >>]
            /\ snapshots[key].of \in [Samples -> 0 .. EndTime]

\* What a process may call in the end.
LastCall(r, call) ==
  \/ \E key \in AllKeys : call = [kind |-> "reduce", key |-> key]
  \/ StatisticalRank(r) = 0 /\ \E key \in AllKeys : call = [kind |-> "report", key |-> key]
  \/ call = [kind |-> "returned"]

\* LastState, taken apart.
LEMMA LastStateParts ==
  ASSUME NEW r, NEW p
  PROVE  LastState(r, p) <=> /\ p.at = SamplesPerProcess + 1 /\ LastCall(r, p.call)
                             /\ HoldsLast(r, p.snapshots, Reduced(p), IsFinal(p))
  BY DEF LastState, LastCall, HoldsLast

\* The calls after the last sample.
LEMMA LastCallIs ==
  ASSUME NEW r, NEW call, LastCall(r, call)
  PROVE  /\ call.kind \in {"reduce", "report", "returned"}
         /\ call.kind \in {"reduce", "report"} =>
              call.key \in AllKeys /\ call = [kind |-> call.kind, key |-> call.key]
         /\ call.kind = "report" => StatisticalRank(r) = 0
         /\ call.kind = "returned" => call = [kind |-> "returned"]
  <1>1. ASSUME NEW key \in AllKeys, call = [kind |-> "reduce", key |-> key]
        PROVE  call.kind = "reduce" /\ call.key = key
    BY <1>1
  <1>2. ASSUME NEW key \in AllKeys, call = [kind |-> "report", key |-> key]
        PROVE  call.kind = "report" /\ call.key = key
    BY <1>2
  <1>3. ASSUME call = [kind |-> "returned"] PROVE call.kind = "returned"
    BY <1>3
  <1>4. CASE \E key \in AllKeys : call = [kind |-> "reduce", key |-> key]
    <2>1. PICK key \in AllKeys : call = [kind |-> "reduce", key |-> key]
      BY <1>4
    <2>2. call.kind = "reduce" /\ call.key = key
      BY <1>1, <2>1
    <2> QED
      BY <2>1, <2>2
  <1>5. CASE StatisticalRank(r) = 0 /\ \E key \in AllKeys : call = [kind |-> "report", key |-> key]
    <2>1. PICK key \in AllKeys : call = [kind |-> "report", key |-> key]
      BY <1>5
    <2>2. call.kind = "report" /\ call.key = key
      BY <1>2, <2>1
    <2> QED
      BY <1>5, <2>1, <2>2
  <1>6. CASE call = [kind |-> "returned"]
    <2>1. call.kind = "returned"
      BY <1>3, <1>6
    <2> QED
      BY <1>6, <2>1
  <1> QED
    BY <1>4, <1>5, <1>6, Zenon DEF LastCall

\* p is in its last calls; q is it after one of them.
StaysLast(r, p, q) ==
  /\ StateOK(r, q) /\ q.at = p.at /\ q.generated = p.generated /\ q.drawn = p.drawn
  /\ q.call.kind \in {"reduce", "report", "returned"}

\* From one of the last calls to the next, with other snapshots.
LEMMA NextLastCall ==
  ASSUME NEW r, NEW p, FieldsOK(p), p.at = SamplesPerProcess + 1, NEW call, LastCall(r, call), NEW q,
         q = [p EXCEPT !.snapshots = q.snapshots, !.call = call],
         HoldsLast(r, q.snapshots, Reduced(q), IsFinal(q))
  PROVE  StaysLast(r, p, q)
  <1>1. DOMAIN p = Fields
    BY DEF FieldsOK
  <1>2. /\ DOMAIN q = Fields /\ SameSample(p, q) /\ q.counted = p.counted /\ q.lastTime = p.lastTime
        /\ q.call = call
    BY <1>1 DEF Fields, SameSample
  <1>3. FieldsOK(q)
    BY <1>1, <1>2 DEF FieldsOK, SameSample
  <1>4. LastState(r, q)
    BY <1>2, LastStateParts DEF SameSample
  <1>5. q.call.kind \in {"reduce", "report", "returned"}
    BY <1>2, LastCallIs
  <1> QED
    BY <1>2, <1>3, <1>4, <1>5 DEF StaysLast, StateOK, SameSample

\* One more volume is reduced.
LEMMA ReduceSnapshots ==
  ASSUME NEW r, NEW p, LastState(r, p), p.call.kind = "reduce", NEW v,
         IF StatisticalRank(r) = 0 THEN Final(v, p.call.key, FALSE)
         ELSE v = [of |-> v.of, divisions |-> 1, minus |-> << >>] /\ v.of \in [Samples -> 0 .. EndTime]
  PROVE  HoldsLast(r, [p.snapshots EXCEPT ![p.call.key] = v], Reduced(p) \cup {p.call.key}, IsFinal(p))
  <1> DEFINE f == [p.snapshots EXCEPT ![p.call.key] = v]
  <1>1. p.call.key \in AllKeys /\ DOMAIN p.snapshots = AllKeys /\ HoldsLast(r, p.snapshots, Reduced(p), IsFinal(p))
    BY LastStateParts, LastCallIs DEF HoldsLast
  <1>2. DOMAIN f = AllKeys /\ f[p.call.key] = v /\ \A j \in AllKeys : j # p.call.key => f[j] = p.snapshots[j]
    BY <1>1
  <1>3. StatisticalRank(r) = 0 => Final(v, p.call.key, IsFinal(p))
    BY DEF Final, IsFinal
  <1> HIDE DEF f
  <1>4. Reduced(p) \subseteq AllKeys
    BY DEF Reduced
  <1> QED
    BY <1>1, <1>2, <1>3, <1>4 DEF HoldsLast, f

\* What is reduced and reported, by the call.
LEMMA ReducedByCall ==
  ASSUME NEW p
  PROVE  /\ p.call.kind = "reduce" => /\ Reduced(p) = {j \in AllKeys : Before(j, p.call.key)}
                                      /\ Reported(p) = {j \in AllKeys : j[1] < p.call.key[1]}
         /\ p.call.kind = "report" => /\ Reduced(p) = {j \in AllKeys : j[1] <= p.call.key[1]}
                                      /\ Reported(p) = {j \in AllKeys : Before(j, p.call.key)}
         /\ p.call.kind = "returned" => Reduced(p) = AllKeys /\ Reported(p) = AllKeys
         /\ p.call.kind \notin {"reduce", "report", "returned"} => Reduced(p) = {} /\ Reported(p) = {}
  BY DEF Reduced, Reported

\* p with other snapshots, and the call that follows.
With(p, f) == [p EXCEPT !.snapshots = f]
IsNext(p, q, f, call) ==
  q = [p EXCEPT !.snapshots = q.snapshots, !.call = call] /\ q.snapshots = f /\ q.call = call

\* Only the snapshots are others.
LEMMA WithFields ==
  ASSUME NEW p, DOMAIN p = Fields, NEW f
  PROVE  /\ DOMAIN With(p, f) = Fields /\ With(p, f).at = p.at /\ With(p, f).call = p.call
         /\ With(p, f).snapshots = f /\ \A g : With(With(p, f), g) = With(p, g)
  BY DEF With, Fields

\* Only the snapshots and the call are others.
LEMMA CallingNext ==
  ASSUME NEW p, DOMAIN p = Fields, NEW f, NEW call
  PROVE  IsNext(p, Calling(With(p, f), call), f, call)
  BY DEF Calling, With, IsNext, Fields

\* What finalizing does to the snapshots.
FinalSnapshots(f) ==
  [k \in DOMAIN f |-> IF k[1] = 1 /\ k[3] = 2 THEN [f[k] EXCEPT !.minus = <<f[MeanKey(k[2])]>>] ELSE f[k]]

\* Finalizing all of MeanVariance's volumes makes them final.
LEMMA FinalizedIs ==
  ASSUME NEW r, StatisticalRank(r) = 0, NEW f, NEW reduced \in SUBSET AllKeys, HoldsLast(r, f, reduced, FALSE),
         OwnOf(<< 1 >>) \subseteq reduced
  PROVE  DOMAIN FinalSnapshots(f) = AllKeys /\ HoldsLast(r, FinalSnapshots(f), reduced, TRUE)
  <1> DEFINE g == FinalSnapshots(f)
  <1>1. DOMAIN f = AllKeys /\ DOMAIN g = AllKeys
    BY DEF HoldsLast, FinalSnapshots
  <1>2. g[IntegralKey] = f[IntegralKey] /\ IntegralKey \in AllKeys
    BY <1>1 DEF FinalSnapshots, IntegralKey, AllKeys
  <1>3. ASSUME NEW key \in AllKeys, key # IntegralKey PROVE Final(g[key], key, TRUE) /\ key \in reduced
    <2>1. PICK n \in Fresh .. LastCount, volume \in {1, 2} : key = CountKey(n, volume)
      BY <1>3, KeysOfAll DEF AllKeys
    <2>2. CountKey(n, 1) \in AllKeys /\ CountKey(n, 2) \in AllKeys
      BY KeysOfAll DEF AllKeys
    <2>3. CountKey(n, 1) \in reduced /\ CountKey(n, 2) \in reduced /\ key \in reduced
      BY <2>1, <2>2 DEF OwnOf, CountKey
    <2>4. CountKey(n, 1) # IntegralKey /\ CountKey(n, 2) # IntegralKey
      BY DEF CountKey, IntegralKey
    <2>5. f[CountKey(n, 1)] = Mean /\ f[CountKey(n, 2)] = Mean
      BY <2>3, <2>4 DEF HoldsLast, Final
    <2>6. MeanKey(CountKey(n, 2)[2]) = CountKey(n, 1)
      BY DEF MeanKey, CountKey
    <2>7. CASE volume = 1
      <3>1. g[CountKey(n, 1)] = f[CountKey(n, 1)]
        BY <1>1, <2>2 DEF FinalSnapshots, CountKey
      <3> QED
        BY <2>1, <2>3, <2>4, <2>5, <2>7, <3>1 DEF Final, CountKey
    <2>8. CASE volume = 2
      <3>1. g[CountKey(n, 2)] = [f[CountKey(n, 2)] EXCEPT !.minus = <<f[MeanKey(CountKey(n, 2)[2])]>>]
        <4>1. CountKey(n, 2)[1] = 1 /\ CountKey(n, 2)[3] = 2
          BY DEF CountKey
        <4> QED
          BY <1>1, <2>2, <4>1 DEF FinalSnapshots
      <3>2. g[CountKey(n, 2)] = [Mean EXCEPT !.minus = <<Mean>>]
        BY <2>5, <2>6, <3>1
      <3>3. CountKey(n, 2)[3] = 2
        BY DEF CountKey
      <3> QED
        BY <2>1, <2>3, <2>4, <2>8, <3>2, <3>3 DEF Final
    <2> QED
      BY <2>7, <2>8
  <1> HIDE DEF g
  <1>4. \A key \in reduced : Final(g[key], key, TRUE)
    <2> TAKE key \in reduced
    <2>1. CASE key = IntegralKey
      BY <2>1, <1>2 DEF HoldsLast, Final
    <2>2. CASE key # IntegralKey
      BY <2>2, <1>3
    <2> QED
      BY <2>1, <2>2
  <1>5. \A key \in AllKeys \ reduced : key = IntegralKey
    BY <1>3
  <1>6. HoldsLast(r, g, reduced, TRUE)
    BY <1>1, <1>2, <1>4, <1>5 DEF HoldsLast
  <1> QED
    BY <1>1, <1>6 DEF g

\* This is what finalizing changes.
LEMMA FinalizedSnapshots ==
  ASSUME NEW m
  PROVE  Finalized(m) = With(m, FinalSnapshots(m.snapshots))
  BY Zenon DEF Finalized, FinalSnapshots, With

\* After one volume has been reduced.
LEMMA ReduceGoesOn ==
  ASSUME NEW r \in Ranks, NEW p, StateOK(r, p), p.call.kind = "reduce", NEW v,
         IF StatisticalRank(r) = 0 THEN Final(v, p.call.key, FALSE)
         ELSE v = [of |-> v.of, divisions |-> 1, minus |-> << >>] /\ v.of \in [Samples -> 0 .. EndTime]
  PROVE  LET q == AfterReduce([p EXCEPT !.snapshots[p.call.key] = v], r)
         IN  /\ StaysLast(r, p, q) /\ Reduced(q) = Reduced(p) \cup {p.call.key}
             /\ StatisticalRank(r) = 0 => Reported(q) = Reported(p)
  <1> DEFINE key == p.call.key
             f == [p.snapshots EXCEPT ![key] = v]
             m == With(p, f)
             q == AfterReduce(m, r)
             kept == Reduced(p) \cup {key}
  <1>1. FieldsOK(p) /\ LastState(r, p)
    BY StateByCall
  <1>2. DOMAIN p = Fields /\ p.at = SamplesPerProcess + 1 /\ DOMAIN p.snapshots = AllKeys /\ key \in AllKeys
    BY <1>1, LastStateParts, LastCallIs DEF FieldsOK, HoldsLast
  <1>3. HoldsLast(r, f, kept, IsFinal(p))
    BY <1>1, ReduceSnapshots
  <1>4. DOMAIN f = AllKeys
    BY <1>2
  <1>5. [p EXCEPT !.snapshots[p.call.key] = v] = m
    BY <1>2 DEF Fields, With
  <1>6. Reduced(p) = {j \in AllKeys : Before(j, key)} /\ Reported(p) = {j \in AllKeys : j[1] < key[1]}
        /\ kept = {j \in AllKeys : Before(j, key) \/ j = key}
    <2>1. Reduced(p) = {j \in AllKeys : Before(j, key)} /\ Reported(p) = {j \in AllKeys : j[1] < key[1]}
      BY ReducedByCall
    <2> QED
      BY <2>1, <1>2
  <1>7. IsFinal(p) <=> key = IntegralKey
    BY DEF IsFinal
  <1> HIDE DEF f
  <1>8. DOMAIN m = Fields /\ m.call = p.call /\ m.snapshots = f
    BY <1>2, WithFields
  <1>9. q = IF RestOf(key) # {} THEN Reducing(m, RestOf(key))
            ELSE IF StatisticalRank(r) = 0
                 THEN LET z == IF key[1] = 1 THEN Finalized(m) ELSE m
                      IN  Calling(z, [kind |-> "report", key |-> Least(KeysOf(z, key[1]))])
                 ELSE Reducing(m, LaterOf(key))
    <2>1. {k \in KeysOf(m, key[1]) : Before(key, k)} = RestOf(key)
      BY <1>4, <1>8 DEF KeysOf, RestOf
    <2>2. {k \in DOMAIN m.snapshots : k[1] > key[1]} = LaterOf(key)
      BY <1>4, <1>8 DEF LaterOf
    <2> HIDE DEF m
    <2> QED
      BY <1>8, <2>1, <2>2, Zenon DEF AfterReduce, Finalizes
  <1> HIDE DEF q
  <1>10. CASE RestOf(key) # {}
    <2> DEFINE n == Least(RestOf(key))
               call == [kind |-> "reduce", key |-> n]
    <2>1. /\ n \in AllKeys /\ n[1] = key[1] /\ key # IntegralKey /\ n # IntegralKey /\ key[1] = 1
          /\ \A j \in AllKeys : Before(j, n) <=> Before(j, key) \/ j = key
      BY <1>2, <1>10, RestKeys
    <2>2. q = Calling(m, call)
      BY <1>9, <1>10 DEF Reducing
    <2> HIDE DEF n
    <2>3. IsNext(p, q, f, call)
      BY <1>2, <2>2, CallingNext, Zenon
    <2>4. q.call.kind = "reduce" /\ q.call.key = n
      BY <2>3 DEF IsNext
    <2>5. Reduced(q) = kept /\ Reported(q) = Reported(p)
      BY <2>1, <2>4, <1>6, ReducedByCall
    <2>6. IsFinal(q) = IsFinal(p)
      BY <2>1, <2>4, <1>7 DEF IsFinal
    <2>7. LastCall(r, call)
      BY <2>1 DEF LastCall
    <2>8. StaysLast(r, p, q)
      BY <1>1, <1>2, <1>3, <2>3, <2>5, <2>6, <2>7, NextLastCall DEF IsNext
    <2> QED
      BY <1>5, <2>5, <2>8 DEF q
  <1>11. CASE RestOf(key) = {} /\ StatisticalRank(r) = 0
    <2> DEFINE n == Least(OwnOf(key))
               call == [kind |-> "report", key |-> n]
               g == IF key[1] = 1 THEN FinalSnapshots(f) ELSE f
               z == With(p, g)
    <2>1. n \in AllKeys /\ n[1] = key[1] /\ \A j \in AllKeys : Before(j, n) <=> j[1] < key[1]
      BY <1>2, OwnKeys
    <2>2. kept = {j \in AllKeys : j[1] <= key[1]}
      BY <1>2, <1>6, <1>11, RestKeys
    <2>3. HoldsLast(r, g, kept, TRUE)
      <3>1. CASE key[1] = 1
        <4>1. key # IntegralKey
          BY <3>1 DEF IntegralKey
        <4>0. IsFinal(p) = FALSE
          BY <4>1 DEF IsFinal
        <4>2. HoldsLast(r, f, kept, FALSE)
          BY <4>0, <1>3
        <4>3. OwnOf(<<1>>) \subseteq kept
          BY <2>2, <3>1 DEF OwnOf
        <4>4. kept \in SUBSET AllKeys
          BY <2>2
        <4> HIDE DEF kept
        <4> QED
          BY <4>2, <4>3, <4>4, <1>11, <3>1, FinalizedIs
      <3>2. CASE key[1] # 1
        <4>1. key = IntegralKey
          BY <3>2, <1>2, KeyForm
        <4>2. IsFinal(p) = TRUE
          BY <4>1 DEF IsFinal
        <4> QED
          BY <4>2, <3>2, <1>3
      <3> QED
        BY <3>1, <3>2
    <2>4. DOMAIN g = AllKeys
      BY <2>3 DEF HoldsLast
    <2>5. (IF key[1] = 1 THEN Finalized(m) ELSE m) = z
      <3>1. CASE key[1] = 1
        <4>1. Finalized(m) = With(m, FinalSnapshots(f))
          BY <1>8, FinalizedSnapshots
        <4>2. g = FinalSnapshots(f)
          BY <3>1
        <4> HIDE DEF g
        <4> QED
          BY <4>1, <4>2, <3>1, <1>2, WithFields
      <3>2. CASE key[1] # 1
        BY <3>2
      <3> QED
        BY <3>1, <3>2
    <2> HIDE DEF g
    <2>6. DOMAIN z = Fields /\ z.snapshots = g
      BY <1>2, WithFields
    <2>7. KeysOf(z, key[1]) = OwnOf(key)
      BY <2>4, <2>6 DEF KeysOf, OwnOf
    <2>8. q = Calling(z, call)
      <3> HIDE DEF z, m
      <3> QED
        BY <1>9, <1>11, <2>5, <2>7, Zenon
    <2> HIDE DEF n
    <2>9. IsNext(p, q, g, call)
      BY <1>2, <2>8, CallingNext, Zenon
    <2>10. q.call.kind = "report" /\ q.call.key = n
      BY <2>9 DEF IsNext
    <2>11. Reduced(q) = kept /\ Reported(q) = Reported(p)
      BY <2>1, <2>2, <2>10, <1>6, ReducedByCall
    <2>12. IsFinal(q) = TRUE
      BY <2>10 DEF IsFinal
    <2>13. LastCall(r, call)
      BY <2>1, <1>11 DEF LastCall
    <2>14. StaysLast(r, p, q)
      <3> HIDE DEF call
      <3> QED
        BY <1>1, <1>2, <2>3, <2>9, <2>11, <2>12, <2>13, NextLastCall DEF IsNext
    <2> QED
      BY <1>5, <2>11, <2>14 DEF q
  <1>12. CASE RestOf(key) = {} /\ StatisticalRank(r) # 0
    <2>1. kept = {j \in AllKeys : j[1] <= key[1]}
      BY <1>2, <1>6, <1>12, RestKeys
    <2>2. q = Reducing(m, LaterOf(key))
      BY <1>9, <1>12
    <2>3. \A final : HoldsLast(r, f, kept, final)
      BY <1>3, <1>12 DEF HoldsLast
    <2>4. CASE LaterOf(key) # {}
      <3> DEFINE call == [kind |-> "reduce", key |-> IntegralKey]
      <3>1. /\ Least(LaterOf(key)) = IntegralKey
            /\ \A j \in AllKeys : Before(j, IntegralKey) <=> j[1] <= key[1]
        BY <1>2, <2>4, LaterKeys
      <3>2. q = Calling(m, call)
        BY <2>2, <2>4, <3>1 DEF Reducing
      <3>3. IsNext(p, q, f, call)
        BY <1>2, <3>2, CallingNext, Zenon
      <3>4. q.call.kind = "reduce" /\ q.call.key = IntegralKey
        BY <3>3 DEF IsNext
      <3>5. Reduced(q) = kept
        BY <2>1, <3>1, <3>4, ReducedByCall
      <3>6. LastCall(r, call)
        BY DEF LastCall, AllKeys
      <3>7. StaysLast(r, p, q)
        <4> HIDE DEF call
        <4>1. HoldsLast(r, f, kept, IsFinal(q))
          BY <2>3, Zenon
        <4> QED
          BY <1>1, <1>2, <4>1, <3>3, <3>5, <3>6, NextLastCall DEF IsNext
      <3> QED
        BY <1>5, <1>12, <3>5, <3>7 DEF q
    <2>5. CASE LaterOf(key) = {}
      <3> DEFINE call == [kind |-> "returned"]
      <3>1. \A j \in AllKeys : j[1] <= key[1]
        BY <1>2, <2>5, LaterKeys
      <3>2. q = Calling(m, call)
        BY <2>2, <2>5 DEF Reducing
      <3>3. IsNext(p, q, f, call)
        BY <1>2, <3>2, CallingNext, Zenon
      <3>4. q.call.kind = "returned"
        BY <3>3 DEF IsNext
      <3>5. Reduced(q) = kept
        BY <2>1, <3>1, <3>4, ReducedByCall
      <3>6. LastCall(r, call)
        BY DEF LastCall
      <3>7. StaysLast(r, p, q)
        <4> HIDE DEF call
        <4>1. HoldsLast(r, f, kept, IsFinal(q))
          BY <2>3, Zenon
        <4> QED
          BY <1>1, <1>2, <4>1, <3>3, <3>5, <3>6, NextLastCall DEF IsNext
      <3> QED
        BY <1>5, <1>12, <3>5, <3>7 DEF q
    <2> QED
      BY <2>4, <2>5
  <1> QED
    BY <1>10, <1>11, <1>12

\* A process goes on from a report to the next one, to the next statistics, or returns.
LEMMA ReportGoesOn ==
  ASSUME NEW r \in Ranks, NEW p, StateOK(r, p), p.call.kind = "report"
  PROVE  LET q == AfterReport(p)
         IN  /\ StaysLast(r, p, q) /\ Reduced(q) = Reduced(p)
             /\ Reported(q) = Reported(p) \cup {p.call.key}
  <1> DEFINE key == p.call.key
             q == AfterReport(p)
             f == p.snapshots
  <1>1. FieldsOK(p) /\ LastState(r, p)
    BY StateByCall
  <1>2. DOMAIN p = Fields /\ p.at = SamplesPerProcess + 1 /\ DOMAIN f = AllKeys /\ key \in AllKeys
        /\ HoldsLast(r, f, Reduced(p), IsFinal(p)) /\ StatisticalRank(r) = 0
    BY <1>1, LastStateParts, LastCallIs DEF FieldsOK, HoldsLast
  <1>3. IsFinal(p) = TRUE
    BY DEF IsFinal
  <1>4. Reduced(p) = {j \in AllKeys : j[1] <= key[1]} /\ Reported(p) = {j \in AllKeys : Before(j, key)}
    BY ReducedByCall
  <1>5. q = IF RestOf(key) # {} THEN Calling(p, [kind |-> "report", key |-> Least(RestOf(key))])
            ELSE Reducing(p, LaterOf(key))
    <2>1. {k \in KeysOf(p, key[1]) : Before(key, k)} = RestOf(key)
      BY <1>2 DEF KeysOf, RestOf
    <2>2. {k \in DOMAIN p.snapshots : k[1] > key[1]} = LaterOf(key)
      BY <1>2 DEF LaterOf
    <2> QED
      BY <2>1, <2>2, Zenon DEF AfterReport
  <1> HIDE DEF q
  <1>6. \A call : IsNext(p, Calling(p, call), f, call)
    BY <1>2 DEF IsNext, Calling, Fields
  <1>7. CASE RestOf(key) # {}
    <2> DEFINE n == Least(RestOf(key))
               call == [kind |-> "report", key |-> n]
    <2>1. /\ n \in AllKeys /\ n[1] = key[1]
          /\ \A j \in AllKeys : Before(j, n) <=> Before(j, key) \/ j = key
      BY <1>2, <1>7, RestKeys
    <2>2. q = Calling(p, call)
      BY <1>5, <1>7
    <2> HIDE DEF n
    <2>3. IsNext(p, q, f, call)
      BY <1>6, <2>2, Zenon
    <2>4. q.call.kind = "report" /\ q.call.key = n
      BY <2>3 DEF IsNext
    <2>5. Reduced(q) = Reduced(p) /\ Reported(q) = Reported(p) \cup {key}
      BY <2>1, <2>4, <1>2, <1>4, ReducedByCall
    <2>6. IsFinal(q) = TRUE
      BY <2>4 DEF IsFinal
    <2>7. LastCall(r, call)
      BY <2>1, <1>2 DEF LastCall
    <2>8. StaysLast(r, p, q)
      <3> HIDE DEF call
      <3> QED
        BY <1>1, <1>2, <1>3, <2>3, <2>5, <2>6, <2>7, NextLastCall DEF IsNext
    <2> QED
      BY <2>5, <2>8 DEF q
  <1>8. CASE RestOf(key) = {}
    <2>1. q = Reducing(p, LaterOf(key))
      BY <1>5, <1>8
    <2>2. Reported(p) \cup {key} = {j \in AllKeys : j[1] <= key[1]}
      <3>1. \A j \in AllKeys : j[1] <= key[1] <=> Before(j, key) \/ j = key
        BY <1>2, <1>8, RestKeys
      <3> QED
        BY <3>1, <1>2, <1>4
    <2>3. CASE LaterOf(key) # {}
      <3> DEFINE call == [kind |-> "reduce", key |-> IntegralKey]
      <3>1. /\ Least(LaterOf(key)) = IntegralKey
            /\ \A j \in AllKeys : /\ Before(j, IntegralKey) <=> j[1] <= key[1]
                                  /\ j[1] < IntegralKey[1] <=> j[1] <= key[1]
        BY <1>2, <2>3, LaterKeys
      <3>2. q = Calling(p, call)
        BY <2>1, <2>3, <3>1 DEF Reducing
      <3>3. IsNext(p, q, f, call)
        BY <1>6, <3>2, Zenon
      <3>4. q.call.kind = "reduce" /\ q.call.key = IntegralKey
        BY <3>3 DEF IsNext
      <3>5. Reduced(q) = Reduced(p) /\ Reported(q) = Reported(p) \cup {key}
        BY <2>2, <3>1, <3>4, <1>4, ReducedByCall
      <3>6. LastCall(r, call)
        BY DEF LastCall, AllKeys
      <3>7. IsFinal(q) = TRUE
        BY <3>4 DEF IsFinal
      <3>8. StaysLast(r, p, q)
        <4> HIDE DEF call
        <4> QED
          BY <1>1, <1>2, <1>3, <3>3, <3>5, <3>6, <3>7, NextLastCall DEF IsNext
      <3> QED
        BY <3>5, <3>8 DEF q
    <2>4. CASE LaterOf(key) = {}
      <3> DEFINE call == [kind |-> "returned"]
      <3>1. \A j \in AllKeys : j[1] <= key[1]
        BY <1>2, <2>4, LaterKeys
      <3>2. q = Calling(p, call)
        BY <2>1, <2>4 DEF Reducing
      <3>3. IsNext(p, q, f, call)
        BY <1>6, <3>2, Zenon
      <3>4. q.call.kind = "returned"
        BY <3>3 DEF IsNext
      <3>5. Reduced(q) = Reduced(p) /\ Reported(q) = Reported(p) \cup {key}
        BY <2>2, <3>1, <3>4, <1>4, ReducedByCall
      <3>6. LastCall(r, call)
        BY DEF LastCall
      <3>7. IsFinal(q) = TRUE
        BY <3>4 DEF IsFinal
      <3>8. StaysLast(r, p, q)
        <4> HIDE DEF call
        <4> QED
          BY <1>1, <1>2, <1>3, <3>3, <3>5, <3>6, <3>7, NextLastCall DEF IsNext
      <3> QED
        BY <3>5, <3>8 DEF q
    <2> QED
      BY <2>3, <2>4
  <1> QED
    BY <1>7, <1>8

-----------------------------------------------------------------------------
(* Each action preserves the invariant.                                     *)

\* Members of a communicator.
LEMMA Members ==
  ASSUME NEW r \in Ranks
  PROVE  /\ r \in Spatial(r) /\ Spatial(r) \subseteq Ranks
         /\ r \in Statistical(r) /\ Statistical(r) \subseteq Ranks
         /\ \A q \in Ranks : /\ q \in Spatial(r) <=> StatisticalRank(q) = StatisticalRank(r)
                             /\ q \in Statistical(r) <=> SpatialRank(q) = SpatialRank(r)
  BY DEF Spatial, Statistical

\* A process that has done nothing has no snapshots.
LEMMA NoSnapshots ==
  ASSUME NEW r, NEW f, DOMAIN f = {}
  PROVE  Volumes(f, r, 1, Fresh, -1)
  <1>1. \A n \in Fresh .. Fresh - 1 : FALSE
    BY LastTimes
  <1>2. KeysAt(1, Fresh, -1) = {}
    BY <1>1 DEF KeysAt
  <1> QED
    BY <1>1, <1>2, VolumesParts

\* Processes start in makeGroupNames.
LEMMA InitInv == Init => IInv
  <1> SUFFICES ASSUME Init PROVE IInv
    OBVIOUS
  <1>1. /\ DOMAIN NewProcess = Fields /\ NewProcess.at = 1 /\ NewProcess.generated = 0
        /\ NewProcess.drawn = << >> /\ NewProcess.names = << >> /\ NewProcess.time = 0
        /\ NewProcess.saves = Fresh /\ NewProcess.counted = Fresh /\ NewProcess.lastTime = 0
        /\ NewProcess.snapshots = << >>
    BY DEF NewProcess, Fields
  <1>2. \A r \in Ranks : Between(r, NewProcess)
    <2> TAKE r \in Ranks
    <2>1. IsSequence(<< >>) /\ Len(<< >>) = 0
      BY DEF IsSequence
    <2>2. Volumes(<< >>, r, 1, Fresh, -1)
      BY NoSnapshots
    <2> QED
      BY <1>1, <2>1, <2>2, LastTimes, SamplesCounted DEF Between
  <1> DEFINE q(r) == StartSample(NewProcess, r)
  <1>3. \A r \in Ranks : StateOK(r, q(r)) /\ IsStarted(q(r)) /\ Drew(NewProcess, q(r), 1, SampleOf(r, 1))
    BY <1>1, <1>2, SampleStarted
  <1>4. DOMAIN process = Ranks /\ (\A r \in Ranks : process[r] = q(r)) /\ files = << >> /\ reports = {}
    BY DEF Init
  <1> HIDE DEF q
  <1>5. \A r \in Ranks : process[r].at = 1 /\ Saved(process[r]) = Fresh /\ Clock(process[r]) = 0
                         /\ Reduced(process[r]) = {} /\ Reported(process[r]) = {}
                         /\ (process[r].call.kind = "gather" <=> 1 <= SamplesPerProcess)
    BY <1>3, <1>4 DEF IsStarted, Drew, Saved, Clock
  <1>6. \A r \in Ranks : \A p \in Spatial(r) :
          process[p].drawn = process[r].drawn /\ process[p].generated = process[r].generated
    <2> TAKE r \in Ranks
    <2> TAKE p \in Spatial(r)
    <2>1. p \in Ranks /\ SampleOf(p, 1) = SampleOf(r, 1)
      BY Members, SampleNumber
    <2> QED
      BY <2>1, <1>3, <1>4 DEF Drew
  <1>7. Together(process)
    BY <1>5, <1>6, Members, Zenon DEF Together
  <1>8. FilesOK(1, Fresh)
    BY <1>4, LastTimes DEF FilesOK
  <1>9. ReportsOK
    BY <1>4, <1>5 DEF ReportsOK
  <1> QED
    BY <1>3, <1>4, <1>5, <1>7, <1>8, <1>9 DEF IInv

\* What no action but Write changes.
Same(p, q) ==
  q.at = p.at /\ q.drawn = p.drawn /\ q.generated = p.generated /\ Saved(q) = Saved(p)

\* An action that changes neither samples nor saves keeps the processes together.
LEMMA SameTogether ==
  ASSUME NEW old, NEW new, Together(old), \A r \in Ranks : Same(old[r], new[r]),
         \A r \in Ranks : \A q \in Spatial(r) :
           /\ Clock(new[q]) = Clock(new[r])
           /\ StatisticalRank(r) = 0 => Reported(new[q]) = Reported(new[r]),
         \A r \in Ranks : \A q \in Statistical(r) :
           /\ new[q].call.kind = "gather" <=> new[r].call.kind = "gather"
           /\ Reduced(new[q]) = Reduced(new[r])
  PROVE  Together(new)
  <1>1. \A q, r \in Ranks : new[q].at = new[r].at /\ Saved(new[q]) = Saved(new[r])
    BY Zenon DEF Together, Same
  <1>2. \A r \in Ranks : \A q \in Spatial(r) : new[q].drawn = new[r].drawn /\ new[q].generated = new[r].generated
    BY Members, Zenon DEF Together, Same
  <1> QED
    BY <1>1, <1>2, Zenon DEF Together

\* A step of some processes that changes neither files nor what has been saved.
LEMMA SameFiles ==
  ASSUME IInv, UNCHANGED files, \A r \in Ranks : Same(process[r], process'[r])
  PROVE  \A r \in Ranks : FilesOK(process[r].at, Saved(process[r]))'
  <1> TAKE r \in Ranks
  <1>1. FilesOK(process[r].at, Saved(process[r]))
    BY DEF IInv
  <1>2. process'[r].at = process[r].at /\ Saved(process'[r]) = Saved(process[r])
    BY DEF Same
  <1>3. Saved(process[r])' = Saved(process'[r])
    BY DEF Saved, Sampling
  <1> QED
    BY <1>1, <1>2, <1>3 DEF FilesOK

\* Nothing has been written, and nothing but the clocks, what waits in makeGroupNames
\* and what has been reduced is new.
LEMMA CallsKeep ==
  ASSUME IInv, DOMAIN process' = Ranks, UNCHANGED <<files, reports>>,
         \A r \in Ranks : /\ StateOK(r, process'[r]) /\ Same(process[r], process'[r])
                          /\ StatisticalRank(r) = 0 => Reported(process'[r]) = Reported(process[r]),
         \A r \in Ranks : \A q \in Spatial(r) : Clock(process'[q]) = Clock(process'[r]),
         \A r \in Ranks : \A q \in Statistical(r) :
           /\ process'[q].call.kind = "gather" <=> process'[r].call.kind = "gather"
           /\ Reduced(process'[q]) = Reduced(process'[r])
  PROVE  IInv'
  <1>1. \A r \in Ranks : \A q \in Spatial(r) :
          StatisticalRank(r) = 0 => Reported(process'[q]) = Reported(process'[r])
    <2> TAKE r \in Ranks
    <2> TAKE q \in Spatial(r)
    <2> SUFFICES ASSUME StatisticalRank(r) = 0 PROVE Reported(process'[q]) = Reported(process'[r])
      OBVIOUS
    <2>1. q \in Ranks /\ StatisticalRank(q) = 0
      BY Members DEF Spatial
    <2>2. Reported(process[q]) = Reported(process[r])
      BY Zenon DEF IInv, Together
    <2> QED
      BY <2>1, <2>2
  <1>2. Together(process')
    BY <1>1, SameTogether DEF IInv
  <1>3. ReportsOK'
    <2>1. \A r \in Ranks : StatisticalRank(r) = 0 =>
            {x.key : x \in {y \in reports : y.part = SpatialRank(r)}} = Reported(process'[r])
      BY Zenon DEF IInv, ReportsOK
    <2>2. \A x \in reports : x.key \in AllKeys /\ Final(x.value, x.key, TRUE)
      BY DEF IInv, ReportsOK
    <2> QED
      BY <2>1, <2>2 DEF ReportsOK
  <1>4. \A r \in Ranks : FilesOK(process[r].at, Saved(process[r]))'
    BY SameFiles
  <1> QED
    BY <1>2, <1>3, <1>4 DEF IInv

\* The processes of a group see the same time, and what depends on it.
LEMMA SameTime ==
  ASSUME IInv, NEW r \in Ranks, NEW q \in Spatial(r),
         process[q].call.kind = process[r].call.kind, process[r].call.kind \in {"write", "step", "thrown"}
  PROVE  process[q].time = process[r].time /\ process[q].saves = process[r].saves
  BY Members, Zenon DEF IInv, Together, Clock, Saved, Sampling

\* There is one counter of save times at a time.
LEMMA OneCount ==
  ASSUME NEW m \in Int, NEW n \in Int, NEW i \in Nat, i > 0, NEW t \in Int, CountsTo(m, i, t), CountsTo(n, i, t)
  PROVE  m = n
  <1>1. (m - 1) * i <= t /\ t < m * i /\ (n - 1) * i <= t /\ t < n * i
    BY DEF CountsTo
  <1>2. PICK a \in Int, b \in Int : a = m - 1 /\ b = n - 1
    OBVIOUS
  <1>3. a * i \in Int /\ b * i \in Int /\ m * i \in Int /\ n * i \in Int
    BY Z3
  <1>4. a * i < n * i /\ b * i < m * i
    BY <1>1, <1>2, <1>3
  <1>5. a < n /\ b < m
    BY <1>2, <1>4, Multiples
  <1> QED
    BY <1>2, <1>5

\* The processes of a group step together, and no process is at another sample's save.
LEMMA StepInv ==
  ASSUME IInv, NEW r \in Ranks, Step(r)
  PROVE  IInv'
  <1>1. PICK dt \in StepSizes :
          process' = [q \in Ranks |-> IF q \in Spatial(r) THEN AfterStep(process[q], q, dt) ELSE process[q]]
    BY DEF Step, Advance, Communicator
  <1>2. \A q \in Spatial(r) : process[q].call.kind = "step"
    BY DEF Step, Ready, Communicator
  <1>3. \A q \in Spatial(r) :
          LET p == AfterStep(process[q], q, dt)
          IN  /\ StateOK(q, p) /\ p.call.kind \in {"write", "step"}
              /\ p.at = process[q].at /\ p.generated = process[q].generated /\ p.drawn = process[q].drawn
              /\ p.time = process[q].time + Adjusted(process[q], dt) /\ p.saves = process[q].saves
    BY <1>2, StepGoesOn, Members DEF IInv
  <1> DEFINE moved == Spatial(r)
  <1>4. \A q \in moved : process'[q] = AfterStep(process[q], q, dt) /\ q \in Ranks
    BY <1>1, Members
  <1>5. \A q \in Ranks \ moved : process'[q] = process[q]
    BY <1>1
  <1>6. \A q \in moved : /\ StateOK(q, process'[q]) /\ Same(process[q], process'[q])
                         /\ Reported(process'[q]) = Reported(process[q])
                         /\ Reduced(process'[q]) = Reduced(process[q])
                         /\ process'[q].call.kind # "gather" /\ process[q].call.kind # "gather"
    <2> TAKE q \in moved
    <2>1. process'[q].call.kind \in {"write", "step"} /\ process[q].call.kind = "step"
      BY <1>2, <1>3, <1>4
    <2>2. Same(process[q], process'[q])
      BY <2>1, <1>3, <1>4 DEF Same, Saved, Sampling
    <2>3. Reported(process'[q]) = {} /\ Reduced(process'[q]) = {}
          /\ Reported(process[q]) = {} /\ Reduced(process[q]) = {}
      BY <2>1, ReducedByCall
    <2> QED
      BY <2>1, <2>2, <2>3, <1>3, <1>4
  <1>7. \A q \in moved : Clock(process'[q]) = process[r].time + Adjusted(process[r], dt)
    <2> TAKE q \in moved
    <2>1. process'[q].call.kind \in {"write", "step"} /\ process[q].call.kind = "step" /\ process[r].call.kind = "step"
      BY <1>2, <1>3, <1>4, Members
    <2>2. Clock(process'[q]) = process[q].time + Adjusted(process[q], dt)
      BY <2>1, <1>3, <1>4 DEF Clock, Sampling
    <2>3. process[q].time = process[r].time /\ process[q].saves = process[r].saves
      BY <2>1, SameTime
    <2>4. process[q].counted = process[r].counted
      <3>1. StepState(q, process[q]) /\ StepState(r, process[r]) /\ FieldsOK(process[q]) /\ FieldsOK(process[r])
        BY <2>1, <1>4, StateByCall DEF IInv
      <3>2. CountsTo(process[q].counted, StatisticsInterval, process[r].time)
            /\ CountsTo(process[r].counted, StatisticsInterval, process[r].time)
        BY <2>3, <3>1 DEF StepState
      <3>3. process[q].counted \in Int /\ process[r].counted \in Int /\ process[r].time \in Int
        BY <3>1, LastTimes DEF FieldsOK
      <3> QED
        BY <3>2, <3>3, LastTimes, OneCount
    <2>5. Adjusted(process[q], dt) = Adjusted(process[r], dt)
      BY <2>3, <2>4 DEF Adjusted
    <2> QED
      BY <2>2, <2>3, <2>5
  <1>8. \A q \in Ranks : /\ StateOK(q, process'[q]) /\ Same(process[q], process'[q])
                         /\ Reported(process'[q]) = Reported(process[q])
                         /\ Reduced(process'[q]) = Reduced(process[q])
                         /\ process'[q].call.kind = "gather" <=> process[q].call.kind = "gather"
    <2> TAKE q \in Ranks
    <2>1. CASE q \in moved
      BY <2>1, <1>6
    <2>2. CASE q \notin moved
      BY <2>2, <1>5 DEF IInv, Same
    <2> QED
      BY <2>1, <2>2
  <1>9. \A p \in Ranks : \A q \in Spatial(p) : Clock(process'[q]) = Clock(process'[p])
    <2> TAKE p \in Ranks
    <2> TAKE q \in Spatial(p)
    <2>1. q \in Ranks /\ (q \in moved <=> p \in moved)
      BY Members DEF Spatial
    <2>2. CASE p \in moved
      BY <2>1, <2>2, <1>7
    <2>3. CASE p \notin moved
      <3>1. Clock(process[q]) = Clock(process[p])
        BY Zenon DEF IInv, Together
      <3> QED
        BY <2>1, <2>3, <3>1, <1>5
    <2> QED
      BY <2>2, <2>3
  <1>10. \A p \in Ranks : \A q \in Statistical(p) :
           /\ process'[q].call.kind = "gather" <=> process'[p].call.kind = "gather"
           /\ Reduced(process'[q]) = Reduced(process'[p])
    <2> TAKE p \in Ranks
    <2> TAKE q \in Statistical(p)
    <2>1. q \in Ranks
      BY Members
    <2>2. /\ process[q].call.kind = "gather" <=> process[p].call.kind = "gather"
          /\ Reduced(process[q]) = Reduced(process[p])
      BY Zenon DEF IInv, Together
    <2> QED
      BY <2>1, <2>2, <1>8
  <1>11. DOMAIN process' = Ranks /\ UNCHANGED <<files, reports>>
    BY <1>1 DEF Step
  <1> QED
    BY <1>8, <1>9, <1>10, <1>11, CallsKeep

\* A process that throws keeps what it has.
LEMMA ThrowInv ==
  ASSUME IInv, NEW r \in Ranks, Throw(r)
  PROVE  IInv'
  <1> DEFINE q == Calling(process[r], [kind |-> "thrown"])
  <1>1. process[r].call.kind = "step" /\ process' = [process EXCEPT ![r] = q]
        /\ UNCHANGED <<files, reports>>
    BY DEF Throw
  <1>2. StateOK(r, process[r]) /\ DOMAIN process = Ranks
    BY DEF IInv
  <1>3. FieldsOK(process[r]) /\ StepState(r, process[r])
    BY <1>1, <1>2, StateByCall
  <1>4. DOMAIN process[r] = Fields
    BY <1>3 DEF FieldsOK
  <1>5. /\ DOMAIN q = Fields /\ SameSample(process[r], q) /\ q.counted = process[r].counted
        /\ q.lastTime = process[r].lastTime /\ q.snapshots = process[r].snapshots
        /\ q.call = [kind |-> "thrown"]
    BY <1>4, StepFields
  <1> HIDE DEF q
  <1>6. FieldsOK(q) /\ StepState(r, q) /\ q.call.kind = "thrown"
    BY <1>3, <1>5 DEF FieldsOK, StepState, SameSample
  <1>7. StateOK(r, q)
    BY <1>5, <1>6 DEF StateOK
  <1>8. Same(process[r], q) /\ Clock(q) = Clock(process[r])
    BY <1>1, <1>5, <1>6 DEF Same, SameSample, Saved, Clock, Sampling
  <1>9. Reduced(q) = Reduced(process[r]) /\ Reported(q) = Reported(process[r])
    BY <1>1, <1>6, ReducedByCall
  <1>10. process'[r] = q /\ \A p \in Ranks : p # r => process'[p] = process[p]
    BY <1>1, <1>2
  <1>11. \A p \in Ranks : /\ StateOK(p, process'[p]) /\ Same(process[p], process'[p])
                          /\ Clock(process'[p]) = Clock(process[p])
                          /\ Reported(process'[p]) = Reported(process[p])
                          /\ Reduced(process'[p]) = Reduced(process[p])
                          /\ process'[p].call.kind = "gather" <=> process[p].call.kind = "gather"
    <2> TAKE p \in Ranks
    <2>1. CASE p = r
      BY <2>1, <1>1, <1>6, <1>7, <1>8, <1>9, <1>10
    <2>2. CASE p # r
      BY <2>2, <1>10 DEF IInv, Same
    <2> QED
      BY <2>1, <2>2
  <1>12. \A p \in Ranks : \A x \in Spatial(p) : Clock(process'[x]) = Clock(process'[p])
    <2> TAKE p \in Ranks
    <2> TAKE x \in Spatial(p)
    <2>1. x \in Ranks
      BY Members
    <2>2. Clock(process[x]) = Clock(process[p])
      BY Zenon DEF IInv, Together
    <2> QED
      BY <2>1, <2>2, <1>11
  <1>13. \A p \in Ranks : \A x \in Statistical(p) :
           /\ process'[x].call.kind = "gather" <=> process'[p].call.kind = "gather"
           /\ Reduced(process'[x]) = Reduced(process'[p])
    <2> TAKE p \in Ranks
    <2> TAKE x \in Statistical(p)
    <2>1. x \in Ranks
      BY Members
    <2>2. /\ process[x].call.kind = "gather" <=> process[p].call.kind = "gather"
          /\ Reduced(process[x]) = Reduced(process[p])
      BY Zenon DEF IInv, Together
    <2> QED
      BY <2>1, <2>2, <1>11
  <1>14. DOMAIN process' = Ranks
    BY <1>1, <1>2
  <1> QED
    BY <1>1, <1>11, <1>12, <1>13, <1>14, CallsKeep

\* The names that the processes of a column gather.
LEMMA NamesGathered ==
  ASSUME IInv, NEW r \in Ranks, NEW names,
         names = [i \in 1 .. MultiSample |->
                    SampleOf(CHOOSE q \in Statistical(r) : StatisticalRank(q) = i - 1,
                             process[CHOOSE q \in Statistical(r) : StatisticalRank(q) = i - 1].at)]
  PROVE  \A q \in Ranks : names = NamesAt(process[q].at)
  <1> DEFINE At(i) == CHOOSE q \in Statistical(r) : StatisticalRank(q) = i - 1
  <1> TAKE q \in Ranks
  <1>1. PICK k : k = process[q].at /\ \A p \in Ranks : process[p].at = k
    BY Zenon DEF IInv, Together
  <1>2. \A i \in 1 .. MultiSample : At(i) \in Ranks /\ StatisticalRank(At(i)) = i - 1
    <2> TAKE i \in 1 .. MultiSample
    <2>1. PICK g \in 0 .. MultiSample - 1 : g = i - 1
      BY SamplesCounted
    <2>2. SpatialRank(r) \in 0 .. MultiSpatial - 1
      BY GroupAndPart
    <2>3. PICK p \in Ranks : StatisticalRank(p) = g /\ SpatialRank(p) = SpatialRank(r)
      BY <2>2, RankOf
    <2>4. p \in Statistical(r) /\ StatisticalRank(p) = i - 1
      BY <2>1, <2>3, Members
    <2>5. At(i) \in Statistical(r) /\ StatisticalRank(At(i)) = i - 1
      BY <2>4, Zenon
    <2> HIDE DEF At
    <2> QED
      BY <2>5, Members
  <1>3. names = [i \in 1 .. MultiSample |-> SampleOf(At(i), process[At(i)].at)]
    OBVIOUS
  <1> HIDE DEF At
  <1>4. \A i \in 1 .. MultiSample :
          SampleOf(At(i), process[At(i)].at) = SampleStart + SamplesPerProcess * (i - 1) + k - 1
    BY <1>1, <1>2 DEF SampleOf
  <1> QED
    BY <1>1, <1>3, <1>4 DEF NamesAt

\* A column leaves makeGroupNames together.
LEMMA GatherInv ==
  ASSUME IInv, NEW r \in Ranks, Gather(r)
  PROVE  IInv'
  <1> DEFINE names == [i \in 1 .. MultiSample |->
                    SampleOf(CHOOSE q \in Statistical(r) : StatisticalRank(q) = i - 1,
                             process[CHOOSE q \in Statistical(r) : StatisticalRank(q) = i - 1].at)]
             moved == Statistical(r)
  <1>1. process' = [q \in Ranks |-> IF q \in moved THEN AfterGather(process[q], q, names) ELSE process[q]]
        /\ UNCHANGED <<files, reports>>
    BY DEF Gather, Advance, Communicator
  <1>2. \A q \in moved : process[q].call.kind = "gather" /\ q \in Ranks
    BY Members DEF Gather, Ready, Communicator
  <1>3. \A q \in Ranks : names = NamesAt(process[q].at)
    BY NamesGathered
  <1> HIDE DEF names
  <1>4. \A q \in moved :
          LET p == process'[q]
          IN  /\ StateOK(q, p) /\ p.call.kind \in {"write", "step"}
              /\ p.at = process[q].at /\ p.generated = process[q].generated /\ p.drawn = process[q].drawn
              /\ p.time = 0 /\ p.saves = Fresh
    <2> TAKE q \in moved
    <2>1. q \in Ranks /\ StateOK(q, process[q]) /\ process[q].call.kind = "gather"
      BY <1>2 DEF IInv
    <2>2. process'[q] = AfterGather(process[q], q, NamesAt(process[q].at))
      BY <1>1, <1>3, <2>1
    <2> QED
      BY <2>1, <2>2, GatherGoesOn
  <1>5. \A q \in Ranks \ moved : process'[q] = process[q]
    BY <1>1
  <1>6. \A q \in moved : /\ StateOK(q, process'[q]) /\ Same(process[q], process'[q])
                         /\ Clock(process'[q]) = Clock(process[q])
                         /\ Reported(process'[q]) = Reported(process[q])
                         /\ Reduced(process'[q]) = Reduced(process[q])
                         /\ process'[q].call.kind # "gather"
    <2> TAKE q \in moved
    <2>1. process'[q].call.kind \in {"write", "step"} /\ process[q].call.kind = "gather"
      BY <1>2, <1>4
    <2>2. Same(process[q], process'[q]) /\ Clock(process'[q]) = Clock(process[q])
      BY <2>1, <1>4 DEF Same, Saved, Clock, Sampling
    <2>3. Reported(process'[q]) = {} /\ Reduced(process'[q]) = {}
          /\ Reported(process[q]) = {} /\ Reduced(process[q]) = {}
      BY <2>1, ReducedByCall
    <2> QED
      BY <2>1, <2>2, <2>3, <1>4
  <1>7. \A q \in Ranks : /\ StateOK(q, process'[q]) /\ Same(process[q], process'[q])
                         /\ Clock(process'[q]) = Clock(process[q])
                         /\ Reported(process'[q]) = Reported(process[q])
                         /\ Reduced(process'[q]) = Reduced(process[q])
    <2> TAKE q \in Ranks
    <2>1. CASE q \in moved
      BY <2>1, <1>6
    <2>2. CASE q \notin moved
      BY <2>2, <1>5 DEF IInv, Same
    <2> QED
      BY <2>1, <2>2
  <1>8. \A p \in Ranks : \A x \in Spatial(p) : Clock(process'[x]) = Clock(process'[p])
    <2> TAKE p \in Ranks
    <2> TAKE x \in Spatial(p)
    <2>1. x \in Ranks
      BY Members
    <2>2. Clock(process[x]) = Clock(process[p])
      BY Zenon DEF IInv, Together
    <2> QED
      BY <2>1, <2>2, <1>7
  <1>9. \A p \in Ranks : \A q \in Statistical(p) :
          /\ process'[q].call.kind = "gather" <=> process'[p].call.kind = "gather"
          /\ Reduced(process'[q]) = Reduced(process'[p])
    <2> TAKE p \in Ranks
    <2> TAKE q \in Statistical(p)
    <2>1. q \in Ranks /\ (q \in moved <=> p \in moved)
      BY Members DEF Statistical
    <2>2. /\ process[q].call.kind = "gather" <=> process[p].call.kind = "gather"
          /\ Reduced(process[q]) = Reduced(process[p])
      BY Zenon DEF IInv, Together
    <2>3. CASE p \in moved
      BY <2>1, <2>2, <2>3, <1>6, <1>7
    <2>4. CASE p \notin moved
      BY <2>1, <2>2, <2>4, <1>5
    <2> QED
      BY <2>3, <2>4
  <1>10. DOMAIN process' = Ranks
    BY <1>1
  <1> QED
    BY <1>1, <1>7, <1>8, <1>9, <1>10, CallsKeep

-----------------------------------------------------------------------------
(* Reductions.                                                              *)

\* What all processes of a column have together: every sample once.
LEMMA SumOfColumn ==
  ASSUME NEW r \in Ranks, NEW state, NEW key \in AllKeys,
         \A q \in Statistical(r) :
           /\ state[q].call.key = key
           /\ IF key = IntegralKey THEN IntegralOK(state[q].snapshots[key], q, SamplesPerProcess + 1, -1)
              ELSE state[q].snapshots[key] = Counts(q, SamplesPerProcess + 1, Fresh, Fresh),
         NEW s \in Samples
  PROVE  IF key = IntegralKey THEN Whole(SumAt(state, Statistical(r), s)) ELSE SumAt(state, Statistical(r), s) = 1
  <1> DEFINE S == Statistical(r)
             last == SamplesPerProcess + 1
             of(q) == state[q].snapshots[key].of[s]
  <1>1. PICK q \in Ranks : /\ SpatialRank(q) = SpatialRank(r) /\ DoneBefore(q, last, s)
                           /\ \A p \in Ranks : DoneBefore(p, last, s) => StatisticalRank(p) = StatisticalRank(q)
    BY GroupAndPart, OneOwner
  <1>2. q \in S /\ S \subseteq Ranks
    BY <1>1, Members
  <1>3. \A p \in S : p # q => ~DoneBefore(p, last, s)
    <2> TAKE p \in S
    <2> SUFFICES ASSUME p # q, DoneBefore(p, last, s) PROVE FALSE
      OBVIOUS
    <2>1. p \in Ranks /\ StatisticalRank(p) = StatisticalRank(q) /\ SpatialRank(p) = SpatialRank(q)
      BY <1>1, <1>2 DEF Statistical
    <2> QED
      BY <2>1, OneRank
  <1>4. \A p \in S : of(p) \in Nat /\ (DoneBefore(p, last, s) => IF key = IntegralKey THEN Whole(of(p)) ELSE of(p) = 1)
                     /\ (~DoneBefore(p, last, s) => of(p) = 0)
    <2> TAKE p \in S
    <2>1. CASE key = IntegralKey
      <3>1. IntegralOK(state[p].snapshots[key], p, last, -1)
        BY <2>1
      <3>2. state[p].snapshots[key].of \in [Samples -> 0 .. EndTime]
            /\ (DoneBefore(p, last, s) => Whole(of(p)))
        BY <3>1 DEF IntegralOK
      <3>3. of(p) \in Nat
        <4>1. PICK g \in [Samples -> 0 .. EndTime] : g = state[p].snapshots[key].of
          BY <3>2
        <4>2. g[s] \in 0 .. EndTime /\ of(p) = g[s]
          BY <4>1
        <4> HIDE DEF of
        <4> QED
          BY <4>2, LastTimes
      <3>4. ~DoneBefore(p, last, s) => of(p) = 0
        <4>1. CASE s = SampleOf(p, last)
          <5>1. Partial(of(p), -1)
            BY <3>1, <4>1 DEF IntegralOK
          <5> QED
            BY <5>1, TimesAssumption DEF Partial
        <4>2. CASE s # SampleOf(p, last)
          BY <3>1, <4>2 DEF IntegralOK
        <4> QED
          BY <4>1, <4>2
      <3> QED
        BY <2>1, <3>2, <3>3, <3>4
    <2>2. CASE key # IntegralKey
      <3>1. state[p].snapshots[key] = Counts(p, last, Fresh, Fresh)
        BY <2>2
      <3>2. of(p) = IF DoneBefore(p, last, s) THEN 1 ELSE 0
        BY <3>1, LastTimes DEF Counts
      <3> HIDE DEF of
      <3>3. of(p) \in Nat
        <4>1. CASE DoneBefore(p, last, s)
          BY <3>2, <4>1
        <4>2. CASE ~DoneBefore(p, last, s)
          BY <3>2, <4>2
        <4> QED
          BY <4>1, <4>2
      <3> QED
        BY <2>2, <3>2, <3>3
    <2> QED
      BY <2>1, <2>2
  <1>5. \A p \in S : OperandOf(state, p, s) = of(p)
    BY DEF OperandOf
  <1>6. IsFiniteSet(S)
    <2>1. IsFiniteSet(Ranks)
      <3>1. MultiSample * MultiSpatial \in Int
        BY CountsAssumption, Z3
      <3>2. MultiSample * MultiSpatial - 1 \in Int
        BY <3>1
      <3> QED
        BY <3>2, FS_Interval DEF Ranks
    <2> QED
      BY <1>2, <2>1, FS_Subset
  <1> HIDE DEF S, of
  <1>7. SumAt(state, S, s) = of(q)
    <2>1. OperandOf(state, q, s) \in Nat /\ \A x \in S \ {q} : OperandOf(state, x, s) = 0
      BY <1>2, <1>3, <1>4, <1>5
    <2>2. SumAt(state, S, s) = OperandOf(state, q, s)
      BY <1>2, <1>6, <2>1, SumOfOne
    <2> QED
      BY <1>2, <1>5, <2>2
  <1> QED
    BY <1>1, <1>2, <1>4, <1>7 DEF S

\* Dividing by the number of samples is counted.
LEMMA DividedOnce ==
  ASSUME NEW x
  PROVE  Divided([of |-> x, divisions |-> 0, minus |-> << >>]) = [of |-> x, divisions |-> 1, minus |-> << >>]
  BY DEF Divided

\* What a process has after the reduction of one volume.
LEMMA ReducedVolume ==
  ASSUME NEW r \in Ranks, NEW q \in Statistical(r), NEW state, NEW key \in AllKeys,
         \A p \in Statistical(r) :
           /\ state[p].call.key = key
           /\ IF key = IntegralKey THEN IntegralOK(state[p].snapshots[key], p, SamplesPerProcess + 1, -1)
              ELSE state[p].snapshots[key] = Counts(p, SamplesPerProcess + 1, Fresh, Fresh),
         NEW sum, sum = [s \in Samples |-> SumAt(state, Statistical(r), s)]
  PROVE  LET mine == state[q].snapshots[key]
             v == Divided(IF StatisticalRank(q) = 0 THEN [mine EXCEPT !.of = sum] ELSE mine)
         IN  IF StatisticalRank(q) = 0 THEN Final(v, key, FALSE)
             ELSE v = [of |-> v.of, divisions |-> 1, minus |-> << >>] /\ v.of \in [Samples -> 0 .. EndTime]
  <1> DEFINE mine == state[q].snapshots[key]
             v == Divided(IF StatisticalRank(q) = 0 THEN [mine EXCEPT !.of = sum] ELSE mine)
  <1>1. PICK of \in [Samples -> 0 .. EndTime] : mine = [of |-> of, divisions |-> 0, minus |-> << >>]
    <2>1. CASE key = IntegralKey
      BY <2>1 DEF IntegralOK
    <2>2. CASE key # IntegralKey
      <3>1. mine = Counts(q, SamplesPerProcess + 1, Fresh, Fresh)
        BY <2>2
      <3> DEFINE f == [s \in Samples |-> IF DoneBefore(q, SamplesPerProcess + 1, s)
                                            \/ (s = SampleOf(q, SamplesPerProcess + 1) /\ Fresh < Fresh) THEN 1 ELSE 0]
      <3>2. mine = [of |-> f, divisions |-> 0, minus |-> << >>]
        BY <3>1, Zenon DEF Counts
      <3>3. f \in [Samples -> 0 .. EndTime]
        BY LastTimes
      <3> HIDE DEF f
      <3> QED
        BY <3>2, <3>3
    <2> QED
      BY <2>1, <2>2
  <1> HIDE DEF mine
  <1>2. CASE StatisticalRank(q) # 0
    <2>1. v = [of |-> of, divisions |-> 1, minus |-> << >>]
      BY <1>1, <1>2 DEF Divided
    <2> HIDE DEF v
    <2>2. v.of = of
      BY <2>1
    <2> QED
      BY <1>2, <2>1, <2>2 DEF v, mine
  <1>3. CASE StatisticalRank(q) = 0
    <2>1. v = [of |-> sum, divisions |-> 1, minus |-> << >>]
      <3>1. [mine EXCEPT !.of = sum] = [of |-> sum, divisions |-> 0, minus |-> << >>]
        BY <1>1
      <3>2. v = Divided([of |-> sum, divisions |-> 0, minus |-> << >>])
        BY <3>1, <1>3
      <3> HIDE DEF v
      <3> QED
        BY <3>2, DividedOnce
    <2> HIDE DEF v
    <2>2. v.of = sum
      BY <2>1
    <2>3. \A s \in Samples : IF key = IntegralKey THEN Whole(sum[s]) ELSE sum[s] = 1
      <3> TAKE s \in Samples
      <3>1. sum[s] = SumAt(state, Statistical(r), s)
        OBVIOUS
      <3>2. IF key = IntegralKey THEN Whole(SumAt(state, Statistical(r), s)) ELSE SumAt(state, Statistical(r), s) = 1
        BY SumOfColumn
      <3> QED
        BY <3>1, <3>2
    <2>4. sum = [s \in Samples |-> sum[s]]
      OBVIOUS
    <2>5. CASE key = IntegralKey
      <3>1. sum \in [Samples -> 0 .. EndTime]
        BY <2>3, <2>4, <2>5 DEF Whole
      <3> QED
        BY <2>1, <2>2, <2>3, <2>5, <3>1, <1>3 DEF Final, v, mine
    <2>6. CASE key # IntegralKey
      <3>1. sum = [s \in Samples |-> 1]
        BY <2>3, <2>4, <2>6
      <3>2. v = Mean
        BY <2>1, <3>1 DEF Mean
      <3> QED
        BY <2>6, <3>2, <1>3 DEF Final, v, mine
    <2> QED
      BY <2>5, <2>6
  <1> QED
    BY <1>2, <1>3

\* The keys before a key tell which one it is.
LEMMA KeyOfThoseBefore ==
  ASSUME NEW j \in AllKeys, NEW k \in AllKeys, {i \in AllKeys : Before(i, j)} = {i \in AllKeys : Before(i, k)}
  PROVE  j = k
  BY KeyOrder

\* The processes of a column that reduce, reduce the same volume.
LEMMA SameVolume ==
  ASSUME IInv, NEW r \in Ranks, NEW q \in Statistical(r),
         process[q].call.kind = "reduce", process[r].call.kind = "reduce"
  PROVE  process[q].call.key = process[r].call.key /\ process[r].call.key \in AllKeys
  <1>1. StateOK(q, process[q]) /\ StateOK(r, process[r])
    BY Members DEF IInv
  <1>2. LastState(q, process[q]) /\ LastState(r, process[r])
    BY <1>1, StateByCall
  <1>3. process[q].call.key \in AllKeys /\ process[r].call.key \in AllKeys
    BY <1>2, LastStateParts, LastCallIs
  <1>4. Reduced(process[q]) = Reduced(process[r])
    BY Zenon DEF IInv, Together
  <1>5. /\ Reduced(process[q]) = {j \in AllKeys : Before(j, process[q].call.key)}
        /\ Reduced(process[r]) = {j \in AllKeys : Before(j, process[r].call.key)}
    BY ReducedByCall
  <1> QED
    BY <1>3, <1>4, <1>5, KeyOfThoseBefore

\* A reduction is of the same volume on all processes of a column.
LEMMA ReduceInv ==
  ASSUME IInv, NEW r \in Ranks, Reduce(r)
  PROVE  IInv'
  <1> DEFINE moved == Statistical(r)
             Operand(q) == process[q].snapshots[process[q].call.key]
             sum == [s \in Samples |-> MapThenSumSet(LAMBDA q : Operand(q).of[s], Statistical(r))]
             Volume(q) == Divided(IF StatisticalRank(q) = 0 THEN [Operand(q) EXCEPT !.of = sum] ELSE Operand(q))
             After(q) == AfterReduce([process[q] EXCEPT !.snapshots[process[q].call.key] = Volume(q)], q)
             key == process[r].call.key
  <1>1. process' = [q \in Ranks |-> IF q \in moved THEN After(q) ELSE process[q]]
        /\ UNCHANGED <<files, reports>>
    BY DEF Reduce, Advance, Communicator
  <1>2. \A q \in moved : process[q].call.kind = "reduce" /\ q \in Ranks
    BY Members DEF Reduce, Ready, Communicator
  <1>3. key \in AllKeys /\ \A q \in moved : process[q].call.key = key
    BY <1>2, SameVolume, Members
  <1>4. sum = [s \in Samples |-> SumAt(process, moved, s)]
    BY DEF MapThenSumSet, MapThenFoldSet, IsSums, OperandOf, SumAt
  <1>5. \A q \in moved : IF key = IntegralKey THEN IntegralOK(process[q].snapshots[key], q, SamplesPerProcess + 1, -1)
                         ELSE process[q].snapshots[key] = Counts(q, SamplesPerProcess + 1, Fresh, Fresh)
    <2> TAKE q \in moved
    <2>1. StateOK(q, process[q]) /\ process[q].call.kind = "reduce"
      BY <1>2 DEF IInv
    <2>2. HoldsLast(q, process[q].snapshots, Reduced(process[q]), IsFinal(process[q]))
      BY <2>1, StateByCall, LastStateParts
    <2>3. key \in AllKeys \ Reduced(process[q])
      BY <1>3, <2>1, ReducedByCall, KeyOrder
    <2> QED
      BY <2>2, <2>3 DEF HoldsLast
  <1> HIDE DEF sum, key
  <1>6. \A q \in moved :
          IF StatisticalRank(q) = 0 THEN Final(Volume(q), key, FALSE)
          ELSE /\ Volume(q) = [of |-> Volume(q).of, divisions |-> 1, minus |-> << >>]
               /\ Volume(q).of \in [Samples -> 0 .. EndTime]
    <2> TAKE q \in moved
    <2>1. Operand(q) = process[q].snapshots[key]
      BY <1>3
    <2>2. \A p \in Statistical(r) :
            /\ process[p].call.key = key
            /\ IF key = IntegralKey THEN IntegralOK(process[p].snapshots[key], p, SamplesPerProcess + 1, -1)
               ELSE process[p].snapshots[key] = Counts(p, SamplesPerProcess + 1, Fresh, Fresh)
      BY <1>3, <1>5
    <2> DEFINE mine == process[q].snapshots[key]
               v == Divided(IF StatisticalRank(q) = 0 THEN [mine EXCEPT !.of = sum] ELSE mine)
    <2>3. IF StatisticalRank(q) = 0 THEN Final(v, key, FALSE)
          ELSE v = [of |-> v.of, divisions |-> 1, minus |-> << >>] /\ v.of \in [Samples -> 0 .. EndTime]
      BY <1>3, <1>4, <2>2, ReducedVolume
    <2>4. Volume(q) = v
      BY <2>1
    <2> HIDE DEF v, Volume
    <2> QED
      BY <2>3, <2>4
  <1>7. \A q \in moved : LET p == process'[q]
                         IN  /\ StaysLast(q, process[q], p) /\ Reduced(p) = Reduced(process[q]) \cup {key}
                             /\ StatisticalRank(q) = 0 => Reported(p) = Reported(process[q])
    <2> TAKE q \in moved
    <2>1. StateOK(q, process[q]) /\ process[q].call.kind = "reduce" /\ q \in Ranks /\ process[q].call.key = key
      BY <1>2, <1>3 DEF IInv
    <2> DEFINE v == Volume(q)
    <2>2. IF StatisticalRank(q) = 0 THEN Final(v, process[q].call.key, FALSE)
          ELSE v = [of |-> v.of, divisions |-> 1, minus |-> << >>] /\ v.of \in [Samples -> 0 .. EndTime]
      BY <1>6, <2>1
    <2>3. process'[q] = AfterReduce([process[q] EXCEPT !.snapshots[process[q].call.key] = v], q)
      BY <1>1, <2>1
    <2> HIDE DEF v
    <2>4. PICK p : p = process[q]
      OBVIOUS
    <2>5. /\ StateOK(q, p) /\ p.call.kind = "reduce" /\ q \in Ranks /\ p.call.key = key
          /\ IF StatisticalRank(q) = 0 THEN Final(v, p.call.key, FALSE)
             ELSE v = [of |-> v.of, divisions |-> 1, minus |-> << >>] /\ v.of \in [Samples -> 0 .. EndTime]
          /\ process'[q] = AfterReduce([p EXCEPT !.snapshots[p.call.key] = v], q)
      BY <2>1, <2>2, <2>3, <2>4
    <2> DEFINE after == AfterReduce([p EXCEPT !.snapshots[p.call.key] = v], q)
    <2>6. /\ StaysLast(q, p, after) /\ Reduced(after) = Reduced(p) \cup {p.call.key}
          /\ StatisticalRank(q) = 0 => Reported(after) = Reported(p)
      BY <2>5, ReduceGoesOn
    <2> HIDE DEF after
    <2> QED
      BY <2>4, <2>5, <2>6 DEF after
  <1>8. \A q \in Ranks \ moved : process'[q] = process[q]
    BY <1>1
  <1>9. DOMAIN process' = Ranks
    BY <1>1
  <1> HIDE DEF After
  <1>10. \A q \in moved : /\ StateOK(q, process'[q]) /\ Same(process[q], process'[q])
                          /\ Clock(process'[q]) = Clock(process[q])
                          /\ process'[q].call.kind # "gather" /\ process[q].call.kind # "gather"
    <2> TAKE q \in moved
    <2>1. StaysLast(q, process[q], process'[q]) /\ process[q].call.kind = "reduce"
      BY <1>2, <1>7
    <2> QED
      BY <2>1 DEF StaysLast, Same, Saved, Clock, Sampling
  <1>11. \A q \in Ranks : /\ StateOK(q, process'[q]) /\ Same(process[q], process'[q])
                          /\ Clock(process'[q]) = Clock(process[q])
                          /\ process'[q].call.kind = "gather" <=> process[q].call.kind = "gather"
                          /\ StatisticalRank(q) = 0 => Reported(process'[q]) = Reported(process[q])
    <2> TAKE q \in Ranks
    <2>1. CASE q \in moved
      BY <2>1, <1>7, <1>10
    <2>2. CASE q \notin moved
      BY <2>2, <1>8 DEF IInv, Same
    <2> QED
      BY <2>1, <2>2
  <1>12. \A p \in Ranks : \A x \in Spatial(p) : Clock(process'[x]) = Clock(process'[p])
    <2> TAKE p \in Ranks
    <2> TAKE x \in Spatial(p)
    <2>1. x \in Ranks
      BY Members
    <2>2. Clock(process[x]) = Clock(process[p])
      BY Zenon DEF IInv, Together
    <2> QED
      BY <2>1, <2>2, <1>11
  <1>13. \A p \in Ranks : \A q \in Statistical(p) :
           /\ process'[q].call.kind = "gather" <=> process'[p].call.kind = "gather"
           /\ Reduced(process'[q]) = Reduced(process'[p])
    <2> TAKE p \in Ranks
    <2> TAKE q \in Statistical(p)
    <2>1. q \in Ranks /\ (q \in moved <=> p \in moved)
      BY Members DEF Statistical
    <2>2. /\ process[q].call.kind = "gather" <=> process[p].call.kind = "gather"
          /\ Reduced(process[q]) = Reduced(process[p])
      BY Zenon DEF IInv, Together
    <2>3. CASE p \in moved
      BY <2>1, <2>2, <2>3, <1>7, <1>11
    <2>4. CASE p \notin moved
      BY <2>1, <2>2, <2>4, <1>8
    <2> QED
      BY <2>3, <2>4
  <1> QED
    BY <1>1, <1>9, <1>11, <1>12, <1>13, CallsKeep

\* The processes that write a statistics' file write the same volume.
LEMMA SameReport ==
  ASSUME IInv, NEW r \in Ranks, NEW q \in Spatial(r),
         process[q].call.kind = "report", process[r].call.kind = "report"
  PROVE  /\ StatisticalRank(r) = 0 /\ StatisticalRank(q) = 0
         /\ process[q].call.key = process[r].call.key /\ process[r].call.key \in AllKeys
  <1>1. StateOK(q, process[q]) /\ StateOK(r, process[r])
    BY Members DEF IInv
  <1>2. LastState(q, process[q]) /\ LastState(r, process[r])
    BY <1>1, StateByCall
  <1>3. process[q].call.key \in AllKeys /\ process[r].call.key \in AllKeys
        /\ StatisticalRank(r) = 0 /\ StatisticalRank(q) = 0
    BY <1>2, LastStateParts, LastCallIs
  <1>4. Reported(process[q]) = Reported(process[r])
    BY <1>3, Zenon DEF IInv, Together
  <1>5. /\ Reported(process[q]) = {j \in AllKeys : Before(j, process[q].call.key)}
        /\ Reported(process[r]) = {j \in AllKeys : Before(j, process[r].call.key)}
    BY ReducedByCall
  <1> QED
    BY <1>3, <1>4, <1>5, KeyOfThoseBefore

\* A report is of the same volume on all processes of a group.
LEMMA ReportInv ==
  ASSUME IInv, NEW r \in Ranks, Report(r)
  PROVE  IInv'
  <1> DEFINE moved == Spatial(r)
             key == process[r].call.key
             Entry(q) == [key |-> process[q].call.key, part |-> SpatialRank(q),
                            value |-> process[q].snapshots[process[q].call.key]]
  <1>1. /\ process' = [q \in Ranks |-> IF q \in moved THEN AfterReport(process[q]) ELSE process[q]]
        /\ reports' = reports \cup {Entry(q) : q \in moved}
        /\ UNCHANGED files
    BY DEF Report, Advance, Communicator
  <1>2. \A q \in moved : process[q].call.kind = "report" /\ q \in Ranks
    BY Members DEF Report, Ready, Communicator
  <1>3. key \in AllKeys /\ \A q \in moved : process[q].call.key = key /\ StatisticalRank(q) = 0
    BY <1>2, SameReport, Members
  <1> HIDE DEF key
  <1>4. \A q \in moved : LET p == process'[q]
                         IN  /\ StaysLast(q, process[q], p) /\ Reduced(p) = Reduced(process[q])
                             /\ Reported(p) = Reported(process[q]) \cup {key}
    <2> TAKE q \in moved
    <2>1. StateOK(q, process[q]) /\ process[q].call.kind = "report" /\ q \in Ranks /\ process[q].call.key = key
      BY <1>2, <1>3 DEF IInv
    <2>2. process'[q] = AfterReport(process[q])
      BY <1>1, <2>1
    <2> QED
      BY <2>1, <2>2, ReportGoesOn
  <1>5. \A q \in Ranks \ moved : process'[q] = process[q]
    BY <1>1
  <1>6. \A q \in moved : /\ StateOK(q, process'[q]) /\ Same(process[q], process'[q])
                         /\ Clock(process'[q]) = Clock(process[q])
                         /\ process'[q].call.kind # "gather" /\ process[q].call.kind # "gather"
    <2> TAKE q \in moved
    <2>1. StaysLast(q, process[q], process'[q]) /\ process[q].call.kind = "report"
      BY <1>2, <1>4
    <2> QED
      BY <2>1 DEF StaysLast, Same, Saved, Clock, Sampling
  <1>7. \A q \in Ranks : /\ StateOK(q, process'[q]) /\ Same(process[q], process'[q])
                         /\ Clock(process'[q]) = Clock(process[q])
                         /\ process'[q].call.kind = "gather" <=> process[q].call.kind = "gather"
                         /\ Reduced(process'[q]) = Reduced(process[q])
    <2> TAKE q \in Ranks
    <2>1. CASE q \in moved
      BY <2>1, <1>4, <1>6
    <2>2. CASE q \notin moved
      BY <2>2, <1>5 DEF IInv, Same
    <2> QED
      BY <2>1, <2>2
  <1>8. \A p \in Ranks : \A x \in Spatial(p) :
          /\ Clock(process'[x]) = Clock(process'[p])
          /\ StatisticalRank(p) = 0 => Reported(process'[x]) = Reported(process'[p])
    <2> TAKE p \in Ranks
    <2> TAKE x \in Spatial(p)
    <2>1. x \in Ranks /\ (x \in moved <=> p \in moved)
      BY Members DEF Spatial
    <2>2. /\ Clock(process[x]) = Clock(process[p])
          /\ StatisticalRank(p) = 0 => Reported(process[x]) = Reported(process[p])
      BY Zenon DEF IInv, Together
    <2>3. CASE p \in moved
      BY <2>1, <2>2, <2>3, <1>4, <1>7
    <2>4. CASE p \notin moved
      BY <2>1, <2>2, <2>4, <1>5, <1>7
    <2> QED
      BY <2>3, <2>4
  <1>9. \A p \in Ranks : \A q \in Statistical(p) :
          /\ process'[q].call.kind = "gather" <=> process'[p].call.kind = "gather"
          /\ Reduced(process'[q]) = Reduced(process'[p])
    <2> TAKE p \in Ranks
    <2> TAKE q \in Statistical(p)
    <2>1. q \in Ranks
      BY Members
    <2>2. /\ process[q].call.kind = "gather" <=> process[p].call.kind = "gather"
          /\ Reduced(process[q]) = Reduced(process[p])
      BY Zenon DEF IInv, Together
    <2> QED
      BY <2>1, <2>2, <1>7
  <1>10. Together(process')
    BY <1>7, <1>8, <1>9, SameTogether DEF IInv
  <1>11. \A q \in moved : Final(process[q].snapshots[key], key, TRUE)
    <2> TAKE q \in moved
    <2>1. StateOK(q, process[q]) /\ process[q].call.kind = "report" /\ process[q].call.key = key
          /\ StatisticalRank(q) = 0 /\ q \in Ranks
      BY <1>2, <1>3 DEF IInv
    <2>2. HoldsLast(q, process[q].snapshots, Reduced(process[q]), IsFinal(process[q]))
      BY <2>1, StateByCall, LastStateParts
    <2>3. key \in Reduced(process[q])
      <3>1. Reduced(process[q]) = {j \in AllKeys : j[1] <= key[1]}
        BY <2>1, ReducedByCall
      <3>2. key[1] \in {1, 2}
        BY <1>3, KeyForm
      <3> QED
        BY <1>3, <3>1, <3>2
    <2>4. IsFinal(process[q]) = TRUE
      BY <2>1 DEF IsFinal
    <2> QED
      BY <2>1, <2>2, <2>3, <2>4 DEF HoldsLast
  <1>12. ReportsOK'
    <2>1. \A x \in reports' : x.key \in AllKeys /\ Final(x.value, x.key, TRUE)
      <3> TAKE x \in reports'
      <3>1. CASE x \in reports
        BY <3>1 DEF IInv, ReportsOK
      <3>2. CASE x \notin reports
        <4>1. PICK q \in moved : x = Entry(q)
          BY <1>1, <3>2
        <4>2. x.key = key /\ x.value = process[q].snapshots[key]
          BY <4>1, <1>3
        <4> QED
          BY <4>1, <4>2, <1>3, <1>11
      <3> QED
        BY <3>1, <3>2
    <2>2. ASSUME NEW p \in Ranks, StatisticalRank(p) = 0
          PROVE  {x.key : x \in {y \in reports' : y.part = SpatialRank(p)}} = Reported(process'[p])
      <3>1. {x.key : x \in {y \in reports : y.part = SpatialRank(p)}} = Reported(process[p])
        BY <2>2, Zenon DEF IInv, ReportsOK
      <3>2. p \in moved
        BY <2>2, <1>3, Members
      <3>3. Reported(process'[p]) = Reported(process[p]) \cup {key}
        BY <3>2, <1>4
      <3>4. Entry(p).key = key /\ Entry(p).part = SpatialRank(p) /\ Entry(p) \in reports'
        BY <3>2, <1>1, <1>3
      <3>5. \A x \in reports' : x \in reports \/ x.key = key
        BY <1>1, <1>3
      <3>6. reports \subseteq reports'
        BY <1>1
      <3> HIDE DEF Entry
      <3> QED
        BY <3>1, <3>3, <3>4, <3>5, <3>6
    <2> QED
      BY <2>1, <2>2 DEF ReportsOK
  <1>13. \A p \in Ranks : FilesOK(process[p].at, Saved(process[p]))'
    BY <1>1, <1>7, SameFiles
  <1>14. DOMAIN process' = Ranks
    BY <1>1
  <1> QED
    BY <1>7, <1>10, <1>12, <1>13, <1>14 DEF IInv

-----------------------------------------------------------------------------
(* Files.                                                                   *)

\* Everybody saves the same sample of its group, for the same time.
AllWrite(k, n) ==
  /\ k \in 1 .. SamplesPerProcess /\ n \in Fresh .. LastSave
  /\ \A r \in Ranks :
       /\ process[r].at = k /\ process[r].saves = n /\ process[r].time = n * SampleInterval
       /\ process[r].call.kind = "write"
       /\ process[r].call.names = NamesAt(k)

\* A write is of the same sample and save on all processes.
LEMMA WriteTogether ==
  ASSUME IInv, Write
  PROVE  \E k \in 1 .. SamplesPerProcess, n \in Fresh .. LastSave :
           /\ AllWrite(k, n)
           /\ 0 \in Ranks
           /\ process[0].call = [kind |-> "write", new |-> k = 1, number |-> n - Fresh, names |-> NamesAt(k),
                                 time |-> n * SampleInterval]
  <1>1. \A r \in Ranks : process[r].call.kind = "write"
    BY DEF Write, Ready, Communicator
  <1>2. 0 \in Ranks
    <2>1. PICK m \in Nat : m = MultiSample * MultiSpatial /\ m > 0
      BY CountsAssumption, Z3
    <2> QED
      BY <2>1 DEF Ranks
  <1>3. \A r \in Ranks : WriteState(r, process[r])
    BY <1>1, StateByCall DEF IInv
  <1>4. PICK k, n : k = process[0].at /\ n = process[0].saves
    OBVIOUS
  <1>5. \A r \in Ranks : process[r].at = k /\ process[r].saves = n
    <2> TAKE r \in Ranks
    <2>1. process[r].at = process[0].at /\ Saved(process[r]) = Saved(process[0])
      BY <1>2, Zenon DEF IInv, Together
    <2> QED
      BY <2>1, <1>1, <1>2, <1>4 DEF Saved, Sampling
  <1>6. \A r \in Ranks :
          /\ k \in 1 .. SamplesPerProcess /\ n \in Fresh .. LastSave
          /\ process[r].time = n * SampleInterval
          /\ process[r].call = [kind |-> "write", new |-> k = 1, number |-> n - Fresh, names |-> NamesAt(k),
                                time |-> n * SampleInterval]
    BY <1>3, <1>5 DEF WriteState
  <1>7. \A r \in Ranks : process[r].call.names = NamesAt(k)
    BY <1>6
  <1>8. AllWrite(k, n)
    BY <1>1, <1>2, <1>5, <1>6, <1>7 DEF AllWrite
  <1> QED
    BY <1>2, <1>6, <1>8

\* What a file gets.
Filler(s, part) ==
  CHOOSE q \in Ranks : SpatialRank(q) = part /\ process[q].call.names[StatisticalRank(q) + 1] = s

\* The parts of a dataset, the datasets that the file has, and the file that they make.
Written(s) ==
  [part \in 0 .. MultiSpatial - 1 |->
     LET q == Filler(s, part) IN <<SampleOf(q, process[q].at), process[q].time>>]
OldSets(call) == IF call.new THEN << >> ELSE files[call.number].datasets
Defined(call) == {call.names[i] : i \in DOMAIN call.names}
FileAfter(call) ==
  [time |-> IF call.new THEN call.time ELSE files[call.number].time,
   datasets |-> [s \in DOMAIN OldSets(call) \cup Defined(call) |->
                   IF s \in Defined(call) THEN Written(s) ELSE OldSets(call)[s]]]

\* What the write changes.
LEMMA WriteIs ==
  ASSUME Write, NEW call, call = process[0].call
  PROVE  /\ files' = Put(files, call.number, FileAfter(call))
         /\ call.new \/ call.number \in DOMAIN files
         /\ DOMAIN process' = Ranks /\ \A q \in Ranks : process'[q] = AfterWrite(process[q], q)
         /\ UNCHANGED reports
  <1>2. files' = Put(files, process[0].call.number, FileAfter(process[0].call))
    BY Zenon DEF Write, FileAfter, Filler, Written, OldSets, Defined
  <1>3. call.new \/ call.number \in DOMAIN files
    BY DEF Write
  <1>4. process' = [q \in Ranks |-> IF q \in Ranks THEN AfterWrite(process[q], q) ELSE process[q]]
    BY DEF Write, Advance, Communicator
  <1>5. UNCHANGED reports
    BY DEF Write
  <1> QED
    BY <1>2, <1>3, <1>4, <1>5

\* Every process fills its part of its sample's dataset.
LEMMA FilledBy ==
  ASSUME NEW k, NEW n, AllWrite(k, n), NEW i \in 1 .. MultiSample, NEW part \in 0 .. MultiSpatial - 1
  PROVE  LET s == NamesAt(k)[i]
         IN  Written(s)[part] = <<s, n * SampleInterval>>
  <1> DEFINE s == NamesAt(k)[i]
             q == Filler(s, part)
             Fits(x) == SpatialRank(x) = part /\ process[x].call.names[StatisticalRank(x) + 1] = s
  <1>1. PICK p \in Ranks : StatisticalRank(p) = i - 1 /\ SpatialRank(p) = part
    <2>1. PICK g \in 0 .. MultiSample - 1 : g = i - 1
      BY SamplesCounted
    <2> QED
      BY <2>1, RankOf
  <1>2. Fits(p)
    BY <1>1 DEF AllWrite
  <1>3. q \in Ranks /\ Fits(q)
    BY <1>2, Zenon DEF Filler
  <1> HIDE DEF q
  <1>4. PICK g \in 0 .. MultiSample - 1 : g = StatisticalRank(q)
    BY <1>3, GroupAndPart
  <1>5. s = SampleOf(q, k)
    <2>1. NamesAt(k)[g + 1] = SampleStart + SamplesPerProcess * g + k - 1
      <3>1. PICK h \in 1 .. MultiSample : h = g + 1 /\ h - 1 = g
        BY SamplesCounted
      <3>2. NamesAt(k)[h] = SampleStart + SamplesPerProcess * (h - 1) + k - 1
        BY DEF NamesAt
      <3> QED
        BY <3>1, <3>2
    <2>2. s = NamesAt(k)[g + 1]
      <3> HIDE DEF s
      <3> QED
        BY <1>3, <1>4 DEF AllWrite
    <2> HIDE DEF s
    <2> QED
      BY <2>1, <2>2, <1>4 DEF SampleOf
  <1> HIDE DEF s
  <1>6. process[q].at = k /\ process[q].time = n * SampleInterval
    BY <1>3 DEF AllWrite
  <1>7. Written(s)[part] = <<SampleOf(q, process[q].at), process[q].time>>
    BY DEF Written, q
  <1> QED
    BY <1>5, <1>6, <1>7 DEF s

\* The k-th sample of process r is among the names.
LEMMA Named ==
  ASSUME NEW r \in Ranks, NEW k \in Int
  PROVE  \E i \in 1 .. MultiSample : NamesAt(k)[i] = SampleOf(r, k)
  <1>1. PICK g \in 0 .. MultiSample - 1 : g = StatisticalRank(r)
    BY GroupAndPart
  <1>2. PICK h \in 1 .. MultiSample : h = g + 1 /\ h - 1 = g
    BY SamplesCounted
  <1>3. NamesAt(k)[h] = SampleStart + SamplesPerProcess * (h - 1) + k - 1
    BY DEF NamesAt
  <1>4. NamesAt(k)[h] = SampleOf(r, k)
    BY <1>1, <1>2, <1>3 DEF SampleOf
  <1> QED
    BY <1>4

\* The state of the files when all samples up to the k-th have been saved at n.
LEMMA FilesAfterWrite ==
  ASSUME NEW k \in 1 .. SamplesPerProcess, NEW n \in Fresh .. LastSave, AllWrite(k, n), FilesOK(k, n), NEW call,
         call = [kind |-> "write", new |-> k = 1, number |-> n - Fresh, names |-> NamesAt(k),
                 time |-> n * SampleInterval],
         files' = Put(files, call.number, FileAfter(call)),
         call.new \/ call.number \in DOMAIN files
  PROVE  IF n = LastSave THEN FilesOK(k + 1, Fresh)' ELSE FilesOK(k, n + 1)'
  <1>1. k \in Int /\ n \in Int /\ Fresh \in Int /\ LastSave \in Int /\ k >= 1 /\ n >= Fresh /\ n <= LastSave
        /\ LastSave - Fresh \in Int /\ SamplesPerProcess \in Int
    BY LastTimes, SamplesCounted
  <1>2. PICK number \in 0 .. LastSave - Fresh : number = n - Fresh /\ number + Fresh = n
    BY <1>1
  <1>3. call.number = number /\ call.names = NamesAt(k) /\ call.time = n * SampleInterval /\ call.new = (k = 1)
    BY <1>2
  <1> DEFINE file == FileAfter(call)
             old == OldSets(call)
             defined == Defined(call)
  <1>4. /\ DOMAIN files' = DOMAIN files \cup {number} /\ files'[number] = file
        /\ \A m \in DOMAIN files : m # number => files'[m] = files[m]
    BY <1>3 DEF Put
  <1>5. defined = {NamesAt(k)[i] : i \in 1 .. MultiSample}
    BY <1>3 DEF Defined, NamesAt
  <1>6. /\ DOMAIN file.datasets = DOMAIN old \cup defined
        /\ \A s \in defined : file.datasets[s] = Written(s)
        /\ \A s \in DOMAIN old \ defined : file.datasets[s] = old[s]
        /\ file.time = IF call.new THEN call.time ELSE files[call.number].time
    BY DEF FileAfter
  <1>7. \A m \in DOMAIN files :
          /\ m \in 0 .. LastSave - Fresh
          /\ files[m].time = (m + Fresh) * SampleInterval
          /\ \A s \in DOMAIN files[m].datasets : \A part \in 0 .. MultiSpatial - 1 :
               files[m].datasets[s][part] = <<s, files[m].time>>
    BY DEF FilesOK
  <1>8. \A m \in 0 .. LastSave - Fresh : \A r \in Ranks : \A j \in 1 .. SamplesPerProcess :
          j < k \/ (j = k /\ m + Fresh < n) =>
            m \in DOMAIN files /\ SampleOf(r, j) \in DOMAIN files[m].datasets
    BY DEF FilesOK
  <1>9. IF k = 1 THEN DOMAIN old = {} ELSE old = files[number].datasets /\ number \in DOMAIN files
    <2>1. CASE k = 1
      <3>1. old = << >>
        BY <2>1, <1>3 DEF OldSets
      <3> QED
        BY <2>1, <3>1
    <2>2. CASE k # 1
      <3>1. ~call.new
        BY <2>2, <1>3
      <3> QED
        BY <2>2, <3>1, <1>3 DEF OldSets
    <2> QED
      BY <2>1, <2>2
  <1> HIDE DEF file, old, defined
  <1>10. file.time = n * SampleInterval
    BY <1>2, <1>3, <1>6, <1>7, <1>9
  <1>11. \A m \in DOMAIN files' :
           /\ m \in 0 .. LastSave - Fresh
           /\ files'[m].time = (m + Fresh) * SampleInterval
           /\ \A s \in DOMAIN files'[m].datasets : \A part \in 0 .. MultiSpatial - 1 :
                files'[m].datasets[s][part] = <<s, files'[m].time>>
    <2> TAKE m \in DOMAIN files'
    <2>1. CASE m # number
      <3>1. m \in DOMAIN files /\ files'[m] = files[m]
        BY <2>1, <1>4
      <3>2. /\ m \in 0 .. LastSave - Fresh
            /\ files[m].time = (m + Fresh) * SampleInterval
            /\ \A s \in DOMAIN files[m].datasets : \A part \in 0 .. MultiSpatial - 1 :
                 files[m].datasets[s][part] = <<s, files[m].time>>
        BY <3>1, <1>7, Zenon
      <3>3. PICK x : x = files[m] /\ x = files'[m]
        BY <3>1
      <3> QED
        BY <3>2, <3>3
    <2>2. CASE m = number
      <3>1. files'[m] = file
        BY <2>2, <1>4
      <3>2. ASSUME NEW s \in DOMAIN file.datasets, NEW part \in 0 .. MultiSpatial - 1
            PROVE  file.datasets[s][part] = <<s, n * SampleInterval>>
        <4>1. CASE s \in defined
          <5>1. PICK i \in 1 .. MultiSample : s = NamesAt(k)[i]
            BY <4>1, <1>5
          <5>2. Written(NamesAt(k)[i])[part] = <<NamesAt(k)[i], n * SampleInterval>>
            BY FilledBy
          <5> QED
            BY <4>1, <5>1, <5>2, <1>6
        <4>2. CASE s \notin defined
          <5>1. s \in DOMAIN old /\ file.datasets[s] = old[s]
            BY <4>2, <1>6
          <5>2. k # 1 /\ old = files[number].datasets /\ number \in DOMAIN files
            BY <5>1, <1>9
          <5>3. files[number].datasets[s][part] = <<s, files[number].time>>
            BY <5>1, <5>2, <1>7
          <5>4. files[number].time = n * SampleInterval
            BY <5>2, <1>2, <1>7
          <5> QED
            BY <5>1, <5>2, <5>3, <5>4
        <4> QED
          BY <4>1, <4>2
      <3> QED
        BY <2>2, <3>1, <3>2, <1>2, <1>10
    <2> QED
      BY <2>1, <2>2
  <1>12. ASSUME NEW m \in 0 .. LastSave - Fresh, NEW r \in Ranks, NEW j \in 1 .. SamplesPerProcess,
                j < k \/ (j = k /\ m + Fresh <= n)
         PROVE  m \in DOMAIN files' /\ SampleOf(r, j) \in DOMAIN files'[m].datasets
    <2>0. j \in Int /\ m \in Int
      BY <1>1
    <2>1. CASE m # number
      <3>1. j < k \/ (j = k /\ m + Fresh < n)
        BY <2>0, <2>1, <1>1, <1>2, <1>12
      <3>2. m \in DOMAIN files /\ SampleOf(r, j) \in DOMAIN files[m].datasets
        BY <3>1, <1>8
      <3> QED
        BY <2>1, <3>2, <1>4
    <2>2. CASE m = number
      <3>1. m \in DOMAIN files' /\ files'[m] = file
        BY <2>2, <1>4
      <3>2. CASE j = k
        <4>1. PICK i \in 1 .. MultiSample : NamesAt(k)[i] = SampleOf(r, k)
          BY <1>1, Named
        <4>2. SampleOf(r, k) \in defined
          BY <4>1, <1>5
        <4> QED
          BY <3>1, <3>2, <4>2, <1>6
      <3>3. CASE j # k
        <4>1. j < k /\ k # 1
          BY <3>3, <2>0, <1>1, <1>12
        <4>2. SampleOf(r, j) \in DOMAIN files[m].datasets
          BY <4>1, <1>8
        <4> QED
          BY <4>1, <4>2, <2>2, <3>1, <1>6, <1>9
      <3> QED
        BY <3>2, <3>3
    <2> QED
      BY <2>1, <2>2
  <1>13. CASE n = LastSave
    <2>1. \A m \in 0 .. LastSave - Fresh : \A r \in Ranks : \A j \in 1 .. SamplesPerProcess :
            j < k + 1 \/ (j = k + 1 /\ m + Fresh < Fresh) =>
              m \in DOMAIN files' /\ SampleOf(r, j) \in DOMAIN files'[m].datasets
      <3> TAKE m \in 0 .. LastSave - Fresh
      <3> TAKE r \in Ranks
      <3> TAKE j \in 1 .. SamplesPerProcess
      <3> SUFFICES ASSUME j < k + 1 \/ (j = k + 1 /\ m + Fresh < Fresh)
                   PROVE  m \in DOMAIN files' /\ SampleOf(r, j) \in DOMAIN files'[m].datasets
        OBVIOUS
      <3>1. j < k \/ (j = k /\ m + Fresh <= n)
        BY <1>1, <1>13
      <3> QED
        BY <3>1, <1>12
    <2> QED
      BY <2>1, <1>11, <1>13 DEF FilesOK
  <1>14. CASE n # LastSave
    <2>1. \A m \in 0 .. LastSave - Fresh : \A r \in Ranks : \A j \in 1 .. SamplesPerProcess :
            j < k \/ (j = k /\ m + Fresh < n + 1) =>
              m \in DOMAIN files' /\ SampleOf(r, j) \in DOMAIN files'[m].datasets
      <3> TAKE m \in 0 .. LastSave - Fresh
      <3> TAKE r \in Ranks
      <3> TAKE j \in 1 .. SamplesPerProcess
      <3> SUFFICES ASSUME j < k \/ (j = k /\ m + Fresh < n + 1)
                   PROVE  m \in DOMAIN files' /\ SampleOf(r, j) \in DOMAIN files'[m].datasets
        OBVIOUS
      <3>1. j < k \/ (j = k /\ m + Fresh <= n)
        BY <1>1, <1>14
      <3> QED
        BY <3>1, <1>12
    <2> QED
      BY <2>1, <1>11, <1>14 DEF FilesOK
  <1> QED
    BY <1>13, <1>14

\* A save is written by all processes at once.
LEMMA WriteInv ==
  ASSUME IInv, Write
  PROVE  IInv'
  <1>1. PICK k \in 1 .. SamplesPerProcess, n \in Fresh .. LastSave :
          /\ AllWrite(k, n) /\ 0 \in Ranks
          /\ process[0].call = [kind |-> "write", new |-> k = 1, number |-> n - Fresh, names |-> NamesAt(k),
                                time |-> n * SampleInterval]
    BY WriteTogether
  <1>2. PICK call : call = process[0].call
    OBVIOUS
  <1>3. /\ files' = Put(files, call.number, FileAfter(call))
        /\ call.new \/ call.number \in DOMAIN files
        /\ DOMAIN process' = Ranks /\ \A q \in Ranks : process'[q] = AfterWrite(process[q], q)
        /\ UNCHANGED reports
    BY <1>2, WriteIs
  <1>4. \A r \in Ranks : /\ process[r].at = k /\ process[r].saves = n /\ process[r].time = n * SampleInterval
                         /\ process[r].call.kind = "write" /\ StateOK(r, process[r])
    BY <1>1 DEF AllWrite, IInv
  <1>5. \A r \in Ranks :
          /\ StateOK(r, process'[r])
          /\ IF n = LastSave
             THEN IsStarted(process'[r]) /\ Drew(process[r], process'[r], k + 1, SampleOf(r, k + 1))
             ELSE /\ process'[r].call.kind = "step"
                  /\ process'[r].at = k /\ process'[r].generated = process[r].generated
                  /\ process'[r].drawn = process[r].drawn
                  /\ process'[r].time = n * SampleInterval /\ process'[r].saves = n + 1
    BY <1>3, <1>4, WriteGoesOn
  <1>6. FilesOK(k, n)
    <2>1. FilesOK(process[0].at, Saved(process[0]))
      BY <1>1 DEF IInv
    <2>2. process[0].at = k /\ Saved(process[0]) = n
      BY <1>1, <1>4 DEF Saved, Sampling
    <2> QED
      BY <2>1, <2>2
  <1>7. IF n = LastSave THEN FilesOK(k + 1, Fresh)' ELSE FilesOK(k, n + 1)'
    BY <1>1, <1>2, <1>3, <1>6, FilesAfterWrite
  <1>8. \A r \in Ranks :
          /\ process'[r].at = IF n = LastSave THEN k + 1 ELSE k
          /\ Saved(process'[r]) = IF n = LastSave THEN Fresh ELSE n + 1
          /\ Clock(process'[r]) = IF n = LastSave THEN 0 ELSE n * SampleInterval
          /\ process'[r].call.kind = "gather" <=> n = LastSave /\ k + 1 <= SamplesPerProcess
          /\ Reduced(process'[r]) = {} /\ Reported(process'[r]) = {}
    <2> TAKE r \in Ranks
    <2>1. CASE n = LastSave
      <3>1. IsStarted(process'[r]) /\ process'[r].at = k + 1
        BY <2>1, <1>5 DEF Drew
      <3> QED
        BY <2>1, <3>1 DEF IsStarted, Saved, Clock
    <2>2. CASE n # LastSave
      <3>1. process'[r].call.kind = "step" /\ process'[r].at = k
            /\ process'[r].time = n * SampleInterval /\ process'[r].saves = n + 1
        BY <2>2, <1>5
      <3>2. Reduced(process'[r]) = {} /\ Reported(process'[r]) = {}
        BY <3>1, ReducedByCall
      <3> QED
        BY <2>2, <3>1, <3>2 DEF Saved, Clock, Sampling
    <2> QED
      BY <2>1, <2>2
  <1>9. \A r \in Ranks : \A q \in Spatial(r) :
          process'[q].drawn = process'[r].drawn /\ process'[q].generated = process'[r].generated
    <2> TAKE r \in Ranks
    <2> TAKE q \in Spatial(r)
    <2>1. q \in Ranks /\ process[q].drawn = process[r].drawn /\ process[q].generated = process[r].generated
      BY Members, Zenon DEF IInv, Together
    <2>2. CASE n = LastSave
      <3>1. SampleOf(q, k + 1) = SampleOf(r, k + 1)
        <4>1. k + 1 \in Int
          BY SamplesCounted
        <4> QED
          BY <4>1, SampleNumber
      <3>2. Drew(process[r], process'[r], k + 1, SampleOf(r, k + 1))
            /\ Drew(process[q], process'[q], k + 1, SampleOf(r, k + 1))
        BY <2>1, <2>2, <3>1, <1>5
      <3> QED
        BY <2>1, <3>2 DEF Drew
    <2>3. CASE n # LastSave
      BY <2>1, <2>3, <1>5
    <2> QED
      BY <2>2, <2>3
  <1>10. Together(process')
    <2>1. \A q, r \in Ranks : process'[q].at = process'[r].at /\ Saved(process'[q]) = Saved(process'[r])
      BY <1>8
    <2>2. \A r \in Ranks : \A q \in Spatial(r) :
            Clock(process'[q]) = Clock(process'[r]) /\ Reported(process'[q]) = Reported(process'[r])
      BY <1>8, Members
    <2>3. \A r \in Ranks : \A q \in Statistical(r) :
            /\ process'[q].call.kind = "gather" <=> process'[r].call.kind = "gather"
            /\ Reduced(process'[q]) = Reduced(process'[r])
      BY <1>8, Members
    <2> QED
      BY <2>1, <2>2, <2>3, <1>9, Zenon DEF Together
  <1>11. \A r \in Ranks : FilesOK(process[r].at, Saved(process[r]))'
    <2> TAKE r \in Ranks
    <2>1. CASE n = LastSave
      <3>1. process'[r].at = k + 1 /\ Saved(process'[r]) = Fresh /\ FilesOK(k + 1, Fresh)'
        BY <2>1, <1>7, <1>8
      <3> QED
        BY <3>1 DEF FilesOK
    <2>2. CASE n # LastSave
      <3>1. process'[r].at = k /\ Saved(process'[r]) = n + 1 /\ FilesOK(k, n + 1)'
        BY <2>2, <1>7, <1>8
      <3> QED
        BY <3>1 DEF FilesOK
    <2> QED
      BY <2>1, <2>2
  <1>12. ReportsOK'
    <2>1. \A r \in Ranks : Reported(process'[r]) = Reported(process[r])
      BY <1>4, <1>8, ReducedByCall
    <2>2. \A r \in Ranks : StatisticalRank(r) = 0 =>
            {x.key : x \in {y \in reports : y.part = SpatialRank(r)}} = Reported(process'[r])
      BY <2>1, Zenon DEF IInv, ReportsOK
    <2>3. \A x \in reports : x.key \in AllKeys /\ Final(x.value, x.key, TRUE)
      BY DEF IInv, ReportsOK
    <2> QED
      BY <1>3, <2>2, <2>3 DEF ReportsOK
  <1> QED
    BY <1>3, <1>5, <1>10, <1>11, <1>12 DEF IInv

-----------------------------------------------------------------------------
(* The theorems.                                                            *)

\* Every step of the processes preserves the invariant.
LEMMA NextInv == IInv /\ [Next]_vars => IInv'
  <1> SUFFICES ASSUME IInv, [Next]_vars PROVE IInv'
    OBVIOUS
  <1>1. CASE Write
    BY <1>1, WriteInv
  <1>2. ASSUME NEW r \in Ranks, Gather(r) PROVE IInv'
    BY <1>2, GatherInv
  <1>3. ASSUME NEW r \in Ranks, Step(r) PROVE IInv'
    BY <1>3, StepInv
  <1>4. ASSUME NEW r \in Ranks, Throw(r) PROVE IInv'
    BY <1>4, ThrowInv
  <1>5. ASSUME NEW r \in Ranks, Reduce(r) PROVE IInv'
    BY <1>5, ReduceInv
  <1>6. ASSUME NEW r \in Ranks, Report(r) PROVE IInv'
    BY <1>6, ReportInv
  <1>7. CASE UNCHANGED vars
    BY <1>7 DEF vars, IInv, FilesOK, ReportsOK
  <1> QED
    BY <1>1, <1>2, <1>3, <1>4, <1>5, <1>6, <1>7 DEF Next

\* On all processes of Runner::run, whatever steps their simulations take and whether
\* or not they throw: each is in one of the states of StateOK, the processes of a group,
\* of a column and all of them agree on what Together says, and files and statistics
\* hold what the processes have come to.
THEOREM Inductive == Spec => []IInv
  <1> QED
    BY InitInv, NextInv, PTL DEF Spec

\* Before the last sample is done, and after.
LEMMA AtByCall ==
  ASSUME NEW r, NEW p, StateOK(r, p)
  PROVE  /\ p.at \in 1 .. SamplesPerProcess + 1
         /\ p.call.kind \in {"gather", "write", "step", "thrown"} => p.at <= SamplesPerProcess
         /\ p.call.kind \in {"reduce", "report", "returned"} => p.at > SamplesPerProcess
  <1>1. GatherState(r, p) => p.at \in 1 .. SamplesPerProcess
    BY DEF GatherState
  <1>2. WriteState(r, p) => p.at \in 1 .. SamplesPerProcess
    BY DEF WriteState
  <1>3. StepState(r, p) => p.at \in 1 .. SamplesPerProcess
    BY DEF StepState
  <1>4. LastState(r, p) => p.at = SamplesPerProcess + 1
    BY DEF LastState
  <1>5. p.call.kind \in {"gather", "write", "step", "thrown", "reduce", "report", "returned"}
    BY StateByCall
  <1>6. p.call.kind \in {"gather", "write", "step", "thrown"} => p.at \in 1 .. SamplesPerProcess
    BY <1>1, <1>2, <1>3, StateByCall
  <1>7. p.call.kind \in {"reduce", "report", "returned"} => p.at = SamplesPerProcess + 1
    BY <1>4, StateByCall
  <1> QED
    BY <1>5, <1>6, <1>7, SamplesCounted

\* The files' property follows from the invariant,
LEMMA FilesFollow == IInv => FilesHoldSamples
  <1> SUFFICES ASSUME IInv PROVE FilesHoldSamples
    OBVIOUS
  <1>1. \A r \in Ranks : FilesOK(process[r].at, Saved(process[r])) /\ process[r].at \in 1 .. SamplesPerProcess + 1
    <2> TAKE r \in Ranks
    <2>1. StateOK(r, process[r]) /\ FilesOK(process[r].at, Saved(process[r]))
      BY DEF IInv
    <2>2. process[r].at \in 1 .. SamplesPerProcess + 1
      BY <2>1, AtByCall
    <2> QED
      BY <2>1, <2>2
  <1>2. 0 \in Ranks
    <2>1. PICK m \in Nat : m = MultiSample * MultiSpatial /\ m > 0
      BY CountsAssumption, Z3
    <2> QED
      BY <2>1 DEF Ranks
  <1>3. \A n \in DOMAIN files :
          LET saved == (n + Fresh) * SampleInterval IN
          /\ files[n].time = saved
          /\ \A s \in DOMAIN files[n].datasets : \A part \in 0 .. MultiSpatial - 1 :
               files[n].datasets[s][part] = <<s, saved>>
    <2> TAKE n \in DOMAIN files
    <2>1. /\ files[n].time = (n + Fresh) * SampleInterval
          /\ \A s \in DOMAIN files[n].datasets : \A part \in 0 .. MultiSpatial - 1 :
               files[n].datasets[s][part] = <<s, files[n].time>>
      BY <1>1, <1>2, Zenon DEF FilesOK
    <2> QED
      BY <2>1
  <1>4. \A r \in Ranks : \A k \in 1 .. process[r].at - 1 :
          \A n \in 0 .. EndTime \div SampleInterval - Fresh :
            n \in DOMAIN files /\ SampleOf(r, k) \in DOMAIN files[n].datasets
    <2> TAKE r \in Ranks
    <2> TAKE k \in 1 .. process[r].at - 1
    <2> TAKE n \in 0 .. EndTime \div SampleInterval - Fresh
    <2>1. n \in 0 .. LastSave - Fresh
      BY DEF LastSave
    <2>2. k \in 1 .. SamplesPerProcess /\ k < process[r].at
      BY <1>1, SamplesCounted
    <2> QED
      BY <2>1, <2>2, <1>1 DEF FilesOK
  <1> QED
    BY <1>3, <1>4 DEF FilesHoldSamples

\* and that of the statistics,
LEMMA ReportsFollow == IInv => StatisticsOfAllSamples
  <1> SUFFICES ASSUME IInv PROVE StatisticsOfAllSamples
    OBVIOUS
  <1>1. \A x \in reports : x.key \in AllKeys /\ Final(x.value, x.key, TRUE)
    BY DEF IInv, ReportsOK
  <1>2. ASSUME NEW report \in reports
        PROVE  IF report.key = IntegralKey
               THEN /\ report.value.divisions = 1
                    /\ \A s \in Samples :
                         LET missed == report.value.of[s] - 2 * BallRadius
                         IN  -MaximumOf(StepSizes) < missed /\ missed <= MaximumOf(StepSizes)
               ELSE report.value = IF report.key[3] = 1 THEN Mean ELSE [Mean EXCEPT !.minus = <<Mean>>]
    <2>1. report.key \in AllKeys /\ Final(report.value, report.key, TRUE)
      BY <1>1
    <2>2. CASE report.key = IntegralKey
      <3>1. /\ report.value = [of |-> report.value.of, divisions |-> 1, minus |-> << >>]
            /\ \A s \in Samples : Whole(report.value.of[s])
        BY <2>1, <2>2 DEF Final
      <3>2. report.value.divisions = 1
        BY <3>1
      <3> QED
        BY <2>2, <3>1, <3>2 DEF Whole, LargestStep
    <2>3. CASE report.key # IntegralKey
      <3>1. report.value = IF report.key[3] = 2 /\ TRUE THEN [Mean EXCEPT !.minus = <<Mean>>] ELSE Mean
        BY <2>1, <2>3 DEF Final
      <3>2. report.key[3] \in {1, 2}
        BY <2>1, KeyForm
      <3> QED
        BY <2>3, <3>1, <3>2
    <2> QED
      BY <2>2, <2>3
  <1>3. AllKeys = {IntegralKey} \cup
          UNION {{MeanKey(n * StatisticsInterval), VarianceKey(n * StatisticsInterval)} :
                   n \in Fresh .. EndTime \div StatisticsInterval}
    BY DEF AllKeys, CountKeys, MeanKey, VarianceKey, LastCount
  <1>4. ASSUME NEW r \in Ranks, process[r].call.kind = "returned", StatisticalRank(r) = 0
        PROVE  {report.key : report \in {x \in reports : x.part = SpatialRank(r)}} = AllKeys
    <2>1. {x.key : x \in {y \in reports : y.part = SpatialRank(r)}} = Reported(process[r])
      BY <1>4, Zenon DEF IInv, ReportsOK
    <2>2. Reported(process[r]) = AllKeys
      BY <1>4, ReducedByCall
    <2> QED
      BY <2>1, <2>2
  <1> QED
    BY <1>2, <1>3, <1>4, Zenon DEF StatisticsOfAllSamples

\* Two processes of a group and of a column at once are the same.
LEMMA GroupAndColumn ==
  ASSUME NEW q \in Ranks, NEW r \in Ranks, q \in Spatial(r) \/ r \in Spatial(q),
         q \in Statistical(r) \/ r \in Statistical(q)
  PROVE  q = r
  BY Members, OneRank

\* A process that saves has come further than one that steps with the same counter.
LEMMA SaveOrStep ==
  ASSUME NEW q, NEW r, NEW p, NEW o, WriteState(q, p), StepState(r, o), p.time = o.time, p.saves = o.saves
  PROVE  FALSE
  <1>1. p.time = p.saves * SampleInterval
    BY DEF WriteState
  <1>2. o.time < o.saves * SampleInterval
    BY DEF StepState, CountsTo
  <1>3. p.saves * SampleInterval \in Int
    <2>1. p.saves \in Int
      BY LastTimes DEF WriteState
    <2> QED
      BY <2>1, LastTimes, Multiples
  <1> QED
    BY <1>1, <1>2, <1>3

\* and that of the collective calls.
LEMMA CallsFollow == IInv => CollectivesMatch
  <1> SUFFICES ASSUME IInv, NEW r \in Ranks, Meet(r), NEW q \in Communicator(r, process[r].call.kind)
               PROVE  process[q].call = process[r].call
    BY DEF CollectivesMatch
  <1> DEFINE o == process[q]
             p == process[r]
  <1>1. p.call.kind \in {"gather", "write", "step", "reduce", "report"}
    BY StateByCall DEF IInv, Meet, InCollective
  <1>2. q \in Ranks
    BY <1>1, Members DEF Communicator
  <1>3. o.call.kind \in {"gather", "write", "step", "reduce", "report"}
    BY <1>1, <1>2, StateByCall DEF IInv, Meet, InCollective
  <1>4. Communicator(q, o.call.kind) = Communicator(r, p.call.kind)
    BY DEF Meet
  <1>5. StateOK(q, o) /\ StateOK(r, p)
    BY <1>2 DEF IInv
  <1>6. o.at = p.at /\ Saved(o) = Saved(p)
    BY <1>2, Zenon DEF IInv, Together
  <1>7. q \in Spatial(r) => /\ Clock(o) = Clock(p) /\ o.drawn = p.drawn
                            /\ SampleOf(q, p.at) = SampleOf(r, p.at)
    <2>1. q \in Spatial(r) => /\ Clock(o) = Clock(p) /\ o.drawn = p.drawn
      BY Zenon DEF IInv, Together
    <2>2. q \in Spatial(r) => SampleOf(q, p.at) = SampleOf(r, p.at)
      BY <1>2 DEF SampleOf, Spatial
    <2> QED
      BY <2>1, <2>2
  <1>8. q \in Statistical(r) => (o.call.kind = "gather" <=> p.call.kind = "gather")
    BY Zenon DEF IInv, Together
  <1>9. /\ o.call.kind \in {"gather", "write", "step"} => o.at <= SamplesPerProcess
        /\ p.call.kind \in {"gather", "write", "step"} => p.at <= SamplesPerProcess
        /\ o.call.kind \in {"reduce", "report"} => o.at > SamplesPerProcess
        /\ p.call.kind \in {"reduce", "report"} => p.at > SamplesPerProcess
        /\ o.at \in Int /\ p.at \in Int /\ SamplesPerProcess \in Int
    BY <1>5, AtByCall, SamplesCounted
  <1>10. r \in Communicator(q, o.call.kind) /\ q \in Communicator(r, p.call.kind)
    BY <1>1, <1>4, Members DEF Communicator
  <1>11. CASE p.call.kind = "gather"
    <2>1. o.call.kind = "gather"
      BY <1>8, <1>10, <1>11 DEF Communicator
    <2>2. o.call = [kind |-> "gather"] /\ p.call = [kind |-> "gather"]
      BY <2>1, <1>5, <1>11, StateByCall DEF GatherState
    <2> QED
      BY <2>2
  <1>12. CASE p.call.kind = "step"
    <2>1. q \in Spatial(r)
      BY <1>10, <1>12 DEF Communicator
    <2>2. o.call.kind # "gather"
      <3> SUFFICES ASSUME o.call.kind = "gather" PROVE FALSE
        OBVIOUS
      <3>1. r \in Statistical(q)
        BY <1>10 DEF Communicator
      <3>2. q = r
        BY <2>1, <3>1, <1>2, GroupAndColumn
      <3> QED
        BY <3>2, <1>12
    <2>3. o.call.kind # "write"
      <3> SUFFICES ASSUME o.call.kind = "write" PROVE FALSE
        OBVIOUS
      <3>1. WriteState(q, o) /\ StepState(r, p)
        BY <1>5, <1>12, StateByCall
      <3>2. o.time = p.time /\ o.saves = p.saves
        BY <2>1, <1>6, <1>7, <1>12 DEF Clock, Saved, Sampling
      <3> QED
        BY <3>1, <3>2, SaveOrStep
    <2>4. o.call.kind = "step"
      BY <2>2, <2>3, <1>3, <1>6, <1>9, <1>12
    <2>5. o.call = StepCall(q, o) /\ p.call = StepCall(r, p)
      BY <2>4, <1>5, <1>12, StateByCall
    <2>6. o.time = p.time
      BY <2>1, <2>4, <1>7, <1>12 DEF Clock, Sampling
    <2> QED
      BY <2>1, <2>5, <2>6, <1>6, <1>7 DEF StepCall
  <1>13. CASE p.call.kind = "write"
    <2>1. o.call.kind # "gather"
      <3> SUFFICES ASSUME o.call.kind = "gather" PROVE FALSE
        OBVIOUS
      <3>1. r \in Statistical(q)
        BY <1>10 DEF Communicator
      <3>2. q \in Statistical(r)
        BY <3>1, <1>2, Members
      <3> QED
        BY <3>2, <1>8, <1>13
    <2>2. o.call.kind # "step"
      <3> SUFFICES ASSUME o.call.kind = "step" PROVE FALSE
        OBVIOUS
      <3>1. r \in Spatial(q)
        BY <1>10 DEF Communicator
      <3>2. q \in Spatial(r)
        BY <3>1, <1>2, Members
      <3>3. WriteState(r, p) /\ StepState(q, o)
        BY <1>5, <1>13, StateByCall
      <3>4. p.time = o.time /\ p.saves = o.saves
        BY <3>2, <1>6, <1>7, <1>13 DEF Clock, Saved, Sampling
      <3> QED
        BY <3>3, <3>4, SaveOrStep
    <2>3. o.call.kind = "write"
      BY <2>1, <2>2, <1>3, <1>6, <1>9, <1>13
    <2>4. o.saves = p.saves
      BY <2>3, <1>6, <1>13 DEF Saved, Sampling
    <2>5. WriteState(q, o) /\ WriteState(r, p)
      BY <2>3, <1>5, <1>13, StateByCall
    <2> QED
      BY <2>4, <2>5, <1>6 DEF WriteState
  <1>14. CASE p.call.kind = "reduce"
    <2>1. q \in Statistical(r)
      BY <1>10, <1>14 DEF Communicator
    <2>2. o.call.kind \in {"reduce", "report"}
      BY <1>3, <1>6, <1>9, <1>14
    <2>3. o.call.kind # "report"
      <3> SUFFICES ASSUME o.call.kind = "report" PROVE FALSE
        OBVIOUS
      <3>1. r \in Spatial(q)
        BY <1>10 DEF Communicator
      <3>2. q = r
        BY <2>1, <3>1, <1>2, GroupAndColumn
      <3> QED
        BY <3>2, <1>14
    <2>4. o.call.key = p.call.key
      BY <2>1, <2>2, <2>3, <1>14, SameVolume
    <2>5. o.call = [kind |-> o.call.kind, key |-> o.call.key] /\ p.call = [kind |-> p.call.kind, key |-> p.call.key]
      BY <2>2, <1>5, <1>14, StateByCall, LastStateParts, LastCallIs
    <2> QED
      BY <2>2, <2>3, <2>4, <2>5, <1>14
  <1>15. CASE p.call.kind = "report"
    <2>1. q \in Spatial(r)
      BY <1>10, <1>15 DEF Communicator
    <2>2. o.call.kind \in {"reduce", "report"}
      BY <1>3, <1>6, <1>9, <1>15
    <2>3. o.call.kind # "reduce"
      <3> SUFFICES ASSUME o.call.kind = "reduce" PROVE FALSE
        OBVIOUS
      <3>1. r \in Statistical(q)
        BY <1>10 DEF Communicator
      <3>2. q = r
        BY <2>1, <3>1, <1>2, GroupAndColumn
      <3> QED
        BY <3>2, <1>15
    <2>4. o.call.key = p.call.key
      BY <2>1, <2>2, <2>3, <1>15, SameReport
    <2>5. o.call = [kind |-> o.call.kind, key |-> o.call.key] /\ p.call = [kind |-> p.call.kind, key |-> p.call.key]
      BY <2>2, <1>5, <1>15, StateByCall, LastStateParts, LastCallIs
    <2> QED
      BY <2>2, <2>3, <2>4, <2>5, <1>15
  <1> QED
    BY <1>1, <1>11, <1>12, <1>13, <1>14, <1>15

\* The volumes that there are.
LEMMA CountsTyped ==
  ASSUME NEW r, NEW k, NEW c, NEW n
  PROVE  IsVolume(Counts(r, k, c, n))
  <1> DEFINE f == [s \in Samples |-> IF DoneBefore(r, k, s) \/ (s = SampleOf(r, k) /\ n < c) THEN 1 ELSE 0]
  <1>1. Counts(r, k, c, n) = [of |-> f, divisions |-> 0, minus |-> << >>]
    BY Zenon DEF Counts
  <1>2. f \in [Samples -> 0 .. EndTime]
    BY LastTimes
  <1> HIDE DEF f
  <1> QED
    BY <1>1, <1>2 DEF IsVolume, IsSum

\* What is integrated is a volume,
LEMMA IntegralTyped ==
  ASSUME NEW v, NEW r, NEW k, NEW t, IntegralOK(v, r, k, t)
  PROVE  IsVolume(v)
  <1>1. PICK of \in [Samples -> 0 .. EndTime] : v = [of |-> of, divisions |-> 0, minus |-> << >>]
    BY DEF IntegralOK
  <1> QED
    BY <1>1 DEF IsVolume, IsSum

\* what is final is one,
LEMMA FinalTyped ==
  ASSUME NEW v, NEW key, NEW final, Final(v, key, final)
  PROVE  IsVolume(v)
  <1>1. CASE key = IntegralKey
    <2>1. PICK of \in [Samples -> 0 .. EndTime] : v = [of |-> of, divisions |-> 1, minus |-> << >>]
      BY <1>1 DEF Final
    <2> QED
      BY <2>1 DEF IsVolume, IsSum
  <1>2. CASE key # IntegralKey
    <2> DEFINE ones == [s \in Samples |-> 1]
    <2>1. ones \in [Samples -> 0 .. EndTime]
      BY LastTimes
    <2>2. Mean = [of |-> ones, divisions |-> 1, minus |-> << >>]
      BY DEF Mean
    <2> HIDE DEF ones
    <2>3. IsSum(Mean) /\ IsVolume(Mean)
      BY <2>1, <2>2 DEF IsSum, IsVolume
    <2>4. PICK m : m = Mean
      OBVIOUS
    <2>5. [m EXCEPT !.minus = <<m>>] = [of |-> ones, divisions |-> 1, minus |-> <<m>>]
      BY <2>2, <2>4
    <2>6. IsVolume([of |-> ones, divisions |-> 1, minus |-> <<m>>])
      BY <2>1, <2>3, <2>4 DEF IsSum, IsVolume
    <2>7. v = Mean \/ v = [m EXCEPT !.minus = <<m>>]
      BY <1>2, <2>4 DEF Final
    <2> QED
      BY <2>3, <2>5, <2>6, <2>7
  <1> QED
    BY <1>1, <1>2

\* and what a process has, during its samples
LEMMA VolumesTyped ==
  ASSUME NEW f, NEW r, NEW k, NEW c, NEW t, Volumes(f, r, k, c, t)
  PROVE  \A key \in DOMAIN f : IsVolume(f[key])
  <1>1. /\ DOMAIN f = KeysAt(k, c, t)
        /\ \A n \in Fresh .. (IF k > 1 THEN LastCount ELSE c - 1), volume \in {1, 2} :
             f[CountKey(n, volume)] = Counts(r, k, c, n)
        /\ k > 1 \/ t >= 0 => IntegralOK(f[IntegralKey], r, k, t)
    BY VolumesParts
  <1> TAKE key \in DOMAIN f
  <1>2. CASE k > 1 \/ t >= 0
    <2>1. CASE key = IntegralKey
      BY <1>1, <1>2, <2>1, IntegralTyped
    <2>2. CASE key # IntegralKey
      <3>1. PICK n \in Fresh .. (IF k > 1 THEN LastCount ELSE c - 1), volume \in {1, 2} : key = CountKey(n, volume)
        BY <1>1, <2>2 DEF KeysAt, CountKey
      <3> QED
        BY <1>1, <3>1, CountsTyped
    <2> QED
      BY <2>1, <2>2
  <1>3. CASE ~(k > 1 \/ t >= 0)
    <2>1. PICK n \in Fresh .. (IF k > 1 THEN LastCount ELSE c - 1), volume \in {1, 2} : key = CountKey(n, volume)
      BY <1>1, <1>3 DEF KeysAt, CountKey
    <2> QED
      BY <1>1, <2>1, CountsTyped
  <1> QED
    BY <1>2, <1>3

\* and after them.
LEMMA HoldsLastTyped ==
  ASSUME NEW r, NEW f, NEW reduced \in SUBSET AllKeys, NEW final, HoldsLast(r, f, reduced, final)
  PROVE  \A key \in DOMAIN f : IsVolume(f[key])
  <1> TAKE key \in DOMAIN f
  <1>0. key \in AllKeys
    BY DEF HoldsLast
  <1>1. CASE key \notin reduced
    <2>1. IF key = IntegralKey THEN IntegralOK(f[key], r, SamplesPerProcess + 1, -1)
          ELSE f[key] = Counts(r, SamplesPerProcess + 1, Fresh, Fresh)
      BY <1>0, <1>1, Zenon DEF HoldsLast
    <2>2. CASE key = IntegralKey
      BY <2>1, <2>2, IntegralTyped
    <2>3. CASE key # IntegralKey
      BY <2>1, <2>3, CountsTyped
    <2> QED
      BY <2>2, <2>3
  <1>2. CASE key \in reduced
    <2>1. CASE StatisticalRank(r) = 0
      <3>1. Final(f[key], key, final)
        BY <1>2, <2>1, Zenon DEF HoldsLast
      <3> QED
        BY <3>1, FinalTyped
    <2>2. CASE StatisticalRank(r) # 0
      <3>1. f[key] = [of |-> f[key].of, divisions |-> 1, minus |-> << >>] /\ f[key].of \in [Samples -> 0 .. EndTime]
        BY <1>2, <2>2, Zenon DEF HoldsLast
      <3>2. PICK of \in [Samples -> 0 .. EndTime] : f[key] = [of |-> of, divisions |-> 1, minus |-> << >>]
        BY <3>1
      <3> QED
        BY <3>2 DEF IsVolume, IsSum
    <2> QED
      BY <2>1, <2>2
  <1> QED
    BY <1>1, <1>2

\* makeGroupNames finds a name for each group.
LEMMA NamesLength ==
  ASSUME NEW k \in Int
  PROVE  Len(NamesAt(k)) = MultiSample
  <1>1. \A i \in 1 .. MultiSample : SampleStart + SamplesPerProcess * (i - 1) + k - 1 \in Int
    <2> TAKE i \in 1 .. MultiSample
    <2>1. PICK g \in Int : g = i - 1
      BY SamplesCounted
    <2>2. SamplesPerProcess * g \in Int
      BY SamplesCounted, Z3
    <2> QED
      BY <2>1, <2>2, SamplesCounted
  <1>2. NamesAt(k) \in [1 .. MultiSample -> Int]
    BY <1>1 DEF NamesAt
  <1> QED
    BY <1>2, SamplesCounted, LenProperties, SMT

\* The type invariant follows from the inductive one.
LEMMA TypesFollow == IInv => TypeOK
  <1> SUFFICES ASSUME IInv PROVE TypeOK
    OBVIOUS
  <1>1. ASSUME NEW r \in Ranks
        PROVE  LET p == process[r] IN
                 /\ p.at \in 1 .. SamplesPerProcess + 1
                 /\ p.time \in 0 .. EndTime /\ p.lastTime \in 0 .. EndTime
                 /\ p.saves \in 0 .. EndTime \div SampleInterval + 1
                 /\ p.counted \in 0 .. EndTime \div StatisticsInterval + 1
                 /\ Len(p.drawn) \in {p.at, p.at - 1}
                 /\ Len(p.names) \in {0, MultiSample}
                 /\ \A k \in DOMAIN p.snapshots : IsVolume(p.snapshots[k])
                 /\ p.call.kind \in {"gather", "write", "step", "reduce", "report", "returned", "thrown"}
    <2>1. PICK p : p = process[r] /\ StateOK(r, p)
      BY <1>1 DEF IInv
    <2>2. FieldsOK(p) /\ p.call.kind \in {"gather", "write", "step", "thrown", "reduce", "report", "returned"}
      BY <2>1, StateByCall
    <2>3. p.at \in 1 .. SamplesPerProcess + 1
      BY <2>1, AtByCall
    <2>4. p.time \in 0 .. EndTime /\ p.lastTime \in 0 .. EndTime
          /\ p.saves \in 0 .. EndTime \div SampleInterval + 1
          /\ p.counted \in 0 .. EndTime \div StatisticsInterval + 1
          /\ Len(p.drawn) \in {p.at, p.at - 1}
      BY <2>2 DEF FieldsOK, LastSave, LastCount
    <2>5. Len(p.names) \in {0, MultiSample}
      <3>1. CASE p.names = << >>
        BY <3>1
      <3>2. CASE \E k \in 1 .. SamplesPerProcess : p.names = NamesAt(k)
        <4>1. PICK k \in 1 .. SamplesPerProcess : p.names = NamesAt(k)
          BY <3>2
        <4>2. k \in Int
          BY SamplesCounted
        <4> QED
          BY <4>1, <4>2, NamesLength
      <3> QED
        BY <2>2, <3>1, <3>2 DEF FieldsOK
    <2>6. \A k \in DOMAIN p.snapshots : IsVolume(p.snapshots[k])
      <3>1. CASE p.call.kind = "gather"
        <4>1. Volumes(p.snapshots, r, p.at, Fresh, -1)
          BY <2>1, <3>1, StateByCall DEF GatherState
        <4> QED
          BY <4>1, VolumesTyped
      <3>2. CASE p.call.kind = "write"
        <4>1. BeforeStatistics(r, p)
          BY <2>1, <3>2, StateByCall DEF WriteState
        <4>2. Volumes(p.snapshots, r, p.at, Fresh, -1) \/ Volumes(p.snapshots, r, p.at, p.counted, p.lastTime)
          BY <4>1, Zenon DEF BeforeStatistics
        <4> QED
          BY <4>2, VolumesTyped
      <3>3. CASE p.call.kind \in {"step", "thrown"}
        <4>1. StepState(r, p)
          BY <2>1, <3>3, StateByCall
        <4>2. Volumes(p.snapshots, r, p.at, p.counted, p.time)
          BY <4>1 DEF StepState
        <4> QED
          BY <4>2, VolumesTyped
      <3>4. CASE p.call.kind \in {"reduce", "report", "returned"}
        <4>1. HoldsLast(r, p.snapshots, Reduced(p), IsFinal(p)) /\ Reduced(p) \in SUBSET AllKeys
          BY <2>1, <3>4, StateByCall, LastStateParts DEF Reduced
        <4> QED
          BY <4>1, HoldsLastTyped
      <3> QED
        BY <2>2, <3>1, <3>2, <3>3, <3>4
    <2>7. p.call.kind \in {"gather", "write", "step", "reduce", "report", "returned", "thrown"}
      BY <2>2
    <2> QED
      BY <2>1, <2>3, <2>4, <2>5, <2>6, <2>7
  <1>2. \A n \in DOMAIN files : n \in 0 .. EndTime \div SampleInterval
    <2>1. 0 \in Ranks
      <3>1. PICK m \in Nat : m = MultiSample * MultiSpatial /\ m > 0
        BY CountsAssumption, Z3
      <3> QED
        BY <3>1 DEF Ranks
    <2>2. FilesOK(process[0].at, Saved(process[0]))
      BY <2>1 DEF IInv
    <2>3. \A n \in DOMAIN files : n \in 0 .. LastSave - Fresh
      BY <2>2 DEF FilesOK
    <2> QED
      BY <2>3, LastTimes DEF LastSave
  <1>3. \A report \in reports : IsVolume(report.value)
    BY FinalTyped DEF IInv, ReportsOK
  <1> QED
    BY <1>1, <1>2, <1>3 DEF TypeOK

\* The state of every process of Runner::run is of its type: counters stay within the
\* end time, and each volume is divided at most once and less at most one square.
THEOREM Types == Spec => []TypeOK
  BY Inductive, TypesFollow, PTL

\* When processes meet in a collective call of makeGroupNames, callWriters,
\* combineStatistics or writeStatistics, all of them are in the same call, about the same
\* file, volume or step, for every number of processes and samples.
THEOREM Matching == Spec => []CollectivesMatch
  BY Inductive, CallsFollow, PTL

\* NetCDFMPIWriter's files hold every sample that has come to a save, each as it was at
\* that time in all its parts, and adding a sample to a file loses none.
THEOREM SavedFiles == Spec => []FilesHoldSamples
  BY Inductive, FilesFollow, PTL

\* What combineStatistics reduces and writeStatistics writes has every sample once, from
\* the snapshot's time, divided once and with the square of the same mean subtracted; a
\* time integral covers the ball, up to a step; those who write return with all of it.
THEOREM StatisticsComplete == Spec => []StatisticsOfAllSamples
  BY Inductive, ReportsFollow, PTL
=============================================================================
