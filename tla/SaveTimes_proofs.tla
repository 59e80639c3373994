-------------------------- MODULE SaveTimes_proofs --------------------------
(***************************************************************************)
(* The savers of a simulator meet their times, whatever configuration they  *)
(* were built for and whatever steps the CFL condition gives.               *)
(***************************************************************************)
EXTENDS SaveTimes, GridIndexing, WellFoundedInduction, TLAPS

(* The inductive invariant.                                                 *)

\* The largest error of rounding.
Unit == IF savers \in Rounded THEN 1 ELSE 0

\* The time for which a saver plans the save that its counters point at.
Planned(s, saved, small) ==
  s.interval * saved + (IF s.kind = "coarse" THEN s.spacing * small ELSE s.start)

\* The savers are those of a configuration.
Setting ==
  /\ \E setup \in Setups \cup RoundedSetups : savers = SaversOf(setup)
  /\ error \in [Products -> Rounding]
  /\ phase \in {"built", "running", "finalized"}
  /\ time \in Nat
  /\ phase = "built" => time = 0
  /\ phase = "finalized" => AtEnd
  /\ state = [w \in Writers |-> state[w]]
  /\ target = [w \in Writers |-> target[w]]
  /\ files = [w \in Writers |-> files[w]]

\* The next save time lies ahead, the last one does not.
CountersOK(w) ==
  LET s == savers[w]
  IN  /\ state[w] \in [saved : 0 .. MaxSaves, small : Int, first : BOOLEAN]
      /\ phase = "built" => state[w] = Fresh(s)
      /\ phase # "built" /\ s.kind # "none" =>
           /\ state[w].saved >= 1
           /\ NextSave(w) > time
           /\ state[w].saved >= 2 =>
                Planned(s, state[w].saved - 1, s.coarseSaves) - Unit <= time
           /\ s.kind = "coarse" =>
                ~state[w].first /\ state[w].small \in -s.coarseSaves .. s.coarseSaves

\* How many files a saver has written by its counters.
Saves(s, c) ==
  IF s.kind = "coarse" THEN (2 * s.coarseSaves + 1) * (c.saved - 1) + c.small + s.coarseSaves + 1
  ELSE IF s.initial THEN c.saved ELSE c.saved - 1

FilesOK(w) ==
  LET s == savers[w]
  IN  /\ files[w] \in Seq(Nat)
      /\ s.kind # "none" /\ s.target.kind = "file" =>
           /\ Len(files[w]) = IF phase = "built" THEN 0 ELSE Saves(s, state[w])
           /\ \A j \in 1 .. Len(files[w]) : Distance(files[w][j], Scheduled(w, j)) <= Slack

\* An average has been written if a save came when its ball was over, and the first
\* save added something to it.
TargetOK(w) ==
  LET s == savers[w]
      g == savers[w].target
  IN  /\ target[w] \in [last : Nat, weight : Nat, written : BOOLEAN]
      /\ target[w].last <= time
      /\ g.kind = "average" =>
           /\ files[w] = IF target[w].written THEN <<g.time>> ELSE << >>
           /\ savers \notin Rounded /\ ~target[w].written /\ state[w].saved >= 2 =>
                Planned(s, state[w].saved - 1, 0) < g.time + g.radius
           /\ target[w].written \/ state[w].saved >= 2 => target[w].weight > 0

\* A saver that divides the end time lets no step pass it.
EndOK(w) ==
  /\ savers \notin Rounded
  /\ savers[w].kind = "fixed" /\ savers[w].start = 0 /\ EndTime % savers[w].interval = 0
  => time <= EndTime

IInv ==
  /\ Setting
  /\ \A w \in Writers : CountersOK(w) /\ FilesOK(w) /\ TargetOK(w) /\ EndOK(w)

-----------------------------------------------------------------------------
(* What the savers of a configuration are.                                  *)

\* A time that is divided evenly is made up of its parts.
LEMMA Divided ==
  ASSUME NEW a \in Nat, NEW n \in Nat, n > 0, a % n = 0
  PROVE  a \div n \in Nat /\ (a \div n) * n = a
  <1>1. PICK q \in Nat : q = a \div n
    BY DivMod
  <1>2. a = q * n + (a % n)
    BY <1>1, SMT
  <1> QED
    BY <1>1, <1>2

\* More parts make up more.
LEMMA MoreParts ==
  ASSUME NEW q \in Nat, NEW n \in Nat, NEW m \in Nat, n <= m
  PROVE  q * n <= q * m /\ q * n \in Nat
  BY Z3

\* A number that is divided into as much as itself has one part.
LEMMA MultipleOfItself ==
  ASSUME NEW q \in Nat, q > 0, NEW n \in Nat, q * n = q
  PROVE  n = 1
  <1>1. CASE n = 0
    BY <1>1
  <1>2. CASE n >= 2
    <2>1. q * 2 <= q * n
      BY <1>2, MoreParts
    <2> QED
      BY <2>1
  <1> QED
    BY <1>1, <1>2

\* The assumptions on a saver that has an interval.
Spaced(s) ==
  /\ s.interval > 0 /\ s.interval - 2 * s.coarseSaves * s.spacing > 0
  /\ s.interval * (MaxSaves - 2) >= EndTime
  /\ s.kind = "fixed" => /\ s.coarseSaves = 0 /\ s.spacing = 0
                         /\ s.initial => s.start = 0 /\ s.target.kind = "file"
  /\ s.kind = "coarse" => /\ s.start = 0 /\ ~s.initial /\ s.target.kind = "file"
                          /\ s.spacing > 0

\* An average or an integral is taken at save times that divide its ball.
Averaged(s) ==
  /\ s.kind = "fixed" /\ ~s.initial
  /\ s.start = IF s.target.time > s.target.radius THEN s.target.time - s.target.radius ELSE 0
  /\ \E m \in Nat \ {0} : s.interval * m = s.target.radius

\* An interval that divides the end time.
LEMMA IntervalOfSaves ==
  ASSUME NEW n \in 1 .. MaxSaves - 2, EndTime % n = 0
  PROVE  /\ EndTime \div n \in Nat /\ EndTime \div n > 0
         /\ (EndTime \div n) * (MaxSaves - 2) >= EndTime
  <1>1. EndTime \in Nat /\ EndTime > 0 /\ MaxSaves \in Nat /\ n \in Nat /\ n > 0
    BY TimesAssumption
  <1>2. PICK q \in Nat : q = EndTime \div n /\ q * n = EndTime
    BY <1>1, Divided
  <1>3. PICK m \in Nat : m = MaxSaves - 2 /\ n <= m
    BY <1>1
  <1>4. q * n <= q * m
    BY <1>1, <1>3, MoreParts
  <1>5. q > 0
    BY <1>1, <1>2, Z3
  <1> QED
    BY <1>1, <1>2, <1>3, <1>4, <1>5

\* An interval that divides the radius of a ball.
LEMMA IntervalOfBall ==
  ASSUME NEW r \in Nat, NEW n \in Nat \ {0}, r % n = 0,
         (r \div n) * (MaxSaves - 2) >= EndTime
  PROVE  /\ r \div n \in Nat /\ r \div n > 0
         /\ \E m \in Nat \ {0} : (r \div n) * m = r
  <1>1. EndTime \in Nat /\ EndTime > 0 /\ MaxSaves \in Nat
    BY TimesAssumption
  <1>2. PICK q \in Nat : q = r \div n /\ q * n = r
    BY Divided
  <1>3. q * (MaxSaves - 2) >= EndTime
    BY <1>2
  <1>4. q > 0
    BY <1>1, <1>3, Z3
  <1> QED
    BY <1>2, <1>4

\* What is built has an interval as the assumptions want it, whatever is given.
SaverOK(s) ==
  /\ s \in Saver
  /\ s.kind # "none" => Spaced(s)
  /\ s.target.kind = "average" =>
       Averaged(s) /\ (s.interval = s.target.radius => s.target.time > 0)
  /\ s.target.kind = "functional" /\ s.kind = "fixed" => Averaged(s)

\* A saver for each step.
LEMMA EachStepOK ==
  ASSUME NEW g \in Target, g.kind # "average"
  PROVE  SaverOK(EachStep(g))
  BY DEF EachStep, SaverOK, Saver

\* A saver for a number of times.
LEMMA FixedOK ==
  ASSUME NEW n \in 1 .. MaxSaves - 2, EndTime % n = 0, NEW initial \in BOOLEAN
  PROVE  SaverOK(Fixed(File, n, initial))
  <1>1. PICK q \in Nat : q = EndTime \div n /\ q > 0 /\ q * (MaxSaves - 2) >= EndTime
    BY IntervalOfSaves
  <1>2. File \in Target /\ File.kind = "file"
    BY DEF File, Target
  <1>3. PICK s : s = Fixed(File, n, initial)
    OBVIOUS
  <1>4. /\ s \in Saver /\ s.kind = "fixed" /\ s.target = File /\ s.interval = q
        /\ s.start = 0 /\ s.coarseSaves = 0 /\ s.spacing = 0
    BY <1>1, <1>2, <1>3 DEF Fixed, EachStep, Saver
  <1>5. SaverOK(s)
    BY <1>1, <1>2, <1>4 DEF SaverOK, Spaced
  <1> QED
    BY <1>3, <1>5

\* A saver for a number of times inside a ball.
LEMMA SnapshotsOK ==
  ASSUME NEW g \in Target, g.kind # "file", NEW n \in Nat \ {0}, g.radius % n = 0,
         (g.radius \div n) * (MaxSaves - 2) >= EndTime,
         g.kind = "average" /\ n = 1 => g.time > 0
  PROVE  SaverOK(Snapshots(g, n))
  <1> DEFINE from == IF g.time > g.radius THEN g.time - g.radius ELSE 0
  <1>1. g.radius \in Nat /\ g.time \in Nat /\ from \in Nat
    BY DEF Target
  <1>2. PICK q : q = g.radius \div n
    OBVIOUS
  <1>3. /\ q \in Nat /\ q > 0 /\ q * (MaxSaves - 2) >= EndTime
        /\ \E m \in Nat \ {0} : q * m = g.radius
    BY <1>1, <1>2, IntervalOfBall
  <1>4. PICK s : s = Snapshots(g, n)
    OBVIOUS
  <1>5. /\ s \in Saver /\ s.kind = "fixed" /\ s.target = g /\ s.interval = q
        /\ s.start = from /\ ~s.initial /\ s.coarseSaves = 0 /\ s.spacing = 0
    BY <1>1, <1>3, <1>2, <1>4 DEF Snapshots, EachStep, Saver
  <1>6. Spaced(s)
    BY <1>3, <1>5 DEF Spaced
  <1>7. Averaged(s)
    BY <1>3, <1>5 DEF Averaged
  <1>8. q = g.radius => n = 1
    <2>1. PICK r \in Nat : r = g.radius /\ q * n = r
      BY <1>1, <1>2, Divided
    <2>2. q \in Nat /\ q > 0 /\ n \in Nat
      BY <1>3
    <2>3. q = r => n = 1
      BY <2>1, <2>2, MultipleOfItself
    <2> QED
      BY <2>1, <2>3
  <1> QED
    BY <1>4, <1>5, <1>6, <1>7, <1>8 DEF SaverOK

\* A saver for several times around each of a number of times.
LEMMA CoarseOK ==
  ASSUME NEW n \in 1 .. MaxSaves - 2, EndTime % n = 0, NEW k \in Nat, NEW skips \in Nat,
         2 * k * (skips + 1) * CellLength < EndTime \div n
  PROVE  SaverOK(Coarse(File, n, k, skips))
  <1>1. PICK q \in Nat : q = EndTime \div n /\ q > 0 /\ q * (MaxSaves - 2) >= EndTime
    BY IntervalOfSaves
  <1>2. PICK p \in Nat : p = (skips + 1) * CellLength /\ p > 0
    <2>1. CellLength \in Nat /\ CellLength > 0 /\ skips + 1 \in Nat /\ skips + 1 > 0
      BY TimesAssumption
    <2> QED
      BY <2>1, ProductPositive
  <1>3. q - 2 * k * p > 0
    <2>1. CellLength \in Nat
      BY TimesAssumption
    <2>2. 2 * k * ((skips + 1) * CellLength) = 2 * k * (skips + 1) * CellLength
      BY <2>1, Z3
    <2>3. 2 * k * p < q /\ 2 * k * p \in Nat
      BY <1>1, <1>2, <2>2
    <2> QED
      BY <2>3
  <1>4. File \in Target /\ File.kind = "file"
    BY DEF File, Target
  <1>5. PICK s : s = Coarse(File, n, k, skips)
    OBVIOUS
  <1>6. /\ s \in Saver /\ s.kind = "coarse" /\ s.target = File /\ s.interval = q
        /\ s.start = 0 /\ ~s.initial /\ s.coarseSaves = k /\ s.spacing = p
    BY <1>1, <1>2, <1>4, <1>5 DEF Coarse, EachStep, Saver
  <1>7. s.interval - 2 * s.coarseSaves * s.spacing > 0
    BY <1>3, <1>6
  <1>8. SaverOK(s)
    BY <1>1, <1>2, <1>4, <1>6, <1>7 DEF SaverOK, Spaced
  <1> QED
    BY <1>5, <1>8

\* So every saver of a configuration is of one of these.
LEMMA BuiltSaver ==
  ASSUME NEW node, NodeAssumption(node)
  PROVE  /\ node.part = "writer" => SaverOK(createWriter(node))
         /\ node.part # "writer" => SaverOK(createFunctional(node))
  <1>1. File \in Target /\ File.kind = "file"
    BY DEF File, Target
  <1>2. ASSUME Has(node, "time"), NEW kind \in {"average", "functional"}
        PROVE  /\ Ball(node, kind) \in Target /\ Ball(node, kind).kind = kind
               /\ Ball(node, kind).radius = node.timeRadius
               /\ Ball(node, kind).time = node.time
    BY <1>2 DEF NodeAssumption, Ball, Target
  <1>3. ASSUME Has(node, "time"), Has(node, "numberOfSnapshots"),
               NEW kind \in {"average", "functional"}, kind = "average" => node.part = "writer"
        PROVE  SaverOK(Snapshots(Ball(node, kind), node.numberOfSnapshots))
    BY <1>2, <1>3, SnapshotsOK DEF NodeAssumption
  <1>4. ASSUME Has(node, "numberOfSaves"), NEW initial \in BOOLEAN
        PROVE  SaverOK(Fixed(File, node.numberOfSaves, initial))
    BY <1>4, FixedOK DEF NodeAssumption
  <1>5. ASSUME Has(node, "numberOfSaves"), Has(node, "numberOfCoarseSaves")
        PROVE  SaverOK(Coarse(File, node.numberOfSaves, node.numberOfCoarseSaves,
                              node.numberOfSkips))
    BY <1>5, CoarseOK DEF NodeAssumption
  <1>6. ASSUME node.part = "writer"
        PROVE  SaverOK(createWriter(node))
    <2>1. PICK initial \in BOOLEAN :
            initial = (Has(node, "writeInitialTimestep") /\ node.writeInitialTimestep)
      OBVIOUS
    <2>2. SaverOK(EachStep(File))
      BY <1>1, EachStepOK
    <2>3. Has(node, "numberOfSnapshots") => Has(node, "time")
      BY DEF NodeAssumption
    <2> QED
      BY <1>3, <1>4, <1>5, <1>6, <2>1, <2>2, <2>3 DEF createWriter
  <1>7. ASSUME node.part # "writer"
        PROVE  SaverOK(createFunctional(node))
    <2>1. node.part = "functional"
      BY <1>7 DEF NodeAssumption
    <2>2. Has(node, "time") => SaverOK(EachStep(Ball(node, "functional")))
      BY <1>2, EachStepOK
    <2>3. ~Has(node, "time") => Has(node, "numberOfSaves")
      BY <2>1 DEF NodeAssumption
    <2> QED
      BY <1>3, <1>4, <2>2, <2>3 DEF createFunctional
  <1> QED
    BY <1>6, <1>7

-----------------------------------------------------------------------------
(* The savers of the simulator.                                             *)

\* Save times that are rounded lie apart, and inside a ball.
Apart(s) ==
  /\ s.kind # "none" => s.interval - 2 * s.coarseSaves * s.spacing > 3 * Unit
  /\ s.kind = "coarse" => s.spacing > Unit
  /\ s.target.kind = "average" /\ s.interval = s.target.radius => s.target.time > 3 * Unit

\* Every saver of the simulator is one that was built.
LEMMA SaversBuilt ==
  ASSUME Setting, NEW w \in Writers
  PROVE  SaverOK(savers[w]) /\ Apart(savers[w])
  <1>1. PICK setup \in Setups \cup RoundedSetups : savers = SaversOf(setup)
    BY DEF Setting
  <1>2. /\ Len(setup) \in Nat
        /\ \A v \in 1 .. Len(setup) : NodeAssumption(setup[v])
    BY SetupsAssumption
  <1>3. \A v \in 1 .. Len(setup) : SaverOK(SaversOf(setup)[v])
    BY <1>2, BuiltSaver DEF SaversOf
  <1>4. savers \in Seq(Saver) /\ DOMAIN savers = 1 .. Len(setup)
    BY <1>1, <1>2, <1>3 DEF SaversOf, SaverOK
  <1>5. w \in 1 .. Len(setup)
    BY <1>4 DEF Writers
  <1>6. SaverOK(savers[w])
    BY <1>1, <1>3, <1>5
  <1>7. CASE savers \in Rounded
    <2>1. LET s == savers[w]
          IN  /\ s.kind # "none" => s.interval - 2 * s.coarseSaves * s.spacing >= 4
              /\ s.kind = "coarse" => s.spacing >= 2
              /\ s.target.kind = "average" /\ s.interval = s.target.radius => s.target.time >= 4
      BY <1>4, <1>5, <1>7, RoundingAssumption
    <2>2. /\ savers[w].interval \in Nat /\ savers[w].coarseSaves \in Nat
          /\ savers[w].spacing \in Nat /\ savers[w].target.time \in Nat
      BY <1>6 DEF SaverOK, Saver, Target
    <2>3. 2 * savers[w].coarseSaves * savers[w].spacing \in Nat
      BY <2>2, Z3
    <2> QED
      BY <1>6, <1>7, <2>1, <2>2, <2>3 DEF Apart, Unit
  <1>8. CASE savers \notin Rounded
    <2>1. savers[w].kind # "none" => Spaced(savers[w])
      BY <1>6 DEF SaverOK
    <2>2. Unit = 0 /\ 3 * 0 = 0
      BY <1>8 DEF Unit
    <2>3. LET s == savers[w]
          IN  s.target.kind = "average" /\ s.interval = s.target.radius => s.target.time > 0
      BY <1>6 DEF SaverOK
    <2> QED
      BY <1>6, <2>1, <2>2, <2>3 DEF Apart, Spaced
  <1> QED
    BY <1>6, <1>7, <1>8

\* The error of a product.
ErrorAt(w, k) == IF <<w, k>> \in Products THEN error[<<w, k>>] ELSE 0

\* It is a unit at most.
LEMMA ErrorSmall ==
  ASSUME Setting, NEW w, NEW k
  PROVE  /\ Unit \in {0, 1} /\ Slack = 2 * Unit
         /\ ErrorAt(w, k) \in Int /\ -Unit <= ErrorAt(w, k) /\ ErrorAt(w, k) <= Unit
         /\ ErrorAt(w, 0) = 0
  <1>1. <<w, k>> \in Products => error[<<w, k>>] \in Rounding
    BY DEF Setting
  <1>2. <<w, 0>> \notin Products
    BY DEF Products
  <1> QED
    BY <1>1, <1>2 DEF ErrorAt, Rounding, Unit, Slack

\* A call of the writers at time t, before the first step or after one.
Calls(t) ==
  /\ IInv
  /\ t \in Nat /\ time' = t
  /\ phase' = "running"
  /\ UNCHANGED <<savers, error>>
  /\ CallWriters(t)
  /\ phase = "built" => t = 0
  /\ phase # "built" =>
       /\ phase = "running" /\ time < t /\ time < EndTime
       /\ \A w \in Writers : savers[w].kind # "none" => t <= NextSave(w) + Unit

\* The save time that a call leaves behind.
LEMMA NextSaveThen ==
  ASSUME NEW t, Calls(t), NEW w \in Writers, NEW k \in Int, NEW m \in Int,
         state'[w].saved = k, state'[w].small = m
  PROVE  NextSave(w)' = Planned(savers[w], k, m) + ErrorAt(w, k)
  <1>1. savers' = savers /\ error' = error /\ Products' = Products
    BY DEF Calls, Products, Writers
  <1>2. SaverOK(savers[w])
    BY SaversBuilt DEF Calls, IInv
  <1>3. NextSave(w)' = savers[w].interval * k
          + (IF <<w, k>> \in Products THEN error[<<w, k>>] ELSE 0)
          + (IF savers[w].kind = "coarse" THEN savers[w].spacing * m ELSE savers[w].start)
    BY <1>1 DEF NextSave
  <1>4. PICK p \in Int, q \in Int :
          p = savers[w].interval * k
          /\ q = IF savers[w].kind = "coarse" THEN savers[w].spacing * m ELSE savers[w].start
    BY <1>2 DEF SaverOK, Saver
  <1>5. ErrorAt(w, k) \in Int
    BY ErrorSmall DEF Calls, IInv
  <1>6. NextSave(w)' = p + ErrorAt(w, k) + q
    BY <1>3, <1>4 DEF ErrorAt
  <1>7. Planned(savers[w], k, m) = p + q
    BY <1>4 DEF Planned
  <1> QED
    BY <1>4, <1>5, <1>6, <1>7

\* The save time that a call finds.
LEMMA NextSaveNow ==
  ASSUME Setting, NEW w \in Writers, state[w].saved \in Int, state[w].small \in Int
  PROVE  NextSave(w) = Planned(savers[w], state[w].saved, state[w].small)
                         + ErrorAt(w, state[w].saved)
  <1>1. PICK k \in Int, m \in Int : k = state[w].saved /\ m = state[w].small
    OBVIOUS
  <1>2. SaverOK(savers[w])
    BY SaversBuilt
  <1>3. PICK p \in Int, q \in Int :
          p = savers[w].interval * k
          /\ q = IF savers[w].kind = "coarse" THEN savers[w].spacing * m ELSE savers[w].start
    BY <1>2 DEF SaverOK, Saver
  <1>4. ErrorAt(w, k) \in Int
    BY ErrorSmall
  <1>5. NextSave(w) = p + ErrorAt(w, k) + q
    BY <1>1, <1>3 DEF ErrorAt, NextSave
  <1>6. Planned(savers[w], k, m) = p + q
    BY <1>3 DEF Planned
  <1> QED
    BY <1>1, <1>3, <1>4, <1>5, <1>6

-----------------------------------------------------------------------------
(* Save times in their order.                                               *)

\* A longer product, in whole numbers.
LEMMA OneMore ==
  ASSUME NEW a \in Int, NEW k \in Int
  PROVE  /\ a * k \in Int /\ a * (k + 1) = a * k + a /\ a * 0 = 0 /\ a * 1 = a
         /\ a * (k - 1) = a * k - a /\ a * (-k) = -(a * k)
  BY Z3

\* What is positive and less often taken is less.
LEMMA FewerTimes ==
  ASSUME NEW a \in Int, a > 0, NEW j \in Int, NEW k \in Int
  PROVE  /\ a * j <= a * k => j <= k
         /\ a * j < a * k => j < k
         /\ j <= k => a * j <= a * k
  BY Z3

\* Whatever the saver, the last save around one time comes before the first
\* around the next, and the first save of all is not at time zero.
LEMMA SavesApart ==
  ASSUME Setting, NEW w \in Writers, savers[w].kind # "none", NEW k \in Nat
  PROVE  LET s == savers[w]
             c == savers[w].coarseSaves
         IN  /\ c \in Nat
             /\ \A m \in Int : Planned(s, k, m) \in Int
             /\ Planned(s, k + 1, -c) > Planned(s, k, c) + 3 * Unit
             /\ Planned(s, 1, -c) > Unit
             /\ s.kind = "fixed" => \A m \in Int : Planned(s, k, m) = Planned(s, k, 0)
             /\ s.kind = "coarse" =>
                  /\ Planned(s, 0, 0) = 0
                  /\ \A m \in Int : Planned(s, k, m + 1) > Planned(s, k, m) + Unit
  <1>1. /\ SaverOK(savers[w]) /\ Apart(savers[w]) /\ Spaced(savers[w])
        /\ Unit \in {0, 1}
    BY SaversBuilt, ErrorSmall DEF SaverOK
  <1>2. PICK i \in Nat, c \in Nat, p \in Nat, f \in Nat :
          /\ i = savers[w].interval /\ c = savers[w].coarseSaves
          /\ p = savers[w].spacing /\ f = savers[w].start
    BY <1>1 DEF SaverOK, Saver
  <1>3. PICK x \in Int, y \in Int : x = p * c /\ y = i * k
    BY <1>2, OneMore
  <1>4. x \in Nat /\ 2 * c * p = 2 * x
    BY <1>2, <1>3, Z3
  <1>5. i - 2 * x > 3 * Unit
    BY <1>1, <1>2, <1>4 DEF Apart
  <1>6. i * (k + 1) = y + i /\ i * 1 = i /\ i * 0 = 0 /\ p * (-c) = -x /\ p * 0 = 0
    BY <1>2, <1>3, Z3
  <1>7. savers[w].kind \in {"fixed", "coarse"}
    BY <1>1 DEF SaverOK, Saver
  <1>8. CASE savers[w].kind = "fixed"
    <2>1. \A m \in Int, n \in Nat : Planned(savers[w], n, m) = i * n + f
      BY <1>2, <1>8 DEF Planned
    <2>2. c = 0 /\ x = 0 /\ -c \in Int /\ c \in Int /\ k + 1 \in Nat
      <3>1. c = 0 /\ p = 0
        BY <1>1, <1>2, <1>8 DEF Spaced
      <3> QED
        BY <1>3, <3>1
    <2>3. /\ Planned(savers[w], k + 1, -c) = y + i + f /\ Planned(savers[w], k, c) = y + f
          /\ Planned(savers[w], 1, -c) = i + f
          /\ \A m \in Int : Planned(savers[w], k, m) = y + f
      BY <1>3, <1>6, <2>1, <2>2
    <2>4. i > 3 * Unit
      BY <1>5, <2>2
    <2> QED
      BY <1>1, <1>2, <1>3, <1>8, <2>3, <2>4
  <1>9. CASE savers[w].kind = "coarse"
    <2>1. \A m \in Int, n \in Nat : Planned(savers[w], n, m) = i * n + p * m
      BY <1>2, <1>9 DEF Planned
    <2>2. p > Unit
      BY <1>1, <1>2, <1>9 DEF Apart
    <2>3. -c \in Int /\ c \in Int /\ k + 1 \in Nat /\ 0 \in Int /\ 0 \in Nat /\ 1 \in Nat
      BY <1>2
    <2>4. /\ Planned(savers[w], k + 1, -c) = (y + i) + (-x) /\ Planned(savers[w], k, c) = y + x
          /\ Planned(savers[w], 1, -c) = i + (-x) /\ Planned(savers[w], 0, 0) = 0 + 0
      <3>1. /\ Planned(savers[w], k + 1, -c) = i * (k + 1) + p * (-c)
            /\ Planned(savers[w], k, c) = i * k + p * c
            /\ Planned(savers[w], 1, -c) = i * 1 + p * (-c)
            /\ Planned(savers[w], 0, 0) = i * 0 + p * 0
        BY <2>1, <2>3, Zenon
      <3> QED
        BY <1>3, <1>6, <3>1, Zenon
    <2>5. ASSUME NEW m \in Int
          PROVE  /\ Planned(savers[w], k, m) \in Int
                 /\ Planned(savers[w], k, m + 1) > Planned(savers[w], k, m) + Unit
      <3>1. PICK z \in Int : z = p * m
        BY <1>2, OneMore
      <3>2. p \in Int /\ m + 1 \in Int
        BY <1>2
      <3>3. p * (m + 1) = z + p /\ m + 1 \in Int
        BY <3>2, <3>1, OneMore, Zenon
      <3>4. /\ Planned(savers[w], k, m) = i * k + p * m
            /\ Planned(savers[w], k, m + 1) = i * k + p * (m + 1)
        BY <2>1, <3>3
      <3>5. Planned(savers[w], k, m) = y + z /\ Planned(savers[w], k, m + 1) = y + (z + p)
        BY <1>3, <3>1, <3>3, <3>4, Zenon
      <3> QED
        BY <1>1, <1>2, <1>3, <2>2, <3>1, <3>5
    <2>6. y + i - x > y + x + 3 * Unit /\ i - x > Unit
      BY <1>1, <1>2, <1>3, <1>4, <1>5
    <2> QED
      BY <1>2, <1>9, <2>4, <2>5, <2>6
  <1> QED
    BY <1>7, <1>8, <1>9

\* Before the end no saver is near the highest number of saves.
LEMMA SavesLeft ==
  ASSUME Setting, NEW w \in Writers, savers[w].kind # "none", time < EndTime, NEW k \in Nat,
         k >= 2 => Planned(savers[w], k - 1, savers[w].coarseSaves) - Unit <= time
  PROVE  k + 1 <= MaxSaves /\ MaxSaves >= 3
  <1>1. /\ SaverOK(savers[w]) /\ Apart(savers[w]) /\ Spaced(savers[w])
        /\ Unit \in {0, 1}
    BY SaversBuilt, ErrorSmall DEF SaverOK
  <1>2. PICK i \in Nat, c \in Nat, p \in Nat, f \in Nat :
          /\ i = savers[w].interval /\ c = savers[w].coarseSaves
          /\ p = savers[w].spacing /\ f = savers[w].start
    BY <1>1 DEF SaverOK, Saver
  <1>3. MaxSaves \in Nat /\ EndTime \in Nat /\ EndTime > 0 /\ time \in Nat
    <2>1. time \in Nat
      BY DEF Setting
    <2> QED
      BY <2>1, TimesAssumption
  <1>4. PICK e \in Int : e = i * (MaxSaves - 2) /\ e >= EndTime
    BY <1>1, <1>2, <1>3, OneMore DEF Spaced
  <1>5. i > Unit /\ i > 0
    <2>1. 2 * c * p \in Nat
      BY <1>2, Z3
    <2> QED
      BY <1>1, <1>2, <2>1 DEF Apart
  <1>6. MaxSaves >= 3
    <2>1. i * 0 < i * (MaxSaves - 2)
      BY <1>2, <1>3, <1>4, OneMore
    <2> QED
      BY <1>2, <1>3, <1>5, <2>1, FewerTimes
  <1>7. CASE k >= 2
    <2>1. PICK y \in Int : y = i * (k - 1)
      BY <1>2, OneMore
    <2>2. PICK x \in Nat : Planned(savers[w], k - 1, c) = y + x
      <3>1. p * c \in Nat
        BY <1>2, Z3
      <3> QED
        BY <1>2, <2>1, <3>1 DEF Planned
    <2>3. y < e + Unit
      BY <1>1, <1>2, <1>3, <1>4, <1>7, <2>1, <2>2
    <2>4. y < i * (MaxSaves - 1)
      <3>1. i * ((MaxSaves - 2) + 1) = e + i
        BY <1>2, <1>3, <1>4, OneMore
      <3>2. (MaxSaves - 2) + 1 = MaxSaves - 1
        BY <1>3
      <3> QED
        BY <1>1, <1>2, <1>4, <1>5, <2>1, <2>3, <3>1, <3>2
    <2>5. k - 1 < MaxSaves - 1
      BY <1>2, <1>3, <1>5, <2>1, <2>4, FewerTimes
    <2> QED
      BY <1>3, <1>6, <2>5
  <1>8. CASE k < 2
    BY <1>3, <1>6, <1>8
  <1> QED
    BY <1>7, <1>8

-----------------------------------------------------------------------------
(* A call of the writers keeps the invariant.                               *)

\* What a call finds and what it leaves.
LEMMA CallOf ==
  ASSUME NEW t, Calls(t), NEW w \in Writers
  PROVE  /\ Setting /\ CountersOK(w) /\ FilesOK(w) /\ TargetOK(w) /\ EndOK(w)
         /\ t \in Nat /\ time' = t /\ time <= t /\ phase' = "running" /\ time \in Nat
         /\ savers' = savers /\ error' = error /\ Writers' = Writers
         /\ Unit' = Unit /\ Slack' = Slack
         /\ state'[w] = Counted(w, t)
         /\ target'[w] = IF Due(w, t) THEN Added(savers[w].target, target[w], t) ELSE target[w]
         /\ files'[w] = IF Due(w, t) THEN files[w] \o Written(savers[w].target, target[w], t)
                        ELSE files[w]
         /\ phase = "built" => t = 0
         /\ phase # "built" =>
              /\ time < t /\ time < EndTime
              /\ savers[w].kind # "none" => t <= NextSave(w) + Unit
  <1>1. Setting /\ CountersOK(w) /\ FilesOK(w) /\ TargetOK(w) /\ EndOK(w)
    BY DEF Calls, IInv
  <1>2. /\ t \in Nat /\ time' = t /\ phase' = "running" /\ savers' = savers /\ error' = error
        /\ phase = "built" => t = 0
        /\ phase # "built" =>
              /\ time < t /\ time < EndTime
              /\ savers[w].kind # "none" => t <= NextSave(w) + Unit
    BY DEF Calls
  <1>3. time \in Nat /\ time <= t
    <2>1. time \in Nat /\ (phase = "built" => time = 0)
      BY <1>1 DEF Setting
    <2>2. CASE phase = "built"
      BY <1>2, <2>1, <2>2
    <2>3. CASE phase # "built"
      <3>1. t \in Nat /\ time < t
        BY <1>2, <2>3
      <3> QED
        BY <2>1, <3>1
    <2> QED
      BY <2>2, <2>3
  <1>4. Writers' = Writers /\ Unit' = Unit /\ Slack' = Slack
    BY <1>2 DEF Writers, Unit, Slack
  <1>5. CallWriters(t)
    BY DEF Calls
  <1> QED
    BY <1>1, <1>2, <1>3, <1>4, <1>5 DEF CallWriters

\* The counters of a saver before the first call.
LEMMA FreshCounters ==
  ASSUME Setting, NEW w \in Writers, savers[w].kind # "none", state[w] = Fresh(savers[w])
  PROVE  /\ state[w].saved = IF savers[w].kind = "fixed" /\ ~savers[w].initial THEN 1 ELSE 0
         /\ state[w].small = 0 /\ state[w].first = TRUE
         /\ savers[w].kind = "fixed" /\ ~savers[w].initial => NextSave(w) > 0
         /\ ~(savers[w].kind = "fixed" /\ ~savers[w].initial) => NextSave(w) = 0
  <1>1. /\ state[w].saved = IF savers[w].kind = "fixed" /\ ~savers[w].initial THEN 1 ELSE 0
        /\ state[w].small = 0 /\ state[w].first = TRUE
    BY DEF Fresh
  <1>2. NextSave(w) = Planned(savers[w], state[w].saved, 0) + ErrorAt(w, state[w].saved)
    BY <1>1, NextSaveNow
  <1>3. /\ SaverOK(savers[w]) /\ Spaced(savers[w]) /\ savers[w].kind \in {"fixed", "coarse"}
    BY SaversBuilt DEF SaverOK, Saver
  <1>4. CASE savers[w].kind = "fixed" /\ ~savers[w].initial
    <2>1. /\ savers[w].coarseSaves \in Nat /\ -savers[w].coarseSaves \in Int
          /\ 0 \in Nat /\ 0 \in Int /\ 1 \in Nat
      BY <1>3 DEF SaverOK, Saver
    <2>2. Planned(savers[w], 1, -savers[w].coarseSaves) > Unit
      BY <2>1, SavesApart
    <2>3. Planned(savers[w], 1, -savers[w].coarseSaves) = Planned(savers[w], 1, 0)
      BY <1>4, <2>1, SavesApart
    <2>4. Planned(savers[w], 1, 0) \in Int
      BY <2>1, SavesApart
    <2>5. NextSave(w) = Planned(savers[w], 1, 0) + ErrorAt(w, 1)
      BY <1>1, <1>2, <1>4
    <2> QED
      BY <1>1, <1>4, <2>2, <2>3, <2>4, <2>5, ErrorSmall
  <1>5. CASE ~(savers[w].kind = "fixed" /\ ~savers[w].initial)
    <2>1. ErrorAt(w, 0) = 0
      BY ErrorSmall
    <2>2. Planned(savers[w], 0, 0) = 0
      <3>1. CASE savers[w].kind = "coarse"
        BY <3>1, SavesApart
      <3>2. CASE savers[w].kind = "fixed"
        <4>1. savers[w].start = 0 /\ savers[w].interval \in Int
          BY <1>3, <1>5, <3>2 DEF Spaced, SaverOK, Saver
        <4> QED
          BY <3>2, <4>1 DEF Planned
      <3> QED
        BY <1>3, <3>1, <3>2
    <2> QED
      BY <1>1, <1>2, <1>5, <2>1, <2>2
  <1> QED
    BY <1>4, <1>5

\* The numbers of a saver.
LEMMA CountersTyped ==
  ASSUME Setting, NEW w \in Writers, savers[w].kind # "none", CountersOK(w)
  PROVE  /\ state[w].saved \in Nat /\ state[w].small \in Int /\ savers[w].coarseSaves \in Nat
         /\ NextSave(w) \in Int /\ Unit \in {0, 1}
         /\ Planned(savers[w], state[w].saved, state[w].small) \in Int
         /\ ErrorAt(w, state[w].saved) \in Int
         /\ state[w].saved >= 2 =>
              Planned(savers[w], state[w].saved - 1, savers[w].coarseSaves) \in Int
  <1>1. state[w].saved \in Nat /\ state[w].small \in Int
    <2>1. state[w] \in [saved : 0 .. MaxSaves, small : Int, first : BOOLEAN]
      BY DEF CountersOK
    <2> QED
      BY <2>1, TimesAssumption
  <1>2. PICK k \in Nat, m \in Int : k = state[w].saved /\ m = state[w].small
    BY <1>1
  <1>3. PICK c : c = savers[w].coarseSaves
    OBVIOUS
  <1>4. c \in Nat /\ c \in Int
    BY <1>2, <1>3, SavesApart
  <1>5. Planned(savers[w], k, m) \in Int
    BY <1>2, SavesApart
  <1>6. ErrorAt(w, k) \in Int /\ Unit \in {0, 1}
    BY ErrorSmall
  <1>7. NextSave(w) = Planned(savers[w], k, m) + ErrorAt(w, k)
    BY <1>1, <1>2, NextSaveNow
  <1>8. ASSUME k >= 2
        PROVE  Planned(savers[w], k - 1, c) \in Int
    <2>1. k - 1 \in Nat
      BY <1>8
    <2> QED
      BY <1>4, <2>1, SavesApart
  <1> QED
    BY <1>1, <1>2, <1>3, <1>4, <1>5, <1>6, <1>7, <1>8

\* When a saver's counters stay as they are, so does what holds of them.
LEMMA CountersStay ==
  ASSUME NEW t, Calls(t), NEW w \in Writers, phase # "built", state'[w] = state[w],
         savers[w].kind # "none", ~Due(w, t)
  PROVE  CountersOK(w)'
  <1>1. NextSave(w)' = NextSave(w)
    BY CallOf DEF NextSave, Products
  <1>2. Setting /\ CountersOK(w) /\ t \in Nat /\ time \in Nat /\ time <= t
    BY CallOf
  <1>3. PICK n \in Int, k \in Nat, u \in Int : n = NextSave(w) /\ k = state[w].saved /\ u = Unit
    BY <1>2, CountersTyped
  <1>4. k >= 2 => Planned(savers[w], k - 1, savers[w].coarseSaves) \in Int
    BY <1>2, <1>3, CountersTyped
  <1>5. NextSave(w) > t
    <2>1. ~ (t >= n)
      BY <1>3 DEF Due
    <2> QED
      BY <1>2, <1>3, <2>1
  <1>6. savers' = savers /\ phase' = "running" /\ time' = t /\ Unit' = Unit
    BY CallOf
  <1>7. /\ state[w] \in [saved : 0 .. MaxSaves, small : Int, first : BOOLEAN]
        /\ state[w].saved >= 1
        /\ savers[w].kind = "coarse" =>
             ~state[w].first /\ state[w].small \in -savers[w].coarseSaves .. savers[w].coarseSaves
    BY CallOf DEF CountersOK
  <1>8. state[w].saved >= 2 =>
          Planned(savers[w], state[w].saved - 1, savers[w].coarseSaves) - Unit <= t
    <2>1. state[w].saved >= 2 =>
            Planned(savers[w], state[w].saved - 1, savers[w].coarseSaves) - Unit <= time
      BY <1>2 DEF CountersOK
    <2>2. CASE k >= 2
      BY <1>2, <1>3, <1>4, <2>1, <2>2
    <2> QED
      BY <1>3, <2>2
  <1> QED
    BY <1>1, <1>5, <1>6, <1>7, <1>8 DEF CountersOK, Planned

\* What is left to show of the counters after a save, or the first call.
LEMMA CountersAfter ==
  ASSUME NEW t, Calls(t), NEW w \in Writers, savers[w].kind # "none",
         NEW k \in Nat, NEW m \in Int, k >= 1, k <= MaxSaves,
         state'[w] \in [saved : Int, small : Int, first : BOOLEAN],
         state'[w].saved = k, state'[w].small = m,
         Planned(savers[w], k, m) + ErrorAt(w, k) > t,
         k >= 2 => Planned(savers[w], k - 1, savers[w].coarseSaves) - Unit <= t,
         savers[w].kind = "coarse" =>
           ~state'[w].first /\ m \in -savers[w].coarseSaves .. savers[w].coarseSaves
  PROVE  CountersOK(w)'
  <1>1. NextSave(w)' > t
    BY NextSaveThen
  <1>2. savers' = savers /\ phase' = "running" /\ time' = t /\ Unit' = Unit
    BY CallOf
  <1>3. state'[w] \in [saved : 0 .. MaxSaves, small : Int, first : BOOLEAN]
    BY TimesAssumption
  <1> QED
    BY <1>1, <1>2, <1>3 DEF CountersOK, Planned

\* The first save time that a call leaves behind is after time zero.
LEMMA FirstPlanned ==
  ASSUME Setting, NEW w \in Writers, savers[w].kind # "none"
  PROVE  /\ savers[w].coarseSaves \in Nat /\ 0 \in Nat /\ 1 \in Nat /\ 0 \in Int
         /\ -savers[w].coarseSaves \in Int
         /\ Planned(savers[w], 1, -savers[w].coarseSaves) \in Int
         /\ Planned(savers[w], 1, -savers[w].coarseSaves) + ErrorAt(w, 1) > 0
         /\ savers[w].kind = "fixed" =>
              Planned(savers[w], 1, -savers[w].coarseSaves) = Planned(savers[w], 1, 0)
  <1>1. PICK c : c = savers[w].coarseSaves
    OBVIOUS
  <1>2. 0 \in Nat /\ 1 \in Nat /\ 0 \in Int
    OBVIOUS
  <1>3. c \in Nat /\ Planned(savers[w], 1, -c) > Unit
    BY <1>1, <1>2, SavesApart
  <1>4. -c \in Int
    BY <1>3
  <1>5. Planned(savers[w], 1, -c) \in Int
    BY <1>2, <1>4, SavesApart
  <1>6. savers[w].kind = "fixed" => Planned(savers[w], 1, -c) = Planned(savers[w], 1, 0)
    BY <1>2, <1>4, SavesApart
  <1>7. Unit \in {0, 1} /\ ErrorAt(w, 1) \in Int /\ -Unit <= ErrorAt(w, 1)
    BY ErrorSmall
  <1>8. Planned(savers[w], 1, -c) + ErrorAt(w, 1) > 0
    BY <1>3, <1>5, <1>7
  <1> QED
    BY <1>1, <1>2, <1>3, <1>4, <1>5, <1>6, <1>8

\* The first call.
LEMMA CountersFirst ==
  ASSUME NEW t, Calls(t), NEW w \in Writers, phase = "built", savers[w].kind # "none"
  PROVE  /\ CountersOK(w)' /\ state'[w].saved = 1
         /\ savers[w].kind = "coarse" => state'[w].small = -savers[w].coarseSaves
         /\ Due(w, t) <=> ~(savers[w].kind = "fixed" /\ ~savers[w].initial)
  <1>1. Setting /\ state[w] = Fresh(savers[w]) /\ t = 0 /\ state'[w] = Counted(w, t)
    BY CallOf DEF CountersOK
  <1>2. PICK c \in Nat : c = savers[w].coarseSaves
    BY <1>1, FirstPlanned
  <1>3. SaverOK(savers[w]) /\ savers[w].kind \in {"fixed", "coarse"}
    BY <1>1, SaversBuilt DEF SaverOK, Saver
  <1>4. 1 <= MaxSaves
    <2>1. Planned(savers[w], 1, -c) \in Int /\ time < EndTime
      BY <1>1, <1>2, FirstPlanned, TimesAssumption DEF Setting
    <2>2. 0 + 1 <= MaxSaves /\ 0 \in Nat
      BY <1>1, <2>1, SavesLeft
    <2> QED
      BY <2>2
  <1>5. Due(w, t) <=> ~(savers[w].kind = "fixed" /\ ~savers[w].initial)
    <2>1. CASE savers[w].kind = "fixed" /\ ~savers[w].initial
      <3>1. NextSave(w) > 0 /\ NextSave(w) \in Int
        BY <1>1, <2>1, FreshCounters, CountersTyped, CallOf
      <3>2. ~ (0 >= NextSave(w))
        BY <3>1
      <3> QED
        BY <1>1, <2>1, <3>2 DEF Due
    <2>2. CASE ~(savers[w].kind = "fixed" /\ ~savers[w].initial)
      <3>1. NextSave(w) = 0
        BY <1>1, <2>2, FreshCounters
      <3> QED
        BY <1>1, <2>2, <3>1 DEF Due
    <2> QED
      BY <2>1, <2>2
  <1>6. CASE savers[w].kind = "fixed"
    <2>1. /\ state'[w] \in [saved : Int, small : Int, first : BOOLEAN]
          /\ state'[w].saved = 1 /\ state'[w].small = 0
      <3>1. state'[w] = [state[w] EXCEPT !.saved = IF Due(w, t) THEN @ + 1 ELSE @]
        BY <1>1, <1>6 DEF Counted, FixedCounted
      <3>2. /\ state[w] \in [saved : Int, small : Int, first : BOOLEAN]
            /\ state[w].saved = IF ~savers[w].initial THEN 1 ELSE 0
            /\ state[w].small = 0
        BY <1>1, <1>6 DEF Fresh
      <3> QED
        BY <1>5, <1>6, <3>1, <3>2
    <2>2. Planned(savers[w], 1, 0) + ErrorAt(w, 1) > t
      BY <1>1, <1>6, FirstPlanned
    <2>3. CountersOK(w)'
      <3>1. PICK k \in Nat, m \in Int : k = 1 /\ m = 0
        OBVIOUS
      <3>2. k >= 1 /\ k <= MaxSaves /\ ~(k >= 2)
        BY <1>4, <3>1
      <3> QED
        BY <1>6, <2>1, <2>2, <3>1, <3>2, CountersAfter
    <2> QED
      BY <1>5, <1>6, <2>1, <2>3
  <1>7. CASE savers[w].kind = "coarse"
    <2>1. state'[w] = [saved |-> 1, small |-> -c, first |-> FALSE]
      <3>1. state[w].saved = 0 /\ state[w].first = TRUE
        BY <1>1, <1>7 DEF Fresh
      <3>2. -c # c + 1
        BY <1>2
      <3> QED
        BY <1>1, <1>2, <1>7, <3>1, <3>2 DEF Counted, CoarseCounted
    <2>2. Planned(savers[w], 1, -c) + ErrorAt(w, 1) > t
      BY <1>1, <1>2, FirstPlanned
    <2>3. PICK k \in Nat, m \in Int : k = 1 /\ m = -c /\ m \in -c .. c
      BY <1>2
    <2>4. CountersOK(w)'
      <3>1. k >= 1 /\ k <= MaxSaves /\ ~(k >= 2)
        BY <1>4, <2>3
      <3>2. /\ state'[w] \in [saved : Int, small : Int, first : BOOLEAN]
            /\ state'[w].saved = k /\ state'[w].small = m /\ ~state'[w].first
        BY <2>1, <2>3
      <3>3. Planned(savers[w], k, m) + ErrorAt(w, k) > t
        BY <2>2, <2>3
      <3> QED
        BY <1>2, <1>7, <2>3, <3>1, <3>2, <3>3, CountersAfter
    <2> QED
      BY <1>2, <1>5, <1>7, <2>1, <2>4
  <1> QED
    BY <1>3, <1>6, <1>7

\* What a saver counts when it saves during the run.
LEMMA CountedLater ==
  ASSUME NEW t, Calls(t), NEW w \in Writers, phase # "built", savers[w].kind # "none"
  PROVE  /\ ~Due(w, t) => state'[w] = state[w]
         /\ state'[w] \in [saved : Int, small : Int, first : BOOLEAN]
         /\ Due(w, t) /\ savers[w].kind = "fixed" =>
              state'[w].saved = state[w].saved + 1 /\ state'[w].small = state[w].small
         /\ savers[w].kind = "coarse" => ~state'[w].first
         /\ Due(w, t) /\ savers[w].kind = "coarse" =>
              IF state[w].small = savers[w].coarseSaves
              THEN state'[w].saved = state[w].saved + 1 /\ state'[w].small = -savers[w].coarseSaves
              ELSE state'[w].saved = state[w].saved /\ state'[w].small = state[w].small + 1
  <1>1. /\ Setting /\ CountersOK(w) /\ state'[w] = Counted(w, t)
        /\ savers[w].kind \in {"fixed", "coarse"}
    BY CallOf, SaversBuilt DEF SaverOK, Saver
  <1>2. PICK k \in Nat, m \in Int, c \in Nat :
          k = state[w].saved /\ m = state[w].small /\ c = savers[w].coarseSaves
    BY <1>1, CountersTyped
  <1>3. /\ state[w] \in [saved : 0 .. MaxSaves, small : Int, first : BOOLEAN]
        /\ k >= 1
        /\ savers[w].kind = "coarse" => ~state[w].first /\ m \in -c .. c
    BY <1>1, <1>2 DEF CountersOK
  <1>4. state[w] = [saved |-> k, small |-> m, first |-> state[w].first]
    BY <1>2, <1>3
  <1>5. CASE savers[w].kind = "fixed"
    <2>1. state'[w] = [state[w] EXCEPT !.saved = IF Due(w, t) THEN @ + 1 ELSE @]
      BY <1>1, <1>5 DEF Counted, FixedCounted
    <2>2. ~Due(w, t) => state'[w] = state[w]
      BY <1>3, <2>1
    <2>3. /\ state'[w].saved = IF Due(w, t) THEN k + 1 ELSE k
          /\ state'[w].small = m /\ state'[w].first = state[w].first
          /\ state'[w] \in [saved : Int, small : Int, first : BOOLEAN]
      BY <1>2, <1>3, <2>1
    <2> QED
      BY <1>2, <1>5, <2>2, <2>3
  <1>6. CASE savers[w].kind = "coarse"
    <2>1. k # 0 /\ m # c + 1 /\ ~state[w].first
      BY <1>2, <1>3, <1>6
    <2>2. CASE ~Due(w, t)
      <3>1. state'[w] = [saved |-> k, small |-> m, first |-> FALSE]
        BY <1>1, <1>2, <1>6, <2>1, <2>2 DEF Counted, CoarseCounted
      <3>2. state'[w] = state[w]
        BY <1>3, <1>4, <1>6, <3>1
      <3> QED
        BY <1>6, <2>2, <3>1, <3>2
    <2>3. CASE Due(w, t) /\ m = c
      <3>1. state'[w] = [saved |-> k + 1, small |-> -c, first |-> FALSE]
        BY <1>1, <1>2, <1>6, <2>1, <2>3 DEF Counted, CoarseCounted
      <3> QED
        BY <1>2, <1>6, <2>3, <3>1
    <2>4. CASE Due(w, t) /\ m # c
      <3>1. state'[w] = [saved |-> k, small |-> m + 1, first |-> FALSE]
        BY <1>1, <1>2, <1>6, <2>1, <2>4 DEF Counted, CoarseCounted
      <3> QED
        BY <1>2, <1>6, <2>4, <3>1
    <2> QED
      BY <2>2, <2>3, <2>4
  <1> QED
    BY <1>1, <1>5, <1>6

\* A save is at most the errors of rounding away from the time it was planned for.
LEMMA SaveInTime ==
  ASSUME NEW t, Calls(t), NEW w \in Writers, phase # "built", savers[w].kind # "none", Due(w, t)
  PROVE  LET p == Planned(savers[w], state[w].saved, state[w].small)
         IN  /\ p \in Int /\ t \in Int
             /\ p + ErrorAt(w, state[w].saved) <= t
             /\ t <= p + ErrorAt(w, state[w].saved) + Unit
             /\ p - Unit <= t /\ t <= p + 2 * Unit
  <1>1. Setting /\ CountersOK(w) /\ t \in Nat /\ t <= NextSave(w) + Unit
    BY CallOf
  <1>2. PICK p \in Int, e \in Int, n \in Int :
          /\ p = Planned(savers[w], state[w].saved, state[w].small)
          /\ e = ErrorAt(w, state[w].saved) /\ n = NextSave(w)
    BY <1>1, CountersTyped
  <1>3. n = p + e
    <2>1. state[w].saved \in Int /\ state[w].small \in Int
      BY <1>1, CountersTyped
    <2> QED
      BY <1>1, <1>2, <2>1, NextSaveNow
  <1>4. Unit \in {0, 1} /\ -Unit <= e /\ e <= Unit
    BY <1>1, <1>2, ErrorSmall
  <1>5. t >= n
    BY <1>2 DEF Due
  <1> QED
    BY <1>1, <1>2, <1>3, <1>4, <1>5

\* A later call.
LEMMA CountersLater ==
  ASSUME NEW t, Calls(t), NEW w \in Writers, phase # "built", savers[w].kind # "none"
  PROVE  CountersOK(w)'
  <1>1. /\ Setting /\ CountersOK(w) /\ savers[w].kind \in {"fixed", "coarse"} /\ time < EndTime
        /\ t \in Nat
    BY CallOf, SaversBuilt DEF SaverOK, Saver
  <1>2. PICK k \in Nat, m \in Int, c \in Nat :
          k = state[w].saved /\ m = state[w].small /\ c = savers[w].coarseSaves
    BY <1>1, CountersTyped
  <1>3. /\ k >= 1
        /\ k >= 2 => Planned(savers[w], k - 1, c) - Unit <= time
        /\ savers[w].kind = "coarse" => ~state[w].first /\ m \in -c .. c
    BY <1>1, <1>2 DEF CountersOK
  <1>4. CASE ~Due(w, t)
    <2>1. state'[w] = state[w]
      BY <1>4, CountedLater
    <2> QED
      BY <1>4, <2>1, CountersStay
  <1>5. CASE Due(w, t)
    <2>1. PICK p \in Int : p = Planned(savers[w], k, m)
      BY <1>1, <1>2, SavesApart
    <2>2. PICK e \in Int : e = ErrorAt(w, k) /\ -Unit <= e /\ e <= Unit
      BY <1>1, <1>2, ErrorSmall
    <2>3. p + e <= t /\ t <= p + e + Unit /\ p - Unit <= t
      BY <1>2, <1>5, <2>1, <2>2, SaveInTime
    <2>4. Unit \in {0, 1} /\ k + 1 <= MaxSaves /\ k + 1 \in Nat /\ MaxSaves \in Nat
      BY <1>1, <1>2, <1>3, ErrorSmall, SavesLeft, TimesAssumption
    <2>5. ASSUME state'[w].saved = k + 1, NEW n \in Int, state'[w].small = n,
                 Planned(savers[w], k, c) = p, Planned(savers[w], k + 1, n) \in Int,
                 Planned(savers[w], k + 1, n) > p + 3 * Unit,
                 savers[w].kind = "coarse" => n \in -c .. c
          PROVE  CountersOK(w)'
      <3>1. PICK f \in Int : f = ErrorAt(w, k + 1) /\ -Unit <= f /\ f <= Unit
        BY <1>1, ErrorSmall
      <3>2. PICK q \in Int : q = Planned(savers[w], k + 1, n) /\ q > p + 3 * Unit
        BY <2>5
      <3>3. q + f > t
        BY <1>1, <2>2, <2>3, <2>4, <3>1, <3>2
      <3>4. PICK h \in Nat : h = k + 1 /\ h >= 1 /\ h <= MaxSaves /\ h - 1 = k
        BY <1>3, <2>4
      <3>5. /\ state'[w] \in [saved : Int, small : Int, first : BOOLEAN]
            /\ savers[w].kind = "coarse" => ~state'[w].first
        BY CountedLater
      <3>6. Planned(savers[w], h - 1, c) - Unit <= t
        BY <2>3, <2>5, <3>4
      <3>7. Planned(savers[w], h, n) + ErrorAt(w, h) > t
        BY <3>1, <3>2, <3>3, <3>4
      <3>8. state'[w].saved = h
        BY <2>5, <3>4
      <3> QED
        BY <1>2, <2>5, <3>4, <3>5, <3>6, <3>7, <3>8, CountersAfter
    <2>6. CASE savers[w].kind = "fixed"
      <3>1. state'[w].saved = k + 1 /\ state'[w].small = m
        BY <1>2, <1>5, <2>6, CountedLater
      <3>2. -c \in Int /\ c \in Int
        BY <1>2
      <3>3. /\ Planned(savers[w], k, m) = Planned(savers[w], k, 0)
            /\ Planned(savers[w], k, c) = Planned(savers[w], k, 0)
        BY <1>1, <1>2, <2>6, <3>2, SavesApart
      <3>4. /\ Planned(savers[w], k + 1, m) = Planned(savers[w], k + 1, 0)
            /\ Planned(savers[w], k + 1, -c) = Planned(savers[w], k + 1, 0)
            /\ Planned(savers[w], k + 1, m) \in Int
        BY <1>1, <1>2, <2>4, <2>6, <3>2, SavesApart
      <3>5. Planned(savers[w], k + 1, -c) > Planned(savers[w], k, c) + 3 * Unit
        BY <1>1, <1>2, SavesApart
      <3>6. Planned(savers[w], k + 1, m) > p + 3 * Unit
        BY <2>1, <3>3, <3>4, <3>5
      <3> QED
        BY <2>1, <2>5, <2>6, <3>1, <3>3, <3>4, <3>6
    <2>7. CASE savers[w].kind = "coarse" /\ m = c
      <3>1. state'[w].saved = k + 1 /\ state'[w].small = -c
        BY <1>2, <1>5, <2>7, CountedLater
      <3>2. -c \in Int /\ -c \in -c .. c
        BY <1>2
      <3>3. Planned(savers[w], k + 1, -c) \in Int
        BY <1>1, <2>4, <3>2, SavesApart
      <3>4. Planned(savers[w], k + 1, -c) > Planned(savers[w], k, c) + 3 * Unit
        BY <1>1, <1>2, SavesApart
      <3> QED
        BY <2>1, <2>5, <2>7, <3>1, <3>2, <3>3, <3>4
    <2>8. CASE savers[w].kind = "coarse" /\ m # c
      <3>1. state'[w].saved = k /\ state'[w].small = m + 1
        BY <1>2, <1>5, <2>8, CountedLater
      <3>2. PICK n \in Int : n = m + 1 /\ n \in -c .. c
        BY <1>2, <1>3, <2>8
      <3>3. PICK q \in Int : q = Planned(savers[w], k, n) /\ q > p + Unit
        BY <1>1, <1>2, <2>1, <2>8, <3>2, SavesApart
      <3>4. q + e > t
        BY <1>1, <2>3, <2>4, <3>3
      <3>5. /\ state'[w] \in [saved : Int, small : Int, first : BOOLEAN]
            /\ ~state'[w].first
        BY <2>8, CountedLater
      <3>6. k >= 2 => Planned(savers[w], k - 1, c) - Unit <= t
        <4>1. ASSUME k >= 2
              PROVE  Planned(savers[w], k - 1, c) \in Int
          <5>1. k - 1 \in Nat /\ c \in Int
            BY <4>1
          <5> QED
            BY <1>1, <5>1, SavesApart
        <4>2. CASE k >= 2
          <5>1. PICK x \in Int : x = Planned(savers[w], k - 1, c) /\ x - Unit <= time
            BY <1>3, <4>1, <4>2
          <5>2. time \in Nat /\ time <= t
            BY CallOf
          <5> QED
            BY <1>1, <2>4, <5>1, <5>2
        <4> QED
          BY <4>2
      <3>7. Planned(savers[w], k, n) + ErrorAt(w, k) > t
        BY <2>2, <3>3, <3>4
      <3>8. state'[w].small = n /\ k <= MaxSaves
        BY <2>4, <3>1, <3>2
      <3> QED
        BY <1>2, <1>3, <2>8, <3>1, <3>2, <3>5, <3>6, <3>7, <3>8, CountersAfter
    <2> QED
      BY <1>1, <2>6, <2>7, <2>8
  <1> QED
    BY <1>4, <1>5

\* So a call keeps what holds of the counters.
LEMMA CountersCalled ==
  ASSUME NEW t, Calls(t), NEW w \in Writers
  PROVE  CountersOK(w)'
  <1>1. CASE savers[w].kind # "none"
    BY <1>1, CountersFirst, CountersLater
  <1>2. CASE savers[w].kind = "none"
    <2>1. state'[w] = state[w] /\ savers' = savers /\ phase' = "running" /\ CountersOK(w)
      BY <1>2, CallOf DEF Counted
    <2> QED
      BY <1>2, <2>1 DEF CountersOK
  <1> QED
    BY <1>1, <1>2

\* What the next file is scheduled for is what the counters plan.
LEMMA ScheduledNext ==
  ASSUME Setting, NEW w \in Writers, savers[w].kind # "none",
         NEW k \in Nat, NEW m \in Int,
         savers[w].kind = "fixed" /\ ~savers[w].initial => k >= 1,
         savers[w].kind = "coarse" =>
           k >= 1 /\ m \in -savers[w].coarseSaves .. savers[w].coarseSaves,
         NEW c, c.saved = k, c.small = m
  PROVE  /\ Saves(savers[w], c) \in Nat
         /\ Scheduled(w, Saves(savers[w], c) + 1) = Planned(savers[w], k, m)
  <1>1. /\ SaverOK(savers[w]) /\ Spaced(savers[w])
        /\ savers[w].kind \in {"fixed", "coarse"}
    BY SaversBuilt DEF SaverOK, Saver
  <1>2. PICK i \in Nat, h \in Nat, p \in Nat, f \in Nat :
          /\ i = savers[w].interval /\ h = savers[w].coarseSaves
          /\ p = savers[w].spacing /\ f = savers[w].start
    BY <1>1 DEF SaverOK, Saver
  <1>3. CASE savers[w].kind = "fixed"
    <2>1. PICK n \in Nat : /\ n = Saves(savers[w], c)
                           /\ n = IF savers[w].initial THEN k ELSE k - 1
      BY <1>3 DEF Saves
    <2>2. Scheduled(w, n + 1) = f + i * (IF savers[w].initial THEN (n + 1) - 1 ELSE n + 1)
      BY <1>2, <1>3 DEF Scheduled
    <2>3. (IF savers[w].initial THEN (n + 1) - 1 ELSE n + 1) = k
      BY <2>1
    <2>4. Planned(savers[w], k, m) = i * k + f
      BY <1>2, <1>3 DEF Planned
    <2>5. i * k \in Int
      BY <1>2, OneMore
    <2> QED
      BY <1>2, <2>1, <2>2, <2>3, <2>4, <2>5
  <1>4. CASE savers[w].kind = "coarse"
    <2>1. PICK b \in Nat, x \in Nat, q \in Nat :
            b = 2 * h + 1 /\ x = m + h /\ x \in 0 .. b - 1 /\ q = k - 1 /\ b > 0
      <3>1. k >= 1 /\ -h <= m /\ m <= h
        BY <1>2, <1>4
      <3>2. 2 * h + 1 \in Nat /\ m + h \in Nat /\ k - 1 \in Nat /\ m + h \in 0 .. (2 * h + 1) - 1
        BY <1>2, <3>1
      <3> QED
        BY <3>2
    <2>2. PICK y \in Nat : y = b * q
      <3>1. b * q \in Nat
        BY <2>1, Z3
      <3> QED
        BY <3>1
    <2>3. Saves(savers[w], c) = y + x + 1
      <3>1. Saves(savers[w], c) = (2 * h + 1) * (k - 1) + m + h + 1
        BY <1>2, <1>4 DEF Saves
      <3>2. (2 * h + 1) * (k - 1) = y
        BY <2>1, <2>2
      <3> QED
        BY <1>2, <2>1, <2>2, <3>1, <3>2
    <2>4. PICK j \in Nat : j = y + x + 2 /\ j > 1 /\ j # 1
      BY <2>1, <2>2
    <2>5. Scheduled(w, j) = i * ((j - 2) \div b + 1) + p * (((j - 2) % b) - h)
      BY <1>2, <1>4, <2>1, <2>4 DEF Scheduled
    <2>6. (j - 2) \div b = q /\ (j - 2) % b = x
      <3>1. x + q * b = y + x
        BY <2>1, <2>2, Z3
      <3>2. (x + q * b) \div b = q /\ (x + q * b) % b = x
        BY <2>1, DivModUnique
      <3>3. j - 2 = y + x
        BY <2>1, <2>2, <2>4
      <3> QED
        BY <3>1, <3>2, <3>3
    <2>7. q + 1 = k /\ x - h = m
      BY <1>2, <2>1
    <2>8. Scheduled(w, j) = i * k + p * m
      BY <2>5, <2>6, <2>7
    <2>9. Planned(savers[w], k, m) = i * k + p * m
      BY <1>2, <1>4 DEF Planned
    <2>10. Saves(savers[w], c) \in Nat /\ Saves(savers[w], c) + 1 = j
      BY <2>1, <2>2, <2>3, <2>4
    <2> QED
      BY <2>8, <2>9, <2>10
  <1> QED
    BY <1>1, <1>3, <1>4

\* A save that counts is one file more.
LEMMA OneFileMore ==
  ASSUME Setting, NEW w \in Writers, NEW c, NEW d, c.saved \in Nat, d.saved \in Nat,
         c.small \in Int, d.small \in Int,
         \/ savers[w].kind = "fixed" /\ d.saved = c.saved + 1
         \/ /\ savers[w].kind = "coarse"
            /\ IF c.small = savers[w].coarseSaves
               THEN d.saved = c.saved + 1 /\ d.small = -savers[w].coarseSaves
               ELSE d.saved = c.saved /\ d.small = c.small + 1
  PROVE  Saves(savers[w], d) = Saves(savers[w], c) + 1
  <1>1. PICK k \in Nat, l \in Nat, m \in Int, n \in Int :
          k = c.saved /\ l = d.saved /\ m = c.small /\ n = d.small
    OBVIOUS
  <1>2. PICK h \in Nat : h = savers[w].coarseSaves
    BY SaversBuilt DEF SaverOK, Saver
  <1>3. CASE savers[w].kind = "fixed"
    BY <1>1, <1>3 DEF Saves
  <1>4. CASE savers[w].kind = "coarse"
    <2>1. PICK b \in Int, y \in Int : b = 2 * h + 1 /\ y = b * (k - 1)
      BY <1>1, <1>2, OneMore
    <2>2. b * ((k - 1) + 1) = y + b
      BY <1>1, <2>1, OneMore
    <2>3. (k - 1) + 1 = (k + 1) - 1
      BY <1>1
    <2>4. Saves(savers[w], c) = y + m + h + 1
      BY <1>1, <1>2, <1>4, <2>1 DEF Saves
    <2>5. CASE m = h
      <3>1. l = k + 1 /\ n = -h
        BY <1>1, <1>2, <1>4, <2>5
      <3>2. Saves(savers[w], d) = b * ((k + 1) - 1) + (-h) + h + 1
        BY <1>1, <1>2, <1>4, <2>1, <3>1 DEF Saves
      <3>3. Saves(savers[w], d) = (y + b) + (-h) + h + 1
        BY <2>2, <2>3, <3>2
      <3> QED
        BY <1>1, <1>2, <2>1, <2>4, <2>5, <3>3
    <2>6. CASE m # h
      <3>1. l = k /\ n = m + 1
        BY <1>1, <1>2, <1>4, <2>6
      <3>2. Saves(savers[w], d) = y + (m + 1) + h + 1
        BY <1>1, <1>2, <1>4, <2>1, <3>1 DEF Saves
      <3> QED
        BY <1>1, <1>2, <2>1, <2>4, <3>2
    <2> QED
      BY <2>5, <2>6
  <1> QED
    BY <1>3, <1>4

\* What a call writes is a list of times.
LEMMA FilesTyped ==
  ASSUME NEW t, Calls(t), NEW w \in Writers
  PROVE  files'[w] \in Seq(Nat)
  <1>1. /\ Setting /\ files[w] \in Seq(Nat) /\ t \in Nat
        /\ files'[w] = IF Due(w, t) THEN files[w] \o Written(savers[w].target, target[w], t)
                       ELSE files[w]
    BY CallOf DEF FilesOK
  <1>2. savers[w].target \in Target
    BY <1>1, SaversBuilt DEF SaverOK, Saver
  <1>3. PICK g : g = savers[w].target /\ g \in Target
    BY <1>2
  <1>4. g.kind \in {"file", "average", "functional"} /\ g.time \in Nat
    BY <1>3 DEF Target
  <1>5. Written(g, target[w], t) \in {<<t>>, <<g.time>>, << >>}
    BY <1>4 DEF Written
  <1>6. Written(g, target[w], t) \in Seq(Nat)
    <2>1. \A n \in Nat : <<n>> \in Seq(Nat)
      OBVIOUS
    <2>2. << >> \in Seq(Nat)
      OBVIOUS
    <2> QED
      BY <1>1, <1>4, <1>5, <2>1, <2>2, Zenon
  <1> QED
    BY <1>1, <1>3, <1>6

\* One more file in time.
LEMMA FileAppended ==
  ASSUME NEW t \in Nat, NEW q \in Seq(Nat), NEW f, f = q \o <<t>>
  PROVE  /\ Len(f) = Len(q) + 1 /\ f[Len(q) + 1] = t
         /\ \A j \in 1 .. Len(q) : f[j] = q[j]
         /\ \A j \in 1 .. Len(f) : j \in 1 .. Len(q) \/ j = Len(q) + 1
  OBVIOUS

\* A call of a saver of files.
LEMMA FilesCalled ==
  ASSUME NEW t, Calls(t), NEW w \in Writers
  PROVE  FilesOK(w)'
  <1>1. /\ Setting /\ CountersOK(w) /\ FilesOK(w) /\ t \in Nat
        /\ savers' = savers /\ phase' = "running" /\ Slack' = Slack
    BY CallOf
  <1>2. files'[w] \in Seq(Nat) /\ files[w] \in Seq(Nat)
    BY <1>1, FilesTyped DEF FilesOK
  <1>3. \A j : Scheduled(w, j)' = Scheduled(w, j)
    BY <1>1 DEF Scheduled
  <1>4. CASE ~(savers[w].kind # "none" /\ savers[w].target.kind = "file")
    BY <1>1, <1>2, <1>4 DEF FilesOK
  <1>5. ASSUME savers[w].kind # "none", savers[w].target.kind = "file",
               Len(files'[w]) = Saves(savers[w], state'[w]),
               \A j \in 1 .. Len(files'[w]) : Distance(files'[w][j], Scheduled(w, j)) <= Slack
        PROVE  FilesOK(w)'
    BY <1>1, <1>2, <1>3, <1>5 DEF FilesOK, Saves, Distance
  <1>6. Due(w, t) /\ savers[w].target.kind = "file" => files'[w] = files[w] \o <<t>>
    BY CallOf DEF Written
  <1>7. ~Due(w, t) => files'[w] = files[w]
    BY CallOf
  <1>8. Slack = 2 * Unit /\ Unit \in {0, 1}
    BY <1>1, ErrorSmall
  <1>9. CASE savers[w].kind # "none" /\ savers[w].target.kind = "file" /\ phase = "built"
    <2>1. /\ Len(files[w]) = 0 /\ t = 0 /\ savers[w].kind \in {"fixed", "coarse"}
          /\ SaverOK(savers[w]) /\ Spaced(savers[w])
      BY <1>1, <1>9, CallOf, SaversBuilt DEF FilesOK, SaverOK, Saver
    <2>2. /\ state'[w].saved = 1
          /\ savers[w].kind = "coarse" => state'[w].small = -savers[w].coarseSaves
          /\ Due(w, t) <=> ~(savers[w].kind = "fixed" /\ ~savers[w].initial)
      BY <1>9, CountersFirst
    <2>3. CASE savers[w].kind = "fixed" /\ ~savers[w].initial
      <3>1. Len(files'[w]) = 0 /\ Saves(savers[w], state'[w]) = 0
        BY <1>7, <2>1, <2>2, <2>3 DEF Saves
      <3> QED
        BY <1>5, <1>9, <3>1
    <2>4. CASE ~(savers[w].kind = "fixed" /\ ~savers[w].initial)
      <3>1. /\ Len(files'[w]) = 1 /\ files'[w][1] = 0 /\ \A j \in 1 .. Len(files'[w]) : j = 1
        BY <1>1, <1>2, <1>6, <1>9, <2>1, <2>2, <2>4, FileAppended
      <3>2. PICK h \in Nat, i \in Nat : h = savers[w].coarseSaves /\ i = savers[w].interval
        BY <2>1 DEF SaverOK, Saver
      <3>3. Saves(savers[w], state'[w]) = 1
        <4>1. CASE savers[w].kind = "fixed"
          BY <2>2, <2>4, <4>1 DEF Saves
        <4>2. CASE savers[w].kind = "coarse"
          <5>1. Saves(savers[w], state'[w]) = (2 * h + 1) * (1 - 1) + (-h) + h + 1
            BY <2>2, <3>2, <4>2 DEF Saves
          <5>2. (2 * h + 1) * (1 - 1) = 0
            BY <3>2
          <5> QED
            BY <3>2, <5>1, <5>2
        <4> QED
          BY <2>1, <4>1, <4>2
      <3>4. Scheduled(w, 1) = 0
        <4>1. CASE savers[w].kind = "fixed"
          <5>1. savers[w].start = 0 /\ savers[w].initial
            BY <2>1, <2>4, <4>1 DEF Spaced
          <5>2. Scheduled(w, 1) = 0 + i * (1 - 1)
            BY <3>2, <4>1, <5>1 DEF Scheduled
          <5> QED
            BY <3>2, <5>2
        <4>2. CASE savers[w].kind = "coarse"
          BY <4>2 DEF Scheduled
        <4> QED
          BY <2>1, <4>1, <4>2
      <3>5. Distance(files'[w][1], Scheduled(w, 1)) <= Slack
        BY <1>8, <3>1, <3>4 DEF Distance
      <3> QED
        BY <1>5, <1>9, <3>1, <3>3, <3>5
    <2> QED
      BY <2>3, <2>4
  <1>10. CASE savers[w].kind # "none" /\ savers[w].target.kind = "file" /\ phase # "built"
    <2>1. /\ Len(files[w]) = Saves(savers[w], state[w])
          /\ \A j \in 1 .. Len(files[w]) : Distance(files[w][j], Scheduled(w, j)) <= Slack
      BY <1>1, <1>10 DEF FilesOK
    <2>2. CASE ~Due(w, t)
      <3>1. state'[w] = state[w]
        BY <1>10, <2>2, CountedLater
      <3> QED
        BY <1>5, <1>7, <1>10, <2>1, <2>2, <3>1
    <2>3. CASE Due(w, t)
      <3>1. PICK k \in Nat, m \in Int : k = state[w].saved /\ m = state[w].small
        BY <1>1, <1>10, CountersTyped
      <3>2. /\ k >= 1
            /\ savers[w].kind = "coarse" => m \in -savers[w].coarseSaves .. savers[w].coarseSaves
        BY <1>1, <1>10, <3>1 DEF CountersOK
      <3>3. Scheduled(w, Len(files[w]) + 1) = Planned(savers[w], k, m)
        BY <1>1, <1>10, <2>1, <3>1, <3>2, ScheduledNext
      <3>4. PICK p \in Int : /\ p = Planned(savers[w], k, m)
                             /\ p - Unit <= t /\ t <= p + 2 * Unit
        BY <1>10, <2>3, <3>1, SaveInTime
      <3>5. Distance(t, p) <= Slack
        BY <1>1, <1>8, <3>4 DEF Distance
      <3>6. CountersOK(w)' /\ state'[w].saved \in Nat /\ state'[w].small \in Int
        <4>1. CountersOK(w)'
          BY CountersCalled
        <4>2. state'[w] \in [saved : 0 .. MaxSaves, small : Int, first : BOOLEAN]
          BY <4>1 DEF CountersOK
        <4> QED
          BY <4>1, <4>2, TimesAssumption
      <3>7. savers[w].kind \in {"fixed", "coarse"}
        BY <1>1, <1>10, SaversBuilt DEF SaverOK, Saver
      <3>8. \/ savers[w].kind = "fixed" /\ state'[w].saved = state[w].saved + 1
            \/ /\ savers[w].kind = "coarse"
               /\ IF state[w].small = savers[w].coarseSaves
                  THEN state'[w].saved = state[w].saved + 1 /\ state'[w].small = -savers[w].coarseSaves
                  ELSE state'[w].saved = state[w].saved /\ state'[w].small = state[w].small + 1
        BY <1>10, <2>3, <3>7, CountedLater
      <3>9. Saves(savers[w], state'[w]) = Saves(savers[w], state[w]) + 1
        BY <1>1, <3>1, <3>6, <3>8, OneFileMore
      <3>10. files'[w] = files[w] \o <<t>>
        BY <1>6, <1>10, <2>3
      <3>11. /\ Len(files'[w]) = Len(files[w]) + 1 /\ files'[w][Len(files[w]) + 1] = t
             /\ \A j \in 1 .. Len(files[w]) : files'[w][j] = files[w][j]
             /\ \A j \in 1 .. Len(files'[w]) : j \in 1 .. Len(files[w]) \/ j = Len(files[w]) + 1
        BY <1>1, <1>2, <3>10, FileAppended
      <3>12. \A j \in 1 .. Len(files'[w]) : Distance(files'[w][j], Scheduled(w, j)) <= Slack
        BY <2>1, <3>3, <3>4, <3>5, <3>11
      <3> QED
        BY <1>5, <1>10, <2>1, <3>9, <3>11, <3>12
    <2> QED
      BY <2>2, <2>3
  <1> QED
    BY <1>4, <1>9, <1>10

\* The numbers of a saver that takes an average.
LEMMA BallNumbers ==
  ASSUME Setting, NEW w \in Writers,
         \/ savers[w].target.kind = "average"
         \/ savers[w].target.kind = "functional" /\ savers[w].kind = "fixed"
  PROVE  /\ savers[w].kind = "fixed" /\ ~savers[w].initial
         /\ \E i, f, x, r, m \in Nat :
              /\ i = savers[w].interval /\ f = savers[w].start /\ i > 0 /\ m > 0
              /\ x = savers[w].target.time /\ r = savers[w].target.radius
              /\ f = (IF x > r THEN x - r ELSE 0) /\ i * m = r
              /\ \A k, n \in Int : Planned(savers[w], k, n) = i * k + f
  <1>1. SaverOK(savers[w]) /\ Averaged(savers[w])
    BY SaversBuilt DEF SaverOK
  <1>2. savers[w].kind = "fixed" /\ ~savers[w].initial /\ Spaced(savers[w])
    BY <1>1 DEF SaverOK, Averaged
  <1>3. savers[w] \in Saver /\ savers[w].target \in Target
    BY <1>1 DEF SaverOK, Saver
  <1>4. PICK i \in Nat, f \in Nat : i = savers[w].interval /\ f = savers[w].start
    BY <1>3 DEF Saver
  <1>5. PICK x \in Nat, r \in Nat : x = savers[w].target.time /\ r = savers[w].target.radius
    BY <1>3 DEF Target
  <1>6. PICK m \in Nat \ {0} : savers[w].interval * m = savers[w].target.radius
    BY <1>1 DEF Averaged
  <1>7. f = IF x > r THEN x - r ELSE 0
    BY <1>1, <1>4, <1>5 DEF Averaged
  <1>8. \A k, n \in Int : Planned(savers[w], k, n) = i * k + f
    BY <1>2, <1>4 DEF Planned
  <1>9. i > 0 /\ m > 0 /\ i * m = r /\ m \in Nat
    BY <1>2, <1>4, <1>5, <1>6 DEF Spaced
  <1> QED
    BY <1>2, <1>4, <1>5, <1>7, <1>8, <1>9

\* What a target remembers after a call.
LEMMA TargetAdded ==
  ASSUME NEW g, NEW m \in [last : Nat, weight : Nat, written : BOOLEAN], NEW t \in Nat,
         m.last <= t
  PROVE  /\ Added(g, m, t) \in [last : Nat, weight : Nat, written : BOOLEAN]
         /\ Added(g, m, t).last = t
         /\ Added(g, m, t).written
              <=> m.written \/ (g.kind = "average" /\ t >= g.time + g.radius)
  <1>1. PICK b \in BOOLEAN : b = (m.written \/ (g.kind = "average" /\ t >= g.time + g.radius))
    <2>1. CASE m.written \/ (g.kind = "average" /\ t >= g.time + g.radius)
      BY <2>1, Zenon
    <2>2. CASE ~(m.written \/ (g.kind = "average" /\ t >= g.time + g.radius))
      BY <2>2, Zenon
    <2> QED
      BY <2>1, <2>2
  <1>2. PICK v \in Nat : v = m.weight + (IF Inside(g, t) THEN t - m.last ELSE 0)
    <2>1. m.weight + (t - m.last) \in Nat /\ m.weight + 0 \in Nat
      OBVIOUS
    <2> QED
      BY <2>1, Zenon
  <1>3. Added(g, m, t) = [last |-> t, weight |-> v, written |-> b]
    BY <1>1, <1>2, Zenon DEF Added
  <1>4. Added(g, m, t).written = b
    BY <1>3
  <1>5. Added(g, m, t).written
          <=> m.written \/ (g.kind = "average" /\ t >= g.time + g.radius)
    BY <1>1, <1>4, Zenon
  <1> QED
    BY <1>3, <1>5

\* A multiple is the number itself or twice as large.
LEMMA OnceOrTwice ==
  ASSUME NEW i \in Nat, NEW m \in Nat, m > 0
  PROVE  i * m = i \/ i * m >= 2 * i
  <1>1. CASE m = 1
    BY <1>1
  <1>2. CASE m >= 2
    BY <1>2, MoreParts
  <1> QED
    BY <1>1, <1>2

\* The first save of an average lies inside its ball.
LEMMA FirstInside ==
  ASSUME NEW t, Calls(t), NEW w \in Writers, phase # "built", Due(w, t),
         savers[w].target.kind = "average", state[w].saved = 1
  PROVE  Inside(savers[w].target, t)
  <1>1. Setting /\ CountersOK(w) /\ t \in Nat
    BY CallOf
  <1>2. PICK i, f, x, r, m \in Nat :
          /\ i = savers[w].interval /\ f = savers[w].start /\ i > 0 /\ m > 0
          /\ x = savers[w].target.time /\ r = savers[w].target.radius
          /\ f = (IF x > r THEN x - r ELSE 0) /\ i * m = r
          /\ \A k, n \in Int : Planned(savers[w], k, n) = i * k + f
    BY <1>1, BallNumbers
  <1>3. savers[w].kind = "fixed"
    BY <1>1, BallNumbers
  <1>4. PICK u \in {0, 1} : u = Unit
    BY <1>1, ErrorSmall
  <1>5. i > 3 * u /\ (i = r => x > 3 * u)
    <2>1. Apart(savers[w]) /\ Spaced(savers[w])
      BY <1>1, <1>3, SaversBuilt DEF SaverOK
    <2>2. i - 2 * 0 * 0 > 3 * u
      BY <1>2, <1>3, <1>4, <2>1 DEF Apart, Spaced
    <2> QED
      BY <1>2, <1>4, <2>1, <2>2 DEF Apart
  <1>6. i = r \/ r >= 2 * i
    BY <1>2, OnceOrTwice
  <1>7. i + f - u <= t /\ t <= i + f + 2 * u
    <2>1. PICK n \in Int : n = state[w].small
      BY <1>1, <1>3, CountersTyped
    <2>2. PICK p \in Int : p = Planned(savers[w], 1, n) /\ p - u <= t /\ t <= p + 2 * u
      BY <1>3, <1>4, <2>1, SaveInTime
    <2>3. p = i + f
      <3>1. 1 \in Int /\ i * 1 = i
        OBVIOUS
      <3>2. \A j, l \in Int : Planned(savers[w], j, l) = i * j + f
        BY <1>2, Zenon
      <3>3. Planned(savers[w], 1, n) = i * 1 + f
        BY <2>1, <3>1, <3>2, Zenon
      <3> QED
        BY <2>2, <3>1, <3>3, Zenon
    <2> QED
      BY <2>2, <2>3
  <1>8. t - x < r /\ x - t < r
    <2>1. /\ x > r => f = x - r
          /\ ~(x > r) => f = 0
      BY <1>2
    <2> QED
      BY <1>1, <1>4, <1>5, <1>6, <1>7, <2>1
  <1>9. Distance(t, x) < r
    BY <1>1, <1>2, <1>8 DEF Distance
  <1>10. savers[w].target.kind # "functional"
    OBVIOUS
  <1> QED
    BY <1>2, <1>9, <1>10, Zenon DEF Inside

\* A call of a saver keeps what holds of its target.
LEMMA TargetCalled ==
  ASSUME NEW t, Calls(t), NEW w \in Writers
  PROVE  TargetOK(w)'
  <1>1. /\ Setting /\ CountersOK(w) /\ TargetOK(w) /\ t \in Nat /\ time \in Nat /\ time <= t
        /\ savers' = savers /\ time' = t
        /\ target'[w] = IF Due(w, t) THEN Added(savers[w].target, target[w], t) ELSE target[w]
        /\ files'[w] = IF Due(w, t) THEN files[w] \o Written(savers[w].target, target[w], t)
                       ELSE files[w]
    BY CallOf
  <1>2. /\ target[w] \in [last : Nat, weight : Nat, written : BOOLEAN] /\ target[w].last <= time
        /\ target[w].last \in Nat /\ target[w].weight \in Nat
    BY <1>1 DEF TargetOK
  <1>3. target'[w] \in [last : Nat, weight : Nat, written : BOOLEAN] /\ target'[w].last <= t
    <2>1. CASE ~Due(w, t)
      BY <1>1, <1>2, <2>1
    <2>2. CASE Due(w, t)
      <3>1. PICK g, m :
              /\ m \in [last : Nat, weight : Nat, written : BOOLEAN]
              /\ g = savers[w].target /\ m = target[w]
        BY <1>2, Zenon
      <3>2. target'[w] = Added(g, m, t) /\ m.last <= t
        BY <1>1, <1>2, <2>2, <3>1
      <3>3. /\ Added(g, m, t) \in [last : Nat, weight : Nat, written : BOOLEAN]
            /\ Added(g, m, t).last = t
        BY <1>1, <3>1, <3>2, TargetAdded, Zenon
      <3> QED
        BY <1>1, <3>2, <3>3
    <2> QED
      BY <2>1, <2>2
  <1>4. ASSUME savers[w].target.kind = "average"
        PROVE  /\ files'[w] = IF target'[w].written THEN <<savers[w].target.time>> ELSE << >>
               /\ savers \notin Rounded /\ ~target'[w].written /\ state'[w].saved >= 2 =>
                    Planned(savers[w], state'[w].saved - 1, 0)
                      < savers[w].target.time + savers[w].target.radius
               /\ target'[w].written \/ state'[w].saved >= 2 => target'[w].weight > 0
    <2>1. /\ files[w] = IF target[w].written THEN <<savers[w].target.time>> ELSE << >>
          /\ savers \notin Rounded /\ ~target[w].written /\ state[w].saved >= 2 =>
               Planned(savers[w], state[w].saved - 1, 0)
                 < savers[w].target.time + savers[w].target.radius
          /\ target[w].written \/ state[w].saved >= 2 => target[w].weight > 0
      BY <1>1, <1>4 DEF TargetOK
    <2>2. savers[w].kind = "fixed" /\ ~savers[w].initial /\ savers[w].kind # "none"
      BY <1>1, <1>4, BallNumbers
    <2>3. CASE ~Due(w, t)
      <3>1. files'[w] = files[w] /\ target'[w] = target[w]
        BY <1>1, <2>3
      <3>2. CASE phase = "built"
        <4>1. ~(state'[w].saved >= 2)
          BY <2>2, <3>2, CountersFirst
        <4> QED
          BY <2>1, <3>1, <4>1
      <3>3. CASE phase # "built"
        <4>1. state'[w] = state[w]
          BY <2>2, <2>3, <3>3, CountedLater
        <4> QED
          BY <2>1, <3>1, <4>1
      <3> QED
        BY <3>2, <3>3
    <2>4. CASE Due(w, t)
      <3>1. phase # "built"
        BY <2>2, <2>4, CountersFirst
      <3>2. PICK x \in Nat, r \in Nat : x = savers[w].target.time /\ r = savers[w].target.radius
        BY <1>1, <1>4, BallNumbers
      <3>3. target'[w].written <=> target[w].written \/ t >= x + r
        <4>1. PICK g, m :
                /\ m \in [last : Nat, weight : Nat, written : BOOLEAN]
                /\ g = savers[w].target /\ m = target[w]
          BY <1>2, Zenon
        <4>2. target'[w] = Added(g, m, t) /\ m.last <= t
          BY <1>1, <1>2, <2>4, <4>1
        <4>3. Added(g, m, t).written
                <=> m.written \/ (g.kind = "average" /\ t >= g.time + g.radius)
          BY <1>1, <4>1, <4>2, TargetAdded, Zenon
        <4>4. m.written = target[w].written /\ g.kind = "average" /\ g.time = x /\ g.radius = r
          BY <1>4, <3>2, <4>1
        <4>5. target'[w].written <=> m.written \/ t >= x + r
          BY <4>2, <4>3, <4>4, Zenon
        <4> QED
          BY <4>4, <4>5, Zenon
      <3>4. Written(savers[w].target, target[w], t)
              = IF ~target[w].written /\ t >= x + r THEN <<x>> ELSE << >>
        BY <1>4, <3>2 DEF Written
      <3>5. files'[w] = IF target'[w].written THEN <<x>> ELSE << >>
        <4>1. CASE target[w].written
          BY <1>1, <2>1, <2>4, <3>2, <3>3, <3>4, <4>1
        <4>2. CASE ~target[w].written
          BY <1>1, <2>1, <2>4, <3>2, <3>3, <3>4, <4>2
        <4> QED
          BY <4>1, <4>2
      <3>6. ASSUME savers \notin Rounded, ~target'[w].written
            PROVE  Planned(savers[w], state'[w].saved - 1, 0) < x + r
        <4>1. PICK k \in Nat, m \in Int : k = state[w].saved /\ m = state[w].small
          BY <1>1, <2>2, CountersTyped
        <4>2. state'[w].saved - 1 = k
          BY <2>2, <2>4, <3>1, <4>1, CountedLater
        <4>3. PICK p \in Int : p = Planned(savers[w], k, m) /\ p - Unit <= t
          BY <2>2, <2>4, <3>1, <4>1, SaveInTime
        <4>4. Planned(savers[w], k, m) = Planned(savers[w], k, 0)
          BY <1>1, <2>2, <4>1, SavesApart
        <4>5. Unit = 0
          BY <3>6 DEF Unit
        <4>6. t < x + r
          BY <1>1, <3>2, <3>3, <3>6
        <4> QED
          BY <1>1, <3>2, <4>2, <4>3, <4>4, <4>5, <4>6
      <3>7. target'[w].weight > 0
        <4>1. PICK k \in Nat : k = state[w].saved /\ k >= 1
          BY <1>1, <2>2, <3>1, CountersTyped DEF CountersOK
        <4>2. PICK a \in Nat, v \in Nat : a = target[w].last /\ v = target[w].weight /\ a < t
          <5>1. time < t
            BY <3>1, CallOf
          <5> QED
            BY <1>1, <1>2, <5>1
        <4>3. target'[w].weight
                = v + (IF Inside(savers[w].target, t) THEN t - a ELSE 0)
          BY <1>1, <2>4, <4>2 DEF Added
        <4>4. CASE k = 1
          <5>1. Inside(savers[w].target, t)
            BY <1>4, <2>4, <3>1, <4>1, <4>4, FirstInside
          <5> QED
            BY <1>1, <4>2, <4>3, <5>1
        <4>5. CASE k >= 2
          <5>1. v > 0
            BY <2>1, <4>1, <4>2, <4>5
          <5>2. v + (t - a) > 0 /\ v + 0 > 0
            BY <1>1, <4>2, <5>1
          <5> QED
            BY <4>3, <5>2, Zenon
        <4> QED
          BY <4>1, <4>4, <4>5
      <3> QED
        BY <3>2, <3>5, <3>6, <3>7
    <2> QED
      BY <2>3, <2>4
  <1>5. Rounded' = Rounded
    BY DEF Rounded
  <1> QED
    BY <1>1, <1>3, <1>4 DEF TargetOK, Planned

\* A saver whose interval divides the end time lets no step pass the end.
LEMMA EndCalled ==
  ASSUME NEW t, Calls(t), NEW w \in Writers
  PROVE  EndOK(w)'
  <1>1. /\ Setting /\ CountersOK(w) /\ t \in Nat /\ savers' = savers /\ time' = t
        /\ phase = "built" => t = 0
        /\ phase # "built" =>
             /\ time < EndTime /\ time \in Nat
             /\ savers[w].kind # "none" => t <= NextSave(w) + Unit
    BY CallOf
  <1>2. SUFFICES ASSUME savers \notin Rounded, savers[w].kind = "fixed", savers[w].start = 0,
                        EndTime % savers[w].interval = 0
                 PROVE  t <= EndTime
    BY <1>1 DEF EndOK
  <1>3. EndTime \in Nat /\ EndTime > 0 /\ Unit = 0 /\ savers[w].kind # "none"
    BY <1>2, TimesAssumption DEF Unit
  <1>4. CASE phase = "built"
    BY <1>1, <1>3, <1>4
  <1>5. CASE phase # "built"
    <2>1. PICK i \in Nat : i = savers[w].interval /\ i > 0
      BY <1>1, <1>3, SaversBuilt DEF SaverOK, Saver, Spaced
    <2>2. PICK q \in Nat : q * i = EndTime
      BY <1>2, <1>3, <2>1, Divided
    <2>3. PICK k \in Nat, m \in Int : k = state[w].saved /\ m = state[w].small
      BY <1>1, <1>3, CountersTyped
    <2>4. /\ k >= 1
          /\ k >= 2 => Planned(savers[w], k - 1, savers[w].coarseSaves) - Unit <= time
      BY <1>1, <1>3, <1>5, <2>3 DEF CountersOK
    <2>5. PICK y \in Int : y = i * k /\ i * (k - 1) = y - i
      BY <2>1, <2>3, OneMore
    <2>6. Planned(savers[w], k, m) = y + 0
      BY <1>2, <2>1, <2>5 DEF Planned
    <2>7. NextSave(w) = y
      <3>1. ErrorAt(w, k) = 0
        BY <1>1, <1>3, ErrorSmall
      <3>2. NextSave(w) = Planned(savers[w], k, m) + ErrorAt(w, k)
        BY <1>1, <2>3, NextSaveNow
      <3> QED
        BY <2>5, <2>6, <3>1, <3>2
    <2>8. t <= y
      BY <1>1, <1>3, <1>5, <2>5, <2>7
    <2>9. k <= q
      <3>1. CASE k >= 2
        <4>1. Planned(savers[w], k - 1, savers[w].coarseSaves) = (y - i) + 0
          BY <1>2, <2>1, <2>5 DEF Planned
        <4>2. PICK z \in Nat : z = time /\ z < EndTime
          BY <1>1, <1>5
        <4>3. y - i < EndTime
          BY <1>3, <2>1, <2>4, <2>5, <3>1, <4>1, <4>2
        <4>4. i * q = EndTime
          BY <2>1, <2>2
        <4>5. i * (k - 1) < i * q
          BY <2>5, <4>3, <4>4
        <4>6. k - 1 < q
          <5>1. i \in Int /\ k - 1 \in Int /\ q \in Int
            BY <2>1, <2>2, <2>3
          <5> QED
            BY <2>1, <4>5, <5>1, FewerTimes
        <4> QED
          BY <2>2, <2>3, <4>6
      <3>2. CASE k < 2
        <4>1. q # 0
          BY <1>3, <2>1, <2>2
        <4> QED
          BY <2>2, <2>3, <3>2, <4>1
      <3> QED
        BY <2>3, <3>1, <3>2
    <2>10. y <= EndTime
      <3>1. i * k <= i * q
        BY <2>1, <2>2, <2>3, <2>9, FewerTimes
      <3>2. i * q = EndTime
        BY <2>1, <2>2
      <3> QED
        BY <2>5, <3>1, <3>2
    <2> QED
      BY <1>1, <1>3, <2>5, <2>8, <2>10
  <1> QED
    BY <1>4, <1>5

-----------------------------------------------------------------------------
(* The steps of the simulator.                                              *)

\* The invariant holds at first.
LEMMA InitHolds ==
  ASSUME Init
  PROVE  IInv
  <1>1. Setting
    BY DEF Init, Setting
  <1>2. /\ phase = "built" /\ time = 0 /\ 0 \in Nat /\ 1 \in Nat
        /\ EndTime \in Nat /\ EndTime > 0 /\ MaxSaves \in Nat
    BY TimesAssumption DEF Init
  <1>3. ASSUME NEW w \in Writers
        PROVE  CountersOK(w) /\ FilesOK(w) /\ TargetOK(w) /\ EndOK(w)
    <2>1. state[w] = Fresh(savers[w]) /\ target[w] = Empty /\ files[w] = << >>
      BY DEF Init
    <2>2. savers[w].kind # "none" => MaxSaves >= 3
      <3>1. ~(1 >= 2)
        OBVIOUS
      <3> QED
        BY <1>1, <1>2, <3>1, SavesLeft
    <2>3. state[w].saved \in 0 .. MaxSaves /\ state[w].saved <= 1
      BY <1>2, <2>1, <2>2 DEF Fresh
    <2>4. state[w] \in [saved : 0 .. MaxSaves, small : Int, first : BOOLEAN]
      <3>1. PICK n : n = IF savers[w].kind = "fixed" /\ ~savers[w].initial THEN 1 ELSE 0
        OBVIOUS
      <3>2. state[w] = [saved |-> n, small |-> 0, first |-> TRUE]
        BY <2>1, <3>1, Zenon DEF Fresh
      <3>3. n \in 0 .. MaxSaves
        BY <2>3, <3>2
      <3> QED
        BY <3>2, <3>3
    <2>5. CountersOK(w)
      BY <1>2, <2>1, <2>4 DEF CountersOK
    <2>6. FilesOK(w)
      BY <1>2, <2>1 DEF FilesOK
    <2>7. ~(state[w].saved >= 2)
      BY <1>2, <2>3
    <2>8. TargetOK(w)
      BY <1>2, <2>1, <2>7 DEF TargetOK, Empty
    <2>9. EndOK(w)
      BY <1>2 DEF EndOK
    <2> QED
      BY <2>5, <2>6, <2>8, <2>9
  <1> QED
    BY <1>1, <1>3 DEF IInv

\* The smallest of natural numbers is one of them.
LEMMA SmallestOfThem ==
  ASSUME NEW S, S \subseteq Nat, S # {}
  PROVE  Smallest(S) \in S /\ \A y \in S : Smallest(S) <= y
  <1>1. PICK x \in S : \A y \in S : ~(<<y, x>> \in OpToRel(<, Nat))
    BY NatLessThanWellFounded, WFMin
  <1>2. ASSUME NEW y \in S
        PROVE  x <= y
    <2>1. x \in Nat /\ y \in Nat
      OBVIOUS
    <2>2. ~(y < x)
      BY <1>1, <2>1, Zenon DEF OpToRel
    <2> QED
      BY <2>1, <2>2
  <1> QED
    BY <1>2 DEF Smallest

\* The time step is positive, and no longer than up to a next save time.
LEMMA StepLength ==
  ASSUME IInv, phase = "running", NEW cfl \in StepSizes,
         NEW dt, dt = Smallest({cfl} \cup UNION {Remaining(w) : w \in Writers})
  PROVE  /\ dt \in Nat /\ dt > 0 /\ dt <= cfl
         /\ \A w \in Writers : savers[w].kind # "none" => dt <= NextSave(w) - time
  <1> DEFINE S == {cfl} \cup UNION {Remaining(w) : w \in Writers}
  <1>1. time \in Nat
    BY DEF IInv, Setting
  <1>2. ASSUME NEW w \in Writers, savers[w].kind # "none"
        PROVE  /\ NextSave(w) - time \in Nat /\ NextSave(w) - time > 0
               /\ Remaining(w) = {NextSave(w) - time}
    <2>1. Setting /\ CountersOK(w)
      BY DEF IInv
    <2>2. NextSave(w) \in Int /\ state[w].saved \in Nat
      BY <1>2, <2>1, CountersTyped
    <2>3. NextSave(w) > time /\ state[w].saved >= 1
      BY <1>2, <2>1 DEF CountersOK
    <2>4. Remaining(w) = {NextSave(w) - time}
      BY <1>2, <2>2, <2>3 DEF Remaining
    <2> QED
      BY <1>1, <2>2, <2>3, <2>4
  <1>3. ASSUME NEW w \in Writers, savers[w].kind = "none"
        PROVE  Remaining(w) = {}
    BY <1>3 DEF Remaining
  <1>4. cfl \in Nat /\ cfl > 0
    BY TimesAssumption
  <1>5. ASSUME NEW d \in S
        PROVE  d \in Nat /\ d > 0
    <2>1. CASE d = cfl
      BY <1>4, <2>1
    <2>2. CASE d # cfl
      <3>1. PICK w \in Writers : d \in Remaining(w)
        BY <1>5, <2>2
      <3> QED
        BY <1>2, <1>3, <3>1
    <2> QED
      BY <2>1, <2>2
  <1>6. ASSUME NEW w \in Writers, savers[w].kind # "none"
        PROVE  NextSave(w) - time \in S
    <2>1. NextSave(w) - time \in Remaining(w)
      BY <1>2, <1>6
    <2> QED
      BY <2>1, Zenon
  <1>7. cfl \in S
    OBVIOUS
  <1>8. dt = Smallest(S)
    OBVIOUS
  <1> HIDE DEF S
  <1>9. dt \in S /\ \A y \in S : dt <= y
    BY <1>5, <1>7, <1>8, SmallestOfThem
  <1> QED
    BY <1>5, <1>6, <1>7, <1>9

\* A step of the loop calls the writers at a later time.
LEMMA StepCalls ==
  ASSUME IInv, PerformStep
  PROVE  \E t : Calls(t)
  <1>1. phase = "running" /\ ~AtEnd /\ UNCHANGED <<savers, error, phase>>
    BY DEF PerformStep
  <1>2. PICK cfl \in StepSizes, e \in Rounding :
          LET dt == Smallest({cfl} \cup UNION {Remaining(w) : w \in Writers})
          IN  /\ dt > 0 => dt + e > 0
              /\ dt = 0 => e = 0
              /\ time' = time + dt + e
              /\ CallWriters(time + dt + e)
    BY DEF PerformStep
  <1>3. PICK dt : dt = Smallest({cfl} \cup UNION {Remaining(w) : w \in Writers})
    OBVIOUS
  <1>4. /\ dt > 0 => dt + e > 0
        /\ time' = time + dt + e
        /\ CallWriters(time + dt + e)
    BY <1>2, <1>3
  <1>5. /\ dt \in Nat /\ dt > 0
        /\ \A w \in Writers : savers[w].kind # "none" => dt <= NextSave(w) - time
    BY <1>1, <1>3, StepLength
  <1>6. time \in Nat /\ EndTime \in Nat /\ time < EndTime
    BY <1>1, TimesAssumption DEF IInv, Setting, AtEnd
  <1>7. e \in Int /\ e <= Unit /\ Unit \in {0, 1}
    BY DEF Rounding, Unit
  <1>8. PICK t \in Nat : t = time + dt + e /\ time < t
    BY <1>4, <1>5, <1>6, <1>7
  <1>9. ASSUME NEW w \in Writers, savers[w].kind # "none"
        PROVE  t <= NextSave(w) + Unit
    <2>1. NextSave(w) \in Int
      BY <1>9, CountersTyped DEF IInv
    <2>2. dt <= NextSave(w) - time
      BY <1>5, <1>9
    <2> QED
      BY <1>5, <1>6, <1>7, <1>8, <2>1, <2>2
  <1>10. CallWriters(t) /\ time' = t
    BY <1>4, <1>8
  <1> QED
    BY <1>1, <1>6, <1>8, <1>9, <1>10 DEF Calls

\* So does the start, at time zero.
LEMMA StartCalls ==
  ASSUME IInv, Start
  PROVE  Calls(0)
  <1>1. phase = "built" /\ phase' = "running" /\ time = 0 /\ CallWriters(0)
    BY DEF IInv, Setting, Start
  <1> QED
    BY <1>1 DEF Calls, Start

\* A call of the writers keeps the invariant.
LEMMA CallKeeps ==
  ASSUME NEW t, Calls(t)
  PROVE  IInv'
  <1>1. /\ Setting /\ t \in Nat /\ time' = t /\ phase' = "running"
        /\ savers' = savers /\ error' = error /\ CallWriters(t)
    BY DEF Calls, IInv
  <1>2. /\ Writers' = Writers /\ Products' = Products /\ Rounding' = Rounding
        /\ Setups' = Setups /\ RoundedSetups' = RoundedSetups
    BY <1>1 DEF Writers, Products, Rounding, Rounded
  <1>3. /\ state' = [w \in Writers |-> state'[w]]
        /\ target' = [w \in Writers |-> target'[w]]
        /\ files' = [w \in Writers |-> files'[w]]
    BY <1>1 DEF CallWriters
  <1>4. Setting'
    <2>1. \E setup \in Setups \cup RoundedSetups : savers' = SaversOf(setup)
      BY <1>1 DEF Setting
    <2>2. error' \in [Products' -> Rounding']
      BY <1>1, <1>2 DEF Setting
    <2> QED
      BY <1>1, <1>2, <1>3, <2>1, <2>2 DEF Setting
  <1>5. \A w \in Writers : (CountersOK(w) /\ FilesOK(w) /\ TargetOK(w) /\ EndOK(w))'
    BY CountersCalled, FilesCalled, TargetCalled, EndCalled
  <1> QED
    BY <1>2, <1>4, <1>5 DEF IInv

\* So does the end, where the functionals write.
LEMMA FinalizeKeeps ==
  ASSUME IInv, Finalize
  PROVE  IInv'
  <1>1. /\ Setting /\ phase = "running" /\ AtEnd /\ phase' = "finalized" /\ time \in Nat
        /\ savers' = savers /\ error' = error /\ time' = time
        /\ state' = state /\ target' = target
        /\ files' = [w \in Writers |->
             IF savers[w].target.kind = "functional" THEN Append(files[w], time) ELSE files[w]]
    BY DEF IInv, Finalize, Setting
  <1>2. /\ Writers' = Writers /\ Products' = Products /\ Rounding' = Rounding
        /\ Unit' = Unit /\ Slack' = Slack /\ Rounded' = Rounded
    BY <1>1 DEF Writers, Products, Rounding, Rounded, Unit, Slack
  <1>3. Setting'
    BY <1>1, <1>2 DEF Setting, AtEnd
  <1>4. ASSUME NEW w \in Writers
        PROVE  (CountersOK(w) /\ FilesOK(w) /\ TargetOK(w) /\ EndOK(w))'
    <2>1. CountersOK(w) /\ FilesOK(w) /\ TargetOK(w) /\ EndOK(w)
      BY DEF IInv
    <2>2. savers[w].target.kind # "functional" => files'[w] = files[w]
      BY <1>1
    <2>3. files'[w] \in Seq(Nat)
      <3>1. files[w] \in Seq(Nat) /\ Append(files[w], time) \in Seq(Nat)
        BY <1>1, <2>1 DEF FilesOK
      <3> QED
        BY <1>1, <3>1
    <2>4. NextSave(w)' = NextSave(w)
      BY <1>1, <1>2 DEF NextSave
    <2>5. CountersOK(w)'
      BY <1>1, <1>2, <2>1, <2>4 DEF CountersOK, Planned
    <2>6. \A j : Scheduled(w, j)' = Scheduled(w, j)
      BY <1>1 DEF Scheduled
    <2>7. FilesOK(w)'
      BY <1>1, <1>2, <2>1, <2>2, <2>3, <2>6 DEF FilesOK
    <2>8. TargetOK(w)'
      BY <1>1, <1>2, <2>1, <2>2 DEF TargetOK, Planned
    <2>9. EndOK(w)'
      BY <1>1, <1>2, <2>1 DEF EndOK
    <2> QED
      BY <2>5, <2>7, <2>8, <2>9
  <1> QED
    BY <1>2, <1>3, <1>4 DEF IInv

\* And a step that changes nothing.
LEMMA StutterKeeps ==
  ASSUME IInv, UNCHANGED vars
  PROVE  IInv'
  <1>1. /\ Setting /\ savers' = savers /\ error' = error /\ phase' = phase /\ time' = time
        /\ state' = state /\ target' = target /\ files' = files
    BY DEF IInv, vars
  <1>2. /\ Writers' = Writers /\ Products' = Products /\ Rounding' = Rounding
        /\ Unit' = Unit /\ Slack' = Slack /\ Rounded' = Rounded
    BY <1>1 DEF Writers, Products, Rounding, Rounded, Unit, Slack
  <1>3. Setting'
    BY <1>1, <1>2 DEF Setting, AtEnd
  <1>4. ASSUME NEW w \in Writers
        PROVE  (CountersOK(w) /\ FilesOK(w) /\ TargetOK(w) /\ EndOK(w))'
    <2>1. CountersOK(w) /\ FilesOK(w) /\ TargetOK(w) /\ EndOK(w)
      BY DEF IInv
    <2>2. NextSave(w)' = NextSave(w) /\ \A j : Scheduled(w, j)' = Scheduled(w, j)
      BY <1>1, <1>2 DEF NextSave, Scheduled
    <2>3. CountersOK(w)'
      BY <1>1, <1>2, <2>1, <2>2 DEF CountersOK, Planned
    <2>4. FilesOK(w)'
      BY <1>1, <1>2, <2>1, <2>2 DEF FilesOK
    <2>5. TargetOK(w)'
      BY <1>1, <1>2, <2>1 DEF TargetOK, Planned
    <2>6. EndOK(w)'
      BY <1>1, <1>2, <2>1 DEF EndOK
    <2> QED
      BY <2>3, <2>4, <2>5, <2>6
  <1> QED
    BY <1>2, <1>3, <1>4 DEF IInv

\* The invariant is inductive.
LEMMA Invariance == Spec => []IInv
  <1>1. Init => IInv
    BY InitHolds
  <1>2. IInv /\ [Next]_vars => IInv'
    <2>1. ASSUME IInv, Start
          PROVE  IInv'
      BY <2>1, StartCalls, CallKeeps
    <2>2. ASSUME IInv, PerformStep
          PROVE  IInv'
      BY <2>2, StepCalls, CallKeeps
    <2>3. ASSUME IInv, Finalize
          PROVE  IInv'
      BY <2>3, FinalizeKeeps
    <2>4. ASSUME IInv, UNCHANGED vars
          PROVE  IInv'
      BY <2>4, StutterKeeps
    <2> QED
      BY <2>1, <2>2, <2>3, <2>4 DEF Next
  <1> QED
    BY <1>1, <1>2, PTL DEF Spec

-----------------------------------------------------------------------------
(* What follows.                                                            *)

\* The state is of its type.
LEMMA Typed ==
  ASSUME IInv
  PROVE  TypeOK
  <1>1. savers \in Seq(Saver)
    <2>1. PICK setup \in Setups \cup RoundedSetups : savers = SaversOf(setup)
      BY DEF IInv, Setting
    <2>2. Len(setup) \in Nat /\ DOMAIN savers = 1 .. Len(setup)
      BY <2>1, SetupsAssumption DEF SaversOf
    <2>3. savers = [w \in 1 .. Len(setup) |-> savers[w]]
      BY <2>1, <2>2 DEF SaversOf
    <2>4. Writers = 1 .. Len(setup)
      <3>1. Len(savers) = Len(setup)
        BY <2>2, <2>3
      <3> QED
        BY <3>1 DEF Writers
    <2>5. \A w \in 1 .. Len(setup) : savers[w] \in Saver
      BY <2>4, SaversBuilt DEF IInv, SaverOK
    <2> QED
      BY <2>2, <2>3, <2>5
  <1>2. error \in [Products -> Rounding] /\ phase \in {"built", "running", "finalized"}
        /\ time \in Nat
    BY DEF IInv, Setting
  <1>3. state \in [Writers -> [saved : 0 .. MaxSaves, small : Int, first : BOOLEAN]]
    <2>1. state = [w \in Writers |-> state[w]]
      BY DEF IInv, Setting
    <2> QED
      BY <2>1 DEF IInv, CountersOK
  <1>4. target \in [Writers -> [last : Nat, weight : Nat, written : BOOLEAN]]
    <2>1. target = [w \in Writers |-> target[w]]
      BY DEF IInv, Setting
    <2> QED
      BY <2>1 DEF IInv, TargetOK
  <1>5. files \in [Writers -> Seq(Nat)]
    <2>1. files = [w \in Writers |-> files[w]]
      BY DEF IInv, Setting
    <2> QED
      BY <2>1 DEF IInv, FilesOK
  <1> QED
    BY <1>1, <1>2, <1>3, <1>4, <1>5 DEF TypeOK

\* The files of a saver are those of the times that have come.
LEMMA OnTime ==
  ASSUME IInv
  PROVE  SavedOnTime
  <1>1. SUFFICES ASSUME phase # "built", NEW w \in Writers, savers[w].kind # "none",
                        savers[w].target.kind = "file"
        PROVE  /\ \A j \in 1 .. Len(files[w]) : Distance(files[w][j], Scheduled(w, j)) <= Slack
               /\ Scheduled(w, Len(files[w]) + 1) + Slack > time
    BY DEF SavedOnTime
  <1>2. Setting /\ CountersOK(w) /\ FilesOK(w) /\ time \in Nat
    BY DEF IInv, Setting
  <1>3. /\ Len(files[w]) = Saves(savers[w], state[w])
        /\ \A j \in 1 .. Len(files[w]) : Distance(files[w][j], Scheduled(w, j)) <= Slack
    BY <1>1, <1>2 DEF FilesOK
  <1>4. PICK k \in Nat, m \in Int : k = state[w].saved /\ m = state[w].small
    BY <1>1, <1>2, CountersTyped
  <1>5. /\ k >= 1 /\ NextSave(w) > time
        /\ savers[w].kind = "coarse" => m \in -savers[w].coarseSaves .. savers[w].coarseSaves
    BY <1>1, <1>2, <1>4 DEF CountersOK
  <1>6. Scheduled(w, Len(files[w]) + 1) = Planned(savers[w], k, m)
    BY <1>1, <1>2, <1>3, <1>4, <1>5, ScheduledNext
  <1>7. NextSave(w) = Planned(savers[w], k, m) + ErrorAt(w, k)
    BY <1>2, <1>4, NextSaveNow
  <1>8. Planned(savers[w], k, m) \in Int
    BY <1>1, <1>2, <1>4, CountersTyped
  <1>9. /\ Unit \in {0, 1} /\ Slack = 2 * Unit /\ ErrorAt(w, k) \in Int /\ ErrorAt(w, k) <= Unit
    BY <1>2, ErrorSmall
  <1> QED
    BY <1>2, <1>3, <1>5, <1>6, <1>7, <1>8, <1>9

\* A multiple that is greater than an even one comes after one that reaches it.
LEMMA MultipleBefore ==
  ASSUME NEW i \in Nat, i > 0, NEW m \in Nat, m > 0, NEW r \in Nat, i * m = r,
         NEW k \in Nat, i * k > 2 * r
  PROVE  k >= 2 /\ i * (k - 1) \in Int /\ i * (k - 1) >= 2 * r
  <1>1. PICK d \in Int, j \in Int : d = 2 * m /\ j = k - 1
    OBVIOUS
  <1>2. i * d = 2 * (i * m)
    BY <1>1, Z3
  <1>3. i * d < i * k /\ i \in Int /\ k \in Int
    BY <1>2
  <1>4. d < k
    BY <1>1, <1>3, FewerTimes
  <1>5. d <= j /\ i \in Int
    BY <1>1, <1>4
  <1>6. i * d <= i * j
    BY <1>5, FewerTimes
  <1>7. i * j \in Int
    BY <1>1, OneMore
  <1> QED
    BY <1>1, <1>2, <1>4, <1>6, <1>7

\* An average whose ball ends at a save time is written.
LEMMA AverageTaken ==
  ASSUME IInv, phase = "finalized", NEW w \in Writers,
         savers[w].target.kind = "average", savers \notin Rounded,
         savers[w].target.radius <= savers[w].target.time,
         savers[w].target.time + savers[w].target.radius <= EndTime
  PROVE  target[w].written
  <1>1. savers[w].target.kind = "average" /\ savers \notin Rounded /\ phase = "finalized"
    OBVIOUS
  <1>2. Setting /\ CountersOK(w) /\ TargetOK(w) /\ time \in Nat /\ AtEnd /\ EndTime \in Nat
    BY <1>1, TimesAssumption DEF IInv, Setting
  <1>3. PICK i, f, x, r, m \in Nat :
          /\ i = savers[w].interval /\ f = savers[w].start /\ i > 0 /\ m > 0
          /\ x = savers[w].target.time /\ r = savers[w].target.radius
          /\ f = (IF x > r THEN x - r ELSE 0) /\ i * m = r
          /\ \A k, n \in Int : Planned(savers[w], k, n) = i * k + f
    BY <1>1, <1>2, BallNumbers
  <1>4. savers[w].kind = "fixed" /\ savers[w].kind # "none"
    BY <1>1, <1>2, BallNumbers
  <1>5. f + r = x /\ x + r <= EndTime
    <2>1. r <= x /\ x + r <= EndTime
      BY <1>1, <1>3
    <2>2. f = (IF x > r THEN x - r ELSE 0)
      BY <1>3
    <2> QED
      BY <2>1, <2>2
  <1>6. PICK k \in Nat, n \in Int : k = state[w].saved /\ n = state[w].small
    BY <1>2, <1>4, CountersTyped
  <1>7. PICK y \in Int : y = i * k
    <2>1. i \in Int /\ k \in Int
      OBVIOUS
    <2> QED
      BY <2>1, OneMore
  <1>8. y > 2 * r
    <2>1. Unit = 0 /\ ErrorAt(w, k) \in Int /\ ErrorAt(w, k) <= Unit
      BY <1>1, <1>2, ErrorSmall DEF Unit
    <2>2. NextSave(w) = Planned(savers[w], k, n) + ErrorAt(w, k)
      BY <1>2, <1>6, NextSaveNow
    <2>3. Planned(savers[w], k, n) = y + f
      <3>1. k \in Int /\ n \in Int
        OBVIOUS
      <3>2. Planned(savers[w], k, n) = i * k + f
        BY <1>3, <3>1
      <3> QED
        BY <1>7, <3>2
    <2>4. time >= EndTime
      BY <1>2 DEF AtEnd
    <2>5. NextSave(w) > time
      BY <1>1, <1>2, <1>4 DEF CountersOK
    <2>6. y + f > EndTime
      BY <1>2, <1>7, <2>1, <2>2, <2>3, <2>4, <2>5
    <2> QED
      BY <1>2, <1>5, <1>7, <2>6
  <1>9. k >= 2 /\ i * (k - 1) \in Int /\ i * (k - 1) >= 2 * r
    <2>1. i * k > 2 * r /\ i > 0 /\ m > 0 /\ i * m = r
      BY <1>3, <1>7, <1>8
    <2> QED
      BY <2>1, MultipleBefore
  <1>10. PICK z \in Int : z = Planned(savers[w], k - 1, 0) /\ z >= x + r
    <2>1. PICK j \in Int : j = k - 1 /\ 0 \in Int
      OBVIOUS
    <2>2. Planned(savers[w], j, 0) = i * j + f
      BY <1>3, <2>1
    <2>3. PICK u \in Int : u = i * j /\ u >= 2 * r
      BY <1>9, <2>1
    <2>4. u + f \in Int /\ u + f >= x + r
      BY <1>5, <2>3
    <2> QED
      BY <2>1, <2>2, <2>3, <2>4
  <1>11. ~(Planned(savers[w], k - 1, 0) < x + r)
    BY <1>10
  <1> QED
    <2>1. savers \notin Rounded /\ ~target[w].written /\ state[w].saved >= 2 =>
            Planned(savers[w], state[w].saved - 1, 0)
              < savers[w].target.time + savers[w].target.radius
      BY <1>1, <1>2 DEF TargetOK
    <2>2. savers[w].target.time = x /\ savers[w].target.radius = r
      BY <1>3
    <2> QED
      BY <1>1, <1>6, <1>9, <1>11, <2>1, <2>2

\* What a target remembers of its average is what has become of it.
LEMMA AverageWritten ==
  ASSUME IInv
  PROVE  AverageOnce
  <1>1. ASSUME NEW w \in Writers, savers[w].target.kind = "average"
        PROVE  /\ files[w] = IF target[w].written THEN <<savers[w].target.time>> ELSE << >>
               /\ target[w].written => target[w].weight > 0
    BY <1>1 DEF IInv, TargetOK
  <1>2. \A w \in Writers : <<savers[w].target.time>> # << >>
    OBVIOUS
  <1> QED
    BY <1>1, <1>2, AverageTaken DEF AverageOnce

\* A simulator with a saver that divides the end time ends there.
LEMMA AtItsEnd ==
  ASSUME IInv
  PROVE  EndsExactly
  <1>1. SUFFICES ASSUME AtEnd, savers \notin Rounded, NEW w \in Writers,
                        savers[w].kind = "fixed", savers[w].start = 0,
                        EndTime % savers[w].interval = 0
        PROVE  time = EndTime
    BY DEF EndsExactly
  <1>2. EndOK(w) /\ time \in Nat /\ EndTime \in Nat
    BY TimesAssumption DEF IInv, Setting
  <1> QED
    BY <1>1, <1>2 DEF EndOK, AtEnd

-----------------------------------------------------------------------------
(* The weights of integrals.                                                *)

\* After the first call inside its ball, which takes all the time since zero, a
\* functional with snapshots has the last time as its weight, up to the ball's end.
SnapshotWeights(w) ==
  LET g == savers[w].target
      k == state[w].saved
  IN  /\ k >= 1
      /\ target[w].last = IF k = 1 THEN 0 ELSE Planned(savers[w], k - 1, 0)
      /\ target[w].weight = IF target[w].last <= g.time + g.radius THEN target[w].last
                            ELSE g.time + g.radius

\* Without snapshots it has what has passed of the ball, up to the step that led
\* into it and the one that led out.
StepWeights(w) ==
  LET g  == savers[w].target
      lo == g.time - g.radius
      hi == g.time + g.radius
  IN  phase # "built" =>
        /\ target[w].last = time
        /\ time < lo => target[w].weight = 0
        /\ lo <= time /\ time <= hi =>
             /\ target[w].weight >= time - lo
             /\ \/ target[w].weight = time - lo
                \/ \E step \in StepSizes : target[w].weight - (time - lo) <= step
        /\ hi < time => \E step \in StepSizes : Distance(target[w].weight, 2 * g.radius) <= step

WeightOK(w) ==
  LET g == savers[w].target
  IN  savers \notin Rounded /\ g.kind = "functional" /\ g.radius <= g.time =>
        IF savers[w].kind = "fixed" THEN SnapshotWeights(w) ELSE StepWeights(w)

WeightInv ==
  /\ IInv
  /\ phase = "built" => \A w \in Writers : target[w] = Empty
  /\ time > 0 => StepSizes # {}
  /\ \A w \in Writers : WeightOK(w)

\* A weight grows by the time since the last call, inside the ball.
LEMMA WeightAdded ==
  ASSUME NEW g, g.kind = "functional", NEW x \in Nat, NEW r \in Nat, g.time = x, g.radius = r,
         NEW m, NEW t \in Nat
  PROVE  /\ Added(g, m, t).last = t
         /\ Added(g, m, t).weight
              = m.weight + (IF x - r <= t /\ t <= x + r THEN t - m.last ELSE 0)
  <1>1. Inside(g, t) <=> x - r <= t /\ t <= x + r
    BY DEF Inside, Distance
  <1>2. Added(g, m, t).last = t
    BY DEF Added
  <1>3. Added(g, m, t).weight = m.weight + (IF Inside(g, t) THEN t - m.last ELSE 0)
    BY DEF Added
  <1> QED
    BY <1>1, <1>2, <1>3

\* A call of a functional with snapshots, at the time that it has planned.
LEMMA SnapshotCalled ==
  ASSUME NEW t, Calls(t), WeightInv, NEW w \in Writers, savers \notin Rounded,
         savers[w].kind = "fixed", savers[w].target.kind = "functional",
         savers[w].target.radius <= savers[w].target.time
  PROVE  SnapshotWeights(w)'
  <1>1. /\ Setting /\ CountersOK(w) /\ TargetOK(w) /\ t \in Nat /\ time \in Nat /\ time <= t
        /\ savers' = savers /\ time' = t
        /\ target'[w] = IF Due(w, t) THEN Added(savers[w].target, target[w], t) ELSE target[w]
    BY CallOf
  <1>2. PICK i, f, x, r, m \in Nat :
          /\ i = savers[w].interval /\ f = savers[w].start /\ i > 0 /\ m > 0
          /\ x = savers[w].target.time /\ r = savers[w].target.radius
          /\ f = (IF x > r THEN x - r ELSE 0) /\ i * m = r
          /\ \A k, n \in Int : Planned(savers[w], k, n) = i * k + f
    BY <1>1, BallNumbers
  <1>3. savers[w].kind # "none" /\ ~savers[w].initial /\ f + r = x
    <2>1. ~savers[w].initial
      BY <1>1, BallNumbers
    <2>2. r <= x
      BY <1>2
    <2> QED
      BY <1>2, <2>1, <2>2
  <1>4. PICK k \in Nat, n \in Int : k = state[w].saved /\ n = state[w].small
    BY <1>1, <1>3, CountersTyped
  <1>5. PICK last \in Nat, weight \in Nat : last = target[w].last /\ weight = target[w].weight
    BY <1>1 DEF TargetOK
  <1>6. PICK y \in Int, z \in Int : y = i * k /\ z = i * (k - 1) /\ y = z + i
    BY OneMore
  <1>7. /\ k >= 1 /\ last = (IF k = 1 THEN 0 ELSE z + f)
        /\ weight = (IF last <= x + r THEN last ELSE x + r)
    <2>1. SnapshotWeights(w)
      BY <1>2 DEF WeightInv, WeightOK
    <2>2. Planned(savers[w], k - 1, 0) = z + f
      <3>1. k - 1 \in Int /\ 0 \in Int
        OBVIOUS
      <3> QED
        BY <1>2, <1>6, <3>1
    <2> QED
      BY <1>2, <1>4, <1>5, <2>1, <2>2 DEF SnapshotWeights
  <1>8. CASE ~Due(w, t)
    <2>1. target'[w] = target[w]
      BY <1>1, <1>8
    <2>2. state'[w].saved = k
      <3>1. CASE phase = "built"
        <4>1. state[w] = Fresh(savers[w])
          BY <1>1, <3>1 DEF CountersOK
        <4>2. k = 1
          BY <1>3, <1>4, <4>1 DEF Fresh
        <4> QED
          BY <1>3, <3>1, <4>2, CountersFirst
      <3>2. CASE phase # "built"
        BY <1>3, <1>4, <1>8, <3>2, CountedLater
      <3> QED
        BY <3>1, <3>2
    <2>3. SnapshotWeights(w)
      BY <1>2 DEF WeightInv, WeightOK
    <2> QED
      BY <1>1, <1>4, <2>1, <2>2, <2>3 DEF SnapshotWeights, Planned
  <1>9. CASE Due(w, t)
    <2>1. phase # "built"
      BY <1>3, <1>9, CountersFirst
    <2>2. state'[w].saved = k + 1
      BY <1>3, <1>4, <1>9, <2>1, CountedLater
    <2>3. t = y + f
      <3>1. Unit = 0 /\ ErrorAt(w, k) = 0
        BY <1>1, ErrorSmall DEF Unit
      <3>2. NextSave(w) = Planned(savers[w], k, n) + ErrorAt(w, k)
        BY <1>1, <1>4, NextSaveNow
      <3>3. Planned(savers[w], k, n) = y + f
        BY <1>2, <1>6
      <3>4. t >= NextSave(w)
        BY <1>3, <1>9 DEF Due
      <3>5. t <= NextSave(w) + Unit
        BY <1>3, <2>1 DEF Calls
      <3> QED
        BY <1>1, <3>1, <3>2, <3>3, <3>4, <3>5
    <2>4. /\ target'[w].last = t
          /\ target'[w].weight
               = weight + (IF x - r <= t /\ t <= x + r THEN t - last ELSE 0)
      <3>1. target'[w] = Added(savers[w].target, target[w], t)
        BY <1>1, <1>9
      <3>2. /\ savers[w].target.kind = "functional"
            /\ savers[w].target.time = x /\ savers[w].target.radius = r
        BY <1>2
      <3>3. PICK g, b : g = savers[w].target /\ b = target[w]
        OBVIOUS
      <3>4. /\ Added(g, b, t).last = t
            /\ Added(g, b, t).weight
                 = b.weight + (IF x - r <= t /\ t <= x + r THEN t - b.last ELSE 0)
        BY <1>1, <3>2, <3>3, WeightAdded
      <3> QED
        BY <1>5, <3>1, <3>3, <3>4
    <2>5. t > x + r => last >= x + r
      <3>1. ASSUME t > x + r
            PROVE  z >= 2 * r /\ k >= 2
        <4>1. i * k > 2 * r
          BY <1>1, <1>3, <1>6, <2>3, <3>1
        <4> QED
          BY <1>2, <1>6, <4>1, MultipleBefore
      <3> QED
        BY <1>1, <1>3, <1>6, <1>7, <3>1
    <2>6. x - r <= t
      <3>1. y >= 0
        BY <1>2, <1>6, Z3
      <3> QED
        BY <1>1, <1>3, <1>6, <2>3, <3>1
    <2>7. target'[w].weight = IF t <= x + r THEN t ELSE x + r
      <3>1. CASE t <= x + r
        <4>1. last <= x + r
          <5>1. z <= y
            BY <1>2, <1>6
          <5>2. last <= t
            BY <1>1, <1>6, <1>7, <2>3, <5>1
          <5> QED
            BY <1>1, <3>1, <5>2
        <4> QED
          BY <1>1, <1>7, <2>4, <2>6, <3>1, <4>1
      <3>2. CASE t > x + r
        BY <1>1, <1>7, <2>4, <2>5, <3>2
      <3> QED
        BY <1>1, <3>1, <3>2
    <2>8. Planned(savers[w], (k + 1) - 1, 0) = t /\ k + 1 # 1 /\ k + 1 >= 1
      <3>1. (k + 1) - 1 = k /\ k \in Int /\ 0 \in Int /\ k + 1 # 1 /\ k + 1 >= 1
        BY <1>7
      <3>2. Planned(savers[w], k, 0) = y + f
        BY <1>2, <1>6, <3>1
      <3> QED
        BY <2>3, <3>1, <3>2
    <2>9. SnapshotWeights(w)' <=>
            /\ state'[w].saved >= 1
            /\ target'[w].last = IF state'[w].saved = 1 THEN 0
                                 ELSE Planned(savers[w], state'[w].saved - 1, 0)
            /\ target'[w].weight = IF target'[w].last <= x + r THEN target'[w].last ELSE x + r
      BY <1>1, <1>2 DEF SnapshotWeights, Planned
    <2> QED
      BY <2>2, <2>4, <2>7, <2>8, <2>9
  <1> QED
    BY <1>8, <1>9

\* A call of a functional without snapshots, which is one after each step.
LEMMA EachStepCalled ==
  ASSUME NEW t, Calls(t), WeightInv, NEW w \in Writers, savers \notin Rounded,
         savers[w].kind = "none", savers[w].target.kind = "functional",
         savers[w].target.radius <= savers[w].target.time,
         phase # "built" => \E cfl \in StepSizes : t - time <= cfl
  PROVE  StepWeights(w)'
  <1>1. /\ Setting /\ TargetOK(w) /\ t \in Nat /\ time \in Nat /\ time <= t
        /\ savers' = savers /\ time' = t /\ phase' = "running"
        /\ target'[w] = IF Due(w, t) THEN Added(savers[w].target, target[w], t) ELSE target[w]
        /\ phase = "built" => t = 0
        /\ phase # "built" => time < t
    BY CallOf
  <1>2. PICK x, r \in Nat : x = savers[w].target.time /\ r = savers[w].target.radius /\ r <= x
    <2>1. savers[w].target \in Target
      BY <1>1, SaversBuilt DEF SaverOK, Saver
    <2> QED
      BY <2>1 DEF Target
  <1>3. PICK last \in Nat, weight \in Nat : last = target[w].last /\ weight = target[w].weight
    BY <1>1 DEF TargetOK
  <1>4. PICK lo, hi \in Nat : lo = x - r /\ hi = x + r /\ lo <= hi /\ hi - lo = 2 * r
    BY <1>2
  <1>5. /\ target'[w].last = t
        /\ target'[w].weight = weight + (IF lo <= t /\ t <= hi THEN t - last ELSE 0)
    <2>1. target'[w] = Added(savers[w].target, target[w], t)
      BY <1>1 DEF Due
    <2>2. /\ savers[w].target.kind = "functional"
          /\ savers[w].target.time = x /\ savers[w].target.radius = r
      BY <1>2
    <2>3. PICK g, b : g = savers[w].target /\ b = target[w]
      OBVIOUS
    <2>4. /\ Added(g, b, t).last = t
          /\ Added(g, b, t).weight
               = b.weight + (IF x - r <= t /\ t <= x + r THEN t - b.last ELSE 0)
      BY <1>1, <2>2, <2>3, WeightAdded
    <2> QED
      BY <1>3, <1>4, <2>1, <2>3, <2>4
  <1>6. StepSizes \subseteq Nat
    BY TimesAssumption
  <1> DEFINE Covered(v, u) ==
        /\ u < lo => v = 0
        /\ lo <= u /\ u <= hi =>
             v >= u - lo /\ (v = u - lo \/ \E step \in StepSizes : v - (u - lo) <= step)
        /\ hi < u => \E step \in StepSizes : Distance(v, 2 * r) <= step
  <1>7. Covered(target'[w].weight, t)
    <2>1. CASE phase = "built"
      <3>1. target[w] = Empty /\ t = 0
        BY <1>1, <2>1 DEF WeightInv
      <3>2. last = 0 /\ weight = 0
        BY <1>3, <3>1 DEF Empty
      <3>3. target'[w].weight = 0
        BY <1>1, <1>5, <3>1, <3>2
      <3> QED
        BY <1>4, <3>1, <3>3
    <2>2. CASE phase # "built"
      <3>1. last = time /\ Covered(weight, time)
        <4>1. StepWeights(w)
          BY <1>2 DEF WeightInv, WeightOK
        <4> QED
          BY <1>2, <1>3, <1>4, <2>2, <4>1 DEF StepWeights
      <3>2. PICK cfl \in StepSizes : t - time <= cfl
        BY <2>2
      <3>3. PICK v \in Nat : v = target'[w].weight
        BY <1>1, <1>5, <3>1
      <3>4. v = weight + (IF lo <= t /\ t <= hi THEN t - time ELSE 0)
        BY <1>5, <3>1, <3>3
      <3>5. time < t /\ cfl \in Nat
        BY <1>1, <1>6, <2>2
      <3>6. ASSUME t < lo
            PROVE  v = 0
        BY <1>1, <3>1, <3>4, <3>5, <3>6
      <3>7. ASSUME lo <= t, t <= hi
            PROVE  v >= t - lo /\ (v = t - lo \/ \E step \in StepSizes : v - (t - lo) <= step)
        <4>1. v = weight + (t - time)
          BY <3>4, <3>7
        <4>2. CASE time < lo
          <5>1. weight = 0
            BY <3>1, <4>2
          <5>2. v >= t - lo /\ v - (t - lo) <= cfl
            BY <1>1, <3>2, <3>5, <3>7, <4>1, <4>2, <5>1
          <5> QED
            BY <5>2
        <4>3. CASE lo <= time
          <5>1. time <= hi
            BY <1>1, <3>5, <3>7
          <5>2. /\ weight >= time - lo
                /\ weight = time - lo \/ \E step \in StepSizes : weight - (time - lo) <= step
            BY <3>1, <4>3, <5>1
          <5>3. v - (t - lo) = weight - (time - lo)
            BY <1>1, <4>1
          <5> QED
            BY <1>1, <4>1, <5>2, <5>3
        <4> QED
          BY <1>1, <4>2, <4>3
      <3>8. ASSUME hi < t
            PROVE  \E step \in StepSizes : Distance(v, 2 * r) <= step
        <4>1. v = weight
          BY <1>1, <3>4, <3>8
        <4>2. CASE time < lo
          <5>1. v = 0
            BY <3>1, <4>1, <4>2
          <5>2. 2 * r <= cfl
            BY <1>1, <1>4, <3>2, <3>5, <3>8, <4>2
          <5> QED
            BY <5>1, <5>2 DEF Distance
        <4>3. CASE lo <= time /\ time <= hi
          <5>1. /\ weight >= time - lo
                /\ weight = time - lo \/ \E step \in StepSizes : weight - (time - lo) <= step
            BY <3>1, <4>3
          <5>2. 2 * r - v <= cfl
            BY <1>1, <1>4, <3>2, <3>5, <3>8, <4>1, <4>3, <5>1
          <5>3. CASE v <= 2 * r
            BY <5>2, <5>3 DEF Distance
          <5>4. CASE v > 2 * r
            <6>1. weight # time - lo
              BY <1>1, <1>4, <4>1, <4>3, <5>4
            <6>2. PICK step \in StepSizes : weight - (time - lo) <= step
              BY <5>1, <6>1
            <6>3. v - 2 * r <= step
              BY <1>1, <1>4, <1>6, <4>1, <4>3, <6>2
            <6>4. Distance(v, 2 * r) = v - 2 * r
              BY <5>4 DEF Distance
            <6> QED
              BY <6>3, <6>4
          <5> QED
            BY <5>3, <5>4
        <4>4. CASE hi < time
          BY <3>1, <4>1, <4>4
        <4> QED
          BY <1>1, <4>2, <4>3, <4>4
      <3> QED
        BY <3>3, <3>6, <3>7, <3>8
    <2> QED
      BY <2>1, <2>2
  <1>8. StepWeights(w)' <=> target'[w].last = t /\ Covered(target'[w].weight, t)
    BY <1>1, <1>2, <1>4 DEF StepWeights
  <1> QED
    BY <1>5, <1>7, <1>8

\* A step of the loop is no longer than the CFL condition's, in exact arithmetic.
LEMMA StepWithinCFL ==
  ASSUME IInv, PerformStep
  PROVE  /\ StepSizes # {}
         /\ savers \notin Rounded => \E cfl \in StepSizes : time' - time <= cfl
  <1>1. PICK cfl \in StepSizes, e \in Rounding :
          LET dt == Smallest({cfl} \cup UNION {Remaining(w) : w \in Writers})
          IN  time' = time + dt + e
    BY DEF PerformStep
  <1>2. PICK dt : dt = Smallest({cfl} \cup UNION {Remaining(w) : w \in Writers})
    OBVIOUS
  <1>3. phase = "running" /\ time \in Nat /\ cfl \in Nat
    BY TimesAssumption DEF PerformStep, IInv, Setting
  <1>4. dt \in Nat /\ dt <= cfl
    BY <1>2, <1>3, StepLength
  <1>5. savers \notin Rounded => e = 0
    BY DEF Rounding
  <1>6. time' = time + dt + e
    BY <1>1, <1>2
  <1>7. savers \notin Rounded => time' - time <= cfl
    BY <1>3, <1>4, <1>5, <1>6
  <1> QED
    BY <1>7

\* A call of the writers keeps what holds of the weights.
LEMMA WeightsCalled ==
  ASSUME NEW t, Calls(t), WeightInv,
         savers \notin Rounded /\ phase # "built" => \E cfl \in StepSizes : t - time <= cfl,
         t > 0 => StepSizes # {}
  PROVE  WeightInv'
  <1>1. IInv'
    BY CallKeeps
  <1>2. savers' = savers /\ phase' = "running" /\ time' = t /\ Setting
    BY DEF Calls, IInv
  <1>3. Writers' = Writers /\ Rounded' = Rounded
    BY <1>2 DEF Writers, Rounded
  <1>4. ASSUME NEW w \in Writers
        PROVE  WeightOK(w)'
    <2>1. SUFFICES ASSUME savers \notin Rounded, savers[w].target.kind = "functional",
                          savers[w].target.radius <= savers[w].target.time
          PROVE  (IF savers[w].kind = "fixed" THEN SnapshotWeights(w) ELSE StepWeights(w))'
      BY <1>2, <1>3 DEF WeightOK
    <2>2. savers[w].kind \in {"none", "fixed"}
      BY <1>2, <2>1, SaversBuilt DEF SaverOK, Spaced, Saver
    <2>3. CASE savers[w].kind = "fixed"
      BY <1>2, <2>1, <2>3, SnapshotCalled
    <2>4. CASE savers[w].kind = "none"
      BY <1>2, <2>1, <2>4, EachStepCalled
    <2> QED
      BY <2>2, <2>3, <2>4
  <1> QED
    BY <1>1, <1>2, <1>3, <1>4 DEF WeightInv

\* The weights are what the calls so far have made them.
LEMMA WeightsHold == Spec => []WeightInv
  <1>1. Init => WeightInv
    <2>1. SUFFICES ASSUME Init
          PROVE  WeightInv
      OBVIOUS
    <2>2. IInv /\ phase = "built" /\ time = 0 /\ \A w \in Writers : target[w] = Empty
      BY <2>1, InitHolds DEF Init
    <2>3. ASSUME NEW w \in Writers
          PROVE  WeightOK(w)
      <3>1. SUFFICES ASSUME savers[w].target.kind = "functional",
                            savers[w].target.radius <= savers[w].target.time,
                            savers[w].kind = "fixed"
            PROVE  SnapshotWeights(w)
        BY <2>2 DEF WeightOK, StepWeights
      <3>2. Setting /\ state[w] = Fresh(savers[w])
        BY <2>1, <2>2 DEF Init, IInv
      <3>3. ~savers[w].initial
        BY <3>1, <3>2, BallNumbers
      <3>4. PICK x, r \in Nat : x = savers[w].target.time /\ r = savers[w].target.radius
        BY <3>1, <3>2, BallNumbers
      <3>5. state[w].saved = 1 /\ target[w].last = 0 /\ target[w].weight = 0
        BY <2>2, <3>1, <3>2, <3>3 DEF Fresh, Empty
      <3> QED
        BY <3>4, <3>5 DEF SnapshotWeights
    <2> QED
      BY <2>2, <2>3 DEF WeightInv
  <1>2. WeightInv /\ [Next]_vars => WeightInv'
    <2>1. ASSUME WeightInv, Start
          PROVE  WeightInv'
      <3>1. Calls(0) /\ phase = "built"
        BY <2>1, StartCalls DEF WeightInv, Start
      <3> QED
        BY <2>1, <3>1, WeightsCalled
    <2>2. ASSUME WeightInv, PerformStep
          PROVE  WeightInv'
      <3>1. PICK t : Calls(t)
        BY <2>2, StepCalls DEF WeightInv
      <3>2. time' = t
        BY <3>1 DEF Calls
      <3>3. /\ StepSizes # {}
            /\ savers \notin Rounded => \E cfl \in StepSizes : t - time <= cfl
        BY <2>2, <3>2, StepWithinCFL DEF WeightInv
      <3> QED
        BY <2>2, <3>1, <3>3, WeightsCalled
    <2>3. ASSUME WeightInv, Finalize \/ UNCHANGED vars
          PROVE  WeightInv'
      <3>1. IInv'
        BY <2>3, FinalizeKeeps, StutterKeeps DEF WeightInv
      <3>2. /\ savers' = savers /\ time' = time /\ state' = state /\ target' = target
            /\ phase' = "built" => phase = "built"
            /\ phase' # "built" => phase # "built" \/ phase' = phase
        BY <2>3 DEF Finalize, vars
      <3>3. Writers' = Writers /\ Rounded' = Rounded
        BY <3>2 DEF Writers, Rounded
      <3>4. ASSUME NEW w \in Writers
            PROVE  WeightOK(w)'
        <4>1. WeightOK(w)
          BY <2>3 DEF WeightInv
        <4>2. SnapshotWeights(w)' <=> SnapshotWeights(w)
          BY <3>2 DEF SnapshotWeights, Planned
        <4>3. StepWeights(w) => StepWeights(w)'
          BY <3>2 DEF StepWeights
        <4> QED
          BY <3>2, <3>3, <4>1, <4>2, <4>3 DEF WeightOK
      <3> QED
        BY <2>3, <3>1, <3>2, <3>3, <3>4 DEF WeightInv
    <2> QED
      BY <2>1, <2>2, <2>3 DEF Next
  <1> QED
    BY <1>1, <1>2, PTL DEF Spec

\* When the end time has come, an integral at snapshots has taken all the time from zero to
\* the end of its ball.
LEMMA SnapshotsAtEnd ==
  ASSUME WeightInv, phase = "finalized", savers \notin Rounded, NEW w \in Writers,
         savers[w].kind = "fixed", savers[w].target.kind = "functional",
         savers[w].target.radius <= savers[w].target.time,
         savers[w].target.time + savers[w].target.radius <= EndTime
  PROVE  target[w].weight = savers[w].target.time + savers[w].target.radius
  <1>1. Setting /\ CountersOK(w) /\ TargetOK(w) /\ time \in Nat /\ AtEnd /\ EndTime \in Nat
    BY TimesAssumption DEF WeightInv, IInv, Setting
  <1>2. PICK i, f, x, r, m \in Nat :
          /\ i = savers[w].interval /\ f = savers[w].start /\ i > 0 /\ m > 0
          /\ x = savers[w].target.time /\ r = savers[w].target.radius
          /\ f = (IF x > r THEN x - r ELSE 0) /\ i * m = r
          /\ \A k, n \in Int : Planned(savers[w], k, n) = i * k + f
    BY <1>1, BallNumbers
  <1>3. savers[w].kind # "none" /\ f + r = x /\ x + r <= EndTime
    BY <1>2
  <1>4. PICK k \in Nat, n \in Int : k = state[w].saved /\ n = state[w].small
    BY <1>1, <1>3, CountersTyped
  <1>5. PICK y \in Int, z \in Int : y = i * k /\ z = i * (k - 1)
    BY OneMore
  <1>6. y > 2 * r
    <2>1. Unit = 0 /\ ErrorAt(w, k) = 0
      BY <1>1, ErrorSmall DEF Unit
    <2>2. NextSave(w) = Planned(savers[w], k, n) + ErrorAt(w, k)
      BY <1>1, <1>4, NextSaveNow
    <2>3. Planned(savers[w], k, n) = y + f
      BY <1>2, <1>5
    <2>4. time >= EndTime /\ NextSave(w) > time
      BY <1>1, <1>3 DEF AtEnd, CountersOK
    <2> QED
      BY <1>1, <1>3, <2>1, <2>2, <2>3, <2>4
  <1>7. k >= 2 /\ z >= 2 * r
    <2>1. i * k > 2 * r
      BY <1>5, <1>6
    <2> QED
      BY <1>2, <1>5, <2>1, MultipleBefore
  <1>8. target[w].last = z + f
    <2>1. SnapshotWeights(w)
      BY <1>2 DEF WeightInv, WeightOK
    <2>2. Planned(savers[w], k - 1, 0) = z + f
      <3>1. k - 1 \in Int /\ 0 \in Int
        OBVIOUS
      <3> QED
        BY <1>2, <1>5, <3>1
    <2> QED
      BY <1>4, <1>7, <2>1, <2>2 DEF SnapshotWeights
  <1>9. target[w].weight = IF z + f <= x + r THEN z + f ELSE x + r
    BY <1>2, <1>8 DEF WeightInv, WeightOK, SnapshotWeights
  <1>10. target[w].weight = x + r
    BY <1>3, <1>7, <1>9
  <1> QED
    BY <1>2, <1>10

\* One that is called after each step has the ball, up to a step.
LEMMA StepsAtEnd ==
  ASSUME WeightInv, phase = "finalized", savers \notin Rounded, NEW w \in Writers,
         savers[w].kind # "fixed", savers[w].target.kind = "functional",
         savers[w].target.radius <= savers[w].target.time,
         savers[w].target.time + savers[w].target.radius <= EndTime
  PROVE  \E step \in StepSizes : Distance(target[w].weight, 2 * savers[w].target.radius) <= step
  <1>1. Setting /\ TargetOK(w) /\ time \in Nat /\ AtEnd /\ EndTime \in Nat /\ EndTime > 0
    BY TimesAssumption DEF WeightInv, IInv, Setting
  <1>2. PICK x, r \in Nat : x = savers[w].target.time /\ r = savers[w].target.radius
    <2>1. savers[w].target \in Target
      BY <1>1, SaversBuilt DEF SaverOK, Saver
    <2> QED
      BY <2>1 DEF Target
  <1>3. r <= x /\ x + r <= time
    BY <1>1, <1>2 DEF AtEnd
  <1>4. StepWeights(w)
    BY DEF WeightInv, WeightOK
  <1>5. PICK some \in StepSizes : some \in Nat
    <2>1. time > 0
      BY <1>1 DEF AtEnd
    <2>2. StepSizes # {} /\ StepSizes \subseteq Nat
      BY <2>1, TimesAssumption DEF WeightInv
    <2> QED
      BY <2>2
  <1>6. PICK v \in Nat : v = target[w].weight
    BY <1>1 DEF TargetOK
  <1>7. CASE x + r < time
    BY <1>2, <1>4, <1>7 DEF StepWeights
  <1>8. CASE x + r = time
    <2>1. x - r <= time /\ time - (x - r) = 2 * r
      BY <1>3, <1>8
    <2>2. /\ v >= 2 * r
          /\ v = 2 * r \/ \E step \in StepSizes : v - 2 * r <= step
      <3>1. /\ v >= time - (x - r)
            /\ v = time - (x - r) \/ \E step \in StepSizes : v - (time - (x - r)) <= step
        BY <1>2, <1>4, <1>6, <1>8, <2>1 DEF StepWeights
      <3> QED
        BY <2>1, <3>1
    <2>3. Distance(v, 2 * r) = v - 2 * r
      BY <2>2 DEF Distance
    <2>4. CASE v = 2 * r
      BY <1>2, <1>5, <1>6, <2>3, <2>4
    <2>5. CASE v # 2 * r
      BY <1>2, <1>6, <2>2, <2>3, <2>5
    <2> QED
      BY <2>4, <2>5
  <1> QED
    BY <1>1, <1>2, <1>3, <1>7, <1>8

-----------------------------------------------------------------------------
(* The theorems.                                                            *)

\* The variables of the savers and of the loop are of their types, and no saver
\* counts further than MaxSaves.
THEOREM SaveTypes == Spec => []TypeOK
  BY Invariance, Typed, PTL

\* Each saver has saved at each of its times up to now, at that time and at no
\* other, for all configurations and all steps of the CFL condition
\* (FixedIntervalWriter.hpp:27, CoarseGrainingIntervalWriter.hpp:31).
THEOREM SavesInTime == Spec => []SavedOnTime
  BY Invariance, OnTime, PTL

\* Every step of the loop takes the time forward, however many savers cut it
\* (Integrator.cpp:57).
THEOREM LoopMovesForward == Spec => StepsForward
  <1>1. IInv /\ [Next]_vars => [phase = "running" /\ phase' = "running" => time' > time]_vars
    <2>1. SUFFICES ASSUME IInv, Next, phase = "running", phase' = "running"
          PROVE  time' > time
      OBVIOUS
    <2>2. PerformStep
      BY <2>1 DEF Next, Start, Finalize
    <2>3. PICK t : Calls(t)
      BY <2>1, <2>2, StepCalls
    <2>4. time' = t /\ t \in Nat /\ time < t /\ time \in Nat
      BY <2>1, <2>3 DEF Calls, IInv, Setting
    <2> QED
      BY <2>4
  <1> QED
    BY <1>1, Invariance, PTL DEF Spec, StepsForward

\* In exact arithmetic a saver whose interval divides the end time makes the
\* simulator end at that time (TimestepAdjuster.hpp:25).
THEOREM EndsAtEndTime == Spec => []EndsExactly
  BY Invariance, AtItsEnd, PTL

\* A time average is written once at most, and never before something has been
\* integrated; it is written if its ball begins at time zero or later and the
\* simulation has passed it, in exact arithmetic (TimeIntegratedWriter.cpp:54).
THEOREM AverageWrittenOnce == Spec => []AverageOnce
  BY Invariance, AverageWritten, PTL

\* In exact arithmetic the weights of an integral at snapshots add up to all the time
\* from zero to the end of its ball, wherever the ball begins: the first snapshot's
\* reaches back to zero (TimeIntegrationFunctional.cpp:41), which is right only for a
\* ball that begins there.
THEOREM SnapshotsCountFromZero ==
  Spec => [](phase = "finalized" /\ savers \notin Rounded =>
               \A w \in Writers :
                 LET g == savers[w].target
                 IN  /\ g.kind = "functional" /\ savers[w].kind = "fixed"
                     /\ g.radius <= g.time /\ g.time + g.radius <= EndTime
                     => target[w].weight = g.time + g.radius)
  <1>1. WeightInv =>
          (phase = "finalized" /\ savers \notin Rounded =>
             \A w \in Writers :
               LET g == savers[w].target
               IN  /\ g.kind = "functional" /\ savers[w].kind = "fixed"
                   /\ g.radius <= g.time /\ g.time + g.radius <= EndTime
                   => target[w].weight = g.time + g.radius)
    BY SnapshotsAtEnd
  <1> QED
    BY <1>1, WeightsHold, PTL

\* Integrals at snapshots are those whose balls begin at time zero.
BallsFromZero ==
  \A setup \in Setups : \A w \in 1 .. Len(setup) :
    setup[w].part = "functional" /\ Has(setup[w], "numberOfSnapshots")
      => setup[w].time <= setup[w].timeRadius

\* In exact arithmetic the weights of an integral add up to its ball, up to a step if it
\* is called after each step, for all other configurations than those whose snapshots lie
\* in a ball that begins later (TimeIntegrationFunctional.hpp:24).
THEOREM WeightsCover ==
  ASSUME BallsFromZero
  PROVE  Spec => []WeightsCoverBall
  <1>1. ASSUME WeightInv, savers \notin Rounded, NEW w \in Writers,
               savers[w].kind = "fixed", savers[w].target.kind = "functional"
        PROVE  savers[w].target.time <= savers[w].target.radius
    <2>1. PICK setup \in Setups : savers = SaversOf(setup)
      BY <1>1 DEF WeightInv, IInv, Setting, Rounded
    <2>2. Len(setup) \in Nat /\ DOMAIN savers = 1 .. Len(setup)
      BY <2>1, SetupsAssumption DEF SaversOf
    <2>3. w \in 1 .. Len(setup)
      <3>1. savers = [v \in 1 .. Len(setup) |-> savers[v]]
        BY <2>1, <2>2 DEF SaversOf
      <3>2. Len(savers) = Len(setup)
        BY <2>2, <3>1
      <3> QED
        BY <3>2 DEF Writers
    <2>4. PICK node : node = setup[w] /\ NodeAssumption(node)
      BY <2>3, SetupsAssumption
    <2>5. savers[w] = IF node.part = "writer" THEN createWriter(node) ELSE createFunctional(node)
      BY <2>1, <2>3, <2>4 DEF SaversOf
    <2>6. createWriter(node).target.kind # "functional"
      BY <2>4 DEF createWriter, Coarse, Fixed, Snapshots, EachStep, File, Ball, NodeAssumption
    <2>7. node.part = "functional" /\ savers[w] = createFunctional(node)
      BY <1>1, <2>4, <2>5, <2>6 DEF NodeAssumption
    <2>8. /\ Has(node, "time") /\ Has(node, "numberOfSnapshots")
          /\ savers[w] = Snapshots(Ball(node, "functional"), node.numberOfSnapshots)
      <3>1. EachStep(Ball(node, "functional")).kind = "none"
        BY DEF EachStep
      <3>2. Fixed(File, node.numberOfSaves, TRUE).target.kind = "file"
        BY DEF Fixed, EachStep, File
      <3> QED
        BY <1>1, <2>7, <3>1, <3>2 DEF createFunctional
    <2>9. savers[w].target.time = node.time /\ savers[w].target.radius = node.timeRadius
      BY <2>8 DEF Snapshots, EachStep, Ball
    <2> QED
      BY <2>3, <2>4, <2>7, <2>8, <2>9 DEF BallsFromZero
  <1>2. WeightInv => WeightsCoverBall
    <2>1. SUFFICES ASSUME WeightInv, phase = "finalized", savers \notin Rounded,
                          NEW w \in Writers, savers[w].target.kind = "functional",
                          savers[w].target.radius <= savers[w].target.time,
                          savers[w].target.time + savers[w].target.radius <= EndTime
          PROVE  IF savers[w].kind = "fixed"
                 THEN target[w].weight = 2 * savers[w].target.radius
                 ELSE \E step \in StepSizes :
                        Distance(target[w].weight, 2 * savers[w].target.radius) <= step
      BY DEF WeightsCoverBall
    <2>2. CASE savers[w].kind = "fixed"
      <3>1. PICK x, r \in Nat : x = savers[w].target.time /\ r = savers[w].target.radius
        BY <2>1, <2>2, BallNumbers DEF WeightInv, IInv
      <3>2. target[w].weight = x + r
        BY <2>1, <2>2, <3>1, SnapshotsAtEnd
      <3>3. x <= r /\ r <= x
        BY <1>1, <2>1, <2>2, <3>1
      <3> QED
        BY <2>2, <3>1, <3>2, <3>3
    <2>3. CASE savers[w].kind # "fixed"
      BY <2>1, <2>3, StepsAtEnd
    <2> QED
      BY <2>2, <2>3
  <1> QED
    BY <1>2, WeightsHold, PTL
=============================================================================
