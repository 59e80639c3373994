---------------------------- MODULE MCSaveTimes ----------------------------
(* Configurations for SaveTimes, with an end time of 12 units.              *)
EXTENDS SaveTimes

Writer(saves, initial) ==
  [part |-> "writer", numberOfSaves |-> saves, writeInitialTimestep |-> initial]
CoarseWriter(saves, coarse, skips) ==
  [part |-> "writer", numberOfSaves |-> saves, numberOfCoarseSaves |-> coarse,
   numberOfSkips |-> skips]
Functional(saves) == [part |-> "functional", numberOfSaves |-> saves]

AtEachStep == [part |-> "writer"]
InBall(part, centre, r) == [part |-> part, time |-> centre, timeRadius |-> r]
OfBall(part, centre, r, snapshots) ==
  [part |-> part, time |-> centre, timeRadius |-> r, numberOfSnapshots |-> snapshots]

SaverSetups == {
  <<Writer(3, TRUE)>>,
  <<Writer(4, FALSE), Functional(3)>>,
  <<CoarseWriter(2, 1, 1), Functional(3)>>,
  <<CoarseWriter(1, 2, 0)>>,
  <<AtEachStep, InBall("functional", 6, 3)>>,
  <<InBall("writer", 6, 3), Functional(2)>>,
  <<OfBall("writer", 4, 4, 2), OfBall("functional", 4, 4, 2), Functional(2)>>,
  <<OfBall("writer", 6, 3, 1), Functional(3)>>}

RoundedFixedSetups == {
  <<Writer(2, TRUE)>>, <<Writer(3, FALSE)>>, <<Writer(2, FALSE), Functional(3)>>,
  <<OfBall("writer", 4, 4, 1), Functional(2)>>}

\* A ball that does not begin at time zero.
LaterBall == {<<Writer(3, TRUE), OfBall("functional", 6, 3, 1)>>}
=============================================================================
