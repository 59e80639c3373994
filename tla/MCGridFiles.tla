---------------------------- MODULE MCGridFiles ----------------------------
(* Small grids in one, two and three dimensions, with every split into up   *)
(* to three ranks in x and two in y and z, uneven ones included.            *)
EXTENDS GridFiles

SmallSplits == {<<x, y, z>> : x \in 1 .. 3, y \in 1 .. 2, z \in 1 .. 2}

SmallGrids ==
  [cells : {<<6, 1, 1>>, <<6, 2, 1>>, <<3, 4, 1>>, <<4, 4, 1>>, <<2, 2, 2>>, <<2, 2, 4>>, <<4, 2, 4>>},
   condition : {"periodic", "neumann"}]

OblongGrid == [cells : {<<4, 2, 1>>}, condition : {"neumann"}]
TwoRanks   == {<<2, 1, 1>>}
=============================================================================
