--------------------------- MODULE MCFluxRegions ---------------------------
(* Instances of FluxRegions: all schemes that the factories build, on       *)
(* blocks of three dimensions; and the diffusion of second order in a       *)
(* plane.                                                                   *)
EXTENDS FluxRegions

\* Every scheme, its diffusion none, or of order one or four.
SpaceSchemes == {s \in Built : s.diffusion \in {0, 1, 4}}

\* Sizes from one cell to more than two ghost widths, in one direction or all.
SpaceSizes == {<<1, 2, 3>>, <<4, 4, 5>>, <<7, 5, 5>>, <<9, 9, 9>>}

PlaneSchemes == {s \in Built : s.half = 2 /\ s.diffusion = 2}
PlaneSizes   == {n \in [1 .. 2 -> {3}] : TRUE}
=============================================================================
