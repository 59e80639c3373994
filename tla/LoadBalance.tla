---------------------------- MODULE LoadBalance ----------------------------
(***************************************************************************)
(* SimpleLoadBalancer::loadBalance: which processes compute which samples.  *)
(* The processes form MultiSample groups of MultiSpatial processes each; a  *)
(* group computes one sample at a time, every process of it a part of the   *)
(* grid.  A communicator is the set of its processes.                       *)
(***************************************************************************)
EXTENDS Integers

CONSTANTS
  MultiSample,      \* samples computed at a time
  MultiSpatial,     \* processes for each of them: the product of multiSpatial
  NumberOfSamples,
  SampleStart       \* the number of the first sample

ASSUME CountsAssumption ==
  /\ MultiSample \in Nat \ {0}
  /\ MultiSpatial \in Nat \ {0}
  /\ NumberOfSamples \in Nat \ {0}
  /\ SampleStart \in Nat
\* loadBalance throws otherwise.
ASSUME DivisorAssumption == NumberOfSamples % MultiSample = 0

Ranks   == 0 .. MultiSample * MultiSpatial - 1
Samples == SampleStart .. SampleStart + NumberOfSamples - 1

StatisticalRank(r) == r \div MultiSpatial
SpatialRank(r)     == r % MultiSpatial

\* The processes with the same part of the grid, and those of the same group.
Statistical(r) == {q \in Ranks : SpatialRank(q) = SpatialRank(r)}
Spatial(r)     == {q \in Ranks : StatisticalRank(q) = StatisticalRank(r)}

SamplesPerProcess == NumberOfSamples \div MultiSample

\* Fault: counted from the process, not from its group.
FromProcess(r, k) == SampleStart + SamplesPerProcess * (r % MultiSample) + k - 1

\* The k-th sample of process r.
SampleOf(r, k) == SampleStart + SamplesPerProcess * StatisticalRank(r) + k - 1
=============================================================================
