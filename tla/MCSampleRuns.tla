---------------------------- MODULE MCSampleRuns ----------------------------
(* Two groups of two processes with two samples each; the groups' samples   *)
(* come to the save times in one step or in two.                            *)
EXTENDS SampleRuns

OneParameter == <<1>>
OneOrThree   == {1, 3}
=============================================================================
