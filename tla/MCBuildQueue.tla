---------------------------- MODULE MCBuildQueue ----------------------------
(* Small instances of BuildQueue: jobs with distinct IDs.                   *)
EXTENDS BuildQueue
CONSTANTS j1, j2, j3
TwoJobs == {j1, j2}
ThreeJobs == {j1, j2, j3}
MCJobID == [j \in Jobs |-> j]
=============================================================================
