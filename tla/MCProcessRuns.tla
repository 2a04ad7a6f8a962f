---------------------------- MODULE MCProcessRuns ----------------------------
(* Instances of ProcessRuns for TLC.                                           *)
EXTENDS ProcessRuns, TLC

CONSTANTS r1, r2, g1

OneRun  == {r1}
TwoRuns == {r1, r2}

RunSymmetry     == Permutations(Runs)
RequestSymmetry == Permutations(Requests)
=============================================================================
