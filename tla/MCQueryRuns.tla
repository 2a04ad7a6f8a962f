----------------------------- MODULE MCQueryRuns -----------------------------
(* Instances of QueryRuns for TLC.                                             *)
EXTENDS QueryRuns, TLC

CONSTANTS r1, r2, r3

TwoRuns   == {r1, r2}
ThreeRuns == {r1, r2, r3}

\* Runs are interchangeable: no action orders them.
Symmetry == Permutations(Runs)
=============================================================================
