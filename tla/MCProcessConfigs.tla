--------------------------- MODULE MCProcessConfigs ---------------------------
(* Instances of ProcessConfigs for TLC.                                        *)
EXTENDS ProcessConfigs, TLC

Symmetry == Permutations(Requests)
=============================================================================
