----------------------------- MODULE MCDashboards -----------------------------
(* Instances of Dashboards for TLC.                                            *)
EXTENDS Dashboards, TLC

CONSTANTS a, b

Monitored == {[tables |-> <<a>>, interval |-> 1], [tables |-> <<b, a>>, interval |-> 2],
              [tables |-> <<>>, interval |-> 1]}
Symmetry  == Permutations(Clients)
=============================================================================
