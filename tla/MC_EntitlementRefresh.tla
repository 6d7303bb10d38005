----------------------- MODULE MC_EntitlementRefresh -----------------------
(***************************************************************************)
(* Instances of EntitlementRefresh for TLC.                                *)
(***************************************************************************)
EXTENDS EntitlementRefresh, TLC

CONSTANTS w1, w2, w3, s1, s2

MCWorkers == {w1, w2}
MCWorker == {w1}
MCThree == {w1, w2, w3}
MCSessions == {s1, s2}
MCNonces == 1..3

MCManyNonces == 1..6

Symmetric == Permutations(MCThree)

=============================================================================
