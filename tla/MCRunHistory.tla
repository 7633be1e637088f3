---------------------------- MODULE MCRunHistory ----------------------------
(* GCVM with its history, under a host that loads, seeds and runs in any     *)
(* order, with the graphs and kernels of MCGCVM: WeightedSum stops with no   *)
(* active vertex after it has voted, Degrees activates without voting.       *)
EXTENDS MCGCVM, RunHistory

MCGraphs   == {Fork, Loop}
MCPrograms == {WeightedSum, MinLabel, Degrees}
MCSeeds    == {1, 2}
=============================================================================
