---------------------------- MODULE MCGraphBuild ----------------------------
(* Values for GraphBuild: files of up to three lines over three vertices. *)
EXTENDS GraphBuild

MCIds      == 0 .. 2
MCWeights  == {1}
MCLeftover == {2, NaN}
=============================================================================
