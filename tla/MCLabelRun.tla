----------------------------- MODULE MCLabelRun -----------------------------
(* LabelRun on graphs with a source, a sink, a cycle and a diamond. *)
EXTENDS LabelRun

E(s, d) == [src |-> s, dst |-> d, weight |-> 1]

Chain   == build(<<E(0, 1), E(1, 2), E(2, 1), E(2, 3)>>, 4)
Cycle   == build(<<E(3, 2), E(2, 1), E(1, 0), E(0, 3)>>, 4)
Diamond == build(<<E(0, 1), E(0, 2), E(2, 3), E(1, 3), E(1, 2)>>, 4)

MCGraphs   == {Chain, Cycle, Diamond}
MCPrograms == {LabelKernel}
MCSeeds    == {-1, 1, 2}
=============================================================================
