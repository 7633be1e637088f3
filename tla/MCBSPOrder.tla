----------------------------- MODULE MCBSPOrder -----------------------------
(* Values for BSPOrder: short kernels, so that the three threads interleave *)
(* at every instruction within a small state space.                         *)
EXTENDS BSPOrder

E(s, d, w) == [src |-> s, dst |-> d, weight |-> w]
Ring == build(<<E(0, 1, 1), E(1, 2, 1), E(2, 0, 1), E(0, 2, 2)>>, 3)

I(op, rd, rs1, rs2, imm) == [op |-> op, rd |-> rd, rs1 |-> rs1, rs2 |-> rs2, imm |-> imm]

Sum ==
  [code |-> <<I("GATHER_SUM", 0, 0, 0, 0),
              I("STOREV", 0, 0, 0, 0),
              I("SCATTER_IF", 0, 0, 0, 0),
              I("VOTE_CHANGE", 0, 0, 0, 0)>>,
   constants |-> <<>>]

Least ==
  [code |-> <<I("LOADV", 0, 0, 0, 0),
              I("GATHER_MIN", 1, 0, 0, 0),
              I("CMPLT", 0, 1, 0, 0),
              I("JZ", 0, 0, 0, 3),
              I("STOREV", 0, 1, 0, 0),
              I("SCATTER", 0, 0, 0, 0),
              I("VOTE_CHANGE", 0, 0, 0, 0)>>,
   constants |-> <<>>]

Last ==
  [code |-> <<I("ITER_NEIGHBORS", 0, 0, 0, 2),
              I("LOADV", 0, 0, 0, 1),
              I("END_ITER", 0, 0, 0, -2),
              I("STOREV", 0, 0, 0, 0),
              I("SCATTER", 0, 0, 0, 0)>>,
   constants |-> <<>>]

MCGraphs   == {Ring}
MCPrograms == {Sum, Least, Last}
MCSeeds    == {-1, 1}
=============================================================================
