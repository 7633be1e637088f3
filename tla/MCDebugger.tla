----------------------------- MODULE MCDebugger -----------------------------
(* Values for Debugger: a kernel that marks and votes, and one that computes *)
(* in a register. A breakpoint can be set at pc 2, before the first vote.    *)
EXTENDS Debugger

E(s, d) == [src |-> s, dst |-> d, weight |-> 1]
Pair  == build(<<E(0, 1), E(1, 0), E(1, 1)>>, 2)

I(op, rd, rs1, rs2, imm) == [op |-> op, rd |-> rd, rs1 |-> rs1, rs2 |-> rs2, imm |-> imm]

Announce ==
  [code |-> <<I("SCATTER", 0, 0, 0, 0),
              I("LOADV", 0, 0, 0, 0),
              I("VOTE_CHANGE", 0, 0, 0, 0),
              I("VOTE_CHANGE", 0, 0, 0, 0),
              I("HALT", 0, 0, 0, 0)>>,
   constants |-> <<>>]

Double2 ==
  [code |-> <<I("LOADV", 0, 0, 0, 0),
              I("ADD", 0, 0, 0, 0),
              I("STOREV", 0, 0, 0, 0),
              I("HALT", 0, 0, 0, 0)>>,
   constants |-> <<>>]

MCGraphs   == {Pair}
MCPrograms == {Announce, Double2}
MCSeeds    == {1}
MCBreaks   == {2}
=============================================================================
