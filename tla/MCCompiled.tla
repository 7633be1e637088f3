----------------------------- MODULE MCCompiled -----------------------------
(* Values for Compiled: every kernel that loads a register and goes on with  *)
(* two instructions of an alphabet or three of a smaller one, and longer     *)
(* kernels with loops.  The graph has an empty row and a row of two.         *)
EXTENDS Compiled

E(s, d, w) == [src |-> s, dst |-> d, weight |-> w]
Hook == build(<<E(1, 1, 1), E(0, 1, 2)>>, 2)

I(op, rd, rs1, rs2, imm) == [op |-> op, rd |-> rd, rs1 |-> rs1, rs2 |-> rs2, imm |-> imm]

Core ==
  {I("NOP", 0, 0, 0, 0), I("JZ", 0, 1, 0, 1), I("JZ", 0, 1, 0, -2), I("STOREV", 0, 1, 0, 0),
   I("GATHER_MAX", 1, 0, 0, 0), I("SCATTER_IF", 0, 1, 0, 0), I("VOTE_CHANGE", 0, 0, 0, 0)}

Alphabet ==
  Core \cup {I("HALT", 0, 0, 0, 0), I("LOADV", 0, 0, 0, 2), I("CMPLTE", 1, 1, 1, 0)}

Short ==
  {<<I("LOADV", 1, 0, 0, 0)>> \o rest :
     rest \in UNION {[1 .. n -> Alphabet] : n \in 1 .. 2} \cup [1 .. 3 -> Core]}

(* The sum of attribute * value over the row, with a NOP at the end. *)
WeightedSum ==
  <<I("LOADI", 0, 0, 0, 0),
    I("ITER_NEIGHBORS", 0, 0, 0, 4),
    I("LOADV", 1, 0, 0, 1),
    I("ADD", 0, 0, 1, 0),
    I("JNZ", 0, 0, 0, 0),
    I("END_ITER", 0, 0, 0, -4),
    I("NOP", 0, 0, 0, 0),
    I("LOADE", 1, 0, 0, 0),
    I("MUL", 0, 0, 1, 0),
    I("STOREV", 0, 0, 0, 0)>>

(* The edges are counted by hand and by GATHER_COUNT, and compared. *)
Counted ==
  <<I("LOADI", 0, 0, 0, 0),
    I("LOADI", 1, 0, 0, 1),
    I("ITER_NEIGHBORS", 0, 0, 0, 2),
    I("ADD", 0, 0, 1, 0),
    I("END_ITER", 0, 0, 0, -2),
    I("GATHER_COUNT", 1, 0, 0, 0),
    I("CMPEQ", 1, 0, 1, 0),
    I("SCATTER_IF", 0, 1, 0, 0),
    I("GATHER_MIN", 0, 0, 0, 0),
    I("STOREV", 0, 0, 0, 0),
    I("HALT", 0, 0, 0, 0)>>

(* One loop after the other: the second END_ITER meets the iterator of the    *)
(* first loop when control skips its start.                                   *)
TwoLoops ==
  <<I("GATHER_SUM", 0, 0, 0, 0),
    I("ITER_NEIGHBORS", 0, 0, 0, 2),
    I("LOADV", 0, 0, 0, 1),
    I("END_ITER", 0, 0, 0, -2),
    I("JZ", 0, 0, 0, 1),
    I("ITER_NEIGHBORS", 0, 0, 0, 1),
    I("END_ITER", 0, 0, 0, -1),
    I("LOADV", 1, 0, 0, 3),
    I("MAX", 0, 0, 1, 0),
    I("STOREV", 0, 0, 0, 0)>>

MCGraphs    == {Hook}
MCPrograms  == {[code |-> c, constants |-> <<0, 1>>] :
                  c \in Short \cup {WeightedSum, Counted, TwoLoops}}
MCSeeds     == {-1, 2, NaN}
MCLeftovers == {2}
=============================================================================
