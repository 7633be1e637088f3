----------------------------- MODULE MCSession -----------------------------
(* Values for ShellRuns.  The kernels write the next value of their vertex in *)
(* every superstep, and a vertex that votes activates another, so that no run *)
(* ends with votes left over.                                                 *)
EXTENDS ShellRuns

E(s, d, w) == [src |-> s, dst |-> d, weight |-> w]
Loop == build(<<E(1, 0, 1), E(0, 1, 2), E(0, 0, 1)>>, 2)
Ring == build(<<E(0, 1, 1), E(1, 2, 1), E(2, 0, 1)>>, 3)
Pair == build(<<E(0, 1, 1), E(1, 0, 1)>>, 2)

I(op, rd, rs1, rs2, imm) == [op |-> op, rd |-> rd, rs1 |-> rs1, rs2 |-> rs2, imm |-> imm]

(* The sum of attribute * value over the incoming edges. *)
WeightedSum ==
  <<I("LOADI", 0, 0, 0, 0),
    I("ITER_NEIGHBORS", 0, 0, 0, 5),
    I("LOADV", 1, 0, 0, 1),
    I("LOADE", 2, 0, 0, 0),
    I("MUL", 1, 1, 2, 0),
    I("ADD", 0, 0, 1, 0),
    I("END_ITER", 0, 0, 0, -5),
    I("STOREV", 0, 0, 0, 0),
    I("LOADV", 1, 0, 0, 0),
    I("CMPLTE", 1, 0, 1, 0),
    I("JNZ", 0, 1, 0, 2),
    I("SCATTER", 0, 0, 0, 0),
    I("VOTE_CHANGE", 0, 0, 0, 0),
    I("HALT", 0, 0, 0, 0)>>

(* The least value of the vertex and its in-neighbours; the branch goes past  *)
(* the last instruction.                                                      *)
MinLabel ==
  <<I("LOADV", 0, 0, 0, 0),
    I("GATHER_MIN", 1, 0, 0, 0),
    I("MIN", 1, 0, 1, 0),
    I("STOREV", 0, 1, 0, 0),
    I("CMPLT", 2, 1, 0, 0),
    I("JZ", 0, 2, 0, 2),
    I("SCATTER", 0, 0, 0, 0),
    I("VOTE_CHANGE", 0, 0, 0, 0)>>

(* The same, ended by a HALT the branch can go to. *)
MinLabelHalted == Append(MinLabel, I("HALT", 0, 0, 0, 0))

(* Every vertex activates its neighbours and none votes: one superstep. *)
Degrees ==
  <<I("LOADV", 0, 0, 0, 3),
    I("LOADG", 1, 0, 0, 0),
    I("SUB", 0, 0, 1, 0),
    I("STOREV", 0, 0, 0, 0),
    I("SCATTER", 0, 0, 0, 0)>>

MCGraphs   == {Loop, Pair, Ring}
Kernels    == {WeightedSum, MinLabel, MinLabelHalted, Degrees}
MCPrograms == {[code |-> c, constants |-> <<0>>] : c \in Kernels}

Seeded(v, value) == [x \in {v} |-> value]
MCConfigFiles ==
  {[jit |-> TRUE], [jit |-> FALSE],
   [default_seed |-> 2, seed_overrides |-> Seeded(1, 1), jit |-> TRUE],
   [default_seed |-> 2, seed_overrides |-> Seeded(1, 1)],
   [default_seed |-> 1, active_overrides |-> Seeded(0, FALSE), jit |-> TRUE]}
MCSeeds     == {0, 1, 2}
MCLeftovers == {2}
=============================================================================
