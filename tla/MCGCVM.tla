------------------------------- MODULE MCGCVM -------------------------------
(***************************************************************************)
(* Values of the constants of GCVM for model checking: small graphs built  *)
(* by Graph::build and kernels that between them use every class of        *)
(* instruction, both iteration and gathers, and the three ways a run ends. *)
(***************************************************************************)
EXTENDS GCVM

E(s, d, w) == [src |-> s, dst |-> d, weight |-> w]

(* Two edges into 1, one edge back, and a vertex 2 without in-edges. *)
Fork == build(<<E(2, 1, 2), E(0, 1, 1), E(1, 0, 1)>>, 3)

(* A self-loop and an edge out of it, with no edge attributes. *)
Loop ==
  LET g == build(<<E(1, 1, 0), E(1, 0, 0)>>, 2)
  IN  [g EXCEPT !.edge_attr = <<>>, !.incoming_edge_attr = <<>>]

(* A ring of three with a chord. *)
Ring == build(<<E(0, 1, 1), E(1, 2, 1), E(2, 0, 1), E(0, 2, 2)>>, 3)

I(op, rd, rs1, rs2, imm) == [op |-> op, rd |-> rd, rs1 |-> rs1, rs2 |-> rs2, imm |-> imm]

(* The sum of attribute * value over the incoming edges, by iteration;    *)
(* a vertex that changes votes and activates its out-neighbours.          *)
WeightedSum ==
  [code |-> <<I("ITER_NEIGHBORS", 0, 0, 0, 5),
              I("LOADV", 0, 0, 0, 1),
              I("LOADE", 1, 0, 0, 0),
              I("MUL", 0, 0, 1, 0),
              I("ADD", 2, 2, 0, 0),
              I("END_ITER", 0, 0, 0, -5),
              I("STOREV", 0, 2, 0, 0),
              I("LOADV", 0, 0, 0, 0),
              I("CMPNEQ", 1, 2, 0, 0),
              I("SCATTER_IF", 0, 1, 0, 0),
              I("JZ", 0, 1, 0, 1),
              I("VOTE_CHANGE", 0, 0, 0, 0),
              I("HALT", 0, 0, 0, 0)>>,
   constants |-> <<>>]

(* The least value of the vertex and its in-neighbours. *)
MinLabel ==
  [code |-> <<I("LOADV", 0, 0, 0, 0),
              I("GATHER_MIN", 1, 0, 0, 0),
              I("MIN", 1, 0, 1, 0),
              I("STOREV", 0, 1, 0, 0),
              I("CMPLT", 2, 1, 0, 0),
              I("JZ", 0, 2, 0, 2),
              I("SCATTER", 0, 0, 0, 0),
              I("VOTE_CHANGE", 0, 0, 0, 0)>>,
   constants |-> <<>>]

(* Degrees, the size of the graph and a constant; activates without voting. *)
Degrees ==
  [code |-> <<I("LOADV", 0, 0, 0, 2),
              I("LOADV", 1, 0, 0, 3),
              I("LOADG", 2, 0, 0, 0),
              I("DIV", 2, 2, 0, 0),
              I("SUB", 0, 0, 1, 0),
              I("ABS", 0, 0, 0, 0),
              I("UNKNOWN", 0, 0, 0, 0),
              I("LOADI", 1, 0, 0, 1),
              I("JNZ", 0, 0, 0, 1),
              I("STOREV", 0, 1, 0, 0),
              I("SCATTER", 0, 0, 0, 0)>>,
   constants |-> <<1, NaN>>]
=============================================================================
