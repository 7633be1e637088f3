------------------------------ MODULE BSPOrder ------------------------------
(***************************************************************************)
(* The order of execution does not affect the outcome of a superstep:      *)
(* BSP, with the start of the superstep remembered and the instructions of *)
(* each kernel counted, shown to implement Superstep.  A behaviour starts  *)
(* where run is called.                                                    *)
(***************************************************************************)
EXTENDS BSP

CONSTANTS
  Graphs, Programs,   \* what the host may have loaded
  Seeds               \* the values it may have seeded a vertex with

ASSUME OrderAssumption ==
  /\ \A g \in Graphs : IsGraph(g)
  /\ \A p \in Programs : IsProgram(p)
  /\ Seeds \subseteq Double
  /\ UpdatesMod \in Nat \ {0, 1}

VARIABLES
  val0, out0, votes0,   \* val, out and votes when the superstep started
  executed              \* the instructions each kernel has executed in it

orderVars == <<vars, val0, out0, votes0, executed>>

InitOrder ==
  /\ graph \in Graphs /\ program \in Programs
  /\ val \in [Vertices(graph) -> Seeds]
  /\ out \in {val, [v \in Vertices(graph) |-> 0]}
  /\ front \in SUBSET Vertices(graph)
  /\ votes \in {0, 1}
  /\ marks = {} /\ done = {} /\ threads = [v \in {} |-> 0] /\ inRun = TRUE
  /\ val0 = val /\ out0 = out /\ votes0 = votes
  /\ executed = [v \in Vertices(graph) |-> 0]

Working ==
  /\ \E v \in front :
       \/ (Begin(v) \/ Finish(v)) /\ UNCHANGED executed
       \/ Instr(v) /\ executed' = [executed EXCEPT ![v] = @ + 1]
  /\ UNCHANGED <<val0, out0, votes0>>

Passing ==
  /\ Barrier
  /\ val0' = val' /\ out0' = out' /\ votes0' = votes'
  /\ executed' = [v \in Vertices(graph) |-> 0]

SpecOrder == InitOrder /\ [][Working \/ Passing]_orderVars

-----------------------------------------------------------------------------
(* Two interleavings of the kernels of a superstep commit the same values,   *)
(* activate the same vertices and decide the same way whether to go on       *)
(* (execution.md, "Order of execution does not affect outcome").             *)
S == INSTANCE Superstep WITH out <- out0, votes <- votes0
OrderDoesNotMatter == S!Spec

(* A kernel in progress stands where it would if no other ran: its registers, *)
(* its iterator, its next value and its pc are those of a kernel that takes   *)
(* as many turns alone, on the values of all vertices as they were when the   *)
(* superstep started, however many others have stored theirs meanwhile        *)
(* (runtime.md, section 11: "No inter-thread visibility of partial updates"). *)
Isolated ==
  \A v \in DOMAIN threads :
    LET alone == S!After(graph, program, val0, out0, v)[executed[v]]
    IN  threads[v] = [ctx |-> alone.ctx, pc |-> alone.pc]
=============================================================================
