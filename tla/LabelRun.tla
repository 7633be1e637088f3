------------------------------ MODULE LabelRun ------------------------------
(***************************************************************************)
(* One run of a label-propagation kernel from any labelling with every     *)
(* vertex active: whether the engine's frontier, double buffering and      *)
(* convergence test together compute a fixed point and stop.               *)
(***************************************************************************)
EXTENDS GCVM

VARIABLE label0   \* the labels the host seeded

(* The kernel takes the least of the vertex's own label and its in-neighbours'*)
(* and, if its label falls, votes and activates the out-neighbours.           *)
LabelKernel ==
  LET Inst(op, rd, rs1, rs2, imm) ==
        [op |-> op, rd |-> rd, rs1 |-> rs1, rs2 |-> rs2, imm |-> imm]
  IN  [code |-> <<Inst("LOADV", 0, 0, 0, 0),
                  Inst("ITER_NEIGHBORS", 0, 0, 0, 3),
                  Inst("LOADV", 1, 0, 0, 1),
                  Inst("MIN", 0, 0, 1, 0),
                  Inst("END_ITER", 0, 0, 0, -3),
                  Inst("STOREV", 0, 0, 0, 0),
                  Inst("LOADV", 1, 0, 0, 0),
                  Inst("CMPLT", 1, 0, 1, 0),
                  Inst("JZ", 0, 1, 0, 2),
                  Inst("SCATTER", 0, 0, 0, 0),
                  Inst("VOTE_CHANGE", 0, 0, 0, 0)>>,
       constants |-> <<>>]

(* The graphs have the same edges in both directions, which build makes so,   *)
(* and fewer vertices than the counter of votes can count.                    *)
ASSUME LabelAssumption ==
  /\ LabelKernel \in Programs /\ R_COUNT > 1
  /\ NaN \notin Seeds
  /\ \A g \in Graphs :
       /\ g.num_vertices < UpdatesMod
       /\ \A u, v \in Vertices(g) : v \in OutNeighbors(g, u) <=> u \in InNeighbors(g, v)

(* The machine when the host has loaded, seeded every vertex and called run. *)
InitLabels ==
  /\ graph \in Graphs /\ program = LabelKernel
  /\ v_self \in [V -> Seeds] /\ v_out = [v \in V |-> 0]
  /\ active = V /\ next_active = {}
  /\ updates = 0
  /\ phase = "scan" /\ cur = 0 /\ ctx = NoContext /\ pc = 0
  /\ label0 = v_self

SpecLabels ==
  InitLabels /\ [][RunStep /\ UNCHANGED label0]_<<vars, label0>> /\ WF_vars(RunStep)

-----------------------------------------------------------------------------
(* The vertices that reach v: those in every set that has v and, with each of *)
(* its vertices, the in-neighbours.                                           *)
Ancestors(v) ==
  {u \in V : \A C \in SUBSET V : v \in C /\ (\A w \in C : InNeighbors(graph, w) \subseteq C)
                                   => u \in C}

(* When run returns every vertex holds the least label among the vertices     *)
(* that reach it, although only the frontier is executed in each superstep,   *)
(* neighbours are read a superstep late and vertices off the frontier keep    *)
(* what the second buffer holds.                                              *)
LeastLabelReached ==
  phase = "idle" =>
    \A v \in V : /\ \A u \in Ancestors(v) : v_self[v] <= label0[u]
                 /\ \E u \in Ancestors(v) : v_self[v] = label0[u]
=============================================================================
