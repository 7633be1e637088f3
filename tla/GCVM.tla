-------------------------------- MODULE GCVM --------------------------------
(***************************************************************************)
(* The runtime (class GCVM of graphcore.h and graphcore.cpp) running       *)
(* kernels with its interpreter: run(false) on a machine that has compiled *)
(* nothing.  The public methods are called between runs; a run scans the   *)
(* vertices, executes the kernel of each active one instruction by         *)
(* instruction, and ends every superstep with the barrier.                 *)
(***************************************************************************)
EXTENDS Kernel

CONSTANTS
  Graphs,      \* the graphs the host may load
  Programs,    \* the programs the host may load
  Seeds,       \* the values the host may seed a vertex with
  UpdatesMod   \* the counter of votes wraps here: 2^32 for the code's uint32_t

ASSUME GraphsAssumption   == \A g \in Graphs : IsGraph(g)
ASSUME ProgramsAssumption == \A p \in Programs : IsProgram(p)
ASSUME SeedsAssumption    == Seeds \subseteq Double
ASSUME UpdatesAssumption  == UpdatesMod \in Nat \ {0, 1}

VARIABLES
  graph,         \* Graph graph
  program,       \* Program program
  v_self,        \* vertices.v_self: the committed values
  v_out,         \* vertices.v_out: the values of the next superstep
  active,        \* the v with vertices.active[v] set
  next_active,   \* the v with vertices.next_active[v] set
  updates,       \* std::atomic<uint32_t> updates
  phase,         \* "idle" between calls, "scan" in run's loop over the
                 \* vertices, "kernel" in the kernel of one
  cur,           \* v, the loop variable of run
  ctx,           \* ctx, the local Context of run
  pc             \* pc, the local of execute_vertex

vars == <<graph, program, v_self, v_out, active, next_active, updates, phase, cur, ctx, pc>>

V == Vertices(graph)

(* The context before load_context has filled it; run does not read it. *)
NoContext ==
  [regs |-> [r \in Reg |-> 0], v_self |-> 0, v_out |-> 0, n_val |-> 0, in_deg |-> 0,
   out_deg |-> 0, g_size |-> 0, e_attr |-> 0, iter_edge |-> 0, iter_end |-> 0]

Init ==
  /\ graph = EmptyGraph /\ program = EmptyProgram
  /\ v_self = [v \in V |-> 0] /\ v_out = [v \in V |-> 0]
  /\ active = {} /\ next_active = {}
  /\ updates = 0
  /\ phase = "idle" /\ cur = 0 /\ ctx = NoContext /\ pc = 0

-----------------------------------------------------------------------------
(* The methods of the host. *)

(* Faulty variants of the definitions that follow them, which the properties  *)
(* below tell from the code.  This one keeps the active flags of the graph    *)
(* loaded before.                                                             *)
load_graph_KeepingActive(g) ==
  /\ phase = "idle"
  /\ graph' = g
  /\ next_active' = {}
  /\ v_self' = [v \in Vertices(g) |-> 0]
  /\ v_out' = [v \in Vertices(g) |-> 0]
  /\ UNCHANGED <<program, active, updates, phase, cur, ctx, pc>>

load_graph(g) ==
  /\ phase = "idle"
  /\ graph' = g
  /\ active' = {} /\ next_active' = {}
  /\ v_self' = [v \in Vertices(g) |-> 0]
  /\ v_out' = [v \in Vertices(g) |-> 0]
  /\ UNCHANGED <<program, updates, phase, cur, ctx, pc>>

load_program(p) ==
  /\ phase = "idle"
  /\ program' = p
  /\ UNCHANGED <<graph, v_self, v_out, active, next_active, updates, phase, cur, ctx, pc>>

set_active(v, on) ==
  /\ phase = "idle"
  /\ active' = IF on THEN active \cup {v} ELSE active \ {v}
  /\ UNCHANGED <<graph, program, v_self, v_out, next_active, updates, phase, cur, ctx, pc>>

set_seed_self(v, value) ==
  /\ phase = "idle"
  /\ v_self' = [v_self EXCEPT ![v] = value]
  /\ UNCHANGED <<graph, program, v_out, active, next_active, updates, phase, cur, ctx, pc>>

StartRun ==
  /\ phase = "idle"
  /\ phase' = "scan" /\ cur' = 0
  /\ UNCHANGED <<graph, program, v_self, v_out, active, next_active, updates, ctx, pc>>

Host ==
  \/ \E g \in Graphs : load_graph(g)
  \/ \E p \in Programs : load_program(p)
  \/ \E v \in V, on \in BOOLEAN : set_active(v, on)
  \/ \E v \in V, value \in Seeds : set_seed_self(v, value)
  \/ StartRun

-----------------------------------------------------------------------------
(* 1. Iterate active vertices. *)

(* Faulty: a skipped vertex has its value copied to the second buffer. *)
SkipInactive_Copying ==
  /\ phase = "scan" /\ cur \in V \ active
  /\ v_out' = [v_out EXCEPT ![cur] = v_self[cur]]
  /\ cur' = cur + 1
  /\ UNCHANGED <<graph, program, v_self, active, next_active, updates, phase, ctx, pc>>

SkipInactive ==
  /\ phase = "scan" /\ cur \in V \ active
  /\ cur' = cur + 1
  /\ UNCHANGED <<graph, program, v_self, v_out, active, next_active, updates, phase, ctx, pc>>

LoadContext ==
  /\ phase = "scan" /\ cur \in V \cap active
  /\ ctx' = load_context(graph, v_self, v_out, cur)
  /\ phase' = "kernel" /\ pc' = 0
  /\ UNCHANGED <<graph, program, v_self, v_out, active, next_active, updates, cur>>

(* One turn of the loop of execute_vertex on an instruction of a class. *)
Dispatch(ops) ==
  /\ phase = "kernel" /\ Running(program, pc)
  /\ Fetch(program, pc).op \in ops
  /\ LET turn == Execute(ctx, pc, graph, program, v_self, cur)
     IN  ctx' = turn.ctx /\ pc' = turn.pc
  /\ UNCHANGED <<graph, program, v_self, v_out, active, phase, cur>>

LocalStep ==
  /\ Dispatch(ControlOps \cup AluOps \cup MemoryOps \cup UnknownOps)
  /\ UNCHANGED <<next_active, updates>>

GraphStep ==
  /\ Dispatch(GraphOps)
  /\ next_active' = next_active \cup Scattered(Fetch(program, pc), ctx, graph, cur)
  /\ UNCHANGED updates

SystemStep ==
  /\ Dispatch(SystemOps)
  /\ updates' = (updates + Votes(Fetch(program, pc))) % UpdatesMod
  /\ UNCHANGED next_active

(* Faulty: the new value is committed in place. *)
StoreContext_InPlace ==
  /\ phase = "kernel" /\ ~Running(program, pc)
  /\ v_self' = [v_self EXCEPT ![cur] = ctx.v_out]
  /\ v_out'  = [v_out  EXCEPT ![cur] = ctx.v_out]
  /\ phase' = "scan" /\ cur' = cur + 1
  /\ ctx' = NoContext /\ pc' = 0
  /\ UNCHANGED <<graph, program, active, next_active, updates>>

StoreContext ==
  /\ phase = "kernel" /\ ~Running(program, pc)
  /\ v_self' = [v_self EXCEPT ![cur] = ctx.v_self]
  /\ v_out'  = [v_out  EXCEPT ![cur] = ctx.v_out]
  /\ phase' = "scan" /\ cur' = cur + 1
  /\ ctx' = NoContext /\ pc' = 0
  /\ UNCHANGED <<graph, program, active, next_active, updates>>

-----------------------------------------------------------------------------
(* The end of a superstep, when every vertex has been scanned. *)

(* Faulty: the marks are not cleared; the vertices that were active stay so;  *)
(* the two buffers of values are swapped where one is copied.                 *)
Commit_KeepingMarks ==
  /\ phase = "scan" /\ cur = graph.num_vertices
  /\ v_self' = v_out
  /\ active' = next_active
  /\ cur' = 0
  /\ UNCHANGED <<graph, program, v_out, next_active, ctx, pc>>

Commit_KeepingActive ==
  /\ phase = "scan" /\ cur = graph.num_vertices
  /\ v_self' = v_out
  /\ active' = active \cup next_active /\ next_active' = {}
  /\ cur' = 0
  /\ UNCHANGED <<graph, program, v_out, ctx, pc>>

Commit_Swapping ==
  /\ phase = "scan" /\ cur = graph.num_vertices
  /\ v_self' = v_out /\ v_out' = v_self
  /\ active' = next_active /\ next_active' = {}
  /\ cur' = 0
  /\ UNCHANGED <<graph, program, ctx, pc>>

(* 3. Apply phase, and 4. update_active_vertices. *)
Commit ==
  /\ phase = "scan" /\ cur = graph.num_vertices
  /\ v_self' = v_out
  /\ active' = next_active /\ next_active' = {}
  /\ cur' = 0
  /\ UNCHANGED <<graph, program, v_out, ctx, pc>>

(* No vertex was activated: the loop breaks before the convergence check. *)
StopInactive ==
  /\ Commit
  /\ next_active = {}
  /\ phase' = "idle"
  /\ UNCHANGED updates

(* 5. check_convergence reads and resets the counter. *)
StopConverged ==
  /\ Commit
  /\ next_active # {} /\ updates = 0
  /\ phase' = "idle" /\ updates' = 0

(* Faulty: the counter is read but not reset. *)
NextSuperstep_KeepingVotes ==
  /\ Commit
  /\ next_active # {} /\ updates # 0
  /\ phase' = "scan" /\ UNCHANGED updates

NextSuperstep ==
  /\ Commit
  /\ next_active # {} /\ updates # 0
  /\ phase' = "scan" /\ updates' = 0

Barrier == StopInactive \/ StopConverged \/ NextSuperstep

RunStep ==
  \/ SkipInactive \/ LoadContext
  \/ LocalStep \/ GraphStep \/ SystemStep
  \/ StoreContext
  \/ Barrier

Next == Host \/ RunStep

Spec == Init /\ [][Next]_vars

(* run is sequential code: once called it keeps taking steps. *)
FairSpec == Spec /\ WF_vars(RunStep)

-----------------------------------------------------------------------------
TypeOK ==
  /\ graph \in Graphs \cup {EmptyGraph}
  /\ program \in Programs \cup {EmptyProgram}
  /\ v_self \in [V -> Double] /\ v_out \in [V -> Double]
  /\ active \subseteq V /\ next_active \subseteq V
  /\ updates \in 0 .. UpdatesMod - 1
  /\ phase \in {"idle", "scan", "kernel"}
  /\ cur \in 0 .. graph.num_vertices
  /\ ctx \in Context /\ pc \in Int

(* Superstep consistency, "All reads observe state from previous superstep":  *)
(* the values every vertex reads change only where the host seeds or loads    *)
(* them and at the barrier, although each kernel writes its whole context,    *)
(* v_self included, back to the arrays others are still to read.              *)
ReadsPreviousSuperstep ==
  [][phase # "idle" /\ v_self' # v_self
       => cur = graph.num_vertices /\ v_self' = v_out]_vars

(* What the kernel sees of the arrays is current while it runs: its own value,*)
(* and during an iteration the value and the attribute of the edge under the  *)
(* iterator, an incoming edge of its own row.  The copies are taken when the  *)
(* iterator moves and read by later instructions.                             *)
IteratorCurrent ==
  phase = "kernel" =>
    /\ cur \in V /\ ctx.v_self = v_self[cur]
    /\ ctx.iter_edge < ctx.iter_end =>
         LET e == ctx.iter_edge
         IN  /\ e \in InEdges(graph, cur)
             /\ ctx.iter_end = graph.incoming_row_offsets[cur + 1]
             /\ ctx.n_val = v_self[graph.incoming_col_indices[e]]
             /\ DOMAIN graph.incoming_edge_attr # {}
                  => ctx.e_attr = graph.incoming_edge_attr[e]

(* No activation outlives a run: whichever way the loop of run was left,      *)
(* every mark of SCATTER has been moved to the active set.                    *)
NoMarkOutlivesRun == phase = "idle" => next_active = {}

(* A superstep writes the next value of a vertex only in the kernel of that   *)
(* vertex, and only if it is active.                                          *)
WritesAreLocal ==
  [][phase # "idle" =>
       \A v \in V : v_out'[v] # v_out[v] => v = cur /\ v \in active]_vars

(* A call of run returns. *)
RunReturns == phase # "idle" ~> phase = "idle"

(* The threads of BSP are at most the one kernel in progress, and the active  *)
(* vertices already scanned are done.                                         *)
B == INSTANCE BSP WITH
       val <- v_self, out <- v_out, front <- active, marks <- next_active,
       votes <- updates, inRun <- phase # "idle",
       done <- {v \in active : v < cur},
       threads <- [v \in (IF phase = "kernel" THEN {cur} ELSE {}) |-> [ctx |-> ctx, pc |-> pc]]

(* The sequential run over shared arrays is the parallel-for over isolated    *)
(* kernels of runtime.md, section 7.                                          *)
ImplementsBSP == B!Spec
=============================================================================
