----------------------------- MODULE GCVMProofs -----------------------------
(***************************************************************************)
(* Theorems about the runtime, for all graphs, programs and seeds: its     *)
(* types, the currency of what a kernel has read, superstep consistency,   *)
(* the decisions at the barrier, and the implementation of BSP.            *)
(***************************************************************************)
EXTENDS RunHistory, KernelProofs

-----------------------------------------------------------------------------
(* The inductive invariant.  TypeOK alone is not inductive: StoreContext     *)
(* and the copies of the iterator need to know what the context was loaded   *)
(* from, and that depends on where in run the machine is.                    *)
KernelInv ==
  phase = "kernel" =>
    /\ cur \in V /\ cur \in active
    /\ ctx.v_self = v_self[cur]
    /\ IteratorAt(ctx, graph, v_self, cur)

IdleInv == phase = "idle" => cur = 0 /\ next_active = {}

IInv == TypeOK /\ KernelInv /\ IdleInv

(* The part that does not depend on how the marks came about. *)
AtRest   == phase = "idle" => cur = 0
StateInv == TypeOK /\ KernelInv /\ AtRest

LEMMA LoadedGraph ==
  ASSUME TypeOK
  PROVE  /\ graph.num_vertices \in Nat /\ V \subseteq Nat
         /\ \A v \in V : IsGraph(graph)
<1>1. CASE graph \in Graphs
  <2>1. IsGraph(graph)
    BY <1>1, GraphsAssumption
  <2> QED
    BY <2>1 DEF IsGraph, V, Vertices
<1>2. CASE graph = EmptyGraph
  <2>1. graph.num_vertices = 0
    BY <1>2 DEF EmptyGraph
  <2> QED
    BY <2>1 DEF V, Vertices
<1> QED
  BY <1>1, <1>2 DEF TypeOK

LEMMA LoadedProgram ==
  ASSUME TypeOK
  PROVE  IsProgram(program)
<1>1. IsProgram(EmptyProgram)
  BY DEF IsProgram, EmptyProgram
<1> QED
  BY <1>1, ProgramsAssumption DEF TypeOK

LEMMA NoContextType == NoContext \in Context
<1>1. [r \in Reg |-> 0] \in [Reg -> Double]
  BY SmallType
<1> QED
  BY <1>1, SmallType DEF NoContext, Context

LEMMA ZeroVector ==
  ASSUME NEW S
  PROVE  [v \in S |-> 0] \in [S -> Double]
BY SmallType

LEMMA InitInv == Init => IInv
<1> SUFFICES ASSUME Init PROVE IInv
  OBVIOUS
<1>1. v_self \in [V -> Double] /\ v_out \in [V -> Double]
  BY ZeroVector DEF Init
<1>2. 0 \in 0 .. graph.num_vertices
  BY DEF Init, EmptyGraph
<1>3. TypeOK
  BY <1>1, <1>2, NoContextType, UpdatesAssumption DEF Init, TypeOK
<1> QED
  BY <1>3 DEF Init, IInv, KernelInv, IdleInv

(* The methods of the host keep the invariant: they are called between runs. *)
LEMMA HostKeeps == StateInv /\ Host => StateInv'
<1> SUFFICES ASSUME StateInv, Host PROVE StateInv'
  OBVIOUS
<1> USE DEF StateInv
<1>1. phase = "idle" /\ cur = 0
  BY DEF Host, load_graph, load_program, set_active, set_seed_self, StartRun, AtRest
<1>2. CASE \E g \in Graphs : load_graph(g)
  <2>1. PICK g \in Graphs : load_graph(g)
    BY <1>2
  <2>2. graph' = g /\ V' = Vertices(g) /\ 0 \in 0 .. g.num_vertices
    BY <2>1, GraphsAssumption DEF load_graph, V, IsGraph
  <2>3. v_self' \in [V' -> Double] /\ v_out' \in [V' -> Double]
    BY <2>1, <2>2, ZeroVector DEF load_graph
  <2>4. TypeOK'
    BY <2>1, <2>2, <2>3, <1>1 DEF load_graph, TypeOK
  <2> QED
    BY <2>1, <2>4, <1>1 DEF load_graph, KernelInv, AtRest
<1>3. CASE \E p \in Programs : load_program(p)
  BY <1>1, <1>3 DEF load_program, TypeOK, KernelInv, AtRest, V
<1>4. CASE \E v \in V, on \in BOOLEAN : set_active(v, on)
  BY <1>1, <1>4 DEF set_active, TypeOK, KernelInv, AtRest, V
<1>5. CASE \E v \in V, value \in Seeds : set_seed_self(v, value)
  <2>1. PICK v \in V, value \in Seeds : set_seed_self(v, value)
    BY <1>5
  <2>2. value \in Double
    BY SeedsAssumption
  <2>3. v_self' \in [V -> Double]
    BY <2>1, <2>2 DEF set_seed_self, TypeOK
  <2> QED
    BY <2>1, <2>3, <1>1 DEF set_seed_self, TypeOK, KernelInv, AtRest, V
<1>6. CASE StartRun
  BY <1>1, <1>6, LoadedGraph DEF StartRun, TypeOK, KernelInv, AtRest, V
<1> QED
  BY <1>2, <1>3, <1>4, <1>5, <1>6 DEF Host

(* What a turn of the loop of execute_vertex keeps, whatever the instruction. *)
LEMMA DispatchInv ==
  ASSUME StateInv, NEW ops, Dispatch(ops)
  PROVE  /\ ctx' \in Context /\ pc' \in Int
         /\ KernelInv'
         /\ UNCHANGED <<graph, program, v_self, v_out, active, phase, cur>>
         /\ phase = "kernel" /\ cur \in V /\ IsGraph(graph)
<1> USE DEF StateInv
<1>1. /\ phase = "kernel" /\ Running(program, pc)
      /\ UNCHANGED <<graph, program, v_self, v_out, active, phase, cur>>
      /\ ctx' = Execute(ctx, pc, graph, program, v_self, cur).ctx
      /\ pc' = Execute(ctx, pc, graph, program, v_self, cur).pc
  BY DEF Dispatch
<1>2. /\ cur \in V /\ cur \in active /\ ctx.v_self = v_self[cur]
      /\ IteratorAt(ctx, graph, v_self, cur)
  BY <1>1 DEF KernelInv
<1>3. IsGraph(graph) /\ IsProgram(program) /\ V = Vertices(graph)
  BY <1>2, LoadedGraph, LoadedProgram DEF V
<1>4. ctx \in Context /\ pc \in Int /\ v_self \in [V -> Double]
  BY DEF TypeOK
<1>5. LET d == Execute(ctx, pc, graph, program, v_self, cur)
      IN  d.ctx \in Context /\ d.pc \in Int
          /\ d.ctx.v_self = ctx.v_self /\ IteratorAt(d.ctx, graph, v_self, cur)
  BY <1>1, <1>2, <1>3, <1>4, ExecuteType
<1>6. /\ ctx' \in Context /\ pc' \in Int /\ ctx'.v_self = v_self[cur]
      /\ IteratorAt(ctx', graph, v_self, cur)
  BY <1>1, <1>2, <1>5
<1>7. KernelInv'
  BY <1>1, <1>2, <1>6 DEF KernelInv, V
<1> QED
  BY <1>1, <1>2, <1>3, <1>6, <1>7

LEMMA RunKeeps == StateInv /\ RunStep => StateInv'
<1> SUFFICES ASSUME StateInv, RunStep PROVE StateInv'
  OBVIOUS
<1> USE DEF StateInv
<1>1. CASE SkipInactive
  BY <1>1, LoadedGraph DEF SkipInactive, TypeOK, KernelInv, AtRest, V, Vertices
<1>2. CASE LoadContext
  <2>1. cur \in V /\ cur \in active /\ IsGraph(graph) /\ V = Vertices(graph)
    BY <1>2, LoadedGraph DEF LoadContext, V
  <2>2. /\ ctx' \in Context /\ ctx'.v_self = v_self[cur]
        /\ IteratorAt(ctx', graph, v_self, cur)
    BY <1>2, <2>1, LoadType DEF LoadContext, TypeOK
  <2>3. TypeOK'
    BY <1>2, <2>2 DEF LoadContext, TypeOK, V
  <2> QED
    BY <1>2, <2>1, <2>2, <2>3 DEF LoadContext, KernelInv, AtRest, V
<1>3. CASE LocalStep
  <2>1. PICK ops : Dispatch(ops) /\ UNCHANGED <<next_active, updates>>
    BY <1>3 DEF LocalStep
  <2>2. TypeOK' /\ KernelInv'
    BY <2>1, DispatchInv DEF TypeOK, V
  <2> QED
    BY <2>1, <2>2, DispatchInv DEF AtRest
<1>4. CASE GraphStep
  <2>1. /\ Dispatch(GraphOps) /\ UNCHANGED updates
        /\ next_active' = next_active \cup Scattered(Fetch(program, pc), ctx, graph, cur)
    BY <1>4 DEF GraphStep
  <2>2. next_active' \subseteq V
    BY <2>1, DispatchInv, ScatteredType DEF TypeOK, V
  <2>3. TypeOK' /\ KernelInv'
    BY <2>1, <2>2, DispatchInv DEF TypeOK, V
  <2> QED
    BY <2>1, <2>3, DispatchInv DEF AtRest
<1>5. CASE SystemStep
  <2>1. /\ Dispatch(SystemOps) /\ UNCHANGED next_active
        /\ updates' = (updates + Votes(Fetch(program, pc))) % UpdatesMod
    BY <1>5 DEF SystemStep
  <2>2. updates' \in 0 .. UpdatesMod - 1
    <3>1. updates + Votes(Fetch(program, pc)) \in Nat
      BY EffectsOfOps, UpdatesAssumption DEF TypeOK
    <3> QED
      BY <2>1, <3>1, UpdatesAssumption
  <2>3. TypeOK' /\ KernelInv'
    BY <2>1, <2>2, DispatchInv DEF TypeOK, V
  <2> QED
    BY <2>1, <2>3, DispatchInv DEF AtRest
<1>6. CASE StoreContext
  <2>1. cur \in V /\ ctx.v_self = v_self[cur] /\ ctx.v_out \in Double
    BY <1>6 DEF StoreContext, KernelInv, TypeOK, Context
  <2>2. v_self' = v_self /\ v_out' \in [V -> Double]
    BY <1>6, <2>1 DEF StoreContext, TypeOK
  <2>3. cur + 1 \in 0 .. graph.num_vertices
    BY <2>1, LoadedGraph DEF V, Vertices
  <2>4. TypeOK'
    BY <1>6, <2>2, <2>3, NoContextType DEF StoreContext, TypeOK, V
  <2> QED
    BY <1>6, <2>4 DEF StoreContext, KernelInv, AtRest
<1>7. CASE Barrier
  <2>1. /\ phase' \in {"idle", "scan"} /\ updates' \in 0 .. UpdatesMod - 1
        /\ Commit
    BY <1>7, UpdatesAssumption DEF Barrier, StopInactive, StopConverged, NextSuperstep,
                                   Commit, TypeOK
  <2>2. TypeOK'
    BY <2>1, LoadedGraph DEF Commit, TypeOK, V
  <2> QED
    BY <2>1, <2>2 DEF Commit, KernelInv, AtRest
<1> QED
  BY <1>1, <1>2, <1>3, <1>4, <1>5, <1>6, <1>7 DEF RunStep

(* No mark is left where a run ends. *)
LEMMA MarksGone == IInv /\ [Next]_vars => IdleInv'
<1> SUFFICES ASSUME IInv, [Next]_vars PROVE IdleInv'
  OBVIOUS
<1>1. CASE Host \/ UNCHANGED vars
  BY <1>1 DEF Host, load_graph, load_program, set_active, set_seed_self, StartRun, vars,
              IInv, IdleInv
<1>2. CASE RunStep
  BY <1>2 DEF RunStep, SkipInactive, LoadContext, LocalStep, GraphStep, SystemStep, Dispatch,
              StoreContext, Barrier, StopInactive, StopConverged, NextSuperstep, Commit, IdleInv
<1> QED
  BY <1>1, <1>2 DEF Next

LEMMA InvParts ==
  /\ IInv <=> StateInv /\ IdleInv
  /\ IInv' <=> StateInv' /\ IdleInv'
BY DEF IInv, StateInv, AtRest, IdleInv

LEMMA HostInv == IInv /\ Host => IInv'
BY InvParts, MarksGone, HostKeeps DEF Next

LEMMA RunInv == IInv /\ RunStep => IInv'
BY InvParts, MarksGone, RunKeeps DEF Next

LEMMA NextInv == IInv /\ [Next]_vars => IInv'
<1>1. IInv /\ UNCHANGED vars => IInv'
  BY DEF IInv, TypeOK, KernelInv, IdleInv, vars, V
<1> QED
  BY <1>1, HostInv, RunInv DEF Next

(* The inductive invariant holds in every reachable state of the runtime,     *)
(* whatever graphs, programs and seeds the host loads and in whatever order.  *)
THEOREM Invariance == Spec => []IInv
BY InitInv, NextInv, PTL DEF Spec

-----------------------------------------------------------------------------
(* Every variable keeps its type, whatever the host loads, seeds and runs. *)
THEOREM TypeCorrectness == Spec => []TypeOK
<1>1. IInv => TypeOK
  BY DEF IInv
<1> QED
  BY <1>1, Invariance, PTL

(* The values a kernel has copied from the arrays are those of the arrays for *)
(* as long as the kernel runs.                                                *)
THEOREM Currency == Spec => []IteratorCurrent
<1>1. IInv => IteratorCurrent
  BY DEF IInv, KernelInv, IteratorCurrent, IteratorAt
<1> QED
  BY <1>1, Invariance, PTL

(* The marks of SCATTER never survive the run that made them. *)
THEOREM MarksConsumed == Spec => []NoMarkOutlivesRun
<1>1. IInv => NoMarkOutlivesRun
  BY DEF IInv, IdleInv, NoMarkOutlivesRun
<1> QED
  BY <1>1, Invariance, PTL

(* Storing a context leaves v_self as it is: the value stored was loaded.     *)
LEMMA StoreKeepsValues == IInv /\ StoreContext => v_self' = v_self
BY DEF IInv, TypeOK, KernelInv, StoreContext

(* The values that kernels read change only at the barrier.                   *)
THEOREM SuperstepConsistency == Spec => ReadsPreviousSuperstep
<1>1. IInv /\ [Next]_vars =>
        [phase # "idle" /\ v_self' # v_self
           => cur = graph.num_vertices /\ v_self' = v_out]_vars
  <2> SUFFICES ASSUME IInv, Next, phase # "idle", v_self' # v_self
               PROVE  cur = graph.num_vertices /\ v_self' = v_out
    BY DEF vars
  <2>1. ~Host
    BY DEF Host, load_graph, load_program, set_active, set_seed_self, StartRun
  <2>2. CASE Barrier
    BY <2>2 DEF Barrier, StopInactive, StopConverged, NextSuperstep, Commit
  <2>3. CASE RunStep /\ ~Barrier
    BY <2>3, StoreKeepsValues DEF RunStep, SkipInactive, LoadContext, LocalStep,
                                  GraphStep, SystemStep, Dispatch
  <2> QED
    BY <2>1, <2>2, <2>3 DEF Next
<1> QED
  BY <1>1, Invariance, PTL DEF Spec, ReadsPreviousSuperstep

(* A kernel writes the next value of its own vertex only, an active one. *)
THEOREM LocalWrites == Spec => WritesAreLocal
<1>1. IInv /\ [Next]_vars =>
        [phase # "idle" =>
           \A v \in V : v_out'[v] # v_out[v] => v = cur /\ v \in active]_vars
  <2> SUFFICES ASSUME IInv, Next, phase # "idle", NEW v \in V, v_out'[v] # v_out[v]
               PROVE  v = cur /\ v \in active
    BY DEF vars
  <2>1. ~Host
    BY DEF Host, load_graph, load_program, set_active, set_seed_self, StartRun
  <2>2. StoreContext
    BY <2>1 DEF Next, RunStep, SkipInactive, LoadContext, LocalStep, GraphStep, SystemStep,
                Dispatch, Barrier, StopInactive, StopConverged, NextSuperstep, Commit
  <2> QED
    BY <2>2 DEF StoreContext, IInv, TypeOK, KernelInv
<1> QED
  BY <1>1, Invariance, PTL DEF Spec, WritesAreLocal

-----------------------------------------------------------------------------
(* With the history of the superstep, the machine still takes the steps of    *)
(* Next, so that the inductive invariant holds.                               *)
LEMMA HistoryStep == [NextHistory]_historyVars => [Next]_vars
BY DEF NextHistory, historyVars, Next, RunStep

LEMMA HistoryInvariance == SpecHistory => []IInv
<1>1. InitHistory => IInv
  BY InitInv DEF InitHistory
<1>2. IInv /\ [NextHistory]_historyVars => IInv'
  BY HistoryStep, NextInv
<1> QED
  BY <1>1, <1>2, PTL DEF SpecHistory

(* From the second superstep of a run on the counter holds the votes of the   *)
(* superstep, as far as it reaches, and the two buffers of a vertex that has  *)
(* not been executed in it agree.                                             *)
LaterInv ==
  /\ cast \in Nat
  /\ phase # "idle" /\ ~first =>
       /\ cast < UpdatesMod => updates = cast
       /\ \A v \in V : (v \in active /\ v < cur) \/ v_out[v] = v_self[v]

LEMMA LaterInitial == InitHistory => LaterInv
BY DEF InitHistory, LaterInv

LEMMA LaterKept == IInv /\ LaterInv /\ [NextHistory]_historyVars => LaterInv'
<1> SUFFICES ASSUME IInv, LaterInv, [NextHistory]_historyVars PROVE LaterInv'
  OBVIOUS
<1>1. /\ V \subseteq Nat /\ cur \in Nat /\ cast \in Nat
      /\ UpdatesMod \in Nat \ {0, 1} /\ updates \in Nat
  BY LoadedGraph, UpdatesAssumption DEF IInv, TypeOK, LaterInv
<1>2. CASE Host /\ cast' = 0 /\ first' = TRUE
  BY <1>2 DEF LaterInv
<1>3. CASE SkipInactive /\ UNCHANGED <<cast, first>>
  BY <1>1, <1>3 DEF SkipInactive, LaterInv, V
<1>4. CASE (LoadContext \/ LocalStep \/ GraphStep) /\ UNCHANGED <<cast, first>>
  <2>1. /\ UNCHANGED <<graph, v_self, v_out, active, updates, cur, cast, first>>
        /\ phase # "idle"
    BY <1>4 DEF LoadContext, LocalStep, GraphStep, Dispatch
  <2> QED
    BY <2>1 DEF LaterInv, V
<1>5. CASE SystemStep /\ cast' = cast + 1 /\ UNCHANGED first
  <2>1. /\ UNCHANGED <<graph, v_self, v_out, active, cur, first>> /\ phase # "idle"
        /\ updates' = (updates + 1) % UpdatesMod
    BY <1>5 DEF SystemStep, Dispatch, SystemOps, Votes
  <2>2. updates + 1 < UpdatesMod => updates' = updates + 1
    BY <1>1, <2>1
  <2> QED
    BY <1>1, <1>5, <2>1, <2>2 DEF LaterInv, V
<1>6. CASE StoreContext /\ UNCHANGED <<cast, first>>
  <2>1. /\ UNCHANGED <<graph, active, updates, cast, first>> /\ phase # "idle"
        /\ cur \in active /\ cur' = cur + 1
        /\ \A v \in V : v # cur => v_out'[v] = v_out[v]
    BY <1>6 DEF StoreContext, IInv, KernelInv, TypeOK
  <2>2. v_self' = v_self
    BY <1>6, StoreKeepsValues
  <2> QED
    BY <1>1, <2>1, <2>2 DEF LaterInv, V
<1>7. CASE Barrier /\ cast' = 0 /\ first' = FALSE
  <2>1. v_self' = v_out /\ v_out' = v_out /\ graph' = graph
        /\ (phase' # "idle" => updates' = 0)
    BY <1>7 DEF Barrier, StopInactive, StopConverged, NextSuperstep, Commit
  <2> QED
    BY <1>7, <2>1 DEF LaterInv
<1>8. CASE UNCHANGED historyVars
  BY <1>8 DEF historyVars, vars, LaterInv, V
<1> QED
  BY <1>2, <1>3, <1>4, <1>5, <1>6, <1>7, <1>8 DEF NextHistory

LEMMA LaterInvariance == SpecHistory => []LaterInv
BY LaterInitial, LaterKept, HistoryInvariance, PTL DEF SpecHistory

(* From the second superstep of a run on, the run goes on if and only if some *)
(* vertex was activated and some vertex voted, whatever the votes of earlier  *)
(* runs were, for supersteps whose votes the counter can count.               *)
THEOREM ConvergenceIsExact == SpecHistory => ConvergenceExactLater
<1>1. IInv /\ LaterInv /\ [NextHistory]_historyVars =>
        [Barrier /\ ~first /\ cast < UpdatesMod
           => (phase' = "scan" <=> active' # {} /\ cast # 0)]_historyVars
  <2> SUFFICES ASSUME LaterInv, Barrier, ~first, cast < UpdatesMod
               PROVE  phase' = "scan" <=> active' # {} /\ cast # 0
    OBVIOUS
  <2>1. phase = "scan" /\ active' = next_active
        /\ (phase' = "scan" <=> next_active # {} /\ updates # 0)
    BY DEF Barrier, StopInactive, StopConverged, NextSuperstep, Commit
  <2>2. updates = cast
    BY <2>1 DEF LaterInv
  <2> QED
    BY <2>1, <2>2
<1> QED
  BY <1>1, HistoryInvariance, LaterInvariance, PTL DEF SpecHistory, ConvergenceExactLater

(* From the second superstep of a run on, the barrier, which commits all of   *)
(* v_out, leaves the values of inactive vertices as they are.                 *)
THEOREM InactiveKept == SpecHistory => InactiveSkippedLater
<1>1. IInv /\ LaterInv /\ [NextHistory]_historyVars =>
        [Barrier /\ ~first => \A v \in V \ active : v_self'[v] = v_self[v]]_historyVars
  <2> SUFFICES ASSUME LaterInv, Barrier, ~first, NEW v \in V \ active
               PROVE  v_self'[v] = v_self[v]
    OBVIOUS
  <2>1. phase = "scan" /\ v_self' = v_out
    BY DEF Barrier, StopInactive, StopConverged, NextSuperstep, Commit
  <2> QED
    BY <2>1 DEF LaterInv
<1> QED
  BY <1>1, HistoryInvariance, LaterInvariance, PTL DEF SpecHistory, InactiveSkippedLater

-----------------------------------------------------------------------------
(* The instruction set that BSP runs its threads with is that of GCVM. *)
LEMMA SameLoad ==
  ASSUME NEW g, NEW vs, NEW vo, NEW v
  PROVE  B!load_context(g, vs, vo, v) = load_context(g, vs, vo, v)
BY DEF B!load_context, load_context, B!Reg, Reg, B!OfNat, OfNat, B!Round, Round,
       B!Inf, Inf, B!in_degree, in_degree, B!out_degree, out_degree

LEMMA SameFetch ==
  ASSUME NEW p, NEW i
  PROVE  /\ B!Running(p, i) <=> Running(p, i)
         /\ B!Fetch(p, i) = Fetch(p, i) /\ B!Advance(i) = Advance(i)
BY DEF B!Running, Running, B!Fetch, Fetch, B!Advance, Advance

LEMMA SameEffects ==
  ASSUME NEW inst, NEW c, NEW g, NEW v
  PROVE  B!Scattered(inst, c, g, v) = Scattered(inst, c, g, v)
         /\ B!Votes(inst) = Votes(inst)
BY DEF B!Scattered, Scattered, B!Same, Same, B!OutNeighbors, OutNeighbors,
       B!OutEdges, OutEdges, B!Votes, Votes

LEMMA SameArithmetic ==
  ASSUME NEW op, NEW a, NEW b
  PROVE  /\ B!Alu(op, a, b) = Alu(op, a, b)
         /\ B!Accumulate(op, a, b) = Accumulate(op, a, b)
BY DEF B!Alu, Alu, B!Accumulate, Accumulate, B!Plus, Plus, B!Minus, Minus, B!Times, Times,
       B!Divide, Divide, B!Less, Less, B!LessEqual, LessEqual, B!Same, Same, B!Negate, Negate,
       B!OfBool, OfBool, B!IsInf, IsInf, B!Inf, Inf, B!Round, Round, B!Magnitude, Magnitude

LEMMA SameRowGather ==
  ASSUME NEW op, NEW g, NEW vs, NEW v
  PROVE  B!Gather(op, g, vs, v) = Gather(op, g, vs, v)
BY DEF B!Gather, Gather, B!Accumulate, Accumulate, B!Plus, Plus, B!Less, Less,
       B!IsInf, IsInf, B!Inf, Inf, B!Round, Round

LEMMA SameExecute ==
  ASSUME NEW c, NEW i, NEW g, NEW p, NEW vs, NEW v
  PROVE  B!Execute(c, i, g, p, vs, v) = Execute(c, i, g, p, vs, v)
<1> DEFINE inst == Fetch(p, i)
<1>1. B!exec_control(inst, c, i) = exec_control(inst, c, i)
  BY DEF B!exec_control, exec_control, B!Same, Same
<1>2. B!exec_alu(inst, c, p) = exec_alu(inst, c, p)
  BY SameArithmetic DEF B!exec_alu, exec_alu
<1>3. B!exec_memory(inst, c, g, v) = exec_memory(inst, c, g, v)
  BY DEF B!exec_memory, exec_memory, B!OfNat, OfNat, B!Round, Round, B!Inf, Inf,
         B!in_degree, in_degree, B!out_degree, out_degree
<1>4. B!exec_graph(inst, c, g, vs, v, i) = exec_graph(inst, c, g, vs, v, i)
  <2>1. B!exec_iter_neighbors(inst, c, g, vs, v, i) = exec_iter_neighbors(inst, c, g, vs, v, i)
    BY DEF B!exec_iter_neighbors, exec_iter_neighbors, B!VisitEdge, VisitEdge
  <2>2. B!exec_end_iter(inst, c, g, vs, i) = exec_end_iter(inst, c, g, vs, i)
    BY DEF B!exec_end_iter, exec_end_iter, B!VisitEdge, VisitEdge
  <2>3. B!Gather(inst.op, g, vs, v) = Gather(inst.op, g, vs, v)
    BY SameRowGather
  <2> HIDE DEF inst
  <2> QED
    BY <2>1, <2>2, <2>3, Zenon DEF B!exec_graph, exec_graph
<1>5. B!Fetch(p, i) = inst
  BY SameFetch
<1> HIDE DEF inst
<1>6. \A j : B!Advance(j) = Advance(j)
  BY SameFetch
<1> QED
  BY <1>1, <1>2, <1>3, <1>4, <1>5, <1>6, Zenon
     DEF B!Execute, Execute, inst, B!ControlOps, ControlOps, B!AluOps, AluOps,
         B!MemoryOps, MemoryOps, B!GraphOps, GraphOps

-----------------------------------------------------------------------------
(* The refinement mapping: what stands for the threads and for the vertices   *)
(* that are done.                                                             *)
Threads == [v \in (IF phase = "kernel" THEN {cur} ELSE {}) |-> [ctx |-> ctx, pc |-> pc]]
Finished == {v \in active : v < cur}

LEMMA BelowLoop ==
  ASSUME NEW S \in SUBSET Nat, NEW n \in Nat
  PROVE  /\ {v \in S : v < 0} = {}
         /\ n \notin S => {v \in S : v < n + 1} = {v \in S : v < n}
         /\ n \in S => {v \in S : v < n + 1} = {v \in S : v < n} \cup {n}
<1>1. \A v \in S : v \in Nat
  OBVIOUS
<1>2. \A v \in S : ~(v < 0) /\ (v < n + 1 <=> v < n \/ v = n)
  BY <1>1
<1> QED
  BY <1>2

LEMMA VertexNumbers ==
  ASSUME NEW g \in Graphs \cup {EmptyGraph}
  PROVE  Vertices(g) \subseteq Nat
BY GraphsAssumption DEF IsGraph, EmptyGraph, Vertices

LEMMA ActiveVertices ==
  ASSUME TypeOK
  PROVE  active \in SUBSET Nat /\ cur \in Nat
BY LoadedGraph DEF TypeOK, V

LEMMA IdleMapping ==
  ASSUME TypeOK, phase = "idle" => cur = 0
  PROVE  phase = "idle" => Finished = {} /\ Threads = [v \in {} |-> 0]
BY ActiveVertices, BelowLoop DEF Finished, Threads

LEMMA InitRefines == Init => B!Init
<1> SUFFICES ASSUME Init PROVE B!Init
  OBVIOUS
<1>1. Finished = {} /\ Threads = [v \in {} |-> 0]
  BY InitInv, IdleMapping DEF Init, IInv, IdleInv
<1> QED
  BY <1>1 DEF Init, B!Init, Finished, Threads

(* What the host does between runs leaves no thread and no vertex done. *)
LEMMA HostRefines == IInv /\ Host => B!Host
<1> SUFFICES ASSUME IInv, Host PROVE B!Host
  OBVIOUS
<1>1. /\ phase = "idle" /\ cur' = 0 /\ UNCHANGED <<next_active, updates>>
  BY DEF Host, load_graph, load_program, set_active, set_seed_self, StartRun, IInv, IdleInv
<1>2. phase' # "kernel"
  BY <1>1 DEF Host, load_graph, load_program, set_active, set_seed_self, StartRun
<1>3. Finished = {} /\ Threads = [v \in {} |-> 0]
  BY <1>1, IdleMapping DEF IInv, IdleInv
<1>4. TypeOK'
  BY NextInv DEF IInv, Next
<1>5. Finished' = {}
  <2>1. active' \in SUBSET Nat
    <3>1. V' \subseteq Nat
      BY <1>4, VertexNumbers DEF TypeOK, V
    <3> QED
      BY <1>4, <3>1 DEF TypeOK
  <2>2. Finished' = {v \in active' : v < cur'}
    BY DEF Finished
  <2> QED
    BY <1>1, <2>1, <2>2, BelowLoop
<1>6. Threads' = [v \in {} |-> 0]
  BY <1>2 DEF Threads
<1> QED
  BY <1>1, <1>3, <1>5, <1>6 DEF B!Host, Finished, Threads

(* Loading the context of a vertex begins its thread. *)
LEMMA LoadRefines == IInv /\ LoadContext => B!Begin(cur)
<1> SUFFICES ASSUME IInv, LoadContext PROVE B!Begin(cur)
  OBVIOUS
<1>1. /\ phase = "scan" /\ phase' = "kernel" /\ cur \in active /\ cur \in Int
      /\ UNCHANGED <<graph, program, v_self, v_out, active, next_active, updates, cur>>
      /\ ctx' = load_context(graph, v_self, v_out, cur) /\ pc' = 0
  BY ActiveVertices DEF LoadContext, IInv
<1>2. Threads = [v \in {} |-> 0] /\ DOMAIN Threads = {}
  BY <1>1 DEF Threads
<1>3. Threads' = [u \in DOMAIN Threads \cup {cur} |->
                    IF u = cur
                    THEN [ctx |-> B!load_context(graph, v_self, v_out, cur), pc |-> 0]
                    ELSE Threads[u]]
  BY <1>1, <1>2, SameLoad DEF Threads
<1>4. cur \notin Finished /\ Finished' = Finished
  BY <1>1 DEF Finished
<1> QED
  BY <1>1, <1>2, <1>3, <1>4 DEF B!Begin, Finished, Threads

(* A turn of the loop of execute_vertex is a step of its thread. *)
LEMMA DispatchRefines ==
  ASSUME IInv, NEW ops, Dispatch(ops),
         next_active' = next_active \cup Scattered(Fetch(program, pc), ctx, graph, cur),
         updates' = (updates + Votes(Fetch(program, pc))) % UpdatesMod
  PROVE  B!Instr(cur)
<1>1. /\ phase = "kernel" /\ Running(program, pc)
      /\ UNCHANGED <<graph, program, v_self, v_out, active, phase, cur>>
      /\ ctx' = Execute(ctx, pc, graph, program, v_self, cur).ctx
      /\ pc' = Execute(ctx, pc, graph, program, v_self, cur).pc
  BY DEF Dispatch
<1>2. /\ DOMAIN Threads = {cur} /\ Threads[cur] = [ctx |-> ctx, pc |-> pc]
      /\ Threads' = [u \in {cur} |-> [ctx |-> ctx', pc |-> pc']]
  BY <1>1 DEF Threads
<1>3. Execute(ctx, pc, graph, program, v_self, cur) = [ctx |-> ctx', pc |-> pc']
  BY <1>1 DEF Execute
<1>4. Threads' = [Threads EXCEPT ![cur] =
                    B!Execute(Threads[cur].ctx, Threads[cur].pc, graph, program, v_self, cur)]
  <2>1. Threads = [u \in {cur} |-> [ctx |-> ctx, pc |-> pc]]
    BY <1>1 DEF Threads
  <2> QED
    BY <1>2, <1>3, <2>1, SameExecute
<1>5. Finished' = Finished
  BY <1>1 DEF Finished
<1>6. /\ B!Running(program, pc) /\ B!Fetch(program, pc) = Fetch(program, pc)
      /\ B!Scattered(Fetch(program, pc), ctx, graph, cur)
           = Scattered(Fetch(program, pc), ctx, graph, cur)
      /\ B!Votes(Fetch(program, pc)) = Votes(Fetch(program, pc))
  BY <1>1, SameFetch, SameEffects
<1>7. Threads[cur].pc = pc /\ Threads[cur].ctx = ctx /\ cur \in DOMAIN Threads
  BY <1>2
<1> HIDE DEF Threads, Finished
<1>8. /\ phase # "idle" /\ cur \in DOMAIN Threads /\ B!Running(program, Threads[cur].pc)
      /\ Threads' = [Threads EXCEPT ![cur] =
           B!Execute(Threads[cur].ctx, Threads[cur].pc, graph, program, v_self, cur)]
      /\ next_active' = next_active \cup
           B!Scattered(B!Fetch(program, Threads[cur].pc), Threads[cur].ctx, graph, cur)
      /\ updates' = (updates + B!Votes(B!Fetch(program, Threads[cur].pc))) % UpdatesMod
      /\ UNCHANGED <<graph, program, v_self, v_out, active, Finished, phase>>
  BY <1>1, <1>4, <1>5, <1>6, <1>7
<1> QED
  BY <1>8 DEF B!Instr, Threads, Finished

(* Storing the context of a vertex finishes its thread: the value the vertex  *)
(* was loaded with is written back unchanged.                                 *)
LEMMA StoreRefines ==
  ASSUME IInv, StoreContext, NEW w, w = cur
  PROVE  B!Finish(w)
<1>1. /\ phase = "kernel" /\ ~Running(program, pc)
      /\ phase' = "scan" /\ cur' = cur + 1
      /\ v_out' = [v_out EXCEPT ![cur] = ctx.v_out]
      /\ UNCHANGED <<graph, program, active, next_active, updates>>
  BY DEF StoreContext
<1>2. v_self' = v_self
  BY StoreKeepsValues
<1>3. /\ DOMAIN Threads = {cur} /\ Threads[cur] = [ctx |-> ctx, pc |-> pc]
      /\ Threads' = [u \in DOMAIN Threads \ {cur} |-> Threads[u]]
  BY <1>1 DEF Threads
<1>4. Finished' = Finished \cup {cur}
  <2>1. cur \in active /\ active \in SUBSET Nat
    BY <1>1, ActiveVertices DEF IInv, KernelInv
  <2>2. Finished' = {v \in active : v < cur + 1}
    BY <1>1 DEF Finished
  <2> QED
    BY <2>1, <2>2, BelowLoop DEF Finished
<1>5. ~B!Running(program, Threads[cur].pc)
  BY <1>1, <1>3, SameFetch
<1> QED
  BY <1>1, <1>2, <1>3, <1>4, <1>5 DEF B!Finish, Threads, Finished

(* The end of the loop over the vertices is the barrier. *)
LEMMA BarrierRefines == IInv /\ Barrier => B!Barrier
<1> SUFFICES ASSUME IInv, Barrier PROVE B!Barrier
  OBVIOUS
<1>1. Commit /\ phase = "scan" /\ cur = graph.num_vertices /\ cur' = 0
  BY DEF Barrier, StopInactive, StopConverged, NextSuperstep, Commit
<1>2. active \subseteq Finished
  BY <1>1 DEF Finished, IInv, TypeOK, V, Vertices
<1>3. Finished' = {}
  <2>1. active' \in SUBSET Nat /\ cur' = 0
    BY <1>1, LoadedGraph DEF Commit, IInv, TypeOK
  <2>2. Finished' = {v \in active' : v < cur'}
    BY DEF Finished
  <2> QED
    BY <2>1, <2>2, BelowLoop
<1>4. phase' # "kernel" /\ Threads' = Threads
  BY <1>1 DEF Barrier, StopInactive, StopConverged, NextSuperstep, Threads
<1>5. /\ phase' # "idle" <=> next_active # {} /\ updates # 0
      /\ updates' = IF next_active = {} THEN updates ELSE 0
  BY <1>1 DEF Barrier, StopInactive, StopConverged, NextSuperstep
<1> QED
  BY <1>1, <1>2, <1>3, <1>4, <1>5 DEF B!Barrier, Commit, Threads, Finished

(* Skipping an inactive vertex is invisible: it is never done. *)
LEMMA SkipStutters == IInv /\ SkipInactive => UNCHANGED B!vars
<1> SUFFICES ASSUME IInv, SkipInactive PROVE UNCHANGED B!vars
  OBVIOUS
<1>1. /\ phase = "scan" /\ cur \notin active /\ cur' = cur + 1
      /\ UNCHANGED <<graph, program, v_self, v_out, active, next_active, updates,
                     phase, ctx, pc>>
  BY DEF SkipInactive
<1>2. Finished' = Finished
  <2>1. active \in SUBSET Nat /\ cur \in Nat
    BY ActiveVertices DEF IInv
  <2>2. Finished' = {v \in active : v < cur + 1}
    BY <1>1 DEF Finished
  <2> QED
    BY <1>1, <2>1, <2>2, BelowLoop DEF Finished
<1>3. Threads' = Threads
  BY <1>1 DEF Threads
<1> QED
  BY <1>1, <1>2, <1>3 DEF B!vars, Threads, Finished

LEMMA StepRefines == IInv /\ [Next]_vars => [B!Next]_B!vars
<1> SUFFICES ASSUME IInv, [Next]_vars PROVE [B!Next]_B!vars
  OBVIOUS
<1>1. CASE Host
  BY <1>1, HostRefines DEF B!Next
<1>2. CASE SkipInactive
  BY <1>2, SkipStutters
<1>3. CASE LoadContext
  <2>1. cur \in active /\ B!Begin(cur)
    BY <1>3, LoadRefines DEF LoadContext
  <2> QED
    BY <2>1 DEF B!Next, B!Run
<1>4. CASE LocalStep \/ GraphStep \/ SystemStep
  <2>1. cur \in active
    BY <1>4 DEF IInv, KernelInv, LocalStep, GraphStep, SystemStep, Dispatch
  <2>2. updates % UpdatesMod = updates /\ updates + 0 = updates
    BY UpdatesAssumption DEF IInv, TypeOK
  <2>3. B!Instr(cur)
    <3>1. CASE LocalStep
      <4> DEFINE ops == ControlOps \cup AluOps \cup MemoryOps \cup UnknownOps
      <4>1. Dispatch(ops) /\ UNCHANGED <<next_active, updates>>
        BY <3>1 DEF LocalStep
      <4>2. Fetch(program, pc).op \notin GraphOps \cup SystemOps
        BY <4>1 DEF Dispatch, ControlOps, AluOps, MemoryOps, UnknownOps, GraphOps, SystemOps
      <4> HIDE DEF ops
      <4> QED
        BY <4>1, <4>2, <2>2, EffectsOfOps, DispatchRefines
    <3>2. CASE GraphStep
      <4>1. /\ Dispatch(GraphOps) /\ UNCHANGED updates
            /\ next_active' = next_active
                 \cup Scattered(Fetch(program, pc), ctx, graph, cur)
        BY <3>2 DEF GraphStep
      <4>2. Fetch(program, pc).op \notin SystemOps
        BY <4>1 DEF Dispatch, GraphOps, SystemOps
      <4> QED
        BY <4>1, <4>2, <2>2, EffectsOfOps, DispatchRefines
    <3>3. CASE SystemStep
      <4>1. /\ Dispatch(SystemOps) /\ UNCHANGED next_active
            /\ updates' = (updates + Votes(Fetch(program, pc))) % UpdatesMod
        BY <3>3 DEF SystemStep
      <4>2. Fetch(program, pc).op \notin GraphOps
        BY <4>1 DEF Dispatch, GraphOps, SystemOps
      <4> QED
        BY <4>1, <4>2, EffectsOfOps, DispatchRefines
    <3> QED
      BY <1>4, <3>1, <3>2, <3>3
  <2> QED
    BY <2>1, <2>3 DEF B!Next, B!Run
<1>5. CASE StoreContext
  <2>1. PICK w \in active : w = cur
    BY <1>5 DEF StoreContext, IInv, KernelInv
  <2>2. B!Finish(w)
    BY <1>5, <2>1, StoreRefines
  <2> QED
    BY <2>2 DEF B!Next, B!Run
<1>6. CASE Barrier
  BY <1>6, BarrierRefines DEF B!Next, B!Run
<1>7. CASE UNCHANGED vars
  BY <1>7 DEF vars, B!vars
<1> QED
  BY <1>1, <1>2, <1>3, <1>4, <1>5, <1>6, <1>7 DEF Next, RunStep

(* The sequential run over shared arrays, with the committed values in one    *)
(* array and the next ones in another, is one of the executions of a parallel *)
(* loop over isolated kernels.                                                *)
THEOREM Refinement == Spec => ImplementsBSP
BY InitRefines, StepRefines, Invariance, PTL DEF Spec, ImplementsBSP, B!Spec
=============================================================================
