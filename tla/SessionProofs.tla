--------------------------- MODULE SessionProofs ---------------------------
(***************************************************************************)
(* Theorems about the two ways a user drives the runtime.  A session of    *)
(* the shell: whatever it loads and runs, with the interpreter or with     *)
(* compiled kernels, the types hold, what runs as compiled code is the     *)
(* program that is loaded, and what GCVMProofs shows of interpreted runs   *)
(* holds of compiled ones too.  A session of the debugger: it is local to  *)
(* the next values, and it executes every instruction of every vertex once.*)
(***************************************************************************)
EXTENDS Session, Debugger, GCVMProofs

-----------------------------------------------------------------------------
(* The inductive invariant: that of the runtime, for as long as the program  *)
(* is alive; and a kernel that is there is what lower and compile made of    *)
(* the program, with the position inside it while it runs.                   *)
Alive == phase \in {"idle", "scan", "kernel"}

KernelAccepted == compiled # NoKernel => CompileOutcome(compiled) = "kernel"

SInv == SessionTypeOK /\ CompiledIsCurrent /\ KernelAccepted /\ (Alive => IInv)

LEMMA RuntimeTypes == SessionTypeOK /\ Alive => TypeOK
BY DEF SessionTypeOK, Alive, TypeOK

LEMMA TypesOfRuntime ==
  TypeOK /\ IsConfig(config) /\ initialized \in BOOLEAN /\ live \subseteq Arrays
         /\ capacity \in [{"offsets", "edges"} -> Nat]
    => SessionTypeOK /\ Alive
BY DEF SessionTypeOK, Alive, TypeOK

LEMMA DefaultConfig == IsConfig(VMConfig)
BY SmallType DEF IsConfig, VMConfig, EmptyVector

LEMMA InitSessionInv == InitSession => SInv
<1> SUFFICES ASSUME InitSession PROVE SInv
  OBVIOUS
<1>1. IInv /\ TypeOK
  BY InitInv DEF InitSession, IInv
<1>2. IsConfig(config) /\ initialized = FALSE /\ live = {} /\ compiled = NoKernel
  BY DefaultConfig DEF InitSession
<1>3. capacity \in [{"offsets", "edges"} -> Nat]
  BY DEF InitSession
<1> QED
  BY <1>1, <1>2, <1>3, TypesOfRuntime DEF SInv, CompiledIsCurrent, KernelAccepted

(* The commands of the shell. *)
LEMMA ShellInv == SInv /\ Shell => SInv'
<1> SUFFICES ASSUME SInv, Shell PROVE SInv'
  OBVIOUS
<1>1. /\ phase = "idle" /\ IInv /\ SessionTypeOK /\ TypeOK
      /\ cur = 0 /\ next_active = {}
  BY DEF Shell, ShellLoadProgram, ShellLoadGraph, ShellLoadConfig, ShellRun, load_program,
         load_graph, SInv, Alive, IInv, IdleInv
<1>2. CASE \E p \in Programs : ShellLoadProgram(p)
  <2>1. PICK p \in Programs : ShellLoadProgram(p)
    BY <1>2
  <2>2. load_program(p) /\ compiled' = NoKernel
        /\ UNCHANGED <<config, initialized, live, capacity>>
    BY <2>1 DEF ShellLoadProgram
  <2>3. IInv'
    BY <1>1, <2>2, HostInv DEF Host
  <2>4. TypeOK'
    BY <2>3 DEF IInv
  <2>5. SessionTypeOK'
    BY <1>1, <2>2, <2>4 DEF SessionTypeOK, TypeOK
  <2> QED
    BY <2>2, <2>3, <2>5 DEF SInv, CompiledIsCurrent, KernelAccepted
<1>3. CASE \E g \in Graphs : ShellLoadGraph(g)
  <2>1. PICK g \in Graphs : ShellLoadGraph(g)
    BY <1>3
  <2> DEFINE size == [offsets |-> g.num_vertices + 1, edges |-> g.num_edges]
  <2>2. /\ load_graph(g) /\ UNCHANGED <<config, compiled, initialized>>
        /\ capacity' = [a \in DOMAIN size |-> IF size[a] > capacity[a] THEN size[a] ELSE capacity[a]]
        /\ live' = {a \in live \ {"vertices"} : size[a] <= capacity[a]}
    BY <2>1 DEF ShellLoadGraph
  <2>3. IInv'
    BY <1>1, <2>2, HostInv DEF Host
  <2>4. TypeOK' /\ phase' = "idle" /\ program' = program
    BY <1>1, <2>2, <2>3 DEF IInv, load_graph
  <2>5. g.num_vertices + 1 \in Nat /\ g.num_edges \in Nat
    BY GraphsAssumption DEF IsGraph
  <2>6. DOMAIN size = {"offsets", "edges"} /\ \A a \in DOMAIN size : size[a] \in Nat
    BY <2>5
  <2>7. capacity \in [{"offsets", "edges"} -> Nat]
    BY <1>1 DEF SessionTypeOK
  <2> HIDE DEF size
  <2>8. capacity' \in [{"offsets", "edges"} -> Nat]
    BY <2>2, <2>6, <2>7
  <2>9. SessionTypeOK'
    BY <1>1, <2>2, <2>4, <2>8 DEF SessionTypeOK, TypeOK
  <2> QED
    BY <2>2, <2>3, <2>4, <2>9 DEF SInv, CompiledIsCurrent, KernelAccepted
<1>4. CASE \E file \in ConfigFiles : ShellLoadConfig(file)
  <2>1. PICK file \in ConfigFiles : ShellLoadConfig(file)
    BY <1>4
  <2>2. IsConfig(config') /\ UNCHANGED <<vars, jitVars>>
    BY <2>1, ConfigsAssumption DEF ShellLoadConfig
  <2>3. IInv'
    BY <1>1, <2>2 DEF vars, IInv, TypeOK, KernelInv, IdleInv, V
  <2>4. SessionTypeOK'
    BY <1>1, <2>2 DEF vars, jitVars, SessionTypeOK, V
  <2> QED
    BY <2>2, <2>3, <2>4 DEF SInv, CompiledIsCurrent, KernelAccepted, vars, jitVars
<1>5. CASE ShellRun
  <2>1. /\ active' \subseteq V /\ v_self' = [v \in V |-> SeedOf(v)] /\ phase' = "scan" /\ cur' = 0
        /\ UNCHANGED <<graph, program, v_out, next_active, updates, ctx, pc, config, jitVars>>
    BY <1>5 DEF ShellRun
  <2>2. \A v \in V : SeedOf(v) \in Double
    BY <1>1 DEF SessionTypeOK, IsConfig, SeedOf, Setting
  <2>3. v_self' \in [V -> Double]
    BY <2>1, <2>2
  <2>4. cur' \in 0 .. graph.num_vertices
    BY <1>1, <2>1, LoadedGraph
  <2>5. TypeOK'
    BY <1>1, <2>1, <2>3, <2>4 DEF TypeOK, V
  <2>6. SessionTypeOK'
    BY <1>1, <2>1, <2>5 DEF SessionTypeOK, TypeOK, jitVars
  <2>7. IInv'
    BY <2>1, <2>5 DEF IInv, KernelInv, IdleInv
  <2> QED
    BY <1>1, <2>1, <2>6, <2>7 DEF SInv, CompiledIsCurrent, KernelAccepted, jitVars
<1> QED
  BY <1>2, <1>3, <1>4, <1>5 DEF Shell

(* The steps of run that are those of the interpreter's run. *)
LEMMA SharedStepInv ==
  ASSUME SInv, RunStep, UNCHANGED <<config, jitVars>>,
         compiled # NoKernel => (phase' # "kernel" \/ pc' \in DOMAIN compiled \cup {-1})
  PROVE  SInv'
<1>1. phase \in {"scan", "kernel"}
  BY DEF RunStep, SkipInactive, LoadContext, LocalStep, GraphStep, SystemStep, Dispatch,
         StoreContext, Barrier, StopInactive, StopConverged, NextSuperstep, Commit
<1>2. IInv'
  BY <1>1, RunInv DEF SInv, Alive
<1>3. UNCHANGED <<config, compiled, initialized, live, capacity>>
  BY DEF jitVars
<1>4. SessionTypeOK'
  BY <1>2, <1>3 DEF SInv, IInv, TypeOK, SessionTypeOK
<1>5. program' = program
  BY DEF RunStep, SkipInactive, LoadContext, LocalStep, GraphStep, SystemStep, Dispatch,
         StoreContext, Barrier, StopInactive, StopConverged, NextSuperstep, Commit
<1> QED
  BY <1>2, <1>3, <1>4, <1>5 DEF SInv, CompiledIsCurrent, KernelAccepted

LEMMA CompileInv == SInv /\ Compile => SInv'
<1> SUFFICES ASSUME SInv, Compile PROVE SInv'
  OBVIOUS
<1> DEFINE lir     == lower(program)
           outcome == CompileOutcome(lir)
<1>1. /\ phase = "scan" /\ compiled = NoKernel /\ initialized' = TRUE
      /\ live' = IF initialized THEN live ELSE Arrays
      /\ compiled' = IF outcome = "kernel" THEN lir ELSE NoKernel
      /\ phase' = CASE outcome = "kernel"    -> "scan"
                    [] outcome = "exception" -> "exited"
                    [] OTHER                 -> "undefined"
      /\ UNCHANGED <<graph, program, v_self, v_out, active, next_active, updates,
                     cur, ctx, pc, config, capacity>>
  BY DEF Compile, MustCompile
<1>2. phase' \in {"scan", "exited", "undefined"}
  <2> HIDE DEF outcome
  <2> QED
    BY <1>1
<1>3. IInv /\ SessionTypeOK
  BY <1>1 DEF SInv, Alive
<1>4. SessionTypeOK'
  BY <1>1, <1>2, <1>3 DEF SessionTypeOK, V
<1>5. Alive' => IInv'
  BY <1>1, <1>2, <1>3 DEF Alive, IInv, TypeOK, KernelInv, IdleInv, V
<1>6. CompiledIsCurrent'
  BY <1>1, <1>2 DEF CompiledIsCurrent
<1>7. KernelAccepted'
  BY <1>1 DEF KernelAccepted
<1> QED
  BY <1>4, <1>5, <1>6, <1>7 DEF SInv

LEMMA EnterKernelInv == SInv /\ EnterKernel => SInv'
<1> SUFFICES ASSUME SInv, EnterKernel PROVE SInv'
  OBVIOUS
<1>1. PICK regs \in [Reg -> Leftovers] :
        ctx' = [load_context(graph, v_self, v_out, cur) EXCEPT !.regs = regs]
  BY DEF EnterKernel
<1>2. /\ compiled # NoKernel /\ phase = "scan" /\ cur \in V /\ cur \in active
      /\ phase' = "kernel" /\ pc' = 0
      /\ UNCHANGED <<graph, program, v_self, v_out, active, next_active, updates, cur,
                     config, compiled, initialized, live, capacity>>
  BY DEF EnterKernel, jitVars
<1>3. IInv /\ TypeOK /\ SessionTypeOK
  BY <1>2 DEF SInv, Alive, IInv
<1>4. IsGraph(graph) /\ V = Vertices(graph)
  BY <1>2, <1>3, LoadedGraph DEF V
<1> DEFINE c == load_context(graph, v_self, v_out, cur)
<1>5. c \in Context /\ c.v_self = v_self[cur] /\ IteratorAt(c, graph, v_self, cur)
  BY <1>2, <1>3, <1>4, LoadType DEF TypeOK
<1>6. regs \in [Reg -> Double]
  BY LeftoversAssumption
<1> HIDE DEF c
<1>7. /\ ctx' \in Context /\ ctx'.v_self = v_self[cur]
      /\ IteratorAt(ctx', graph, v_self, cur)
  BY <1>1, <1>5, <1>6 DEF c, Context, IteratorAt
<1>8. TypeOK' /\ SessionTypeOK'
  BY <1>2, <1>3, <1>7 DEF TypeOK, SessionTypeOK, V
<1>9. IInv'
  BY <1>2, <1>7, <1>8 DEF IInv, KernelInv, IdleInv, V
<1>10. 0 \in DOMAIN compiled
  <2>1. compiled = lower(program) /\ CompileOutcome(compiled) = "kernel"
    BY <1>2 DEF SInv, CompiledIsCurrent, KernelAccepted
  <2>2. DOMAIN compiled # {}
    BY <2>1 DEF CompileOutcome
  <2> QED
    BY <1>3, <2>1, <2>2, LoadedProgram, LoweredAt, KeptFinite
<1> QED
  BY <1>2, <1>8, <1>9, <1>10 DEF SInv, CompiledIsCurrent, KernelAccepted

LEMMA NativeStepInv == SInv /\ NativeStep => SInv'
<1> SUFFICES ASSUME SInv, NativeStep PROVE SInv'
  OBVIOUS
<1> DEFINE l    == compiled[pc]
           turn == LExecute(ctx, pc, compiled, graph, v_self, cur)
<1>1. /\ phase = "kernel" /\ compiled # NoKernel /\ pc \in DOMAIN compiled
      /\ ctx' = turn.ctx /\ pc' = turn.pc
      /\ next_active' = next_active \cup LScattered(l, ctx, graph, cur)
      /\ updates' = (updates + LVotes(l)) % UpdatesMod
      /\ UNCHANGED <<graph, program, v_self, v_out, active, phase, cur, config,
                     compiled, initialized, live, capacity>>
  BY DEF NativeStep, InKernel, jitVars
<1>2. /\ IInv /\ TypeOK /\ SessionTypeOK
      /\ compiled = lower(program) /\ CompileOutcome(compiled) = "kernel"
  BY <1>1 DEF SInv, Alive, IInv, CompiledIsCurrent, KernelAccepted
<1>3. /\ cur \in V /\ cur \in active /\ ctx.v_self = v_self[cur]
      /\ IteratorAt(ctx, graph, v_self, cur)
  BY <1>1, <1>2 DEF IInv, KernelInv
<1>4. IsGraph(graph) /\ IsProgram(program) /\ V = Vertices(graph)
  BY <1>2, <1>3, LoadedGraph, LoadedProgram DEF V
<1>5. ctx \in Context /\ v_self \in [Vertices(graph) -> Double]
  BY <1>2 DEF TypeOK, V
<1>6. /\ turn.ctx \in Context /\ turn.pc \in DOMAIN compiled \cup {-1}
      /\ turn.ctx.v_self = ctx.v_self /\ IteratorAt(turn.ctx, graph, v_self, cur)
  BY <1>1, <1>2, <1>3, <1>4, <1>5, LExecuteType
<1>7. turn.pc \in Int
  BY <1>2, <1>4, <1>6, LoweredAt, KeptFinite
<1>8. LScattered(l, ctx, graph, cur) \subseteq V
  BY <1>3, <1>4, RowBounds DEF LScattered
<1>9. updates' \in 0 .. UpdatesMod - 1
  <2>1. LVotes(l) \in {0, 1} /\ updates \in Nat /\ UpdatesMod \in Nat \ {0}
    BY <1>2, UpdatesAssumption DEF TypeOK, LVotes
  <2> QED
    BY <1>1, <2>1
<1> HIDE DEF l, turn
<1>10. TypeOK' /\ SessionTypeOK'
  BY <1>1, <1>2, <1>6, <1>7, <1>8, <1>9 DEF TypeOK, SessionTypeOK, V
<1>11. IInv'
  BY <1>1, <1>3, <1>6, <1>10 DEF IInv, KernelInv, IdleInv, V
<1> QED
  BY <1>1, <1>2, <1>6, <1>10, <1>11 DEF SInv, CompiledIsCurrent, KernelAccepted

LEMMA NativeStrayInv == SInv /\ NativeStray => SInv'
<1> SUFFICES ASSUME SInv, NativeStray PROVE SInv'
  OBVIOUS
<1>1. /\ phase' = "undefined"
      /\ UNCHANGED <<graph, program, v_self, v_out, active, next_active, updates,
                     cur, ctx, pc, config, compiled, initialized, live, capacity>>
  BY DEF NativeStray, jitVars
<1>2. SessionTypeOK'
  BY <1>1 DEF SInv, SessionTypeOK, V
<1> QED
  BY <1>1, <1>2 DEF SInv, CompiledIsCurrent, KernelAccepted, Alive

LEMMA RunSessionInv == SInv /\ RunSession => SInv'
<1> SUFFICES ASSUME SInv, RunSession PROVE SInv'
  OBVIOUS
<1>1. CASE Compile
  BY <1>1, CompileInv
<1>2. CASE Scan
  <2>1. SkipInactive /\ UNCHANGED <<config, jitVars>> /\ phase' = "scan"
    BY <1>2 DEF Scan, SkipInactive
  <2> QED
    BY <2>1, SharedStepInv DEF RunStep
<1>3. CASE InterpretedKernel
  BY <1>3, SharedStepInv DEF InterpretedKernel, RunStep
<1>4. CASE EndSuperstep
  <2>1. Barrier /\ UNCHANGED <<config, jitVars>> /\ phase' # "kernel"
    BY <1>4 DEF EndSuperstep, Barrier, StopInactive, StopConverged, NextSuperstep
  <2> QED
    BY <2>1, SharedStepInv DEF RunStep
<1>5. CASE EnterKernel
  BY <1>5, EnterKernelInv
<1>6. CASE NativeStep
  BY <1>6, NativeStepInv
<1>7. CASE NativeStray
  BY <1>7, NativeStrayInv
<1>8. CASE LeaveKernel
  <2>1. StoreContext /\ UNCHANGED <<config, jitVars>> /\ phase' = "scan"
    BY <1>8 DEF LeaveKernel, StoreContext
  <2> QED
    BY <2>1, SharedStepInv DEF RunStep
<1> QED
  BY <1>1, <1>2, <1>3, <1>4, <1>5, <1>6, <1>7, <1>8 DEF RunSession

(* The inductive invariant of the sessions: the types, a compiled kernel that is*)
(* the lowered form of the program loaded, and the invariant of the interpreted*)
(* runs wherever the pointers that the compiler captured are still valid.      *)
THEOREM SessionInvariance == SpecSession => []SInv
<1>1. SInv /\ UNCHANGED allVars => SInv'
  BY DEF allVars, vars, jitVars, SInv, SessionTypeOK, CompiledIsCurrent, KernelAccepted,
         Alive, IInv, TypeOK, KernelInv, IdleInv, V
<1>2. SInv /\ [NextSession]_allVars => SInv'
  BY <1>1, ShellInv, RunSessionInv DEF NextSession
<1> QED
  BY <1>2, InitSessionInv, PTL DEF SpecSession

-----------------------------------------------------------------------------
(* The types of the runtime and of the compiler's state, in every session. *)
THEOREM SessionTypes == SpecSession => []SessionTypeOK
<1>1. SInv => SessionTypeOK
  BY DEF SInv
<1> QED
  BY <1>1, SessionInvariance, PTL

(* No run executes the kernel of a program loaded before.                     *)
THEOREM NoStaleKernel == SpecSession => []CompiledIsCurrent
<1>1. SInv => CompiledIsCurrent
  BY DEF SInv
<1> QED
  BY <1>1, SessionInvariance, PTL

(* What a kernel has copied from the arrays is current, compiled or not.      *)
THEOREM SessionCurrency == SpecSession => []IteratorCurrent
<1>1. SInv => IteratorCurrent
  BY DEF SInv, Alive, IInv, KernelInv, IteratorCurrent, IteratorAt
<1> QED
  BY <1>1, SessionInvariance, PTL

(* No mark outlives the run that made it, whichever engine ran.               *)
THEOREM SessionMarksConsumed == SpecSession => []NoMarkOutlivesRun
<1>1. SInv => NoMarkOutlivesRun
  BY DEF SInv, Alive, IInv, IdleInv, NoMarkOutlivesRun
<1> QED
  BY <1>1, SessionInvariance, PTL

(* Superstep consistency of every session: the values that kernels read, also *)
(* those that compiled code reads, change during a run only at the barrier or *)
(* when the run sets the vertices up.                                         *)
THEOREM SessionConsistency == SpecSession => ReadsPreviousSuperstep
<1>1. SInv /\ [NextSession]_allVars =>
        [phase # "idle" /\ v_self' # v_self
           => cur = graph.num_vertices /\ v_self' = v_out]_vars
  <2> SUFFICES ASSUME SInv, NextSession, phase # "idle", v_self' # v_self
               PROVE  cur = graph.num_vertices /\ v_self' = v_out
    BY DEF vars, allVars
  <2>1. ~Shell
    BY DEF Shell, ShellLoadProgram, ShellLoadGraph, ShellLoadConfig, ShellRun, load_program,
           load_graph
  <2>2. CASE EndSuperstep
    BY <2>2 DEF EndSuperstep, Barrier, StopInactive, StopConverged, NextSuperstep, Commit
  <2>3. ~StoreContext
    <3>1. StoreContext => IInv
      BY DEF StoreContext, SInv, Alive
    <3> QED
      BY <3>1, StoreKeepsValues
  <2>4. CASE RunSession /\ ~EndSuperstep
    BY <2>3, <2>4 DEF RunSession, Compile, Scan, SkipInactive, InterpretedKernel, LoadContext,
                      LocalStep, GraphStep, SystemStep, Dispatch, EnterKernel, NativeStep,
                      NativeStray, LeaveKernel
  <2> QED
    BY <2>1, <2>2, <2>4 DEF NextSession
<1> QED
  BY <1>1, SessionInvariance, PTL DEF SpecSession, ReadsPreviousSuperstep

(* A run, of either engine, writes the next value of a vertex only when it    *)
(* leaves the kernel of that vertex, an active one.                           *)
THEOREM SessionLocalWrites == SpecSession => WritesAreLocal
<1>1. SInv /\ [NextSession]_allVars =>
        [phase # "idle" =>
           \A v \in V : v_out'[v] # v_out[v] => v = cur /\ v \in active]_vars
  <2> SUFFICES ASSUME SInv, NextSession, phase # "idle", NEW v \in V, v_out'[v] # v_out[v]
               PROVE  v = cur /\ v \in active
    BY DEF vars, allVars
  <2>1. ~Shell
    BY DEF Shell, ShellLoadProgram, ShellLoadGraph, ShellLoadConfig, ShellRun, load_program,
           load_graph
  <2>2. StoreContext
    BY <2>1 DEF NextSession, RunSession, Compile, Scan, SkipInactive, InterpretedKernel,
                LoadContext, LocalStep, GraphStep, SystemStep, Dispatch, EndSuperstep, Barrier,
                StopInactive, StopConverged, NextSuperstep, Commit, EnterKernel, NativeStep,
                NativeStray, LeaveKernel
  <2>3. IInv
    BY <2>2 DEF StoreContext, SInv, Alive
  <2> QED
    BY <2>2, <2>3 DEF StoreContext, IInv, TypeOK, KernelInv
<1> QED
  BY <1>1, SessionInvariance, PTL DEF SpecSession, WritesAreLocal

-----------------------------------------------------------------------------
(* The invariant of the machine that the debugger shares with the runs: the   *)
(* marks may outlive a run here, since a session leaves its own behind.       *)
DebugInv == StateInv /\ dpc \in Int

LEMMA InitDebugInv == InitLoaded => DebugInv
<1> SUFFICES ASSUME InitLoaded PROVE DebugInv
  OBVIOUS
<1>1. IsGraph(graph) /\ graph.num_vertices \in Nat
  BY GraphsAssumption DEF InitLoaded, IsGraph
<1>2. v_self \in [V -> Double] /\ v_out \in [V -> Double]
  BY ZeroVector, SeedsAssumption DEF InitLoaded
<1>3. TypeOK
  BY <1>1, <1>2, NoContextType, UpdatesAssumption DEF InitLoaded, TypeOK
<1> QED
  BY <1>3 DEF InitLoaded, DebugInv, StateInv, KernelInv, AtRest

(* What one instruction of a session does: the value that load_context read   *)
(* is the value stored back, and the end of the superstep is never reached,   *)
(* because the vertex it would be reached at does not exist.                  *)
LEMMA TurnIs ==
  ASSUME DebugInv, Turn
  PROVE  LET before == load_context(graph, v_self, v_out, current_vertex)
             inst   == Fetch(program, dpc)
             after  == Execute(before, dpc, graph, program, v_self, current_vertex)
         IN  /\ current_vertex \in V /\ Running(program, dpc) /\ IsGraph(graph)
             /\ after.ctx \in Context /\ after.pc \in Int
             /\ v_out' = [v_out EXCEPT ![current_vertex] = after.ctx.v_out]
             /\ next_active' = next_active \cup Scattered(inst, before, graph, current_vertex)
             /\ updates' = (updates + Votes(inst)) % UpdatesMod
             /\ dpc' = (IF after.pc < 0 THEN 0 ELSE after.pc)
             /\ current_vertex' = (IF after.pc < 0 THEN current_vertex + 1 ELSE current_vertex)
             /\ UNCHANGED <<graph, program, v_self, active, phase, cur, ctx, pc,
                            breakpoints, clean>>
<1> DEFINE before == load_context(graph, v_self, v_out, current_vertex)
           inst   == Fetch(program, dpc)
           after  == Execute(before, dpc, graph, program, v_self, current_vertex)
<1>1. current_vertex \in V /\ Running(program, dpc) /\ TypeOK /\ dpc \in Int
  BY DEF Turn, InRange, DebugInv, StateInv
<1>2. IsGraph(graph) /\ IsProgram(program) /\ current_vertex \in Vertices(graph)
  BY <1>1, LoadedGraph, LoadedProgram DEF V
<1>3. v_self \in [Vertices(graph) -> Double] /\ v_out \in [Vertices(graph) -> Double]
  BY <1>1 DEF TypeOK, V
<1>4. /\ before \in Context /\ before.v_self = v_self[current_vertex]
      /\ IteratorAt(before, graph, v_self, current_vertex)
  BY <1>2, <1>3, LoadType
<1> HIDE DEF before
<1>5. after.ctx \in Context /\ after.pc \in Int /\ after.ctx.v_self = before.v_self
  BY <1>1, <1>2, <1>3, <1>4, ExecuteType
<1>6. /\ v_out' = [v_out EXCEPT ![current_vertex] = after.ctx.v_out]
      /\ check_finished(after.pc,
           next_active \cup Scattered(inst, before, graph, current_vertex),
           (updates + Votes(inst)) % UpdatesMod,
           [v_self EXCEPT ![current_vertex] = after.ctx.v_self])
      /\ UNCHANGED <<graph, program, phase, cur, ctx, pc, breakpoints, clean>>
  BY DEF Turn, before
<1> HIDE DEF after, inst
<1>7. current_vertex # graph.num_vertices
  BY <1>2 DEF IsGraph, Vertices
<1>8. [v_self EXCEPT ![current_vertex] = after.ctx.v_self] = v_self
  BY <1>2, <1>3, <1>4, <1>5
<1> QED
  BY <1>1, <1>2, <1>5, <1>6, <1>7, <1>8 DEF check_finished, before, after, inst

LEMMA TurnInv == DebugInv /\ Turn => DebugInv'
<1> SUFFICES ASSUME DebugInv, Turn PROVE DebugInv'
  OBVIOUS
<1> DEFINE before == load_context(graph, v_self, v_out, current_vertex)
           inst   == Fetch(program, dpc)
           after  == Execute(before, dpc, graph, program, v_self, current_vertex)
<1>1. /\ current_vertex \in V /\ IsGraph(graph)
      /\ after.ctx \in Context /\ after.pc \in Int
      /\ v_out' = [v_out EXCEPT ![current_vertex] = after.ctx.v_out]
      /\ next_active' = next_active \cup Scattered(inst, before, graph, current_vertex)
      /\ updates' = (updates + Votes(inst)) % UpdatesMod
      /\ dpc' = (IF after.pc < 0 THEN 0 ELSE after.pc)
      /\ UNCHANGED <<graph, program, v_self, active, phase, cur, ctx, pc>>
  BY TurnIs
<1>2. Scattered(inst, before, graph, current_vertex) \subseteq V /\ Votes(inst) \in {0, 1}
  BY <1>1, ScatteredType, EffectsOfOps DEF V
<1> HIDE DEF before, inst, after
<1>3. TypeOK /\ KernelInv /\ AtRest
  BY DEF DebugInv, StateInv
<1>4. v_out' \in [V -> Double]
  BY <1>1, <1>3 DEF TypeOK, Context
<1>5. updates' \in 0 .. UpdatesMod - 1
  <2>1. updates + Votes(inst) \in Nat /\ UpdatesMod \in Nat \ {0}
    BY <1>2, <1>3, UpdatesAssumption DEF TypeOK
  <2> QED
    BY <1>1, <2>1
<1>6. TypeOK'
  BY <1>1, <1>2, <1>3, <1>4, <1>5 DEF TypeOK, V
<1>7. dpc' \in Int
  BY <1>1
<1> QED
  BY <1>1, <1>3, <1>6, <1>7 DEF DebugInv, StateInv, KernelInv, AtRest, V

(* The debugger takes a turn or leaves the machine as it is. *)
LEMMA DebuggerMoves ==
  DebugNext => /\ Turn \/ UNCHANGED <<vars, dpc, current_vertex, clean>>
               /\ UNCHANGED clean
BY DEF DebugNext, debug_add_breakpoint, debug_step, debug_continue, ContinueTurn, ContinueBreak,
       Fault, Turn, dbg

LEMMA SameMachine == DebugInv /\ UNCHANGED <<vars, dpc>> => DebugInv'
BY DEF DebugInv, StateInv, TypeOK, KernelInv, AtRest, vars, V

LEMMA ElsewhereInv == DebugInv /\ Elsewhere => DebugInv'
<1> SUFFICES ASSUME DebugInv, Elsewhere PROVE DebugInv'
  OBVIOUS
<1>1. Host \/ RunStep
  BY DEF Elsewhere
<1>2. dpc' = dpc
  BY DEF Elsewhere, dbg
<1> QED
  BY <1>1, <1>2, HostKeeps, RunKeeps DEF DebugInv

LEMMA DebugInvariance == SpecDebug => []DebugInv
<1>1. DebugInv /\ [DebugNext \/ Elsewhere]_allvars => DebugInv'
  <2>1. UNCHANGED allvars => UNCHANGED <<vars, dpc>>
    BY DEF allvars, dbg
  <2>2. UNCHANGED <<vars, dpc, current_vertex, clean>> => UNCHANGED <<vars, dpc>>
    OBVIOUS
  <2> QED
    BY <2>1, <2>2, TurnInv, DebuggerMoves, SameMachine, ElsewhereInv
<1> QED
  BY <1>1, InitDebugInv, PTL DEF SpecDebug

(* Within a superstep an instruction of a session writes the next value of    *)
(* the vertex it is at, marks of its out-neighbours and a vote, and nothing   *)
(* else that runs read; the session moves on when the kernel has ended.       *)
THEOREM SessionsAreLocal == SpecDebug => SessionIsLocal
<1> DEFINE Local ==
      /\ v_self' = v_self /\ active' = active
      /\ \A v \in V \ {current_vertex} : v_out'[v] = v_out[v]
      /\ next_active \subseteq next_active'
      /\ next_active' \ next_active \subseteq OutNeighbors(graph, current_vertex)
      /\ updates' \in {updates, (updates + 1) % UpdatesMod}
      /\ current_vertex' = IF KernelEnds THEN current_vertex + 1 ELSE current_vertex
<1>1. ASSUME DebugInv, Turn PROVE Local
  <2> DEFINE before == load_context(graph, v_self, v_out, current_vertex)
             inst   == Fetch(program, dpc)
             after  == Execute(before, dpc, graph, program, v_self, current_vertex)
             X      == Scattered(inst, before, graph, current_vertex)
  <2>1. /\ v_self' = v_self /\ active' = active
        /\ v_out' = [v_out EXCEPT ![current_vertex] = after.ctx.v_out]
        /\ next_active' = next_active \cup X
        /\ updates' = (updates + Votes(inst)) % UpdatesMod
        /\ current_vertex' = (IF after.pc < 0 THEN current_vertex + 1 ELSE current_vertex)
    BY <1>1, TurnIs
  <2>2. KernelEnds <=> after.pc < 0
    BY DEF KernelEnds
  <2>3. X \subseteq OutNeighbors(graph, current_vertex)
    BY DEF Scattered
  <2>4. Votes(inst) \in {0, 1}
    BY DEF Votes
  <2> HIDE DEF before, inst, after, X
  <2>5. v_out \in [V -> Double] /\ updates \in 0 .. UpdatesMod - 1
    BY <1>1 DEF DebugInv, StateInv, TypeOK
  <2>6. \A v \in V \ {current_vertex} : v_out'[v] = v_out[v]
    BY <2>1, <2>5
  <2>7. updates' \in {updates, (updates + 1) % UpdatesMod}
    <3>1. CASE Votes(inst) = 0
      <4>1. updates + 0 = updates /\ updates % UpdatesMod = updates
        BY <2>5, UpdatesAssumption
      <4> QED
        BY <2>1, <3>1, <4>1
    <3>2. CASE Votes(inst) = 1
      BY <2>1, <3>2
    <3> QED
      BY <2>4, <3>1, <3>2
  <2> QED
    BY <2>1, <2>2, <2>3, <2>6, <2>7
<1>2. DebugInv => [Turn /\ ~SuperstepEnds => Local]_allvars
  <2> HIDE DEF Local
  <2> QED
    BY <1>1
<1> QED
  BY <1>2, DebugInvariance, PTL DEF SessionIsLocal

-----------------------------------------------------------------------------
(* What is known of a session from its start on, until something other than   *)
(* the debugger is called: in a straight-line kernel the pc has passed every  *)
(* instruction below it and no HALT, and the vertices below the current one   *)
(* have been run to the first HALT.                                           *)
Halts(i) == program.code[i].op = "HALT"

MarkingVertices == {u \in V : Passed("SCATTER", At(u)) # {}}
VotingTurns ==
  {turn \in V \X (0 .. Len(program.code)) : turn[2] \in Passed("VOTE_CHANGE", At(turn[1]))}

Standing ==
  /\ current_vertex \in Nat
  /\ dpc \in 0 .. Len(program.code)
  /\ \A i \in 1 .. dpc : ~Halts(i)
  /\ current_vertex > 0 => \E i \in DOMAIN program.code : Halts(i)

Counted ==
  /\ next_active = UNION {OutNeighbors(graph, v) : v \in MarkingVertices}
  /\ updates = Cardinality(VotingTurns) % UpdatesMod

OnceInv == clean => phase = "idle" /\ (StraightLine => Standing /\ Counted)

(* The effect of an instruction of a straight-line kernel. *)
LEMMA StraightTurn ==
  ASSUME NEW inst, NEW c, NEW i \in Nat, NEW g, NEW p, NEW vs, NEW v, inst = Fetch(p, i),
         inst.op \notin {"JMP", "JZ", "JNZ", "ITER_NEIGHBORS", "END_ITER", "SCATTER_IF"}
  PROVE  Execute(c, i, g, p, vs, v).pc = IF inst.op = "HALT" THEN -1 ELSE i + 1
<1>1. exec_control(inst, c, i) = IF inst.op = "HALT" THEN -1 ELSE i
  BY DEF exec_control
<1>2. exec_graph(inst, c, g, vs, v, i).pc = i
  BY DEF exec_graph
<1>3. Advance(-1) = -1 /\ Advance(i) = i + 1
  BY DEF Advance
<1>4. CASE inst.op \in ControlOps
  <2>1. inst.op \notin AluOps \cup MemoryOps \cup GraphOps
    BY <1>4 DEF ControlOps, AluOps, MemoryOps, GraphOps
  <2>2. Execute(c, i, g, p, vs, v).pc = Advance(exec_control(inst, c, i))
    BY <1>4, <2>1, Zenon DEF Execute
  <2> QED
    BY <1>1, <1>3, <2>2
<1>5. CASE inst.op \notin ControlOps
  <2>1. inst.op # "HALT"
    BY <1>5 DEF ControlOps
  <2>2. Execute(c, i, g, p, vs, v).pc = Advance(i)
    BY <1>2, <1>5, Zenon DEF Execute
  <2> QED
    BY <1>3, <2>1, <2>2
<1> QED
  BY <1>4, <1>5

LEMMA StraightEffects ==
  ASSUME NEW inst, NEW c, NEW g, NEW v, inst.op # "SCATTER_IF"
  PROVE  /\ Scattered(inst, c, g, v) = IF inst.op = "SCATTER" THEN OutNeighbors(g, v) ELSE {}
         /\ Votes(inst) = IF inst.op = "VOTE_CHANGE" THEN 1 ELSE 0
BY DEF Scattered, Votes

(* The first HALT is where the pc finds one having passed none. *)
LEMMA FirstHalt ==
  ASSUME NEW i \in DOMAIN program.code, IsProgram(program), Halts(i),
         \A j \in 1 .. i - 1 : ~Halts(j)
  PROVE  KernelEnd = i
<1> DEFINE First(k) == program.code[k].op = "HALT"
                       /\ \A j \in 1 .. k - 1 : program.code[j].op # "HALT"
<1>1. DOMAIN program.code = 1 .. Len(program.code) /\ Len(program.code) \in Nat
  BY DEF IsProgram
<1>2. First(i)
  BY DEF Halts
<1>3. ASSUME NEW k \in DOMAIN program.code, First(k) PROVE k = i
  <2>1. k \in Int /\ i \in Int /\ 1 <= k /\ 1 <= i
    BY <1>1
  <2>2. ~(k < i) /\ ~(i < k)
    BY <1>2, <1>3, <2>1
  <2> QED
    BY <2>1, <2>2
<1>4. KernelEnd = CHOOSE k \in DOMAIN program.code : First(k)
  BY DEF KernelEnd
<1> HIDE DEF First
<1>5. \E k \in DOMAIN program.code : First(k)
  BY <1>2
<1> QED
  BY <1>3, <1>4, <1>5

(* Sets of earlier instructions. *)
LEMMA PassedGrows ==
  ASSUME NEW op, NEW i \in Nat
  PROVE  /\ Passed(op, 0) = {}
         /\ Passed(op, i + 1) = Passed(op, i) \cup (IF Fetch(program, i).op = op THEN {i} ELSE {})
         /\ i \notin Passed(op, i)
<1>1. 0 .. 0 - 1 = {} /\ 0 .. (i + 1) - 1 = (0 .. i - 1) \cup {i} /\ i \notin 0 .. i - 1
  OBVIOUS
<1> QED
  BY <1>1 DEF Passed

LEMMA InitOnce == InitLoaded => OnceInv
<1> SUFFICES ASSUME InitLoaded PROVE OnceInv
  OBVIOUS
<1>1. TypeOK /\ IsProgram(program)
  BY InitDebugInv, LoadedProgram DEF DebugInv, StateInv
<1>2. V \subseteq Nat
  BY <1>1, LoadedGraph
<1>3. \A v \in V : At(v) = 0
  BY <1>2 DEF InitLoaded, At
<1>4. \A op : Passed(op, 0) = {}
  BY PassedGrows
<1>5. MarkingVertices = {} /\ VotingTurns = {}
  BY <1>3, <1>4 DEF MarkingVertices, VotingTurns
<1>6. updates = Cardinality(VotingTurns) % UpdatesMod
  <2>1. Cardinality({}) = 0
    BY FS_EmptySet
  <2> QED
    BY <1>5, <2>1, UpdatesAssumption DEF InitLoaded
<1> QED
  BY <1>1, <1>5, <1>6 DEF InitLoaded, OnceInv, Standing, Counted, IsProgram

(* After a turn the current vertex has passed one instruction more, and every *)
(* other vertex is where it was.                                              *)
LEMMA TurnPasses ==
  ASSUME DebugInv, Turn, StraightLine, Standing
  PROVE  /\ Standing' /\ dpc \in Nat /\ dpc < Len(program.code)
         /\ At(current_vertex) = dpc
         /\ \A v \in V : At(v)' = IF v = current_vertex THEN dpc + 1 ELSE At(v)
<1> DEFINE inst  == Fetch(program, dpc)
           after == Execute(load_context(graph, v_self, v_out, current_vertex), dpc,
                            graph, program, v_self, current_vertex)
           w     == current_vertex
<1>1. /\ w \in V /\ Running(program, dpc)
      /\ dpc' = (IF after.pc < 0 THEN 0 ELSE after.pc)
      /\ w' = (IF after.pc < 0 THEN w + 1 ELSE w)
      /\ program' = program /\ graph' = graph
  BY TurnIs
<1>2. IsProgram(program) /\ Len(program.code) \in Nat /\ V \subseteq Nat
      /\ DOMAIN program.code = 1 .. Len(program.code)
  BY LoadedProgram, LoadedGraph DEF DebugInv, StateInv, IsProgram
<1>3. dpc \in Nat /\ dpc < Len(program.code) /\ dpc + 1 \in DOMAIN program.code
  BY <1>1, <1>2 DEF Standing, Running
<1>4. inst = program.code[dpc + 1] /\ (inst.op = "HALT" <=> Halts(dpc + 1))
  BY DEF Fetch, Halts
<1>5. after.pc = IF inst.op = "HALT" THEN -1 ELSE dpc + 1
  BY <1>3, <1>4, StraightTurn DEF StraightLine
<1> HIDE DEF after, inst
<1>6. At(w) = dpc
  BY <1>1, <1>2 DEF At
<1>7. KernelEnd' = KernelEnd
  BY <1>1 DEF KernelEnd
<1>8. \A i : Halts(i)' <=> Halts(i)
  BY <1>1 DEF Halts
<1>9. CASE inst.op = "HALT"
  <2>1. dpc' = 0 /\ w' = w + 1
    BY <1>1, <1>5, <1>9
  <2>2. KernelEnd = dpc + 1
    <3>1. \A j \in 1 .. (dpc + 1) - 1 : ~Halts(j)
      BY <1>3 DEF Standing
    <3> QED
      BY <1>2, <1>3, <1>4, <1>9, <3>1, FirstHalt
  <2>3. Standing'
    BY <1>1, <1>2, <1>3, <1>4, <1>8, <1>9, <2>1 DEF Standing
  <2>4. ASSUME NEW v \in V PROVE At(v)' = IF v = w THEN dpc + 1 ELSE At(v)
    <3>1. v \in Nat /\ w \in Nat
      BY <1>1, <1>2
    <3>2. At(v)' = IF v < w + 1 THEN dpc + 1 ELSE 0
      BY <1>7, <2>1, <2>2 DEF At
    <3>3. At(v) = IF v < w THEN dpc + 1 ELSE IF v = w THEN dpc ELSE 0
      BY <2>2 DEF At
    <3> QED
      BY <3>1, <3>2, <3>3
  <2> QED
    BY <1>3, <1>6, <2>3, <2>4
<1>10. CASE inst.op # "HALT"
  <2>1. dpc' = dpc + 1 /\ w' = w
    BY <1>1, <1>3, <1>5, <1>10
  <2>2. Standing'
    <3>1. \A i \in 1 .. dpc + 1 : i \in 1 .. dpc \/ i = dpc + 1
      BY <1>3
    <3> QED
      BY <1>1, <1>2, <1>3, <1>4, <1>8, <1>10, <2>1, <3>1 DEF Standing
  <2>3. \A v \in V : At(v)' = IF v = w THEN dpc + 1 ELSE At(v)
    BY <1>1, <1>2, <1>7, <2>1 DEF At
  <2> QED
    BY <1>3, <1>6, <2>2, <2>3
<1> QED
  BY <1>9, <1>10

LEMMA VotesFinite == DebugInv => IsFiniteSet(VotingTurns)
<1> SUFFICES ASSUME DebugInv PROVE IsFiniteSet(VotingTurns)
  OBVIOUS
<1> DEFINE n == graph.num_vertices
           m == Len(program.code)
<1>1. n \in Nat /\ m \in Nat
  BY LoadedGraph, LoadedProgram DEF DebugInv, StateInv, IsProgram
<1>2. V = 0 .. n - 1 /\ 0 .. m = 0 .. (m + 1) - 1 /\ m + 1 \in Nat
  BY <1>1 DEF V, Vertices
<1> HIDE DEF n, m
<1>3. IsFiniteSet(V) /\ IsFiniteSet(0 .. m)
  BY <1>1, <1>2, Interval
<1>4. IsFiniteSet(V \X (0 .. m))
  BY <1>3, FS_Product
<1>5. VotingTurns \in SUBSET (V \X (0 .. m))
  BY DEF VotingTurns, m
<1> QED
  BY <1>4, <1>5, FS_Subset

(* One turn adds the vertex to those that have marked, if the instruction is  *)
(* SCATTER, and itself to the turns that have voted, if it is VOTE_CHANGE.    *)
LEMMA TurnCounts ==
  ASSUME DebugInv, Turn, StraightLine, Standing, Counted
  PROVE  Counted'
<1> DEFINE before == load_context(graph, v_self, v_out, current_vertex)
           inst   == Fetch(program, dpc)
           w      == current_vertex
<1>1. /\ w \in V /\ program' = program /\ graph' = graph
      /\ next_active' = next_active \cup Scattered(inst, before, graph, w)
      /\ updates' = (updates + Votes(inst)) % UpdatesMod
  BY TurnIs
<1>2. /\ dpc \in Nat /\ dpc < Len(program.code) /\ At(w) = dpc
      /\ \A v \in V : At(v)' = IF v = w THEN dpc + 1 ELSE At(v)
  BY TurnPasses
<1>3. IsProgram(program) /\ Len(program.code) \in Nat /\ dpc + 1 \in DOMAIN program.code
  <2>1. IsProgram(program) /\ Len(program.code) \in Nat
        /\ DOMAIN program.code = 1 .. Len(program.code)
    BY LoadedProgram DEF DebugInv, StateInv, IsProgram
  <2> QED
    BY <1>2, <2>1
<1>4. inst.op \notin {"JMP", "JZ", "JNZ", "ITER_NEIGHBORS", "END_ITER", "SCATTER_IF"}
  BY <1>3 DEF StraightLine, Fetch
<1>5. /\ Scattered(inst, before, graph, w)
           = IF inst.op = "SCATTER" THEN OutNeighbors(graph, w) ELSE {}
      /\ Votes(inst) = IF inst.op = "VOTE_CHANGE" THEN 1 ELSE 0
  BY <1>4, StraightEffects
<1> HIDE DEF before, inst
<1>7. \A op : /\ Passed(op, dpc + 1) = Passed(op, dpc) \cup (IF inst.op = op THEN {dpc} ELSE {})
             /\ dpc \notin Passed(op, dpc)
  BY <1>2, PassedGrows DEF inst
<1>8. V' = V
  BY <1>1 DEF V
<1>9. ASSUME NEW v \in V, NEW op
      PROVE  Passed(op, At(v))'
               = Passed(op, At(v)) \cup (IF v = w /\ inst.op = op THEN {dpc} ELSE {})
  <2>1. PICK at : at = At(v)'
    OBVIOUS
  <2>2. Passed(op, At(v))' = Passed(op, at)
    BY <1>1, <2>1 DEF Passed
  <2> QED
    BY <1>2, <1>7, <2>1, <2>2
<1>10. next_active' = UNION {OutNeighbors(graph, v) : v \in MarkingVertices'}
  <2>1. MarkingVertices' = MarkingVertices \cup (IF inst.op = "SCATTER" THEN {w} ELSE {})
    BY <1>1, <1>8, <1>9 DEF MarkingVertices
  <2>2. next_active = UNION {OutNeighbors(graph, v) : v \in MarkingVertices}
    BY DEF Counted
  <2>3. CASE inst.op = "SCATTER"
    <3>1. UNION {OutNeighbors(graph, v) : v \in MarkingVertices \cup {w}}
            = (UNION {OutNeighbors(graph, v) : v \in MarkingVertices})
                \cup OutNeighbors(graph, w)
      OBVIOUS
    <3> QED
      BY <1>1, <1>5, <2>1, <2>2, <2>3, <3>1
  <2>4. CASE inst.op # "SCATTER"
    BY <1>1, <1>5, <2>1, <2>2, <2>4
  <2> QED
    BY <2>3, <2>4
<1>11. VotingTurns' = VotingTurns \cup (IF inst.op = "VOTE_CHANGE" THEN {<<w, dpc>>} ELSE {})
  <2>1. VotingTurns' = {turn \in V \X (0 .. Len(program.code)) :
                          turn[2] \in Passed("VOTE_CHANGE", At(turn[1]))'}
    BY <1>1, <1>8 DEF VotingTurns
  <2>2. \A turn \in V \X (0 .. Len(program.code)) :
          turn[2] \in Passed("VOTE_CHANGE", At(turn[1]))'
            <=> \/ turn[2] \in Passed("VOTE_CHANGE", At(turn[1]))
                \/ inst.op = "VOTE_CHANGE" /\ turn = <<w, dpc>>
    <3> TAKE turn \in V \X (0 .. Len(program.code))
    <3>1. turn[1] \in V /\ turn = <<turn[1], turn[2]>>
      OBVIOUS
    <3>2. Passed("VOTE_CHANGE", At(turn[1]))'
            = Passed("VOTE_CHANGE", At(turn[1]))
                \cup (IF turn[1] = w /\ inst.op = "VOTE_CHANGE" THEN {dpc} ELSE {})
      BY <1>9, <3>1
    <3>3. turn = <<w, dpc>> <=> turn[1] = w /\ turn[2] = dpc
      BY <3>1
    <3> QED
      BY <3>2, <3>3
  <2>3. <<w, dpc>> \in V \X (0 .. Len(program.code))
    BY <1>1, <1>2, <1>3
  <2> QED
    BY <2>1, <2>2, <2>3 DEF VotingTurns
<1>12. updates' = Cardinality(VotingTurns') % UpdatesMod
  <2> DEFINE c == Cardinality(VotingTurns)
             d == Cardinality(VotingTurns')
  <2>1. c \in Nat /\ UpdatesMod \in Nat \ {0} /\ IsFiniteSet(VotingTurns)
    BY VotesFinite, FS_CardinalityType, UpdatesAssumption
  <2>2. <<w, dpc>> \notin VotingTurns
    BY <1>2, <1>7 DEF VotingTurns
  <2>3. d = c + Votes(inst)
    <3>1. CASE inst.op = "VOTE_CHANGE"
      <4>1. d = c + 1
        BY <1>11, <2>1, <2>2, <3>1, FS_AddElement
      <4> QED
        BY <1>5, <3>1, <4>1
    <3>2. CASE inst.op # "VOTE_CHANGE"
      BY <1>5, <1>11, <2>1, <3>2
    <3> QED
      BY <3>1, <3>2
  <2>4. updates = c % UpdatesMod /\ Votes(inst) \in Nat
    BY <1>5 DEF Counted
  <2> HIDE DEF c, d
  <2>5. ((c % UpdatesMod) + Votes(inst)) % UpdatesMod = (c + Votes(inst)) % UpdatesMod
    BY <2>1, <2>4, WrappedSum
  <2> QED
    BY <1>1, <2>3, <2>4, <2>5 DEF d
<1> QED
  BY <1>1, <1>10, <1>12 DEF Counted

LEMMA OnceKept == DebugInv /\ OnceInv /\ [DebugNext \/ Elsewhere]_allvars => OnceInv'
<1> SUFFICES ASSUME DebugInv, OnceInv, [DebugNext \/ Elsewhere]_allvars, clean'
             PROVE  phase' = "idle" /\ (StraightLine' => Standing' /\ Counted')
  BY DEF OnceInv
<1>1. ~Elsewhere /\ clean /\ phase = "idle" /\ (StraightLine => Standing /\ Counted)
  BY DEF Elsewhere, OnceInv, allvars, DebugNext, debug_add_breakpoint, debug_step,
         debug_continue, ContinueTurn, ContinueBreak, Fault, Turn
<1>2. CASE Turn
  <2>1. program' = program /\ phase' = "idle"
    BY <1>1, <1>2, TurnIs
  <2>2. StraightLine' => StraightLine
    BY <2>1 DEF StraightLine
  <2> QED
    BY <1>1, <1>2, <2>1, <2>2, TurnPasses, TurnCounts
<1>3. CASE UNCHANGED <<vars, dpc, current_vertex>>
  <2>1. /\ graph' = graph /\ program' = program /\ dpc' = dpc
        /\ current_vertex' = current_vertex /\ phase' = phase
        /\ next_active' = next_active /\ updates' = updates
    BY <1>3 DEF vars
  <2>2. /\ StraightLine' <=> StraightLine
        /\ Standing' <=> Standing
    BY <2>1 DEF StraightLine, Standing, Halts
  <2>3. V' = V /\ \A op, v : Passed(op, At(v))' = Passed(op, At(v))
    BY <2>1 DEF V, Passed, At, KernelEnd
  <2>4. MarkingVertices' = MarkingVertices /\ VotingTurns' = VotingTurns
    BY <2>1, <2>3 DEF MarkingVertices, VotingTurns
  <2>5. Counted' <=> Counted
    BY <2>1, <2>4 DEF Counted
  <2> QED
    BY <1>1, <2>1, <2>2, <2>5
<1> QED
  BY <1>1, <1>2, <1>3, DebuggerMoves DEF allvars, dbg

(* However a session is driven, by steps, by continues and past breakpoints,  *)
(* its marks and its votes are those of each straight-line kernel executed    *)
(* from its first instruction to its HALT once, vertex after vertex, up to    *)
(* where the session stands.                                                  *)
THEOREM InstructionsOnce == SpecDebug => []EachInstructionOnce
<1>1. OnceInv => EachInstructionOnce
  BY DEF OnceInv, Counted, MarkingVertices, VotingTurns, EachInstructionOnce
<1> QED
  BY <1>1, InitOnce, OnceKept, DebugInvariance, PTL DEF SpecDebug
=============================================================================
