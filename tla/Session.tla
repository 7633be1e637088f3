------------------------------ MODULE Session ------------------------------
(***************************************************************************)
(* A session of the program: the shell (cmd_shell of gcvm.cpp) drives one  *)
(* runtime, loading graphs, programs and configurations and running them   *)
(* in any order, with the interpreter or with compiled kernels.  cmd_run   *)
(* is the session that loads a graph and a program and runs once: the      *)
(* configuration it reads is discarded, so that it always runs under the   *)
(* default one.                                                            *)
(*                                                                         *)
(* JIT::init keeps pointers to the data of the runtime's vectors, and a    *)
(* vector gets new storage when a graph is loaded that it cannot hold      *)
(* (load_graph copies the vectors of the graph and replaces those of the   *)
(* vertices).  live holds the arrays whose captured pointers still point   *)
(* to the storage in use; through another pointer compiled code reads and  *)
(* writes freed memory, and nothing is said of the program afterwards.     *)
(***************************************************************************)
EXTENDS GCVM, JIT

CONSTANTS
  ConfigFiles,   \* the configuration files the user may load
  Leftovers,     \* what the registers hold when a compiled kernel starts
  NoKernel       \* the null pointer in jit_compiled

ASSUME LeftoversAssumption == Leftovers \subseteq Double

VARIABLES
  config,        \* VMConfig config
  compiled,      \* jit_compiled: the lowered program it executes
  initialized,   \* JIT::initialized
  live,          \* the arrays whose captured pointers are valid
  capacity       \* the capacity of the vectors of the graph in the runtime

jitVars == <<compiled, initialized, live, capacity>>
allVars == <<vars, config, jitVars>>

Arrays == {"offsets", "edges", "vertices"}

(* struct VMConfig and its defaults; a file gives some of the settings. *)
VMConfig ==
  [default_seed |-> 0, seed_overrides |-> EmptyVector,
   default_active |-> TRUE, active_overrides |-> EmptyVector, jit |-> FALSE]

load_config(file) ==
  [key \in DOMAIN VMConfig |-> IF key \in DOMAIN file THEN file[key] ELSE VMConfig[key]]

IsConfig(c) ==
  /\ DOMAIN c = DOMAIN VMConfig
  /\ c.default_seed \in Double /\ \A v \in DOMAIN c.seed_overrides : c.seed_overrides[v] \in Double
  /\ c.default_active \in BOOLEAN /\ c.jit \in BOOLEAN
  /\ \A v \in DOMAIN c.active_overrides : c.active_overrides[v] \in BOOLEAN

ASSUME ConfigsAssumption == \A file \in ConfigFiles : IsConfig(load_config(file))

Setting(default, overrides, v) == IF v \in DOMAIN overrides THEN overrides[v] ELSE default

SeedOf(v)   == Setting(config.default_seed, config.seed_overrides, v)
ActiveIn(v) == Setting(config.default_active, config.active_overrides, v)

InitSession ==
  /\ Init
  /\ config = VMConfig
  /\ compiled = NoKernel /\ initialized = FALSE /\ live = {}
  /\ capacity = [offsets |-> 0, edges |-> 0]

-----------------------------------------------------------------------------
(* The commands of the shell.  The others print. *)

(* Faulty: the kernel compiled for the program before is kept. *)
ShellLoadProgram_KeepingKernel(p) ==
  /\ load_program(p)
  /\ UNCHANGED <<config, jitVars>>

ShellLoadProgram(p) ==
  /\ load_program(p)
  /\ compiled' = NoKernel
  /\ UNCHANGED <<config, initialized, live, capacity>>

ShellLoadGraph(g) ==
  LET size == [offsets |-> g.num_vertices + 1, edges |-> g.num_edges]
  IN  /\ load_graph(g)
      /\ capacity' = [a \in DOMAIN size |-> IF size[a] > capacity[a] THEN size[a] ELSE capacity[a]]
      /\ live' = {a \in live \ {"vertices"} : size[a] <= capacity[a]}
      /\ UNCHANGED <<config, compiled, initialized>>

ShellLoadConfig(file) ==
  /\ phase = "idle"
  /\ config' = load_config(file)
  /\ UNCHANGED <<vars, jitVars>>

(* Faulty: only the vertices with a seed of their own are seeded. *)
ShellRun_Overrides ==
  /\ phase = "idle"
  /\ active' = {v \in V : ActiveIn(v)}
  /\ v_self' = [v \in V |-> IF v \in DOMAIN config.seed_overrides THEN SeedOf(v) ELSE v_self[v]]
  /\ phase' = "scan" /\ cur' = 0
  /\ UNCHANGED <<graph, program, v_out, next_active, updates, ctx, pc, config, jitVars>>

(* Every vertex is set up from the configuration before the run. *)
ShellRun ==
  /\ phase = "idle"
  /\ active' = {v \in V : ActiveIn(v)}
  /\ v_self' = [v \in V |-> SeedOf(v)]
  /\ phase' = "scan" /\ cur' = 0
  /\ UNCHANGED <<graph, program, v_out, next_active, updates, ctx, pc, config, jitVars>>

Shell ==
  \/ \E p \in Programs : ShellLoadProgram(p)
  \/ \E g \in Graphs : ShellLoadGraph(g)
  \/ \E file \in ConfigFiles : ShellLoadConfig(file)
  \/ ShellRun

-----------------------------------------------------------------------------
(* run(config.jit).  What is not compiled is compiled before the first vertex *)
(* is scanned.  An exception is caught nowhere and ends the program.          *)
MustCompile == config.jit /\ compiled = NoKernel

Compile ==
  LET lir     == lower(program)
      outcome == CompileOutcome(lir)
  IN  /\ phase = "scan" /\ MustCompile
      /\ initialized' = TRUE
      /\ live' = IF initialized THEN live ELSE Arrays
      /\ compiled' = IF outcome = "kernel" THEN lir ELSE NoKernel
      /\ phase' = CASE outcome = "kernel"    -> "scan"
                    [] outcome = "exception" -> "exited"
                    [] OTHER                 -> "undefined"
      /\ UNCHANGED <<graph, program, v_self, v_out, active, next_active, updates,
                     cur, ctx, pc, config, capacity>>

(* The loop of run, with the interpreter. *)
Scan == ~MustCompile /\ SkipInactive /\ UNCHANGED <<config, jitVars>>

InterpretedKernel ==
  /\ ~MustCompile /\ compiled = NoKernel
  /\ LoadContext \/ LocalStep \/ GraphStep \/ SystemStep \/ StoreContext
  /\ UNCHANGED <<config, jitVars>>

EndSuperstep == ~MustCompile /\ Barrier /\ UNCHANGED <<config, jitVars>>

(* A compiled kernel runs whenever there is one, whatever the configuration   *)
(* says now.  Its registers are not initialized.                              *)
EnterKernel ==
  /\ compiled # NoKernel
  /\ phase = "scan" /\ cur \in V \cap active
  /\ \E regs \in [Reg -> Leftovers] :
       ctx' = [load_context(graph, v_self, v_out, cur) EXCEPT !.regs = regs]
  /\ phase' = "kernel" /\ pc' = 0
  /\ UNCHANGED <<graph, program, v_self, v_out, active, next_active, updates, cur,
                 config, jitVars>>

(* The arrays an instruction reads or writes through the captured pointers. *)
Touched(l) ==
  LET reached(edges) == IF edges = {} THEN {} ELSE {"edges", "vertices"}
  IN  CASE l.op \in Gathers \cup {"ITER_BEGIN"} ->
             {"offsets"} \cup (IF l.op = "GATHER_COUNT" THEN {} ELSE reached(InEdges(graph, cur)))
        [] l.op = "ITER_NEXT" -> reached(ctx.iter_edge + 1 .. ctx.iter_end - 1)
        [] l.op = "SCATTER" \/ (l.op = "SCATTER_IF" /\ ~Equal(ctx.regs[l.src1], 0)) ->
             {"offsets"} \cup reached(OutEdges(graph, cur))
        [] OTHER -> {}

InKernel == phase = "kernel" /\ compiled # NoKernel /\ pc \in DOMAIN compiled

NativeStep ==
  /\ InKernel /\ Touched(compiled[pc]) \subseteq live
  /\ LET l    == compiled[pc]
         turn == LExecute(ctx, pc, compiled, graph, v_self, cur)
     IN  /\ ctx' = turn.ctx /\ pc' = turn.pc
         /\ next_active' = next_active \cup LScattered(l, ctx, graph, cur)
         /\ updates' = (updates + LVotes(l)) % UpdatesMod
  /\ UNCHANGED <<graph, program, v_self, v_out, active, phase, cur, config, jitVars>>

NativeStray ==
  /\ InKernel /\ ~(Touched(compiled[pc]) \subseteq live)
  /\ phase' = "undefined"
  /\ UNCHANGED <<graph, program, v_self, v_out, active, next_active, updates,
                 cur, ctx, pc, config, jitVars>>

LeaveKernel ==
  /\ compiled # NoKernel /\ pc = -1
  /\ StoreContext
  /\ UNCHANGED <<config, jitVars>>

RunSession ==
  \/ Compile
  \/ Scan \/ InterpretedKernel \/ EndSuperstep
  \/ EnterKernel \/ NativeStep \/ NativeStray \/ LeaveKernel

NextSession == Shell \/ RunSession

SpecSession == InitSession /\ [][NextSession]_allVars

-----------------------------------------------------------------------------
SessionTypeOK ==
  /\ graph \in Graphs \cup {EmptyGraph} /\ program \in Programs \cup {EmptyProgram}
  /\ v_self \in [V -> Double] /\ v_out \in [V -> Double]
  /\ active \subseteq V /\ next_active \subseteq V
  /\ updates \in 0 .. UpdatesMod - 1
  /\ phase \in {"idle", "scan", "kernel", "exited", "undefined"}
  /\ cur \in 0 .. graph.num_vertices /\ ctx \in Context /\ pc \in Int
  /\ IsConfig(config)
  /\ initialized \in BOOLEAN /\ live \subseteq Arrays
  /\ capacity \in [{"offsets", "edges"} -> Nat]

(* What run executes as compiled code is the program that is loaded, and its  *)
(* position is one of the kernel: load_program forgets the kernel of the      *)
(* program before, and run compiles again only if it was forgotten.           *)
CompiledIsCurrent ==
  compiled # NoKernel =>
    /\ initialized /\ compiled = lower(program)
    /\ phase = "kernel" => pc \in DOMAIN compiled \cup {-1}

(* "VertexState &state - Underlying vertex state of the runtime" (jit.cpp     *)
(* line 9).  The values and flags a compiled kernel works on are those of the *)
(* runtime.                                                                   *)
WorksOnRuntime ==
  phase = "kernel" /\ compiled # NoKernel => "vertices" \in live
=============================================================================
