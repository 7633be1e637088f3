------------------------------ MODULE Compiled ------------------------------
(***************************************************************************)
(* One kernel on one vertex, executed twice: by the interpreter and by the *)
(* machine code that lower and compile make of it, from the same committed *)
(* values.  The two share nothing that a kernel changes, so the order of   *)
(* their steps is immaterial; they are taken together where the lowering   *)
(* puts them at the same instruction.                                      *)
(***************************************************************************)
EXTENDS JIT

CONSTANTS
  Graphs,      \* the graphs
  Programs,    \* the kernels
  Seeds,       \* the values of the vertices before the kernel runs
  Leftovers,   \* what the registers of the processor hold when it starts
  UpdatesMod   \* the counter of votes wraps here: 2^32 in the code

ASSUME GraphsAssumption ==
  \A g \in Graphs : /\ IsGraph(g)
                    /\ g.num_edges > 0 => g.incoming_edge_attr # EmptyVector
ASSUME ProgramsAssumption  == \A p \in Programs : IsProgram(p)
ASSUME ValuesAssumption    == Seeds \subseteq Double /\ Leftovers \subseteq Double
ASSUME UpdatesAssumption   == UpdatesMod \in Nat \ {0, 1}

VARIABLES
  graph, program, v_self, vertex,   \* what is executed, where: they do not change
  kernel,      \* the lowered program that compile turned into machine code
  i,           \* the interpreter: its context, pc, marks and votes
  j,           \* the compiled kernel: the same, its pc a position of kernel
  written,     \* the registers the kernel has written
  clean        \* no register was read before it was written, and no NaN took
               \* part in a comparison, a test or a gathered minimum or maximum

vars == <<graph, program, v_self, vertex, kernel, i, j, written, clean>>

Machine(regs, out) ==
  [ctx   |-> [load_context(graph, v_self, out, vertex) EXCEPT !.regs = regs],
   pc    |-> 0, marks |-> {}, votes |-> 0]

Init ==
  /\ program \in Programs /\ kernel = lower(program)
  /\ graph \in Graphs /\ v_self \in [Vertices(graph) -> Seeds] /\ vertex \in Vertices(graph)
  /\ \E out \in {v_self, [v \in Vertices(graph) |-> 0]}, regs \in [Reg -> Leftovers] :
       /\ i = Machine([r \in Reg |-> 0], out)
       /\ j = Machine(regs, out)
  /\ written = {} /\ clean = TRUE

-----------------------------------------------------------------------------
(* What an instruction reads and writes of the registers, and whether it      *)
(* compares, tests or gathers a NaN.                                          *)
Comparisons == {"MIN", "MAX", "CMPLT", "CMPLTE", "CMPEQ", "CMPNEQ"}
Tests       == {"JZ", "JNZ", "SCATTER_IF"}

Reads(inst) ==
  IF inst.op \in AluOps \ {"LOADI", "ABS", "MOV"} THEN {inst.rs1, inst.rs2}
  ELSE IF inst.op \in Tests \cup {"ABS", "MOV", "STOREV"} THEN {inst.rs1} ELSE {}

Writes(inst) ==
  IF inst.op \in AluOps \cup Gathers \cup {"LOADV", "LOADE", "LOADG"} THEN {inst.rd} ELSE {}

Ordered(inst, ctx) ==
  /\ inst.op \in Comparisons \cup Tests => \A r \in Reads(inst) : ctx.regs[r] # NaN
  /\ inst.op \in {"GATHER_MIN", "GATHER_MAX"} =>
       \A e \in InEdges(graph, vertex) : v_self[graph.incoming_col_indices[e]] # NaN

-----------------------------------------------------------------------------
(* One instruction of the interpreter, and one of the compiled kernel. *)
Interpreted ==
  LET inst == Fetch(program, i.pc)
      turn == Execute(i.ctx, i.pc, graph, program, v_self, vertex)
  IN  /\ i' = [ctx   |-> turn.ctx, pc |-> turn.pc,
               marks |-> i.marks \cup Scattered(inst, i.ctx, graph, vertex),
               votes |-> (i.votes + Votes(inst)) % UpdatesMod]
      /\ written' = written \cup Writes(inst)
      /\ clean' = (clean /\ Reads(inst) \subseteq written /\ Ordered(inst, i.ctx))

(* Faulty: the counter does not wrap. *)
Native_Unbounded ==
  LET l    == kernel[j.pc]
      turn == LExecute(j.ctx, j.pc, kernel, graph, v_self, vertex)
  IN  j' = [ctx   |-> turn.ctx, pc |-> turn.pc,
            marks |-> j.marks \cup LScattered(l, j.ctx, graph, vertex),
            votes |-> j.votes + LVotes(l)]

Native ==
  LET l    == kernel[j.pc]
      turn == LExecute(j.ctx, j.pc, kernel, graph, v_self, vertex)
  IN  j' = [ctx   |-> turn.ctx, pc |-> turn.pc,
            marks |-> j.marks \cup LScattered(l, j.ctx, graph, vertex),
            votes |-> (j.votes + LVotes(l)) % UpdatesMod]

IRunning == Running(program, i.pc)
JRunning == j.pc \in DOMAIN kernel
AtNop    == IRunning /\ Fetch(program, i.pc).op = "NOP"
SamePlace == IRunning /\ j.pc = Pos(program, i.pc)

Skip     == AtNop /\ Interpreted /\ UNCHANGED j
Together == JRunning /\ ~AtNop /\ SamePlace /\ Interpreted /\ Native
CatchUp  == JRunning /\ ~AtNop /\ ~SamePlace /\ Native /\ UNCHANGED <<i, written, clean>>
Alone    == ~JRunning /\ IRunning /\ ~AtNop /\ Interpreted /\ UNCHANGED j

(* Only what compile accepts is executed. *)
Next ==
  /\ CompileOutcome(kernel) = "kernel"
  /\ Skip \/ Together \/ CatchUp \/ Alone
  /\ UNCHANGED <<graph, program, v_self, vertex, kernel>>

Spec == Init /\ [][Next]_vars

(* Both engines are sequential code that keeps taking steps. *)
FairSpec == Spec /\ WF_vars(Next)

-----------------------------------------------------------------------------
TypeOK ==
  /\ graph \in Graphs /\ program \in Programs
  /\ v_self \in [Vertices(graph) -> Double] /\ vertex \in Vertices(graph)
  /\ kernel = lower(program)
  /\ i \in [ctx : Context, pc : Int, marks : SUBSET Vertices(graph), votes : 0 .. UpdatesMod - 1]
  /\ j \in [ctx : Context, pc : Int, marks : SUBSET Vertices(graph), votes : 0 .. UpdatesMod - 1]
  /\ written \subseteq Reg /\ clean \in BOOLEAN

(* The programs for which the lowering is right.  A branch lands on a pc that *)
(* is also its position in the lowered program, so no NOP comes before it;    *)
(* it is not the first, which halts the interpreter, nor past the last, for   *)
(* which compile has no label.  A loop over the neighbours is left to the     *)
(* instruction after its END_ITER, and an instruction follows it.             *)
Lands(p, t) == t \in 1 .. Cardinality(Kept(p)) - 1 /\ Pos(p, t) = t

PortableAt(p, pc) ==
  LET inst == Fetch(p, pc)
  IN  /\ inst.op \notin UnknownOps
      /\ inst.op = "LOADV" => inst.imm \in 0 .. 3
      /\ inst.op \in {"STOREV", "LOADE"} => inst.imm = 0
      /\ inst.op \in {"JMP", "JZ", "JNZ", "END_ITER"} => Lands(p, pc + inst.imm + 1)
      /\ inst.op = "ITER_NEIGHBORS" =>
           Lands(p, pc + inst.imm) /\ Fetch(p, pc + inst.imm).op = "END_ITER"
      /\ inst.op \in {"SCATTER_IF", "END_ITER"} => Pos(p, pc) + 1 < Cardinality(Kept(p))

Portable(p) == Kept(p) # {} /\ \A pc \in Kept(p) : PortableAt(p, pc)

(* compile accepts a portable program. *)
PortableCompiles == Portable(program) => CompileOutcome(kernel) = "kernel"

(* The contexts of the two differ at most in the registers not yet written    *)
(* and in how far past its row an iterator that has left a loop stands.       *)
Agree(c, d, regs) ==
  /\ c.v_self = d.v_self /\ c.v_out = d.v_out /\ c.n_val = d.n_val /\ c.e_attr = d.e_attr
  /\ c.in_deg = d.in_deg /\ c.out_deg = d.out_deg /\ c.g_size = d.g_size
  /\ c.iter_end = d.iter_end
  /\ c.iter_edge = d.iter_edge \/ (c.iter_edge >= c.iter_end /\ d.iter_edge >= d.iter_end)
  /\ \A r \in regs : c.regs[r] = d.regs[r]

(* Both stand at the same instruction, or have left the kernel. *)
InStep == j.pc = IF i.pc < 0 THEN -1 ELSE LNext(kernel, Pos(program, i.pc))

(* The compiled kernel still has the END_ITER of an empty row to execute,     *)
(* which the interpreter has jumped over.                                     *)
Leaving ==
  /\ JRunning /\ kernel[j.pc].op = "ITER_NEXT"
  /\ i.pc > 0 /\ j.pc + 1 = Pos(program, i.pc)
  /\ j.ctx.iter_edge >= j.ctx.iter_end

(* The compiled kernel simulates the interpreter instruction by instruction.  *)
InLockstep ==
  Portable(program) /\ clean =>
    /\ Agree(i.ctx, j.ctx, written)
    /\ i.marks = j.marks /\ i.votes = j.votes
    /\ InStep \/ Leaving

(* "asmjit-based lowering from bytecode to native code" (README.md line 38):  *)
(* the compiled kernel commits the value that the interpreter commits, marks  *)
(* the same vertices and casts the same votes.                                *)
SameOutcome ==
  Portable(program) /\ clean /\ ~IRunning /\ ~JRunning =>
    /\ i.ctx.v_self = j.ctx.v_self /\ i.ctx.v_out = j.ctx.v_out
    /\ i.marks = j.marks /\ i.votes = j.votes

(* The compiled kernel ends if and only if the interpreted one does, and an   *)
(* engine that has gone ahead of the other is met again.                      *)
FinishTogether ==
  Portable(program) =>
    /\ (clean /\ ~IRunning) ~> (~clean \/ ~JRunning)
    /\ (clean /\ ~JRunning) ~> (~clean \/ ~IRunning)
    /\ (clean /\ IRunning /\ JRunning) ~> (~clean \/ SamePlace)
=============================================================================
