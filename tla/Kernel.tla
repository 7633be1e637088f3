------------------------------- MODULE Kernel -------------------------------
(***************************************************************************)
(* The instruction set of the vertex kernels: what one instruction does to *)
(* the context of the vertex it runs on (graphcore.cpp, state.h,           *)
(* program.h).  Vertex values are read from vs, the v_self array; the only *)
(* effects outside the context are the marks of SCATTER and SCATTER_IF and *)
(* the vote of VOTE_CHANGE, which Scattered and Votes give.                *)
(***************************************************************************)
EXTENDS CSR

CONSTANT R_COUNT   \* the number of registers

ASSUME RegistersAssumption == R_COUNT \in Nat \ {0}

-----------------------------------------------------------------------------
ControlOps == {"NOP", "HALT", "JMP", "JZ", "JNZ"}
AluOps     == {"ADD", "SUB", "MUL", "DIV", "MIN", "MAX", "ABS", "MOV", "LOADI",
               "CMPLT", "CMPLTE", "CMPEQ", "CMPNEQ"}
MemoryOps  == {"LOADV", "STOREV", "LOADE", "LOADG"}
GraphOps   == {"ITER_NEIGHBORS", "END_ITER", "GATHER_SUM", "GATHER_MIN",
               "GATHER_MAX", "GATHER_COUNT", "SCATTER", "SCATTER_IF"}
SystemOps  == {"VOTE_CHANGE"}

(* An opcode or subop no switch has a case for, UNKNOWN_ALU among the ALU   *)
(* instructions: no effect, the pc advances.                                *)
UnknownOps == {"UNKNOWN", "UNKNOWN_ALU"}

Reg == 0 .. R_COUNT - 1

(* struct Instruction, decoded: opcode and subop together are the op. *)
Instruction ==
  [op : ControlOps \cup AluOps \cup MemoryOps \cup GraphOps \cup SystemOps \cup UnknownOps,
   rd : Reg, rs1 : Reg, rs2 : Reg, imm : Int]

(* A program as the assembler produces it: LOADI names a pooled constant. *)
IsProgram(p) ==
  /\ p.code \in Seq(Instruction) /\ p.constants \in Seq(Double)
  /\ \A i \in 1 .. Len(p.code) :
       p.code[i].op = "LOADI" => p.code[i].imm \in 0 .. Len(p.constants) - 1

EmptyProgram == [code |-> <<>>, constants |-> <<>>]

Context ==
  [regs : [Reg -> Double], v_self : Double, v_out : Double, n_val : Double,
   in_deg : Double, out_deg : Double, g_size : Double, e_attr : Double,
   iter_edge : Nat, iter_end : Nat]

load_context(g, vs, vo, v) ==
  [regs |-> [r \in Reg |-> 0], v_self |-> vs[v], v_out |-> vo[v], n_val |-> 0,
   in_deg |-> OfNat(in_degree(g, v)), out_deg |-> OfNat(out_degree(g, v)),
   g_size |-> OfNat(g.num_vertices), e_attr |-> 0,
   iter_edge |-> 0, iter_end |-> 0]

-----------------------------------------------------------------------------
(* CONTROL: the new program counter, -1 for HALT. *)
exec_control(inst, ctx, pc) ==
  LET taken == \/ inst.op = "JMP"
               \/ inst.op = "JZ"  /\ Same(ctx.regs[inst.rs1], 0)
               \/ inst.op = "JNZ" /\ ~Same(ctx.regs[inst.rs1], 0)
  IN  IF inst.op = "HALT" THEN -1 ELSE IF taken THEN pc + inst.imm ELSE pc

(* ALU: the value written to RD from the values of RS1 and RS2. *)
Alu(op, a, b) ==
  CASE op = "ADD"    -> Plus(a, b)
    [] op = "SUB"    -> Minus(a, b)
    [] op = "MUL"    -> Times(a, b)
    [] op = "DIV"    -> Divide(a, b)
    [] op = "MIN"    -> (IF Less(a, b) THEN a ELSE b)
    [] op = "MAX"    -> (IF Less(b, a) THEN a ELSE b)
    [] op = "ABS"    -> (IF Less(a, 0) THEN Negate(a) ELSE a)
    [] op = "CMPLT"  -> OfBool(Less(a, b))
    [] op = "CMPLTE" -> OfBool(LessEqual(a, b))
    [] op = "CMPEQ"  -> OfBool(Same(a, b))
    [] op = "CMPNEQ" -> OfBool(~Same(a, b))
    [] OTHER         -> a   \* MOV

exec_alu(inst, ctx, p) ==
  [ctx EXCEPT !.regs[inst.rd] =
     IF inst.op = "LOADI" THEN p.constants[inst.imm + 1]
     ELSE Alu(inst.op, ctx.regs[inst.rs1], ctx.regs[inst.rs2])]

(* MEMORY: an immediate outside the cases of an instruction changes nothing. *)
exec_memory(inst, ctx, g, v) ==
  CASE inst.op = "LOADV" /\ inst.imm = 0 -> [ctx EXCEPT !.regs[inst.rd] = ctx.v_self]
    [] inst.op = "LOADV" /\ inst.imm = 1 -> [ctx EXCEPT !.regs[inst.rd] = ctx.n_val]
    [] inst.op = "LOADV" /\ inst.imm = 2 -> [ctx EXCEPT !.regs[inst.rd] = OfNat(in_degree(g, v))]
    [] inst.op = "LOADV" /\ inst.imm = 3 -> [ctx EXCEPT !.regs[inst.rd] = OfNat(out_degree(g, v))]
    [] inst.op = "STOREV" /\ inst.imm = 0 -> [ctx EXCEPT !.v_out = ctx.regs[inst.rs1]]
    [] inst.op = "LOADE" /\ inst.imm = 0 -> [ctx EXCEPT !.regs[inst.rd] = ctx.e_attr]
    [] inst.op = "LOADG" -> [ctx EXCEPT !.regs[inst.rd] = ctx.g_size]
    [] OTHER -> ctx

-----------------------------------------------------------------------------
(* GRAPH: iteration over the incoming edges with the iterator of the context. *)
VisitEdge(ctx, g, vs, e) ==
  [ctx EXCEPT !.iter_edge = e,
              !.n_val  = vs[g.incoming_col_indices[e]],
              !.e_attr = IF DOMAIN g.incoming_edge_attr = {} THEN @
                         ELSE g.incoming_edge_attr[e]]

exec_iter_neighbors(inst, ctx, g, vs, v, pc) ==
  LET first == g.incoming_row_offsets[v]
      begun == [ctx EXCEPT !.iter_edge = first, !.iter_end = g.incoming_row_offsets[v + 1]]
  IN  IF first >= begun.iter_end
      THEN [ctx |-> begun, pc |-> pc + inst.imm]
      ELSE [ctx |-> VisitEdge(begun, g, vs, first), pc |-> pc]

(* Faulty: the next neighbour is not loaded; the iterator does not move. *)
exec_end_iter_Stale(inst, ctx, g, vs, pc) ==
  LET next == ctx.iter_edge + 1
  IN  IF next < ctx.iter_end
      THEN [ctx |-> [ctx EXCEPT !.iter_edge = next], pc |-> pc + inst.imm]
      ELSE [ctx |-> [ctx EXCEPT !.iter_edge = next], pc |-> pc]

exec_end_iter_Stuck(inst, ctx, g, vs, pc) ==
  IF ctx.iter_edge < ctx.iter_end
  THEN [ctx |-> VisitEdge(ctx, g, vs, ctx.iter_edge), pc |-> pc + inst.imm]
  ELSE [ctx |-> ctx, pc |-> pc]

exec_end_iter(inst, ctx, g, vs, pc) ==
  LET next == ctx.iter_edge + 1
  IN  IF next < ctx.iter_end
      THEN [ctx |-> VisitEdge(ctx, g, vs, next), pc |-> pc + inst.imm]
      ELSE [ctx |-> [ctx EXCEPT !.iter_edge = next], pc |-> pc]

(* GRAPH: the value a gather computes over the in-neighbours, left to right. *)
Accumulate(op, acc, x) ==
  CASE op = "GATHER_SUM" -> Plus(acc, x)
    [] op = "GATHER_MIN" -> (IF Less(x, acc) THEN x ELSE acc)
    [] op = "GATHER_MAX" -> (IF Less(acc, x) THEN x ELSE acc)
    [] OTHER             -> Plus(acc, 1)   \* GATHER_COUNT

Gather(op, g, vs, v) ==
  LET first == g.incoming_row_offsets[v]
      end   == g.incoming_row_offsets[v + 1]
      value(e) == vs[g.incoming_col_indices[e]]
      start == IF op \in {"GATHER_MIN", "GATHER_MAX"} THEN value(first)
               ELSE Accumulate(op, 0, value(first))
      acc[e \in first .. end - 1] ==
        IF e = first THEN start ELSE Accumulate(op, acc[e - 1], value(e))
  IN  IF first >= end THEN 0 ELSE acc[end - 1]

exec_graph(inst, ctx, g, vs, v, pc) ==
  CASE inst.op = "ITER_NEIGHBORS" -> exec_iter_neighbors(inst, ctx, g, vs, v, pc)
    [] inst.op = "END_ITER" -> exec_end_iter(inst, ctx, g, vs, pc)
    [] inst.op \in {"SCATTER", "SCATTER_IF"} -> [ctx |-> ctx, pc |-> pc]
    [] OTHER -> [ctx |-> [ctx EXCEPT !.regs[inst.rd] = Gather(inst.op, g, vs, v)],
                 pc  |-> pc]

(* The vertices whose next_active flag the instruction sets. *)
Scattered(inst, ctx, g, v) ==
  IF \/ inst.op = "SCATTER"
     \/ inst.op = "SCATTER_IF" /\ ~Same(ctx.regs[inst.rs1], 0)
  THEN OutNeighbors(g, v) ELSE {}

(* SYSTEM: the amount the instruction adds to the counter of updates. *)
Votes(inst) == IF inst.op = "VOTE_CHANGE" THEN 1 ELSE 0

-----------------------------------------------------------------------------
(* The loop of execute_vertex: fetch, and what follows the dispatch. *)
Running(p, pc)  == 0 <= pc /\ pc < Len(p.code)
Fetch(p, pc)    == p.code[pc + 1]
Advance(pc)     == IF pc < 0 THEN pc ELSE pc + 1

(* One whole turn of the loop on the context and pc of vertex v. *)
Execute(ctx, pc, g, p, vs, v) ==
  LET inst == Fetch(p, pc)
      done == CASE inst.op \in ControlOps ->
                     [ctx |-> ctx, pc |-> exec_control(inst, ctx, pc)]
                [] inst.op \in AluOps    -> [ctx |-> exec_alu(inst, ctx, p), pc |-> pc]
                [] inst.op \in MemoryOps -> [ctx |-> exec_memory(inst, ctx, g, v), pc |-> pc]
                [] inst.op \in GraphOps  -> exec_graph(inst, ctx, g, vs, v, pc)
                [] OTHER -> [ctx |-> ctx, pc |-> pc]
  IN  [ctx |-> done.ctx, pc |-> Advance(done.pc)]
=============================================================================
