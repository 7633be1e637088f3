-------------------------------- MODULE JIT --------------------------------
(***************************************************************************)
(* The JIT compiler: what lower makes of a program (jit.cpp, lowered_ir.h),*)
(* which lowered programs compile accepts, and what the machine code of a  *)
(* lowered instruction does.  The code is x86-64: its comparisons set      *)
(* flags that read as "below" and "equal" when a NaN takes part, and its   *)
(* registers start with whatever they held.  What asmjit does, allocating  *)
(* registers and encoding instructions, is taken as correct.               *)
(***************************************************************************)
EXTENDS Kernel

-----------------------------------------------------------------------------
(* JIT::lower.  NOP is dropped, and the instruction at pc moves to the      *)
(* position that counts the instructions kept before it.                    *)
Kept(p)    == {pc \in 0 .. Len(p.code) - 1 : Fetch(p, pc).op # "NOP"}
Pos(p, pc) == Cardinality({q \in Kept(p) : q < pc})

AluWords   == AluOps \cup {"UNKNOWN_ALU"}
Gathers    == {"GATHER_SUM", "GATHER_MIN", "GATHER_MAX", "GATHER_COUNT"}

(* enum LOp; LOp::ADD is the one a default LInstruction has. *)
LOpOf(inst) ==
  CASE inst.op = "HALT" -> "RETURN"
    [] inst.op = "LOADV" ->
         (IF inst.imm \in 0 .. 3
          THEN <<"LOAD_V_SELF", "LOAD_N_VAL", "LOAD_IN_DEG", "LOAD_OUT_DEG">>[inst.imm + 1]
          ELSE "ADD")
    [] inst.op = "STOREV" -> "STORE_V_OUT"
    [] inst.op = "LOADE"  -> "LOAD_E_ATTR"
    [] inst.op = "LOADG"  -> "LOAD_GRAPH_SIZE"
    [] inst.op = "ITER_NEIGHBORS" -> "ITER_BEGIN"
    [] inst.op = "END_ITER"       -> "ITER_NEXT"
    [] inst.op \in UnknownOps     -> "ADD"
    [] OTHER -> inst.op

(* The pc a branch names.  It is a position of the bytecode, and compile uses *)
(* it as a position of the lowered program.                                   *)
TargetOf(inst, pc) ==
  CASE inst.op \in {"JMP", "JZ", "JNZ", "END_ITER"} -> pc + inst.imm + 1
    [] inst.op = "ITER_NEIGHBORS" -> pc + inst.imm
    [] OTHER -> -1

(* struct LInstruction, with -1 for the registers the instruction lacks. *)
Lowered(p, pc) ==
  LET inst == Fetch(p, pc)
      for(ops, r) == IF inst.op \in ops THEN r ELSE -1
  IN  [op     |-> LOpOf(inst),
       dst    |-> for(AluWords \cup Gathers \cup {"LOADV", "LOADE", "LOADG"}, inst.rd),
       src1   |-> for(AluWords \cup {"JZ", "JNZ", "STOREV", "SCATTER_IF"}, inst.rs1),
       src2   |-> for(AluWords, inst.rs2),
       imm    |-> IF inst.op = "LOADI" THEN p.constants[inst.imm + 1] ELSE 0,
       target |-> TargetOf(inst, pc)]

lower(p) ==
  LET pos == [pc \in Kept(p) |-> Pos(p, pc)]
  IN  [k \in 0 .. Cardinality(Kept(p)) - 1 |->
         Lowered(p, CHOOSE pc \in Kept(p) : pos[pc] = k)]

-----------------------------------------------------------------------------
(* JIT::compile. *)

(* Faulty: a conditional branch also jumps where it falls through. *)
LabelsOf_Both(l, k) ==
  CASE l.op \in {"JMP", "ITER_BEGIN"} -> {l.target}
    [] l.op \in {"JZ", "JNZ", "ITER_NEXT"} -> {l.target, k + 1}
    [] l.op = "SCATTER_IF" -> {k + 1}
    [] OTHER -> {}

(* The labels an instruction at k refers to, and the instructions whose       *)
(* registers are refused.                                                     *)
LabelsOf(l, k) ==
  CASE l.op \in {"JMP", "JZ", "JNZ", "ITER_BEGIN"} -> {l.target}
    [] l.op = "ITER_NEXT"  -> {l.target, k + 1}
    [] l.op = "SCATTER_IF" -> {k + 1}
    [] OTHER -> {}

InvalidRegister(l) == l.op = "ADD" /\ ~({l.dst, l.src1, l.src2} \subseteq Reg)

(* What becomes of a call: a kernel; an exception, which also an empty        *)
(* program meets; or, when a label outside the vector of labels is reached    *)
(* first, undefined behaviour.                                                *)
CompileOutcome(lir) ==
  LET astray(k) == ~(LabelsOf(lir[k], k) \subseteq DOMAIN lir)
  IN  IF \E k \in DOMAIN lir : astray(k) /\ \A j \in 0 .. k : ~InvalidRegister(lir[j])
      THEN "undefined"
      ELSE IF DOMAIN lir = {} \/ \E k \in DOMAIN lir : InvalidRegister(lir[k])
      THEN "exception" ELSE "kernel"

(* Where control is when it reaches position k: past the last instruction is  *)
(* the exit, written -1 like the pc of a kernel that has halted.              *)
LNext(lir, k) == IF k \in DOMAIN lir THEN k ELSE -1

-----------------------------------------------------------------------------
(* ucomisd: both flags are set when the operands are unordered. *)
Below(a, b) == a = NaN \/ b = NaN \/ a < b
Equal(a, b) == a = NaN \/ b = NaN \/ a = b

(* Faulty: the flag of "below" alone for CMPLTE. *)
LAlu_Below(op, a, b) ==
  CASE op \in {"CMPLT", "CMPLTE"} -> OfBool(Below(a, b))
    [] op = "CMPEQ"  -> OfBool(Equal(a, b))
    [] op = "CMPNEQ" -> OfBool(~Equal(a, b))
    [] OTHER -> Alu(op, a, b)

LAlu(op, a, b) ==
  CASE op = "CMPLT"  -> OfBool(Below(a, b))
    [] op = "CMPLTE" -> OfBool(Below(a, b) \/ Equal(a, b))
    [] op = "CMPEQ"  -> OfBool(Equal(a, b))
    [] op = "CMPNEQ" -> OfBool(~Equal(a, b))
    [] op = "ABS"    -> (IF a = NaN THEN NaN ELSE Magnitude(a))
    [] OTHER         -> Alu(op, a, b)

(* The field of the context that a load reads. *)
Loaded(op, ctx) ==
  CASE op = "LOAD_V_SELF"     -> ctx.v_self
    [] op = "LOAD_N_VAL"      -> ctx.n_val
    [] op = "LOAD_IN_DEG"     -> ctx.in_deg
    [] op = "LOAD_OUT_DEG"    -> ctx.out_deg
    [] op = "LOAD_GRAPH_SIZE" -> ctx.g_size
    [] OTHER                  -> ctx.e_attr
LoadOps == {"LOAD_V_SELF", "LOAD_N_VAL", "LOAD_IN_DEG", "LOAD_OUT_DEG",
            "LOAD_GRAPH_SIZE", "LOAD_E_ATTR"}

(* addsd, minsd and maxsd: the last two keep the accumulator only if it is    *)
(* strictly less, or greater, than the value.                                 *)
LAccumulate(op, acc, x) ==
  CASE op = "GATHER_SUM" -> Plus(acc, x)
    [] op = "GATHER_MIN" -> (IF Less(acc, x) THEN acc ELSE x)
    [] OTHER             -> (IF Less(x, acc) THEN acc ELSE x)   \* GATHER_MAX

LGather(op, g, vs, v) ==
  LET first == g.incoming_row_offsets[v]
      end   == g.incoming_row_offsets[v + 1]
      value(e) == vs[g.incoming_col_indices[e]]
      start == IF op \in {"GATHER_MIN", "GATHER_MAX"} THEN value(first)
               ELSE LAccumulate(op, 0, value(first))
      acc[e \in first .. end - 1] ==
        IF e = first THEN start ELSE LAccumulate(op, acc[e - 1], value(e))
  IN  IF op = "GATHER_COUNT" THEN OfNat(end - first)
      ELSE IF first >= end THEN 0 ELSE acc[end - 1]

-----------------------------------------------------------------------------
(* The code of ITER_BEGIN and ITER_NEXT at position k.  It reads the attribute*)
(* of the edge whether or not the graph has attributes; a graph that build    *)
(* made has them.                                                             *)
LIterBegin(l, k, lir, ctx, g, vs, v) ==
  LET first == g.incoming_row_offsets[v]
      begun == [ctx EXCEPT !.iter_edge = first, !.iter_end = g.incoming_row_offsets[v + 1]]
  IN  IF first >= begun.iter_end
      THEN [ctx |-> begun, pc |-> LNext(lir, l.target)]
      ELSE [ctx |-> VisitEdge(begun, g, vs, first), pc |-> LNext(lir, k + 1)]

(* Faulty: the iterator that leaves the loop is not stored; the iterator does *)
(* not move.                                                                  *)
LIterNext_Stays(l, k, lir, ctx, g, vs) ==
  LET next == ctx.iter_edge + 1
  IN  IF next >= ctx.iter_end
      THEN [ctx |-> ctx, pc |-> LNext(lir, k + 1)]
      ELSE [ctx |-> VisitEdge(ctx, g, vs, next), pc |-> LNext(lir, l.target)]

LIterNext_Stuck(l, k, lir, ctx, g, vs) ==
  IF ctx.iter_edge >= ctx.iter_end
  THEN [ctx |-> ctx, pc |-> LNext(lir, k + 1)]
  ELSE [ctx |-> VisitEdge(ctx, g, vs, ctx.iter_edge), pc |-> LNext(lir, l.target)]

LIterNext(l, k, lir, ctx, g, vs) ==
  LET next == ctx.iter_edge + 1
  IN  IF next >= ctx.iter_end
      THEN [ctx |-> [ctx EXCEPT !.iter_edge = next], pc |-> LNext(lir, k + 1)]
      ELSE [ctx |-> VisitEdge(ctx, g, vs, next), pc |-> LNext(lir, l.target)]


(* The code of the lowered instruction at position k, for vertex v. *)
LExecute(ctx, k, lir, g, vs, v) ==
  LET l == lir[k]
      wrote(x) == [ctx |-> [ctx EXCEPT !.regs[l.dst] = x], pc |-> LNext(lir, k + 1)]
      goto(taken) == [ctx |-> ctx, pc |-> LNext(lir, IF taken THEN l.target ELSE k + 1)]
  IN  CASE l.op = "LOADI" -> wrote(l.imm)
        [] l.op \in AluOps \ {"LOADI"} -> wrote(LAlu(l.op, ctx.regs[l.src1], ctx.regs[l.src2]))
        [] l.op \in LoadOps -> wrote(Loaded(l.op, ctx))
        [] l.op \in Gathers -> wrote(LGather(l.op, g, vs, v))
        [] l.op = "STORE_V_OUT" ->
             [ctx |-> [ctx EXCEPT !.v_out = ctx.regs[l.src1]], pc |-> LNext(lir, k + 1)]
        [] l.op = "ITER_BEGIN" -> LIterBegin(l, k, lir, ctx, g, vs, v)
        [] l.op = "ITER_NEXT"  -> LIterNext(l, k, lir, ctx, g, vs)
        [] l.op = "JMP" -> goto(TRUE)
        [] l.op = "JZ"  -> goto(Equal(ctx.regs[l.src1], 0))
        [] l.op = "JNZ" -> goto(~Equal(ctx.regs[l.src1], 0))
        [] l.op = "RETURN" -> [ctx |-> ctx, pc |-> -1]
        [] OTHER -> goto(FALSE)   \* SCATTER, SCATTER_IF, VOTE_CHANGE

(* The vertices whose next_active flag the code sets, and its votes. *)
LScattered(l, ctx, g, v) ==
  IF \/ l.op = "SCATTER"
     \/ l.op = "SCATTER_IF" /\ ~Equal(ctx.regs[l.src1], 0)
  THEN OutNeighbors(g, v) ELSE {}

LVotes(l) == IF l.op = "VOTE_CHANGE" THEN 1 ELSE 0
=============================================================================
