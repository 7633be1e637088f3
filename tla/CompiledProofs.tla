--------------------------- MODULE CompiledProofs ---------------------------
(***************************************************************************)
(* Proofs about the compiled kernels: the compiled kernel of a portable    *)
(* program simulates the interpreter instruction by instruction, whatever  *)
(* the graph, the program and the values.                                  *)
(***************************************************************************)
EXTENDS Compiled, KernelProofs

-----------------------------------------------------------------------------
(* One turn of either engine, by the kind of its instruction. *)
LEMMA ExecuteIs ==
  ASSUME NEW c, NEW pc \in Nat, NEW g, NEW p, NEW vs, NEW v
  PROVE  LET inst == Fetch(p, pc)
             turn == Execute(c, pc, g, p, vs, v)
         IN  /\ inst.op \in ControlOps => turn = [ctx |-> c, pc |-> Advance(exec_control(inst, c, pc))]
             /\ inst.op \in AluOps     => turn = [ctx |-> exec_alu(inst, c, p), pc |-> pc + 1]
             /\ inst.op \in MemoryOps  => turn = [ctx |-> exec_memory(inst, c, g, v), pc |-> pc + 1]
             /\ inst.op \in {"SCATTER", "SCATTER_IF", "VOTE_CHANGE"} => turn = [ctx |-> c, pc |-> pc + 1]
<1> DEFINE inst == Fetch(p, pc)
           turn == Execute(c, pc, g, p, vs, v)
           then(d) == [ctx |-> d.ctx, pc |-> Advance(d.pc)]
           ahead(x) == [ctx |-> x, pc |-> pc]
           control == [ctx |-> c, pc |-> exec_control(inst, c, pc)]
           done == CASE inst.op \in ControlOps -> control
                     [] inst.op \in AluOps    -> ahead(exec_alu(inst, c, p))
                     [] inst.op \in MemoryOps -> ahead(exec_memory(inst, c, g, v))
                     [] inst.op \in GraphOps  -> exec_graph(inst, c, g, vs, v, pc)
                     [] OTHER -> ahead(c)
<1>1. turn = then(done)
  BY DEF Execute
<1>2. Advance(pc) = pc + 1
  BY DEF Advance
<1>3. \A x : then(ahead(x)) = [ctx |-> x, pc |-> pc + 1]
  BY <1>2
<1>4. then(control) = [ctx |-> c, pc |-> Advance(exec_control(inst, c, pc))]
  OBVIOUS
<1>5. inst.op \in {"SCATTER", "SCATTER_IF"} => exec_graph(inst, c, g, vs, v, pc) = ahead(c)
  BY DEF exec_graph
<1> HIDE DEF turn, inst, ahead, control, then
<1>6. /\ inst.op \in ControlOps => done = control
      /\ inst.op \in AluOps => done = ahead(exec_alu(inst, c, p))
      /\ inst.op \in MemoryOps => done = ahead(exec_memory(inst, c, g, v))
      /\ inst.op \in {"SCATTER", "SCATTER_IF", "VOTE_CHANGE"} => done = ahead(c)
  BY <1>5 DEF ControlOps, AluOps, MemoryOps, GraphOps
<1> HIDE DEF done
<1> QED
  BY <1>1, <1>3, <1>4, <1>6 DEF inst, turn

LEMMA ExecuteGraphIs ==
  ASSUME NEW c, NEW pc, NEW g, NEW p, NEW vs, NEW v, Fetch(p, pc).op \in GraphOps
  PROVE  LET d == exec_graph(Fetch(p, pc), c, g, vs, v, pc)
         IN  Execute(c, pc, g, p, vs, v) = [ctx |-> d.ctx, pc |-> Advance(d.pc)]
<1> DEFINE inst == Fetch(p, pc)
           graphed == exec_graph(inst, c, g, vs, v, pc)
           done == CASE inst.op \in ControlOps -> [ctx |-> c, pc |-> exec_control(inst, c, pc)]
                     [] inst.op \in AluOps    -> [ctx |-> exec_alu(inst, c, p), pc |-> pc]
                     [] inst.op \in MemoryOps -> [ctx |-> exec_memory(inst, c, g, v), pc |-> pc]
                     [] inst.op \in GraphOps  -> graphed
                     [] OTHER -> [ctx |-> c, pc |-> pc]
<1>1. Execute(c, pc, g, p, vs, v) = [ctx |-> done.ctx, pc |-> Advance(done.pc)]
  BY DEF Execute
<1>2. done = graphed
  <2> HIDE DEF graphed
  <2> QED
    BY DEF ControlOps, AluOps, MemoryOps, GraphOps
<1> HIDE DEF done
<1> QED
  BY <1>1, <1>2

LEMMA LExecuteIs ==
  ASSUME NEW c, NEW k, NEW lir, NEW g, NEW vs, NEW v
  PROVE  LET l == lir[k]
             turn == LExecute(c, k, lir, g, vs, v)
             wrote(x) == [ctx |-> [c EXCEPT !.regs[l.dst] = x], pc |-> LNext(lir, k + 1)]
             goto(taken) == [ctx |-> c, pc |-> LNext(lir, IF taken THEN l.target ELSE k + 1)]
         IN  /\ l.op = "LOADI" => turn = wrote(l.imm)
             /\ l.op \in AluOps \ {"LOADI"} =>
                  turn = wrote(LAlu(l.op, c.regs[l.src1], c.regs[l.src2]))
             /\ l.op \in LoadOps => turn = wrote(Loaded(l.op, c))
             /\ l.op \in Gathers => turn = wrote(LGather(l.op, g, vs, v))
             /\ l.op = "STORE_V_OUT" =>
                  turn = [ctx |-> [c EXCEPT !.v_out = c.regs[l.src1]], pc |-> LNext(lir, k + 1)]
             /\ l.op = "ITER_BEGIN" => turn = LIterBegin(l, k, lir, c, g, vs, v)
             /\ l.op = "ITER_NEXT"  => turn = LIterNext(l, k, lir, c, g, vs)
             /\ l.op = "JMP" => turn = goto(TRUE)
             /\ l.op = "JZ"  => turn = goto(Equal(c.regs[l.src1], 0))
             /\ l.op = "JNZ" => turn = goto(~Equal(c.regs[l.src1], 0))
             /\ l.op = "RETURN" => turn = [ctx |-> c, pc |-> -1]
             /\ l.op \in {"SCATTER", "SCATTER_IF", "VOTE_CHANGE"} => turn = goto(FALSE)
<1> DEFINE l == lir[k]
           wrote(x) == [ctx |-> [c EXCEPT !.regs[l.dst] = x], pc |-> LNext(lir, k + 1)]
           goto(taken) == [ctx |-> c, pc |-> LNext(lir, IF taken THEN l.target ELSE k + 1)]
           stored == [ctx |-> [c EXCEPT !.v_out = c.regs[l.src1]], pc |-> LNext(lir, k + 1)]
           over == [ctx |-> c, pc |-> -1]
           turn == LExecute(c, k, lir, g, vs, v)
<1>1. turn = CASE l.op = "LOADI" -> wrote(l.imm)
               [] l.op \in AluOps \ {"LOADI"} -> wrote(LAlu(l.op, c.regs[l.src1], c.regs[l.src2]))
               [] l.op \in LoadOps -> wrote(Loaded(l.op, c))
               [] l.op \in Gathers -> wrote(LGather(l.op, g, vs, v))
               [] l.op = "STORE_V_OUT" -> stored
               [] l.op = "ITER_BEGIN" -> LIterBegin(l, k, lir, c, g, vs, v)
               [] l.op = "ITER_NEXT"  -> LIterNext(l, k, lir, c, g, vs)
               [] l.op = "JMP" -> goto(TRUE)
               [] l.op = "JZ"  -> goto(Equal(c.regs[l.src1], 0))
               [] l.op = "JNZ" -> goto(~Equal(c.regs[l.src1], 0))
               [] l.op = "RETURN" -> over
               [] OTHER -> goto(FALSE)
  BY DEF LExecute
<1> HIDE DEF l, wrote, goto, stored, over, turn
<1>2. /\ l.op = "LOADI" => turn = wrote(l.imm)
      /\ l.op \in AluOps \ {"LOADI"} => turn = wrote(LAlu(l.op, c.regs[l.src1], c.regs[l.src2]))
      /\ l.op \in LoadOps => turn = wrote(Loaded(l.op, c))
      /\ l.op \in Gathers => turn = wrote(LGather(l.op, g, vs, v))
  BY <1>1 DEF AluOps, LoadOps, Gathers
<1>3. /\ l.op = "STORE_V_OUT" => turn = stored
      /\ l.op = "ITER_BEGIN" => turn = LIterBegin(l, k, lir, c, g, vs, v)
      /\ l.op = "ITER_NEXT"  => turn = LIterNext(l, k, lir, c, g, vs)
      /\ l.op = "JMP" => turn = goto(TRUE)
      /\ l.op = "JZ"  => turn = goto(Equal(c.regs[l.src1], 0))
      /\ l.op = "JNZ" => turn = goto(~Equal(c.regs[l.src1], 0))
      /\ l.op = "RETURN" => turn = over
      /\ l.op \in {"SCATTER", "SCATTER_IF", "VOTE_CHANGE"} => turn = goto(FALSE)
  BY <1>1 DEF AluOps, LoadOps, Gathers
<1> QED
  BY <1>2, <1>3 DEF l, wrote, goto, stored, over, turn

-----------------------------------------------------------------------------
(* Where the two engines may stand: at the same instruction, or with the      *)
(* compiled kernel still at the END_ITER that the interpreter has jumped over *)
(* (these are InStep and Leaving, for any context and any two pcs).           *)
AtSame(p, ipc, jpc) == jpc = IF ipc < 0 THEN -1 ELSE LNext(lower(p), Pos(p, ipc))

AtExit(p, ipc, jpc, d) ==
  /\ jpc \in DOMAIN lower(p) /\ lower(p)[jpc].op = "ITER_NEXT"
  /\ ipc > 0 /\ jpc + 1 = Pos(p, ipc)
  /\ d.iter_edge >= d.iter_end

(* The turns e and f, taken from contexts that agree on the registers w. *)
Simulates(p, e, f, w) ==
  /\ Agree(e.ctx, f.ctx, w)
  /\ AtSame(p, e.pc, f.pc) \/ AtExit(p, e.pc, f.pc, f.ctx)

LEMMA FallThrough ==
  ASSUME NEW p, IsProgram(p), NEW pc \in Kept(p)
  PROVE  AtSame(p, pc + 1, LNext(lower(p), Pos(p, pc) + 1))
<1>1. pc \in Nat /\ Pos(p, pc + 1) = Pos(p, pc) + 1
  BY NextPosition
<1> QED
  BY <1>1 DEF AtSame

(* A branch of a portable program lands where its pc says. *)
LEMMA Landing ==
  ASSUME NEW p, IsProgram(p), NEW t \in Int, Lands(p, t)
  PROVE  /\ t \in Nat /\ t >= 1 /\ Pos(p, t) = t /\ t \in DOMAIN lower(p)
         /\ Running(p, t) /\ LNext(lower(p), t) = t
         /\ Advance(t - 1) = t /\ AtSame(p, t, LNext(lower(p), t))
<1>1. t \in 1 .. Cardinality(Kept(p)) - 1 /\ Pos(p, t) = t
  BY DEF Lands
<1>2. Cardinality(Kept(p)) \in 0 .. Len(p.code) /\ Len(p.code) \in Nat
  BY KeptFinite
<1>3. t \in DOMAIN lower(p)
  BY <1>1, <1>2, LoweredAt
<1>4. t \in Nat /\ t >= 1 /\ t < Len(p.code)
  BY <1>1, <1>2
<1>5. LNext(lower(p), t) = t
  BY <1>3 DEF LNext
<1> QED
  BY <1>1, <1>3, <1>4, <1>5 DEF Running, Advance, AtSame

(* Writing the same value to a register that is then known to agree. *)
LEMMA AgreeOnWrite ==
  ASSUME NEW c \in Context, NEW d \in Context, NEW w \in SUBSET Reg, Agree(c, d, w),
         NEW r \in Reg, NEW x
  PROVE  Agree([c EXCEPT !.regs[r] = x], [d EXCEPT !.regs[r] = x], w \cup {r})
<1>1. c.regs \in [Reg -> Double] /\ d.regs \in [Reg -> Double]
  BY DEF Context
<1> DEFINE e == [c EXCEPT !.regs[r] = x]
           f == [d EXCEPT !.regs[r] = x]
<1>2. /\ e.v_self = c.v_self /\ e.v_out = c.v_out /\ e.n_val = c.n_val /\ e.e_attr = c.e_attr
      /\ e.in_deg = c.in_deg /\ e.out_deg = c.out_deg /\ e.g_size = c.g_size
      /\ e.iter_end = c.iter_end /\ e.iter_edge = c.iter_edge
      /\ e.regs = [c.regs EXCEPT ![r] = x]
  BY DEF Context
<1>3. /\ f.v_self = d.v_self /\ f.v_out = d.v_out /\ f.n_val = d.n_val /\ f.e_attr = d.e_attr
      /\ f.in_deg = d.in_deg /\ f.out_deg = d.out_deg /\ f.g_size = d.g_size
      /\ f.iter_end = d.iter_end /\ f.iter_edge = d.iter_edge
      /\ f.regs = [d.regs EXCEPT ![r] = x]
  BY DEF Context
<1> HIDE DEF e, f
<1>4. \A q \in w \cup {r} : e.regs[q] = f.regs[q]
  BY <1>1, <1>2, <1>3 DEF Agree
<1>5. Agree(e, f, w \cup {r})
  BY <1>2, <1>3, <1>4 DEF Agree
<1> QED
  BY <1>5 DEF e, f

(* The operations of the processor on values none of which is NaN. *)
LEMMA OrderedFlags ==
  ASSUME NEW a \in Double \ {NaN}, NEW b \in Double \ {NaN}
  PROVE  /\ Below(a, b) <=> Less(a, b)
         /\ Equal(a, b) <=> Same(a, b)
         /\ Below(a, b) \/ Equal(a, b) <=> LessEqual(a, b)
<1>1. a \in Int /\ b \in Int /\ a # NaN /\ b # NaN
  BY DEF Double
<1> QED
  BY <1>1 DEF Below, Equal, Less, Same, LessEqual

LEMMA SameAlu ==
  ASSUME NEW op \in AluOps \ {"LOADI"}, NEW a \in Double, NEW b \in Double,
         op \in Comparisons => a # NaN /\ b # NaN
  PROVE  Alu(op, a, b) = LAlu(op, a, b)
<1>1. CASE op = "ABS"
  <2>1. a = NaN \/ a \in Int
    BY DEF Double
  <2>2. Alu(op, a, b) = IF Less(a, 0) THEN Negate(a) ELSE a
    BY <1>1 DEF Alu
  <2>3. LAlu(op, a, b) = IF a = NaN THEN NaN ELSE Magnitude(a)
    BY <1>1 DEF LAlu
  <2>4. 0 # NaN
    BY DoublesAssumption
  <2> QED
    BY <2>1, <2>2, <2>3, <2>4 DEF Less, Negate, Magnitude
<1>2. CASE op \in {"CMPLT", "CMPLTE", "CMPEQ", "CMPNEQ"}
  <2>1. a \in Double \ {NaN} /\ b \in Double \ {NaN}
    BY <1>2 DEF Comparisons
  <2>2. /\ Below(a, b) <=> Less(a, b)
        /\ Equal(a, b) <=> Same(a, b)
        /\ Below(a, b) \/ Equal(a, b) <=> LessEqual(a, b)
    BY <2>1, OrderedFlags
  <2> QED
    BY <1>2, <2>2 DEF Alu, LAlu, OfBool
<1>3. CASE op \notin {"ABS", "CMPLT", "CMPLTE", "CMPEQ", "CMPNEQ"}
  BY <1>3 DEF LAlu
<1> QED
  BY <1>1, <1>2, <1>3

-----------------------------------------------------------------------------
(* Contexts c and d of vertex v that agree on the registers w, before the     *)
(* instruction at pc of a portable program, which reads none but those.       *)
Ready(g, v, vs, p, pc, c, d, w) ==
  LET inst == Fetch(p, pc)
  IN  /\ IsGraph(g) /\ v \in Vertices(g) /\ vs \in [Vertices(g) -> Double]
      /\ IsProgram(p) /\ Portable(p) /\ pc \in Kept(p)
      /\ c \in Context /\ d \in Context /\ w \in SUBSET Reg /\ Agree(c, d, w)
      /\ c.in_deg = OfNat(in_degree(g, v)) /\ c.out_deg = OfNat(out_degree(g, v))
      /\ Reads(inst) \subseteq w
      /\ inst.op \in Comparisons \cup Tests => \A r \in Reads(inst) : c.regs[r] # NaN
      /\ inst.op \in {"GATHER_MIN", "GATHER_MAX"} =>
           \A e \in InEdges(g, v) : vs[g.incoming_col_indices[e]] # NaN

LEMMA ReadyAt ==
  ASSUME NEW g, NEW v, NEW vs, NEW p, NEW pc, NEW c, NEW d, NEW w,
         Ready(g, v, vs, p, pc, c, d, w)
  PROVE  LET inst == Fetch(p, pc)
         IN  /\ pc \in Nat /\ Pos(p, pc) \in Nat /\ inst \in Instruction
             /\ inst.rd \in Reg /\ inst.rs1 \in Reg /\ inst.rs2 \in Reg /\ inst.imm \in Int
             /\ Pos(p, pc) \in DOMAIN lower(p) /\ lower(p)[Pos(p, pc)] = Lowered(p, pc)
             /\ AtSame(p, pc + 1, LNext(lower(p), Pos(p, pc) + 1))
             /\ PortableAt(p, pc) /\ inst.op # "NOP"
             /\ \A r \in Reads(inst) : r \in Reg /\ c.regs[r] = d.regs[r]
<1>1. IsProgram(p) /\ pc \in Kept(p) /\ Portable(p)
  BY DEF Ready
<1>2. pc \in Nat /\ Pos(p, pc) \in Nat /\ Running(p, pc) /\ Fetch(p, pc).op # "NOP"
  BY <1>1, NextPosition
<1>3. Fetch(p, pc) \in Instruction
  BY <1>1, <1>2, InstructionType
<1>4. Pos(p, pc) \in DOMAIN lower(p) /\ lower(p)[Pos(p, pc)] = Lowered(p, pc)
  BY <1>1, LoweredAt
<1>5. AtSame(p, pc + 1, LNext(lower(p), Pos(p, pc) + 1))
  BY <1>1, FallThrough
<1>6. \A r \in Reads(Fetch(p, pc)) : r \in Reg /\ c.regs[r] = d.regs[r]
  BY DEF Ready, Agree
<1>7. PortableAt(p, pc)
  BY <1>1 DEF Portable
<1> QED
  BY <1>2, <1>3, <1>4, <1>5, <1>6, <1>7 DEF Instruction

(* The instructions that write a register with the value x and go on. *)
LEMMA WriteTurn ==
  ASSUME NEW g, NEW v, NEW vs, NEW p, NEW pc, NEW c, NEW d, NEW w,
         Ready(g, v, vs, p, pc, c, d, w), NEW x,
         LET inst == Fetch(p, pc)
         IN  /\ Writes(inst) = {inst.rd}
             /\ Execute(c, pc, g, p, vs, v)
                  = [ctx |-> [c EXCEPT !.regs[inst.rd] = x], pc |-> pc + 1]
             /\ LExecute(d, Pos(p, pc), lower(p), g, vs, v)
                  = [ctx |-> [d EXCEPT !.regs[inst.rd] = x],
                     pc  |-> LNext(lower(p), Pos(p, pc) + 1)]
  PROVE  Simulates(p, Execute(c, pc, g, p, vs, v), LExecute(d, Pos(p, pc), lower(p), g, vs, v),
                   w \cup Writes(Fetch(p, pc)))
<1> DEFINE r == Fetch(p, pc).rd
           e == [c EXCEPT !.regs[r] = x]
           f == [d EXCEPT !.regs[r] = x]
<1>1. r \in Reg /\ AtSame(p, pc + 1, LNext(lower(p), Pos(p, pc) + 1))
  BY ReadyAt
<1>2. c \in Context /\ d \in Context /\ w \in SUBSET Reg /\ Agree(c, d, w)
  BY DEF Ready
<1> HIDE DEF r
<1>3. Agree(e, f, w \cup {r})
  BY <1>1, <1>2, AgreeOnWrite
<1> HIDE DEF e, f
<1>4. Simulates(p, [ctx |-> e, pc |-> pc + 1],
                   [ctx |-> f, pc |-> LNext(lower(p), Pos(p, pc) + 1)], w \cup {r})
  BY <1>1, <1>3 DEF Simulates
<1> QED
  BY <1>4 DEF e, f, r

LEMMA AluTurn ==
  ASSUME NEW g, NEW v, NEW vs, NEW p, NEW pc, NEW c, NEW d, NEW w,
         Ready(g, v, vs, p, pc, c, d, w), Fetch(p, pc).op \in AluOps
  PROVE  Simulates(p, Execute(c, pc, g, p, vs, v), LExecute(d, Pos(p, pc), lower(p), g, vs, v),
                   w \cup Writes(Fetch(p, pc)))
<1> DEFINE inst == Fetch(p, pc)
           lir  == lower(p)
           k    == Pos(p, pc)
           l    == lir[k]
           x    == IF inst.op = "LOADI" THEN p.constants[inst.imm + 1]
                   ELSE Alu(inst.op, c.regs[inst.rs1], c.regs[inst.rs2])
           y    == LAlu(inst.op, d.regs[inst.rs1], d.regs[inst.rs2])
<1>1. /\ pc \in Nat /\ inst.rs1 \in Reg /\ inst.rs2 \in Reg /\ l = Lowered(p, pc)
      /\ \A r \in Reads(inst) : c.regs[r] = d.regs[r]
  BY ReadyAt
<1>2. /\ c \in Context /\ d \in Context
      /\ inst.op \in Comparisons \cup Tests => \A r \in Reads(inst) : c.regs[r] # NaN
  BY DEF Ready
<1>3. inst.op \in AluOps
  OBVIOUS
<1>4. Execute(c, pc, g, p, vs, v) = [ctx |-> exec_alu(inst, c, p), pc |-> pc + 1]
  <2>1. pc \in Nat
    BY <1>1
  <2> HIDE DEF lir, k, l, x, y
  <2> QED
    BY <2>1, ExecuteIs
<1>5. exec_alu(inst, c, p) = [c EXCEPT !.regs[inst.rd] = x]
  BY DEF exec_alu
<1>6. l.op = LOpOf(inst) /\ LOpOf(inst) = inst.op
  BY <1>1, LOpIs DEF Lowered
<1>7. /\ l.dst = inst.rd /\ l.src1 = inst.rs1 /\ l.src2 = inst.rs2
      /\ inst.op = "LOADI" => l.imm = p.constants[inst.imm + 1]
  BY <1>1 DEF Lowered, AluWords
<1>8. Writes(inst) = {inst.rd}
  BY <1>3 DEF Writes
<1>9. inst.op # "LOADI" => x = y
  <2> SUFFICES ASSUME inst.op # "LOADI" PROVE x = y
    OBVIOUS
  <2> DEFINE a == c.regs[inst.rs1]
             b == c.regs[inst.rs2]
             m == d.regs[inst.rs1]
             n == d.regs[inst.rs2]
  <2>1. a \in Double /\ b \in Double /\ m \in Double /\ n \in Double
    BY <1>1, <1>2 DEF Context
  <2> HIDE DEF inst, a, b, m, n
  <2>2. CASE inst.op \in {"ABS", "MOV"}
    <3>1. inst.rs1 \in Reads(inst)
      BY <2>2 DEF Reads, AluOps
    <3>2. a = m
      BY <1>1, <3>1 DEF a, m
    <3>3. Alu(inst.op, a, b) = LAlu(inst.op, a, b)
      BY <1>3, <2>1, <2>2, SameAlu DEF Comparisons
    <3>4. LAlu(inst.op, m, b) = LAlu(inst.op, m, n)
      BY <2>2 DEF LAlu, Alu
    <3> QED
      BY <3>2, <3>3, <3>4 DEF a, b, m, n
  <2>3. CASE inst.op \notin {"ABS", "MOV"}
    <3>1. Reads(inst) = {inst.rs1, inst.rs2}
      BY <1>3, <2>3 DEF Reads
    <3>2. a = m /\ b = n
      BY <1>1, <3>1 DEF a, b, m, n
    <3>3. inst.op \in Comparisons => a # NaN /\ b # NaN
      BY <1>2, <3>1 DEF a, b
    <3>4. Alu(inst.op, a, b) = LAlu(inst.op, a, b)
      BY <1>3, <2>1, <3>3, SameAlu
    <3> QED
      BY <3>2, <3>4 DEF a, b, m, n
  <2> QED
    BY <2>2, <2>3
<1>10. LExecute(d, k, lir, g, vs, v)
         = [ctx |-> [d EXCEPT !.regs[l.dst] = IF inst.op = "LOADI" THEN l.imm ELSE
                                              LAlu(l.op, d.regs[l.src1], d.regs[l.src2])],
            pc  |-> LNext(lir, k + 1)]
  <2> HIDE DEF inst, l, lir, k
  <2>1. /\ l.op = "LOADI" => LExecute(d, k, lir, g, vs, v)
             = [ctx |-> [d EXCEPT !.regs[l.dst] = l.imm], pc |-> LNext(lir, k + 1)]
        /\ l.op \in AluOps \ {"LOADI"} => LExecute(d, k, lir, g, vs, v)
             = [ctx |-> [d EXCEPT !.regs[l.dst] = LAlu(l.op, d.regs[l.src1], d.regs[l.src2])],
                pc |-> LNext(lir, k + 1)]
    BY LExecuteIs DEF l
  <2> QED
    BY <1>3, <1>6, <2>1
<1> HIDE DEF inst, l, lir, k, x, y
<1>11. LExecute(d, k, lir, g, vs, v)
         = [ctx |-> [d EXCEPT !.regs[inst.rd] = x], pc |-> LNext(lir, k + 1)]
  BY <1>6, <1>7, <1>9, <1>10 DEF x, y
<1> QED
  BY <1>4, <1>5, <1>8, <1>11, WriteTurn DEF inst, lir, k

LEMMA MemoryTurn ==
  ASSUME NEW g, NEW v, NEW vs, NEW p, NEW pc, NEW c, NEW d, NEW w,
         Ready(g, v, vs, p, pc, c, d, w), Fetch(p, pc).op \in MemoryOps
  PROVE  Simulates(p, Execute(c, pc, g, p, vs, v), LExecute(d, Pos(p, pc), lower(p), g, vs, v),
                   w \cup Writes(Fetch(p, pc)))
<1> DEFINE inst == Fetch(p, pc)
           lir  == lower(p)
           k    == Pos(p, pc)
           l    == lir[k]
           writing(x) == [ctx |-> [c EXCEPT !.regs[inst.rd] = x], pc |-> pc + 1]
           lwriting(x) == [ctx |-> [d EXCEPT !.regs[inst.rd] = x], pc |-> LNext(lir, k + 1)]
           turn  == Execute(c, pc, g, p, vs, v)
           lturn == LExecute(d, k, lir, g, vs, v)
<1>1. /\ pc \in Nat /\ inst.rs1 \in Reg /\ l = Lowered(p, pc)
      /\ PortableAt(p, pc) /\ AtSame(p, pc + 1, LNext(lir, k + 1))
      /\ \A r \in Reads(inst) : c.regs[r] = d.regs[r]
  BY ReadyAt
<1>2. /\ c \in Context /\ d \in Context /\ w \in SUBSET Reg /\ Agree(c, d, w)
      /\ c.in_deg = OfNat(in_degree(g, v)) /\ c.out_deg = OfNat(out_degree(g, v))
  BY DEF Ready
<1>3. inst.op \in {"LOADV", "STOREV", "LOADE", "LOADG"}
  BY DEF MemoryOps
<1>4. turn = [ctx |-> exec_memory(inst, c, g, v), pc |-> pc + 1]
  <2>1. pc \in Nat
    BY <1>1
  <2> QED
    BY <2>1, ExecuteIs
<1>5. /\ inst.op = "LOADV" => inst.imm \in 0 .. 3
      /\ inst.op \in {"STOREV", "LOADE"} => inst.imm = 0
  BY <1>1 DEF PortableAt
<1>6. /\ l.op = LOpOf(inst)
      /\ inst.op \in {"LOADV", "LOADE", "LOADG"} => l.dst = inst.rd
      /\ inst.op = "STOREV" => l.src1 = inst.rs1
  BY <1>1 DEF Lowered
<1>7. /\ l.op \in LoadOps => lturn = [ctx |-> [d EXCEPT !.regs[l.dst] = Loaded(l.op, d)],
                                      pc  |-> LNext(lir, k + 1)]
      /\ l.op = "STORE_V_OUT" => lturn = [ctx |-> [d EXCEPT !.v_out = d.regs[l.src1]],
                                          pc  |-> LNext(lir, k + 1)]
  <2> HIDE DEF lir, k
  <2> QED
    BY LExecuteIs
<1>8. /\ c.v_self = d.v_self /\ c.n_val = d.n_val /\ c.e_attr = d.e_attr
      /\ c.in_deg = d.in_deg /\ c.out_deg = d.out_deg /\ c.g_size = d.g_size
  BY <1>2 DEF Agree
<1> HIDE DEF inst, lir, k, l, turn, lturn
<1>9. CASE inst.op = "STOREV"
  <2> DEFINE x == c.regs[inst.rs1]
             e == [c EXCEPT !.v_out = x]
             f == [d EXCEPT !.v_out = x]
  <2>1. exec_memory(inst, c, g, v) = e
    BY <1>5, <1>9 DEF exec_memory
  <2>2. x = d.regs[inst.rs1]
    BY <1>1, <1>9 DEF Reads, AluOps, Tests
  <2>3. lturn = [ctx |-> f, pc |-> LNext(lir, k + 1)]
    <3>1. LOpOf(inst) = "STORE_V_OUT"
      BY <1>9, LOpIs
    <3> QED
      BY <1>6, <1>7, <1>9, <2>2, <3>1
  <2>4. Writes(inst) = {}
    BY <1>9 DEF Writes, AluOps, Gathers
  <2>5. Agree(e, f, w)
    BY <1>2 DEF Agree, Context
  <2> HIDE DEF e, f
  <2>6. Simulates(p, [ctx |-> e, pc |-> pc + 1], [ctx |-> f, pc |-> LNext(lir, k + 1)], w)
    BY <1>1, <2>5 DEF Simulates
  <2> QED
    BY <1>4, <2>1, <2>3, <2>4, <2>6 DEF inst, turn, lturn, k, lir
<1>10. CASE inst.op # "STOREV"
  <2> DEFINE x == Loaded(l.op, d)
  <2>1. Writes(inst) = {inst.rd}
    BY <1>3, <1>10 DEF Writes
  <2>2. l.op \in LoadOps /\ exec_memory(inst, c, g, v) = [c EXCEPT !.regs[inst.rd] = x]
    <3>1. CASE inst.op = "LOADV" /\ inst.imm = 0
      <4>1. l.op = "LOAD_V_SELF"
        BY <1>6, <3>1, LOpOfLOADV
      <4> QED
        BY <1>8, <3>1, <4>1 DEF exec_memory, Loaded, LoadOps
    <3>2. CASE inst.op = "LOADV" /\ inst.imm = 1
      <4>1. l.op = "LOAD_N_VAL"
        BY <1>6, <3>2, LOpOfLOADV
      <4> QED
        BY <1>8, <3>2, <4>1 DEF exec_memory, Loaded, LoadOps
    <3>3. CASE inst.op = "LOADV" /\ inst.imm = 2
      <4>1. l.op = "LOAD_IN_DEG"
        BY <1>6, <3>3, LOpOfLOADV
      <4> QED
        BY <1>2, <1>8, <3>3, <4>1 DEF exec_memory, Loaded, LoadOps
    <3>4. CASE inst.op = "LOADV" /\ inst.imm = 3
      <4>1. l.op = "LOAD_OUT_DEG"
        BY <1>6, <3>4, LOpOfLOADV
      <4> QED
        BY <1>2, <1>8, <3>4, <4>1 DEF exec_memory, Loaded, LoadOps
    <3>5. CASE inst.op = "LOADE"
      <4>1. l.op = "LOAD_E_ATTR"
        BY <1>6, <3>5, LOpIs
      <4> QED
        BY <1>5, <1>8, <3>5, <4>1 DEF exec_memory, Loaded, LoadOps
    <3>6. CASE inst.op = "LOADG"
      <4>1. l.op = "LOAD_GRAPH_SIZE"
        BY <1>6, <3>6, LOpIs
      <4> QED
        BY <1>8, <3>6, <4>1 DEF exec_memory, Loaded, LoadOps
    <3> QED
      BY <1>3, <1>5, <1>10, <3>1, <3>2, <3>3, <3>4, <3>5, <3>6
  <2>3. l.dst = inst.rd
    BY <1>3, <1>6, <1>10
  <2> HIDE DEF x
  <2>4. lturn = lwriting(x) /\ turn = writing(x)
    BY <1>4, <1>7, <2>2, <2>3 DEF x
  <2> QED
    BY <2>1, <2>4, WriteTurn DEF inst, turn, lturn, k, lir
<1> QED
  BY <1>9, <1>10 DEF inst, turn, lturn, k, lir

LEMMA GatherTurn ==
  ASSUME NEW g, NEW v, NEW vs, NEW p, NEW pc, NEW c, NEW d, NEW w,
         Ready(g, v, vs, p, pc, c, d, w), Fetch(p, pc).op \in Gathers
  PROVE  Simulates(p, Execute(c, pc, g, p, vs, v), LExecute(d, Pos(p, pc), lower(p), g, vs, v),
                   w \cup Writes(Fetch(p, pc)))
<1> DEFINE inst == Fetch(p, pc)
           lir  == lower(p)
           k    == Pos(p, pc)
           l    == lir[k]
           x    == Gather(inst.op, g, vs, v)
<1>1. pc \in Nat /\ l = Lowered(p, pc)
  BY ReadyAt
<1>2. /\ IsGraph(g) /\ v \in Vertices(g) /\ vs \in [Vertices(g) -> Double]
      /\ inst.op \in {"GATHER_MIN", "GATHER_MAX"} =>
           \A e \in InEdges(g, v) : vs[g.incoming_col_indices[e]] # NaN
  BY DEF Ready
<1>3. inst.op \in Gathers
  OBVIOUS
<1>4. Execute(c, pc, g, p, vs, v)
        = [ctx |-> [c EXCEPT !.regs[inst.rd] = Gather(inst.op, g, vs, v)], pc |-> pc + 1]
  <2> DEFINE e == [c EXCEPT !.regs[inst.rd] = Gather(inst.op, g, vs, v)]
  <2>1. exec_graph(inst, c, g, vs, v, pc) = [ctx |-> e, pc |-> pc]
    BY <1>3 DEF exec_graph, Gathers
  <2>2. inst.op \in GraphOps
    BY <1>3 DEF Gathers, GraphOps
  <2>3. Advance(pc) = pc + 1
    BY <1>1 DEF Advance
  <2> HIDE DEF e
  <2> QED
    BY <2>1, <2>2, <2>3, ExecuteGraphIs DEF e
<1>5. l.op = LOpOf(inst) /\ LOpOf(inst) = inst.op /\ l.dst = inst.rd
  BY <1>1, <1>3, LOpIs DEF Lowered
<1>6. l.op \in Gathers =>
        LExecute(d, k, lir, g, vs, v)
          = [ctx |-> [d EXCEPT !.regs[l.dst] = LGather(l.op, g, vs, v)],
             pc  |-> LNext(lir, k + 1)]
  <2> HIDE DEF lir, k
  <2> QED
    BY LExecuteIs
<1>7. Writes(inst) = {inst.rd}
  BY <1>3 DEF Writes
<1>8. Gather(inst.op, g, vs, v) = LGather(inst.op, g, vs, v)
  <2> HIDE DEF inst
  <2> QED
    BY <1>2, <1>3, SameGather
<1> HIDE DEF inst, lir, k, l, x
<1>9. /\ Execute(c, pc, g, p, vs, v) = [ctx |-> [c EXCEPT !.regs[inst.rd] = x], pc |-> pc + 1]
      /\ LExecute(d, k, lir, g, vs, v)
           = [ctx |-> [d EXCEPT !.regs[inst.rd] = x], pc |-> LNext(lir, k + 1)]
  BY <1>3, <1>4, <1>5, <1>6, <1>8 DEF x
<1> QED
  BY <1>7, <1>9, WriteTurn DEF inst, k, lir

(* The instructions that leave the context alone. *)
LEMMA QuietTurn ==
  ASSUME NEW g, NEW v, NEW vs, NEW p, NEW pc, NEW c, NEW d, NEW w,
         Ready(g, v, vs, p, pc, c, d, w),
         Fetch(p, pc).op \in {"HALT", "JMP", "JZ", "JNZ", "SCATTER", "SCATTER_IF", "VOTE_CHANGE"}
  PROVE  Simulates(p, Execute(c, pc, g, p, vs, v), LExecute(d, Pos(p, pc), lower(p), g, vs, v),
                   w \cup Writes(Fetch(p, pc)))
<1> DEFINE inst  == Fetch(p, pc)
           lir   == lower(p)
           k     == Pos(p, pc)
           l     == lir[k]
           t     == pc + inst.imm + 1
           goto(taken) == [ctx |-> d, pc |-> LNext(lir, IF taken THEN l.target ELSE k + 1)]
           ahead == [ctx |-> c, pc |-> pc + 1]
           there == [ctx |-> c, pc |-> t]
           turn  == Execute(c, pc, g, p, vs, v)
           lturn == LExecute(d, k, lir, g, vs, v)
           Goal  == Simulates(p, turn, lturn, w \cup Writes(inst))
<1> SUFFICES Goal
  OBVIOUS
<1>1. /\ pc \in Nat /\ inst.rs1 \in Reg /\ inst.imm \in Int /\ l = Lowered(p, pc)
      /\ AtSame(p, pc + 1, LNext(lir, k + 1)) /\ PortableAt(p, pc)
      /\ \A r \in Reads(inst) : c.regs[r] = d.regs[r]
  BY ReadyAt
<1>2. /\ IsProgram(p) /\ c \in Context /\ d \in Context /\ Agree(c, d, w)
      /\ inst.op \in Comparisons \cup Tests => \A r \in Reads(inst) : c.regs[r] # NaN
  BY DEF Ready
<1>3. inst.op \in {"HALT", "JMP", "JZ", "JNZ", "SCATTER", "SCATTER_IF", "VOTE_CHANGE"}
  OBVIOUS
<1>4. Writes(inst) = {}
  BY <1>3 DEF Writes, AluOps, Gathers
<1>5. /\ l.op = LOpOf(inst)
      /\ inst.op \in {"JMP", "JZ", "JNZ"} => l.target = t
      /\ inst.op \in {"JZ", "JNZ"} => l.src1 = inst.rs1
  BY <1>1 DEF Lowered, TargetOf
<1>6. /\ inst.op = "HALT" => LOpOf(inst) = "RETURN"
      /\ inst.op # "HALT" => LOpOf(inst) = inst.op
  BY <1>3, LOpIs
<1>7. pc \in Nat
  BY <1>1
<1>8. inst.op \in ControlOps => turn = [ctx |-> c, pc |-> Advance(exec_control(inst, c, pc))]
  <2> HIDE DEF inst, lir, k, l, t, goto, ahead, there, lturn, Goal
  <2> QED
    BY <1>7, ExecuteIs DEF inst
<1>9. inst.op \in {"SCATTER", "SCATTER_IF", "VOTE_CHANGE"} => turn = ahead
  <2> HIDE DEF inst, lir, k, l, t, goto, there, lturn, Goal
  <2> QED
    BY <1>7, ExecuteIs DEF inst
<1>10. /\ l.op = "JMP" => lturn = goto(TRUE)
       /\ l.op = "JZ"  => lturn = goto(Equal(d.regs[l.src1], 0))
       /\ l.op = "JNZ" => lturn = goto(~Equal(d.regs[l.src1], 0))
       /\ l.op = "RETURN" => lturn = [ctx |-> d, pc |-> -1]
       /\ l.op \in {"SCATTER", "SCATTER_IF", "VOTE_CHANGE"} => lturn = goto(FALSE)
  <2> HIDE DEF inst, lir, k, t, ahead, there, turn, Goal
  <2> QED
    BY LExecuteIs
<1>11. AtSame(p, pc + 1, LNext(lir, k + 1))
  BY <1>1
<1>12. Advance(pc) = pc + 1
  BY <1>7 DEF Advance
<1>13. inst.op \in {"JMP", "JZ", "JNZ"} => /\ Advance(pc + inst.imm) = t
                                           /\ AtSame(p, t, LNext(lir, t))
  <2> SUFFICES ASSUME inst.op \in {"JMP", "JZ", "JNZ"}
               PROVE  Advance(pc + inst.imm) = t /\ AtSame(p, t, LNext(lir, t))
    OBVIOUS
  <2>1. t \in Int /\ t - 1 = pc + inst.imm
    BY <1>1
  <2>2. Lands(p, t)
    BY <1>1 DEF PortableAt
  <2> HIDE DEF t, inst
  <2> QED
    BY <1>2, <2>1, <2>2, Landing
<1>14. inst.op \in {"JZ", "JNZ"} => /\ c.regs[inst.rs1] = d.regs[inst.rs1]
                                    /\ Equal(d.regs[inst.rs1], 0) <=> Same(c.regs[inst.rs1], 0)
  <2> SUFFICES ASSUME inst.op \in {"JZ", "JNZ"}
               PROVE  /\ c.regs[inst.rs1] = d.regs[inst.rs1]
                      /\ Equal(d.regs[inst.rs1], 0) <=> Same(c.regs[inst.rs1], 0)
    OBVIOUS
  <2>1. inst.rs1 \in Reads(inst) /\ inst.op \in Tests
    BY DEF Reads, AluOps, Tests
  <2>2. c.regs[inst.rs1] \in Double \ {NaN} /\ c.regs[inst.rs1] = d.regs[inst.rs1]
    BY <1>1, <1>2, <2>1 DEF Context
  <2>3. 0 \in Double \ {NaN}
    BY SmallType, DoublesAssumption
  <2> QED
    BY <2>2, <2>3, OrderedFlags
<1> HIDE DEF inst, lir, k, l, t, turn, lturn
<1>15. ASSUME turn = ahead, lturn = goto(FALSE)
       PROVE  Goal
  BY <1>2, <1>4, <1>11, <1>15 DEF Simulates
<1>16. ASSUME inst.op \in {"JMP", "JZ", "JNZ"}, turn = there, lturn = goto(TRUE)
       PROVE  Goal
  BY <1>2, <1>4, <1>5, <1>13, <1>16 DEF Simulates
<1>17. CASE inst.op = "HALT"
  <2>1. turn = [ctx |-> c, pc |-> -1]
    BY <1>8, <1>17 DEF ControlOps, exec_control, Advance
  <2>2. lturn = [ctx |-> d, pc |-> -1]
    BY <1>5, <1>6, <1>10, <1>17
  <2>3. AtSame(p, -1, -1)
    BY DEF AtSame
  <2> QED
    BY <1>2, <1>4, <2>1, <2>2, <2>3 DEF Simulates
<1>18. CASE inst.op = "JMP"
  <2>1. turn = there
    BY <1>8, <1>13, <1>18 DEF ControlOps, exec_control
  <2>2. lturn = goto(TRUE)
    BY <1>5, <1>6, <1>10, <1>18
  <2> QED
    BY <1>16, <1>18, <2>1, <2>2
<1>19. CASE inst.op \in {"JZ", "JNZ"}
  <2> DEFINE taken == IF inst.op = "JZ" THEN Same(c.regs[inst.rs1], 0)
                      ELSE ~Same(c.regs[inst.rs1], 0)
  <2>1. exec_control(inst, c, pc) = IF taken THEN pc + inst.imm ELSE pc
    BY <1>19 DEF exec_control
  <2>2. turn = IF taken THEN there ELSE ahead
    BY <1>8, <1>12, <1>13, <1>19, <2>1 DEF ControlOps
  <2>3. lturn = goto(taken)
    BY <1>5, <1>6, <1>10, <1>14, <1>19
  <2> HIDE DEF taken, there, ahead, Goal
  <2>4. CASE taken
    <3>1. lturn = goto(TRUE)
      BY <2>3, <2>4
    <3> HIDE DEF goto
    <3> QED
      BY <1>16, <1>19, <2>2, <2>4, <3>1
  <2>5. CASE ~taken
    <3>1. lturn = goto(FALSE)
      BY <2>3, <2>5
    <3> HIDE DEF goto
    <3> QED
      BY <1>15, <2>2, <2>5, <3>1
  <2> QED
    BY <2>4, <2>5
<1>20. CASE inst.op \in {"SCATTER", "SCATTER_IF", "VOTE_CHANGE"}
  <2>1. turn = ahead /\ lturn = goto(FALSE)
    BY <1>5, <1>6, <1>9, <1>10, <1>20
  <2> QED
    BY <1>15, <2>1
<1> QED
  BY <1>3, <1>17, <1>18, <1>19, <1>20

(* The iterators of both engines move alike. *)
LEMMA AgreeOnIterator ==
  ASSUME NEW c \in Context, NEW d \in Context, NEW w, Agree(c, d, w),
         NEW a \in Nat, NEW b \in Nat
  PROVE  LET e == [c EXCEPT !.iter_edge = a, !.iter_end = b]
             f == [d EXCEPT !.iter_edge = a, !.iter_end = b]
         IN  /\ Agree(e, f, w) /\ e.iter_end = b /\ f.iter_end = b /\ f.iter_edge = a
             /\ e \in Context /\ f \in Context
BY DEF Agree, Context

LEMMA AgreeOnVisit ==
  ASSUME NEW c \in Context, NEW d \in Context, NEW w, Agree(c, d, w), NEW g, NEW vs, NEW e
  PROVE  Agree(VisitEdge(c, g, vs, e), VisitEdge(d, g, vs, e), w)
<1> DEFINE n    == vs[g.incoming_col_indices[e]]
           attr == IF DOMAIN g.incoming_edge_attr = {} THEN c.e_attr ELSE g.incoming_edge_attr[e]
<1>1. c.e_attr = d.e_attr
  BY DEF Agree
<1>2. /\ VisitEdge(c, g, vs, e) = [c EXCEPT !.iter_edge = e, !.n_val = n, !.e_attr = attr]
      /\ VisitEdge(d, g, vs, e) = [d EXCEPT !.iter_edge = e, !.n_val = n, !.e_attr = attr]
  BY <1>1 DEF VisitEdge
<1> HIDE DEF n, attr
<1> QED
  BY <1>2 DEF Agree, Context

LEMMA AgreeOnStep ==
  ASSUME NEW c \in Context, NEW d \in Context, NEW w, Agree(c, d, w),
         c.iter_edge + 1 >= c.iter_end, d.iter_edge + 1 >= d.iter_end
  PROVE  Agree([c EXCEPT !.iter_edge = c.iter_edge + 1],
               [d EXCEPT !.iter_edge = d.iter_edge + 1], w)
<1> DEFINE m == c.iter_edge + 1
           n == d.iter_edge + 1
<1>1. m = n \/ (m >= c.iter_end /\ n >= d.iter_end)
  OBVIOUS
<1> HIDE DEF m, n
<1>2. Agree([c EXCEPT !.iter_edge = m], [d EXCEPT !.iter_edge = n], w)
  BY <1>1 DEF Agree, Context
<1> QED
  BY <1>2 DEF m, n

LEMMA IterBeginTurn ==
  ASSUME NEW g, NEW v, NEW vs, NEW p, NEW pc, NEW c, NEW d, NEW w,
         Ready(g, v, vs, p, pc, c, d, w), Fetch(p, pc).op = "ITER_NEIGHBORS"
  PROVE  Simulates(p, Execute(c, pc, g, p, vs, v), LExecute(d, Pos(p, pc), lower(p), g, vs, v),
                   w \cup Writes(Fetch(p, pc)))
<1> DEFINE inst  == Fetch(p, pc)
           lir   == lower(p)
           k     == Pos(p, pc)
           l     == lir[k]
           t     == pc + inst.imm
           first == g.incoming_row_offsets[v]
           end   == g.incoming_row_offsets[v + 1]
           e     == [c EXCEPT !.iter_edge = first, !.iter_end = end]
           f     == [d EXCEPT !.iter_edge = first, !.iter_end = end]
           turn  == Execute(c, pc, g, p, vs, v)
           lturn == LExecute(d, k, lir, g, vs, v)
           Goal  == Simulates(p, turn, lturn, w \cup Writes(inst))
<1> SUFFICES Goal
  OBVIOUS
<1>1. /\ pc \in Nat /\ inst.imm \in Int /\ l = Lowered(p, pc)
      /\ AtSame(p, pc + 1, LNext(lir, k + 1)) /\ PortableAt(p, pc)
  BY ReadyAt
<1>2. /\ IsProgram(p) /\ IsGraph(g) /\ v \in Vertices(g)
      /\ c \in Context /\ d \in Context /\ Agree(c, d, w)
  BY DEF Ready
<1>3. first \in Nat /\ end \in Nat
  BY <1>2, RowBounds
<1>4. inst.op = "ITER_NEIGHBORS"
  OBVIOUS
<1>5. Writes(inst) = {}
  BY <1>4 DEF Writes, AluOps, Gathers
<1>6. l.op = "ITER_BEGIN" /\ l.target = t
  <2>1. LOpOf(inst) = "ITER_BEGIN"
    BY <1>4, LOpIs
  <2> QED
    BY <1>1, <1>4, <2>1 DEF Lowered, TargetOf
<1>7. turn = LET x == exec_iter_neighbors(inst, c, g, vs, v, pc)
             IN  [ctx |-> x.ctx, pc |-> Advance(x.pc)]
  <2> DEFINE x == exec_iter_neighbors(inst, c, g, vs, v, pc)
  <2>1. exec_graph(inst, c, g, vs, v, pc) = x
    BY <1>4 DEF exec_graph
  <2>2. inst.op \in GraphOps
    BY <1>4 DEF GraphOps
  <2> DEFINE y == exec_graph(inst, c, g, vs, v, pc)
  <2>3. turn = [ctx |-> y.ctx, pc |-> Advance(y.pc)]
    <3> HIDE DEF x, lturn, lir, k, l, t
    <3> QED
      BY <2>2, ExecuteGraphIs
  <2> HIDE DEF turn
  <2> QED
    BY <2>1, <2>3
<1>8. lturn = LIterBegin(l, k, lir, d, g, vs, v)
  <2>1. l.op = "ITER_BEGIN" => lturn = LIterBegin(l, k, lir, d, g, vs, v)
    <3> HIDE DEF lir, k
    <3> QED
      BY LExecuteIs
  <2> QED
    BY <1>6, <2>1
<1>9. /\ t \in Nat /\ Pos(p, t) = t /\ t \in DOMAIN lir /\ Running(p, t) /\ LNext(lir, t) = t
      /\ Fetch(p, t).op = "END_ITER"
  <2>1. Lands(p, t) /\ Fetch(p, t).op = "END_ITER"
    BY <1>1, <1>4 DEF PortableAt
  <2>2. t \in Int
    BY <1>1
  <2> HIDE DEF t
  <2> QED
    BY <1>2, <2>1, <2>2, Landing
<1>10. lir[t].op = "ITER_NEXT" /\ Pos(p, t + 1) = t + 1
  <2>1. t \in Kept(p)
    BY <1>9 DEF Kept, Running
  <2>2. lir[t] = Lowered(p, t) /\ Pos(p, t + 1) = t + 1
    <3> HIDE DEF t
    <3> QED
      BY <1>2, <1>9, <2>1, LoweredAt, NextPosition
  <2>3. LOpOf(Fetch(p, t)) = "ITER_NEXT"
    BY <1>9, LOpIs
  <2> QED
    BY <2>2, <2>3 DEF Lowered
<1>11. /\ Agree(e, f, w) /\ e.iter_end = end /\ f.iter_end = end /\ f.iter_edge = first
       /\ e \in Context /\ f \in Context
  <2> HIDE DEF first, end, turn, lturn, l, lir, k, t, inst
  <2> QED
    BY <1>2, <1>3, AgreeOnIterator
<1>12. CASE first >= end
  <2>1. turn = [ctx |-> e, pc |-> t + 1]
    <3>1. exec_iter_neighbors(inst, c, g, vs, v, pc) = [ctx |-> e, pc |-> t]
      BY <1>11, <1>12 DEF exec_iter_neighbors
    <3>2. Advance(t) = t + 1
      BY <1>9 DEF Advance
    <3> HIDE DEF t, e, turn
    <3> QED
      BY <1>7, <3>1, <3>2
  <2>2. lturn = [ctx |-> f, pc |-> t]
    <3>1. LIterBegin(l, k, lir, d, g, vs, v) = [ctx |-> f, pc |-> LNext(lir, t)]
      <4> HIDE DEF l, k, lir, t
      <4> QED
        BY <1>6, <1>11, <1>12 DEF LIterBegin
    <3> QED
      BY <1>8, <1>9, <3>1
  <2> HIDE DEF inst, lir, e, f, t, first, end, turn, lturn
  <2>3. AtExit(p, t + 1, t, f)
    BY <1>9, <1>10, <1>11, <1>12 DEF AtExit, lir
  <2> QED
    BY <1>5, <1>11, <2>1, <2>2, <2>3 DEF Simulates
<1>13. CASE first < end
  <2> DEFINE x == VisitEdge(e, g, vs, first)
             y == VisitEdge(f, g, vs, first)
  <2>1. turn = [ctx |-> x, pc |-> pc + 1]
    <3>1. exec_iter_neighbors(inst, c, g, vs, v, pc) = [ctx |-> x, pc |-> pc]
      BY <1>3, <1>11, <1>13 DEF exec_iter_neighbors
    <3>2. Advance(pc) = pc + 1
      BY <1>1 DEF Advance
    <3> HIDE DEF x, turn
    <3> QED
      BY <1>7, <3>1, <3>2
  <2>2. lturn = [ctx |-> y, pc |-> LNext(lir, k + 1)]
    <3>1. LIterBegin(l, k, lir, d, g, vs, v) = [ctx |-> y, pc |-> LNext(lir, k + 1)]
      <4> HIDE DEF l, k, lir, t
      <4> QED
        BY <1>3, <1>11, <1>13 DEF LIterBegin
    <3> QED
      BY <1>8, <3>1
  <2> HIDE DEF e, f, first, inst, turn, lturn
  <2>3. Agree(x, y, w)
    BY <1>11, AgreeOnVisit
  <2> HIDE DEF x, y
  <2> QED
    BY <1>1, <1>5, <2>1, <2>2, <2>3 DEF Simulates
<1> QED
  BY <1>3, <1>12, <1>13

LEMMA EndIterTurn ==
  ASSUME NEW g, NEW v, NEW vs, NEW p, NEW pc, NEW c, NEW d, NEW w,
         Ready(g, v, vs, p, pc, c, d, w), Fetch(p, pc).op = "END_ITER"
  PROVE  Simulates(p, Execute(c, pc, g, p, vs, v), LExecute(d, Pos(p, pc), lower(p), g, vs, v),
                   w \cup Writes(Fetch(p, pc)))
<1> DEFINE inst  == Fetch(p, pc)
           lir   == lower(p)
           k     == Pos(p, pc)
           l     == lir[k]
           t     == pc + inst.imm + 1
           m     == c.iter_edge + 1
           n     == d.iter_edge + 1
           turn  == Execute(c, pc, g, p, vs, v)
           lturn == LExecute(d, k, lir, g, vs, v)
           Goal  == Simulates(p, turn, lturn, w \cup Writes(inst))
<1> SUFFICES Goal
  OBVIOUS
<1>1. /\ pc \in Nat /\ inst.imm \in Int /\ l = Lowered(p, pc)
      /\ AtSame(p, pc + 1, LNext(lir, k + 1)) /\ PortableAt(p, pc)
  BY ReadyAt
<1>2. IsProgram(p) /\ c \in Context /\ d \in Context /\ Agree(c, d, w)
  BY DEF Ready
<1>3. /\ m \in Nat /\ n \in Nat /\ c.iter_end \in Nat /\ c.iter_end = d.iter_end
      /\ m = n \/ (m >= c.iter_end /\ n >= d.iter_end)
  BY <1>2 DEF Context, Agree
<1>4. inst.op = "END_ITER"
  OBVIOUS
<1>5. Writes(inst) = {}
  BY <1>4 DEF Writes, AluOps, Gathers
<1>6. l.op = "ITER_NEXT" /\ l.target = t
  <2>1. LOpOf(inst) = "ITER_NEXT"
    BY <1>4, LOpIs
  <2> QED
    BY <1>1, <1>4, <2>1 DEF Lowered, TargetOf
<1>7. turn = LET x == exec_end_iter(inst, c, g, vs, pc)
             IN  [ctx |-> x.ctx, pc |-> Advance(x.pc)]
  <2> DEFINE x == exec_end_iter(inst, c, g, vs, pc)
  <2>1. exec_graph(inst, c, g, vs, v, pc) = x
    BY <1>4 DEF exec_graph
  <2>2. inst.op \in GraphOps
    BY <1>4 DEF GraphOps
  <2> DEFINE y == exec_graph(inst, c, g, vs, v, pc)
  <2>3. turn = [ctx |-> y.ctx, pc |-> Advance(y.pc)]
    <3> HIDE DEF x, lturn, lir, k, l, t
    <3> QED
      BY <2>2, ExecuteGraphIs
  <2> HIDE DEF turn
  <2> QED
    BY <2>1, <2>3
<1>8. lturn = LIterNext(l, k, lir, d, g, vs)
  <2>1. l.op = "ITER_NEXT" => lturn = LIterNext(l, k, lir, d, g, vs)
    <3> HIDE DEF lir, k
    <3> QED
      BY LExecuteIs
  <2> QED
    BY <1>6, <2>1
<1>9. Advance(pc + inst.imm) = t /\ AtSame(p, t, LNext(lir, t))
  <2>1. Lands(p, t)
    BY <1>1, <1>4 DEF PortableAt
  <2>2. t \in Int /\ t - 1 = pc + inst.imm
    BY <1>1
  <2> HIDE DEF t
  <2> QED
    BY <1>2, <2>1, <2>2, Landing
<1>10. CASE m < c.iter_end
  <2> DEFINE x == VisitEdge(c, g, vs, m)
             y == VisitEdge(d, g, vs, n)
  <2>1. m = n
    BY <1>3, <1>10
  <2>2. turn = [ctx |-> x, pc |-> t]
    <3>1. exec_end_iter(inst, c, g, vs, pc) = [ctx |-> x, pc |-> pc + inst.imm]
      BY <1>10 DEF exec_end_iter
    <3> HIDE DEF x, turn, t
    <3> QED
      BY <1>7, <1>9, <3>1
  <2>3. lturn = [ctx |-> y, pc |-> LNext(lir, t)]
    <3>1. n < d.iter_end
      BY <1>3, <1>10
    <3>2. LIterNext(l, k, lir, d, g, vs) = [ctx |-> y, pc |-> LNext(lir, t)]
      <4> HIDE DEF l, k, lir, t
      <4> QED
        BY <1>3, <1>6, <3>1 DEF LIterNext
    <3> QED
      BY <1>8, <3>2
  <2>4. Agree(x, y, w)
    <3> HIDE DEF m, n
    <3> QED
      BY <1>2, <2>1, AgreeOnVisit
  <2> HIDE DEF x, y, t, inst, turn, lturn
  <2> QED
    BY <1>5, <1>9, <2>2, <2>3, <2>4 DEF Simulates
<1>11. CASE m >= c.iter_end
  <2> DEFINE x == [c EXCEPT !.iter_edge = m]
             y == [d EXCEPT !.iter_edge = n]
  <2>1. n >= d.iter_end
    BY <1>3, <1>11
  <2>2. turn = [ctx |-> x, pc |-> pc + 1]
    <3>1. exec_end_iter(inst, c, g, vs, pc) = [ctx |-> x, pc |-> pc]
      BY <1>3, <1>11 DEF exec_end_iter
    <3>2. Advance(pc) = pc + 1
      BY <1>1 DEF Advance
    <3> HIDE DEF x, turn
    <3> QED
      BY <1>7, <3>1, <3>2
  <2>3. lturn = [ctx |-> y, pc |-> LNext(lir, k + 1)]
    <3>1. LIterNext(l, k, lir, d, g, vs) = [ctx |-> y, pc |-> LNext(lir, k + 1)]
      <4> HIDE DEF l, k, lir
      <4> QED
        BY <2>1 DEF LIterNext
    <3> QED
      BY <1>8, <3>1
  <2>4. Agree(x, y, w)
    BY <1>2, <1>11, <2>1, AgreeOnStep
  <2> HIDE DEF x, y, inst, turn, lturn
  <2> QED
    BY <1>1, <1>5, <2>2, <2>3, <2>4 DEF Simulates
<1> QED
  BY <1>3, <1>10, <1>11

(* One instruction that both engines execute. *)
LEMMA SameTurn ==
  ASSUME NEW g, NEW v, NEW vs, NEW p, NEW pc, NEW c, NEW d, NEW w,
         Ready(g, v, vs, p, pc, c, d, w)
  PROVE  Simulates(p, Execute(c, pc, g, p, vs, v), LExecute(d, Pos(p, pc), lower(p), g, vs, v),
                   w \cup Writes(Fetch(p, pc)))
<1> DEFINE op == Fetch(p, pc).op
<1>1. Fetch(p, pc) \in Instruction /\ op # "NOP" /\ op \notin UnknownOps
  BY ReadyAt DEF PortableAt
<1>2. \/ op \in AluOps \/ op \in MemoryOps \/ op \in Gathers
      \/ op \in {"HALT", "JMP", "JZ", "JNZ", "SCATTER", "SCATTER_IF", "VOTE_CHANGE"}
      \/ op = "ITER_NEIGHBORS" \/ op = "END_ITER"
  BY <1>1 DEF Instruction, ControlOps, GraphOps, SystemOps, Gathers
<1>3. CASE op \in AluOps
  BY <1>3, AluTurn
<1>4. CASE op \in MemoryOps
  BY <1>4, MemoryTurn
<1>5. CASE op \in Gathers
  BY <1>5, GatherTurn
<1>6. CASE op \in {"HALT", "JMP", "JZ", "JNZ", "SCATTER", "SCATTER_IF", "VOTE_CHANGE"}
  BY <1>6, QuietTurn
<1>7. CASE op = "ITER_NEIGHBORS"
  BY <1>7, IterBeginTurn
<1>8. CASE op = "END_ITER"
  BY <1>8, EndIterTurn
<1> QED
  BY <1>2, <1>3, <1>4, <1>5, <1>6, <1>7, <1>8

LEMMA SameEffects ==
  ASSUME NEW g, NEW v, NEW vs, NEW p, NEW pc, NEW c, NEW d, NEW w,
         Ready(g, v, vs, p, pc, c, d, w)
  PROVE  LET inst == Fetch(p, pc)
             l    == lower(p)[Pos(p, pc)]
         IN  /\ Scattered(inst, c, g, v) = LScattered(l, d, g, v)
             /\ Votes(inst) = LVotes(l)
<1> DEFINE inst == Fetch(p, pc)
           l    == lower(p)[Pos(p, pc)]
<1>1. /\ inst \in Instruction /\ inst.rs1 \in Reg /\ l = Lowered(p, pc)
      /\ inst.op # "NOP" /\ inst.op \notin UnknownOps
      /\ inst.op = "LOADV" => inst.imm \in 0 .. 3
      /\ \A r \in Reads(inst) : c.regs[r] = d.regs[r]
  BY ReadyAt DEF PortableAt
<1>2. /\ c \in Context
      /\ inst.op \in Comparisons \cup Tests => \A r \in Reads(inst) : c.regs[r] # NaN
  BY DEF Ready
<1>3. l.op = LOpOf(inst) /\ (inst.op = "SCATTER_IF" => l.src1 = inst.rs1)
  BY <1>1 DEF Lowered
<1> HIDE DEF inst, l
<1>4. CASE inst.op \in {"SCATTER", "SCATTER_IF", "VOTE_CHANGE"}
  <2>1. l.op = inst.op
    BY <1>3, <1>4, LOpIs
  <2>2. inst.op = "SCATTER_IF" => (Equal(d.regs[l.src1], 0) <=> Same(c.regs[inst.rs1], 0))
    <3> SUFFICES ASSUME inst.op = "SCATTER_IF"
                 PROVE  Equal(d.regs[l.src1], 0) <=> Same(c.regs[inst.rs1], 0)
      OBVIOUS
    <3>1. inst.rs1 \in Reads(inst) /\ inst.op \in Tests
      BY DEF Reads, AluOps, Tests
    <3>2. c.regs[inst.rs1] \in Double \ {NaN} /\ c.regs[inst.rs1] = d.regs[inst.rs1]
      BY <1>1, <1>2, <3>1 DEF Context
    <3>3. 0 \in Double \ {NaN}
      BY SmallType, DoublesAssumption
    <3> QED
      BY <1>3, <3>2, <3>3, OrderedFlags
  <2> QED
    BY <1>4, <2>1, <2>2 DEF Scattered, LScattered, Votes, LVotes, inst, l
<1>5. CASE inst.op \notin {"SCATTER", "SCATTER_IF", "VOTE_CHANGE"}
  <2>1. l.op \notin {"SCATTER", "SCATTER_IF", "VOTE_CHANGE"}
    <3>1. CASE inst.op = "LOADV"
      BY <1>1, <1>3, <3>1, LOpOfLOADV
    <3>2. CASE inst.op # "LOADV"
      <4>1. \/ inst.op \in AluOps \cup Gathers \cup {"JMP", "JZ", "JNZ"}
            \/ inst.op \in {"HALT", "STOREV", "LOADE", "LOADG", "ITER_NEIGHBORS", "END_ITER"}
        BY <1>1, <1>5, <3>2 DEF Instruction, ControlOps, MemoryOps, GraphOps, SystemOps, Gathers
      <4>2. CASE inst.op \in AluOps \cup Gathers \cup {"JMP", "JZ", "JNZ"}
        <5>1. LOpOf(inst) = inst.op
          BY <4>2, LOpIs
        <5> QED
          BY <1>3, <1>5, <5>1
      <4>3. CASE inst.op \in {"HALT", "STOREV", "LOADE", "LOADG", "ITER_NEIGHBORS", "END_ITER"}
        <5>1. LOpOf(inst) \in {"RETURN", "STORE_V_OUT", "LOAD_E_ATTR", "LOAD_GRAPH_SIZE",
                               "ITER_BEGIN", "ITER_NEXT"}
          BY <4>3, LOpIs
        <5> QED
          BY <1>3, <5>1
      <4> QED
        BY <4>1, <4>2, <4>3
    <3> QED
      BY <3>1, <3>2
  <2> QED
    BY <1>5, <2>1 DEF Scattered, LScattered, Votes, LVotes, inst, l
<1> QED
  BY <1>4, <1>5 DEF inst, l

(* No instruction changes the degrees that the context was loaded with. *)
SameDegrees(c, d) == d.in_deg = c.in_deg /\ d.out_deg = c.out_deg

LEMMA ExecuteDegrees ==
  ASSUME NEW c \in Context, NEW pc, NEW g, NEW p, NEW vs, NEW v
  PROVE  SameDegrees(c, Execute(c, pc, g, p, vs, v).ctx)
<1> DEFINE inst == Fetch(p, pc)
           Good(d) == SameDegrees(c, d.ctx)
           done == CASE inst.op \in ControlOps -> [ctx |-> c, pc |-> exec_control(inst, c, pc)]
                     [] inst.op \in AluOps    -> [ctx |-> exec_alu(inst, c, p), pc |-> pc]
                     [] inst.op \in MemoryOps -> [ctx |-> exec_memory(inst, c, g, v), pc |-> pc]
                     [] inst.op \in GraphOps  -> exec_graph(inst, c, g, vs, v, pc)
                     [] OTHER -> [ctx |-> c, pc |-> pc]
<1>1. \A r, x : SameDegrees(c, [c EXCEPT !.regs[r] = x])
  BY DEF SameDegrees, Context
<1>2. \A x : SameDegrees(c, [c EXCEPT !.v_out = x])
  BY DEF SameDegrees, Context
<1>3. SameDegrees(c, c)
  BY DEF SameDegrees
<1>4. Good([ctx |-> exec_alu(inst, c, p), pc |-> pc])
  BY <1>1 DEF exec_alu
<1>5. SameDegrees(c, exec_memory(inst, c, g, v))
  BY <1>1, <1>2, <1>3, Zenon DEF exec_memory
<1>6. Good(exec_iter_neighbors(inst, c, g, vs, v, pc))
  BY DEF exec_iter_neighbors, VisitEdge, SameDegrees, Context
<1>7. Good(exec_end_iter(inst, c, g, vs, pc))
  BY DEF exec_end_iter, VisitEdge, SameDegrees, Context
<1>8. /\ Good([ctx |-> c, pc |-> pc]) /\ Good([ctx |-> c, pc |-> exec_control(inst, c, pc)])
      /\ Good([ctx |-> exec_memory(inst, c, g, v), pc |-> pc])
      /\ Good([ctx |-> [c EXCEPT !.regs[inst.rd] = Gather(inst.op, g, vs, v)], pc |-> pc])
  BY <1>1, <1>3, <1>5
<1> HIDE DEF Good, inst
<1>9. Good(exec_graph(inst, c, g, vs, v, pc))
  BY <1>6, <1>7, <1>8, Zenon DEF exec_graph
<1>10. Good(done)
  BY <1>4, <1>8, <1>9, Zenon
<1>11. Execute(c, pc, g, p, vs, v) = [ctx |-> done.ctx, pc |-> Advance(done.pc)]
  BY DEF Execute, inst
<1> HIDE DEF done
<1> QED
  BY <1>10, <1>11 DEF Good

-----------------------------------------------------------------------------
(* Type correctness needs the iterators to stay inside the row of the vertex, *)
(* and the simulation the degrees that the context was loaded with: what the  *)
(* compiled kernel reads from the context the interpreter computes anew.      *)
Degrees(c) == /\ c.in_deg = OfNat(in_degree(graph, vertex))
              /\ c.out_deg = OfNat(out_degree(graph, vertex))

IInv ==
  /\ TypeOK /\ Degrees(i.ctx)
  /\ IteratorAt(i.ctx, graph, v_self, vertex) /\ IteratorAt(j.ctx, graph, v_self, vertex)

State == [ctx : Context, pc : Int, marks : SUBSET Vertices(graph), votes : 0 .. UpdatesMod - 1]

LEMMA GraphAndProgram ==
  TypeOK => IsGraph(graph) /\ IsProgram(program) /\ vertex \in Vertices(graph)
            /\ v_self \in [Vertices(graph) -> Double]
BY GraphsAssumption, ProgramsAssumption DEF TypeOK

LEMMA InitInv == Init => IInv
<1> SUFFICES ASSUME Init PROVE IInv
  OBVIOUS
<1>1. /\ graph \in Graphs /\ program \in Programs /\ kernel = lower(program)
      /\ v_self \in [Vertices(graph) -> Seeds] /\ vertex \in Vertices(graph)
      /\ written = {} /\ clean = TRUE
  BY DEF Init
<1>2. IsGraph(graph) /\ v_self \in [Vertices(graph) -> Double]
  BY <1>1, GraphsAssumption, ValuesAssumption
<1>3. PICK out \in {v_self, [v \in Vertices(graph) |-> 0]}, regs \in [Reg -> Leftovers] :
        i = Machine([r \in Reg |-> 0], out) /\ j = Machine(regs, out)
  BY DEF Init
<1>4. out \in [Vertices(graph) -> Double]
  BY <1>2, SmallType
<1>5. [r \in Reg |-> 0] \in [Reg -> Double] /\ regs \in [Reg -> Double]
  BY SmallType, ValuesAssumption
<1> DEFINE c == load_context(graph, v_self, out, vertex)
<1>6. c \in Context /\ IteratorAt(c, graph, v_self, vertex)
  BY <1>1, <1>2, <1>4, LoadType
<1>7. Degrees(c)
  BY DEF load_context, Degrees
<1>8. ASSUME NEW rs \in [Reg -> Double]
      PROVE  /\ [c EXCEPT !.regs = rs] \in Context
             /\ IteratorAt([c EXCEPT !.regs = rs], graph, v_self, vertex)
             /\ Degrees([c EXCEPT !.regs = rs])
  <2> HIDE DEF c
  <2> QED
    BY <1>6, <1>7, <1>8 DEF Context, IteratorAt, Degrees
<1>9. \A rs : Machine(rs, out) = [ctx |-> [c EXCEPT !.regs = rs], pc |-> 0, marks |-> {}, votes |-> 0]
  BY DEF Machine
<1> HIDE DEF c
<1>10. \A rs \in [Reg -> Double] :
         /\ Machine(rs, out) \in State
         /\ IteratorAt(Machine(rs, out).ctx, graph, v_self, vertex)
         /\ Degrees(Machine(rs, out).ctx)
  BY <1>8, <1>9, UpdatesAssumption DEF State
<1>11. i \in State /\ j \in State
       /\ IteratorAt(i.ctx, graph, v_self, vertex) /\ IteratorAt(j.ctx, graph, v_self, vertex)
       /\ Degrees(i.ctx)
  BY <1>3, <1>5, <1>10
<1> QED
  BY <1>1, <1>2, <1>11 DEF IInv, TypeOK, State

(* One step of the interpreter, and one of the compiled kernel. *)
LEMMA InterpretedInv ==
  ASSUME IInv, IRunning, Interpreted, UNCHANGED <<graph, program, v_self, vertex, kernel>>
  PROVE  /\ i' \in State' /\ written' \subseteq Reg /\ clean' \in BOOLEAN
         /\ IteratorAt(i'.ctx, graph, v_self, vertex) /\ Degrees(i.ctx)'
<1> DEFINE inst == Fetch(program, i.pc)
           turn == Execute(i.ctx, i.pc, graph, program, v_self, vertex)
<1>1. /\ IsGraph(graph) /\ IsProgram(program) /\ vertex \in Vertices(graph)
      /\ v_self \in [Vertices(graph) -> Double]
  BY GraphAndProgram DEF IInv
<1>2. i \in State /\ IteratorAt(i.ctx, graph, v_self, vertex) /\ Degrees(i.ctx)
      /\ written \subseteq Reg /\ clean \in BOOLEAN
  BY DEF IInv, TypeOK, State
<1>3. i.ctx \in Context /\ i.pc \in Int /\ Running(program, i.pc)
  BY <1>2 DEF State, IRunning
<1>4. /\ turn.ctx \in Context /\ turn.pc \in Int
      /\ IteratorAt(turn.ctx, graph, v_self, vertex)
  BY <1>1, <1>2, <1>3, ExecuteType
<1>5. SameDegrees(i.ctx, turn.ctx)
  BY <1>3, ExecuteDegrees
<1>6. inst \in Instruction
  BY <1>1, <1>3, InstructionType
<1>7. Scattered(inst, i.ctx, graph, vertex) \subseteq Vertices(graph)
  BY <1>1, ScatteredType
<1>8. (i.votes + Votes(inst)) % UpdatesMod \in 0 .. UpdatesMod - 1
  <2>1. Votes(inst) \in {0, 1} /\ i.votes \in Nat /\ UpdatesMod \in Nat \ {0}
    BY <1>2, EffectsOfOps, UpdatesAssumption DEF State
  <2> QED
    BY <2>1
<1>9. Writes(inst) \subseteq Reg
  BY <1>6 DEF Writes, Instruction
<1>10. /\ i' = [ctx |-> turn.ctx, pc |-> turn.pc,
                marks |-> i.marks \cup Scattered(inst, i.ctx, graph, vertex),
                votes |-> (i.votes + Votes(inst)) % UpdatesMod]
       /\ written' = written \cup Writes(inst) /\ clean' \in BOOLEAN
  BY DEF Interpreted
<1> HIDE DEF inst, turn
<1>11. /\ i'.ctx = turn.ctx /\ i'.ctx \in Context
       /\ i' \in [ctx : Context, pc : Int, marks : SUBSET Vertices(graph),
                  votes : 0 .. UpdatesMod - 1]
  BY <1>2, <1>4, <1>7, <1>8, <1>10 DEF State
<1>12. Degrees(i.ctx)'
  BY <1>2, <1>5, <1>11 DEF Degrees, SameDegrees
<1> QED
  BY <1>2, <1>4, <1>9, <1>10, <1>11, <1>12 DEF State

LEMMA NativeInv ==
  ASSUME IInv, CompileOutcome(kernel) = "kernel", JRunning, Native,
         UNCHANGED <<graph, program, v_self, vertex, kernel>>
  PROVE  j' \in State' /\ IteratorAt(j'.ctx, graph, v_self, vertex)
<1> DEFINE l    == kernel[j.pc]
           turn == LExecute(j.ctx, j.pc, kernel, graph, v_self, vertex)
<1>1. /\ IsGraph(graph) /\ IsProgram(program) /\ vertex \in Vertices(graph)
      /\ v_self \in [Vertices(graph) -> Double] /\ kernel = lower(program)
  BY GraphAndProgram DEF IInv, TypeOK
<1>2. j \in State /\ IteratorAt(j.ctx, graph, v_self, vertex)
  BY DEF IInv, TypeOK, State
<1>3. j.ctx \in Context /\ j.pc \in DOMAIN lower(program)
  BY <1>1, <1>2 DEF State, JRunning
<1>4. /\ turn.ctx \in Context /\ turn.pc \in DOMAIN lower(program) \cup {-1}
      /\ IteratorAt(turn.ctx, graph, v_self, vertex)
  BY <1>1, <1>2, <1>3, LExecuteType
<1>5. turn.pc \in Int
  BY <1>1, <1>4, LoweredAt, KeptFinite
<1>6. LScattered(l, j.ctx, graph, vertex) \subseteq Vertices(graph)
  BY <1>1, RowBounds DEF LScattered
<1>7. (j.votes + LVotes(l)) % UpdatesMod \in 0 .. UpdatesMod - 1
  <2>1. LVotes(l) \in {0, 1} /\ j.votes \in Nat /\ UpdatesMod \in Nat \ {0}
    BY <1>2, UpdatesAssumption DEF State, LVotes
  <2> QED
    BY <2>1
<1>8. j' = [ctx |-> turn.ctx, pc |-> turn.pc,
            marks |-> j.marks \cup LScattered(l, j.ctx, graph, vertex),
            votes |-> (j.votes + LVotes(l)) % UpdatesMod]
  BY DEF Native
<1> HIDE DEF l, turn
<1> QED
  BY <1>2, <1>4, <1>5, <1>6, <1>7, <1>8 DEF State

LEMMA NextInv == IInv /\ [Next]_vars => IInv'
<1> SUFFICES ASSUME IInv, [Next]_vars PROVE IInv'
  OBVIOUS
<1>1. CASE UNCHANGED vars
  BY <1>1 DEF IInv, TypeOK, Degrees, IteratorAt, vars
<1>2. CASE Next
  <2>1. CompileOutcome(kernel) = "kernel" /\ UNCHANGED <<graph, program, v_self, vertex, kernel>>
    BY <1>2 DEF Next
  <2>2. ASSUME UNCHANGED i, UNCHANGED written, UNCHANGED clean, j' \in State',
               IteratorAt(j'.ctx, graph, v_self, vertex)
        PROVE  IInv'
    BY <2>1, <2>2 DEF IInv, TypeOK, Degrees, IteratorAt, State
  <2>3. CASE Skip
    BY <2>1, <2>3, InterpretedInv DEF Skip, AtNop, IInv, TypeOK, IteratorAt, State
  <2>4. CASE Together
    BY <2>1, <2>4, InterpretedInv, NativeInv
       DEF Together, SamePlace, IInv, TypeOK, IteratorAt, State
  <2>5. CASE CatchUp
    BY <2>1, <2>2, <2>5, NativeInv DEF CatchUp
  <2>6. CASE Alone
    BY <2>1, <2>6, InterpretedInv DEF Alone, IInv, TypeOK, IteratorAt, State
  <2> QED
    BY <1>2, <2>3, <2>4, <2>5, <2>6 DEF Next
<1> QED
  BY <1>1, <1>2

(* The types of the two engines: no instruction takes a register, an iterator *)
(* or a mark out of range, in either of them, whatever compile accepts.       *)
THEOREM TypeCorrect == Spec => []TypeOK
<1>1. IInv => TypeOK
  BY DEF IInv
<1> QED
  BY <1>1, InitInv, NextInv, PTL DEF Spec

-----------------------------------------------------------------------------
(* The simulation, for two engines e and f. *)
Synchronous(e, f, w) ==
  /\ Agree(e.ctx, f.ctx, w)
  /\ e.marks = f.marks /\ e.votes = f.votes
  /\ AtSame(program, e.pc, f.pc) \/ AtExit(program, e.pc, f.pc, f.ctx)

LEMMA LockstepIs ==
  kernel = lower(program) => (InLockstep <=> (Portable(program) /\ clean => Synchronous(i, j, written)))
BY DEF InLockstep, Synchronous, AtSame, AtExit, InStep, Leaving, JRunning

LEMMA PosZero ==
  ASSUME NEW p, IsProgram(p), Portable(p)
  PROVE  Pos(p, 0) = 0 /\ LNext(lower(p), 0) = 0
<1>1. Kept(p) \subseteq Nat /\ Kept(p) # {} /\ IsFiniteSet(Kept(p))
  BY KeptFinite DEF Portable
<1>2. {q \in Kept(p) : q < 0} = {}
  BY <1>1
<1>3. Pos(p, 0) = 0
  BY <1>2, FS_EmptySet DEF Pos
<1>4. Cardinality(Kept(p)) \in Nat /\ Cardinality(Kept(p)) # 0
  BY <1>1, KeptFinite, FS_EmptySet
<1>5. 0 \in DOMAIN lower(p)
  BY <1>4, LoweredAt
<1> QED
  BY <1>3, <1>5 DEF LNext

LEMMA LockstepInit == Init => InLockstep
<1> SUFFICES ASSUME Init, Portable(program) PROVE Synchronous(i, j, written)
  BY LockstepIs DEF Init
<1>1. IsProgram(program) /\ written = {}
  BY ProgramsAssumption DEF Init
<1>2. PICK out \in {v_self, [v \in Vertices(graph) |-> 0]}, regs \in [Reg -> Leftovers] :
        i = Machine([r \in Reg |-> 0], out) /\ j = Machine(regs, out)
  BY DEF Init
<1> DEFINE c == load_context(graph, v_self, out, vertex)
<1>3. /\ i.ctx = [c EXCEPT !.regs = [r \in Reg |-> 0]] /\ j.ctx = [c EXCEPT !.regs = regs]
      /\ i.pc = 0 /\ j.pc = 0 /\ i.marks = j.marks /\ i.votes = j.votes
  BY <1>2 DEF Machine
<1>4. Agree(i.ctx, j.ctx, {})
  BY <1>3 DEF Agree, load_context
<1>5. AtSame(program, 0, 0)
  BY <1>1, PosZero DEF AtSame
<1> QED
  BY <1>1, <1>3, <1>4, <1>5 DEF Synchronous

(* Both engines execute the instruction at which both stand. *)
LEMMA LockstepTogether ==
  ASSUME IInv, Portable(program), Synchronous(i, j, written), Together, clean',
         UNCHANGED <<graph, program, v_self, vertex, kernel>>
  PROVE  Synchronous(i', j', written')
<1> DEFINE inst  == Fetch(program, i.pc)
           l     == kernel[j.pc]
           turn  == Execute(i.ctx, i.pc, graph, program, v_self, vertex)
           lturn == LExecute(j.ctx, j.pc, kernel, graph, v_self, vertex)
<1>1. /\ IsGraph(graph) /\ IsProgram(program) /\ vertex \in Vertices(graph)
      /\ v_self \in [Vertices(graph) -> Double] /\ kernel = lower(program)
      /\ i \in State /\ j \in State /\ written \in SUBSET Reg /\ Degrees(i.ctx)
  BY GraphAndProgram DEF IInv, TypeOK, State
<1>2. j.pc = Pos(program, i.pc) /\ i.pc \in Kept(program)
  BY <1>1 DEF Together, SamePlace, AtNop, IRunning, Kept, Running, State
<1>3. Reads(inst) \subseteq written /\ Ordered(inst, i.ctx)
  BY DEF Together, Interpreted
<1>4. Agree(i.ctx, j.ctx, written) /\ i.marks = j.marks /\ i.votes = j.votes
  BY DEF Synchronous
<1>5. Ready(graph, vertex, v_self, program, i.pc, i.ctx, j.ctx, written)
  BY <1>1, <1>2, <1>3, <1>4 DEF Ready, Ordered, Degrees, State
<1>6. /\ Simulates(program, turn, lturn, written \cup Writes(inst))
      /\ Scattered(inst, i.ctx, graph, vertex) = LScattered(l, j.ctx, graph, vertex)
      /\ Votes(inst) = LVotes(l)
  BY <1>1, <1>2, <1>5, SameTurn, SameEffects
<1>7. /\ i' = [ctx |-> turn.ctx, pc |-> turn.pc,
               marks |-> i.marks \cup Scattered(inst, i.ctx, graph, vertex),
               votes |-> (i.votes + Votes(inst)) % UpdatesMod]
      /\ written' = written \cup Writes(inst)
      /\ j' = [ctx |-> lturn.ctx, pc |-> lturn.pc,
               marks |-> j.marks \cup LScattered(l, j.ctx, graph, vertex),
               votes |-> (j.votes + LVotes(l)) % UpdatesMod]
  BY DEF Together, Interpreted, Native
<1> HIDE DEF inst, l, turn, lturn
<1>8. /\ i'.ctx = turn.ctx /\ i'.pc = turn.pc /\ j'.ctx = lturn.ctx /\ j'.pc = lturn.pc
      /\ i'.marks = j'.marks /\ i'.votes = j'.votes
  BY <1>4, <1>6, <1>7
<1>9. program' = program
  OBVIOUS
<1>10. /\ Agree(i'.ctx, j'.ctx, written')
       /\ AtSame(program, i'.pc, j'.pc) \/ AtExit(program, i'.pc, j'.pc, j'.ctx)
  BY <1>6, <1>7, <1>8 DEF Simulates
<1> QED
  BY <1>8, <1>10 DEF Synchronous

(* The interpreter alone executes a NOP: the place of both stays the same. *)
LEMMA LockstepSkip ==
  ASSUME IInv, Portable(program), Synchronous(i, j, written), Skip,
         UNCHANGED <<graph, program, v_self, vertex, kernel>>
  PROVE  Synchronous(i', j', written')
<1> DEFINE inst == Fetch(program, i.pc)
<1>1. IsProgram(program) /\ i \in State /\ UNCHANGED j
  BY GraphAndProgram DEF IInv, TypeOK, State, Skip
<1>2. i.pc \in Nat /\ Running(program, i.pc) /\ inst.op = "NOP"
  BY <1>1 DEF Skip, AtNop, IRunning, Running, State
<1>3. Execute(i.ctx, i.pc, graph, program, v_self, vertex) = [ctx |-> i.ctx, pc |-> i.pc + 1]
  <2>1. inst.op \in ControlOps
    BY <1>2 DEF ControlOps
  <2>2. exec_control(inst, i.ctx, i.pc) = i.pc
    BY <1>2 DEF exec_control
  <2>3. Advance(i.pc) = i.pc + 1
    BY <1>2 DEF Advance
  <2> QED
    BY <1>2, <2>1, <2>2, <2>3, ExecuteIs
<1>4. /\ Scattered(inst, i.ctx, graph, vertex) = {} /\ Votes(inst) = 0 /\ Writes(inst) = {}
  BY <1>2 DEF Scattered, Votes, Writes, AluOps, Gathers
<1>5. (i.votes + 0) % UpdatesMod = i.votes
  BY <1>1, UpdatesAssumption DEF State
<1>6. /\ i'.ctx = i.ctx /\ i'.pc = i.pc + 1 /\ i'.marks = i.marks /\ i'.votes = i.votes
      /\ written' = written
  BY <1>3, <1>4, <1>5 DEF Skip, Interpreted
<1>7. Pos(program, i.pc + 1) = Pos(program, i.pc)
  BY <1>1, <1>2, PosNext DEF Kept
<1>8. /\ AtSame(program, i.pc, j.pc) => AtSame(program, i.pc + 1, j.pc)
      /\ AtExit(program, i.pc, j.pc, j.ctx) => AtExit(program, i.pc + 1, j.pc, j.ctx)
  BY <1>2, <1>7 DEF AtSame, AtExit
<1> QED
  BY <1>1, <1>6, <1>8 DEF Synchronous

(* The compiled kernel executes the END_ITER that the interpreter jumped over.*)
LEMMA LockstepCatchUp ==
  ASSUME IInv, Portable(program), Synchronous(i, j, written), CatchUp,
         UNCHANGED <<graph, program, v_self, vertex, kernel>>
  PROVE  Synchronous(i', j', written')
<1> DEFINE l == kernel[j.pc]
           n == j.ctx.iter_edge + 1
           f == [j.ctx EXCEPT !.iter_edge = n]
<1>1. /\ IsProgram(program) /\ i \in State /\ j \in State /\ kernel = lower(program)
      /\ UNCHANGED <<i, written>> /\ j.pc \in DOMAIN lower(program)
  BY GraphAndProgram DEF IInv, TypeOK, State, CatchUp, JRunning
<1>2. ~AtSame(program, i.pc, j.pc)
  <2> SUFFICES ASSUME AtSame(program, i.pc, j.pc) PROVE FALSE
    OBVIOUS
  <2>1. j.pc # -1 /\ Cardinality(Kept(program)) \in Nat
        /\ DOMAIN lower(program) = 0 .. Cardinality(Kept(program)) - 1
    BY <1>1, LoweredAt, KeptFinite
  <2>2. i.pc \in Nat /\ j.pc = Pos(program, i.pc)
    BY <1>1, <2>1 DEF AtSame, LNext, State
  <2>3. ~Running(program, i.pc)
    BY <2>2 DEF CatchUp, SamePlace, IRunning
  <2>4. i.pc >= Len(program.code)
    BY <1>1, <2>2, <2>3, KeptFinite DEF Running
  <2>5. Pos(program, i.pc) = Cardinality(Kept(program))
    BY <1>1, <2>2, <2>4, PosPastEnd
  <2> QED
    BY <1>1, <2>1, <2>2, <2>5
<1>3. /\ l.op = "ITER_NEXT" /\ i.pc > 0 /\ j.pc + 1 = Pos(program, i.pc)
      /\ j.ctx.iter_edge >= j.ctx.iter_end
  BY <1>1, <1>2 DEF Synchronous, AtExit
<1>4. j.ctx \in Context /\ n \in Nat /\ n >= j.ctx.iter_end
  BY <1>1, <1>3 DEF State, Context
<1>5. LExecute(j.ctx, j.pc, kernel, graph, v_self, vertex)
        = [ctx |-> f, pc |-> LNext(kernel, j.pc + 1)]
  <2>1. l.op = "ITER_NEXT" => LExecute(j.ctx, j.pc, kernel, graph, v_self, vertex)
                                = LIterNext(l, j.pc, kernel, j.ctx, graph, v_self)
    BY LExecuteIs
  <2>2. LIterNext(l, j.pc, kernel, j.ctx, graph, v_self)
          = [ctx |-> f, pc |-> LNext(kernel, j.pc + 1)]
    <3> HIDE DEF l
    <3> QED
      BY <1>4 DEF LIterNext
  <2> QED
    BY <1>3, <2>1, <2>2
<1>6. LScattered(l, j.ctx, graph, vertex) = {} /\ LVotes(l) = 0
  BY <1>3 DEF LScattered, LVotes
<1>7. (j.votes + 0) % UpdatesMod = j.votes
  BY <1>1, UpdatesAssumption DEF State
<1>8. /\ j'.ctx = f /\ j'.pc = LNext(kernel, j.pc + 1)
      /\ j'.marks = j.marks /\ j'.votes = j.votes
  BY <1>5, <1>6, <1>7 DEF CatchUp, Native
<1>9. Agree(i.ctx, f, written)
  BY <1>1, <1>3, <1>4 DEF Synchronous, Agree, State, Context
<1>10. AtSame(program, i.pc, LNext(kernel, j.pc + 1))
  BY <1>1, <1>3 DEF AtSame, State
<1> QED
  BY <1>1, <1>8, <1>9, <1>10 DEF Synchronous

(* Neither engine runs ahead of the other: the interpreter is never alone. *)
LEMMA NeverAlone ==
  ASSUME IInv, Synchronous(i, j, written), Alone
  PROVE  FALSE
<1>1. /\ IsProgram(program) /\ i \in State /\ kernel = lower(program)
      /\ j.pc \notin DOMAIN lower(program)
  BY GraphAndProgram DEF IInv, TypeOK, State, Alone, JRunning
<1>2. i.pc \in Kept(program) /\ i.pc \in Nat
  BY <1>1 DEF Alone, AtNop, IRunning, Running, Kept, State
<1>3. Pos(program, i.pc) \in DOMAIN lower(program)
  BY <1>1, <1>2, LoweredAt
<1>4. AtSame(program, i.pc, j.pc)
  BY <1>1 DEF Synchronous, AtExit
<1> QED
  BY <1>1, <1>2, <1>3, <1>4 DEF AtSame, LNext

LEMMA LockstepNext == IInv /\ InLockstep /\ [Next]_vars => InLockstep'
<1> SUFFICES ASSUME IInv, InLockstep, [Next]_vars PROVE InLockstep'
  OBVIOUS
<1>1. CASE UNCHANGED vars
  BY <1>1 DEF vars, InLockstep, InStep, Leaving, JRunning
<1>2. CASE Next
  <2>1. UNCHANGED <<graph, program, v_self, vertex, kernel>> /\ kernel = lower(program)
    BY <1>2 DEF Next, IInv, TypeOK
  <2>2. kernel' = lower(program')
    BY <2>1
  <2> SUFFICES ASSUME Portable(program), clean' PROVE Synchronous(i', j', written')
    BY <2>1, <2>2 DEF InLockstep, Synchronous, AtSame, AtExit, InStep, Leaving, JRunning
  <2>3. clean
    BY <1>2 DEF Next, Skip, Together, CatchUp, Alone, Interpreted
  <2>4. Synchronous(i, j, written)
    BY <2>1, <2>3, LockstepIs
  <2>5. CASE Skip
    BY <2>1, <2>4, <2>5, LockstepSkip
  <2>6. CASE Together
    BY <2>1, <2>4, <2>6, LockstepTogether
  <2>7. CASE CatchUp
    BY <2>1, <2>4, <2>7, LockstepCatchUp
  <2>8. CASE Alone
    BY <2>4, <2>8, NeverAlone
  <2> QED
    BY <1>2, <2>5, <2>6, <2>7, <2>8 DEF Next
<1> QED
  BY <1>1, <1>2

(* The compiled kernel simulates the interpreter: at the same instruction,    *)
(* with the same values in every register written, the same marks and votes.  *)
THEOREM Lockstep == Spec => []InLockstep
<1>1. Init => IInv /\ InLockstep
  BY InitInv, LockstepInit
<1>2. (IInv /\ InLockstep) /\ [Next]_vars => (IInv /\ InLockstep)'
  BY NextInv, LockstepNext
<1> QED
  BY <1>1, <1>2, PTL DEF Spec

(* A kernel that both engines finish has the same outcome in both.            *)
THEOREM SameOutcomes == Spec => []SameOutcome
<1>1. InLockstep => SameOutcome
  BY DEF InLockstep, SameOutcome, Agree
<1> QED
  BY <1>1, Lockstep, PTL

(* The labels of a portable program are positions of the lowered program. *)
LEMMA PortableLabels ==
  ASSUME NEW p, IsProgram(p), Portable(p), NEW k \in DOMAIN lower(p)
  PROVE  LabelsOf(lower(p)[k], k) \subseteq DOMAIN lower(p)
<1> DEFINE n == Cardinality(Kept(p))
<1>1. PICK pc \in Kept(p) : k = Pos(p, pc)
  BY LoweredAt
<1> DEFINE inst == Fetch(p, pc)
           l    == lower(p)[k]
<1>2. /\ n \in Nat /\ pc \in Nat /\ DOMAIN lower(p) = 0 .. n - 1
      /\ k \in 0 .. n - 1 /\ l = Lowered(p, pc)
  BY <1>1, KeptFinite, LoweredAt
<1>3. l.op = LOpOf(inst) /\ l.target = TargetOf(inst, pc)
  BY <1>2 DEF Lowered
<1>4. PortableAt(p, pc)
  BY DEF Portable
<1>5. inst \in Instruction /\ inst.op # "NOP"
  BY <1>2, NextPosition, InstructionType DEF Kept
<1>6. /\ inst.op \in {"JMP", "JZ", "JNZ", "END_ITER"} =>
           l.target = pc + inst.imm + 1 /\ l.target \in 1 .. n - 1
      /\ inst.op = "ITER_NEIGHBORS" => l.target = pc + inst.imm /\ l.target \in 1 .. n - 1
      /\ inst.op \in {"SCATTER_IF", "END_ITER"} => k + 1 < n
  BY <1>1, <1>3, <1>4 DEF PortableAt, Lands, TargetOf
<1> HIDE DEF inst, l, n
<1>7. CASE inst.op \in {"JMP", "JZ", "JNZ"}
  <2>1. l.op = inst.op
    BY <1>3, <1>7, LOpIs
  <2>2. LabelsOf(l, k) = {l.target}
    BY <1>7, <2>1 DEF LabelsOf
  <2> QED
    BY <1>2, <1>6, <1>7, <2>2 DEF l
<1>8. CASE inst.op = "ITER_NEIGHBORS"
  <2>1. l.op = "ITER_BEGIN"
    BY <1>3, <1>8, LOpIs
  <2>2. LabelsOf(l, k) = {l.target}
    BY <2>1 DEF LabelsOf
  <2> QED
    BY <1>2, <1>6, <1>8, <2>2 DEF l
<1>9. CASE inst.op = "END_ITER"
  <2>1. l.op = "ITER_NEXT"
    BY <1>3, <1>9, LOpIs
  <2>2. LabelsOf(l, k) = {l.target, k + 1}
    BY <2>1 DEF LabelsOf
  <2> QED
    BY <1>2, <1>6, <1>9, <2>2 DEF l
<1>10. CASE inst.op = "SCATTER_IF"
  <2>1. l.op = "SCATTER_IF"
    BY <1>3, <1>10, LOpIs
  <2>2. LabelsOf(l, k) = {k + 1}
    BY <2>1 DEF LabelsOf
  <2> QED
    BY <1>2, <1>6, <1>10, <2>2 DEF l
<1>11. CASE inst.op \notin {"JMP", "JZ", "JNZ", "ITER_NEIGHBORS", "END_ITER", "SCATTER_IF"}
  <2>1. \/ inst.op \in AluOps \cup Gathers \cup {"SCATTER", "VOTE_CHANGE"}
        \/ inst.op \in {"HALT", "STOREV", "LOADE", "LOADG"}
        \/ inst.op = "LOADV" \/ inst.op \in UnknownOps
    BY <1>5, <1>11 DEF Instruction, ControlOps, AluOps, MemoryOps, GraphOps, SystemOps,
                       UnknownOps, Gathers
  <2>2. l.op \in AluOps \cup Gathers \cup
          {"SCATTER", "VOTE_CHANGE", "RETURN", "STORE_V_OUT", "LOAD_E_ATTR", "LOAD_GRAPH_SIZE",
           "LOAD_V_SELF", "LOAD_N_VAL", "LOAD_IN_DEG", "LOAD_OUT_DEG", "ADD"}
    BY <1>3, <2>1, LOpIs, LOpOfLOADV
  <2>3. LabelsOf(l, k) = {}
    BY <2>2 DEF LabelsOf, AluOps, Gathers
  <2> QED
    BY <2>3 DEF l
<1> QED
  BY <1>7, <1>8, <1>9, <1>10, <1>11

(* A portable program has an addition only where the bytecode has one, with  *)
(* its three registers, so compile refuses none.                              *)
LEMMA PortableRegisters ==
  ASSUME NEW p, IsProgram(p), Portable(p), NEW k \in DOMAIN lower(p)
  PROVE  ~InvalidRegister(lower(p)[k])
<1>1. PICK pc \in Kept(p) : k = Pos(p, pc)
  BY LoweredAt
<1> DEFINE inst == Fetch(p, pc)
           l    == lower(p)[k]
<1>2. l = Lowered(p, pc) /\ PortableAt(p, pc)
  BY <1>1, LoweredAt DEF Portable
<1>3. /\ l.op = LOpOf(inst)
      /\ inst.op \in AluWords => l.dst = inst.rd /\ l.src1 = inst.rs1 /\ l.src2 = inst.rs2
  BY <1>2 DEF Lowered
<1>4. inst \in Instruction /\ inst.op # "NOP"
  BY NextPosition, InstructionType DEF Kept
<1>5. {inst.rd, inst.rs1, inst.rs2} \subseteq Reg
  BY <1>4 DEF Instruction
<1>6. inst.op \notin UnknownOps /\ (inst.op = "LOADV" => inst.imm \in 0 .. 3)
  BY <1>2 DEF PortableAt
<1> HIDE DEF inst, l
<1>7. CASE inst.op \in AluOps
  BY <1>3, <1>5, <1>7 DEF InvalidRegister, AluWords, l
<1>8. CASE inst.op \notin AluOps
  <2>1. \/ inst.op \in Gathers \cup {"JMP", "JZ", "JNZ", "SCATTER", "SCATTER_IF", "VOTE_CHANGE"}
        \/ inst.op \in {"HALT", "STOREV", "LOADE", "LOADG", "ITER_NEIGHBORS", "END_ITER"}
        \/ inst.op = "LOADV"
    BY <1>4, <1>6, <1>8 DEF Instruction, ControlOps, AluOps, MemoryOps, GraphOps, SystemOps,
                            UnknownOps, Gathers
  <2>2. CASE inst.op = "LOADV"
    <3>1. inst.imm = 0 \/ inst.imm = 1 \/ inst.imm = 2 \/ inst.imm = 3
      BY <1>6, <2>2
    <3>2. l.op \in {"LOAD_V_SELF", "LOAD_N_VAL", "LOAD_IN_DEG", "LOAD_OUT_DEG"}
      BY <1>3, <2>2, <3>1, LOpOfLOADV
    <3> QED
      BY <3>2 DEF InvalidRegister, l
  <2>3. CASE inst.op # "LOADV"
    <3>1. l.op \in Gathers \cup {"JMP", "JZ", "JNZ", "SCATTER", "SCATTER_IF", "VOTE_CHANGE",
                                 "RETURN", "STORE_V_OUT", "LOAD_E_ATTR", "LOAD_GRAPH_SIZE",
                                 "ITER_BEGIN", "ITER_NEXT"}
      BY <1>3, <2>1, <2>3, LOpIs
    <3> QED
      BY <3>1 DEF InvalidRegister, l, Gathers
  <2> QED
    BY <2>2, <2>3
<1> QED
  BY <1>7, <1>8

(* compile turns every portable program into a kernel: it meets no branch     *)
(* without a label, no invalid register and no empty program.                 *)
THEOREM Compiles == Spec => []PortableCompiles
<1>1. IInv => PortableCompiles
  <2> SUFFICES ASSUME IInv, Portable(program) PROVE CompileOutcome(lower(program)) = "kernel"
    BY DEF IInv, TypeOK, PortableCompiles
  <2>1. IsProgram(program)
    BY GraphAndProgram DEF IInv, TypeOK
  <2>2. DOMAIN lower(program) # {}
    BY <2>1, LoweredAt DEF Portable
  <2> QED
    BY <2>1, <2>2, PortableLabels, PortableRegisters DEF CompileOutcome
<1> QED
  BY <1>1, InitInv, NextInv, PTL DEF Spec
=============================================================================
