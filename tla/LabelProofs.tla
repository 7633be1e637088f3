---------------------------- MODULE LabelProofs -----------------------------
(***************************************************************************)
(* The theorem about a run of label propagation, for all graphs and        *)
(* labellings: when run returns, every vertex has the least label of those *)
(* that reach it.                                                          *)
(***************************************************************************)
EXTENDS LabelRun, GCVMProofs

-----------------------------------------------------------------------------
(* The inductive invariant, in terms of the values of the superstep before.   *)
Number == -Inf .. Inf
Source(g, e) == g.incoming_col_indices[e]

(* m is the least of the value of v and those that its edges es bring. *)
Least(g, vs, v, es, m) ==
  /\ m <= vs[v] /\ \A e \in es : m <= vs[Source(g, e)]
  /\ m = vs[v] \/ \E e \in es : m = vs[Source(g, e)]

Settled(g, vs, v) == \A e \in InEdges(g, v) : vs[v] <= vs[Source(g, e)]
Upto(g, v, n)     == {e \in InEdges(g, v) : e < n}

Given ==
  /\ graph \in Graphs /\ program = LabelKernel
  /\ v_self \in [V -> Number] /\ label0 \in [V -> Number]

(* Each label has come along a path, and is not above the vertex's own. *)
Labelled ==
  \A v \in V : v_self[v] <= label0[v] /\ \E u \in Ancestors(v) : v_self[v] = label0[u]

(* Off the frontier nothing is to be done, and in the end nowhere. *)
Frontier ==
  phase # "idle" => \A v \in V \ active : v_out[v] = v_self[v] /\ Settled(graph, v_self, v)
Ended == phase = "idle" => \A v \in V : Settled(graph, v_self, v)

(* A vertex that has been executed has its next label, and has marked its     *)
(* out-neighbours and voted if the label falls.                               *)
Executed ==
  phase # "idle" =>
    \A v \in active : v < cur =>
      /\ Least(graph, v_self, v, InEdges(graph, v), v_out[v])
      /\ v_out[v] # v_self[v] => OutNeighbors(graph, v) \subseteq next_active /\ updates > 0

(* No vertex votes twice. *)
Counter == phase # "idle" => updates <= IF phase = "kernel" /\ pc = 11 THEN cur + 1 ELSE cur

(* The kernel in progress, instruction by instruction. *)
InLoop(c, at) ==
  /\ at = 1 => c.regs[0] = v_self[cur]
  /\ at \in 2 .. 4 => c.iter_edge < c.iter_end
  /\ at \in {2, 3} => Least(graph, v_self, cur, Upto(graph, cur, c.iter_edge), c.regs[0])
  /\ at = 3 => c.regs[1] = v_self[Source(graph, c.iter_edge)]
  /\ at = 4 => Least(graph, v_self, cur, Upto(graph, cur, c.iter_edge + 1), c.regs[0])
PastLoop(c, at) ==
  /\ at \in 5 .. 11 => Least(graph, v_self, cur, InEdges(graph, cur), c.regs[0])
  /\ at \in 6 .. 11 => c.v_out = c.regs[0]
  /\ at = 7 => c.regs[1] = v_self[cur]
  /\ at = 8 => c.regs[1] = OfBool(Less(c.regs[0], v_self[cur]))
Told(c, at, marked, counted) ==
  c.v_out # v_self[cur] =>
    /\ at \in 10 .. 11 => OutNeighbors(graph, cur) \subseteq marked
    /\ at = 11 => counted > 0
Place == phase = "kernel" =>
  pc \in 0 .. 11 /\ InLoop(ctx, pc) /\ PastLoop(ctx, pc) /\ Told(ctx, pc, next_active, updates)

LabelInv == Given /\ Labelled /\ Frontier /\ Ended /\ Executed /\ Counter /\ Place

-----------------------------------------------------------------------------
(* What is known of the graph. *)
LEMMA GraphFacts ==
  ASSUME Given
  PROVE  /\ IsGraph(graph) /\ graph.num_vertices \in Nat /\ graph.num_vertices < UpdatesMod
         /\ V = 0 .. graph.num_vertices - 1 /\ V \subseteq Nat
         /\ \A v \in V : \A e \in InEdges(graph, v) : Source(graph, e) \in V /\ e \in Nat
         /\ \A u, v \in V : v \in OutNeighbors(graph, u) <=> u \in InNeighbors(graph, v)
<1>1. IsGraph(graph) /\ graph.num_vertices \in Nat /\ graph.num_vertices < UpdatesMod
  BY GraphsAssumption, LabelAssumption DEF Given, IsGraph
<1>2. V = 0 .. graph.num_vertices - 1 /\ V \subseteq Nat
  BY <1>1 DEF V, Vertices
<1>3. ASSUME NEW v \in V, NEW e \in InEdges(graph, v)
      PROVE  Source(graph, e) \in V /\ e \in Nat
  BY <1>1, RowBounds DEF V, Source
<1>4. \A u, v \in V : v \in OutNeighbors(graph, u) <=> u \in InNeighbors(graph, v)
  BY LabelAssumption DEF Given, V
<1> QED
  BY <1>1, <1>2, <1>3, <1>4

(* The kernel's text, and its registers. *)
LEMMA Text ==
  /\ Len(LabelKernel.code) = 11
  /\ 0 \in Reg /\ 1 \in Reg
  /\ Fetch(LabelKernel, 0)  = [op |-> "LOADV", rd |-> 0, rs1 |-> 0, rs2 |-> 0, imm |-> 0]
  /\ Fetch(LabelKernel, 1)  = [op |-> "ITER_NEIGHBORS", rd |-> 0, rs1 |-> 0, rs2 |-> 0, imm |-> 3]
  /\ Fetch(LabelKernel, 2)  = [op |-> "LOADV", rd |-> 1, rs1 |-> 0, rs2 |-> 0, imm |-> 1]
  /\ Fetch(LabelKernel, 3)  = [op |-> "MIN", rd |-> 0, rs1 |-> 0, rs2 |-> 1, imm |-> 0]
  /\ Fetch(LabelKernel, 4)  = [op |-> "END_ITER", rd |-> 0, rs1 |-> 0, rs2 |-> 0, imm |-> -3]
  /\ Fetch(LabelKernel, 5)  = [op |-> "STOREV", rd |-> 0, rs1 |-> 0, rs2 |-> 0, imm |-> 0]
  /\ Fetch(LabelKernel, 6)  = [op |-> "LOADV", rd |-> 1, rs1 |-> 0, rs2 |-> 0, imm |-> 0]
  /\ Fetch(LabelKernel, 7)  = [op |-> "CMPLT", rd |-> 1, rs1 |-> 0, rs2 |-> 1, imm |-> 0]
  /\ Fetch(LabelKernel, 8)  = [op |-> "JZ", rd |-> 0, rs1 |-> 1, rs2 |-> 0, imm |-> 2]
  /\ Fetch(LabelKernel, 9)  = [op |-> "SCATTER", rd |-> 0, rs1 |-> 0, rs2 |-> 0, imm |-> 0]
  /\ Fetch(LabelKernel, 10) = [op |-> "VOTE_CHANGE", rd |-> 0, rs1 |-> 0, rs2 |-> 0, imm |-> 0]
BY LabelAssumption, RegistersAssumption DEF LabelKernel, Fetch, Reg

(* What each instruction does. *)
Turn(c, at) == Execute(c, at, graph, LabelKernel, v_self, cur)

LEMMA Turns ==
  ASSUME NEW c
  PROVE  /\ Turn(c, 0) = [ctx |-> [c EXCEPT !.regs[0] = c.v_self], pc |-> 1]
         /\ Turn(c, 2) = [ctx |-> [c EXCEPT !.regs[1] = c.n_val], pc |-> 3]
         /\ Turn(c, 3) = [ctx |-> [c EXCEPT !.regs[0] = IF Less(c.regs[0], c.regs[1])
                                                        THEN c.regs[0] ELSE c.regs[1]],
                          pc  |-> 4]
         /\ Turn(c, 5) = [ctx |-> [c EXCEPT !.v_out = c.regs[0]], pc |-> 6]
         /\ Turn(c, 6) = [ctx |-> [c EXCEPT !.regs[1] = c.v_self], pc |-> 7]
         /\ Turn(c, 7) = [ctx |-> [c EXCEPT !.regs[1] = OfBool(Less(c.regs[0], c.regs[1]))],
                          pc  |-> 8]
         /\ Turn(c, 8) = [ctx |-> c, pc |-> IF Same(c.regs[1], 0) THEN 11 ELSE 9]
         /\ Turn(c, 9) = [ctx |-> c, pc |-> 10]
         /\ Turn(c, 10) = [ctx |-> c, pc |-> 11]
<1> USE DEF Turn, Execute, Advance, ControlOps, AluOps, MemoryOps, GraphOps, SystemOps
<1>1. Turn(c, 0) = [ctx |-> [c EXCEPT !.regs[0] = c.v_self], pc |-> 1]
  BY Text DEF exec_memory
<1>2. Turn(c, 2) = [ctx |-> [c EXCEPT !.regs[1] = c.n_val], pc |-> 3]
  BY Text DEF exec_memory
<1>3. Turn(c, 3) = [ctx |-> [c EXCEPT !.regs[0] = IF Less(c.regs[0], c.regs[1])
                                                  THEN c.regs[0] ELSE c.regs[1]],
                    pc  |-> 4]
  BY Text DEF exec_alu, Alu
<1>4. Turn(c, 5) = [ctx |-> [c EXCEPT !.v_out = c.regs[0]], pc |-> 6]
  BY Text DEF exec_memory
<1>5. Turn(c, 6) = [ctx |-> [c EXCEPT !.regs[1] = c.v_self], pc |-> 7]
  BY Text DEF exec_memory
<1>6. Turn(c, 7) = [ctx |-> [c EXCEPT !.regs[1] = OfBool(Less(c.regs[0], c.regs[1]))],
                    pc  |-> 8]
  BY Text DEF exec_alu, Alu
<1>7. Turn(c, 8) = [ctx |-> c, pc |-> IF Same(c.regs[1], 0) THEN 11 ELSE 9]
  BY Text DEF exec_control
<1>8. Turn(c, 9) = [ctx |-> c, pc |-> 10] /\ Turn(c, 10) = [ctx |-> c, pc |-> 11]
  BY Text DEF exec_graph
<1> QED
  BY <1>1, <1>2, <1>3, <1>4, <1>5, <1>6, <1>7, <1>8

LEMMA Follows ==
  ASSUME NEW c, NEW at \in {0, 2, 3, 5, 6, 7, 8, 9, 10}
  PROVE  Turn(c, at).pc \in IF at = 8 THEN {9, 11} ELSE {at + 1}
<1>1. CASE at = 0
  BY <1>1, Turns
<1>2. CASE at = 2
  BY <1>2, Turns
<1>3. CASE at = 3
  BY <1>3, Turns
<1>4. CASE at = 5
  BY <1>4, Turns
<1>5. CASE at = 6
  BY <1>5, Turns
<1>6. CASE at = 7
  <2>1. Turn(c, 7).pc = 8
    BY Turns
  <2> QED
    BY <1>6, <2>1
<1>7. CASE at = 8
  <2>1. Turn(c, 8) = [ctx |-> c, pc |-> IF Same(c.regs[1], 0) THEN 11 ELSE 9]
    BY Turns
  <2>2. Turn(c, 8).pc = IF Same(c.regs[1], 0) THEN 11 ELSE 9
    BY <2>1
  <2> QED
    BY <1>7, <2>2
<1>8. CASE at = 9
  BY <1>8, Turns
<1>9. CASE at = 10
  BY <1>9, Turns
<1> QED
  BY <1>1, <1>2, <1>3, <1>4, <1>5, <1>6, <1>7, <1>8, <1>9

LEMMA LoopTurns ==
  ASSUME NEW c
  PROVE  LET begin == graph.incoming_row_offsets[cur]
             end   == graph.incoming_row_offsets[cur + 1]
             begun == [c EXCEPT !.iter_edge = begin, !.iter_end = end]
             next  == c.iter_edge + 1
         IN  /\ Turn(c, 1) = IF begin >= end THEN [ctx |-> begun, pc |-> 5]
                             ELSE [ctx |-> VisitEdge(begun, graph, v_self, begin), pc |-> 2]
             /\ Turn(c, 4) = IF next < c.iter_end
                             THEN [ctx |-> VisitEdge(c, graph, v_self, next), pc |-> 2]
                             ELSE [ctx |-> [c EXCEPT !.iter_edge = next], pc |-> 5]
<1> QED
  BY Text DEF Turn, Execute, Advance, ControlOps, AluOps, MemoryOps, GraphOps, exec_graph,
              exec_iter_neighbors, exec_end_iter

-----------------------------------------------------------------------------
(* An instruction of the kernel, with what it does outside the context. *)
Moving == LocalStep \/ GraphStep \/ SystemStep

LEMMA Moves ==
  ASSUME IInv, LabelInv, Moving
  PROVE  /\ UNCHANGED <<graph, program, v_self, v_out, active, phase, cur>>
         /\ phase = "kernel" /\ pc \in 0 .. 10
         /\ ctx' = Turn(ctx, pc).ctx /\ pc' = Turn(ctx, pc).pc
         /\ next_active' = IF pc = 9 THEN next_active \cup OutNeighbors(graph, cur)
                           ELSE next_active
         /\ updates' = IF pc = 10 THEN (updates + 1) % UpdatesMod ELSE updates
<1>1. PICK ops : Dispatch(ops)
  BY DEF Moving, LocalStep, GraphStep, SystemStep
<1>2. /\ UNCHANGED <<graph, program, v_self, v_out, active, phase, cur>>
      /\ phase = "kernel" /\ Running(program, pc) /\ program = LabelKernel
      /\ ctx' = Turn(ctx, pc).ctx /\ pc' = Turn(ctx, pc).pc
  BY <1>1 DEF Dispatch, Turn, LabelInv, Given
<1>3. pc \in 0 .. 10
  BY <1>2, Text DEF Running, LabelInv, Place
<1>4. /\ Fetch(LabelKernel, pc).op = "SCATTER" <=> pc = 9
      /\ Fetch(LabelKernel, pc).op = "VOTE_CHANGE" <=> pc = 10
      /\ Fetch(LabelKernel, pc).op # "SCATTER_IF"
  <2>1. pc \in {0, 1, 2, 3, 4, 5, 6, 7, 8, 9, 10}
    BY <1>3
  <2> QED
    BY <2>1, Text
<1>5. /\ Scattered(Fetch(program, pc), ctx, graph, cur) =
           IF pc = 9 THEN OutNeighbors(graph, cur) ELSE {}
      /\ Votes(Fetch(program, pc)) = IF pc = 10 THEN 1 ELSE 0
  BY <1>2, <1>4 DEF Scattered, Votes
<1>6. CASE LocalStep
  <2>1. pc # 9 /\ pc # 10
    BY <1>2, <1>4, <1>6 DEF LocalStep, Dispatch, ControlOps, AluOps, MemoryOps, UnknownOps
  <2> QED
    BY <1>2, <1>3, <1>6, <2>1 DEF LocalStep
<1>7. CASE GraphStep
  <2>1. pc # 10
    BY <1>2, <1>4, <1>7 DEF GraphStep, Dispatch, GraphOps
  <2> QED
    BY <1>2, <1>3, <1>5, <1>7, <2>1 DEF GraphStep
<1>8. CASE SystemStep
  <2>1. pc = 10
    BY <1>2, <1>4, <1>8 DEF SystemStep, Dispatch, SystemOps
  <2> QED
    BY <1>2, <1>3, <1>5, <1>8, <2>1 DEF SystemStep
<1> QED
  BY <1>6, <1>7, <1>8 DEF Moving

(* What is known while a kernel runs. *)
LEMMA InKernel ==
  ASSUME IInv, LabelInv, phase = "kernel"
  PROVE  /\ cur \in V /\ cur \in Nat /\ cur \in active
         /\ ctx \in Context /\ ctx.regs \in [Reg -> Double]
         /\ ctx.iter_edge \in Nat /\ ctx.iter_end \in Nat
         /\ ctx.v_self = v_self[cur] /\ v_self[cur] \in Int
         /\ \A e \in InEdges(graph, cur) : v_self[Source(graph, e)] \in Int
         /\ graph.incoming_row_offsets[cur] \in Nat
         /\ graph.incoming_row_offsets[cur + 1] \in Nat
         /\ ctx.iter_edge < ctx.iter_end =>
              /\ ctx.iter_edge \in InEdges(graph, cur)
              /\ ctx.iter_end = graph.incoming_row_offsets[cur + 1]
              /\ ctx.n_val = v_self[Source(graph, ctx.iter_edge)]
<1> USE DEF LabelInv
<1>1. /\ cur \in V /\ cur \in active /\ ctx.v_self = v_self[cur]
      /\ IteratorAt(ctx, graph, v_self, cur) /\ ctx \in Context
  BY DEF IInv, KernelInv, TypeOK
<1>2. ctx.regs \in [Reg -> Double] /\ ctx.iter_edge \in Nat /\ ctx.iter_end \in Nat
  BY <1>1 DEF Context
<1>3. v_self \in [V -> Int]
  <2>1. Number \subseteq Int
    BY DoublesAssumption DEF Number, Inf
  <2> QED
    BY <2>1 DEF Given
<1>4. /\ IsGraph(graph) /\ V = Vertices(graph) /\ V \subseteq Nat
      /\ \A e \in InEdges(graph, cur) : Source(graph, e) \in V
  BY <1>1, GraphFacts DEF V
<1>5. graph.incoming_row_offsets[cur] \in Nat /\ graph.incoming_row_offsets[cur + 1] \in Nat
  BY <1>1, <1>4, RowBounds
<1>6. ctx.iter_edge < ctx.iter_end =>
        /\ ctx.iter_edge \in InEdges(graph, cur)
        /\ ctx.iter_end = graph.incoming_row_offsets[cur + 1]
        /\ ctx.n_val = v_self[Source(graph, ctx.iter_edge)]
  BY <1>1 DEF IteratorAt, Source
<1> QED
  BY <1>1, <1>2, <1>3, <1>4, <1>5, <1>6

(* The least value so far, with one more edge. *)
LEMMA LeastOfMore ==
  ASSUME NEW g, NEW vs, NEW v, NEW es, NEW e, NEW m, Least(g, vs, v, es, m),
         vs[v] \in Int, vs[Source(g, e)] \in Int, \A i \in es : vs[Source(g, i)] \in Int
  PROVE  LET y == vs[Source(g, e)]
         IN  /\ m \in Int
             /\ Least(g, vs, v, es \cup {e}, IF m < y THEN m ELSE y)
<1>1. m \in Int
  BY DEF Least
<1>2. CASE m < vs[Source(g, e)]
  BY <1>1, <1>2 DEF Least
<1>3. CASE ~(m < vs[Source(g, e)])
  BY <1>1, <1>3 DEF Least
<1> QED
  BY <1>1, <1>2, <1>3

-----------------------------------------------------------------------------
(* Each instruction establishes what the invariant says of the place behind   *)
(* it.                                                                        *)
Reached(c, at) == InLoop(c, at) /\ PastLoop(c, at)

LEMMA LoopBegins ==
  ASSUME IInv, LabelInv, phase = "kernel", pc = 1,
         NEW d, d = Turn(ctx, pc)
  PROVE  Reached(d.ctx, d.pc) /\ d.pc \in {2, 5}
<1> DEFINE begin == graph.incoming_row_offsets[cur]
           end   == graph.incoming_row_offsets[cur + 1]
           begun == [ctx EXCEPT !.iter_edge = begin, !.iter_end = end]
<1>1. begin \in Nat /\ end \in Nat /\ ctx \in Context /\ v_self[cur] \in Int
  BY InKernel
<1>2. ctx.regs[0] = v_self[cur]
  BY DEF LabelInv, Place, InLoop
<1>3. InEdges(graph, cur) = begin .. end - 1
  BY DEF InEdges
<1>4. begun.iter_edge = begin /\ begun.iter_end = end /\ begun.regs = ctx.regs
  BY <1>1 DEF Context
<1>5. Least(graph, v_self, cur, {}, v_self[cur])
  BY <1>1 DEF Least
<1>6. CASE begin >= end
  <2>1. d = [ctx |-> begun, pc |-> 5]
    BY <1>6, LoopTurns
  <2>2. InEdges(graph, cur) = {}
    BY <1>1, <1>3, <1>6
  <2> HIDE DEF begun
  <2>3. d.ctx.regs[0] = v_self[cur] /\ d.pc = 5
    BY <1>2, <1>4, <2>1
  <2>4. Least(graph, v_self, cur, InEdges(graph, cur), d.ctx.regs[0])
    BY <1>5, <2>2, <2>3
  <2> QED
    BY <2>3, <2>4 DEF Reached, InLoop, PastLoop
<1>7. CASE begin < end
  <2> DEFINE c == VisitEdge(begun, graph, v_self, begin)
  <2>1. d = [ctx |-> c, pc |-> 2]
    <3>1. ~(begin >= end)
      BY <1>1, <1>7
    <3>2. d = Turn(ctx, 1)
      OBVIOUS
    <3> QED
      BY <3>1, <3>2, LoopTurns, Zenon
  <2>2. begun \in Context
    BY <1>1 DEF Context
  <2>3. c.iter_edge = begin /\ c.iter_end = end /\ c.regs = ctx.regs
    BY <1>4, <2>2 DEF VisitEdge, Context
  <2>4. Upto(graph, cur, begin) = {}
    BY <1>1, <1>3 DEF Upto
  <2> HIDE DEF c
  <2> QED
    BY <1>2, <1>5, <1>7, <2>1, <2>3, <2>4 DEF Reached, InLoop, PastLoop
<1> QED
  BY <1>1, <1>6, <1>7

LEMMA LoopReads ==
  ASSUME IInv, LabelInv, phase = "kernel", pc = 2,
         NEW d, d = Turn(ctx, pc)
  PROVE  Reached(d.ctx, d.pc) /\ d.pc = 3
<1>1. /\ ctx \in Context /\ ctx.regs \in [Reg -> Double] /\ 0 \in Reg /\ 1 \in Reg
      /\ ctx.iter_edge < ctx.iter_end => ctx.n_val = v_self[Source(graph, ctx.iter_edge)]
  BY InKernel, Text
<1>2. /\ ctx.iter_edge < ctx.iter_end
      /\ Least(graph, v_self, cur, Upto(graph, cur, ctx.iter_edge), ctx.regs[0])
  BY DEF LabelInv, Place, InLoop
<1> DEFINE c == [ctx EXCEPT !.regs[1] = ctx.n_val]
<1>3. d = [ctx |-> c, pc |-> 3]
  BY Turns
<1>4. /\ c.regs[0] = ctx.regs[0] /\ c.regs[1] = ctx.n_val
      /\ c.iter_edge = ctx.iter_edge /\ c.iter_end = ctx.iter_end
  BY <1>1 DEF Context
<1> HIDE DEF c
<1> QED
  BY <1>1, <1>2, <1>3, <1>4 DEF Reached, InLoop, PastLoop

LEMMA LoopCompares ==
  ASSUME IInv, LabelInv, phase = "kernel", pc = 3,
         NEW d, d = Turn(ctx, pc)
  PROVE  Reached(d.ctx, d.pc) /\ d.pc = 4
<1> DEFINE n == ctx.iter_edge
           y == v_self[Source(graph, n)]
           m == ctx.regs[0]
           x == IF Less(m, ctx.regs[1]) THEN m ELSE ctx.regs[1]
           c == [ctx EXCEPT !.regs[0] = x]
<1>1. /\ n < ctx.iter_end /\ ctx.regs[1] = y
      /\ Least(graph, v_self, cur, Upto(graph, cur, n), m)
  BY DEF LabelInv, Place, InLoop
<1>2. /\ ctx \in Context /\ ctx.regs \in [Reg -> Double] /\ 0 \in Reg /\ 1 \in Reg
      /\ n \in Nat /\ n \in InEdges(graph, cur) /\ v_self[cur] \in Int /\ y \in Int
      /\ \A e \in Upto(graph, cur, n) : v_self[Source(graph, e)] \in Int
      /\ InEdges(graph, cur) \subseteq Int
  BY <1>1, InKernel, Text DEF Upto, InEdges
<1>3. Upto(graph, cur, n + 1) = Upto(graph, cur, n) \cup {n}
  BY <1>2 DEF Upto
<1>4. m \in Int /\ Least(graph, v_self, cur, Upto(graph, cur, n + 1), IF m < y THEN m ELSE y)
  <2>1. /\ m \in Int
        /\ Least(graph, v_self, cur, Upto(graph, cur, n) \cup {n}, IF m < y THEN m ELSE y)
    BY <1>1, <1>2, LeastOfMore, Zenon
  <2> QED
    BY <1>3, <2>1
<1>5. Less(m, ctx.regs[1]) <=> m < y
  BY <1>1, <1>2, <1>4, DoublesAssumption DEF Less
<1>6. d = [ctx |-> c, pc |-> 4]
  BY Turns
<1>7. x = IF m < y THEN m ELSE y
  BY <1>1, <1>5
<1> HIDE DEF x
<1>8. /\ c.regs[0] = IF m < y THEN m ELSE y
      /\ c.iter_edge = n /\ c.iter_end = ctx.iter_end
  BY <1>2, <1>7 DEF Context
<1> HIDE DEF c
<1> QED
  BY <1>1, <1>4, <1>6, <1>8 DEF Reached, InLoop, PastLoop

LEMMA LoopEnds ==
  ASSUME IInv, LabelInv, phase = "kernel", pc = 4,
         NEW d, d = Turn(ctx, pc)
  PROVE  Reached(d.ctx, d.pc) /\ d.pc \in {2, 5}
<1> DEFINE next == ctx.iter_edge + 1
<1>1. /\ ctx.iter_edge < ctx.iter_end
      /\ Least(graph, v_self, cur, Upto(graph, cur, next), ctx.regs[0])
  BY DEF LabelInv, Place, InLoop
<1>2. /\ ctx \in Context /\ next \in Nat /\ ctx.iter_end \in Nat
      /\ ctx.iter_end = graph.incoming_row_offsets[cur + 1]
      /\ graph.incoming_row_offsets[cur] \in Nat
  BY <1>1, InKernel
<1>3. CASE next < ctx.iter_end
  <2> DEFINE c == VisitEdge(ctx, graph, v_self, next)
  <2>1. d = [ctx |-> c, pc |-> 2]
    BY <1>3, LoopTurns
  <2>2. c.iter_edge = next /\ c.iter_end = ctx.iter_end /\ c.regs = ctx.regs
    BY <1>2 DEF VisitEdge, Context
  <2> HIDE DEF c
  <2> QED
    BY <1>1, <1>3, <2>1, <2>2 DEF Reached, InLoop, PastLoop
<1>4. CASE ~(next < ctx.iter_end)
  <2> DEFINE c == [ctx EXCEPT !.iter_edge = next]
  <2>1. d = [ctx |-> c, pc |-> 5] /\ c.regs = ctx.regs
    BY <1>2, <1>4, LoopTurns DEF Context
  <2>2. Upto(graph, cur, next) = InEdges(graph, cur)
    BY <1>2, <1>4 DEF Upto, InEdges
  <2> HIDE DEF c
  <2> QED
    BY <1>1, <2>1, <2>2 DEF Reached, InLoop, PastLoop
<1> QED
  BY <1>3, <1>4

LEMMA Straight ==
  ASSUME IInv, LabelInv, phase = "kernel", pc \in {0, 5, 6, 7, 8, 9, 10},
         NEW d, d = Turn(ctx, pc)
  PROVE  Reached(d.ctx, d.pc)
<1>1. /\ ctx \in Context /\ ctx.regs \in [Reg -> Double] /\ 0 \in Reg /\ 1 \in Reg
      /\ ctx.v_self = v_self[cur]
  BY InKernel, Text
<1>2. Reached(ctx, pc)
  BY DEF LabelInv, Place, Reached
<1> USE DEF Reached, InLoop, PastLoop
<1>4. CASE pc = 0
  <2> DEFINE c == [ctx EXCEPT !.regs[0] = ctx.v_self]
  <2>1. d = [ctx |-> c, pc |-> 1]
    BY <1>4, Turns
  <2>2. c.regs[0] = v_self[cur]
    BY <1>1 DEF Context
  <2> HIDE DEF c
  <2> QED
    BY <2>1, <2>2
<1>5. CASE pc = 5
  <2>1. d = [ctx |-> [ctx EXCEPT !.v_out = ctx.regs[0]], pc |-> 6]
    BY <1>5, Turns
  <2>2. d.pc = 6 /\ d.ctx.regs = ctx.regs /\ d.ctx.v_out = ctx.regs[0]
    BY <1>1, <2>1 DEF Context
  <2> QED
    BY <1>2, <1>5, <2>2
<1>6. CASE pc = 6
  <2> DEFINE c == [ctx EXCEPT !.regs[1] = ctx.v_self]
  <2>1. d = [ctx |-> c, pc |-> 7]
    BY <1>6, Turns
  <2>2. c.regs[0] = ctx.regs[0] /\ c.v_out = ctx.v_out /\ c.regs[1] = v_self[cur]
    BY <1>1 DEF Context
  <2> HIDE DEF c
  <2> QED
    BY <1>2, <1>6, <2>1, <2>2
<1>7. CASE pc = 7
  <2> DEFINE falls == OfBool(Less(ctx.regs[0], ctx.regs[1]))
             c     == [ctx EXCEPT !.regs[1] = falls]
  <2>1. d = [ctx |-> c, pc |-> 8]
    BY <1>7, Turns
  <2>2. /\ Least(graph, v_self, cur, InEdges(graph, cur), ctx.regs[0])
        /\ ctx.v_out = ctx.regs[0]
        /\ falls = OfBool(Less(ctx.regs[0], v_self[cur]))
    BY <1>2, <1>7
  <2> HIDE DEF falls
  <2>3. c.regs[0] = ctx.regs[0] /\ c.v_out = ctx.v_out /\ c.regs[1] = falls
    BY <1>1 DEF Context
  <2> HIDE DEF c
  <2> QED
    BY <2>1, <2>2, <2>3
<1>8. CASE pc \in {8, 9, 10}
  <2>1. pc = 8 => d = [ctx |-> ctx, pc |-> IF Same(ctx.regs[1], 0) THEN 11 ELSE 9]
    BY Turns
  <2>2. pc = 9 => d = [ctx |-> ctx, pc |-> 10]
    BY Turns
  <2>3. pc = 10 => d = [ctx |-> ctx, pc |-> 11]
    BY Turns
  <2>4. d.ctx = ctx /\ d.pc \in {9, 10, 11}
    BY <1>8, <2>1, <2>2, <2>3
  <2> QED
    BY <1>2, <1>8, <2>4
<1> QED
  BY <1>4, <1>5, <1>6, <1>7, <1>8

LEMMA EachReaches ==
  ASSUME IInv, LabelInv, phase = "kernel", pc \in 0 .. 10, NEW d, d = Turn(ctx, pc)
  PROVE  Reached(d.ctx, d.pc) /\ d.pc \in 0 .. 11
<1>1. CASE pc = 1
  BY <1>1, LoopBegins
<1>2. CASE pc = 2
  BY <1>2, LoopReads
<1>3. CASE pc = 3
  BY <1>3, LoopCompares
<1>4. CASE pc = 4
  BY <1>4, LoopEnds
<1>5. CASE pc \in {0, 5, 6, 7, 8, 9, 10}
  <2>1. Reached(d.ctx, d.pc)
    BY <1>5, Straight
  <2>2. d.pc \in IF pc = 8 THEN {9, 11} ELSE {pc + 1}
    BY <1>5, Follows
  <2> QED
    BY <1>5, <2>1, <2>2
<1> QED
  BY <1>1, <1>2, <1>3, <1>4, <1>5

(* A vertex whose label falls is past the jump only when it has marked its    *)
(* out-neighbours and voted.                                                  *)
LEMMA EachTells ==
  ASSUME IInv, LabelInv, Moving
  PROVE  Told(ctx', pc', next_active', updates')
<1> DEFINE d == Turn(ctx, pc)
<1>1. /\ phase = "kernel" /\ pc \in 0 .. 10 /\ ctx' = d.ctx /\ pc' = d.pc
      /\ next_active' = IF pc = 9 THEN next_active \cup OutNeighbors(graph, cur) ELSE next_active
      /\ updates' = IF pc = 10 THEN (updates + 1) % UpdatesMod ELSE updates
  BY Moves
<1>2. PastLoop(ctx, pc) /\ Told(ctx, pc, next_active, updates)
  BY <1>1 DEF LabelInv, Place
<1>3. CASE pc \in 0 .. 7
  <2>1. d.pc \notin 10 .. 11
    <3>1. CASE pc \in {0, 2, 3, 5, 6, 7}
      <4>1. d.pc \in IF pc = 8 THEN {9, 11} ELSE {pc + 1}
        BY <3>1, Follows
      <4> QED
        BY <3>1, <4>1
    <3>2. CASE pc = 1
      BY <1>1, <3>2, LoopBegins
    <3>3. CASE pc = 4
      BY <1>1, <3>3, LoopEnds
    <3> QED
      BY <1>3, <3>1, <3>2, <3>3
  <2> QED
    BY <1>1, <2>1 DEF Told
<1>4. CASE pc = 8
  <2>1. d = [ctx |-> ctx, pc |-> IF Same(ctx.regs[1], 0) THEN 11 ELSE 9]
    BY <1>4, Turns
  <2>2. CASE ctx.v_out = v_self[cur]
    BY <1>1, <2>1, <2>2 DEF Told
  <2>3. CASE ctx.v_out # v_self[cur]
    <3>1. /\ ctx.v_out = ctx.regs[0] /\ ctx.regs[1] = OfBool(Less(ctx.regs[0], v_self[cur]))
          /\ Least(graph, v_self, cur, InEdges(graph, cur), ctx.regs[0])
      BY <1>2, <1>4 DEF PastLoop
    <3>2. ctx.regs[0] \in Int /\ v_self[cur] \in Int /\ ctx.regs[0] < v_self[cur]
      BY <1>1, <2>3, <3>1, InKernel DEF Least
    <3>3. ctx.regs[1] = 1
      BY <3>1, <3>2, DoublesAssumption DEF OfBool, Less
    <3>4. d.pc = 9
      BY <2>1, <3>3 DEF Same
    <3> QED
      BY <1>1, <3>4 DEF Told
  <2> QED
    BY <2>2, <2>3
<1>5. CASE pc = 9
  <2>1. d = [ctx |-> ctx, pc |-> 10]
    BY <1>5, Turns
  <2> QED
    BY <1>1, <1>5, <2>1 DEF Told
<1>6. CASE pc = 10
  <2>1. d = [ctx |-> ctx, pc |-> 11]
    BY <1>6, Turns
  <2>2. updates' = updates + 1 /\ updates \in Nat
    <3>1. /\ updates \in Nat /\ updates <= cur /\ cur \in V
          /\ graph.num_vertices \in Nat /\ graph.num_vertices < UpdatesMod
          /\ V = 0 .. graph.num_vertices - 1
      BY <1>1, <1>6, InKernel, GraphFacts, UpdatesAssumption DEF LabelInv, Counter, IInv, TypeOK
    <3> QED
      BY <1>1, <1>6, <3>1, UpdatesAssumption
  <2>3. ctx' = ctx /\ pc' = 11 /\ next_active' = next_active
    BY <1>1, <1>6, <2>1
  <2>4. ctx.v_out # v_self[cur] => OutNeighbors(graph, cur) \subseteq next_active
    BY <1>2, <1>6 DEF Told
  <2>5. updates' > 0
    BY <2>2
  <2> QED
    BY <2>3, <2>4, <2>5 DEF Told
<1> QED
  BY <1>1, <1>3, <1>4, <1>5, <1>6

-----------------------------------------------------------------------------
(* Every step of run keeps the invariant. *)
LEMMA Unchanging ==
  ASSUME UNCHANGED <<graph, program, v_self, label0>>, LabelInv
  PROVE  Given' /\ Labelled'
BY DEF LabelInv, Given, Labelled, Ancestors, V

LEMMA MovingKeeps ==
  ASSUME IInv, LabelInv, Moving, UNCHANGED label0
  PROVE  LabelInv'
<1>1. /\ UNCHANGED <<graph, program, v_self, v_out, active, phase, cur>>
      /\ phase = "kernel" /\ pc \in 0 .. 10
      /\ ctx' = Turn(ctx, pc).ctx /\ pc' = Turn(ctx, pc).pc
      /\ next_active' = IF pc = 9 THEN next_active \cup OutNeighbors(graph, cur)
                        ELSE next_active
      /\ updates' = IF pc = 10 THEN (updates + 1) % UpdatesMod ELSE updates
  BY Moves
<1>2. Given' /\ Labelled'
  BY <1>1, Unchanging
<1>3. Frontier' /\ Ended'
  BY <1>1 DEF LabelInv, Frontier, Ended, V
<1>4. /\ updates \in Nat /\ updates <= cur
      /\ pc = 10 => updates' = updates + 1
  <2>1. /\ updates \in Nat /\ updates <= cur /\ cur \in V
        /\ graph.num_vertices \in Nat /\ graph.num_vertices < UpdatesMod
        /\ V = 0 .. graph.num_vertices - 1
    <3>1. updates \in Nat /\ updates <= cur
      BY <1>1, UpdatesAssumption DEF LabelInv, Counter, IInv, TypeOK
    <3> QED
      BY <1>1, <3>1, InKernel, GraphFacts DEF LabelInv
  <2> QED
    BY <1>1, <2>1, UpdatesAssumption
<1>5. Reached(ctx', pc') /\ pc' \in 0 .. 11
  BY <1>1, EachReaches
<1>6. Executed'
  <2>1. next_active \subseteq next_active' /\ (updates > 0 => updates' > 0)
    BY <1>1, <1>4
  <2> QED
    BY <1>1, <2>1 DEF LabelInv, Executed
<1>7. Counter'
  <2>1. cur \in Nat /\ (pc = 10 => pc' = 11)
    <3>1. pc = 10 => pc' \in IF pc = 8 THEN {9, 11} ELSE {pc + 1}
      BY <1>1, Follows
    <3> QED
      BY <1>1, <3>1, InKernel
  <2>2. updates' <= IF pc' = 11 THEN cur + 1 ELSE cur
    BY <1>1, <1>4, <2>1
  <2> QED
    BY <1>1, <2>2 DEF Counter
<1>8. Place'
  <2>1. Told(ctx', pc', next_active', updates')
    BY EachTells
  <2> QED
    BY <1>1, <1>5, <2>1 DEF Place, Reached, InLoop, PastLoop, Told
<1> QED
  BY <1>2, <1>3, <1>6, <1>7, <1>8 DEF LabelInv

LEMMA SkipKeeps ==
  ASSUME IInv, LabelInv, SkipInactive, UNCHANGED label0
  PROVE  LabelInv'
<1>1. /\ UNCHANGED <<graph, program, v_self, v_out, active, next_active, updates, phase, ctx, pc>>
      /\ phase = "scan" /\ cur \notin active /\ cur' = cur + 1
  BY DEF SkipInactive
<1>2. V \subseteq Nat /\ active \subseteq V /\ cur \in Nat /\ updates \in Nat
  BY GraphFacts, LoadedGraph DEF LabelInv, IInv, TypeOK
<1>3. Given' /\ Labelled'
  BY <1>1, Unchanging
<1>4. Frontier' /\ Ended' /\ Place'
  BY <1>1 DEF LabelInv, Frontier, Ended, Place, V
<1>5. Executed'
  <2>1. \A v \in active : v < cur + 1 => v < cur
    BY <1>1, <1>2
  <2> QED
    BY <1>1, <2>1 DEF LabelInv, Executed
<1>6. Counter'
  BY <1>1, <1>2 DEF LabelInv, Counter
<1> QED
  BY <1>3, <1>4, <1>5, <1>6 DEF LabelInv

LEMMA LoadKeeps ==
  ASSUME IInv, LabelInv, LoadContext, UNCHANGED label0
  PROVE  LabelInv'
<1>1. /\ UNCHANGED <<graph, program, v_self, v_out, active, next_active, updates, cur>>
      /\ phase = "scan" /\ phase' = "kernel" /\ pc' = 0
  BY DEF LoadContext
<1>2. Given' /\ Labelled'
  BY <1>1, Unchanging
<1>3. Frontier' /\ Ended' /\ Executed' /\ Counter'
  BY <1>1 DEF LabelInv, Frontier, Ended, Executed, Counter, V
<1>4. Place'
  BY <1>1 DEF Place, InLoop, PastLoop, Told
<1> QED
  BY <1>2, <1>3, <1>4 DEF LabelInv

LEMMA StoreKeeps ==
  ASSUME IInv, LabelInv, StoreContext, UNCHANGED label0
  PROVE  LabelInv'
<1>1. /\ UNCHANGED <<graph, program, active, next_active, updates>>
      /\ phase = "kernel" /\ phase' = "scan" /\ cur' = cur + 1
      /\ v_out' = [v_out EXCEPT ![cur] = ctx.v_out]
      /\ v_self' = v_self
  BY StoreKeepsValues DEF StoreContext
<1>2. pc = 11
  BY <1>1, Text DEF LabelInv, Given, Place, StoreContext, Running
<1>3. /\ Least(graph, v_self, cur, InEdges(graph, cur), ctx.v_out)
      /\ ctx.v_out # v_self[cur] => OutNeighbors(graph, cur) \subseteq next_active /\ updates > 0
  BY <1>1, <1>2 DEF LabelInv, Place, PastLoop, Told
<1>4. /\ cur \in V /\ cur \in active /\ cur \in Nat /\ V \subseteq Nat /\ active \subseteq V
      /\ v_out \in [V -> Double]
  BY <1>1, InKernel, LoadedGraph DEF IInv, TypeOK
<1>5. /\ v_out'[cur] = ctx.v_out
      /\ \A v \in V : v # cur => v_out'[v] = v_out[v]
  BY <1>1, <1>4
<1>6. Given' /\ Labelled'
  BY <1>1, Unchanging
<1>7. Frontier' /\ Ended' /\ Place'
  BY <1>1, <1>4, <1>5 DEF LabelInv, Frontier, Ended, Place, V
<1>8. Executed'
  <2> SUFFICES ASSUME NEW v \in active, v < cur + 1
               PROVE  /\ Least(graph, v_self, v, InEdges(graph, v), v_out'[v])
                      /\ v_out'[v] # v_self[v]
                           => OutNeighbors(graph, v) \subseteq next_active /\ updates > 0
    BY <1>1 DEF Executed
  <2>1. CASE v = cur
    BY <1>3, <1>5, <2>1
  <2>2. CASE v # cur
    <3>1. v \in V /\ v \in Nat
      BY <1>4
    <3>2. v < cur /\ v_out'[v] = v_out[v]
      BY <1>4, <1>5, <2>2, <3>1
    <3> QED
      BY <1>1, <3>2 DEF LabelInv, Executed
  <2> QED
    BY <2>1, <2>2
<1>9. Counter'
  BY <1>1, <1>2, <1>4 DEF LabelInv, Counter
<1> QED
  BY <1>6, <1>7, <1>8, <1>9 DEF LabelInv

-----------------------------------------------------------------------------
(* A vertex is its own ancestor, and has the ancestors of its in-neighbours. *)
LEMMA OwnAncestor ==
  ASSUME NEW v \in V
  PROVE  v \in Ancestors(v)
BY DEF Ancestors

LEMMA AncestorsThrough ==
  ASSUME Given, NEW v \in V, NEW e \in InEdges(graph, v)
  PROVE  Ancestors(Source(graph, e)) \subseteq Ancestors(v)
<1>1. Source(graph, e) \in InNeighbors(graph, v)
  BY DEF InNeighbors, Source
<1> SUFFICES ASSUME NEW u \in Ancestors(Source(graph, e)), NEW C \in SUBSET V,
                    v \in C, \A w \in C : InNeighbors(graph, w) \subseteq C
             PROVE  u \in C
  BY DEF Ancestors
<1>2. Source(graph, e) \in C
  BY <1>1
<1> QED
  BY <1>2 DEF Ancestors

(* Where every vertex is settled, values do not grow on the way from an       *)
(* ancestor.                                                                  *)
LEMMA SettledPaths ==
  ASSUME Given, \A v \in V : Settled(graph, v_self, v), NEW v \in V, NEW u \in Ancestors(v)
  PROVE  v_self[v] <= v_self[u]
<1> DEFINE C == {w \in V : v_self[v] <= v_self[w]}
<1>1. v_self \in [V -> Int]
  <2>1. Number \subseteq Int
    BY DoublesAssumption DEF Number, Inf
  <2> QED
    BY <2>1 DEF Given
<1>2. v \in C /\ C \in SUBSET V
  BY <1>1
<1>3. ASSUME NEW w \in C, NEW x \in InNeighbors(graph, w)
      PROVE  x \in C
  <2>1. PICK e \in InEdges(graph, w) : x = Source(graph, e)
    BY DEF InNeighbors, Source
  <2>2. w \in V /\ x \in V /\ v_self[v] <= v_self[w]
    BY <2>1, GraphFacts
  <2>3. v_self[w] <= v_self[x]
    BY <2>1, <2>2 DEF Settled
  <2> QED
    BY <1>1, <2>2, <2>3
<1>4. u \in C
  <2> HIDE DEF C
  <2> QED
    BY <1>2, <1>3 DEF Ancestors
<1> QED
  BY <1>4

(* Before the barrier every vertex has its next value. *)
LEMMA AllExecuted ==
  ASSUME IInv, LabelInv, phase = "scan", cur = graph.num_vertices, NEW v \in V
  PROVE  /\ v_out[v] \in Number /\ v_out[v] <= v_self[v]
         /\ \A e \in InEdges(graph, v) : v_out[v] <= v_self[Source(graph, e)]
         /\ v_out[v] = v_self[v] \/ \E e \in InEdges(graph, v) : v_out[v] = v_self[Source(graph, e)]
         /\ v_out[v] # v_self[v] => OutNeighbors(graph, v) \subseteq next_active /\ updates > 0
<1>1. v_self \in [V -> Number] /\ Number \subseteq Int
  BY DoublesAssumption DEF Number, Inf, LabelInv, Given
<1>2. /\ v < cur
      /\ \A e \in InEdges(graph, v) : Source(graph, e) \in V
  BY GraphFacts DEF LabelInv
<1>3. CASE v \in active
  <2>1. /\ Least(graph, v_self, v, InEdges(graph, v), v_out[v])
        /\ v_out[v] # v_self[v] => OutNeighbors(graph, v) \subseteq next_active /\ updates > 0
    BY <1>2, <1>3 DEF LabelInv, Executed
  <2> QED
    BY <1>1, <1>2, <2>1 DEF Least
<1>4. CASE v \notin active
  <2>1. v_out[v] = v_self[v] /\ Settled(graph, v_self, v)
    BY <1>4 DEF LabelInv, Frontier
  <2>2. v_self[v] \in Number /\ v_self[v] \in Int
    BY <1>1
  <2>3. \A e \in InEdges(graph, v) : v_out[v] <= v_self[Source(graph, e)]
    BY <2>1 DEF Settled
  <2> QED
    BY <2>1, <2>2, <2>3
<1> QED
  BY <1>3, <1>4

LEMMA BarrierKeeps ==
  ASSUME IInv, LabelInv, Barrier, UNCHANGED label0
  PROVE  LabelInv'
<1>1. /\ phase = "scan" /\ cur = graph.num_vertices
      /\ v_self' = v_out /\ UNCHANGED <<graph, program, v_out, label0>>
      /\ active' = next_active /\ cur' = 0 /\ phase' \in {"idle", "scan"}
      /\ phase' = "idle" => next_active = {} \/ updates = 0
      /\ phase' = "scan" => updates' = 0
  BY DEF Barrier, StopInactive, StopConverged, NextSuperstep, Commit
<1>2. /\ v_self \in [V -> Number] /\ label0 \in [V -> Number] /\ v_out \in [V -> Double]
      /\ Number \subseteq Int /\ Given
      /\ \A v \in V : v_self[v] <= label0[v] /\ \E u \in Ancestors(v) : v_self[v] = label0[u]
  BY DoublesAssumption DEF Number, Inf, LabelInv, Given, Labelled, IInv, TypeOK
<1>3. ASSUME NEW v \in V
      PROVE  /\ v_out[v] \in Number /\ v_out[v] <= v_self[v]
             /\ \A e \in InEdges(graph, v) : v_out[v] <= v_self[Source(graph, e)]
             /\ \/ v_out[v] = v_self[v]
                \/ \E e \in InEdges(graph, v) : v_out[v] = v_self[Source(graph, e)]
             /\ v_out[v] # v_self[v] => OutNeighbors(graph, v) \subseteq next_active /\ updates > 0
  BY <1>1, AllExecuted
<1>4. /\ \A v \in V : \A e \in InEdges(graph, v) : Source(graph, e) \in V
      /\ \A u, v \in V : v \in OutNeighbors(graph, u) <=> u \in InNeighbors(graph, v)
      /\ V \subseteq Nat
  BY <1>2, GraphFacts
<1>5. Given'
  <2>1. v_out \in [V -> Number]
    BY <1>2, <1>3
  <2> QED
    BY <1>1, <1>2, <2>1 DEF Given, V
<1>6. Labelled'
  <2> SUFFICES ASSUME NEW v \in V
               PROVE  v_out[v] <= label0[v] /\ \E u \in Ancestors(v) : v_out[v] = label0[u]
    BY <1>1 DEF Labelled, Ancestors, V
  <2>1. v_out[v] <= label0[v]
    <3>1. v_out[v] \in Int /\ v_self[v] \in Int /\ label0[v] \in Int
      BY <1>2, <1>3
    <3> QED
      BY <1>2, <1>3, <3>1
  <2>2. CASE v_out[v] = v_self[v]
    BY <1>2, <2>1, <2>2
  <2>3. ASSUME NEW e \in InEdges(graph, v), v_out[v] = v_self[Source(graph, e)]
        PROVE  \E u \in Ancestors(v) : v_out[v] = label0[u]
    <3>1. PICK u \in Ancestors(Source(graph, e)) : v_self[Source(graph, e)] = label0[u]
      BY <1>2, <1>4
    <3>2. u \in Ancestors(v)
      BY <1>2, AncestorsThrough
    <3> QED
      BY <2>3, <3>1, <3>2
  <2> QED
    BY <1>3, <2>1, <2>2, <2>3
<1>7. ASSUME NEW v \in V, v \notin next_active \/ updates = 0
      PROVE  Settled(graph, v_out, v)
  <2> SUFFICES ASSUME NEW e \in InEdges(graph, v)
               PROVE  v_out[v] <= v_out[Source(graph, e)]
    BY DEF Settled
  <2>1. Source(graph, e) \in V /\ v_out[v] <= v_self[Source(graph, e)]
    BY <1>3, <1>4
  <2>2. v \in OutNeighbors(graph, Source(graph, e))
    BY <1>4, <2>1 DEF InNeighbors, Source
  <2>3. v_out[Source(graph, e)] = v_self[Source(graph, e)]
    BY <1>3, <1>7, <2>1, <2>2
  <2> QED
    BY <2>1, <2>3
<1>8. Frontier'
  BY <1>1, <1>7 DEF Frontier, V
<1>9. Ended'
  BY <1>1, <1>7 DEF Ended, V
<1>10. Executed'
  <2>1. \A v \in next_active : ~(v < 0)
    <3>1. next_active \subseteq V
      BY DEF IInv, TypeOK
    <3>2. \A v \in V : ~(v < 0)
      BY <1>4
    <3> QED
      BY <3>1, <3>2
  <2> QED
    BY <1>1, <2>1 DEF Executed
<1>11. Counter' /\ Place'
  BY <1>1 DEF Counter, Place
<1> QED
  BY <1>5, <1>6, <1>8, <1>9, <1>10, <1>11 DEF LabelInv

-----------------------------------------------------------------------------
LEMMA LabelsInitial == InitLabels => IInv /\ LabelInv
<1> SUFFICES ASSUME InitLabels PROVE IInv /\ LabelInv
  OBVIOUS
<1> USE DEF InitLabels
<1>1. /\ Seeds \subseteq Number /\ Number \subseteq Double /\ Number \subseteq Int
  BY SeedsAssumption, LabelAssumption, DoublesAssumption DEF Number, Double, Inf
<1>2. /\ graph \in Graphs /\ program = LabelKernel /\ LabelKernel \in Programs
      /\ v_self \in [V -> Seeds] /\ v_out \in [V -> Double] /\ label0 = v_self
  BY LabelAssumption, ZeroVector
<1>3. Given
  BY <1>1, <1>2 DEF Given
<1>4. /\ graph.num_vertices \in Nat /\ V \subseteq Nat /\ IsGraph(graph)
  BY <1>3, GraphFacts
<1>5. TypeOK
  <2>1. v_self \in [V -> Double]
    BY <1>1, <1>2
  <2>2. cur \in 0 .. graph.num_vertices /\ updates \in 0 .. UpdatesMod - 1
    BY <1>4, UpdatesAssumption
  <2> QED
    BY <1>2, <2>1, <2>2, NoContextType DEF TypeOK
<1>6. IInv
  BY <1>5 DEF IInv, KernelInv, IdleInv
<1>7. Labelled
  <2> SUFFICES ASSUME NEW v \in V
               PROVE  v_self[v] <= label0[v] /\ \E u \in Ancestors(v) : v_self[v] = label0[u]
    BY DEF Labelled
  <2>1. v_self[v] \in Int /\ v_self[v] = label0[v]
    BY <1>1, <1>2
  <2>2. v \in Ancestors(v)
    BY OwnAncestor
  <2> QED
    BY <2>1, <2>2
<1>8. Executed
  BY <1>4 DEF Executed
<1>9. Frontier /\ Ended /\ Counter /\ Place
  BY DEF Frontier, Ended, Counter, Place
<1> QED
  BY <1>3, <1>6, <1>7, <1>8, <1>9 DEF LabelInv

LEMMA LabelsKept ==
  IInv /\ LabelInv /\ [RunStep /\ UNCHANGED label0]_<<vars, label0>> => IInv' /\ LabelInv'
<1> SUFFICES ASSUME IInv, LabelInv, [RunStep /\ UNCHANGED label0]_<<vars, label0>>
             PROVE  IInv' /\ LabelInv'
  OBVIOUS
<1>1. CASE RunStep /\ UNCHANGED label0
  <2>1. IInv'
    BY <1>1, RunInv
  <2>2. \/ SkipInactive \/ LoadContext \/ Moving \/ StoreContext \/ Barrier
    BY <1>1 DEF RunStep, Moving
  <2> QED
    BY <1>1, <2>1, <2>2, SkipKeeps, LoadKeeps, MovingKeeps, StoreKeeps, BarrierKeeps
<1>2. CASE UNCHANGED <<vars, label0>>
  <2>1. IInv'
    BY <1>2, NextInv
  <2>2. Given' /\ Labelled'
    BY <1>2, Unchanging DEF vars
  <2>3. Frontier' /\ Ended' /\ Executed' /\ Counter' /\ Place'
    BY <1>2 DEF LabelInv, vars, Frontier, Ended, Executed, Counter, Place, InLoop, PastLoop, Told, V
  <2> QED
    BY <2>1, <2>2, <2>3 DEF LabelInv
<1> QED
  BY <1>1, <1>2

(* When a run of label propagation returns, every vertex has the least label  *)
(* among the vertices that reach it: for every graph with the same edges in   *)
(* both directions and every labelling with numbers, although each superstep  *)
(* executes the frontier only and the votes decide when to stop.              *)
THEOREM LeastLabels == SpecLabels => []LeastLabelReached
<1>1. LabelInv => LeastLabelReached
  <2> SUFFICES ASSUME LabelInv, phase = "idle", NEW v \in V
               PROVE  /\ \A u \in Ancestors(v) : v_self[v] <= label0[u]
                      /\ \E u \in Ancestors(v) : v_self[v] = label0[u]
    BY DEF LeastLabelReached
  <2>1. Given /\ \A w \in V : Settled(graph, v_self, w)
    BY DEF LabelInv, Ended
  <2>2. v_self \in [V -> Int] /\ label0 \in [V -> Int]
    BY <2>1, DoublesAssumption DEF Given, Number, Inf
  <2>3. ASSUME NEW u \in Ancestors(v) PROVE v_self[v] <= label0[u]
    <3>1. u \in V /\ v_self[v] <= v_self[u]
      BY <2>1, SettledPaths DEF Ancestors
    <3>2. v_self[u] <= label0[u]
      BY <3>1 DEF LabelInv, Labelled
    <3> QED
      BY <2>2, <3>1, <3>2
  <2> QED
    BY <2>3 DEF LabelInv, Labelled
<1> QED
  BY <1>1, LabelsInitial, LabelsKept, PTL DEF SpecLabels
=============================================================================
