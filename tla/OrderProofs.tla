----------------------------- MODULE OrderProofs -----------------------------
(***************************************************************************)
(* Theorems about bulk synchronous execution, for all graphs, programs and *)
(* orders: a kernel in progress is isolated from the others, and whatever  *)
(* the interleaving every superstep is the function of Superstep.          *)
(***************************************************************************)
EXTENDS BSPOrder, KernelProofs

-----------------------------------------------------------------------------
(* Functions defined by recursion over the naturals.  Any two that satisfy    *)
(* the equations up to some m agree up to m, and there is one that satisfies  *)
(* them everywhere.                                                           *)
Recurs(f, start, step, m) ==
  f[0] = start /\ \A n \in 0 .. m - 1 : f[n + 1] = step[<<n, f[n]>>]

LEMMA RecursionUnique ==
  ASSUME NEW start, NEW step, NEW m \in Nat, NEW f, NEW h,
         Recurs(f, start, step, m), Recurs(h, start, step, m)
  PROVE  f[m] = h[m]
<1> DEFINE Differ == {n \in 0 .. m : f[n] # h[n]}
<1> SUFFICES ASSUME Differ # {} PROVE FALSE
  OBVIOUS
<1>1. Differ \in SUBSET Nat
  OBVIOUS
<1>2. PICK n \in Differ : \A k \in Differ : n <= k
  <2> HIDE DEF Differ
  <2> QED
    BY <1>1, LeastNatural
<1>3. n \in 0 .. m /\ f[n] # h[n] /\ n # 0
  BY DEF Recurs
<1>4. n - 1 \in 0 .. m - 1 /\ n - 1 \notin Differ /\ (n - 1) + 1 = n
  <2>1. n - 1 \in 0 .. m - 1 /\ (n - 1) + 1 = n /\ ~(n <= n - 1)
    BY <1>3
  <2> HIDE DEF Differ
  <2> QED
    BY <1>2, <2>1
<1>5. f[n - 1] = h[n - 1]
  BY <1>4
<1>6. f[n] = step[<<n - 1, f[n - 1]>>] /\ h[n] = step[<<n - 1, h[n - 1]>>]
  BY <1>4 DEF Recurs
<1> QED
  BY <1>3, <1>5, <1>6

LEMMA RecursionExists ==
  ASSUME NEW Set, NEW start \in Set, NEW step \in [Nat \X Set -> Set]
  PROVE  \E f \in [Nat -> Set] : \A m \in Nat : Recurs(f, start, step, m)
<1> DEFINE Computes(f, m) == f \in [0 .. m -> Set] /\ Recurs(f, start, step, m)
           Failing == {m \in Nat : ~ \E f : Computes(f, m)}
<1>1. Failing = {}
  <2> SUFFICES ASSUME Failing # {} PROVE FALSE
    OBVIOUS
  <2>1. Failing \in SUBSET Nat
    OBVIOUS
  <2>2. PICK m \in Failing : \A n \in Failing : m <= n
    <3> HIDE DEF Failing
    <3> QED
      BY <2>1, LeastNatural
  <2>3. m \in Nat /\ ~ \E f : Computes(f, m)
    <3> HIDE DEF Computes
    <3> QED
      BY <2>2
  <2>4. Computes([n \in 0 .. 0 |-> start], 0)
    BY DEF Recurs
  <2>5. m - 1 \in Nat /\ m - 1 \notin Failing
    <3>1. m # 0
      <4> HIDE DEF Computes
      <4> QED
        BY <2>3, <2>4
    <3>2. m - 1 \in Nat /\ ~(m <= m - 1)
      BY <2>3, <3>1
    <3> HIDE DEF Failing
    <3> QED
      BY <2>2, <3>2
  <2>6. PICK f : Computes(f, m - 1)
    <3> HIDE DEF Computes
    <3> QED
      BY <2>5
  <2> DEFINE last == step[<<m - 1, f[m - 1]>>]
             h    == [n \in 0 .. m |-> IF n = m THEN last ELSE f[n]]
  <2>7. last \in Set
    BY <2>5, <2>6
  <2>8. h \in [0 .. m -> Set]
    <3> HIDE DEF last
    <3> QED
      BY <2>3, <2>6, <2>7
  <2>9. h[m] = last /\ \A n \in 0 .. m - 1 : h[n] = f[n]
    <3> HIDE DEF last
    <3> QED
      BY <2>3
  <2>10. Recurs(h, start, step, m)
    <3>1. h[0] = start
      BY <2>5, <2>6, <2>9 DEF Recurs
    <3>2. ASSUME NEW n \in 0 .. m - 1 PROVE h[n + 1] = step[<<n, h[n]>>]
      <4>1. CASE n = m - 1
        <5>1. h[n + 1] = last /\ h[n] = f[n]
          <6> HIDE DEF last, h
          <6> QED
            BY <2>3, <2>9, <4>1
        <5> QED
          BY <4>1, <5>1
      <4>2. CASE n # m - 1
        <5>1. n \in 0 .. (m - 1) - 1 /\ n + 1 \in 0 .. m - 1
          BY <2>3, <4>2
        <5>2. f[n + 1] = step[<<n, f[n]>>]
          BY <2>6, <5>1 DEF Recurs
        <5> HIDE DEF last, h
        <5> QED
          BY <2>9, <5>1, <5>2
      <4> QED
        BY <4>1, <4>2
    <3> HIDE DEF h
    <3> QED
      BY <3>1, <3>2 DEF Recurs
  <2>11. Computes(h, m)
    <3> HIDE DEF h
    <3> QED
      BY <2>8, <2>10
  <2> HIDE DEF Computes, h
  <2> QED
    BY <2>3, <2>11
<1> DEFINE front_(m) == CHOOSE f : Computes(f, m)
           g         == [n \in Nat |-> front_(n)[n]]
<1>2. ASSUME NEW m \in Nat PROVE Computes(front_(m), m)
  <2>1. \E f : Computes(f, m)
    <3> HIDE DEF Computes
    <3> QED
      BY <1>1
  <2> HIDE DEF Computes
  <2> QED
    BY <2>1
<1>3. ASSUME NEW m \in Nat
      PROVE  front_(m)[m] \in Set /\ Recurs(front_(m), start, step, m)
  <2> DEFINE f == front_(m)
  <2>1. Computes(f, m)
    BY <1>2
  <2> HIDE DEF f
  <2>2. f[m] \in Set /\ Recurs(f, start, step, m)
    BY <2>1
  <2> QED
    BY <2>2 DEF f
<1>4. ASSUME NEW m \in Nat PROVE front_(m + 1)[m] = front_(m)[m]
  <2>1. Recurs(front_(m + 1), start, step, m + 1) /\ Recurs(front_(m), start, step, m)
    BY <1>3
  <2> HIDE DEF front_
  <2>2. Recurs(front_(m + 1), start, step, m)
    BY <2>1 DEF Recurs
  <2> QED
    BY <2>1, <2>2, RecursionUnique
<1> HIDE DEF front_
<1>5. g \in [Nat -> Set]
  BY <1>3
<1>6. g[0] = start
  BY <1>3 DEF Recurs
<1>7. ASSUME NEW n \in Nat PROVE g[n + 1] = step[<<n, g[n]>>]
  <2>1. n + 1 \in Nat /\ n \in 0 .. (n + 1) - 1
    OBVIOUS
  <2>2. front_(n + 1)[n + 1] = step[<<n, front_(n + 1)[n]>>]
    BY <1>3, <2>1 DEF Recurs
  <2> QED
    BY <1>4, <2>1, <2>2
<1> HIDE DEF g
<1> QED
  BY <1>5, <1>6, <1>7 DEF Recurs

-----------------------------------------------------------------------------
(* Induction for a set of naturals that can be written down. *)
LEMMA AllNaturals ==
  ASSUME NEW T \in SUBSET Nat, 0 \in T, \A n \in T : n + 1 \in T
  PROVE  \A n \in Nat : n \in T
<1> DEFINE Missing == Nat \ T
<1> SUFFICES ASSUME Missing # {} PROVE FALSE
  OBVIOUS
<1>1. PICK n \in Missing : \A m \in Missing : n <= m
  BY LeastNatural
<1>2. n \in Nat /\ n # 0 /\ n \notin T
  OBVIOUS
<1>3. n - 1 \in Nat /\ n - 1 \notin Missing /\ (n - 1) + 1 = n
  <2>1. n - 1 \in Nat /\ ~(n <= n - 1) /\ (n - 1) + 1 = n
    BY <1>2
  <2> HIDE DEF Missing
  <2> QED
    BY <1>1, <2>1
<1> QED
  BY <1>2, <1>3

(* A function that satisfies the equations of a recursion wherever its values *)
(* are in the set of the recursion has all its values there.                  *)
LEMMA RecursionType ==
  ASSUME NEW Set, NEW start \in Set, NEW step \in [Nat \X Set -> Set], NEW f, f[0] = start,
         \A n \in Nat : f[n] \in Set => f[n + 1] = step[<<n, f[n]>>]
  PROVE  \A n \in Nat : f[n] \in Set /\ f[n + 1] = step[<<n, f[n]>>]
<1> DEFINE T == {n \in Nat : f[n] \in Set}
<1>1. T \in SUBSET Nat /\ 0 \in T
  OBVIOUS
<1>2. ASSUME NEW n \in T PROVE n + 1 \in T
  <2>1. n \in Nat /\ n + 1 \in Nat /\ f[n] \in Set
    OBVIOUS
  <2>2. <<n, f[n]>> \in Nat \X Set
    BY <2>1
  <2>3. step[<<n, f[n]>>] \in Set
    BY <2>2
  <2> QED
    BY <2>1, <2>3
<1>3. \A n \in Nat : n \in T
  <2> HIDE DEF T
  <2> QED
    BY <1>1, <1>2, AllNaturals
<1> QED
  BY <1>3

-----------------------------------------------------------------------------
(* The instruction set of Superstep is that of BSP. *)
LEMMA SuperLoad ==
  ASSUME NEW g, NEW vs, NEW vo, NEW v
  PROVE  S!load_context(g, vs, vo, v) = load_context(g, vs, vo, v)
BY DEF S!load_context, load_context, S!Reg, Reg, S!OfNat, OfNat, S!Round, Round,
       S!Inf, Inf, S!in_degree, in_degree, S!out_degree, out_degree

LEMMA SuperFetch ==
  ASSUME NEW p, NEW i
  PROVE  /\ S!Running(p, i) <=> Running(p, i)
         /\ S!Fetch(p, i) = Fetch(p, i) /\ S!Advance(i) = Advance(i)
BY DEF S!Running, Running, S!Fetch, Fetch, S!Advance, Advance

LEMMA SuperEffects ==
  ASSUME NEW inst, NEW c, NEW g, NEW v
  PROVE  S!Scattered(inst, c, g, v) = Scattered(inst, c, g, v)
         /\ S!Votes(inst) = Votes(inst)
BY DEF S!Scattered, Scattered, S!Same, Same, S!OutNeighbors, OutNeighbors,
       S!OutEdges, OutEdges, S!Votes, Votes

LEMMA SuperArithmetic ==
  ASSUME NEW op, NEW a, NEW b
  PROVE  S!Alu(op, a, b) = Alu(op, a, b)
BY DEF S!Alu, Alu, S!Plus, Plus, S!Minus, Minus, S!Times, Times,
       S!Divide, Divide, S!Less, Less, S!LessEqual, LessEqual, S!Same, Same, S!Negate, Negate,
       S!OfBool, OfBool, S!IsInf, IsInf, S!Inf, Inf, S!Round, Round, S!Magnitude, Magnitude

LEMMA SuperGather ==
  ASSUME NEW op, NEW g, NEW vs, NEW v
  PROVE  S!Gather(op, g, vs, v) = Gather(op, g, vs, v)
BY DEF S!Gather, Gather, S!Accumulate, Accumulate, S!Plus, Plus, S!Less, Less,
       S!IsInf, IsInf, S!Inf, Inf, S!Round, Round

LEMMA SuperExecute ==
  ASSUME NEW c, NEW i, NEW g, NEW p, NEW vs, NEW v
  PROVE  S!Execute(c, i, g, p, vs, v) = Execute(c, i, g, p, vs, v)
<1> DEFINE inst == Fetch(p, i)
<1>1. S!exec_control(inst, c, i) = exec_control(inst, c, i)
  BY DEF S!exec_control, exec_control, S!Same, Same
<1>2. S!exec_alu(inst, c, p) = exec_alu(inst, c, p)
  BY SuperArithmetic DEF S!exec_alu, exec_alu
<1>3. S!exec_memory(inst, c, g, v) = exec_memory(inst, c, g, v)
  BY DEF S!exec_memory, exec_memory, S!OfNat, OfNat, S!Round, Round, S!Inf, Inf,
         S!in_degree, in_degree, S!out_degree, out_degree
<1>4. S!exec_graph(inst, c, g, vs, v, i) = exec_graph(inst, c, g, vs, v, i)
  <2>1. S!exec_iter_neighbors(inst, c, g, vs, v, i) = exec_iter_neighbors(inst, c, g, vs, v, i)
    BY DEF S!exec_iter_neighbors, exec_iter_neighbors, S!VisitEdge, VisitEdge
  <2>2. S!exec_end_iter(inst, c, g, vs, i) = exec_end_iter(inst, c, g, vs, i)
    BY DEF S!exec_end_iter, exec_end_iter, S!VisitEdge, VisitEdge
  <2>3. S!Gather(inst.op, g, vs, v) = Gather(inst.op, g, vs, v)
    BY SuperGather
  <2> HIDE DEF inst
  <2> QED
    BY <2>1, <2>2, <2>3, Zenon DEF S!exec_graph, exec_graph
<1>5. S!Fetch(p, i) = inst
  BY SuperFetch
<1> HIDE DEF inst
<1>6. \A j : S!Advance(j) = Advance(j)
  BY SuperFetch
<1> QED
  BY <1>1, <1>2, <1>3, <1>4, <1>5, <1>6, Zenon
     DEF S!Execute, Execute, inst, S!ControlOps, ControlOps, S!AluOps, AluOps,
         S!MemoryOps, MemoryOps, S!GraphOps, GraphOps

-----------------------------------------------------------------------------
(* The states that a kernel of v goes through. *)
KernelStates(g, vs, v) ==
  {s \in [ctx : Context, pc : Int, marked : SUBSET Vertices(g), cast : Nat] :
     s.ctx.v_self = vs[v] /\ IteratorAt(s.ctx, g, vs, v)}

LEMMA StartedType ==
  ASSUME NEW g, IsGraph(g), NEW v \in Vertices(g),
         NEW vs \in [Vertices(g) -> Double], NEW vo \in [Vertices(g) -> Double]
  PROVE  S!Started(g, vs, vo, v) \in KernelStates(g, vs, v)
BY LoadType, SuperLoad DEF S!Started, KernelStates

(* A turn of a kernel alone, in the operators that BSP uses.                  *)
LEMMA TurnedIs ==
  ASSUME NEW g, NEW v, NEW vs, NEW p, NEW s, Running(p, s.pc)
  PROVE  S!Turned(s, g, p, vs, v)
           = [ctx    |-> Execute(s.ctx, s.pc, g, p, vs, v).ctx,
              pc     |-> Execute(s.ctx, s.pc, g, p, vs, v).pc,
              marked |-> s.marked \cup Scattered(Fetch(p, s.pc), s.ctx, g, v),
              cast   |-> s.cast + Votes(Fetch(p, s.pc))]
<1> DEFINE inst == S!Fetch(p, s.pc)
           turn == S!Execute(s.ctx, s.pc, g, p, vs, v)
<1>1. S!Running(p, s.pc)
  BY SuperFetch
<1>2. S!Turned(s, g, p, vs, v)
        = [ctx    |-> turn.ctx, pc |-> turn.pc,
           marked |-> s.marked \cup S!Scattered(inst, s.ctx, g, v),
           cast   |-> s.cast + S!Votes(inst)]
  BY <1>1, Zenon DEF S!Turned
<1>3. inst = Fetch(p, s.pc)
  BY SuperFetch
<1>4. turn = Execute(s.ctx, s.pc, g, p, vs, v)
  BY SuperExecute
<1>5. S!Scattered(inst, s.ctx, g, v) = Scattered(inst, s.ctx, g, v) /\ S!Votes(inst) = Votes(inst)
  BY SuperEffects
<1> HIDE DEF inst, turn
<1> QED
  BY <1>2, <1>3, <1>4, <1>5, Zenon

LEMMA TurnedType ==
  ASSUME NEW g, IsGraph(g), NEW v \in Vertices(g), NEW vs \in [Vertices(g) -> Double],
         NEW p, IsProgram(p), NEW s \in KernelStates(g, vs, v)
  PROVE  S!Turned(s, g, p, vs, v) \in KernelStates(g, vs, v)
<1>1. CASE ~Running(p, s.pc)
  BY <1>1, SuperFetch DEF S!Turned
<1>2. CASE Running(p, s.pc)
  <2> DEFINE d == Execute(s.ctx, s.pc, g, p, vs, v)
             m == Scattered(Fetch(p, s.pc), s.ctx, g, v)
             n == Votes(Fetch(p, s.pc))
  <2>1. /\ s.ctx \in Context /\ s.pc \in Int /\ s.ctx.v_self = vs[v]
        /\ IteratorAt(s.ctx, g, vs, v) /\ s.marked \subseteq Vertices(g) /\ s.cast \in Nat
    BY DEF KernelStates
  <2>2. d.ctx \in Context /\ d.pc \in Int /\ d.ctx.v_self = vs[v] /\ IteratorAt(d.ctx, g, vs, v)
    BY <1>2, <2>1, ExecuteType
  <2>3. m \subseteq Vertices(g) /\ n \in Nat
    BY ScatteredType, EffectsOfOps
  <2>4. S!Turned(s, g, p, vs, v)
          = [ctx |-> d.ctx, pc |-> d.pc, marked |-> s.marked \cup m, cast |-> s.cast + n]
    BY <1>2, TurnedIs, Zenon
  <2> HIDE DEF d, m, n
  <2>5. s.marked \cup m \subseteq Vertices(g) /\ s.cast + n \in Nat
    BY <2>1, <2>3
  <2> QED
    BY <2>2, <2>4, <2>5 DEF KernelStates
<1> QED
  BY <1>1, <1>2

(* The run of a kernel starts where the context is loaded and takes a turn at *)
(* a time.                                                                    *)
LEMMA AfterIs ==
  ASSUME NEW g, IsGraph(g), NEW v \in Vertices(g), NEW p, IsProgram(p),
         NEW vs \in [Vertices(g) -> Double], NEW vo \in [Vertices(g) -> Double]
  PROVE  LET run == S!After(g, p, vs, vo, v)
         IN  /\ run[0] = S!Started(g, vs, vo, v)
             /\ \A n \in Nat : run[n] \in KernelStates(g, vs, v)
                               /\ run[n + 1] = S!Turned(run[n], g, p, vs, v)
<1> DEFINE K       == KernelStates(g, vs, v)
           start   == S!Started(g, vs, vo, v)
           step    == [x \in Nat \X K |-> S!Turned(x[2], g, p, vs, v)]
           body(f) == [n \in Nat |-> IF n = 0 THEN start ELSE S!Turned(f[n - 1], g, p, vs, v)]
           run     == CHOOSE f : f = body(f)
<1>1. start \in K
  BY StartedType
<1>2. step \in [Nat \X K -> K]
  <2> HIDE DEF K
  <2> SUFFICES ASSUME NEW x \in Nat \X K PROVE S!Turned(x[2], g, p, vs, v) \in K
    OBVIOUS
  <2>1. x[2] \in K
    OBVIOUS
  <2> QED
    BY <2>1, TurnedType DEF K
<1>3. S!After(g, p, vs, vo, v) = run
  BY DEF S!After
<1>4. \A n \in Nat, s \in K : step[<<n, s>>] = S!Turned(s, g, p, vs, v)
  <2> HIDE DEF K
  <2> QED
    OBVIOUS
<1> HIDE DEF K, start, step
<1>5. PICK f \in [Nat -> K] : \A m \in Nat : Recurs(f, start, step, m)
  BY <1>1, <1>2, RecursionExists
<1>6. f = body(f)
  <2>1. ASSUME NEW n \in Nat
        PROVE  f[n] = IF n = 0 THEN start ELSE S!Turned(f[n - 1], g, p, vs, v)
    <3>1. CASE n = 0
      BY <1>5, <3>1 DEF Recurs
    <3>2. CASE n # 0
      <4>1. n - 1 \in Nat /\ n - 1 \in 0 .. n - 1 /\ (n - 1) + 1 = n
        BY <3>2
      <4>2. f[n] = step[<<n - 1, f[n - 1]>>] /\ f[n - 1] \in K
        BY <1>5, <4>1 DEF Recurs
      <4> QED
        BY <1>4, <3>2, <4>1, <4>2
    <3> QED
      BY <3>1, <3>2
  <2> QED
    BY <2>1
<1>7. run = body(run)
  <2> HIDE DEF body
  <2> QED
    BY <1>6
<1> HIDE DEF run
<1>8. run[0] = start
  BY <1>7
<1>9. ASSUME NEW n \in Nat PROVE run[n + 1] = S!Turned(run[n], g, p, vs, v)
  <2>1. n + 1 \in Nat /\ n + 1 # 0 /\ (n + 1) - 1 = n
    OBVIOUS
  <2>2. run[n + 1] = IF n + 1 = 0 THEN start ELSE S!Turned(run[(n + 1) - 1], g, p, vs, v)
    BY <1>7, <2>1
  <2> QED
    BY <2>1, <2>2
<1>10. \A n \in Nat : run[n] \in K
  <2>1. \A n \in Nat : run[n] \in K => run[n + 1] = step[<<n, run[n]>>]
    BY <1>4, <1>9
  <2> QED
    BY <1>1, <1>2, <1>8, <2>1, RecursionType
<1> QED
  BY <1>3, <1>8, <1>9, <1>10 DEF K, start

(* Once its pc has left the code the run of a kernel stands still. *)
LEMMA StandsStill ==
  ASSUME NEW g, IsGraph(g), NEW v \in Vertices(g), NEW p, IsProgram(p),
         NEW vs \in [Vertices(g) -> Double], NEW vo \in [Vertices(g) -> Double],
         NEW n \in Nat, ~Running(p, S!After(g, p, vs, vo, v)[n].pc),
         NEW m \in Nat, n <= m
  PROVE  S!After(g, p, vs, vo, v)[m] = S!After(g, p, vs, vo, v)[n]
<1> DEFINE run == S!After(g, p, vs, vo, v)
           T   == {k \in Nat : run[n + k] = run[n]}
<1>1. \A k \in Nat : run[k + 1] = S!Turned(run[k], g, p, vs, v)
  BY AfterIs
<1> HIDE DEF run
<1>2. 0 \in T
  <2>1. n + 0 = n
    OBVIOUS
  <2> QED
    BY <2>1
<1>3. ASSUME NEW k \in T PROVE k + 1 \in T
  <2>1. k \in Nat /\ n + k \in Nat /\ n + (k + 1) = (n + k) + 1 /\ run[n + k] = run[n]
    OBVIOUS
  <2>2. run[n + (k + 1)] = S!Turned(run[n], g, p, vs, v)
    BY <1>1, <2>1
  <2>3. S!Turned(run[n], g, p, vs, v) = run[n]
    BY SuperFetch DEF S!Turned, run
  <2> QED
    BY <2>1, <2>2, <2>3
<1>4. m - n \in Nat /\ n + (m - n) = m
  OBVIOUS
<1>5. m - n \in T
  <2>1. T \in SUBSET Nat
    OBVIOUS
  <2> HIDE DEF T
  <2> QED
    BY <1>2, <1>3, <1>4, <2>1, AllNaturals
<1>6. run[n + (m - n)] = run[n]
  BY <1>5
<1> QED
  BY <1>4, <1>6 DEF run

(* Where the run of a kernel ends, if it does. *)
LEMMA OutcomeIs ==
  ASSUME NEW g, IsGraph(g), NEW v \in Vertices(g), NEW p, IsProgram(p),
         NEW vs \in [Vertices(g) -> Double], NEW vo \in [Vertices(g) -> Double],
         NEW n \in Nat, ~Running(p, S!After(g, p, vs, vo, v)[n].pc)
  PROVE  S!Outcome(g, p, vs, vo, v) = S!After(g, p, vs, vo, v)[n]
<1> DEFINE run     == S!After(g, p, vs, vo, v)
           body(f) == [k \in Nat |-> IF S!Running(p, run[k].pc) THEN f[k + 1] ELSE run[k]]
           end     == CHOOSE f : f = body(f)
           last    == [k \in Nat |-> run[n]]
           T       == {k \in Nat : k <= n => end[n - k] = run[n]}
<1>1. S!Outcome(g, p, vs, vo, v) = end[0]
  BY DEF S!Outcome
<1>2. ASSUME NEW k \in Nat, ~Running(p, run[k].pc) PROVE run[k] = run[n]
  <2>1. k <= n \/ n <= k
    OBVIOUS
  <2> QED
    BY <1>2, <2>1, StandsStill
<1>3. ~Running(p, run[n].pc) /\ \A k \in Nat : S!Running(p, run[k].pc) <=> Running(p, run[k].pc)
  BY SuperFetch
<1> HIDE DEF run
<1>4. last = body(last)
  BY <1>2, <1>3
<1>5. end = body(end)
  <2> HIDE DEF body
  <2> QED
    BY <1>4
<1> HIDE DEF end
<1>6. end[n] = run[n]
  BY <1>3, <1>5
<1>7. 0 \in T
  <2>1. n - 0 = n
    OBVIOUS
  <2> QED
    BY <1>6, <2>1
<1>8. ASSUME NEW k \in T PROVE k + 1 \in T
  <2> SUFFICES ASSUME k + 1 <= n PROVE end[n - (k + 1)] = run[n]
    OBVIOUS
  <2>1. /\ k \in Nat /\ k <= n /\ n - (k + 1) \in Nat /\ (n - (k + 1)) + 1 = n - k
    OBVIOUS
  <2>2. end[n - k] = run[n]
    BY <2>1
  <2> DEFINE j == n - (k + 1)
  <2>3. j \in Nat /\ j + 1 = n - k
    BY <2>1
  <2> HIDE DEF j
  <2>4. end[j] = IF Running(p, run[j].pc) THEN end[j + 1] ELSE run[j]
    BY <1>3, <1>5, <2>3
  <2>5. end[j] = run[n]
    BY <1>2, <2>2, <2>3, <2>4
  <2> QED
    BY <2>5 DEF j
<1>9. n \in T
  <2>1. T \in SUBSET Nat
    OBVIOUS
  <2> HIDE DEF T
  <2> QED
    BY <1>7, <1>8, <2>1, AllNaturals
<1>10. end[n - n] = run[n] /\ n - n = 0
  BY <1>9
<1> QED
  BY <1>1, <1>10 DEF run

-----------------------------------------------------------------------------
(* Sums of votes: how they are computed, and what one more turn adds. *)
LEMMA TotalIs ==
  ASSUME NEW cast \in [Nat -> Nat]
  PROVE  /\ S!Total(cast, 0) = 0
         /\ \A n \in Nat : /\ S!Total(cast, n) \in Nat
                          /\ S!Total(cast, n + 1) = S!Total(cast, n) + cast[n]
<1> DEFINE step    == [x \in Nat \X Nat |-> x[2] + cast[x[1]]]
           body(f) == [k \in Nat |-> IF k = 0 THEN 0 ELSE f[k - 1] + cast[k - 1]]
           sum     == CHOOSE f : f = body(f)
<1>1. step \in [Nat \X Nat -> Nat] /\ \A n \in Nat, a \in Nat : step[<<n, a>>] = a + cast[n]
  OBVIOUS
<1>2. \A n : S!Total(cast, n) = sum[n]
  BY DEF S!Total
<1> HIDE DEF step
<1>3. PICK f \in [Nat -> Nat] : \A m \in Nat : Recurs(f, 0, step, m)
  <2>1. 0 \in Nat
    OBVIOUS
  <2> QED
    BY <1>1, <2>1, RecursionExists
<1>4. f = body(f)
  <2>1. ASSUME NEW n \in Nat
        PROVE  f[n] = IF n = 0 THEN 0 ELSE f[n - 1] + cast[n - 1]
    <3>1. CASE n = 0
      BY <1>3, <3>1 DEF Recurs
    <3>2. CASE n # 0
      <4>1. n - 1 \in Nat /\ n - 1 \in 0 .. n - 1 /\ (n - 1) + 1 = n
        BY <3>2
      <4>2. f[n] = step[<<n - 1, f[n - 1]>>] /\ f[n - 1] \in Nat
        BY <1>3, <4>1 DEF Recurs
      <4> QED
        BY <1>1, <3>2, <4>1, <4>2
    <3> QED
      BY <3>1, <3>2
  <2> QED
    BY <2>1
<1>5. sum = body(sum)
  <2> HIDE DEF body
  <2> QED
    BY <1>4
<1> HIDE DEF sum
<1>6. sum[0] = 0
  BY <1>5
<1>7. ASSUME NEW n \in Nat PROVE sum[n + 1] = sum[n] + cast[n]
  <2>1. n + 1 \in Nat /\ n + 1 # 0 /\ (n + 1) - 1 = n
    OBVIOUS
  <2>2. sum[n + 1] = IF n + 1 = 0 THEN 0 ELSE sum[(n + 1) - 1] + cast[(n + 1) - 1]
    BY <1>5, <2>1
  <2> QED
    BY <2>1, <2>2
<1>8. \A n \in Nat : sum[n] \in Nat
  <2> DEFINE N == Nat
  <2>1. \A n \in Nat : sum[n] \in N => sum[n + 1] = step[<<n, sum[n]>>]
    BY <1>1, <1>7
  <2>2. 0 \in N /\ step \in [Nat \X N -> N]
    BY <1>1
  <2> HIDE DEF N
  <2>3. \A n \in Nat : sum[n] \in N
    BY <1>6, <2>1, <2>2, RecursionType
  <2> QED
    BY <2>3 DEF N
<1> QED
  BY <1>2, <1>6, <1>7, <1>8

LEMMA TotalOfNone ==
  ASSUME NEW cast \in [Nat -> Nat], \A n \in Nat : cast[n] = 0, NEW m \in Nat
  PROVE  S!Total(cast, m) = 0
<1> DEFINE T == {n \in Nat : S!Total(cast, n) = 0}
<1>1. T \in SUBSET Nat /\ 0 \in T
  BY TotalIs
<1>2. ASSUME NEW n \in T PROVE n + 1 \in T
  <2>1. n \in Nat /\ n + 1 \in Nat /\ S!Total(cast, n) = 0 /\ cast[n] = 0
    OBVIOUS
  <2>2. S!Total(cast, n + 1) = S!Total(cast, n) + cast[n]
    BY <2>1, TotalIs
  <2> QED
    BY <2>1, <2>2
<1>3. m \in T
  <2> HIDE DEF T
  <2> QED
    BY <1>1, <1>2, AllNaturals
<1> QED
  BY <1>3

Grows(cast, more, u, d) ==
  /\ cast \in [Nat -> Nat] /\ more \in [Nat -> Nat] /\ u \in Nat /\ d \in Nat
  /\ more[u] = cast[u] + d
  /\ \A n \in Nat : n # u => more[n] = cast[n]

LEMMA TotalGrows ==
  ASSUME NEW cast, NEW more, NEW u, NEW d, Grows(cast, more, u, d), NEW m \in Nat, u < m
  PROVE  S!Total(more, m) = S!Total(cast, m) + d
<1> USE DEF Grows
<1> DEFINE T == {n \in Nat : S!Total(more, n) = S!Total(cast, n) + IF u < n THEN d ELSE 0}
<1>1. T \in SUBSET Nat
  OBVIOUS
<1>2. 0 \in T
  <2>1. S!Total(more, 0) = 0 /\ S!Total(cast, 0) = 0 /\ ~(u < 0)
    BY TotalIs
  <2> QED
    BY <2>1
<1>3. ASSUME NEW n \in T PROVE n + 1 \in T
  <2>1. n \in Nat /\ n + 1 \in Nat
        /\ S!Total(more, n) = S!Total(cast, n) + IF u < n THEN d ELSE 0
    OBVIOUS
  <2>2. /\ S!Total(more, n + 1) = S!Total(more, n) + more[n]
        /\ S!Total(cast, n + 1) = S!Total(cast, n) + cast[n]
        /\ S!Total(cast, n) \in Nat /\ cast[n] \in Nat
    BY <2>1, TotalIs
  <2>3. S!Total(more, n + 1) = S!Total(cast, n + 1) + IF u < n + 1 THEN d ELSE 0
    <3>1. CASE u = n
      BY <2>1, <2>2, <3>1
    <3>2. CASE u # n
      <4>1. (u < n + 1) <=> (u < n)
        BY <2>1, <3>2
      <4>2. more[n] = cast[n]
        BY <2>1, <3>2
      <4> QED
        BY <2>1, <2>2, <4>1, <4>2
    <3> QED
      BY <3>1, <3>2
  <2> QED
    BY <2>1, <2>3
<1>4. m \in T
  <2> HIDE DEF T
  <2> QED
    BY <1>1, <1>2, <1>3, AllNaturals
<1> QED
  BY <1>4

-----------------------------------------------------------------------------
(* What the kernels of the vertices in F have marked and voted when each has  *)
(* taken the given number of turns.                                           *)
State(turns, g, p, vs, vo, v) == S!After(g, p, vs, vo, v)[turns[v]]

MarkedBy(turns, g, p, vs, vo, F) == UNION {State(turns, g, p, vs, vo, v).marked : v \in F}

CastBy(turns, g, p, vs, vo, F) ==
  [v \in Nat |-> IF v \in F THEN State(turns, g, p, vs, vo, v).cast ELSE 0]

(* The inductive invariant.  However the kernels have been interleaved, each  *)
(* is where its own run, a function of the state the superstep started in, is *)
(* after some number of turns; the marks and the votes, which all share, are  *)
(* the union and the sum of what the runs have marked and cast by then.       *)
Progress(turns) ==
  /\ \A v \in Nat : v \notin done \cup DOMAIN threads => turns[v] = 0
  /\ \A v \in DOMAIN threads :
       LET s == State(turns, graph, program, val, out0, v)
       IN  threads[v] = [ctx |-> s.ctx, pc |-> s.pc]
  /\ \A v \in done :
       LET s == State(turns, graph, program, val, out0, v)
       IN  ~Running(program, s.pc) /\ out[v] = s.ctx.v_out
  /\ \A v \in Vertices(graph) \ done : out[v] = out0[v]
  /\ marks = MarkedBy(turns, graph, program, val, out0, front)
  /\ votes = (votes0 + S!Total(CastBy(turns, graph, program, val, out0, front),
                               graph.num_vertices)) % UpdatesMod

OrderTypes ==
  /\ graph \in Graphs /\ program \in Programs
  /\ val \in [Vertices(graph) -> Double]
  /\ out \in [Vertices(graph) -> Double] /\ out0 \in [Vertices(graph) -> Double]
  /\ front \subseteq Vertices(graph) /\ marks \subseteq Vertices(graph)
  /\ done \subseteq front /\ DOMAIN threads \subseteq front \ done
  /\ votes \in 0 .. UpdatesMod - 1 /\ votes0 \in 0 .. UpdatesMod - 1

(* The history variables: the values at the start are still those that are    *)
(* committed, and the turns have been counted.                                *)
Remembered(turns) ==
  /\ val0 = val
  /\ executed \in [Vertices(graph) -> Nat]
  /\ \A v \in Vertices(graph) : executed[v] = turns[v]

OrderInv ==
  OrderTypes /\ \E turns \in [Nat -> Nat] : Progress(turns) /\ Remembered(turns)

LEMMA HostLoaded ==
  ASSUME OrderTypes
  PROVE  /\ IsGraph(graph) /\ IsProgram(program)
         /\ graph.num_vertices \in Nat /\ Vertices(graph) \subseteq Nat
BY OrderAssumption DEF OrderTypes, IsGraph, Vertices

LEMMA StateType ==
  ASSUME OrderTypes, NEW turns \in [Nat -> Nat], NEW v \in Vertices(graph)
  PROVE  State(turns, graph, program, val, out0, v) \in KernelStates(graph, val, v)
<1>1. turns[v] \in Nat
  BY HostLoaded
<1> QED
  BY <1>1, HostLoaded, AfterIs DEF OrderTypes, State

(* Before any kernel has begun nothing is marked and no vote is cast. *)
Fresh == done = {} /\ DOMAIN threads = {} /\ marks = {} /\ votes = votes0 /\ out = out0

LEMMA NoProgress == OrderTypes /\ Fresh => Progress([v \in Nat |-> 0])
<1> SUFFICES ASSUME OrderTypes, Fresh PROVE Progress([v \in Nat |-> 0])
  OBVIOUS
<1> USE DEF Fresh
<1> DEFINE turns == [v \in Nat |-> 0]
           cast  == CastBy(turns, graph, program, val, out0, front)
<1>1. turns \in [Nat -> Nat] /\ \A v \in Nat : turns[v] = 0
  OBVIOUS
<1> HIDE DEF turns
<1>2. \A v \in Vertices(graph) :
        /\ State(turns, graph, program, val, out0, v).marked = {}
        /\ State(turns, graph, program, val, out0, v).cast = 0
  <2> TAKE v \in Vertices(graph)
  <2>1. v \in Nat /\ turns[v] = 0
    BY <1>1, HostLoaded
  <2>2. State(turns, graph, program, val, out0, v) = S!Started(graph, val, out0, v)
    BY <2>1, HostLoaded, AfterIs DEF State, OrderTypes
  <2> QED
    BY <2>2 DEF S!Started
<1>3. MarkedBy(turns, graph, program, val, out0, front) = {}
  BY <1>2 DEF MarkedBy, OrderTypes
<1>4. cast \in [Nat -> Nat] /\ \A v \in Nat : cast[v] = 0
  BY <1>2 DEF CastBy, OrderTypes
<1>5. S!Total(cast, graph.num_vertices) = 0
  <2> HIDE DEF cast
  <2> QED
    BY <1>4, HostLoaded, TotalOfNone
<1> HIDE DEF cast
<1>6. votes = (votes0 + S!Total(cast, graph.num_vertices)) % UpdatesMod
  BY <1>5, OrderAssumption DEF OrderTypes
<1> QED
  BY <1>1, <1>3, <1>6 DEF Progress, cast, turns

LEMMA NoProgressNext == (OrderTypes /\ Fresh => Progress([v \in Nat |-> 0]))'
BY NoProgress, PTL

LEMMA InitOrderInv == InitOrder => OrderInv
<1> SUFFICES ASSUME InitOrder PROVE OrderInv
  OBVIOUS
<1>1. IsGraph(graph)
  BY OrderAssumption DEF InitOrder
<1>2. val \in [Vertices(graph) -> Double] /\ out \in [Vertices(graph) -> Double]
  BY OrderAssumption, SmallType DEF InitOrder
<1>3. DOMAIN threads = {}
  BY DEF InitOrder
<1>4. OrderTypes
  BY <1>2, <1>3, OrderAssumption DEF InitOrder, OrderTypes
<1>5. Progress([v \in Nat |-> 0])
  BY <1>3, <1>4, NoProgress DEF InitOrder, Fresh
<1>6. Remembered([v \in Nat |-> 0])
  BY <1>1 DEF InitOrder, Remembered, Vertices, IsGraph
<1>7. [v \in Nat |-> 0] \in [Nat -> Nat]
  OBVIOUS
<1> QED
  BY <1>4, <1>5, <1>6, <1>7 DEF OrderInv

(* A kernel that begins is where its run starts. *)
LEMMA BeginInv ==
  ASSUME OrderTypes, NEW turns \in [Nat -> Nat], Progress(turns), NEW u, Begin(u),
         UNCHANGED <<out0, votes0>>
  PROVE  OrderTypes' /\ Progress(turns)'
<1>1. /\ u \in front /\ u \notin done /\ u \notin DOMAIN threads
      /\ DOMAIN threads' = DOMAIN threads \cup {u}
      /\ threads'[u] = [ctx |-> load_context(graph, val, out, u), pc |-> 0]
      /\ \A v \in DOMAIN threads : threads'[v] = threads[v]
      /\ UNCHANGED <<graph, program, val, out, front, marks, votes, done, inRun, out0, votes0>>
  BY DEF Begin
<1>2. OrderTypes'
  BY <1>1 DEF OrderTypes
<1>3. u \in Vertices(graph) /\ u \in Nat
  BY <1>1, HostLoaded DEF OrderTypes
<1>4. turns[u] = 0 /\ out[u] = out0[u]
  BY <1>1, <1>3 DEF Progress
<1>5. State(turns, graph, program, val, out0, u) = S!Started(graph, val, out0, u)
  BY <1>3, <1>4, HostLoaded, AfterIs DEF State, OrderTypes
<1>6. load_context(graph, val, out, u) = load_context(graph, val, out0, u)
  BY <1>4 DEF load_context
<1>7. LET s == State(turns, graph, program, val, out0, u)
      IN  threads'[u] = [ctx |-> s.ctx, pc |-> s.pc]
  BY <1>1, <1>5, <1>6, SuperLoad DEF S!Started
<1> QED
  BY <1>1, <1>2, <1>7 DEF Progress

(* A kernel that executes an instruction has taken one turn more, and what    *)
(* the instruction marks and votes is what the turn adds.                     *)
LEMMA TurnAdds ==
  ASSUME OrderTypes, NEW turns \in [Nat -> Nat], NEW u \in front, NEW more,
         more = [turns EXCEPT ![u] = @ + 1],
         Running(program, State(turns, graph, program, val, out0, u).pc)
  PROVE  LET s    == State(turns, graph, program, val, out0, u)
             t    == State(more, graph, program, val, out0, u)
             inst == Fetch(program, s.pc)
         IN  /\ [ctx |-> t.ctx, pc |-> t.pc] = Execute(s.ctx, s.pc, graph, program, val, u)
             /\ MarkedBy(more, graph, program, val, out0, front)
                  = MarkedBy(turns, graph, program, val, out0, front)
                      \cup Scattered(inst, s.ctx, graph, u)
             /\ S!Total(CastBy(more, graph, program, val, out0, front), graph.num_vertices)
                  = S!Total(CastBy(turns, graph, program, val, out0, front), graph.num_vertices)
                      + Votes(inst)
<1> DEFINE s    == State(turns, graph, program, val, out0, u)
           t    == State(more, graph, program, val, out0, u)
           inst == Fetch(program, s.pc)
           X    == Scattered(inst, s.ctx, graph, u)
           d    == Votes(inst)
           exec == Execute(s.ctx, s.pc, graph, program, val, u)
<1>1. u \in Vertices(graph) /\ u \in Nat /\ turns[u] \in Nat /\ more[u] = turns[u] + 1
      /\ \A v \in Nat : v # u => more[v] = turns[v]
  BY HostLoaded DEF OrderTypes
<1>2. t = S!Turned(s, graph, program, val, u)
  BY <1>1, HostLoaded, AfterIs DEF State, OrderTypes
<1>3. t = [ctx |-> exec.ctx, pc |-> exec.pc, marked |-> s.marked \cup X, cast |-> s.cast + d]
  <2>1. Running(program, s.pc)
    OBVIOUS
  <2> HIDE DEF s, t
  <2> QED
    BY <1>2, <2>1, TurnedIs, Zenon
<1>4. exec = [ctx |-> exec.ctx, pc |-> exec.pc]
  BY DEF Execute
<1>5. d \in Nat /\ s.cast \in Nat
  <2>1. s \in KernelStates(graph, val, u)
    BY <1>1, StateType
  <2> HIDE DEF s
  <2> QED
    BY <2>1, EffectsOfOps DEF KernelStates
<1>6. \A v \in front : v # u => State(more, graph, program, val, out0, v)
                                   = State(turns, graph, program, val, out0, v)
  BY <1>1, HostLoaded DEF State, OrderTypes
<1> HIDE DEF s, t, inst, X, d, exec
<1>7. MarkedBy(more, graph, program, val, out0, front)
        = MarkedBy(turns, graph, program, val, out0, front) \cup X
  <2>1. t.marked = s.marked \cup X
    BY <1>3
  <2> QED
    BY <1>6, <2>1 DEF MarkedBy, s, t
<1> DEFINE a == CastBy(turns, graph, program, val, out0, front)
           b == CastBy(more, graph, program, val, out0, front)
<1>8. a \in [Nat -> Nat] /\ b \in [Nat -> Nat]
  <2>1. more \in [Nat -> Nat]
    BY <1>1
  <2>2. \A v \in front : /\ State(turns, graph, program, val, out0, v).cast \in Nat
                         /\ State(more, graph, program, val, out0, v).cast \in Nat
    BY <2>1, StateType DEF KernelStates, OrderTypes
  <2> QED
    BY <2>2 DEF CastBy
<1>9. b[u] = a[u] + d /\ \A v \in Nat : v # u => b[v] = a[v]
  <2>1. b[u] = t.cast /\ a[u] = s.cast /\ t.cast = s.cast + d
    BY <1>1, <1>3 DEF CastBy, s, t
  <2> QED
    BY <1>6, <2>1 DEF CastBy
<1>10. u < graph.num_vertices /\ graph.num_vertices \in Nat
  BY <1>1, HostLoaded DEF Vertices
<1> HIDE DEF a, b
<1>11. S!Total(b, graph.num_vertices) = S!Total(a, graph.num_vertices) + d
  <2> DEFINE m == graph.num_vertices
  <2>1. m \in Nat /\ u < m
    BY <1>10
  <2>2. Grows(a, b, u, d)
    BY <1>1, <1>5, <1>8, <1>9 DEF Grows
  <2> HIDE DEF m
  <2>3. S!Total(b, m) = S!Total(a, m) + d
    BY <2>1, <2>2, TotalGrows
  <2> QED
    BY <2>3 DEF m
<1>12. [ctx |-> t.ctx, pc |-> t.pc] = exec
  BY <1>3, <1>4
<1> QED
  BY <1>7, <1>11, <1>12 DEF s, t, inst, X, d, exec, a, b

LEMMA InstrInv ==
  ASSUME OrderTypes, NEW turns \in [Nat -> Nat], Progress(turns), NEW u, Instr(u),
         UNCHANGED <<out0, votes0>>, NEW more, more = [turns EXCEPT ![u] = @ + 1]
  PROVE  OrderTypes' /\ Progress(more)' /\ more \in [Nat -> Nat]
<1> DEFINE s    == State(turns, graph, program, val, out0, u)
           inst == Fetch(program, s.pc)
           X    == Scattered(inst, s.ctx, graph, u)
           d    == Votes(inst)
           a    == S!Total(CastBy(turns, graph, program, val, out0, front), graph.num_vertices)
           b    == S!Total(CastBy(more, graph, program, val, out0, front), graph.num_vertices)
<1>1. u \in DOMAIN threads /\ threads[u] = [ctx |-> s.ctx, pc |-> s.pc]
  BY DEF Instr, Progress
<1>2. threads[u].ctx = s.ctx /\ threads[u].pc = s.pc
  BY <1>1
<1>3. /\ Running(program, s.pc)
      /\ threads' = [threads EXCEPT ![u] = Execute(s.ctx, s.pc, graph, program, val, u)]
      /\ marks' = marks \cup X /\ votes' = (votes + d) % UpdatesMod
      /\ UNCHANGED <<graph, program, val, out, front, done, inRun, out0, votes0>>
  BY <1>2 DEF Instr
<1>4. u \in front /\ u \in Vertices(graph) /\ u \in Nat /\ u \notin done
  BY <1>1, HostLoaded DEF OrderTypes
<1>5. /\ more \in [Nat -> Nat] /\ \A v \in Nat : v # u => more[v] = turns[v]
  BY <1>4
<1>6. LET t == State(more, graph, program, val, out0, u)
      IN  [ctx |-> t.ctx, pc |-> t.pc] = Execute(s.ctx, s.pc, graph, program, val, u)
  BY <1>3, <1>4, TurnAdds
<1>7. /\ MarkedBy(more, graph, program, val, out0, front)
           = MarkedBy(turns, graph, program, val, out0, front) \cup X
      /\ b = a + d
  BY <1>3, <1>4, TurnAdds
<1>8. \A v \in Nat : v # u => State(more, graph, program, val, out0, v)
                                 = State(turns, graph, program, val, out0, v)
  BY <1>5 DEF State
<1>9. X \subseteq Vertices(graph) /\ d \in Nat
  BY <1>4, HostLoaded, ScatteredType, EffectsOfOps
<1>10. a \in Nat
  <2>1. CastBy(turns, graph, program, val, out0, front) \in [Nat -> Nat]
    BY StateType DEF CastBy, KernelStates, OrderTypes
  <2> QED
    BY <2>1, HostLoaded, TotalIs
<1>11. votes = (votes0 + a) % UpdatesMod
  BY DEF Progress
<1>12. /\ \A v \in DOMAIN threads \cup done : v \in Nat
       /\ DOMAIN threads' = DOMAIN threads
       /\ \A v \in DOMAIN threads : v # u => threads'[v] = threads[v]
       /\ threads'[u] = Execute(s.ctx, s.pc, graph, program, val, u)
  BY <1>1, <1>3, HostLoaded DEF OrderTypes
<1> HIDE DEF s, inst, X, d, a, b
<1>13. votes' = (votes0 + b) % UpdatesMod /\ votes' \in 0 .. UpdatesMod - 1
  <2>1. votes0 \in Nat /\ votes0 + a \in Nat /\ UpdatesMod \in Nat \ {0}
    BY <1>10, OrderAssumption DEF OrderTypes
  <2>2. (((votes0 + a) % UpdatesMod) + d) % UpdatesMod = ((votes0 + a) + d) % UpdatesMod
    BY <1>9, <2>1, WrappedSum
  <2>3. (votes0 + a) + d = votes0 + b /\ votes0 + b \in Nat
    BY <1>7, <1>9, <1>10, <2>1
  <2>4. votes' = (votes0 + b) % UpdatesMod
    BY <1>3, <1>11, <2>2, <2>3
  <2> QED
    BY <2>1, <2>3, <2>4
<1>14. OrderTypes'
  BY <1>3, <1>9, <1>12, <1>13 DEF OrderTypes
<1>15. \A v \in Nat : v \notin done' \cup DOMAIN threads' => more[v] = 0
  BY <1>1, <1>3, <1>5, <1>12 DEF Progress
<1>16. ASSUME NEW v \in DOMAIN threads'
       PROVE  LET t == State(more, graph, program, val, out0, v)
              IN  threads'[v] = [ctx |-> t.ctx, pc |-> t.pc]
  <2>1. CASE v = u
    BY <1>6, <1>12, <2>1
  <2>2. CASE v # u
    BY <1>8, <1>12, <2>2 DEF Progress
  <2> QED
    BY <2>1, <2>2
<1>17. ASSUME NEW v \in done'
       PROVE  LET t == State(more, graph, program, val, out0, v)
              IN  ~Running(program, t.pc) /\ out[v] = t.ctx.v_out
  BY <1>3, <1>4, <1>8, <1>12 DEF Progress
<1>18. marks' = MarkedBy(more, graph, program, val, out0, front)
  BY <1>3, <1>7 DEF Progress
<1>19. \A v \in Vertices(graph) \ done' : out[v] = out0[v]
  BY <1>3 DEF Progress
<1>20. Progress(more)'
  <2>1. \A v \in done : LET t == State(more, graph, program, val, out0, v)
                        IN  ~Running(program, t.pc) /\ out[v] = t.ctx.v_out
    BY <1>3, <1>17
  <2>2. /\ graph' = graph /\ program' = program /\ val' = val /\ out' = out /\ front' = front
        /\ done' = done /\ out0' = out0 /\ votes0' = votes0
    BY <1>3
  <2>3. \A v \in DOMAIN threads' : LET t == State(more, graph, program, val, out0, v)
                                  IN  threads'[v] = [ctx |-> t.ctx, pc |-> t.pc]
    BY <1>16
  <2>4. \A v \in Vertices(graph) \ done : out[v] = out0[v]
    BY <1>19, <2>2
  <2>5. votes' = (votes0 + S!Total(CastBy(more, graph, program, val, out0, front),
                                   graph.num_vertices)) % UpdatesMod
    BY <1>13 DEF b
  <2> QED
    BY <1>15, <1>18, <2>1, <2>2, <2>3, <2>4, <2>5 DEF Progress
<1> QED
  BY <1>5, <1>14, <1>20

(* A kernel that finishes has its run where it ends. *)
LEMMA FinishInv ==
  ASSUME OrderTypes, NEW turns \in [Nat -> Nat], Progress(turns), NEW u, Finish(u),
         UNCHANGED <<out0, votes0>>
  PROVE  OrderTypes' /\ Progress(turns)'
<1> DEFINE s == State(turns, graph, program, val, out0, u)
<1>1. u \in DOMAIN threads /\ threads[u] = [ctx |-> s.ctx, pc |-> s.pc]
  BY DEF Finish, Progress
<1>2. threads[u].ctx = s.ctx /\ threads[u].pc = s.pc
  BY <1>1
<1>3. u \in front /\ u \in Vertices(graph) /\ u \notin done
  BY <1>1 DEF OrderTypes
<1>4. s.ctx.v_out \in Double
  <2>1. s \in KernelStates(graph, val, u)
    BY <1>3, StateType
  <2> HIDE DEF s
  <2> QED
    BY <2>1 DEF KernelStates, Context
<1>5. /\ ~Running(program, s.pc) /\ out' = [out EXCEPT ![u] = s.ctx.v_out]
      /\ done' = done \cup {u} /\ DOMAIN threads' = DOMAIN threads \ {u}
      /\ \A v \in DOMAIN threads' : threads'[v] = threads[v]
      /\ UNCHANGED <<graph, program, val, front, marks, votes, inRun, out0, votes0>>
  BY <1>2 DEF Finish
<1>6. out' \in [Vertices(graph) -> Double] /\ out'[u] = s.ctx.v_out
      /\ \A v \in Vertices(graph) : v # u => out'[v] = out[v]
  BY <1>3, <1>4, <1>5 DEF OrderTypes
<1> HIDE DEF s
<1>7. OrderTypes'
  BY <1>1, <1>3, <1>5, <1>6 DEF OrderTypes
<1>8. \A v \in Nat : v \notin done' \cup DOMAIN threads' => turns[v] = 0
  BY <1>5 DEF Progress
<1>9. \A v \in DOMAIN threads' : LET t == State(turns, graph, program, val, out0, v)
                               IN  threads'[v] = [ctx |-> t.ctx, pc |-> t.pc]
  BY <1>5 DEF Progress
<1>10. ASSUME NEW v \in done'
       PROVE  LET t == State(turns, graph, program, val, out0, v)
              IN  ~Running(program, t.pc) /\ out'[v] = t.ctx.v_out
  <2>1. CASE v = u
    BY <1>5, <1>6, <2>1 DEF s
  <2>2. CASE v # u
    BY <1>5, <1>6, <2>2 DEF Progress, OrderTypes
  <2> QED
    BY <2>1, <2>2
<1>11. \A v \in Vertices(graph) \ done' : out'[v] = out0[v]
  BY <1>5, <1>6 DEF Progress
<1>12. Progress(turns)'
  <2>1. /\ graph' = graph /\ program' = program /\ val' = val /\ front' = front
        /\ marks' = marks /\ votes' = votes /\ out0' = out0 /\ votes0' = votes0
    BY <1>5
  <2>2. \A v \in done' : LET t == State(turns, graph, program, val, out0, v)
                        IN  ~Running(program, t.pc) /\ out'[v] = t.ctx.v_out
    BY <1>10
  <2> QED
    BY <1>8, <1>9, <1>11, <2>1, <2>2 DEF Progress
<1> QED
  BY <1>7, <1>12

(* The barrier leaves every kernel of the next superstep yet to begin. *)
LEMMA PassingInv == OrderInv /\ Passing => OrderInv'
<1> SUFFICES ASSUME OrderTypes, Passing PROVE OrderInv'
  BY DEF OrderInv
<1>1. /\ val' = out /\ out' = out /\ out0' = out /\ front' = marks /\ marks' = {}
      /\ done' = {} /\ front \subseteq done /\ UNCHANGED <<graph, program, threads>>
      /\ votes' \in {0, votes} /\ votes0' = votes'
  BY DEF Passing, Barrier
<1>2. DOMAIN threads = {}
  BY <1>1 DEF OrderTypes
<1>3. Fresh'
  BY <1>1, <1>2 DEF Fresh
<1>4. OrderTypes'
  BY <1>1, <1>2, OrderAssumption DEF OrderTypes
<1>5. Progress([v \in Nat |-> 0])'
  BY <1>3, <1>4, NoProgressNext
<1>6. Remembered([v \in Nat |-> 0])'
  <2>1. val0' = val' /\ executed' = [v \in Vertices(graph') |-> 0]
    BY <1>1 DEF Passing
  <2>2. Vertices(graph') \subseteq Nat
    BY <1>1, HostLoaded
  <2> QED
    BY <2>1, <2>2 DEF Remembered
<1>7. [v \in Nat |-> 0] \in [Nat -> Nat]
  OBVIOUS
<1> QED
  BY <1>4, <1>5, <1>6, <1>7 DEF OrderInv

LEMMA WorkingInv == OrderInv /\ Working => OrderInv'
<1> SUFFICES ASSUME OrderTypes, Working,
                    NEW turns \in [Nat -> Nat], Progress(turns), Remembered(turns)
             PROVE  OrderInv'
  BY DEF OrderInv
<1>1. PICK u \in front : \/ (Begin(u) \/ Finish(u)) /\ UNCHANGED executed
                         \/ Instr(u) /\ executed' = [executed EXCEPT ![u] = @ + 1]
  BY DEF Working
<1>2. UNCHANGED <<val0, out0, votes0>>
  BY DEF Working
<1>3. UNCHANGED <<graph, val>>
  BY <1>1 DEF Begin, Instr, Finish
<1>4. u \in Vertices(graph) /\ Vertices(graph) \subseteq Nat
  BY HostLoaded DEF OrderTypes
<1>5. CASE (Begin(u) \/ Finish(u)) /\ UNCHANGED executed
  <2>1. OrderTypes' /\ Progress(turns)'
    BY <1>2, <1>5, BeginInv, FinishInv
  <2>2. Remembered(turns)'
    BY <1>2, <1>3, <1>5 DEF Remembered
  <2> QED
    BY <2>1, <2>2 DEF OrderInv
<1>6. CASE Instr(u) /\ executed' = [executed EXCEPT ![u] = @ + 1]
  <2> DEFINE more == [turns EXCEPT ![u] = @ + 1]
  <2>1. more \in [Nat -> Nat] /\ more[u] = turns[u] + 1 /\ \A v \in Nat : v # u => more[v] = turns[v]
    BY <1>4
  <2>2. Remembered(more)'
    <3> HIDE DEF more
    <3> QED
      BY <1>2, <1>3, <1>4, <1>6, <2>1 DEF Remembered
  <2> HIDE DEF more
  <2>3. OrderTypes' /\ Progress(more)'
    BY <1>2, <1>6, InstrInv DEF more
  <2> QED
    BY <2>1, <2>2, <2>3 DEF OrderInv
<1> QED
  BY <1>1, <1>5, <1>6

(* However the kernels are interleaved, each is somewhere on its own run. *)
LEMMA OrderInvariance == SpecOrder => []OrderInv
<1>1. OrderInv /\ UNCHANGED orderVars => OrderInv'
  BY DEF OrderInv, OrderTypes, Progress, Remembered, orderVars, vars
<1> QED
  BY <1>1, InitOrderInv, WorkingInv, PassingInv, PTL DEF SpecOrder

-----------------------------------------------------------------------------
(* A kernel in progress is where it would be if it had run alone, on the      *)
(* values of the start of the superstep, however many kernels finish and      *)
(* store theirs meanwhile.                                                    *)
THEOREM Isolation == SpecOrder => []Isolated
<1>1. OrderInv => Isolated
  <2> SUFFICES ASSUME OrderTypes,
                      NEW turns \in [Nat -> Nat], Progress(turns), Remembered(turns),
                      NEW v \in DOMAIN threads
               PROVE  LET alone == S!After(graph, program, val0, out0, v)[executed[v]]
                      IN  threads[v] = [ctx |-> alone.ctx, pc |-> alone.pc]
    BY DEF OrderInv, Isolated
  <2>1. v \in Vertices(graph)
    BY DEF OrderTypes
  <2>2. executed[v] = turns[v] /\ val0 = val
    BY <2>1 DEF Remembered
  <2>3. LET s == State(turns, graph, program, val, out0, v)
        IN  threads[v] = [ctx |-> s.ctx, pc |-> s.pc]
    BY DEF Progress
  <2> QED
    BY <2>2, <2>3 DEF State
<1> QED
  BY <1>1, OrderInvariance, PTL

(* While kernels run nothing that Superstep describes changes. *)
LEMMA WorkingStutters == Working => UNCHANGED S!vars
BY DEF Working, Begin, Instr, Finish, S!vars

(* At the barrier the values, the marks and the votes are those that Superstep*)
(* computes from the state at the start.                                      *)
LEMMA PassingAdvances == OrderInv /\ Passing => S!Advanced
<1> SUFFICES ASSUME OrderTypes, Passing, NEW turns \in [Nat -> Nat], Progress(turns)
             PROVE  S!Advanced
  BY DEF OrderInv
<1> DEFINE outcome == [v \in front |-> S!Outcome(graph, program, val, out0, v)]
           marked  == UNION {outcome[v].marked : v \in front}
           cast    == [v \in Nat |-> IF v \in front THEN outcome[v].cast ELSE 0]
           total   == (votes0 + S!Total(cast, graph.num_vertices)) % UpdatesMod
<1>1. /\ inRun /\ val' = out /\ out' = out /\ out0' = out /\ front' = marks
      /\ inRun' = (marks # {} /\ votes # 0)
      /\ votes0' = IF marks = {} THEN votes ELSE 0
      /\ front \subseteq done /\ UNCHANGED <<graph, program>>
  BY DEF Passing, Barrier
<1>2. done = front
  BY <1>1 DEF OrderTypes
<1>3. ASSUME NEW v \in front
      PROVE  outcome[v] = State(turns, graph, program, val, out0, v)
             /\ out[v] = outcome[v].ctx.v_out
  <2>1. v \in Vertices(graph) /\ turns[v] \in Nat
    BY HostLoaded DEF OrderTypes
  <2>2. /\ ~Running(program, State(turns, graph, program, val, out0, v).pc)
        /\ out[v] = State(turns, graph, program, val, out0, v).ctx.v_out
    BY <1>2 DEF Progress
  <2>3. S!Outcome(graph, program, val, out0, v) = State(turns, graph, program, val, out0, v)
    BY <2>1, <2>2, HostLoaded, OutcomeIs DEF State, OrderTypes
  <2> QED
    BY <2>2, <2>3
<1> HIDE DEF outcome
<1>4. marks = marked
  <2>1. marks = MarkedBy(turns, graph, program, val, out0, front)
    BY DEF Progress
  <2> QED
    BY <1>3, <2>1 DEF MarkedBy
<1>5. cast = CastBy(turns, graph, program, val, out0, front)
  BY <1>3 DEF CastBy
<1> HIDE DEF cast
<1>6. votes = total
  BY <1>5 DEF Progress
<1>7. out = [v \in DOMAIN out0 |-> IF v \in front THEN outcome[v].ctx.v_out ELSE out0[v]]
  <2>1. /\ out \in [Vertices(graph) -> Double] /\ DOMAIN out0 = Vertices(graph)
        /\ front \subseteq Vertices(graph)
    BY DEF OrderTypes
  <2>2. \A v \in Vertices(graph) \ front : out[v] = out0[v]
    BY <1>2 DEF Progress
  <2> QED
    BY <1>3, <2>1, <2>2
<1> HIDE DEF marked, total
<1>8. /\ inRun
      /\ out0' = [v \in DOMAIN out0 |-> IF v \in front THEN outcome[v].ctx.v_out ELSE out0[v]]
      /\ val' = out0' /\ front' = marked
      /\ inRun' = (marked # {} /\ total # 0)
      /\ votes0' = IF marked = {} THEN total ELSE 0
      /\ UNCHANGED <<graph, program>>
  BY <1>1, <1>4, <1>6, <1>7
<1> QED
  BY <1>8, Zenon DEF S!Advanced, outcome, marked, total, cast

(* The order in which the kernels of a superstep run does not affect what the *)
(* superstep commits, whom it activates and whether the run goes on: every    *)
(* interleaving implements the one function of Superstep.                     *)
THEOREM OrderIndependence == SpecOrder => OrderDoesNotMatter
<1>1. InitOrder => S!Init
  BY OrderAssumption DEF InitOrder, S!Init
<1>2. OrderInv /\ [Working \/ Passing]_orderVars => [S!Host \/ S!Advanced]_S!vars
  <2>1. UNCHANGED orderVars => UNCHANGED S!vars
    BY DEF orderVars, vars, S!vars
  <2> QED
    BY <2>1, WorkingStutters, PassingAdvances
<1> QED
  BY <1>1, <1>2, OrderInvariance, PTL DEF SpecOrder, OrderDoesNotMatter, S!Spec
=============================================================================
