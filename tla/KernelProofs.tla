---------------------------- MODULE KernelProofs ----------------------------
(***************************************************************************)
(* Lemmas about the operators the models are built from: the format of     *)
(* numbers is closed under the operations on it, a gather computes a value *)
(* of it, and one instruction takes a context to a context.  Then the same *)
(* about the JIT compiler: where lower puts each instruction, what a       *)
(* lowered instruction does to a context, and that the gathers of the      *)
(* machine code compute what the interpreter's do.                         *)
(***************************************************************************)
EXTENDS JIT, FiniteSetTheorems, WellFoundedInduction, TLAPS

-----------------------------------------------------------------------------
(* Every operation of the machine on doubles yields a double. *)
LEMMA RoundType ==
  ASSUME NEW n \in Int
  PROVE  Round(n) \in Double
BY DoublesAssumption DEF Round, Double, Inf

LEMMA PlusType ==
  ASSUME NEW a \in Double, NEW b \in Double
  PROVE  Plus(a, b) \in Double
<1>1. CASE a = NaN \/ b = NaN
  BY <1>1 DEF Plus, Double
<1>2. CASE a # NaN /\ b # NaN
  <2>1. a \in Int /\ b \in Int
    BY <1>2 DEF Double
  <2>2. Round(a + b) \in Double
    BY <2>1, RoundType
  <2> QED
    BY <1>2, <2>2 DEF Plus, Double
<1> QED
  BY <1>1, <1>2

LEMMA NegateType ==
  ASSUME NEW a \in Double
  PROVE  Negate(a) \in Double
BY DoublesAssumption DEF Negate, Double, Inf

LEMMA MinusType ==
  ASSUME NEW a \in Double, NEW b \in Double
  PROVE  Minus(a, b) \in Double
BY PlusType, NegateType DEF Minus

LEMMA TimesType ==
  ASSUME NEW a \in Double, NEW b \in Double
  PROVE  Times(a, b) \in Double
<1>1. CASE a = NaN \/ b = NaN
  BY <1>1 DEF Times, Double
<1>2. CASE a # NaN /\ b # NaN
  <2>1. a * b \in Int
    BY <1>2 DEF Double
  <2>2. Round(a * b) \in Double
    BY <2>1, RoundType
  <2> QED
    BY <1>2, <2>2 DEF Times, Double
<1> QED
  BY <1>1, <1>2

(* A quotient is no larger than its dividend. *)
LEMMA QuotientBound ==
  ASSUME NEW m \in Nat, NEW n \in Nat \ {0}
  PROVE  m \div n \in 0 .. m
OBVIOUS

LEMMA DivideType ==
  ASSUME NEW a \in Double, NEW b \in Double
  PROVE  Divide(a, b) \in Double
<1>1. CASE a = NaN \/ b = NaN \/ (a = 0 /\ b = 0) \/ (IsInf(a) /\ IsInf(b))
  BY <1>1 DEF Divide, Double
<1>2. CASE ~(a = NaN \/ b = NaN \/ (a = 0 /\ b = 0) \/ (IsInf(a) /\ IsInf(b)))
  <2> DEFINE size == CASE IsInf(a) \/ b = 0 -> Inf
                       [] IsInf(b)          -> 0
                       [] OTHER             -> Magnitude(a) \div Magnitude(b)
  <2>1. a \in -Inf .. Inf /\ b \in -Inf .. Inf /\ Inf \in Nat
    BY <1>2, DoublesAssumption DEF Double, Inf
  <2>2. Magnitude(a) \in 0 .. Inf /\ Magnitude(b) \in 0 .. Inf
    BY <2>1 DEF Magnitude
  <2>3. size \in 0 .. Inf
    <3>1. CASE IsInf(a) \/ b = 0
      BY <3>1, <2>1
    <3>2. CASE ~(IsInf(a) \/ b = 0) /\ IsInf(b)
      BY <3>2, <2>1
    <3>3. CASE ~(IsInf(a) \/ b = 0) /\ ~IsInf(b)
      <4>1. Magnitude(b) # 0
        BY <3>3, <2>1 DEF Magnitude
      <4>2. Magnitude(a) \div Magnitude(b) \in 0 .. Magnitude(a)
        BY <4>1, <2>1, <2>2, QuotientBound
      <4> QED
        BY <3>3, <4>2, <2>1, <2>2
    <3> QED
      BY <3>1, <3>2, <3>3
  <2>4. size \in Double /\ -size \in Double
    BY <2>1, <2>3 DEF Double
  <2>5. Divide(a, b) = IF (a < 0) # (b < 0) THEN -size ELSE size
    BY <1>2 DEF Divide
  <2> HIDE DEF size
  <2> QED
    BY <2>4, <2>5
<1> QED
  BY <1>1, <1>2

LEMMA SmallType == 0 \in Double /\ 1 \in Double
BY DoublesAssumption DEF Double, Inf

LEMMA OfBoolType == \A p : OfBool(p) \in Double
BY SmallType DEF OfBool

LEMMA OfNatType ==
  ASSUME NEW n \in Int
  PROVE  OfNat(n) \in Double
BY RoundType DEF OfNat

LEMMA AluType ==
  ASSUME NEW op, NEW a \in Double, NEW b \in Double
  PROVE  Alu(op, a, b) \in Double
<1>1. /\ Plus(a, b) \in Double /\ Minus(a, b) \in Double
      /\ Times(a, b) \in Double /\ Divide(a, b) \in Double /\ Negate(a) \in Double
  BY PlusType, MinusType, TimesType, DivideType, NegateType
<1>2. \A p : OfBool(p) \in Double
  BY OfBoolType
<1> QED
  BY <1>1, <1>2, Zenon DEF Alu

-----------------------------------------------------------------------------
(* Any non-empty set of naturals has a least element; every induction over  *)
(* the edges of a row below is an argument about a least counterexample.    *)
LEMMA LeastNatural ==
  ASSUME NEW T \in SUBSET Nat, T # {}
  PROVE  \E n \in T : \A m \in T : n <= m
<1> DEFINE R == {ss \in Nat \X Nat : ss[1] < ss[2]}
<1>1. IsWellFoundedOn(R, Nat)
  BY NatLessThanWellFounded DEF OpToRel
<1>2. \A m \in T, n \in T : m < n => <<m, n>> \in R
  OBVIOUS
<1> HIDE DEF R
<1>3. PICK n \in T : \A m \in T : ~(<<m, n>> \in R)
  BY <1>1, WFMin
<1>4. \A m \in T : n \in Nat /\ m \in Nat /\ ~(m < n)
  BY <1>2, <1>3
<1> QED
  BY <1>4

(* The counter of votes: wrapping at every addition or at the end is the same. *)
LEMMA Division ==
  ASSUME NEW n \in Nat, NEW m \in Nat \ {0}
  PROVE  n \div m \in Int /\ n % m \in 0 .. m - 1 /\ n = m * (n \div m) + (n % m)
OBVIOUS

LEMMA UniqueRemainder ==
  ASSUME NEW m \in Nat \ {0}, NEW k \in Int, NEW r \in 0 .. m - 1, NEW s \in 0 .. m - 1,
         m * k = r - s
  PROVE  r = s
<1>1. k >= 1 => m * k >= m
  OBVIOUS
<1>2. k <= -1 => m * k <= -m
  OBVIOUS
<1>3. k = 0 => m * k = 0
  OBVIOUS
<1> DEFINE mk == m * k
<1>4. -m < mk /\ mk < m /\ mk \in Int
  OBVIOUS
<1> HIDE DEF mk
<1>5. k = 0
  BY <1>1, <1>2, <1>4 DEF mk
<1> QED
  BY <1>3, <1>5

LEMMA WrappedSum ==
  ASSUME NEW a \in Nat, NEW d \in Nat, NEW m \in Nat \ {0}
  PROVE  ((a % m) + d) % m = (a + d) % m
<1> DEFINE q == a \div m
           r == a % m
           t == (r + d) \div m
           s == (r + d) % m
           u == (a + d) \div m
           w == (a + d) % m
<1>1. q \in Int /\ r \in 0 .. m - 1 /\ a = m * q + r
  OBVIOUS
<1>2. t \in Int /\ s \in 0 .. m - 1 /\ r + d = m * t + s
  <2> HIDE DEF r
  <2>1. r + d \in Nat
    BY <1>1
  <2> QED
    BY <2>1, Division
<1>3. u \in Int /\ w \in 0 .. m - 1 /\ a + d = m * u + w
  <2>1. a + d \in Nat
    OBVIOUS
  <2> QED
    BY <2>1
<1> HIDE DEF q, r, s, t, u, w
<1>4. m * ((u - q) - t) = m * u - m * q - m * t /\ (u - q) - t \in Int
  BY <1>1, <1>2, <1>3
<1>5. m * ((u - q) - t) = s - w
  <2> DEFINE mu == m * u
             mq == m * q
             mt == m * t
  <2>1. mu \in Int /\ mq \in Int /\ mt \in Int
    BY <1>1, <1>2, <1>3
  <2>2. a = mq + r /\ r + d = mt + s /\ a + d = mu + w
    BY <1>1, <1>2, <1>3
  <2> HIDE DEF mu, mq, mt
  <2>3. mu - mq - mt = s - w
    BY <1>1, <1>2, <1>3, <2>1, <2>2
  <2> QED
    BY <1>4, <2>3 DEF mu, mq, mt
<1>6. s = w
  BY <1>2, <1>3, <1>4, <1>5, UniqueRemainder
<1> QED
  BY <1>6 DEF r, s, w

LEMMA AccumulateType ==
  ASSUME NEW op, NEW acc \in Double, NEW x \in Double
  PROVE  Accumulate(op, acc, x) \in Double
<1>1. Plus(acc, x) \in Double /\ Plus(acc, 1) \in Double
  BY PlusType, SmallType
<1> QED
  BY <1>1, Zenon DEF Accumulate

(* The row of a vertex lies inside the vectors of edges. *)
LEMMA RowBounds ==
  ASSUME NEW g, IsGraph(g), NEW v \in Vertices(g)
  PROVE  /\ g.incoming_row_offsets[v] \in Nat /\ g.incoming_row_offsets[v + 1] \in Nat
         /\ g.row_offsets[v] \in Nat /\ g.row_offsets[v + 1] \in Nat
         /\ InEdges(g, v) \subseteq 0 .. g.num_edges - 1
         /\ OutEdges(g, v) \subseteq 0 .. g.num_edges - 1
         /\ \A e \in InEdges(g, v) : g.incoming_col_indices[e] \in Vertices(g)
         /\ OutNeighbors(g, v) \subseteq Vertices(g)
<1>1. g.num_vertices \in Nat /\ g.num_edges \in Nat /\ v \in 0 .. g.num_vertices
      /\ v + 1 \in 0 .. g.num_vertices
  BY DEF IsGraph, Vertices
<1>2. /\ g.incoming_row_offsets[v] \in 0 .. g.num_edges
      /\ g.incoming_row_offsets[v + 1] \in 0 .. g.num_edges
      /\ g.row_offsets[v] \in 0 .. g.num_edges
      /\ g.row_offsets[v + 1] \in 0 .. g.num_edges
  BY <1>1 DEF IsGraph, IsCSR
<1>3. /\ InEdges(g, v) \subseteq 0 .. g.num_edges - 1
      /\ OutEdges(g, v) \subseteq 0 .. g.num_edges - 1
  BY <1>1, <1>2 DEF InEdges, OutEdges
<1>4. /\ \A e \in InEdges(g, v) : g.incoming_col_indices[e] \in Vertices(g)
      /\ \A e \in OutEdges(g, v) : g.col_indices[e] \in Vertices(g)
  BY <1>3 DEF IsGraph, IsCSR, Vertices
<1> QED
  BY <1>2, <1>3, <1>4 DEF OutNeighbors

(* The loop of a gather, as a function of the edge, for any way of combining  *)
(* two doubles: it is defined on the whole row, and whatever satisfies its    *)
(* equations there has doubles for values.                                    *)
IsLoop(f, step, first, end, start, value) ==
  \A e \in first .. end - 1 :
    /\ e = first => f[e] = start
    /\ e # first /\ f[e - 1] \in Double => f[e] = step[<<f[e - 1], value[e]>>]

LEMMA LoopExists ==
  ASSUME NEW step \in [Double \X Double -> Double], NEW first \in Nat, NEW end \in Nat, first < end,
         NEW start \in Double, NEW value \in [first .. end - 1 -> Double]
  PROVE  \E f \in [first .. end - 1 -> Double] : IsLoop(f, step, first, end, start, value)
<1> DEFINE Row     == first .. end - 1
           Computes(f, m) ==
             /\ f \in [first .. m -> Double]
             /\ \A e \in first .. m :
                  f[e] = IF e = first THEN start ELSE step[<<f[e - 1], value[e]>>]
           Failing == {m \in Row : ~ \E f : Computes(f, m)}
<1>1. Failing = {}
  <2> SUFFICES ASSUME Failing # {} PROVE FALSE
    OBVIOUS
  <2>1. Failing \in SUBSET Nat
    OBVIOUS
  <2>2. PICK m \in Failing : \A n \in Failing : m <= n
    <3> HIDE DEF Failing
    <3> QED
      BY <2>1, LeastNatural
  <2>3. m \in Row /\ m \in Nat /\ ~ \E f : Computes(f, m)
    <3> HIDE DEF Computes
    <3> QED
      BY <2>2
  <2>4. CASE m = first
    <3>1. Computes([e \in first .. m |-> start], m)
      BY <2>4
    <3> HIDE DEF Computes
    <3> QED
      BY <3>1, <2>3
  <2>5. CASE m # first
    <3>1. m - 1 \in Row /\ m - 1 < m
      BY <2>3, <2>5
    <3>2. m - 1 \notin Failing
      <4> HIDE DEF Failing
      <4> QED
        BY <2>2, <2>3, <3>1
    <3>3. PICK f : Computes(f, m - 1)
      <4> HIDE DEF Computes
      <4> QED
        BY <3>1, <3>2
    <3>4. /\ f \in [first .. m - 1 -> Double]
          /\ \A e \in first .. m - 1 :
               f[e] = IF e = first THEN start ELSE step[<<f[e - 1], value[e]>>]
      BY <3>3
    <3> DEFINE last == step[<<f[m - 1], value[m]>>]
               h    == [e \in first .. m |-> IF e = m THEN last ELSE f[e]]
    <3>5. last \in Double
      <4>1. m - 1 \in first .. m - 1
        BY <2>3, <3>1
      <4>2. f[m - 1] \in Double /\ value[m] \in Double
        BY <2>3, <3>4, <4>1
      <4> QED
        BY <4>2
    <3>6. h[m] = last /\ h[m - 1] = f[m - 1]
      <4> HIDE DEF last
      <4> QED
        BY <2>3, <3>1
    <3>7. ASSUME NEW e \in first .. m
          PROVE  h[e] = IF e = first THEN start ELSE step[<<h[e - 1], value[e]>>]
      <4>1. CASE e = m
        <5>1. h[e] = step[<<h[e - 1], value[e]>>]
          <6> HIDE DEF h
          <6> QED
            BY <4>1, <3>6
        <5> QED
          BY <5>1, <4>1, <2>5
      <4>2. CASE e # m
        <5>1. e \in first .. m - 1
          BY <4>2, <2>3
        <5>2. h[e] = f[e]
          BY <4>2
        <5>3. f[e] = IF e = first THEN start ELSE step[<<f[e - 1], value[e]>>]
          BY <3>4, <5>1
        <5>4. e # first => h[e - 1] = f[e - 1]
          <6> HIDE DEF last
          <6> QED
            BY <5>1, <2>3
        <5> HIDE DEF h
        <5> QED
          BY <5>2, <5>3, <5>4
      <4> QED
        BY <4>1, <4>2
    <3>8. h \in [first .. m -> Double]
      <4> HIDE DEF last
      <4> QED
        BY <3>4, <3>5, <2>3
    <3>9. Computes(h, m)
      <4> HIDE DEF h
      <4> QED
        BY <3>7, <3>8
    <3> HIDE DEF Computes, h
    <3> QED
      BY <3>9, <2>3
  <2> QED
    BY <2>4, <2>5
<1>2. end - 1 \in Row
  OBVIOUS
<1>3. PICK f : Computes(f, end - 1)
  <2> HIDE DEF Computes
  <2> QED
    BY <1>1, <1>2
<1>4. \A e \in Row : f[e] = IF e = first THEN start ELSE step[<<f[e - 1], value[e]>>]
  BY <1>3
<1> QED
  BY <1>3, <1>4 DEF IsLoop

LEMMA LoopType ==
  ASSUME NEW step \in [Double \X Double -> Double], NEW first \in Nat, NEW end \in Nat,
         NEW start \in Double, NEW value \in [first .. end - 1 -> Double],
         NEW f, IsLoop(f, step, first, end, start, value)
  PROVE  \A e \in first .. end - 1 : f[e] \in Double
<1> DEFINE Wrong == {e \in first .. end - 1 : f[e] \notin Double}
<1> SUFFICES ASSUME Wrong # {} PROVE FALSE
  OBVIOUS
<1>1. Wrong \in SUBSET Nat
  OBVIOUS
<1>2. PICK m \in Wrong : \A n \in Wrong : m <= n
  <2> HIDE DEF Wrong
  <2> QED
    BY <1>1, LeastNatural
<1>3. m \in first .. end - 1 /\ f[m] \notin Double
  OBVIOUS
<1>4. m # first
  BY <1>3 DEF IsLoop
<1>5. m - 1 \in first .. end - 1 /\ m - 1 < m
  BY <1>3, <1>4
<1>6. f[m - 1] \in Double
  <2>1. m - 1 \notin Wrong
    <3> HIDE DEF Wrong
    <3> QED
      BY <1>2, <1>3, <1>5
  <2> QED
    BY <2>1, <1>5
<1>7. f[m] = step[<<f[m - 1], value[m]>>]
  BY <1>3, <1>4, <1>6 DEF IsLoop
<1>8. value[m] \in Double
  BY <1>3
<1> QED
  BY <1>3, <1>6, <1>7, <1>8

(* What a gather combines, and the loop whose last value it yields. *)
RowValues(g, vs, v) == [e \in InEdges(g, v) |-> vs[g.incoming_col_indices[e]]]
GatherStart(op, x)  == IF op \in {"GATHER_MIN", "GATHER_MAX"} THEN x ELSE Accumulate(op, 0, x)
GatherStep(op)      == [ax \in Double \X Double |-> Accumulate(op, ax[1], ax[2])]

IsGather(f, op, g, vs, v) ==
  LET first == g.incoming_row_offsets[v]
      end   == g.incoming_row_offsets[v + 1]
      value == RowValues(g, vs, v)
  IN  IsLoop(f, GatherStep(op), first, end, GatherStart(op, value[first]), value)

LEMMA RowValuesType ==
  ASSUME NEW g, IsGraph(g), NEW v \in Vertices(g), NEW vs \in [Vertices(g) -> Double]
  PROVE  RowValues(g, vs, v) \in [InEdges(g, v) -> Double]
BY RowBounds DEF RowValues

LEMMA GatherStepType ==
  ASSUME NEW op
  PROVE  /\ GatherStep(op) \in [Double \X Double -> Double]
         /\ \A a \in Double, x \in Double : GatherStep(op)[<<a, x>>] = Accumulate(op, a, x)
         /\ \A x \in Double : GatherStart(op, x) \in Double
<1>1. \A a \in Double, x \in Double : Accumulate(op, a, x) \in Double
  BY AccumulateType
<1>2. \A x \in Double : GatherStart(op, x) \in Double
  BY <1>1, SmallType DEF GatherStart
<1> QED
  BY <1>1, <1>2 DEF GatherStep

LEMMA GatherLoop ==
  ASSUME NEW op, NEW g, IsGraph(g), NEW v \in Vertices(g), NEW vs \in [Vertices(g) -> Double],
         g.incoming_row_offsets[v] < g.incoming_row_offsets[v + 1]
  PROVE  \E f \in [InEdges(g, v) -> Double] :
           /\ IsGather(f, op, g, vs, v)
           /\ Gather(op, g, vs, v) = f[g.incoming_row_offsets[v + 1] - 1]
<1> DEFINE first    == g.incoming_row_offsets[v]
           end      == g.incoming_row_offsets[v + 1]
           Row      == first .. end - 1
           value(e) == vs[g.incoming_col_indices[e]]
           start    == IF op \in {"GATHER_MIN", "GATHER_MAX"} THEN value(first)
                       ELSE Accumulate(op, 0, value(first))
           loop(f)  == [e \in Row |-> IF e = first THEN start
                                      ELSE Accumulate(op, f[e - 1], value(e))]
           acc      == CHOOSE f : f = loop(f)
           values   == RowValues(g, vs, v)
           step     == GatherStep(op)
<1>1. first \in Nat /\ end \in Nat /\ first < end
  BY RowBounds
<1>2. values \in [Row -> Double] /\ \A e \in Row : values[e] = value(e)
  BY RowValuesType DEF RowValues, InEdges
<1>3. step \in [Double \X Double -> Double]
      /\ \A a \in Double, x \in Double : step[<<a, x>>] = Accumulate(op, a, x)
  BY GatherStepType
<1>4. values[first] = value(first) /\ values[first] \in Double
  BY <1>1, <1>2
<1>5. start \in Double /\ start = GatherStart(op, values[first])
  BY <1>4, GatherStepType DEF GatherStart
<1>6. Gather(op, g, vs, v) = IF first >= end THEN 0 ELSE acc[end - 1]
  BY DEF Gather
<1>7. InEdges(g, v) = Row
  BY DEF InEdges
<1>8. IsGather(acc, op, g, vs, v) <=> IsLoop(acc, step, first, end, start, values)
  BY <1>5 DEF IsGather
<1> HIDE DEF first, end, value, start, values, step
<1>9. PICK f \in [Row -> Double] : IsLoop(f, step, first, end, start, values)
  BY <1>1, <1>2, <1>3, <1>5, LoopExists
<1>10. f = loop(f)
  <2>1. ASSUME NEW e \in Row
        PROVE  f[e] = IF e = first THEN start ELSE Accumulate(op, f[e - 1], value(e))
    <3>1. CASE e = first
      BY <1>9, <3>1 DEF IsLoop
    <3>2. CASE e # first
      <4>1. e - 1 \in Row
        BY <1>1, <3>2
      <4>2. f[e - 1] \in Double /\ values[e] \in Double
        BY <1>2, <1>9, <4>1
      <4>3. f[e] = step[<<f[e - 1], values[e]>>]
        BY <1>9, <3>2, <4>2 DEF IsLoop
      <4> QED
        BY <1>2, <1>3, <3>2, <4>2, <4>3
    <3> QED
      BY <3>1, <3>2
  <2> HIDE DEF Row
  <2> QED
    BY <1>9, <2>1
<1>11. acc = loop(acc)
  <2> HIDE DEF loop
  <2> QED
    BY <1>10
<1> HIDE DEF acc
<1>12. IsLoop(acc, step, first, end, start, values)
  <2> SUFFICES ASSUME NEW e \in Row
               PROVE  /\ e = first => acc[e] = start
                      /\ e # first /\ acc[e - 1] \in Double
                           => acc[e] = step[<<acc[e - 1], values[e]>>]
    BY DEF IsLoop
  <2>1. acc[e] = IF e = first THEN start ELSE Accumulate(op, acc[e - 1], value(e))
    <3> HIDE DEF Row
    <3> QED
      BY <1>11
  <2>2. values[e] = value(e) /\ values[e] \in Double
    BY <1>2
  <2> QED
    BY <1>3, <2>1, <2>2
<1>13. \A e \in Row : acc[e] \in Double
  BY <1>1, <1>2, <1>3, <1>5, <1>12, LoopType
<1>14. acc \in [Row -> Double]
  <2> HIDE DEF Row
  <2> QED
    BY <1>11, <1>13
<1>15. Gather(op, g, vs, v) = acc[end - 1]
  BY <1>1, <1>6
<1> QED
  BY <1>7, <1>8, <1>12, <1>14, <1>15 DEF end

(* A gather over the in-neighbours of a vertex yields a double. *)
LEMMA GatherType ==
  ASSUME NEW op, NEW g, IsGraph(g), NEW v \in Vertices(g),
         NEW vs \in [Vertices(g) -> Double]
  PROVE  Gather(op, g, vs, v) \in Double
<1> DEFINE first == g.incoming_row_offsets[v]
           end   == g.incoming_row_offsets[v + 1]
<1>1. first \in Nat /\ end \in Nat
  BY RowBounds
<1>2. CASE first >= end
  <2>1. Gather(op, g, vs, v) = 0
    BY <1>2 DEF Gather
  <2> QED
    BY <2>1, SmallType
<1>3. CASE first < end
  <2>1. end - 1 \in InEdges(g, v)
    BY <1>1, <1>3 DEF InEdges
  <2>2. PICK f \in [InEdges(g, v) -> Double] : Gather(op, g, vs, v) = f[end - 1]
    BY <1>3, GatherLoop
  <2> QED
    BY <2>1, <2>2
<1> QED
  BY <1>1, <1>2, <1>3

-----------------------------------------------------------------------------
(* What the iterator of a context points at: while it is inside its row, an   *)
(* incoming edge of v, with the value and the attribute read from that edge.  *)
IteratorAt(c, g, vs, v) ==
  c.iter_edge < c.iter_end =>
    /\ c.iter_edge \in InEdges(g, v)
    /\ c.iter_end = g.incoming_row_offsets[v + 1]
    /\ c.n_val = vs[g.incoming_col_indices[c.iter_edge]]
    /\ DOMAIN g.incoming_edge_attr # {} => c.e_attr = g.incoming_edge_attr[c.iter_edge]

(* d is a context with the value of v and the iterator of c: all that an      *)
(* instruction other than those of iteration leaves alone.                    *)
KeepsIterator(c, d) ==
  /\ d \in Context /\ d.v_self = c.v_self
  /\ d.iter_edge = c.iter_edge /\ d.iter_end = c.iter_end
  /\ d.n_val = c.n_val /\ d.e_attr = c.e_attr

LEMMA DegreeType ==
  ASSUME NEW g, IsGraph(g), NEW v \in Vertices(g)
  PROVE  OfNat(in_degree(g, v)) \in Double /\ OfNat(out_degree(g, v)) \in Double
<1>1. in_degree(g, v) \in Int /\ out_degree(g, v) \in Int
  BY RowBounds DEF in_degree, out_degree
<1> QED
  BY <1>1, OfNatType

LEMMA LoadType ==
  ASSUME NEW g, IsGraph(g), NEW v \in Vertices(g),
         NEW vs \in [Vertices(g) -> Double], NEW vo \in [Vertices(g) -> Double]
  PROVE  /\ load_context(g, vs, vo, v) \in Context
         /\ load_context(g, vs, vo, v).v_self = vs[v]
         /\ IteratorAt(load_context(g, vs, vo, v), g, vs, v)
<1>1. g.num_vertices \in Int
  BY DEF IsGraph
<1>2. OfNat(g.num_vertices) \in Double
  BY <1>1, OfNatType
<1>3. vs[v] \in Double /\ vo[v] \in Double
  OBVIOUS
<1>4. [r \in Reg |-> 0] \in [Reg -> Double]
  BY SmallType
<1>5. load_context(g, vs, vo, v) \in Context
  BY <1>2, <1>3, <1>4, SmallType, DegreeType DEF load_context, Context
<1> QED
  BY <1>5 DEF load_context, IteratorAt

LEMMA RegisterType ==
  ASSUME NEW c \in Context, NEW r \in Reg, NEW x \in Double
  PROVE  KeepsIterator(c, [c EXCEPT !.regs[r] = x])
BY DEF KeepsIterator, Context

LEMMA InstructionType ==
  ASSUME NEW p, IsProgram(p), NEW i \in Int, Running(p, i)
  PROVE  /\ Fetch(p, i) \in Instruction
         /\ Fetch(p, i).op = "LOADI" => p.constants[Fetch(p, i).imm + 1] \in Double
<1>1. i + 1 \in 1 .. Len(p.code)
  BY DEF IsProgram, Running
<1>2. p.code[i + 1] \in Instruction
  BY <1>1 DEF IsProgram
<1>3. ASSUME p.code[i + 1].op = "LOADI"
      PROVE  p.constants[p.code[i + 1].imm + 1] \in Double
  <2>1. p.code[i + 1].imm \in 0 .. Len(p.constants) - 1
    BY <1>1, <1>3 DEF IsProgram
  <2> QED
    BY <2>1 DEF IsProgram
<1> QED
  BY <1>2, <1>3 DEF Fetch

LEMMA ControlType ==
  ASSUME NEW inst \in Instruction, NEW c, NEW i \in Int
  PROVE  exec_control(inst, c, i) \in Int
<1>1. inst.imm \in Int
  BY DEF Instruction
<1> QED
  BY <1>1 DEF exec_control

LEMMA ExecAluType ==
  ASSUME NEW inst \in Instruction, NEW c \in Context, NEW p,
         inst.op = "LOADI" => p.constants[inst.imm + 1] \in Double
  PROVE  KeepsIterator(c, exec_alu(inst, c, p))
<1>1. inst.rd \in Reg /\ inst.rs1 \in Reg /\ inst.rs2 \in Reg
  BY DEF Instruction
<1>2. c.regs[inst.rs1] \in Double /\ c.regs[inst.rs2] \in Double
  BY <1>1 DEF Context
<1> DEFINE x == IF inst.op = "LOADI" THEN p.constants[inst.imm + 1]
                ELSE Alu(inst.op, c.regs[inst.rs1], c.regs[inst.rs2])
<1>3. x \in Double
  BY <1>2, AluType
<1>4. exec_alu(inst, c, p) = [c EXCEPT !.regs[inst.rd] = x]
  BY DEF exec_alu
<1> HIDE DEF x
<1> QED
  BY <1>1, <1>3, <1>4, RegisterType

LEMMA ExecMemoryType ==
  ASSUME NEW inst \in Instruction, NEW c \in Context, NEW g, IsGraph(g),
         NEW v \in Vertices(g)
  PROVE  KeepsIterator(c, exec_memory(inst, c, g, v))
<1>1. inst.rd \in Reg /\ inst.rs1 \in Reg
  BY DEF Instruction
<1>2. /\ c.v_self \in Double /\ c.n_val \in Double /\ c.e_attr \in Double
      /\ c.g_size \in Double /\ c.regs[inst.rs1] \in Double
      /\ OfNat(in_degree(g, v)) \in Double /\ OfNat(out_degree(g, v)) \in Double
  BY <1>1, DegreeType DEF Context
<1>3. \A x \in Double : KeepsIterator(c, [c EXCEPT !.regs[inst.rd] = x])
  BY <1>1, RegisterType
<1>4. KeepsIterator(c, [c EXCEPT !.v_out = c.regs[inst.rs1]])
  BY <1>2 DEF KeepsIterator, Context
<1>5. KeepsIterator(c, c)
  BY DEF KeepsIterator
<1> QED
  BY <1>2, <1>3, <1>4, <1>5, Zenon DEF exec_memory

(* The iterator is moved only to an edge of the row of v. *)
LEMMA VisitType ==
  ASSUME NEW c \in Context, NEW g, IsGraph(g), NEW v \in Vertices(g),
         NEW vs \in [Vertices(g) -> Double], NEW e \in InEdges(g, v),
         c.iter_end = g.incoming_row_offsets[v + 1]
  PROVE  LET d == VisitEdge(c, g, vs, e)
         IN  d \in Context /\ d.v_self = c.v_self /\ IteratorAt(d, g, vs, v)
<1>1. e \in Nat /\ e \in 0 .. g.num_edges - 1 /\ g.incoming_col_indices[e] \in Vertices(g)
  BY RowBounds DEF InEdges
<1>2. vs[g.incoming_col_indices[e]] \in Double
  BY <1>1
<1> DEFINE attr == IF DOMAIN g.incoming_edge_attr = {} THEN c.e_attr
                   ELSE g.incoming_edge_attr[e]
<1>3. attr \in Double
  <2>1. CASE DOMAIN g.incoming_edge_attr = {}
    BY <2>1 DEF Context
  <2>2. CASE DOMAIN g.incoming_edge_attr # {}
    <3>1. g.incoming_edge_attr \in [0 .. g.num_edges - 1 -> Double]
      BY <2>2 DEF IsGraph, IsCSR, EmptyVector
    <3> QED
      BY <2>2, <3>1, <1>1
  <2> QED
    BY <2>1, <2>2
<1> DEFINE d == [c EXCEPT !.iter_edge = e, !.n_val = vs[g.incoming_col_indices[e]],
                          !.e_attr = attr]
<1>4. VisitEdge(c, g, vs, e) = d
  BY DEF VisitEdge
<1> HIDE DEF attr
<1>5. d \in Context /\ d.v_self = c.v_self /\ d.iter_edge = e /\ d.iter_end = c.iter_end
      /\ d.n_val = vs[g.incoming_col_indices[e]] /\ d.e_attr = attr
  BY <1>1, <1>2, <1>3 DEF Context
<1> HIDE DEF d
<1>6. IteratorAt(d, g, vs, v)
  BY <1>5 DEF IteratorAt, attr
<1> QED
  BY <1>4, <1>5, <1>6

LEMMA IterNeighborsType ==
  ASSUME NEW inst \in Instruction, NEW c \in Context, NEW g, IsGraph(g),
         NEW v \in Vertices(g), NEW vs \in [Vertices(g) -> Double], NEW i \in Int
  PROVE  LET d == exec_iter_neighbors(inst, c, g, vs, v, i)
         IN  d.ctx \in Context /\ d.pc \in Int
             /\ d.ctx.v_self = c.v_self /\ IteratorAt(d.ctx, g, vs, v)
<1> DEFINE first == g.incoming_row_offsets[v]
           end   == g.incoming_row_offsets[v + 1]
           begun == [c EXCEPT !.iter_edge = first, !.iter_end = end]
<1>1. first \in Nat /\ end \in Nat /\ inst.imm \in Int
  BY RowBounds DEF Instruction
<1>2. begun \in Context /\ begun.v_self = c.v_self
      /\ begun.iter_edge = first /\ begun.iter_end = end
  BY <1>1 DEF Context
<1>3. exec_iter_neighbors(inst, c, g, vs, v, i) =
        IF first >= begun.iter_end THEN [ctx |-> begun, pc |-> i + inst.imm]
        ELSE [ctx |-> VisitEdge(begun, g, vs, first), pc |-> i]
  BY DEF exec_iter_neighbors
<1> HIDE DEF begun
<1>4. CASE first >= end
  BY <1>1, <1>2, <1>3, <1>4 DEF IteratorAt
<1>5. CASE first < end
  <2>1. first \in InEdges(g, v)
    BY <1>1, <1>5 DEF InEdges
  <2>2. LET d == VisitEdge(begun, g, vs, first)
        IN  d \in Context /\ d.v_self = begun.v_self /\ IteratorAt(d, g, vs, v)
    BY <1>2, <2>1, VisitType
  <2>3. exec_iter_neighbors(inst, c, g, vs, v, i)
          = [ctx |-> VisitEdge(begun, g, vs, first), pc |-> i]
    BY <1>1, <1>2, <1>3, <1>5
  <2> QED
    BY <1>2, <2>2, <2>3
<1> QED
  BY <1>1, <1>4, <1>5

LEMMA EndIterType ==
  ASSUME NEW inst \in Instruction, NEW c \in Context, NEW g, IsGraph(g),
         NEW v \in Vertices(g), NEW vs \in [Vertices(g) -> Double], NEW i \in Int,
         IteratorAt(c, g, vs, v)
  PROVE  LET d == exec_end_iter(inst, c, g, vs, i)
         IN  d.ctx \in Context /\ d.pc \in Int
             /\ d.ctx.v_self = c.v_self /\ IteratorAt(d.ctx, g, vs, v)
<1> DEFINE next == c.iter_edge + 1
<1>1. next \in Nat /\ c.iter_edge \in Nat /\ c.iter_end \in Nat /\ inst.imm \in Int
  BY DEF Context, Instruction
<1>2. CASE next < c.iter_end
  <2>1. c.iter_edge \in InEdges(g, v) /\ c.iter_end = g.incoming_row_offsets[v + 1]
    BY <1>1, <1>2 DEF IteratorAt
  <2>2. next \in InEdges(g, v)
    BY <1>1, <1>2, <2>1, RowBounds DEF InEdges
  <2>3. LET d == VisitEdge(c, g, vs, next)
        IN  d \in Context /\ d.v_self = c.v_self /\ IteratorAt(d, g, vs, v)
    BY <2>1, <2>2, VisitType
  <2>4. exec_end_iter(inst, c, g, vs, i)
          = [ctx |-> VisitEdge(c, g, vs, next), pc |-> i + inst.imm]
    BY <1>2 DEF exec_end_iter
  <2> QED
    BY <1>1, <2>3, <2>4
<1>3. CASE ~(next < c.iter_end)
  <2> DEFINE d == [c EXCEPT !.iter_edge = next]
  <2>1. exec_end_iter(inst, c, g, vs, i) = [ctx |-> d, pc |-> i]
    BY <1>3 DEF exec_end_iter
  <2>2. d \in Context /\ d.v_self = c.v_self /\ d.iter_edge = next /\ d.iter_end = c.iter_end
    BY <1>1 DEF Context
  <2> HIDE DEF d
  <2>3. IteratorAt(d, g, vs, v)
    BY <1>3, <2>2 DEF IteratorAt
  <2> QED
    BY <2>1, <2>2, <2>3
<1> QED
  BY <1>2, <1>3

LEMMA KeepsIteratorAt ==
  ASSUME NEW g, NEW vs, NEW v, NEW c, NEW d, KeepsIterator(c, d), IteratorAt(c, g, vs, v)
  PROVE  d \in Context /\ d.v_self = c.v_self /\ IteratorAt(d, g, vs, v)
BY DEF KeepsIterator, IteratorAt

(* One instruction takes a context to a context, leaves the value of the      *)
(* vertex as it was loaded, and keeps the iterator and its copies together.   *)
THEOREM ExecuteType ==
  ASSUME NEW g, IsGraph(g), NEW v \in Vertices(g), NEW vs \in [Vertices(g) -> Double],
         NEW p, IsProgram(p), NEW c \in Context, NEW i \in Int, Running(p, i),
         IteratorAt(c, g, vs, v)
  PROVE  LET d == Execute(c, i, g, p, vs, v)
         IN  d.ctx \in Context /\ d.pc \in Int
             /\ d.ctx.v_self = c.v_self /\ IteratorAt(d.ctx, g, vs, v)
<1> DEFINE inst == Fetch(p, i)
           Good(d) == /\ d.ctx \in Context /\ d.pc \in Int
                      /\ d.ctx.v_self = c.v_self /\ IteratorAt(d.ctx, g, vs, v)
           done == CASE inst.op \in ControlOps ->
                          [ctx |-> c, pc |-> exec_control(inst, c, i)]
                     [] inst.op \in AluOps    -> [ctx |-> exec_alu(inst, c, p), pc |-> i]
                     [] inst.op \in MemoryOps -> [ctx |-> exec_memory(inst, c, g, v), pc |-> i]
                     [] inst.op \in GraphOps  -> exec_graph(inst, c, g, vs, v, i)
                     [] OTHER -> [ctx |-> c, pc |-> i]
<1>1. inst \in Instruction
      /\ (inst.op = "LOADI" => p.constants[inst.imm + 1] \in Double)
  BY InstructionType
<1> HIDE DEF inst
<1>2. inst.rd \in Reg
  BY <1>1 DEF Instruction
<1>3. Good([ctx |-> c, pc |-> exec_control(inst, c, i)])
  BY <1>1, ControlType
<1>4. Good([ctx |-> exec_alu(inst, c, p), pc |-> i])
  BY <1>1, ExecAluType, KeepsIteratorAt
<1>5. Good([ctx |-> exec_memory(inst, c, g, v), pc |-> i])
  BY <1>1, ExecMemoryType, KeepsIteratorAt
<1>6. Good(exec_graph(inst, c, g, vs, v, i))
  <2>1. Good(exec_iter_neighbors(inst, c, g, vs, v, i))
    BY <1>1, IterNeighborsType
  <2>2. Good(exec_end_iter(inst, c, g, vs, i))
    BY <1>1, EndIterType
  <2>3. Good([ctx |-> c, pc |-> i])
    OBVIOUS
  <2>4. Good([ctx |-> [c EXCEPT !.regs[inst.rd] = Gather(inst.op, g, vs, v)], pc |-> i])
    <3> DEFINE e == [c EXCEPT !.regs[inst.rd] = Gather(inst.op, g, vs, v)]
    <3>1. Gather(inst.op, g, vs, v) \in Double
      BY GatherType
    <3>2. KeepsIterator(c, e)
      BY <1>2, <3>1, RegisterType
    <3> HIDE DEF e
    <3>3. Good([ctx |-> e, pc |-> i])
      BY <3>2, KeepsIteratorAt
    <3> QED
      BY <3>3 DEF e
  <2> HIDE DEF Good
  <2> QED
    BY <2>1, <2>2, <2>3, <2>4, Zenon DEF exec_graph
<1>7. Good([ctx |-> c, pc |-> i])
  OBVIOUS
<1>8. Good(done)
  <2> HIDE DEF Good
  <2> QED
    BY <1>3, <1>4, <1>5, <1>6, <1>7, Zenon
<1>9. done.pc \in Int => Advance(done.pc) \in Int
  BY DEF Advance
<1>10. Execute(c, i, g, p, vs, v) = [ctx |-> done.ctx, pc |-> Advance(done.pc)]
  BY DEF Execute, inst
<1> HIDE DEF done
<1> QED
  BY <1>8, <1>9, <1>10

(* The marks of an instruction are vertices of the graph. *)
LEMMA ScatteredType ==
  ASSUME NEW g, IsGraph(g), NEW v \in Vertices(g), NEW inst, NEW c
  PROVE  Scattered(inst, c, g, v) \subseteq Vertices(g)
BY RowBounds DEF Scattered

(* Only the graph instructions mark, and only VOTE_CHANGE votes. *)
LEMMA EffectsOfOps ==
  ASSUME NEW inst, NEW c, NEW g, NEW v
  PROVE  /\ inst.op \notin GraphOps => Scattered(inst, c, g, v) = {}
         /\ inst.op \notin SystemOps => Votes(inst) = 0
         /\ Votes(inst) \in {0, 1}
BY DEF Scattered, Votes, GraphOps, SystemOps

-----------------------------------------------------------------------------
(* The lowering keeps the order of the instructions: positions grow with the  *)
(* pc, by one at an instruction that is kept and not at all at a NOP.         *)
LEMMA Interval ==
  ASSUME NEW n \in Nat
  PROVE  IsFiniteSet(0 .. n - 1) /\ Cardinality(0 .. n - 1) = n
<1>1. n - 1 \in Int /\ 0 \in Int
  OBVIOUS
<1>2. /\ IsFiniteSet(0 .. n - 1)
      /\ Cardinality(0 .. n - 1) = IF 0 > n - 1 THEN 0 ELSE (n - 1) - 0 + 1
  BY <1>1, FS_Interval
<1> DEFINE c == Cardinality(0 .. n - 1)
<1> HIDE DEF c
<1>3. c = IF 0 > n - 1 THEN 0 ELSE (n - 1) - 0 + 1
  BY <1>2 DEF c
<1>4. c = n
  BY <1>3
<1> QED
  BY <1>2, <1>4 DEF c

LEMMA KeptFinite ==
  ASSUME NEW p, IsProgram(p)
  PROVE  /\ Len(p.code) \in Nat
         /\ Kept(p) \subseteq 0 .. Len(p.code) - 1
         /\ IsFiniteSet(Kept(p)) /\ Cardinality(Kept(p)) \in 0 .. Len(p.code)
<1>1. Len(p.code) \in Nat
  BY DEF IsProgram
<1>2. Kept(p) \in SUBSET (0 .. Len(p.code) - 1)
  BY DEF Kept
<1>3. /\ IsFiniteSet(0 .. Len(p.code) - 1)
      /\ Cardinality(0 .. Len(p.code) - 1) = Len(p.code)
  BY <1>1, Interval
<1>4. /\ IsFiniteSet(Kept(p))
      /\ Cardinality(Kept(p)) <= Cardinality(0 .. Len(p.code) - 1)
  BY <1>2, <1>3, FS_Subset
<1>5. Cardinality(Kept(p)) \in Nat
  BY <1>4, FS_CardinalityType
<1> QED
  BY <1>1, <1>2, <1>3, <1>4, <1>5

LEMMA PosType ==
  ASSUME NEW p, IsProgram(p), NEW pc \in Int
  PROVE  /\ IsFiniteSet({q \in Kept(p) : q < pc})
         /\ Pos(p, pc) \in 0 .. Cardinality(Kept(p))
<1>1. {q \in Kept(p) : q < pc} \in SUBSET Kept(p) /\ IsFiniteSet(Kept(p))
  BY KeptFinite
<1>2. /\ IsFiniteSet({q \in Kept(p) : q < pc})
      /\ Cardinality({q \in Kept(p) : q < pc}) <= Cardinality(Kept(p))
  BY <1>1, FS_Subset
<1>3. Cardinality({q \in Kept(p) : q < pc}) \in Nat /\ Cardinality(Kept(p)) \in Nat
  BY <1>1, <1>2, FS_CardinalityType
<1> QED
  BY <1>2, <1>3 DEF Pos

LEMMA PosGrows ==
  ASSUME NEW p, IsProgram(p), NEW pc \in Kept(p), NEW b \in Int, pc < b
  PROVE  Pos(p, pc) < Pos(p, b)
<1> DEFINE S == {q \in Kept(p) : q < pc}
           T == {q \in Kept(p) : q < b}
<1>1. Kept(p) \subseteq Int /\ pc \in Int
  BY KeptFinite
<1>2. S \in SUBSET T /\ pc \in T /\ pc \notin S
  BY <1>1
<1>3. IsFiniteSet(T)
  BY PosType
<1> HIDE DEF S, T
<1>4. IsFiniteSet(S) /\ Cardinality(S) <= Cardinality(T) /\ Cardinality(S) # Cardinality(T)
  BY <1>2, <1>3, FS_Subset
<1>5. Cardinality(S) \in Nat /\ Cardinality(T) \in Nat
  BY <1>3, <1>4, FS_CardinalityType
<1> QED
  BY <1>4, <1>5 DEF Pos, S, T

LEMMA PosNext ==
  ASSUME NEW p, IsProgram(p), NEW pc \in Int, Running(p, pc)
  PROVE  Pos(p, pc + 1) = IF pc \in Kept(p) THEN Pos(p, pc) + 1 ELSE Pos(p, pc)
<1> DEFINE S == {q \in Kept(p) : q < pc}
           T == {q \in Kept(p) : q < pc + 1}
<1>1. Kept(p) \subseteq Int
  BY KeptFinite
<1>2. IsFiniteSet(S) /\ pc \notin S
  BY PosType
<1>3. CASE pc \in Kept(p)
  <2>1. T = S \cup {pc}
    BY <1>1, <1>3
  <2> HIDE DEF S, T
  <2>2. Cardinality(T) = Cardinality(S) + 1
    BY <1>2, <2>1, FS_AddElement
  <2> QED
    BY <1>3, <2>2 DEF Pos, S, T
<1>4. CASE pc \notin Kept(p)
  <2>1. T = S
    BY <1>1, <1>4
  <2> QED
    BY <1>4, <2>1 DEF Pos
<1> QED
  BY <1>3, <1>4

LEMMA PosPastEnd ==
  ASSUME NEW p, IsProgram(p), NEW pc \in Int, pc >= Len(p.code)
  PROVE  Pos(p, pc) = Cardinality(Kept(p))
<1>1. {q \in Kept(p) : q < pc} = Kept(p)
  BY KeptFinite
<1> QED
  BY <1>1 DEF Pos

(* The position of every kept instruction holds that instruction, and every   *)
(* position is that of one.                                                   *)
LEMMA LoweredAt ==
  ASSUME NEW p, IsProgram(p)
  PROVE  /\ DOMAIN lower(p) = 0 .. Cardinality(Kept(p)) - 1
         /\ \A pc \in Kept(p) : /\ Pos(p, pc) \in DOMAIN lower(p)
                                /\ lower(p)[Pos(p, pc)] = Lowered(p, pc)
         /\ \A k \in DOMAIN lower(p) : \E pc \in Kept(p) : k = Pos(p, pc)
<1> DEFINE n   == Cardinality(Kept(p))
           pos == [pc \in Kept(p) |-> Pos(p, pc)]
<1>1. n \in Nat /\ Kept(p) \subseteq Int /\ IsFiniteSet(Kept(p))
  BY KeptFinite
<1>2. lower(p) = [k \in 0 .. n - 1 |-> Lowered(p, CHOOSE pc \in Kept(p) : pos[pc] = k)]
  BY DEF lower
<1>3. \A pc \in Kept(p) : Pos(p, pc) \in 0 .. n - 1
  <2> TAKE pc \in Kept(p)
  <2>1. pc \in Int /\ Len(p.code) \in Int /\ pc < Len(p.code)
    BY KeptFinite
  <2>2. Pos(p, pc) < Pos(p, Len(p.code)) /\ Pos(p, Len(p.code)) = n
    BY <2>1, PosGrows, PosPastEnd
  <2>3. Pos(p, pc) \in 0 .. n
    BY <2>1, PosType
  <2> QED
    BY <2>2, <2>3, <1>1
<1>4. ASSUME NEW a \in Kept(p), NEW b \in Kept(p), Pos(p, a) = Pos(p, b)
      PROVE  a = b
  <2>1. a \in Int /\ b \in Int /\ Pos(p, a) \in Int
    BY <1>1, <1>3
  <2>2. ~(a < b)
    BY <2>1, <1>4, PosGrows
  <2>3. ~(b < a)
    BY <2>1, <1>4, PosGrows
  <2> QED
    BY <2>1, <2>2, <2>3
<1>5. ASSUME NEW pc \in Kept(p)
      PROVE  lower(p)[Pos(p, pc)] = Lowered(p, pc)
  <2>1. (CHOOSE a \in Kept(p) : pos[a] = Pos(p, pc)) = pc
    BY <1>4
  <2> HIDE DEF pos
  <2> QED
    BY <1>2, <1>3, <2>1
<1>6. ASSUME NEW k \in 0 .. n - 1
      PROVE  \E pc \in Kept(p) : k = Pos(p, pc)
  <2> DEFINE P == 0 .. n - 1
  <2>1. IsFiniteSet(P) /\ Cardinality(P) = n
    BY <1>1, FS_Interval
  <2>2. pos \in Injection(Kept(p), P)
    BY <1>3, <1>4 DEF Injection, IsInjective
  <2>3. pos \in Surjection(Kept(p), P)
    <3> HIDE DEF P, pos
    <3> QED
      BY <2>1, <2>2, FS_Injection
  <2> QED
    BY <2>3 DEF Surjection
<1> QED
  BY <1>2, <1>3, <1>5, <1>6

(* The position of an instruction after which another is kept.                *)
LEMMA NextPosition ==
  ASSUME NEW p, IsProgram(p), NEW pc \in Kept(p)
  PROVE  /\ pc \in Nat /\ Running(p, pc) /\ Fetch(p, pc).op # "NOP"
         /\ Pos(p, pc) \in Nat /\ Pos(p, pc + 1) = Pos(p, pc) + 1
<1>1. pc \in Int /\ Running(p, pc) /\ pc \in Nat
  BY KeptFinite DEF Running
<1>2. Cardinality(Kept(p)) \in Nat
  BY KeptFinite
<1>3. Pos(p, pc) \in 0 .. Cardinality(Kept(p))
  BY <1>1, PosType
<1> QED
  BY <1>1, <1>2, <1>3, PosNext DEF Kept
-----------------------------------------------------------------------------
(* The loop of a compiled gather, as KernelProofs has it for the interpreter. *)
LGatherStart(op, x) == IF op \in {"GATHER_MIN", "GATHER_MAX"} THEN x ELSE LAccumulate(op, 0, x)
LGatherStep(op)     == [ax \in Double \X Double |-> LAccumulate(op, ax[1], ax[2])]

IsLGather(f, op, g, vs, v) ==
  LET first == g.incoming_row_offsets[v]
      end   == g.incoming_row_offsets[v + 1]
      value == RowValues(g, vs, v)
  IN  IsLoop(f, LGatherStep(op), first, end, LGatherStart(op, value[first]), value)

LEMMA LGatherStepType ==
  ASSUME NEW op
  PROVE  /\ LGatherStep(op) \in [Double \X Double -> Double]
         /\ \A a \in Double, x \in Double :
              /\ LGatherStep(op)[<<a, x>>] = LAccumulate(op, a, x)
              /\ LAccumulate(op, a, x) \in Double
         /\ \A x \in Double : LGatherStart(op, x) \in Double
<1>1. ASSUME NEW a \in Double, NEW x \in Double
      PROVE  LAccumulate(op, a, x) \in Double
  <2>1. Plus(a, x) \in Double
    BY PlusType
  <2> QED
    BY <2>1, Zenon DEF LAccumulate
<1>2. \A x \in Double : LGatherStart(op, x) \in Double
  BY <1>1, SmallType DEF LGatherStart
<1> QED
  BY <1>1, <1>2 DEF LGatherStep

LEMMA LGatherLoop ==
  ASSUME NEW op, op # "GATHER_COUNT",
         NEW g, IsGraph(g), NEW v \in Vertices(g), NEW vs \in [Vertices(g) -> Double],
         g.incoming_row_offsets[v] < g.incoming_row_offsets[v + 1]
  PROVE  \E f \in [InEdges(g, v) -> Double] :
           /\ IsLGather(f, op, g, vs, v)
           /\ LGather(op, g, vs, v) = f[g.incoming_row_offsets[v + 1] - 1]
<1> DEFINE first    == g.incoming_row_offsets[v]
           end      == g.incoming_row_offsets[v + 1]
           Row      == first .. end - 1
           value(e) == vs[g.incoming_col_indices[e]]
           start    == IF op \in {"GATHER_MIN", "GATHER_MAX"} THEN value(first)
                       ELSE LAccumulate(op, 0, value(first))
           loop(f)  == [e \in Row |-> IF e = first THEN start
                                      ELSE LAccumulate(op, f[e - 1], value(e))]
           acc      == CHOOSE f : f = loop(f)
           values   == RowValues(g, vs, v)
           step     == LGatherStep(op)
<1>1. first \in Nat /\ end \in Nat /\ first < end
  BY RowBounds
<1>2. values \in [Row -> Double] /\ \A e \in Row : values[e] = value(e)
  BY RowValuesType DEF RowValues, InEdges
<1>3. step \in [Double \X Double -> Double]
      /\ \A a \in Double, x \in Double : step[<<a, x>>] = LAccumulate(op, a, x)
  BY LGatherStepType
<1>4. values[first] = value(first) /\ values[first] \in Double
  BY <1>1, <1>2
<1>5. start \in Double /\ start = LGatherStart(op, values[first])
  BY <1>4, LGatherStepType DEF LGatherStart
<1>6. LGather(op, g, vs, v) = IF op = "GATHER_COUNT" THEN OfNat(end - first)
                              ELSE IF first >= end THEN 0 ELSE acc[end - 1]
  BY DEF LGather
<1>7. InEdges(g, v) = Row
  BY DEF InEdges
<1>8. IsLGather(acc, op, g, vs, v) <=> IsLoop(acc, step, first, end, start, values)
  BY <1>5 DEF IsLGather
<1> HIDE DEF first, end, value, start, values, step
<1>9. PICK f \in [Row -> Double] : IsLoop(f, step, first, end, start, values)
  BY <1>1, <1>2, <1>3, <1>5, LoopExists
<1>10. f = loop(f)
  <2>1. ASSUME NEW e \in Row
        PROVE  f[e] = IF e = first THEN start ELSE LAccumulate(op, f[e - 1], value(e))
    <3>1. CASE e = first
      BY <1>9, <3>1 DEF IsLoop
    <3>2. CASE e # first
      <4>1. e - 1 \in Row
        BY <1>1, <3>2
      <4>2. f[e - 1] \in Double /\ values[e] \in Double
        BY <1>2, <1>9, <4>1
      <4>3. f[e] = step[<<f[e - 1], values[e]>>]
        BY <1>9, <3>2, <4>2 DEF IsLoop
      <4> QED
        BY <1>2, <1>3, <3>2, <4>2, <4>3
    <3> QED
      BY <3>1, <3>2
  <2> HIDE DEF Row
  <2> QED
    BY <1>9, <2>1
<1>11. acc = loop(acc)
  <2> HIDE DEF loop
  <2> QED
    BY <1>10
<1> HIDE DEF acc
<1>12. IsLoop(acc, step, first, end, start, values)
  <2> SUFFICES ASSUME NEW e \in Row
               PROVE  /\ e = first => acc[e] = start
                      /\ e # first /\ acc[e - 1] \in Double
                           => acc[e] = step[<<acc[e - 1], values[e]>>]
    BY DEF IsLoop
  <2>1. acc[e] = IF e = first THEN start ELSE LAccumulate(op, acc[e - 1], value(e))
    <3> HIDE DEF Row
    <3> QED
      BY <1>11
  <2>2. values[e] = value(e) /\ values[e] \in Double
    BY <1>2
  <2> QED
    BY <1>3, <2>1, <2>2
<1>13. \A e \in Row : acc[e] \in Double
  BY <1>1, <1>2, <1>3, <1>5, <1>12, LoopType
<1>14. acc \in [Row -> Double]
  <2> HIDE DEF Row
  <2> QED
    BY <1>11, <1>13
<1>15. LGather(op, g, vs, v) = acc[end - 1]
  BY <1>1, <1>6
<1> QED
  BY <1>7, <1>8, <1>12, <1>14, <1>15 DEF end

(* Two loops over the same row agree when their steps do, on a set of values  *)
(* that holds the values of the row and that the steps do not leave.          *)
StepsAgree(s, t, Good) ==
  \A a \in Good, x \in Good : s[<<a, x>>] = t[<<a, x>>] /\ s[<<a, x>>] \in Good

LEMMA LoopsAgree ==
  ASSUME NEW first \in Nat, NEW end \in Nat, NEW Good \in SUBSET Double,
         NEW s, NEW t, StepsAgree(s, t, Good), NEW start \in Good,
         NEW value \in [first .. end - 1 -> Good],
         NEW f, IsLoop(f, s, first, end, start, value),
         NEW h, IsLoop(h, t, first, end, start, value)
  PROVE  \A e \in first .. end - 1 : f[e] = h[e]
<1> DEFINE Apart == {e \in first .. end - 1 : ~(f[e] = h[e] /\ f[e] \in Good)}
<1> SUFFICES ASSUME Apart # {} PROVE FALSE
  OBVIOUS
<1>1. Apart \in SUBSET Nat
  OBVIOUS
<1>2. PICK m \in Apart : \A n \in Apart : m <= n
  <2> HIDE DEF Apart
  <2> QED
    BY <1>1, LeastNatural
<1>3. m \in first .. end - 1 /\ ~(f[m] = h[m] /\ f[m] \in Good)
  OBVIOUS
<1>4. m # first
  BY <1>3 DEF IsLoop
<1>5. m - 1 \in first .. end - 1 /\ m - 1 < m
  BY <1>3, <1>4
<1>6. f[m - 1] = h[m - 1] /\ f[m - 1] \in Good
  <2>1. m - 1 \notin Apart
    <3> HIDE DEF Apart
    <3> QED
      BY <1>2, <1>3, <1>5
  <2> QED
    BY <2>1, <1>5
<1>7. f[m] = s[<<f[m - 1], value[m]>>] /\ h[m] = t[<<h[m - 1], value[m]>>]
  BY <1>3, <1>4, <1>6 DEF IsLoop
<1>8. value[m] \in Good
  BY <1>3
<1> QED
  BY <1>3, <1>6, <1>7, <1>8 DEF StepsAgree

(* GATHER_COUNT adds one per edge, and rounds no differently in the end. *)
LEMMA CountLoop ==
  ASSUME NEW first \in Nat, NEW end \in Nat, NEW value \in [first .. end - 1 -> Double],
         NEW f, IsLoop(f, GatherStep("GATHER_COUNT"), first, end, 1, value)
  PROVE  \A e \in first .. end - 1 : f[e] = Round(e - first + 1)
<1> DEFINE Apart == {e \in first .. end - 1 : f[e] # Round(e - first + 1)}
<1> SUFFICES ASSUME Apart # {} PROVE FALSE
  OBVIOUS
<1>1. Apart \in SUBSET Nat
  OBVIOUS
<1>2. PICK m \in Apart : \A n \in Apart : m <= n
  <2> HIDE DEF Apart
  <2> QED
    BY <1>1, LeastNatural
<1>3. m \in first .. end - 1 /\ f[m] # Round(m - first + 1)
  OBVIOUS
<1>4. m # first
  <2>1. f[first] = 1 \/ first \notin first .. end - 1
    BY DEF IsLoop
  <2>2. Round(1) = 1
    BY DoublesAssumption DEF Round, Inf
  <2>3. first - first + 1 = 1
    OBVIOUS
  <2> QED
    BY <1>3, <2>1, <2>2, <2>3
<1>5. m - 1 \in first .. end - 1 /\ m - 1 < m
  BY <1>3, <1>4
<1>6. f[m - 1] = Round(m - first)
  <2>1. m - 1 \notin Apart
    <3> HIDE DEF Apart
    <3> QED
      BY <1>2, <1>3, <1>5
  <2> QED
    BY <2>1, <1>5
<1>7. m - first \in Nat \ {0}
  BY <1>3, <1>4
<1> DEFINE k == m - first
<1>8. f[m] = Plus(Round(k), 1)
  <2>1. Round(k) \in Double /\ value[m] \in Double
    BY <1>3, <1>7, RoundType
  <2>2. f[m] = GatherStep("GATHER_COUNT")[<<Round(k), value[m]>>]
    BY <1>3, <1>4, <1>6, <2>1 DEF IsLoop
  <2>3. f[m] = Accumulate("GATHER_COUNT", Round(k), value[m])
    BY <2>1, <2>2, GatherStepType
  <2> QED
    BY <2>3 DEF Accumulate
<1> HIDE DEF k
<1>9. Plus(Round(k), 1) = Round(k + 1)
  <2>1. k \in Nat \ {0}
    BY <1>7 DEF k
  <2> QED
    BY <2>1, DoublesAssumption DEF Plus, Round, IsInf, Inf
<1>10. f[m] = Round(m - first + 1)
  BY <1>8, <1>9 DEF k
<1> QED
  BY <1>3, <1>10

(* A compiled gather computes a double, and the one that the interpreter does,*)
(* unless it takes the minimum or the maximum of values with a NaN among them.*)
LEMMA LGatherType ==
  ASSUME NEW op, NEW g, IsGraph(g), NEW v \in Vertices(g), NEW vs \in [Vertices(g) -> Double]
  PROVE  LGather(op, g, vs, v) \in Double
<1> DEFINE first == g.incoming_row_offsets[v]
           end   == g.incoming_row_offsets[v + 1]
<1>1. first \in Nat /\ end \in Nat
  BY RowBounds
<1>2. CASE op = "GATHER_COUNT"
  <2>1. LGather(op, g, vs, v) = OfNat(end - first)
    BY <1>2 DEF LGather
  <2> QED
    BY <2>1, <1>1, OfNatType
<1>3. CASE op # "GATHER_COUNT" /\ first >= end
  <2>1. LGather(op, g, vs, v) = 0
    BY <1>3 DEF LGather
  <2> QED
    BY <2>1, SmallType
<1>4. CASE op # "GATHER_COUNT" /\ first < end
  <2>1. end - 1 \in InEdges(g, v)
    BY <1>1, <1>4 DEF InEdges
  <2>2. PICK f \in [InEdges(g, v) -> Double] : LGather(op, g, vs, v) = f[end - 1]
    BY <1>4, LGatherLoop
  <2> QED
    BY <2>1, <2>2
<1> QED
  BY <1>1, <1>2, <1>3, <1>4

LEMMA SameSteps ==
  /\ StepsAgree(GatherStep("GATHER_SUM"), LGatherStep("GATHER_SUM"), Double)
  /\ \A op \in {"GATHER_MIN", "GATHER_MAX"} :
       StepsAgree(GatherStep(op), LGatherStep(op), Double \ {NaN})
<1>1. ASSUME NEW a \in Double, NEW x \in Double
      PROVE  /\ Accumulate("GATHER_SUM", a, x) = LAccumulate("GATHER_SUM", a, x)
             /\ Accumulate("GATHER_SUM", a, x) \in Double
  <2>1. Accumulate("GATHER_SUM", a, x) = LAccumulate("GATHER_SUM", a, x)
    BY DEF Accumulate, LAccumulate
  <2> QED
    BY <2>1, AccumulateType
<1>2. ASSUME NEW op \in {"GATHER_MIN", "GATHER_MAX"},
             NEW a \in Double \ {NaN}, NEW x \in Double \ {NaN}
      PROVE  /\ Accumulate(op, a, x) = LAccumulate(op, a, x)
             /\ Accumulate(op, a, x) \in Double \ {NaN}
  <2>1. a \in Int /\ x \in Int /\ a # NaN /\ x # NaN
    BY DEF Double
  <2>2. CASE op = "GATHER_MIN"
    <3>1. Accumulate(op, a, x) = IF x < a THEN x ELSE a
      BY <2>1, <2>2 DEF Accumulate, Less
    <3>2. LAccumulate(op, a, x) = IF a < x THEN a ELSE x
      BY <2>1, <2>2 DEF LAccumulate, Less
    <3> QED
      BY <2>1, <3>1, <3>2
  <2>3. CASE op = "GATHER_MAX"
    <3>1. Accumulate(op, a, x) = IF a < x THEN x ELSE a
      BY <2>1, <2>3 DEF Accumulate, Less
    <3>2. LAccumulate(op, a, x) = IF x < a THEN a ELSE x
      BY <2>1, <2>3 DEF LAccumulate, Less
    <3> QED
      BY <2>1, <3>1, <3>2
  <2> QED
    BY <2>2, <2>3
<1>3. StepsAgree(GatherStep("GATHER_SUM"), LGatherStep("GATHER_SUM"), Double)
  <2> SUFFICES ASSUME NEW a \in Double, NEW x \in Double
               PROVE  LET s == GatherStep("GATHER_SUM")[<<a, x>>]
                      IN  s = LGatherStep("GATHER_SUM")[<<a, x>>] /\ s \in Double
    BY DEF StepsAgree
  <2>1. GatherStep("GATHER_SUM")[<<a, x>>] = Accumulate("GATHER_SUM", a, x)
    BY GatherStepType
  <2>2. LGatherStep("GATHER_SUM")[<<a, x>>] = LAccumulate("GATHER_SUM", a, x)
    BY LGatherStepType
  <2> QED
    BY <1>1, <2>1, <2>2
<1>4. ASSUME NEW op \in {"GATHER_MIN", "GATHER_MAX"}
      PROVE  StepsAgree(GatherStep(op), LGatherStep(op), Double \ {NaN})
  <2> SUFFICES ASSUME NEW a \in Double \ {NaN}, NEW x \in Double \ {NaN}
               PROVE  LET s == GatherStep(op)[<<a, x>>]
                      IN  s = LGatherStep(op)[<<a, x>>] /\ s \in Double \ {NaN}
    BY DEF StepsAgree
  <2>1. GatherStep(op)[<<a, x>>] = Accumulate(op, a, x)
    BY GatherStepType
  <2>2. LGatherStep(op)[<<a, x>>] = LAccumulate(op, a, x)
    BY LGatherStepType
  <2> QED
    BY <1>2, <2>1, <2>2
<1> QED
  BY <1>3, <1>4

LEMMA SameGather ==
  ASSUME NEW op \in Gathers,
         NEW g, IsGraph(g), NEW v \in Vertices(g), NEW vs \in [Vertices(g) -> Double],
         op \in {"GATHER_MIN", "GATHER_MAX"} =>
           \A e \in InEdges(g, v) : vs[g.incoming_col_indices[e]] # NaN
  PROVE  Gather(op, g, vs, v) = LGather(op, g, vs, v)
<1> DEFINE first == g.incoming_row_offsets[v]
           end   == g.incoming_row_offsets[v + 1]
           value == RowValues(g, vs, v)
           start == GatherStart(op, value[first])
<1>1. first \in Nat /\ end \in Nat /\ InEdges(g, v) = first .. end - 1
  BY RowBounds DEF InEdges
<1>2. value \in [first .. end - 1 -> Double]
  BY <1>1, RowValuesType
<1>3. CASE first >= end
  <2>1. Gather(op, g, vs, v) = 0
    BY <1>3 DEF Gather
  <2>2. CASE op # "GATHER_COUNT"
    BY <1>3, <2>1, <2>2 DEF LGather
  <2>3. CASE op = "GATHER_COUNT"
    <3>1. first <= end
      BY DEF IsGraph, IsCSR, Vertices
    <3>2. OfNat(end - first) = 0
      BY <1>1, <1>3, <3>1, DoublesAssumption DEF OfNat, Round, Inf
    <3> QED
      BY <2>1, <2>3, <3>2 DEF LGather
  <2> QED
    BY <2>2, <2>3
<1>4. CASE first < end
  <2>1. first \in first .. end - 1 /\ end - 1 \in first .. end - 1
    BY <1>1, <1>4
  <2>2. PICK f \in [InEdges(g, v) -> Double] :
          IsGather(f, op, g, vs, v) /\ Gather(op, g, vs, v) = f[end - 1]
    BY <1>4, GatherLoop
  <2>3. IsLoop(f, GatherStep(op), first, end, start, value)
    BY <2>2 DEF IsGather
  <2>4. value[first] \in Double
    BY <1>2, <2>1
  <2>5. CASE op = "GATHER_COUNT"
    <3>1. start = 1
      <4>1. start = Plus(0, 1)
        BY <2>5 DEF GatherStart, Accumulate
      <4> QED
        BY <4>1, DoublesAssumption DEF Plus, IsInf, Round, Inf
    <3>2. IsLoop(f, GatherStep("GATHER_COUNT"), first, end, 1, value)
      BY <2>3, <2>5, <3>1
    <3> HIDE DEF first, end, value, start
    <3>3. f[end - 1] = Round((end - 1) - first + 1)
      BY <1>1, <1>2, <2>1, <3>2, CountLoop
    <3>4. (end - 1) - first + 1 = end - first
      BY <1>1
    <3>5. LGather(op, g, vs, v) = OfNat(end - first)
      BY <2>5 DEF LGather, first, end
    <3> QED
      BY <2>2, <3>3, <3>4, <3>5 DEF OfNat
  <2>6. CASE op # "GATHER_COUNT"
    <3> DEFINE Good == IF op = "GATHER_SUM" THEN Double ELSE Double \ {NaN}
    <3>1. PICK h \in [InEdges(g, v) -> Double] :
            IsLGather(h, op, g, vs, v) /\ LGather(op, g, vs, v) = h[end - 1]
      BY <1>4, <2>6, LGatherLoop
    <3>2. op \in {"GATHER_SUM", "GATHER_MIN", "GATHER_MAX"}
      BY <2>6 DEF Gathers
    <3>3. LGatherStart(op, value[first]) = start
      BY <3>2 DEF GatherStart, LGatherStart, Accumulate, LAccumulate
    <3>4. IsLoop(h, LGatherStep(op), first, end, start, value)
      BY <3>1, <3>3 DEF IsLGather
    <3>5. StepsAgree(GatherStep(op), LGatherStep(op), Good)
      BY <3>2, SameSteps
    <3>6. \A e \in first .. end - 1 : value[e] \in Good
      BY <1>1, <1>2, <3>2 DEF RowValues
    <3>7. start \in Good
      <4>1. CASE op = "GATHER_SUM"
        BY <4>1, <2>4, GatherStepType
      <4>2. CASE op # "GATHER_SUM"
        BY <4>2, <2>1, <3>2, <3>6 DEF GatherStart
      <4> QED
        BY <4>1, <4>2
    <3>8. value \in [first .. end - 1 -> Good] /\ Good \in SUBSET Double
      BY <1>2, <3>6
    <3> HIDE DEF Good, first, end, value, start
    <3>9. f[end - 1] = h[end - 1]
      BY <1>1, <2>1, <2>3, <3>4, <3>5, <3>7, <3>8, LoopsAgree
    <3> QED
      BY <2>2, <3>1, <3>9
  <2> QED
    BY <2>5, <2>6
<1> QED
  BY <1>1, <1>3, <1>4

-----------------------------------------------------------------------------
(* The instructions that lower makes of those of a program. *)
LEMMA LOpIs ==
  ASSUME NEW inst
  PROVE  /\ inst.op \in AluOps \cup Gathers \cup {"JMP", "JZ", "JNZ", "SCATTER",
                                                   "SCATTER_IF", "VOTE_CHANGE"}
              => LOpOf(inst) = inst.op
         /\ inst.op = "HALT"   => LOpOf(inst) = "RETURN"
         /\ inst.op = "STOREV" => LOpOf(inst) = "STORE_V_OUT"
         /\ inst.op = "LOADE"  => LOpOf(inst) = "LOAD_E_ATTR"
         /\ inst.op = "LOADG"  => LOpOf(inst) = "LOAD_GRAPH_SIZE"
         /\ inst.op = "ITER_NEIGHBORS" => LOpOf(inst) = "ITER_BEGIN"
         /\ inst.op = "END_ITER"       => LOpOf(inst) = "ITER_NEXT"
         /\ inst.op \in UnknownOps     => LOpOf(inst) = "ADD"
BY DEF LOpOf, AluOps, Gathers, UnknownOps

LEMMA LOpOfLOADV ==
  ASSUME NEW inst, inst.op = "LOADV"
  PROVE  /\ inst.imm = 0 => LOpOf(inst) = "LOAD_V_SELF"
         /\ inst.imm = 1 => LOpOf(inst) = "LOAD_N_VAL"
         /\ inst.imm = 2 => LOpOf(inst) = "LOAD_IN_DEG"
         /\ inst.imm = 3 => LOpOf(inst) = "LOAD_OUT_DEG"
         /\ inst.imm \notin 0 .. 3 => LOpOf(inst) = "ADD"
<1>1. LOpOf(inst) =
        IF inst.imm \in 0 .. 3
        THEN <<"LOAD_V_SELF", "LOAD_N_VAL", "LOAD_IN_DEG", "LOAD_OUT_DEG">>[inst.imm + 1]
        ELSE "ADD"
  BY ZenonT(30) DEF LOpOf, UnknownOps
<1>2. CASE inst.imm = 0
  BY <1>1, <1>2
<1>3. CASE inst.imm = 1
  BY <1>1, <1>3
<1>4. CASE inst.imm = 2
  BY <1>1, <1>4
<1>5. CASE inst.imm = 3
  BY <1>1, <1>5
<1>6. CASE inst.imm \notin 0 .. 3
  BY <1>1, <1>6
<1> QED
  BY <1>2, <1>3, <1>4, <1>5, <1>6

(* Every register that the machine code of an accepted program names is one.  *)
(* The additions that stand for an instruction lower does not know have none, *)
(* and compile refuses them.                                                  *)
LEMMA LoweredType ==
  ASSUME NEW p, IsProgram(p), CompileOutcome(lower(p)) = "kernel", NEW pc \in Kept(p)
  PROVE  LET l == Lowered(p, pc)
         IN  /\ l.op = "LOADI" => l.dst \in Reg /\ l.imm \in Double
             /\ l.op \in AluOps \ {"LOADI"} => {l.dst, l.src1, l.src2} \subseteq Reg
             /\ l.op \in LoadOps \cup Gathers => l.dst \in Reg
             /\ l.op = "STORE_V_OUT" => l.src1 \in Reg
<1> DEFINE inst == Fetch(p, pc)
           l    == Lowered(p, pc)
<1>1. /\ inst \in Instruction
      /\ inst.op = "LOADI" => p.constants[inst.imm + 1] \in Double
  BY NextPosition, InstructionType
<1>2. inst.rd \in Reg /\ inst.rs1 \in Reg /\ inst.rs2 \in Reg
  BY <1>1 DEF Instruction
<1>3. l.op = "ADD" => {l.dst, l.src1, l.src2} \subseteq Reg
  <2>1. \A k \in DOMAIN lower(p) : ~InvalidRegister(lower(p)[k])
    BY DEF CompileOutcome
  <2> QED
    BY <2>1, LoweredAt DEF InvalidRegister
<1>4. /\ l.op = LOpOf(inst)
      /\ inst.op \in AluWords \cup Gathers \cup {"LOADV", "LOADE", "LOADG"} => l.dst = inst.rd
      /\ inst.op \in AluWords => l.src1 = inst.rs1 /\ l.src2 = inst.rs2
      /\ inst.op = "STOREV" => l.src1 = inst.rs1
      /\ inst.op = "LOADI" => l.imm = p.constants[inst.imm + 1]
  BY DEF Lowered
<1> HIDE DEF l, inst
<1>5. \/ inst.op \in AluOps \cup Gathers
      \/ inst.op \in {"HALT", "JMP", "JZ", "JNZ", "SCATTER", "SCATTER_IF", "VOTE_CHANGE",
                      "STOREV", "LOADE", "LOADG", "ITER_NEIGHBORS", "END_ITER", "NOP"}
      \/ inst.op = "LOADV" \/ inst.op \in UnknownOps
  BY <1>1 DEF Instruction, ControlOps, AluOps, MemoryOps, GraphOps, SystemOps, UnknownOps, Gathers
<1>6. inst.op # "NOP"
  BY DEF Kept, inst
<1>7. CASE inst.op \in AluOps \cup Gathers
  <2>1. l.op = inst.op
    BY <1>4, <1>7, LOpIs
  <2> QED
    BY <1>1, <1>2, <1>4, <1>7, <2>1 DEF l, AluOps, AluWords, Gathers, LoadOps
<1>8. CASE inst.op \in {"HALT", "JMP", "JZ", "JNZ", "SCATTER", "SCATTER_IF", "VOTE_CHANGE",
                        "STOREV", "LOADE", "LOADG", "ITER_NEIGHBORS", "END_ITER"}
  <2>1. /\ inst.op = "STOREV" => l.op = "STORE_V_OUT"
        /\ inst.op = "LOADE"  => l.op = "LOAD_E_ATTR"
        /\ inst.op = "LOADG"  => l.op = "LOAD_GRAPH_SIZE"
        /\ inst.op \notin {"STOREV", "LOADE", "LOADG"} =>
             l.op \in {"RETURN", "JMP", "JZ", "JNZ", "SCATTER", "SCATTER_IF", "VOTE_CHANGE",
                       "ITER_BEGIN", "ITER_NEXT"}
    BY <1>4, <1>8, LOpIs
  <2> QED
    BY <1>2, <1>4, <1>8, <2>1 DEF l, AluOps, Gathers, LoadOps
<1>9. CASE inst.op = "LOADV"
  <2>1. l.op \in {"LOAD_V_SELF", "LOAD_N_VAL", "LOAD_IN_DEG", "LOAD_OUT_DEG", "ADD"}
    BY <1>4, <1>9, LOpOfLOADV
  <2> QED
    BY <1>2, <1>3, <1>4, <1>9, <2>1 DEF l, AluOps, Gathers, LoadOps
<1>10. CASE inst.op \in UnknownOps
  <2>1. l.op = "ADD"
    BY <1>4, <1>10, LOpIs
  <2> QED
    BY <1>3, <2>1 DEF l, LoadOps, Gathers
<1> QED
  BY <1>5, <1>6, <1>7, <1>8, <1>9, <1>10

-----------------------------------------------------------------------------
(* One instruction of the machine code takes a context to a context, as one   *)
(* of the interpreter does.                                                   *)
LEMMA LAluType ==
  ASSUME NEW op, NEW a \in Double, NEW b \in Double
  PROVE  LAlu(op, a, b) \in Double
<1>1. \A p : OfBool(p) \in Double
  BY OfBoolType
<1>2. Alu(op, a, b) \in Double /\ NaN \in Double
  BY AluType DEF Double
<1>3. a # NaN => Magnitude(a) \in Double
  BY DoublesAssumption DEF Magnitude, Double, Inf
<1> QED
  BY <1>1, <1>2, <1>3, Zenon DEF LAlu

LEMMA LIterBeginType ==
  ASSUME NEW l, NEW k, NEW lir, NEW c \in Context, NEW g, IsGraph(g),
         NEW v \in Vertices(g), NEW vs \in [Vertices(g) -> Double]
  PROVE  LET d == LIterBegin(l, k, lir, c, g, vs, v)
         IN  d.ctx \in Context /\ \E t : d.pc = LNext(lir, t)
             /\ d.ctx.v_self = c.v_self /\ IteratorAt(d.ctx, g, vs, v)
<1> DEFINE first == g.incoming_row_offsets[v]
           end   == g.incoming_row_offsets[v + 1]
           begun == [c EXCEPT !.iter_edge = first, !.iter_end = end]
<1>1. first \in Nat /\ end \in Nat
  BY RowBounds
<1>2. begun \in Context /\ begun.v_self = c.v_self
      /\ begun.iter_edge = first /\ begun.iter_end = end
  BY <1>1 DEF Context
<1>3. LIterBegin(l, k, lir, c, g, vs, v) =
        IF first >= begun.iter_end THEN [ctx |-> begun, pc |-> LNext(lir, l.target)]
        ELSE [ctx |-> VisitEdge(begun, g, vs, first), pc |-> LNext(lir, k + 1)]
  BY DEF LIterBegin
<1> HIDE DEF begun
<1>4. CASE first >= end
  BY <1>1, <1>2, <1>3, <1>4 DEF IteratorAt
<1>5. CASE first < end
  <2>1. first \in InEdges(g, v)
    BY <1>1, <1>5 DEF InEdges
  <2>2. LET d == VisitEdge(begun, g, vs, first)
        IN  d \in Context /\ d.v_self = begun.v_self /\ IteratorAt(d, g, vs, v)
    BY <1>2, <2>1, VisitType
  <2>3. LIterBegin(l, k, lir, c, g, vs, v)
          = [ctx |-> VisitEdge(begun, g, vs, first), pc |-> LNext(lir, k + 1)]
    BY <1>1, <1>2, <1>3, <1>5
  <2> QED
    BY <1>2, <2>2, <2>3
<1> QED
  BY <1>1, <1>4, <1>5

LEMMA LIterNextType ==
  ASSUME NEW l, NEW k, NEW lir, NEW c \in Context, NEW g, IsGraph(g),
         NEW v \in Vertices(g), NEW vs \in [Vertices(g) -> Double], IteratorAt(c, g, vs, v)
  PROVE  LET d == LIterNext(l, k, lir, c, g, vs)
         IN  d.ctx \in Context /\ \E t : d.pc = LNext(lir, t)
             /\ d.ctx.v_self = c.v_self /\ IteratorAt(d.ctx, g, vs, v)
<1> DEFINE next == c.iter_edge + 1
<1>1. next \in Nat /\ c.iter_edge \in Nat /\ c.iter_end \in Nat
  BY DEF Context
<1>2. CASE next < c.iter_end
  <2>1. c.iter_edge \in InEdges(g, v) /\ c.iter_end = g.incoming_row_offsets[v + 1]
    BY <1>1, <1>2 DEF IteratorAt
  <2>2. next \in InEdges(g, v)
    BY <1>1, <1>2, <2>1, RowBounds DEF InEdges
  <2>3. LET d == VisitEdge(c, g, vs, next)
        IN  d \in Context /\ d.v_self = c.v_self /\ IteratorAt(d, g, vs, v)
    BY <2>1, <2>2, VisitType
  <2>4. LIterNext(l, k, lir, c, g, vs)
          = [ctx |-> VisitEdge(c, g, vs, next), pc |-> LNext(lir, l.target)]
    BY <1>1, <1>2 DEF LIterNext
  <2> QED
    BY <1>1, <2>3, <2>4
<1>3. CASE next >= c.iter_end
  <2> DEFINE d == [c EXCEPT !.iter_edge = next]
  <2>1. LIterNext(l, k, lir, c, g, vs) = [ctx |-> d, pc |-> LNext(lir, k + 1)]
    BY <1>3 DEF LIterNext
  <2>2. d \in Context /\ d.v_self = c.v_self /\ d.iter_edge = next /\ d.iter_end = c.iter_end
    BY <1>1 DEF Context
  <2> HIDE DEF d
  <2>3. IteratorAt(d, g, vs, v)
    BY <1>1, <1>3, <2>2 DEF IteratorAt
  <2> QED
    BY <2>1, <2>2, <2>3
<1> QED
  BY <1>1, <1>2, <1>3

(* One instruction of a compiled kernel, executed on a context of doubles with *)
(* the iterator inside the row of its vertex, leaves such a context, and the   *)
(* value the vertex was loaded with as it is.                                  *)
THEOREM LExecuteType ==
  ASSUME NEW g, IsGraph(g), NEW v \in Vertices(g), NEW vs \in [Vertices(g) -> Double],
         NEW p, IsProgram(p), CompileOutcome(lower(p)) = "kernel",
         NEW c \in Context, NEW k \in DOMAIN lower(p), IteratorAt(c, g, vs, v)
  PROVE  LET d == LExecute(c, k, lower(p), g, vs, v)
         IN  d.ctx \in Context /\ d.pc \in DOMAIN lower(p) \cup {-1}
             /\ d.ctx.v_self = c.v_self /\ IteratorAt(d.ctx, g, vs, v)
<1> DEFINE lir == lower(p)
           l   == lir[k]
           Good(d) == /\ d.ctx \in Context /\ d.pc \in DOMAIN lir \cup {-1}
                      /\ d.ctx.v_self = c.v_self /\ IteratorAt(d.ctx, g, vs, v)
           wrote(x) == [ctx |-> [c EXCEPT !.regs[l.dst] = x], pc |-> LNext(lir, k + 1)]
           goto(taken) == [ctx |-> c, pc |-> LNext(lir, IF taken THEN l.target ELSE k + 1)]
<1>1. \A t : LNext(lir, t) \in DOMAIN lir \cup {-1}
  BY DEF LNext
<1>2. /\ l.op = "LOADI" => l.dst \in Reg /\ l.imm \in Double
      /\ l.op \in AluOps \ {"LOADI"} => l.dst \in Reg /\ l.src1 \in Reg /\ l.src2 \in Reg
      /\ l.op \in LoadOps \cup Gathers => l.dst \in Reg
      /\ l.op = "STORE_V_OUT" => l.src1 \in Reg
  <2>1. PICK pc \in Kept(p) : k = Pos(p, pc)
    BY LoweredAt
  <2>2. l = Lowered(p, pc)
    BY <2>1, LoweredAt
  <2> HIDE DEF l
  <2> QED
    BY <2>2, LoweredType
<1> HIDE DEF l, lir
<1>3. ASSUME NEW x \in Double, l.dst \in Reg
      PROVE  Good(wrote(x))
  <2> DEFINE d == [c EXCEPT !.regs[l.dst] = x]
  <2>1. KeepsIterator(c, d)
    BY <1>3, RegisterType
  <2> HIDE DEF d
  <2>2. d \in Context /\ d.v_self = c.v_self /\ IteratorAt(d, g, vs, v)
    BY <2>1, KeepsIteratorAt
  <2>3. Good([ctx |-> d, pc |-> LNext(lir, k + 1)])
    BY <1>1, <2>2
  <2> QED
    BY <2>3 DEF d
<1>4. \A t : Good([ctx |-> c, pc |-> LNext(lir, t)])
  BY <1>1
<1>5. \A taken : Good(goto(taken))
  BY <1>4
<1>6. Good([ctx |-> c, pc |-> -1])
  OBVIOUS
<1>7. l.op = "STORE_V_OUT" =>
        Good([ctx |-> [c EXCEPT !.v_out = c.regs[l.src1]], pc |-> LNext(lir, k + 1)])
  <2> SUFFICES ASSUME l.op = "STORE_V_OUT"
               PROVE  Good([ctx |-> [c EXCEPT !.v_out = c.regs[l.src1]],
                            pc  |-> LNext(lir, k + 1)])
    OBVIOUS
  <2> DEFINE d == [c EXCEPT !.v_out = c.regs[l.src1]]
  <2>1. KeepsIterator(c, d)
    BY <1>2 DEF KeepsIterator, Context
  <2> HIDE DEF d
  <2>2. d \in Context /\ d.v_self = c.v_self /\ IteratorAt(d, g, vs, v)
    BY <2>1, KeepsIteratorAt
  <2>3. Good([ctx |-> d, pc |-> LNext(lir, k + 1)])
    BY <1>1, <2>2
  <2> QED
    BY <2>3 DEF d
<1>8. l.op \in AluOps \ {"LOADI"} => Good(wrote(LAlu(l.op, c.regs[l.src1], c.regs[l.src2])))
  <2> HIDE DEF wrote, Good
  <2> SUFFICES ASSUME l.op \in AluOps \ {"LOADI"}
               PROVE  Good(wrote(LAlu(l.op, c.regs[l.src1], c.regs[l.src2])))
    OBVIOUS
  <2>1. c.regs[l.src1] \in Double /\ c.regs[l.src2] \in Double
    BY <1>2 DEF Context
  <2>2. LAlu(l.op, c.regs[l.src1], c.regs[l.src2]) \in Double
    BY <2>1, LAluType
  <2> QED
    BY <1>2, <1>3, <2>2
<1>9. l.op \in LoadOps => Good(wrote(Loaded(l.op, c)))
  <2>1. Loaded(l.op, c) \in Double
    BY Zenon DEF Loaded, Context
  <2> HIDE DEF wrote, Good
  <2> QED
    BY <1>2, <1>3, <2>1
<1>10. l.op \in Gathers => Good(wrote(LGather(l.op, g, vs, v)))
  <2>1. LGather(l.op, g, vs, v) \in Double
    BY LGatherType
  <2> HIDE DEF wrote, Good
  <2> QED
    BY <1>2, <1>3, <2>1
<1>11. Good(LIterBegin(l, k, lir, c, g, vs, v))
  BY <1>1, LIterBeginType
<1>12. Good(LIterNext(l, k, lir, c, g, vs))
  BY <1>1, LIterNextType
<1>13. l.op = "LOADI" => Good(wrote(l.imm))
  <2> HIDE DEF wrote, Good
  <2> QED
    BY <1>2, <1>3
<1>14. LExecute(c, k, lir, g, vs, v) =
         CASE l.op = "LOADI" -> wrote(l.imm)
           [] l.op \in AluOps \ {"LOADI"} -> wrote(LAlu(l.op, c.regs[l.src1], c.regs[l.src2]))
           [] l.op \in LoadOps -> wrote(Loaded(l.op, c))
           [] l.op \in Gathers -> wrote(LGather(l.op, g, vs, v))
           [] l.op = "STORE_V_OUT" ->
                [ctx |-> [c EXCEPT !.v_out = c.regs[l.src1]], pc |-> LNext(lir, k + 1)]
           [] l.op = "ITER_BEGIN" -> LIterBegin(l, k, lir, c, g, vs, v)
           [] l.op = "ITER_NEXT"  -> LIterNext(l, k, lir, c, g, vs)
           [] l.op = "JMP" -> goto(TRUE)
           [] l.op = "JZ"  -> goto(Equal(c.regs[l.src1], 0))
           [] l.op = "JNZ" -> goto(~Equal(c.regs[l.src1], 0))
           [] l.op = "RETURN" -> [ctx |-> c, pc |-> -1]
           [] OTHER -> goto(FALSE)
  BY DEF LExecute, l
<1>15. Good(LExecute(c, k, lir, g, vs, v))
  <2> HIDE DEF wrote, goto, Good
  <2> QED
    BY <1>5, <1>6, <1>7, <1>8, <1>9, <1>10, <1>11, <1>12, <1>13, <1>14, Zenon
<1> QED
  BY <1>15 DEF lir
=============================================================================
