-------------------------- MODULE GraphBuildProofs -------------------------
(***************************************************************************)
(* Theorems about building a graph, for all files: the counting sort fills *)
(* well-formed arrays in which the row of every vertex holds exactly its   *)
(* edges, in the order of the file.                                        *)
(***************************************************************************)
EXTENDS GraphBuild, FiniteSetTheorems, WellFoundedInduction, TLAPS

-----------------------------------------------------------------------------
(* The numbers that the loops compute, as cardinalities of sets of edges.     *)
Dirs  == {"out", "in"}
Lines == [src : Ids, dst : Ids, weight : Double]

Stored(d, i)   == IF d = "out" THEN edges[i].dst ELSE edges[i].src
Below(d, v, n) == Cardinality({j \in 1 .. n : Key(d, j) < v})

(* The position of the i-th edge, when each row begins where the one before   *)
(* it ends.                                                                   *)
Position(d, i) == Below(d, Key(d, i), Len(edges)) + Rank(d, Key(d, i), i - 1)

LEMMA KeyType ==
  ASSUME edges \in Seq(Lines), NEW d \in Dirs, NEW i \in 1 .. Len(edges)
  PROVE  Key(d, i) \in Nat /\ Stored(d, i) \in Nat /\ edges[i].weight \in Double
<1>1. edges[i] \in Lines
  OBVIOUS
<1> QED
  BY <1>1, EdgesAssumption DEF Lines, Key, Stored

LEMMA SetsFinite ==
  ASSUME NEW n \in Nat, NEW S \in SUBSET (1 .. n)
  PROVE  IsFiniteSet(S) /\ Cardinality(S) \in 0 .. n
<1>1. IsFiniteSet(1 .. n) /\ Cardinality(1 .. n) = n
  BY FS_Interval
<1>2. IsFiniteSet(S) /\ Cardinality(S) <= n /\ Cardinality(S) \in Nat
  BY <1>1, FS_Subset, FS_CardinalityType
<1> QED
  BY <1>2

LEMMA RankRange ==
  ASSUME NEW d, NEW v, NEW n \in Nat
  PROVE  Rank(d, v, n) \in Nat /\ Rank(d, v, n) <= n
<1>1. Cardinality({j \in 1 .. n : Key(d, j) = v}) \in 0 .. n
  BY SetsFinite
<1> QED
  BY <1>1 DEF Rank

LEMMA RankZero ==
  ASSUME NEW d, NEW v
  PROVE  Rank(d, v, 0) = 0
<1>1. {j \in 1 .. 0 : Key(d, j) = v} = {}
  OBVIOUS
<1> QED
  BY <1>1, FS_EmptySet DEF Rank

LEMMA RankNext ==
  ASSUME NEW d, NEW v, NEW n \in Nat \ {0}
  PROVE  Rank(d, v, n) = IF Key(d, n) = v THEN Rank(d, v, n - 1) + 1 ELSE Rank(d, v, n - 1)
<1> DEFINE S == {j \in 1 .. n - 1 : Key(d, j) = v}
           T == {j \in 1 .. n : Key(d, j) = v}
<1>1. IsFiniteSet(S)
  <2>1. n - 1 \in Nat /\ S \in SUBSET (1 .. n - 1)
    OBVIOUS
  <2> QED
    BY <2>1, SetsFinite
<1>2. n \notin S /\ T = IF Key(d, n) = v THEN S \cup {n} ELSE S
  OBVIOUS
<1>3. Rank(d, v, n) = Cardinality(T) /\ Rank(d, v, n - 1) = Cardinality(S)
  BY DEF Rank
<1> HIDE DEF S, T
<1>4. Cardinality(S \cup {n}) = Cardinality(S) + 1
  BY <1>1, <1>2, FS_AddElement
<1> QED
  BY <1>2, <1>3, <1>4

LEMMA RankMonotone ==
  ASSUME NEW d, NEW v, NEW n \in Nat, NEW m \in Nat, m <= n
  PROVE  Rank(d, v, m) <= Rank(d, v, n)
<1> DEFINE S == {j \in 1 .. m : Key(d, j) = v}
           T == {j \in 1 .. n : Key(d, j) = v}
<1>1. T \in SUBSET (1 .. n) /\ S \subseteq T
  OBVIOUS
<1>2. IsFiniteSet(T)
  BY <1>1, SetsFinite
<1>3. Cardinality(S) <= Cardinality(T)
  BY <1>1, <1>2, FS_Subset
<1> QED
  BY <1>3 DEF Rank

LEMMA BelowRange ==
  ASSUME NEW d, NEW v, NEW n \in Nat
  PROVE  Below(d, v, n) \in Nat /\ Below(d, v, n) <= n
<1>1. Cardinality({j \in 1 .. n : Key(d, j) < v}) \in 0 .. n
  BY SetsFinite
<1> QED
  BY <1>1 DEF Below

(* No vertex is below the first, and none is the one before it. *)
LEMMA BelowFirst ==
  ASSUME edges \in Seq(Lines), NEW d \in Dirs, NEW n \in 0 .. Len(edges)
  PROVE  Below(d, 0, n) = 0 /\ Rank(d, -1, n) = 0
<1>1. \A j \in 1 .. n : Key(d, j) \in Nat
  BY KeyType
<1>2. {j \in 1 .. n : Key(d, j) < 0} = {} /\ {j \in 1 .. n : Key(d, j) = -1} = {}
  BY <1>1
<1> QED
  BY <1>2, FS_EmptySet DEF Below, Rank

LEMMA BelowNext ==
  ASSUME edges \in Seq(Lines), NEW d \in Dirs, NEW n \in 0 .. Len(edges), NEW v \in Nat
  PROVE  Below(d, v + 1, n) = Below(d, v, n) + Rank(d, v, n)
<1> DEFINE B == {j \in 1 .. n : Key(d, j) < v}
           R == {j \in 1 .. n : Key(d, j) = v}
           C == {j \in 1 .. n : Key(d, j) < v + 1}
<1>1. \A j \in 1 .. n : Key(d, j) \in Nat
  BY KeyType
<1>2. C = B \cup R /\ B \cap R = {}
  BY <1>1
<1>3. IsFiniteSet(B) /\ IsFiniteSet(R) /\ Cardinality(B) \in Nat /\ Cardinality(R) \in Nat
  <2>1. n \in Nat /\ B \in SUBSET (1 .. n) /\ R \in SUBSET (1 .. n)
    OBVIOUS
  <2>2. IsFiniteSet(B) /\ IsFiniteSet(R)
    BY <2>1, SetsFinite
  <2> QED
    BY <2>2, FS_CardinalityType
<1>4. /\ Below(d, v + 1, n) = Cardinality(C)
      /\ Below(d, v, n) = Cardinality(B) /\ Rank(d, v, n) = Cardinality(R)
  BY DEF Below, Rank
<1> HIDE DEF B, R, C
<1>5. Cardinality(B \cup R) = Cardinality(B) + Cardinality(R) - Cardinality(B \cap R)
  BY <1>3, FS_Union
<1>6. Cardinality(B \cap R) = 0
  BY <1>2, FS_EmptySet
<1>7. Cardinality(C) = Cardinality(B) + Cardinality(R)
  BY <1>2, <1>3, <1>5, <1>6
<1> QED
  BY <1>4, <1>7

LEMMA BelowMonotone ==
  ASSUME edges \in Seq(Lines), NEW d \in Dirs, NEW n \in 0 .. Len(edges),
         NEW v \in Nat, NEW w \in Nat, v <= w
  PROVE  Below(d, v, n) <= Below(d, w, n)
<1> DEFINE B == {j \in 1 .. n : Key(d, j) < v}
           C == {j \in 1 .. n : Key(d, j) < w}
<1>1. \A j \in 1 .. n : Key(d, j) \in Nat
  BY KeyType
<1>2. n \in Nat /\ B \subseteq C /\ C \in SUBSET (1 .. n)
  BY <1>1
<1>3. IsFiniteSet(C)
  BY <1>2, SetsFinite
<1>4. Cardinality(B) <= Cardinality(C)
  BY <1>2, <1>3, FS_Subset
<1> QED
  BY <1>4 DEF Below

(* Every edge is below a bound of the vertices. *)
LEMMA BelowAll ==
  ASSUME NEW d, NEW n \in Nat, NEW v, \A j \in 1 .. n : Key(d, j) < v
  PROVE  Below(d, v, n) = n
<1>1. {j \in 1 .. n : Key(d, j) < v} = 1 .. n
  OBVIOUS
<1>2. Cardinality(1 .. n) = n
  <2>1. 1 \in Int /\ n \in Int
    OBVIOUS
  <2>2. Cardinality(1 .. n) = IF 1 > n THEN 0 ELSE n - 1 + 1
    BY <2>1, FS_Interval
  <2> QED
    BY <2>2
<1> QED
  BY <1>1, <1>2 DEF Below

(* Each edge has a position of its own, in the row of its vertex. *)
LEMMA PositionType ==
  ASSUME edges \in Seq(Lines), NEW d \in Dirs, NEW i \in 1 .. Len(edges)
  PROVE  /\ Position(d, i) \in Nat
         /\ Below(d, Key(d, i), Len(edges)) <= Position(d, i)
         /\ Position(d, i) < Below(d, Key(d, i) + 1, Len(edges))
         /\ Position(d, i) < Len(edges)
<1>1. PICK n : n = Len(edges)
  OBVIOUS
<1>2. PICK v : v = Key(d, i)
  OBVIOUS
<1>3. v \in Nat /\ v + 1 \in Nat
  BY <1>2, KeyType
<1>4. n \in Nat /\ i - 1 \in Nat /\ i \in Nat \ {0} /\ i <= n /\ n \in 0 .. Len(edges)
  BY <1>1
<1>5. Rank(d, v, i - 1) \in Nat /\ Rank(d, v, n) \in Nat
  BY <1>4, RankRange
<1>6. Rank(d, v, i) = Rank(d, v, i - 1) + 1
  BY <1>2, <1>4, RankNext
<1>7. Rank(d, v, i) <= Rank(d, v, n)
  BY <1>4, RankMonotone
<1>8. Below(d, v + 1, n) = Below(d, v, n) + Rank(d, v, n)
  BY <1>3, <1>4, BelowNext
<1>9. Below(d, v, n) \in Nat
  BY <1>4, BelowRange
<1>10. Below(d, v + 1, n) <= n
  BY <1>4, BelowRange
<1> QED
  BY <1>1, <1>2, <1>4, <1>5, <1>6, <1>7, <1>8, <1>9, <1>10 DEF Position

LEMMA PositionsDiffer ==
  ASSUME edges \in Seq(Lines), NEW d \in Dirs, NEW i \in 1 .. Len(edges),
         NEW j \in 1 .. Len(edges), i < j
  PROVE  Position(d, i) # Position(d, j)
<1>1. PICK n : n = Len(edges)
  OBVIOUS
<1>2. PICK v : v = Key(d, i)
  OBVIOUS
<1>3. PICK w : w = Key(d, j)
  OBVIOUS
<1>4. v \in Nat /\ w \in Nat /\ v + 1 \in Nat /\ w + 1 \in Nat /\ n \in 0 .. Len(edges)
      /\ n \in Nat
  BY <1>1, <1>2, <1>3, KeyType
<1>5. /\ Position(d, i) \in Nat /\ Below(d, v, n) <= Position(d, i)
      /\ Position(d, i) < Below(d, v + 1, n)
  BY <1>1, <1>2, PositionType
<1>6. /\ Position(d, j) \in Nat /\ Below(d, w, n) <= Position(d, j)
      /\ Position(d, j) < Below(d, w + 1, n)
  BY <1>1, <1>3, PositionType
<1>7. /\ Below(d, v, n) \in Nat /\ Below(d, w, n) \in Nat
      /\ Below(d, v + 1, n) \in Nat /\ Below(d, w + 1, n) \in Nat
  BY <1>4, BelowRange
<1>8. CASE v = w
  <2>1. i - 1 \in Nat /\ j - 1 \in Nat /\ i \in Nat \ {0} /\ i <= j - 1
    OBVIOUS
  <2>2. Rank(d, v, i) = Rank(d, v, i - 1) + 1
    BY <1>2, <2>1, RankNext
  <2>3. Rank(d, v, i) <= Rank(d, v, j - 1)
    BY <2>1, RankMonotone
  <2>4. Rank(d, v, i - 1) \in Nat /\ Rank(d, v, j - 1) \in Nat
    BY <2>1, RankRange
  <2> QED
    BY <1>1, <1>2, <1>3, <1>7, <1>8, <2>2, <2>3, <2>4 DEF Position
<1>9. CASE v < w
  <2>1. v + 1 <= w
    BY <1>4, <1>9
  <2>2. Below(d, v + 1, n) <= Below(d, w, n)
    BY <1>4, <2>1, BelowMonotone
  <2> QED
    BY <1>5, <1>6, <1>7, <2>2
<1>10. CASE w < v
  <2>1. w + 1 <= v
    BY <1>4, <1>10
  <2>2. Below(d, w + 1, n) <= Below(d, v, n)
    BY <1>4, <2>1, BelowMonotone
  <2> QED
    BY <1>5, <1>6, <1>7, <2>2
<1> QED
  BY <1>4, <1>8, <1>9, <1>10

-----------------------------------------------------------------------------
(* The inductive invariant.  In every loop the vectors of the direction being *)
(* built are given by the numbers of edges, of each row and below it, among   *)
(* those the loop has met.                                                    *)
N == Len(edges)
V == num_vertices

InRange(d, n) == \A i \in 1 .. n : Key(d, i) < V

(* While the degrees are counted, and summed up to vertex m. *)
Counting(d, n) == InRange(d, n) /\ row[d] = [v \in 0 .. V |-> Rank(d, v - 1, n)]
Summing(d, m) ==
  InRange(d, N) /\ row[d] = [v \in 0 .. V |-> IF v < m THEN Below(d, v, N)
                                              ELSE Rank(d, v - 1, N)]

(* The rows of a direction begin where they should. *)
RowsBegin(d) == InRange(d, N) /\ row[d] = [v \in 0 .. V |-> Below(d, v, N)]

(* The cursors, and the vectors of columns and attributes, after n edges. *)
Cursors(d, n) == cursor = [v \in 0 .. V |-> Below(d, v, N) + Rank(d, v, n)]
Vectors(d, n) ==
  /\ col[d] \in [0 .. N - 1 -> Nat] /\ attr[d] \in [0 .. N - 1 -> Double]
  /\ \A pos \in 0 .. N - 1 : col[d][pos] = 0 \/ \E j \in 1 .. N : col[d][pos] = Stored(d, j)
  /\ \A i \in 1 .. n : /\ col[d][Position(d, i)] = Stored(d, i)
                       /\ attr[d][Position(d, i)] = edges[i].weight

Built(d)   == RowsBegin(d) /\ Vectors(d, N)
Unbuilt(d) == row[d] = EmptyVector /\ col[d] = EmptyVector /\ attr[d] = EmptyVector

Stages == {"parse", "written", "count", "sum", "fill", "done", "fault", "error"}
Before == {"parse", "written", "error"}

Types ==
  /\ edges \in Seq(Lines) /\ num_vertices \in Nat /\ k \in Nat \ {0}
  /\ stage \in Stages /\ dir \in Dirs
  /\ DOMAIN row = Dirs /\ DOMAIN col = Dirs /\ DOMAIN attr = Dirs
  /\ \A v \in DOMAIN cursor : cursor[v] \in 0 .. N

AtStart  == stage \in Before =>
              dir = "out" /\ k = 1 /\ cursor = EmptyVector /\ Unbuilt("out") /\ Unbuilt("in")
AtCount  == stage \in {"count", "fault"} =>
              k <= N + 1 /\ Counting(dir, k - 1) /\ Vectors(dir, 0)
AtSum    == stage = "sum" => k <= V + 1 /\ Summing(dir, k) /\ Vectors(dir, 0)
AtFill   == stage = "fill" =>
              k <= N + 1 /\ RowsBegin(dir) /\ Cursors(dir, k - 1) /\ Vectors(dir, k - 1)
AtDone   == stage = "done" => dir = "in" /\ Built("in")
OtherDir == stage \notin Before =>
              /\ dir = "in" => Built("out")
              /\ dir = "out" => Unbuilt("in")

IInv == Types /\ AtStart /\ AtCount /\ AtSum /\ AtFill /\ AtDone /\ OtherDir

-----------------------------------------------------------------------------
(* What stays true of the numbers, and of a direction, that a step leaves.    *)
LEMMA Unmoved ==
  ASSUME edges' = edges, NEW d, NEW v, NEW n
  PROVE  /\ Key(d, n)' = Key(d, n) /\ Stored(d, n)' = Stored(d, n)
         /\ Rank(d, v, n)' = Rank(d, v, n) /\ Below(d, v, n)' = Below(d, v, n)
         /\ Position(d, n)' = Position(d, n) /\ N' = N
BY DEF Key, Stored, Rank, Below, Position, N

LEMMA RangeKept ==
  ASSUME edges' = edges, V' = V, NEW d, NEW n, InRange(d, n)
  PROVE  InRange(d, n)'
BY DEF InRange, Key

LEMMA RowsKept ==
  ASSUME edges' = edges, V' = V, NEW d, row'[d] = row[d], RowsBegin(d)
  PROVE  RowsBegin(d)'
<1>1. \A v \in 0 .. V : Below(d, v, N)' = Below(d, v, N)
  BY Unmoved
<1>2. InRange(d, N)'
  BY RangeKept, Unmoved DEF RowsBegin, InRange, Key, N
<1> QED
  BY <1>1, <1>2, Unmoved DEF RowsBegin

LEMMA VectorsKept ==
  ASSUME edges' = edges, NEW d, NEW n, col'[d] = col[d], attr'[d] = attr[d], Vectors(d, n)
  PROVE  Vectors(d, n)'
<1>1. N' = N
  BY Unmoved
<1>2. \A j : Stored(d, j)' = Stored(d, j) /\ Position(d, j)' = Position(d, j)
  BY Unmoved
<1> QED
  BY <1>1, <1>2 DEF Vectors

(* One edge more is written at its own position. *)
LEMMA VectorsFilled ==
  ASSUME edges \in Seq(Lines), edges' = edges, NEW d \in Dirs, NEW n \in 1 .. N,
         Vectors(d, n - 1),
         col'[d] = [col[d] EXCEPT ![Position(d, n)] = Stored(d, n)],
         attr'[d] = [attr[d] EXCEPT ![Position(d, n)] = edges[n].weight]
  PROVE  Vectors(d, n)'
<1>1. N' = N /\ N \in Nat
  BY Unmoved DEF N
<1>2. \A j : Stored(d, j)' = Stored(d, j) /\ Position(d, j)' = Position(d, j)
  BY Unmoved
<1>3. Position(d, n) \in 0 .. N - 1
  <2>1. Position(d, n) \in Nat /\ Position(d, n) < N
    BY PositionType DEF N
  <2> QED
    BY <1>1, <2>1
<1>4. Stored(d, n) \in Nat /\ edges[n].weight \in Double
  BY KeyType DEF N
<1>5. \A i \in 1 .. n - 1 : Position(d, i) # Position(d, n) /\ Position(d, i) \in 0 .. N - 1
  <2> SUFFICES ASSUME NEW i \in 1 .. n - 1
               PROVE  Position(d, i) # Position(d, n) /\ Position(d, i) \in 0 .. N - 1
    OBVIOUS
  <2>1. i \in 1 .. Len(edges) /\ n \in 1 .. Len(edges) /\ i < n
    BY <1>1 DEF N
  <2>2. Position(d, i) \in Nat /\ Position(d, i) < N
    BY <2>1, PositionType DEF N
  <2> QED
    BY <1>1, <2>1, <2>2, PositionsDiffer
<1>6. col'[d] \in [0 .. N - 1 -> Nat] /\ attr'[d] \in [0 .. N - 1 -> Double]
  BY <1>3, <1>4 DEF Vectors
<1>7. \A pos \in 0 .. N - 1 : col'[d][pos] = 0 \/ \E j \in 1 .. N : col'[d][pos] = Stored(d, j)
  BY <1>3 DEF Vectors
<1>8. \A i \in 1 .. n : /\ col'[d][Position(d, i)] = Stored(d, i)
                        /\ attr'[d][Position(d, i)] = edges[i].weight
  <2> SUFFICES ASSUME NEW i \in 1 .. n
               PROVE  /\ col'[d][Position(d, i)] = Stored(d, i)
                      /\ attr'[d][Position(d, i)] = edges[i].weight
    OBVIOUS
  <2>1. CASE i = n
    BY <1>3, <2>1 DEF Vectors
  <2>2. CASE i # n
    <3>1. i \in 1 .. n - 1
      BY <2>2
    <3> QED
      BY <1>3, <1>5, <3>1 DEF Vectors
  <2> QED
    BY <2>1, <2>2
<1> QED
  BY <1>1, <1>2, <1>6, <1>7, <1>8 DEF Vectors

(* Vectors as they are allocated. *)
LEMMA VectorsFresh ==
  ASSUME N' \in Nat, NEW d \in Dirs,
         col'[d] = [pos \in 0 .. N' - 1 |-> 0], attr'[d] = [pos \in 0 .. N' - 1 |-> 0]
  PROVE  Vectors(d, 0)'
<1>1. 0 \in Nat /\ 0 \in Double
  BY DoublesAssumption DEF Double, Inf
<1>2. col'[d] \in [0 .. N' - 1 -> Nat] /\ attr'[d] \in [0 .. N' - 1 -> Double]
  BY <1>1
<1>3. \A pos \in 0 .. N' - 1 : col'[d][pos] = 0
  OBVIOUS
<1>4. \A i \in 1 .. 0 : FALSE
  OBVIOUS
<1> QED
  BY <1>2, <1>3, <1>4 DEF Vectors

LEMMA RowsFresh ==
  ASSUME V' \in Nat, NEW d \in Dirs, row'[d] = [v \in 0 .. V' |-> 0]
  PROVE  Counting(d, 0)'
<1>1. \A v : Rank(d, v, 0)' = 0
  <2> SUFFICES ASSUME NEW v PROVE Rank(d, v, 0)' = 0
    OBVIOUS
  <2>1. {j \in 1 .. 0 : Key(d, j)' = v} = {}
    OBVIOUS
  <2> QED
    BY <2>1, FS_EmptySet DEF Rank
<1>2. InRange(d, 0)'
  BY DEF InRange
<1>3. row'[d] = [v \in 0 .. V' |-> Rank(d, v - 1, 0)']
  BY <1>1
<1> QED
  BY <1>2, <1>3 DEF Counting

(* The degree of one more edge, where its row exists. *)
LEMMA RowsCounted ==
  ASSUME edges \in Seq(Lines), V \in Nat, edges' = edges, V' = V,
         NEW d \in Dirs, NEW n \in 1 .. N,
         Counting(d, n - 1), Key(d, n) + 1 \in 0 .. V,
         row'[d] = [row[d] EXCEPT ![Key(d, n) + 1] = @ + 1]
  PROVE  Counting(d, n)'
<1>1. N \in Nat /\ n \in Nat \ {0}
  BY DEF N
<1>2. Key(d, n) \in Nat
  BY KeyType DEF N
<1>3. InRange(d, n)
  <2>1. \A i \in 1 .. n : i = n \/ i \in 1 .. n - 1
    BY <1>1
  <2> QED
    BY <1>2, <2>1 DEF InRange, Counting
<1>4. ASSUME NEW v \in 0 .. V PROVE row'[d][v] = Rank(d, v - 1, n)
  <2>1. Rank(d, v - 1, n)
          = IF Key(d, n) = v - 1 THEN Rank(d, v - 1, n - 1) + 1 ELSE Rank(d, v - 1, n - 1)
    BY <1>1, RankNext
  <2>2. row[d][v] = Rank(d, v - 1, n - 1)
    BY DEF Counting
  <2>3. row'[d][v] = IF v = Key(d, n) + 1 THEN row[d][v] + 1 ELSE row[d][v]
    BY DEF Counting
  <2>4. v = Key(d, n) + 1 <=> Key(d, n) = v - 1
    BY <1>2
  <2> QED
    BY <2>1, <2>2, <2>3, <2>4
<1>5. row'[d] = [v \in 0 .. V |-> Rank(d, v - 1, n)]
  <2>1. row'[d] = [v \in 0 .. V |-> row'[d][v]]
    BY DEF Counting
  <2> QED
    BY <1>4, <2>1
<1>6. InRange(d, n)' /\ \A v : Rank(d, v, n)' = Rank(d, v, n)
  BY <1>3, RangeKept, Unmoved
<1> QED
  BY <1>5, <1>6 DEF Counting

(* One vertex more is summed. *)
LEMMA RowsSummed ==
  ASSUME edges \in Seq(Lines), V \in Nat, edges' = edges, V' = V,
         NEW d \in Dirs, NEW m \in 1 .. V, Summing(d, m),
         row'[d] = [row[d] EXCEPT ![m] = @ + row[d][m - 1]]
  PROVE  Summing(d, m + 1)'
<1>1. N \in Nat /\ m \in Nat /\ m - 1 \in Nat /\ N \in 0 .. Len(edges) /\ (m - 1) + 1 = m
  BY DEF N
<1>2. Below(d, m, N) = Below(d, m - 1, N) + Rank(d, m - 1, N)
  BY <1>1, BelowNext
<1>3. Below(d, m - 1, N) \in Nat /\ Rank(d, m - 1, N) \in Nat
  BY <1>1, BelowRange, RankRange
<1>4. row[d][m] = Rank(d, m - 1, N) /\ row[d][m - 1] = Below(d, m - 1, N)
  BY DEF Summing
<1>5. ASSUME NEW v \in 0 .. V
      PROVE  row'[d][v] = IF v < m + 1 THEN Below(d, v, N) ELSE Rank(d, v - 1, N)
  <2>1. CASE v = m
    BY <1>1, <1>2, <1>3, <1>4, <2>1 DEF Summing
  <2>2. CASE v # m
    <3>1. row'[d][v] = row[d][v]
      BY <2>2 DEF Summing
    <3>2. v < m + 1 <=> v < m
      BY <1>1, <2>2
    <3> QED
      BY <3>1, <3>2 DEF Summing
  <2> QED
    BY <2>1, <2>2
<1>6. row'[d] = [v \in 0 .. V |-> IF v < m + 1 THEN Below(d, v, N) ELSE Rank(d, v - 1, N)]
  <2>1. row'[d] = [v \in 0 .. V |-> row'[d][v]]
    BY DEF Summing
  <2> QED
    BY <1>5, <2>1
<1>7. N' = N /\ \A v : Rank(d, v, N)' = Rank(d, v, N) /\ Below(d, v, N)' = Below(d, v, N)
  BY Unmoved DEF N, Rank, Below, Key
<1>8. InRange(d, N)'
  BY <1>7, RangeKept DEF Summing, InRange, Key
<1> QED
  BY <1>6, <1>7, <1>8 DEF Summing

(* Before the first vertex is summed, and after the last. *)
LEMMA SumBegins ==
  ASSUME edges \in Seq(Lines), V \in Nat, NEW d \in Dirs, Counting(d, N)
  PROVE  Summing(d, 1)
<1>1. N \in Nat /\ N \in 0 .. Len(edges)
  BY DEF N
<1>2. Below(d, 0, N) = 0 /\ Rank(d, -1, N) = 0
  BY <1>1, BelowFirst
<1>3. \A v \in 0 .. V : Rank(d, v - 1, N) = IF v < 1 THEN Below(d, v, N) ELSE Rank(d, v - 1, N)
  <2>1. \A v \in 0 .. V : v < 1 => v = 0 /\ v - 1 = -1
    OBVIOUS
  <2> QED
    BY <1>2, <2>1
<1> QED
  BY <1>3 DEF Counting, Summing

LEMMA SumEnds ==
  ASSUME V \in Nat, NEW d \in Dirs, Summing(d, V + 1)
  PROVE  RowsBegin(d)
<1>1. \A v \in 0 .. V : v < V + 1
  OBVIOUS
<1> QED
  BY <1>1 DEF Summing, RowsBegin

(* The rows lie within the vectors. *)
LEMMA RowsInside ==
  ASSUME edges \in Seq(Lines), NEW d \in Dirs, NEW v \in Nat
  PROVE  /\ Below(d, v, N) \in Nat /\ Rank(d, v, N) \in Nat
         /\ Below(d, v + 1, N) = Below(d, v, N) + Rank(d, v, N)
         /\ Below(d, v + 1, N) <= N
<1>1. N \in Nat /\ N \in 0 .. Len(edges) /\ v + 1 \in Nat
  BY DEF N
<1>2. Below(d, v, N) \in Nat
  BY <1>1, BelowRange
<1>3. Rank(d, v, N) \in Nat
  BY <1>1, RankRange
<1>4. Below(d, v + 1, N) = Below(d, v, N) + Rank(d, v, N)
  BY <1>1, BelowNext
<1>5. Below(d, v + 1, N) <= N
  BY <1>1, BelowRange
<1> QED
  BY <1>2, <1>3, <1>4, <1>5

LEMMA RankBounds ==
  ASSUME edges \in Seq(Lines), NEW d \in Dirs, NEW v \in Nat, NEW n \in 0 .. N
  PROVE  Rank(d, v, n) \in Nat /\ Rank(d, v, n) <= Rank(d, v, N)
<1>1. N \in Nat /\ n \in Nat /\ n <= N
  BY DEF N
<1>2. Rank(d, v, n) \in Nat
  BY <1>1, RankRange
<1>3. Rank(d, v, n) <= Rank(d, v, N)
  BY <1>1, RankMonotone
<1> QED
  BY <1>2, <1>3

-----------------------------------------------------------------------------
(* Every action preserves the invariant.                                      *)
LEMMA InitIInv == Init => IInv
<1> SUFFICES ASSUME Init PROVE IInv
  OBVIOUS
<1>1. edges = <<>> /\ N = 0
  BY DEF Init, N
<1>2. row = Nothing /\ col = Nothing /\ attr = Nothing /\ cursor = EmptyVector
  BY DEF Init, EmptyVector
<1>3. Unbuilt("out") /\ Unbuilt("in") /\ DOMAIN Nothing = Dirs
  BY <1>2 DEF Nothing, Unbuilt, EmptyVector, Dirs
<1>4. \A v \in DOMAIN cursor : FALSE
  BY <1>2 DEF EmptyVector
<1>5. Types
  BY <1>1, <1>2, <1>3, <1>4 DEF Types, Init, Stages, Dirs
<1>6. stage = "parse" /\ dir = "out" /\ k = 1
  BY DEF Init
<1> QED
  BY <1>2, <1>3, <1>5, <1>6
     DEF IInv, AtStart, AtCount, AtSum, AtFill, AtDone, OtherDir, Before

LEMMA ParseKeeps ==
  ASSUME IInv, NEW src \in Ids, NEW dst \in Ids, NEW weight \in Weights \cup {NoWeight},
         ParseLine(src, dst, weight)
  PROVE  IInv'
<1>1. PICK w \in Double : edges' = Append(edges, [src |-> src, dst |-> dst, weight |-> w])
  BY EdgesAssumption DEF ParseLine
<1>2. /\ stage = "parse" /\ cursor = EmptyVector /\ edges \in Seq(Lines)
      /\ UNCHANGED <<num_vertices, stage, dir, k, row, col, attr, cursor>>
  BY DEF ParseLine, IInv, Types, AtStart, Before
<1>3. edges' \in Seq(Lines)
  BY <1>1, <1>2 DEF Lines
<1>4. \A v \in DOMAIN cursor' : FALSE
  BY <1>2 DEF EmptyVector
<1>5. Types'
  BY <1>2, <1>3, <1>4 DEF IInv, Types
<1>6. AtStart'
  BY <1>2 DEF IInv, AtStart, Unbuilt
<1> QED
  BY <1>2, <1>5, <1>6 DEF IInv, AtStart, AtCount, AtSum, AtFill, AtDone, OtherDir, Before

LEMMA WriteKeeps ==
  ASSUME IInv, Write
  PROVE  IInv'
<1>1. /\ stage = "parse" /\ stage' = "written"
      /\ UNCHANGED <<edges, dir, k, row, col, attr, cursor>>
  BY DEF Write
<1>2. num_vertices' \in Nat
  <2> DEFINE n == Len(edges)
             src == [i \in 1 .. n |-> edges[i].src]
             dst == [i \in 1 .. n |-> edges[i].dst]
             S == {edges[i].src : i \in DOMAIN edges}
             T == {edges[i].dst : i \in DOMAIN edges}
  <2>1. n \in Nat /\ DOMAIN edges = 1 .. n
    BY DEF IInv, Types
  <2>2. IsFiniteSet(1 .. n)
    BY <2>1, FS_Interval
  <2>3. src \in Surjection(1 .. n, S) /\ dst \in Surjection(1 .. n, T)
    BY <2>1 DEF Surjection
  <2> HIDE DEF S, T, src, dst
  <2>4. IsFiniteSet(S) /\ IsFiniteSet(T)
    BY <2>2, <2>3, FS_Surjection
  <2>5. Cardinality(S \cup T) \in Nat
    BY <2>4, FS_Union, FS_CardinalityType
  <2> QED
    BY <2>5 DEF Write, S, T
<1>3. Types'
  BY <1>1, <1>2 DEF IInv, Types, Stages, N
<1>4. AtStart'
  BY <1>1 DEF IInv, AtStart, Unbuilt, Before
<1> QED
  BY <1>1, <1>3, <1>4 DEF IInv, AtCount, AtSum, AtFill, AtDone, OtherDir, Before

(* A text or a file that is refused leaves everything else as it was.         *)
LEMMA RefusedKeeps ==
  ASSUME IInv, BadLine \/ NoCount
  PROVE  IInv'
<1>1. /\ stage \in {"parse", "written"} /\ stage' = "error"
      /\ UNCHANGED <<edges, num_vertices, dir, k, row, col, attr, cursor>>
  BY DEF BadLine, NoCount
<1>2. Types'
  BY <1>1 DEF IInv, Types, Stages, N
<1>3. AtStart'
  BY <1>1 DEF IInv, AtStart, Unbuilt, Before
<1> QED
  BY <1>1, <1>2, <1>3 DEF IInv, AtCount, AtSum, AtFill, AtDone, OtherDir, Before

LEMMA ReadFileKeeps ==
  ASSUME IInv, NEW n \in 0 .. Len(edges), ReadFile(n)
  PROVE  IInv'
<1>1. /\ stage = "written" /\ stage' = "count" /\ Allocate("out", n)
      /\ edges' = SubSeq(edges, 1, n) /\ UNCHANGED <<num_vertices, dir, k, cursor>>
  BY DEF ReadFile
<1>2. /\ dir = "out" /\ k = 1 /\ cursor = EmptyVector /\ Unbuilt("in")
      /\ edges \in Seq(Lines) /\ num_vertices \in Nat
      /\ DOMAIN row = Dirs /\ DOMAIN col = Dirs /\ DOMAIN attr = Dirs
  BY <1>1 DEF IInv, Types, AtStart, Before
<1>3. edges' \in Seq(Lines) /\ N' = n
  BY <1>1, <1>2 DEF N
<1>4. /\ row'["out"] = [v \in 0 .. V' |-> 0]
      /\ col'["out"] = [pos \in 0 .. N' - 1 |-> 0]
      /\ attr'["out"] = [pos \in 0 .. N' - 1 |-> 0]
      /\ row'["in"] = row["in"] /\ col'["in"] = col["in"] /\ attr'["in"] = attr["in"]
      /\ DOMAIN row' = Dirs /\ DOMAIN col' = Dirs /\ DOMAIN attr' = Dirs
  BY <1>1, <1>2, <1>3 DEF Allocate, Dirs, V
<1>5. \A v \in DOMAIN cursor' : FALSE
  BY <1>1, <1>2 DEF EmptyVector
<1>6. Types'
  BY <1>1, <1>2, <1>3, <1>4, <1>5 DEF Types, Stages, Dirs
<1>7. Counting("out", 0)' /\ Vectors("out", 0)'
  <2>1. N' \in Nat /\ V' \in Nat /\ "out" \in Dirs
    BY <1>1, <1>2, <1>3 DEF V, Dirs
  <2> QED
    BY <1>4, <2>1, RowsFresh, VectorsFresh
<1>8. AtCount'
  <2>1. dir' = "out" /\ k' - 1 = 0 /\ k' <= N' + 1
    BY <1>1, <1>2, <1>3
  <2> QED
    BY <1>7, <2>1 DEF AtCount
<1>9. OtherDir'
  BY <1>1, <1>2, <1>4 DEF OtherDir, Unbuilt
<1> QED
  BY <1>1, <1>6, <1>8, <1>9 DEF IInv, AtStart, AtSum, AtFill, AtDone, Before

(* What a loop needs of the state. *)
LEMMA LoopTypes ==
  ASSUME IInv
  PROVE  /\ edges \in Seq(Lines) /\ V \in Nat /\ N \in Nat /\ k \in Nat \ {0} /\ dir \in Dirs
         /\ DOMAIN row = Dirs /\ DOMAIN col = Dirs /\ DOMAIN attr = Dirs
BY DEF IInv, Types, V, N

(* The other direction is left alone by a step of the loops over one.         *)
LEMMA OtherKept ==
  ASSUME IInv, stage \notin Before, UNCHANGED <<edges, num_vertices, dir>>,
         \A d \in Dirs \ {dir} : row'[d] = row[d] /\ col'[d] = col[d] /\ attr'[d] = attr[d]
  PROVE  OtherDir'
<1>1. V' = V /\ N' = N
  BY DEF V, N
<1>2. CASE dir = "in"
  <2>1. "out" \in Dirs \ {dir} /\ RowsBegin("out") /\ Vectors("out", N)
    BY <1>2 DEF IInv, OtherDir, Built, Dirs
  <2>2. RowsBegin("out")'
    BY <1>1, <2>1, RowsKept
  <2>3. Vectors("out", N)'
    <3>1. ASSUME NEW n, n = N PROVE Vectors("out", n)'
      BY <2>1, <3>1, VectorsKept
    <3> QED
      BY <1>1, <3>1 DEF Vectors
  <2> QED
    BY <1>2, <2>2, <2>3 DEF OtherDir, Built
<1>3. CASE dir = "out"
  <2>1. "in" \in Dirs \ {dir} /\ Unbuilt("in")
    BY <1>3 DEF IInv, OtherDir, Dirs
  <2> QED
    BY <1>3, <2>1 DEF OtherDir, Unbuilt
<1> QED
  BY <1>2, <1>3, LoopTypes DEF Dirs

(* A fact about the direction being built, as one about a direction.          *)
LEMMA ThisDirection ==
  ASSUME dir' = dir, NEW m, m = k'
  PROVE  /\ (\A d : d = dir => Counting(d, m - 1)') => Counting(dir, k - 1)'
         /\ (\A d : d = dir => Summing(d, m)') => Summing(dir, k)'
         /\ (\A d : d = dir => RowsBegin(d)') => RowsBegin(dir)'
         /\ (\A d : d = dir => Vectors(d, 0)') => Vectors(dir, 0)'
         /\ (\A d : d = dir => Vectors(d, m - 1)') => Vectors(dir, k - 1)'
         /\ (\A d : d = dir => Cursors(d, m - 1)') => Cursors(dir, k - 1)'
<1>1. (\A d : d = dir => Counting(d, m - 1)') => Counting(dir, k - 1)'
  BY DEF Counting, InRange, Rank, Key
<1>2. (\A d : d = dir => Summing(d, m)') => Summing(dir, k)'
  <2> SUFFICES ASSUME \A d : d = dir => Summing(d, m)'
               PROVE  Summing(dir, k)'
    OBVIOUS
  <2>1. PICK d : d = dir
    OBVIOUS
  <2>2. \A v : Rank(d, v, N)' = Rank(dir, v, N)' /\ Below(d, v, N)' = Below(dir, v, N)'
    BY <2>1 DEF Rank, Below, Key
  <2>3. InRange(dir, N)'
    BY <2>1 DEF Summing, InRange, Key
  <2>4. row'[dir'] = [v \in 0 .. V' |-> IF v < k' THEN Below(dir, v, N)' ELSE Rank(dir, v - 1, N)']
    BY <2>1, <2>2 DEF Summing
  <2> QED
    BY <2>3, <2>4 DEF Summing
<1>3. (\A d : d = dir => RowsBegin(d)') => RowsBegin(dir)'
  BY DEF RowsBegin, InRange, Below, Key
<1>4. (\A d : d = dir => Vectors(d, 0)') => Vectors(dir, 0)'
  BY DEF Vectors, Stored, Position, Key, Rank, Below
<1>5. (\A d : d = dir => Vectors(d, m - 1)') => Vectors(dir, k - 1)'
  BY DEF Vectors, Stored, Position, Key, Rank, Below
<1>6. (\A d : d = dir => Cursors(d, m - 1)') => Cursors(dir, k - 1)'
  BY DEF Cursors, Below, Rank, Key
<1> QED
  BY <1>1, <1>2, <1>3, <1>4, <1>5, <1>6

LEMMA CountKeeps ==
  ASSUME IInv, Count
  PROVE  IInv'
<1>1. /\ stage = "count" /\ k <= N
      /\ UNCHANGED <<edges, num_vertices, dir, col, attr, cursor>>
  BY DEF Count, N
<1>2. Counting(dir, k - 1) /\ Vectors(dir, 0) /\ k \in 1 .. N
  BY <1>1, LoopTypes DEF IInv, AtCount
<1>3. V' = V /\ N' = N
  BY <1>1 DEF V, N
<1>4. Key(dir, k) = RowOf(edges[k]) /\ DOMAIN row[dir] = 0 .. V
  BY <1>2, LoopTypes DEF Key, RowOf, Dirs, Counting
<1>5. Vectors(dir, 0)'
  BY <1>1, <1>2, VectorsKept, ThisDirection
<1>6. CASE Key(dir, k) + 1 \in 0 .. V
  <2>1. row' = [row EXCEPT ![dir][Key(dir, k) + 1] = @ + 1] /\ k' = k + 1 /\ stage' = "count"
    BY <1>1, <1>4, <1>6 DEF Count
  <2>2. /\ row'[dir] = [row[dir] EXCEPT ![Key(dir, k) + 1] = @ + 1] /\ DOMAIN row' = Dirs
        /\ \A d \in Dirs \ {dir} : row'[d] = row[d]
    BY <2>1, LoopTypes
  <2>3. Counting(dir, k - 1)'
    <3>1. PICK m \in Int, n \in 1 .. N : m = k' /\ n = k /\ m - 1 = n
      BY <1>2, <2>1, LoopTypes
    <3>2. ASSUME NEW d, d = dir PROVE Counting(d, n)'
      BY <1>1, <1>2, <1>3, <1>6, <2>2, <3>1, <3>2, LoopTypes, RowsCounted
    <3> QED
      BY <1>1, <3>1, <3>2, ThisDirection
  <2>4. Types'
    BY <1>1, <2>1, <2>2, <1>3, LoopTypes DEF IInv, Types, Stages
  <2>5. AtCount'
    <3>1. k' <= N' + 1
      BY <1>2, <1>3, <2>1, LoopTypes
    <3> QED
      BY <1>5, <2>3, <3>1 DEF AtCount
  <2>6. OtherDir'
    BY <1>1, <2>2, OtherKept DEF Before
  <2> QED
    BY <2>1, <2>4, <2>5, <2>6 DEF IInv, AtStart, AtSum, AtFill, AtDone, Before
<1>7. CASE Key(dir, k) + 1 \notin 0 .. V
  <2>1. stage' = "fault" /\ UNCHANGED <<row, k>>
    BY <1>1, <1>4, <1>7 DEF Count
  <2>2. Types'
    BY <1>1, <1>3, <2>1 DEF IInv, Types, Stages
  <2>3. Counting(dir, k - 1)'
    BY <1>1, <1>2, <2>1 DEF Counting, InRange, Rank, Key, V
  <2>4. AtCount'
    BY <1>1, <1>2, <1>3, <1>5, <2>1, <2>3 DEF IInv, AtCount
  <2>5. OtherDir'
    BY <1>1, <2>1, OtherKept DEF Before
  <2> QED
    BY <2>1, <2>2, <2>4, <2>5 DEF IInv, AtStart, AtSum, AtFill, AtDone, Before
<1> QED
  BY <1>6, <1>7

LEMMA CountedKeeps ==
  ASSUME IInv, Counted
  PROVE  IInv'
<1>1. /\ stage = "count" /\ k > N /\ stage' = "sum" /\ k' = 1
      /\ UNCHANGED <<edges, num_vertices, dir, row, col, attr, cursor>>
  BY DEF Counted, N
<1>2. Counting(dir, k - 1) /\ Vectors(dir, 0) /\ k - 1 = N /\ V' = V /\ N' = N
  BY <1>1, LoopTypes DEF IInv, AtCount, V, N
<1>3. Vectors(dir, 0)'
  BY <1>1, <1>2, VectorsKept, ThisDirection
<1>4. Summing(dir, 1)
  BY <1>2, LoopTypes, SumBegins
<1>5. Summing(dir, k)'
  <2>1. ASSUME NEW d, d = dir PROVE Summing(d, 1)'
    BY <1>1, <1>2, <1>4, <2>1 DEF Summing, InRange, Rank, Below, Key
  <2> QED
    BY <1>1, <2>1, ThisDirection
<1>6. Types'
  BY <1>1, <1>2 DEF IInv, Types, Stages
<1>7. AtSum'
  BY <1>1, <1>2, <1>3, <1>5, LoopTypes DEF AtSum
<1>8. OtherDir'
  BY <1>1, OtherKept DEF Before
<1> QED
  BY <1>1, <1>6, <1>7, <1>8 DEF IInv, AtStart, AtCount, AtFill, AtDone, Before

LEMMA SumKeeps ==
  ASSUME IInv, Sum
  PROVE  IInv'
<1>1. /\ stage = "sum" /\ stage' = "sum" /\ k <= V /\ k' = k + 1
      /\ row' = [row EXCEPT ![dir][k] = @ + row[dir][k - 1]]
      /\ UNCHANGED <<edges, num_vertices, dir, col, attr, cursor>>
  BY DEF Sum, V
<1>2. Summing(dir, k) /\ Vectors(dir, 0) /\ k \in 1 .. V /\ V' = V /\ N' = N
  BY <1>1, LoopTypes DEF IInv, AtSum, V, N
<1>3. Vectors(dir, 0)'
  BY <1>1, <1>2, VectorsKept, ThisDirection
<1>4. /\ row'[dir] = [row[dir] EXCEPT ![k] = @ + row[dir][k - 1]] /\ DOMAIN row' = Dirs
      /\ \A d \in Dirs \ {dir} : row'[d] = row[d]
  BY <1>1, LoopTypes
<1>5. Summing(dir, k)'
  <2>1. PICK m \in Int, n \in 1 .. V : m = k' /\ n = k /\ m = n + 1
    BY <1>1, <1>2
  <2>2. ASSUME NEW d, d = dir PROVE Summing(d, n + 1)'
    BY <1>1, <1>2, <1>4, <2>1, <2>2, LoopTypes, RowsSummed
  <2> QED
    BY <1>1, <2>1, <2>2, ThisDirection
<1>6. Types'
  BY <1>1, <1>2, <1>4, LoopTypes DEF IInv, Types
<1>7. AtSum'
  BY <1>1, <1>2, <1>3, <1>5, LoopTypes DEF AtSum
<1>8. OtherDir'
  BY <1>1, <1>4, OtherKept DEF Before
<1> QED
  BY <1>1, <1>6, <1>7, <1>8 DEF IInv, AtStart, AtCount, AtFill, AtDone, Before

LEMMA SummedKeeps ==
  ASSUME IInv, Summed
  PROVE  IInv'
<1>1. /\ stage = "sum" /\ stage' = "fill" /\ k > V /\ k' = 1 /\ cursor' = row[dir]
      /\ UNCHANGED <<edges, num_vertices, dir, row, col, attr>>
  BY DEF Summed, V
<1>2. Summing(dir, k) /\ Vectors(dir, 0) /\ k = V + 1 /\ V' = V /\ N' = N
  BY <1>1, LoopTypes DEF IInv, AtSum, V, N
<1>3. RowsBegin(dir)
  BY <1>2, LoopTypes, SumEnds
<1>4. RowsBegin(dir)'
  BY <1>1, <1>2, <1>3, RowsKept, ThisDirection
<1>5. \A d : d = dir => Vectors(d, 0)'
  BY <1>1, <1>2, VectorsKept
<1>6. Vectors(dir, k - 1)'
  <2>1. PICK m \in Int : m = k' /\ m - 1 = 0
    BY <1>1
  <2> QED
    BY <1>1, <1>5, <2>1, ThisDirection
<1>7. \A v \in 0 .. V : Below(dir, v, N) + Rank(dir, v, 0) = Below(dir, v, N)
                        /\ Below(dir, v, N) \in 0 .. N
  <2> TAKE v \in 0 .. V
  <2>1. Rank(dir, v, 0) = 0
    BY RankZero
  <2>2. Below(dir, v, N) \in Nat /\ Below(dir, v, N) <= N
    BY LoopTypes, BelowRange
  <2> QED
    BY <2>1, <2>2, LoopTypes
<1>8. cursor' = [v \in 0 .. V |-> Below(dir, v, N) + Rank(dir, v, 0)]
  BY <1>1, <1>3, <1>7 DEF RowsBegin
<1>9. Cursors(dir, k - 1)'
  <2>1. PICK m \in Int : m = k' /\ m - 1 = 0
    BY <1>1
  <2>2. ASSUME NEW d, d = dir PROVE Cursors(d, 0)'
    <3>1. \A v : Below(d, v, N)' = Below(dir, v, N) /\ Rank(d, v, 0)' = Rank(dir, v, 0)
      BY <1>1, <1>2, <2>2 DEF Below, Rank, Key
    <3> QED
      BY <1>2, <1>8, <3>1 DEF Cursors
  <2> QED
    BY <1>1, <2>1, <2>2, ThisDirection
<1>10. \A v \in DOMAIN cursor' : cursor'[v] \in 0 .. N'
  BY <1>2, <1>7, <1>8
<1>11. Types'
  BY <1>1, <1>10 DEF IInv, Types, Stages
<1>12. AtFill'
  BY <1>1, <1>2, <1>4, <1>6, <1>9, LoopTypes DEF AtFill
<1>13. OtherDir'
  BY <1>1, OtherKept DEF Before
<1> QED
  BY <1>1, <1>11, <1>12, <1>13 DEF IInv, AtStart, AtCount, AtSum, AtDone, Before

(* One more edge is in its place, and the cursor of its row past it.          *)
LEMMA FillKeeps ==
  ASSUME IInv, Fill
  PROVE  IInv'
<1>1. /\ stage = "fill" /\ stage' = "fill" /\ k <= N /\ k' = k + 1
      /\ UNCHANGED <<edges, num_vertices, dir, row>>
  BY DEF Fill, N
<1>2. /\ RowsBegin(dir) /\ Cursors(dir, k - 1) /\ Vectors(dir, k - 1)
      /\ V' = V /\ N' = N /\ k \in 1 .. N
  BY <1>1, LoopTypes DEF IInv, AtFill, V, N
<1>3. PICK m \in Int, n \in 1 .. N : m = k' /\ n = k /\ m - 1 = n
  BY <1>1, <1>2
<1>4. PICK d \in Dirs : d = dir
  BY LoopTypes
<1>5. PICK v : v = Key(d, n)
  OBVIOUS
<1>6. v \in 0 .. V - 1 /\ v \in 0 .. V
  <2>1. v \in Nat /\ v < V
    BY <1>2, <1>3, <1>4, <1>5, KeyType, LoopTypes DEF RowsBegin, InRange, N
  <2> QED
    BY <2>1, LoopTypes
<1>7. RowOf(edges[k]) = v /\ ColumnOf(edges[k]) = Stored(d, n) /\ edges[k] = edges[n]
  BY <1>3, <1>4, <1>5 DEF RowOf, ColumnOf, Key, Stored, Dirs
<1>8. cursor = [u \in 0 .. V |-> Below(d, u, N) + Rank(d, u, n - 1)]
  BY <1>2, <1>3, <1>4 DEF Cursors
<1>9. cursor[v] = Position(d, n)
  BY <1>5, <1>6, <1>8 DEF Position, N
<1>10. /\ col' = [col EXCEPT ![d][Position(d, n)] = Stored(d, n)]
       /\ attr' = [attr EXCEPT ![d][Position(d, n)] = edges[n].weight]
       /\ cursor' = [cursor EXCEPT ![v] = @ + 1]
  BY <1>4, <1>7, <1>9 DEF Fill
<1>11. /\ col'[d] = [col[d] EXCEPT ![Position(d, n)] = Stored(d, n)]
       /\ attr'[d] = [attr[d] EXCEPT ![Position(d, n)] = edges[n].weight]
       /\ DOMAIN col' = Dirs /\ DOMAIN attr' = Dirs
       /\ \A e \in Dirs \ {d} : col'[e] = col[e] /\ attr'[e] = attr[e]
  BY <1>10, LoopTypes
<1>12. Vectors(dir, k - 1)'
  <2>1. Vectors(d, n - 1)
    BY <1>2, <1>3, <1>4 DEF Vectors
  <2>2. Vectors(d, n)'
    BY <1>1, <1>11, <2>1, LoopTypes, VectorsFilled
  <2> QED
    BY <1>1, <1>3, <1>4, <2>2, ThisDirection
<1>13. RowsBegin(dir)'
  BY <1>1, <1>2, RowsKept, ThisDirection
<1>14. \A u \in 0 .. V : /\ cursor'[u] = Below(d, u, N) + Rank(d, u, n)
                         /\ cursor'[u] \in 0 .. N
  <2> TAKE u \in 0 .. V
  <2>1. Below(d, u, N) \in Nat /\ Rank(d, u, N) \in Nat
        /\ Below(d, u, N) + Rank(d, u, N) <= N
    <3>1. u \in Nat
      OBVIOUS
    <3>2. /\ Below(d, u, N) \in Nat /\ Rank(d, u, N) \in Nat
          /\ Below(d, u + 1, N) = Below(d, u, N) + Rank(d, u, N)
          /\ Below(d, u + 1, N) <= N
      BY <3>1, LoopTypes, RowsInside
    <3> QED
      BY <3>2
  <2>2. Rank(d, u, n) \in Nat /\ Rank(d, u, n) <= Rank(d, u, N)
    <3>1. n \in 0 .. N /\ u \in Nat
      BY LoopTypes
    <3> QED
      BY <3>1, LoopTypes, RankBounds
  <2>3. Rank(d, u, n) = IF v = u THEN Rank(d, u, n - 1) + 1 ELSE Rank(d, u, n - 1)
    BY <1>5, RankNext
  <2>4. cursor'[u] = IF u = v THEN cursor[u] + 1 ELSE cursor[u]
    BY <1>8, <1>10
  <2>5. cursor[u] = Below(d, u, N) + Rank(d, u, n - 1)
    BY <1>8
  <2>6. Rank(d, u, n - 1) \in Nat
    <3>1. n - 1 \in Nat
      OBVIOUS
    <3> QED
      BY <3>1, RankRange
  <2>7. cursor'[u] = Below(d, u, N) + Rank(d, u, n)
    BY <2>1, <2>3, <2>4, <2>5, <2>6
  <2> QED
    BY <2>1, <2>2, <2>7, LoopTypes
<1>15. cursor' = [u \in 0 .. V |-> Below(d, u, N) + Rank(d, u, n)]
  <2>1. cursor' = [u \in 0 .. V |-> cursor'[u]]
    BY <1>8, <1>10
  <2> QED
    BY <1>14, <2>1
<1>16. Cursors(dir, k - 1)'
  <2>1. Cursors(d, n)'
    <3>1. \A u : Below(d, u, N)' = Below(d, u, N) /\ Rank(d, u, n)' = Rank(d, u, n)
      BY <1>1, <1>2 DEF Below, Rank, Key
    <3> QED
      BY <1>2, <1>15, <3>1 DEF Cursors
  <2> QED
    BY <1>1, <1>3, <1>4, <2>1, ThisDirection
<1>17. Types'
  <2>1. \A u \in DOMAIN cursor' : cursor'[u] \in 0 .. N'
    BY <1>2, <1>14, <1>15
  <2> QED
    BY <1>1, <1>3, <1>11, <2>1, LoopTypes DEF IInv, Types
<1>18. AtFill'
  BY <1>1, <1>2, <1>12, <1>13, <1>16, LoopTypes DEF AtFill
<1>19. OtherDir'
  BY <1>1, <1>4, <1>11, OtherKept DEF Before
<1> QED
  BY <1>1, <1>17, <1>18, <1>19 DEF IInv, AtStart, AtCount, AtSum, AtDone, Before

LEMMA OutgoingBuiltKeeps ==
  ASSUME IInv, OutgoingBuilt
  PROVE  IInv'
<1>1. /\ stage = "fill" /\ k > N /\ dir = "out" /\ Allocate("in", N)
      /\ stage' = "count" /\ dir' = "in" /\ k' = 1
      /\ UNCHANGED <<edges, num_vertices, cursor>>
  BY DEF OutgoingBuilt, N
<1>2. /\ RowsBegin("out") /\ V' = V /\ N' = N /\ k - 1 = N
  BY <1>1, LoopTypes DEF IInv, AtFill, V, N
<1>3. Vectors("out", N)
  BY <1>1, <1>2 DEF IInv, AtFill
<1>4. /\ row'["in"] = [v \in 0 .. V' |-> 0]
      /\ col'["in"] = [pos \in 0 .. N' - 1 |-> 0]
      /\ attr'["in"] = [pos \in 0 .. N' - 1 |-> 0]
      /\ row'["out"] = row["out"] /\ col'["out"] = col["out"] /\ attr'["out"] = attr["out"]
      /\ DOMAIN row' = Dirs /\ DOMAIN col' = Dirs /\ DOMAIN attr' = Dirs
  BY <1>1, <1>2, LoopTypes DEF Allocate, Dirs, V
<1>5. Counting("in", 0)' /\ Vectors("in", 0)'
  <2>1. N' \in Nat /\ V' \in Nat /\ "in" \in Dirs
    BY <1>2, LoopTypes DEF Dirs
  <2> QED
    BY <1>4, <2>1, RowsFresh, VectorsFresh
<1>6. RowsBegin("out")' /\ Vectors("out", N)'
  <2>1. RowsBegin("out")'
    BY <1>1, <1>2, <1>4, RowsKept
  <2>2. ASSUME NEW n, n = N PROVE Vectors("out", n)'
    BY <1>1, <1>3, <1>4, <2>2, VectorsKept
  <2> QED
    BY <1>2, <2>1, <2>2 DEF Vectors
<1>7. Types'
  <2>1. \A v \in DOMAIN cursor' : cursor'[v] \in 0 .. N'
    BY <1>1, <1>2 DEF IInv, Types
  <2> QED
    BY <1>1, <1>4, <2>1 DEF IInv, Types, Stages, Dirs
<1>8. AtCount'
  <2>1. dir' = "in" /\ k' - 1 = 0 /\ k' <= N' + 1
    BY <1>1, <1>2, LoopTypes
  <2> QED
    BY <1>5, <2>1 DEF AtCount
<1>9. OtherDir'
  BY <1>1, <1>6 DEF OtherDir, Built
<1> QED
  BY <1>1, <1>7, <1>8, <1>9 DEF IInv, AtStart, AtSum, AtFill, AtDone, Before

LEMMA IncomingBuiltKeeps ==
  ASSUME IInv, IncomingBuilt
  PROVE  IInv'
<1>1. /\ stage = "fill" /\ k > N /\ dir = "in" /\ stage' = "done"
      /\ UNCHANGED <<edges, num_vertices, dir, k, row, col, attr, cursor>>
  BY DEF IncomingBuilt, N
<1>2. /\ RowsBegin("in") /\ V' = V /\ N' = N /\ k - 1 = N
  BY <1>1, LoopTypes DEF IInv, AtFill, V, N
<1>3. Vectors("in", N)
  BY <1>1, <1>2 DEF IInv, AtFill
<1>4. RowsBegin("in")' /\ Vectors("in", N)'
  <2>1. RowsBegin("in")'
    BY <1>1, <1>2, RowsKept
  <2>2. ASSUME NEW n, n = N PROVE Vectors("in", n)'
    BY <1>1, <1>3, <2>2, VectorsKept
  <2> QED
    BY <1>2, <2>1, <2>2 DEF Vectors
<1>5. Types'
  BY <1>1, <1>2 DEF IInv, Types, Stages
<1>6. AtDone'
  BY <1>1, <1>4 DEF AtDone, Built
<1>7. OtherDir'
  BY <1>1, OtherKept DEF Before
<1> QED
  BY <1>1, <1>5, <1>6, <1>7 DEF IInv, AtStart, AtCount, AtSum, AtFill, Before

LEMMA StutterKeeps ==
  ASSUME IInv, UNCHANGED vars
  PROVE  IInv'
<1>1. UNCHANGED <<edges, num_vertices, stage, dir, k, row, col, attr, cursor>>
  BY DEF vars
<1>2. \A d, n : /\ Counting(d, n) => Counting(d, n)'
                /\ Summing(d, n) => Summing(d, n)'
                /\ RowsBegin(d) => RowsBegin(d)'
                /\ Cursors(d, n) => Cursors(d, n)'
                /\ Vectors(d, n) => Vectors(d, n)'
                /\ Unbuilt(d) => Unbuilt(d)'
  <2> TAKE d, n
  <2>1. Counting(d, n) => Counting(d, n)'
    BY <1>1 DEF Counting, InRange, Rank, Key, V
  <2>2. Summing(d, n) => Summing(d, n)'
    BY <1>1 DEF Summing, InRange, Rank, Below, Key, V, N
  <2>3. RowsBegin(d) => RowsBegin(d)'
    BY <1>1, RowsKept DEF V
  <2>4. Cursors(d, n) => Cursors(d, n)'
    BY <1>1 DEF Cursors, Rank, Below, Key, V, N
  <2>5. Vectors(d, n) => Vectors(d, n)'
    BY <1>1, VectorsKept
  <2>6. Unbuilt(d) => Unbuilt(d)'
    BY <1>1 DEF Unbuilt
  <2> QED
    BY <2>1, <2>2, <2>3, <2>4, <2>5, <2>6
<1>3. PICK d, m : d = dir /\ m = k
  OBVIOUS
<1>4. PICK n \in Nat : n = N
  BY LoopTypes
<1>5. /\ Counting(dir, k - 1) => Counting(dir, k - 1)'
      /\ Summing(dir, k) => Summing(dir, k)'
      /\ RowsBegin(dir) => RowsBegin(dir)'
      /\ Vectors(dir, 0) => Vectors(dir, 0)'
      /\ Vectors(dir, k - 1) => Vectors(dir, k - 1)'
      /\ Cursors(dir, k - 1) => Cursors(dir, k - 1)'
  <2>1. /\ dir' = dir /\ m = k'
    BY <1>1, <1>3
  <2>2. /\ Counting(dir, k - 1) => Counting(dir, k - 1)'
        /\ Summing(dir, k) => Summing(dir, k)'
        /\ RowsBegin(dir) => RowsBegin(dir)'
    BY <1>2, <1>3, <2>1, ThisDirection
  <2> QED
    BY <1>2, <1>3, <2>1, <2>2, ThisDirection
<1>6. \A e : Built(e) => Built(e)'
  <2> SUFFICES ASSUME NEW e, Built(e) PROVE Built(e)'
    OBVIOUS
  <2>1. RowsBegin(e)' /\ Vectors(e, n)'
    BY <1>2, <1>4 DEF Built
  <2> QED
    BY <1>1, <1>4, <2>1 DEF Built, Vectors, N
<1>7. Types'
  BY <1>1 DEF IInv, Types, N
<1>8. AtStart'
  BY <1>1, <1>2 DEF IInv, AtStart
<1>9. AtCount' /\ AtSum' /\ AtFill'
  BY <1>1, <1>5 DEF IInv, AtCount, AtSum, AtFill, N, V
<1>10. AtDone' /\ OtherDir'
  BY <1>1, <1>2, <1>6 DEF IInv, AtDone, OtherDir
<1> QED
  BY <1>7, <1>8, <1>9, <1>10 DEF IInv

(* The arrays of a direction are as the invariant has them in every reachable *)
(* state of building a graph, whatever the file and wherever it is cut off.   *)
THEOREM Invariance == Spec => []IInv
<1>1. IInv /\ [Next]_vars => IInv'
  <2> SUFFICES ASSUME IInv, [Next]_vars PROVE IInv'
    OBVIOUS
  <2> USE DEF Next
  <2>1. CASE \E src, dst \in Ids, weight \in Weights \cup {NoWeight} : ParseLine(src, dst, weight)
    BY <2>1, ParseKeeps
  <2>2. CASE Write
    BY <2>2, WriteKeeps
  <2>3. CASE BadLine \/ NoCount
    BY <2>3, RefusedKeeps
  <2>4. CASE \E n \in 0 .. Len(edges) : ReadFile(n)
    BY <2>4, ReadFileKeeps
  <2>5. CASE Count
    BY <2>5, CountKeeps
  <2>6. CASE Counted
    BY <2>6, CountedKeeps
  <2>7. CASE Sum
    BY <2>7, SumKeeps
  <2>8. CASE Summed
    BY <2>8, SummedKeeps
  <2>9. CASE Fill
    BY <2>9, FillKeeps
  <2>10. CASE OutgoingBuilt
    BY <2>10, OutgoingBuiltKeeps
  <2>11. CASE IncomingBuilt
    BY <2>11, IncomingBuiltKeeps
  <2>12. CASE UNCHANGED vars
    BY <2>12, StutterKeeps
  <2> QED
    BY <2>1, <2>2, <2>3, <2>4, <2>5, <2>6, <2>7, <2>8, <2>9, <2>10, <2>11, <2>12
<1> QED
  BY <1>1, InitIInv, PTL DEF Spec

-----------------------------------------------------------------------------
(* What the invariant says of one direction.                                  *)
LEMMA RowsTyped ==
  ASSUME Types, NEW d \in Dirs, NEW n \in 0 .. N, NEW m,
         Counting(d, n) \/ Summing(d, m) \/ RowsBegin(d) \/ Unbuilt(d)
  PROVE  \A v \in DOMAIN row[d] : row[d][v] \in 0 .. N
<1>1. N \in Nat /\ n \in Nat /\ n <= N
  BY DEF Types, N
<1>2. \A v : Rank(d, v, n) \in 0 .. N /\ Rank(d, v, N) \in 0 .. N /\ Below(d, v, N) \in 0 .. N
  <2> TAKE v
  <2>1. Rank(d, v, n) \in Nat /\ Rank(d, v, n) <= n
    BY <1>1, RankRange
  <2>2. Rank(d, v, N) \in Nat /\ Rank(d, v, N) <= N
    BY <1>1, RankRange
  <2>3. Below(d, v, N) \in Nat /\ Below(d, v, N) <= N
    BY <1>1, BelowRange
  <2> QED
    BY <1>1, <2>1, <2>2, <2>3
<1>3. CASE Counting(d, n)
  BY <1>2, <1>3 DEF Counting
<1>4. CASE Summing(d, m)
  BY <1>2, <1>4 DEF Summing
<1>5. CASE RowsBegin(d)
  BY <1>2, <1>5 DEF RowsBegin
<1>6. CASE Unbuilt(d)
  BY <1>6 DEF Unbuilt, EmptyVector
<1> QED
  BY <1>3, <1>4, <1>5, <1>6

(* The phases of a direction, in whichever stage the build is.                *)
LEMMA Phases ==
  ASSUME IInv, NEW d \in Dirs
  PROVE  /\ Unbuilt(d) \/ (\E n \in 0 .. N : Vectors(d, n))
         /\ Unbuilt(d) \/ RowsBegin(d)
            \/ (\E n \in 0 .. N : Counting(d, n)) \/ (\E m \in Nat : Summing(d, m))
<1>1. CASE stage \in Before
  BY <1>1 DEF IInv, AtStart, Dirs
<1>2. CASE stage \notin Before /\ d # dir
  <2>1. Unbuilt(d) \/ Built(d)
    BY <1>2 DEF IInv, OtherDir, Dirs, Types
  <2> QED
    BY <2>1, LoopTypes DEF Built
<1>3. CASE stage \in {"count", "fault"} /\ d = dir
  <2>1. k - 1 \in 0 .. N /\ 0 \in 0 .. N /\ Counting(d, k - 1) /\ Vectors(d, 0)
    BY <1>3, LoopTypes DEF IInv, AtCount
  <2> QED
    BY <2>1
<1>4. CASE stage = "sum" /\ d = dir
  <2>1. k \in Nat /\ 0 \in 0 .. N /\ Summing(d, k) /\ Vectors(d, 0)
    BY <1>4, LoopTypes DEF IInv, AtSum
  <2> QED
    BY <2>1
<1>5. CASE stage = "fill" /\ d = dir
  <2>1. k - 1 \in 0 .. N /\ RowsBegin(d) /\ Vectors(d, k - 1)
    BY <1>5, LoopTypes DEF IInv, AtFill
  <2> QED
    BY <2>1
<1>6. CASE stage = "done" /\ d = dir
  <2>1. RowsBegin(d) /\ Vectors(d, N) /\ N \in 0 .. N
    BY <1>6, LoopTypes DEF IInv, AtDone, Built
  <2> QED
    BY <2>1
<1> QED
  BY <1>1, <1>2, <1>3, <1>4, <1>5, <1>6 DEF IInv, Types, Stages, Before

LEMMA TypesHold ==
  ASSUME IInv
  PROVE  TypeOK
<1>1. Types
  BY DEF IInv
<1>2. ASSUME NEW d \in Dirs PROVE \A v \in DOMAIN row[d] : row[d][v] \in 0 .. N
  <2>1. 0 \in 0 .. N
    BY LoopTypes
  <2>2. CASE Unbuilt(d) \/ RowsBegin(d)
    BY <1>1, <2>1, <2>2, RowsTyped
  <2>3. CASE \E n \in 0 .. N : Counting(d, n)
    BY <1>1, <2>3, RowsTyped
  <2>4. CASE \E m \in Nat : Summing(d, m)
    BY <1>1, <2>1, <2>4, RowsTyped
  <2> QED
    BY <2>2, <2>3, <2>4, Phases
<1>3. ASSUME NEW d \in Dirs PROVE DOMAIN col[d] = DOMAIN attr[d]
  <2>1. CASE Unbuilt(d)
    BY <2>1 DEF Unbuilt
  <2>2. CASE \E n \in 0 .. N : Vectors(d, n)
    BY <2>2 DEF Vectors
  <2> QED
    BY <2>1, <2>2, Phases
<1> QED
  BY <1>1, <1>2, <1>3 DEF TypeOK, Types, Stages, Dirs, Lines, N

LEMMA CursorsHold ==
  ASSUME IInv
  PROVE  CursorInRow
<1> SUFFICES ASSUME stage = "fill", NEW v \in 0 .. num_vertices - 1
             PROVE  /\ cursor[v] \in row[dir][v] .. row[dir][v + 1]
                    /\ cursor[v] - row[dir][v]
                         = Cardinality({i \in 1 .. k - 1 : RowOf(edges[i]) = v})
  BY DEF CursorInRow
<1>1. PICK d \in Dirs, n \in 0 .. N : d = dir /\ n = k - 1
  BY LoopTypes DEF IInv, AtFill
<1>2. RowsBegin(d) /\ Cursors(d, n)
  BY <1>1 DEF IInv, AtFill
<1>3. v \in Nat /\ v \in 0 .. V /\ v + 1 \in 0 .. V
  BY LoopTypes DEF V
<1>4. /\ row[d][v] = Below(d, v, N) /\ row[d][v + 1] = Below(d, v + 1, N)
      /\ cursor[v] = Below(d, v, N) + Rank(d, v, n)
  BY <1>2, <1>3 DEF RowsBegin, Cursors
<1>5. /\ Below(d, v, N) \in Nat /\ Rank(d, v, N) \in Nat
      /\ Below(d, v + 1, N) = Below(d, v, N) + Rank(d, v, N)
  BY <1>3, LoopTypes, RowsInside
<1>6. Rank(d, v, n) \in Nat /\ Rank(d, v, n) <= Rank(d, v, N)
  BY <1>3, LoopTypes, RankBounds
<1>7. Rank(d, v, n) = Cardinality({i \in 1 .. k - 1 : RowOf(edges[i]) = v})
  BY <1>1 DEF Rank, Key, RowOf
<1> QED
  BY <1>1, <1>4, <1>5, <1>6, <1>7

(* A direction that is built is a graph in compressed form.                   *)
LEMMA BuiltIsCSR ==
  ASSUME Types, NEW d \in Dirs, Built(d),
         \A i \in 1 .. N : Stored(d, i) \in 0 .. V - 1 /\ Key(d, i) \in 0 .. V - 1
  PROVE  IsCSR(V, N, row[d], col[d], attr[d])
<1>1. N \in Nat /\ V \in Nat /\ edges \in Seq(Lines) /\ N \in 0 .. Len(edges)
  BY DEF Types, N, V
<1>2. row[d] = [v \in 0 .. V |-> Below(d, v, N)]
  BY DEF Built, RowsBegin
<1>3. \A v \in 0 .. V : Below(d, v, N) \in 0 .. N
  BY <1>1, BelowRange
<1>4. Below(d, 0, N) = 0
  BY <1>1, BelowFirst
<1>5. Below(d, V, N) = N
  <2>1. \A j \in 1 .. N : Key(d, j) < V
    BY <1>1
  <2> QED
    BY <1>1, <2>1, BelowAll
<1>6. \A v \in 0 .. V - 1 : Below(d, v, N) <= Below(d, v + 1, N)
  <2> TAKE v \in 0 .. V - 1
  <2>1. v \in Nat /\ v + 1 \in Nat /\ v <= v + 1
    BY <1>1
  <2> QED
    BY <1>1, <2>1, BelowMonotone
<1>7. col[d] \in [0 .. N - 1 -> 0 .. V - 1]
  <2>1. col[d] \in [0 .. N - 1 -> Nat]
    BY DEF Built, Vectors
  <2>2. ASSUME NEW pos \in 0 .. N - 1 PROVE col[d][pos] \in 0 .. V - 1
    <3>1. 1 \in 1 .. N /\ 0 \in 0 .. V - 1
      BY <1>1
    <3> QED
      BY <3>1 DEF Built, Vectors
  <2> QED
    BY <2>1, <2>2
<1>8. attr[d] \in [0 .. N - 1 -> Double]
  BY DEF Built, Vectors
<1>9. row[d] \in [0 .. V -> 0 .. N]
  BY <1>2, <1>3
<1>10. row[d][0] = 0 /\ row[d][V] = N
  BY <1>1, <1>2, <1>4, <1>5
<1>11. \A v \in 0 .. V - 1 : row[d][v] <= row[d][v + 1]
  BY <1>1, <1>2, <1>6
<1> QED
  BY <1>7, <1>8, <1>9, <1>10, <1>11 DEF IsCSR

LEMMA RowsHold ==
  ASSUME IInv
  PROVE  RowsMatchFile
<1> SUFFICES ASSUME stage = "done" PROVE RowsMatchFile
  BY DEF RowsMatchFile
<1>1. /\ Types /\ dir = "in" /\ Built("in") /\ Built("out")
  BY DEF IInv, AtDone, OtherDir, Before
<1>2. N \in Nat /\ V \in Nat /\ edges \in Seq(Lines) /\ N = Len(edges) /\ V = num_vertices
  BY <1>1 DEF Types, N, V
<1>3. \A d \in Dirs : Built(d)
  BY <1>1 DEF Dirs
<1>4. \A d \in Dirs, i \in 1 .. N : Key(d, i) \in 0 .. V - 1
  <2> TAKE d \in Dirs, i \in 1 .. N
  <2>1. Key(d, i) \in Nat
    BY <1>2, KeyType
  <2>2. Key(d, i) < V
    BY <1>3 DEF Built, RowsBegin, InRange
  <2> QED
    BY <1>2, <2>1, <2>2
<1>5. \A d \in Dirs, i \in 1 .. N : Stored(d, i) \in 0 .. V - 1
  BY <1>4 DEF Stored, Key, Dirs
<1>6. \A d \in Dirs : IsCSR(V, N, row[d], col[d], attr[d])
  BY <1>1, <1>3, <1>4, <1>5, BuiltIsCSR
<1>7. IsGraph(Graph)
  BY <1>2, <1>6 DEF IsGraph, Graph, Dirs
<1>8. \A d \in Dirs, v \in 0 .. V - 1 : row[d][v + 1] - row[d][v] = Rank(d, v, N)
  <2> TAKE d \in Dirs, v \in 0 .. V - 1
  <2>1. v \in Nat /\ v \in 0 .. V /\ v + 1 \in 0 .. V
    BY <1>2
  <2>2. /\ Below(d, v, N) \in Nat /\ Rank(d, v, N) \in Nat
        /\ Below(d, v + 1, N) = Below(d, v, N) + Rank(d, v, N)
    BY <1>2, <2>1, RowsInside
  <2>3. row[d][v] = Below(d, v, N) /\ row[d][v + 1] = Below(d, v + 1, N)
    BY <1>3, <2>1 DEF Built, RowsBegin
  <2> QED
    BY <2>2, <2>3
<1>9. \A v \in Vertices(Graph) : /\ out_degree(Graph, v) = Rank("out", v, Len(edges))
                                 /\ in_degree(Graph, v) = Rank("in", v, Len(edges))
  BY <1>2, <1>8 DEF Vertices, Graph, out_degree, in_degree, Dirs
<1>10. ASSUME NEW i \in 1 .. Len(edges), NEW d \in {"out", "in"}
       PROVE  LET v   == Key(d, i)
                  pos == row[d][v] + Rank(d, v, i - 1)
              IN  /\ v \in Vertices(Graph)
                  /\ col[d][pos] = (IF d = "out" THEN edges[i].dst ELSE edges[i].src)
                  /\ attr[d][pos] = edges[i].weight
  <2>1. d \in Dirs /\ i \in 1 .. N
    BY <1>2 DEF Dirs
  <2>2. Key(d, i) \in 0 .. V - 1 /\ Key(d, i) \in 0 .. V
    BY <1>2, <1>4, <2>1
  <2>3. row[d][Key(d, i)] = Below(d, Key(d, i), N)
    BY <1>3, <2>1, <2>2 DEF Built, RowsBegin
  <2>4. row[d][Key(d, i)] + Rank(d, Key(d, i), i - 1) = Position(d, i)
    BY <1>2, <2>3 DEF Position
  <2>5. col[d][Position(d, i)] = Stored(d, i) /\ attr[d][Position(d, i)] = edges[i].weight
    BY <1>3, <2>1 DEF Built, Vectors
  <2> QED
    BY <1>2, <2>2, <2>4, <2>5 DEF Stored, Vertices, Graph
<1> QED
  BY <1>7, <1>9, <1>10 DEF RowsMatchFile

-----------------------------------------------------------------------------
(* The loops compute the operator build.  The recursive functions it is made  *)
(* of are determined by their equations, which the numbers above satisfy.     *)
LEMMA FirstNatural ==
  ASSUME NEW T \in SUBSET Nat, T # {}
  PROVE  \E n \in T : \A m \in T : n <= m
<1> DEFINE R == {ss \in Nat \X Nat : ss[1] < ss[2]}
<1>1. IsWellFoundedOn(R, Nat)
  BY NatLessThanWellFounded DEF OpToRel
<1>2. \A m \in T, n \in T : m < n => <<m, n>> \in R
  OBVIOUS
<1> HIDE DEF R
<1>3. PICK n \in T : \A m \in T : ~(<<m, n>> \in R)
  BY <1>1, WFMin
<1>4. \A m \in T : n \in Nat /\ m \in Nat /\ ~(m < n)
  BY <1>2, <1>3
<1> QED
  BY <1>4

(* Two functions on 0 .. m that begin alike, and stay alike, are the same. *)
LEMMA SameByStep ==
  ASSUME NEW m \in Nat, NEW f, NEW h,
         DOMAIN f = 0 .. m, DOMAIN h = 0 .. m, f = [n \in 0 .. m |-> f[n]],
         h = [n \in 0 .. m |-> h[n]], f[0] = h[0],
         \A n \in 1 .. m : f[n - 1] = h[n - 1] => f[n] = h[n]
  PROVE  f = h
<1> DEFINE Differ == {n \in 0 .. m : f[n] # h[n]}
<1>1. Differ = {}
  <2> SUFFICES ASSUME Differ # {} PROVE FALSE
    OBVIOUS
  <2>1. Differ \in SUBSET Nat
    OBVIOUS
  <2>2. PICK n \in Differ : \A j \in Differ : n <= j
    <3> HIDE DEF Differ
    <3> QED
      BY <2>1, FirstNatural
  <2>3. n \in 1 .. m /\ n - 1 \in 0 .. m /\ ~(n <= n - 1) /\ f[n] # h[n]
    OBVIOUS
  <2>4. n - 1 \notin Differ
    <3> HIDE DEF Differ
    <3> QED
      BY <2>2, <2>3
  <2> QED
    BY <2>3, <2>4
<1>2. \A n \in 0 .. m : f[n] = h[n]
  BY <1>1
<1> QED
  BY <1>2

(* The keys that build sorts a direction by. *)
Keys(d)  == [i \in 1 .. N |-> Key(d, i)]
Begin(d) == [v \in 0 .. V |-> Below(d, v, N)]

LEMMA OffsetsAre ==
  ASSUME edges \in Seq(Lines), V \in Nat, NEW d \in Dirs
  PROVE  Offsets(Keys(d), V) = Begin(d)
<1> DEFINE Degree  == [v \in 0 .. V |-> Cardinality({j \in DOMAIN Keys(d) : Keys(d)[j] + 1 = v})]
           Sums(f) == [v \in 0 .. V |-> IF v = 0 THEN Degree[0] ELSE f[v - 1] + Degree[v]]
<1>1. N \in Nat /\ N \in 0 .. Len(edges) /\ N = Len(edges)
  BY DEF N
<1>2. ASSUME NEW v \in 0 .. V PROVE Degree[v] = Rank(d, v - 1, N)
  <2>1. DOMAIN Keys(d) = 1 .. N /\ \A j \in 1 .. N : Keys(d)[j] = Key(d, j)
    BY DEF Keys
  <2>2. \A j \in 1 .. N : Key(d, j) \in Nat
    BY <1>1, KeyType
  <2>3. {j \in DOMAIN Keys(d) : Keys(d)[j] + 1 = v} = {j \in 1 .. N : Key(d, j) = v - 1}
    BY <2>1, <2>2
  <2> QED
    BY <2>3 DEF Rank
<1>3. Begin(d) = Sums(Begin(d))
  <2>1. Below(d, 0, N) = 0 /\ Rank(d, -1, N) = 0
    BY <1>1, BelowFirst
  <2>2. 0 \in 0 .. V /\ 0 - 1 = -1
    OBVIOUS
  <2>3. Below(d, 0, N) = Degree[0]
    BY <1>2, <2>1, <2>2
  <2>4. ASSUME NEW v \in 0 .. V, v # 0
        PROVE  Below(d, v, N) = Begin(d)[v - 1] + Degree[v]
    <3>1. v - 1 \in Nat /\ v - 1 \in 0 .. V /\ (v - 1) + 1 = v
      BY <2>4
    <3>2. Below(d, (v - 1) + 1, N) = Below(d, v - 1, N) + Rank(d, v - 1, N)
      BY <1>1, <3>1, BelowNext
    <3>3. Begin(d)[v - 1] = Below(d, v - 1, N)
      BY <3>1 DEF Begin
    <3> HIDE DEF Degree
    <3> QED
      BY <1>2, <3>1, <3>2, <3>3
  <2> HIDE DEF Degree
  <2> QED
    BY <2>3, <2>4 DEF Begin
<1>4. Offsets(Keys(d), V) = CHOOSE f : f = Sums(f)
  BY DEF Offsets
<1> HIDE DEF Sums
<1>5. PICK f : f = Offsets(Keys(d), V)
  OBVIOUS
<1>6. f = Sums(f)
  BY <1>3, <1>4, <1>5
<1> USE DEF Sums
<1> HIDE DEF Degree
<1>7. DOMAIN f = 0 .. V /\ f = [v \in 0 .. V |-> f[v]] /\ f[0] = Degree[0]
      /\ \A v \in 1 .. V : f[v] = f[v - 1] + Degree[v]
  BY <1>6
<1>8. DOMAIN Begin(d) = 0 .. V /\ Begin(d) = [v \in 0 .. V |-> Begin(d)[v]]
      /\ Begin(d)[0] = Degree[0]
      /\ \A v \in 1 .. V : Begin(d)[v] = Begin(d)[v - 1] + Degree[v]
  <2>1. PICK h : h = Begin(d)
    OBVIOUS
  <2>2. h = Sums(h)
    BY <1>3, <2>1
  <2>3. DOMAIN h = 0 .. V /\ h = [v \in 0 .. V |-> h[v]] /\ h[0] = Degree[0]
        /\ \A v \in 1 .. V : h[v] = h[v - 1] + Degree[v]
    BY <2>2
  <2> QED
    BY <2>1, <2>3
<1>9. \A v \in 1 .. V : f[v - 1] = Begin(d)[v - 1] => f[v] = Begin(d)[v]
  BY <1>7, <1>8
<1>10. f = Begin(d)
  BY <1>7, <1>8, <1>9, SameByStep
<1> QED
  BY <1>5, <1>10

(* Every position receives an edge. *)
LEMMA PositionsCover ==
  ASSUME edges \in Seq(Lines), NEW d \in Dirs, NEW pos \in 0 .. N - 1
  PROVE  \E i \in 1 .. N : Position(d, i) = pos
<1> SUFFICES ASSUME \A i \in 1 .. N : Position(d, i) # pos PROVE FALSE
  OBVIOUS
<1> DEFINE Places == (0 .. N - 1) \ {pos}
           place  == [i \in 1 .. N |-> Position(d, i)]
<1>1. N \in Nat /\ N = Len(edges)
  BY DEF N
<1>2. \A i \in 1 .. N : Position(d, i) \in Nat /\ Position(d, i) < N
  BY <1>1, PositionType
<1>3. place \in [1 .. N -> Places]
  BY <1>1, <1>2
<1>4. IsFiniteSet(1 .. N) /\ Cardinality(1 .. N) = N
  <2>1. 1 \in Int /\ N \in Int /\ ~(1 > N) /\ N - 1 + 1 = N
    BY <1>1
  <2>2. IsFiniteSet(1 .. N) /\ Cardinality(1 .. N) = IF 1 > N THEN 0 ELSE N - 1 + 1
    BY <2>1, FS_Interval
  <2> QED
    BY <2>1, <2>2
<1>5. IsFiniteSet(0 .. N - 1) /\ Cardinality(0 .. N - 1) = N
  <2>1. 0 \in Int /\ N - 1 \in Int /\ ~(0 > N - 1) /\ (N - 1) - 0 + 1 = N
    BY <1>1
  <2>2. /\ IsFiniteSet(0 .. N - 1)
        /\ Cardinality(0 .. N - 1) = IF 0 > N - 1 THEN 0 ELSE (N - 1) - 0 + 1
    BY <2>1, FS_Interval
  <2> QED
    BY <2>1, <2>2
<1>6. IsFiniteSet(Places) /\ Cardinality(Places) = N - 1
  BY <1>5, FS_RemoveElement
<1>7. Cardinality(Places) < Cardinality(1 .. N)
  BY <1>1, <1>4, <1>6
<1> HIDE DEF Places, place
<1>8. PICK i, j \in 1 .. N : i # j /\ place[i] = place[j]
  BY <1>3, <1>4, <1>6, <1>7, FS_PigeonHole
<1>9. Position(d, i) = Position(d, j)
  BY <1>8 DEF place
<1>10. i \in 1 .. Len(edges) /\ j \in 1 .. Len(edges) /\ (i < j \/ j < i)
  BY <1>1, <1>8
<1> QED
  BY <1>9, <1>10, PositionsDiffer

(* The edge that build has put in a position, and where the cursors are, after*)
(* the first n edges.                                                         *)
PlacedAt(d, n, pos) ==
  IF \E i \in 1 .. n : Position(d, i) = pos
  THEN CHOOSE i \in 1 .. n : Position(d, i) = pos
  ELSE 0
Filled(d, n) ==
  [cursor |-> [v \in 0 .. V |-> Below(d, v, N) + Rank(d, v, n)],
   edge   |-> [pos \in 0 .. N - 1 |-> PlacedAt(d, n, pos)]]

LEMMA PlacedHere ==
  ASSUME edges \in Seq(Lines), NEW d \in Dirs, NEW n \in 0 .. N, NEW i \in 1 .. n
  PROVE  PlacedAt(d, n, Position(d, i)) = i
<1>1. N \in Nat /\ N = Len(edges)
  BY DEF N
<1>2. PICK j : j = PlacedAt(d, n, Position(d, i))
  OBVIOUS
<1>3. j \in 1 .. n /\ Position(d, j) = Position(d, i)
  BY <1>2 DEF PlacedAt
<1>4. i \in 1 .. Len(edges) /\ j \in 1 .. Len(edges)
  BY <1>1, <1>3
<1>5. ~(i < j) /\ ~(j < i)
  BY <1>3, <1>4, PositionsDiffer
<1> QED
  BY <1>2, <1>4, <1>5

LEMMA PlacedNext ==
  ASSUME edges \in Seq(Lines), NEW d \in Dirs, NEW n \in 1 .. N, NEW pos \in 0 .. N - 1
  PROVE  PlacedAt(d, n, pos) = IF pos = Position(d, n) THEN n ELSE PlacedAt(d, n - 1, pos)
<1>1. N \in Nat /\ n - 1 \in 0 .. N /\ n \in 0 .. N /\ n \in 1 .. n
  BY DEF N
<1>2. CASE pos = Position(d, n)
  BY <1>1, <1>2, PlacedHere
<1>3. CASE pos # Position(d, n)
  <2>1. CASE \E i \in 1 .. n - 1 : Position(d, i) = pos
    <3>1. PICK i \in 1 .. n - 1 : Position(d, i) = pos
      BY <2>1
    <3>2. i \in 1 .. n
      OBVIOUS
    <3>3. PlacedAt(d, n, pos) = i /\ PlacedAt(d, n - 1, pos) = i
      BY <1>1, <3>1, <3>2, PlacedHere
    <3> QED
      BY <1>3, <3>3
  <2>2. CASE ~ \E i \in 1 .. n - 1 : Position(d, i) = pos
    <3>1. ~ \E i \in 1 .. n : Position(d, i) = pos
      <4>1. \A i \in 1 .. n : i = n \/ i \in 1 .. n - 1
        OBVIOUS
      <4> QED
        BY <1>3, <2>2, <4>1
    <3> QED
      BY <1>3, <2>2, <3>1 DEF PlacedAt
  <2> QED
    BY <2>1, <2>2
<1> QED
  BY <1>2, <1>3

(* One edge more moves the cursor of its row on. *)
LEMMA FilledNext ==
  ASSUME edges \in Seq(Lines), V \in Nat, NEW d \in Dirs, InRange(d, N), NEW n \in 1 .. N
  PROVE  Filled(d, n) =
           [cursor |-> [Filled(d, n - 1).cursor EXCEPT ![Keys(d)[n]] = @ + 1],
            edge   |-> [Filled(d, n - 1).edge EXCEPT ![Filled(d, n - 1).cursor[Keys(d)[n]]] = n]]
<1>1. N \in Nat /\ N = Len(edges) /\ n \in Nat \ {0} /\ n - 1 \in Nat
  BY DEF N
<1>2. PICK key : key = Keys(d)[n]
  OBVIOUS
<1>3. key = Key(d, n)
  BY <1>2 DEF Keys
<1>4. key \in 0 .. V
  <2>1. key \in Nat
    BY <1>1, <1>3, KeyType
  <2>2. key < V
    BY <1>3 DEF InRange
  <2> QED
    BY <2>1, <2>2
<1>5. PICK before : before = [v \in 0 .. V |-> Below(d, v, N) + Rank(d, v, n - 1)]
  OBVIOUS
<1>6. PICK placed : placed = [pos \in 0 .. N - 1 |-> PlacedAt(d, n - 1, pos)]
  OBVIOUS
<1>7. Filled(d, n - 1).cursor = before /\ Filled(d, n - 1).edge = placed
  BY <1>5, <1>6 DEF Filled
<1>8. before[key] = Position(d, n)
  BY <1>1, <1>3, <1>4, <1>5 DEF Position
<1>9. [v \in 0 .. V |-> Below(d, v, N) + Rank(d, v, n)] = [before EXCEPT ![key] = @ + 1]
  <2>1. ASSUME NEW v \in 0 .. V
        PROVE  Below(d, v, N) + Rank(d, v, n)
                 = IF v = key THEN before[key] + 1 ELSE before[v]
    <3>1. Rank(d, v, n) = IF key = v THEN Rank(d, v, n - 1) + 1 ELSE Rank(d, v, n - 1)
      BY <1>1, <1>3, RankNext
    <3>2. Rank(d, v, n - 1) \in Nat /\ Below(d, v, N) \in Nat
      BY <1>1, RankRange, BelowRange
    <3>3. before[v] = Below(d, v, N) + Rank(d, v, n - 1)
      BY <1>5
    <3> QED
      BY <3>1, <3>2, <3>3
  <2>2. DOMAIN before = 0 .. V
    BY <1>5
  <2> QED
    BY <2>1, <2>2
<1>10. [pos \in 0 .. N - 1 |-> PlacedAt(d, n, pos)] = [placed EXCEPT ![before[key]] = n]
  <2>1. DOMAIN placed = 0 .. N - 1 /\ \A pos \in 0 .. N - 1 : placed[pos] = PlacedAt(d, n - 1, pos)
    BY <1>6
  <2>2. \A pos \in 0 .. N - 1 :
          PlacedAt(d, n, pos) = IF pos = before[key] THEN n ELSE placed[pos]
    BY <1>8, <2>1, PlacedNext
  <2> QED
    BY <2>1, <2>2
<1> QED
  BY <1>2, <1>7, <1>9, <1>10 DEF Filled

LEMMA PlacementIs ==
  ASSUME edges \in Seq(Lines), V \in Nat, NEW d \in Dirs, InRange(d, N)
  PROVE  Placement(Keys(d), V) = [pos \in 0 .. N - 1 |-> PlacedAt(d, N, pos)]
<1> DEFINE First   == [cursor |-> Offsets(Keys(d), V), edge |-> [pos \in 0 .. N - 1 |-> 0]]
           Turn(n, before) ==
             [cursor |-> [before.cursor EXCEPT ![Keys(d)[n]] = @ + 1],
              edge   |-> [before.edge EXCEPT ![before.cursor[Keys(d)[n]]] = n]]
           Fills(f) == [n \in 0 .. N |-> IF n = 0 THEN First ELSE Turn(n, f[n - 1])]
           all      == [n \in 0 .. N |-> Filled(d, n)]
<1>1. N \in Nat /\ N = Len(edges) /\ Len(Keys(d)) = N
  BY DEF N, Keys
<1>2. Filled(d, 0) = First
  <2>1. \A v \in 0 .. V : Below(d, v, N) + Rank(d, v, 0) = Below(d, v, N)
    BY <1>1, BelowRange, RankZero
  <2>2. \A pos \in 0 .. N - 1 : PlacedAt(d, 0, pos) = 0
    BY DEF PlacedAt
  <2>3. [v \in 0 .. V |-> Below(d, v, N) + Rank(d, v, 0)] = Begin(d)
    BY <2>1 DEF Begin
  <2>4. [pos \in 0 .. N - 1 |-> PlacedAt(d, 0, pos)] = [pos \in 0 .. N - 1 |-> 0]
    BY <2>2
  <2> QED
    BY <2>3, <2>4, OffsetsAre DEF Filled
<1>3. \A n \in 1 .. N : Filled(d, n) = Turn(n, Filled(d, n - 1))
  BY FilledNext
<1>4. Placement(Keys(d), V) = (CHOOSE f : f = Fills(f))[N].edge
  BY <1>1 DEF Placement
<1> HIDE DEF First, Turn
<1>5. all = Fills(all)
  <2>1. ASSUME NEW n \in 0 .. N
        PROVE  Filled(d, n) = IF n = 0 THEN First ELSE Turn(n, all[n - 1])
    <3>1. CASE n = 0
      BY <1>2, <3>1
    <3>2. CASE n # 0
      <4>1. n \in 1 .. N /\ n - 1 \in 0 .. N
        BY <1>1, <3>2
      <4>2. all[n - 1] = Filled(d, n - 1)
        BY <4>1
      <4> QED
        BY <1>3, <3>2, <4>1, <4>2
    <3> QED
      BY <3>1, <3>2
  <2> QED
    BY <2>1
<1>6. PICK f : f = CHOOSE g : g = Fills(g)
  OBVIOUS
<1>7. f = Fills(f)
  <2> HIDE DEF Fills, all
  <2> QED
    BY <1>5, <1>6
<1>8. DOMAIN f = 0 .. N /\ f = [n \in 0 .. N |-> f[n]] /\ f[0] = First
      /\ \A n \in 1 .. N : f[n] = Turn(n, f[n - 1])
  BY <1>1, <1>7
<1>9. DOMAIN all = 0 .. N /\ all = [n \in 0 .. N |-> all[n]] /\ all[0] = First
      /\ \A n \in 1 .. N : all[n] = Turn(n, all[n - 1])
  BY <1>1, <1>2, <1>3
<1> HIDE DEF all
<1>10. \A n \in 1 .. N : f[n - 1] = all[n - 1] => f[n] = all[n]
  BY <1>8, <1>9
<1>11. f = all
  BY <1>1, <1>8, <1>9, <1>10, SameByStep
<1>12. f[N] = Filled(d, N)
  BY <1>1, <1>11 DEF all
<1>13. Filled(d, N).edge = [pos \in 0 .. N - 1 |-> PlacedAt(d, N, pos)]
  BY DEF Filled
<1> HIDE DEF Fills
<1> QED
  BY <1>4, <1>6, <1>12, <1>13

(* The columns and the weights of a direction, in the order of its rows. *)
Sorted(d, field) == [pos \in 0 .. N - 1 |-> field[Placement(Keys(d), V)[pos]]]
Holds(d, stored, field) ==
  /\ stored = [pos \in 0 .. N - 1 |-> stored[pos]]
  /\ \A i \in 1 .. N : stored[Position(d, i)] = field[i]

LEMMA SortedIs ==
  ASSUME edges \in Seq(Lines), V \in Nat, NEW d \in Dirs, Built(d),
         NEW field, NEW stored, Holds(d, stored, field)
  PROVE  stored = Sorted(d, field)
<1>1. InRange(d, N)
  BY DEF Built, RowsBegin
<1>2. Placement(Keys(d), V) = [pos \in 0 .. N - 1 |-> PlacedAt(d, N, pos)]
  BY <1>1, PlacementIs
<1>3. ASSUME NEW pos \in 0 .. N - 1
      PROVE  field[Placement(Keys(d), V)[pos]] = stored[pos]
  <2>1. PICK i \in 1 .. N : Position(d, i) = pos
    BY PositionsCover
  <2>2. N \in 0 .. N
    BY DEF N
  <2>3. PlacedAt(d, N, pos) = i
    BY <2>1, <2>2, PlacedHere
  <2> QED
    BY <1>2, <2>1, <2>3 DEF Holds
<1> QED
  BY <1>3 DEF Sorted, Holds

LEMMA BuildHolds ==
  ASSUME IInv
  PROVE  BuildAgrees
<1> SUFFICES ASSUME stage = "done" PROVE Graph = build(edges, num_vertices)
  BY DEF BuildAgrees
<1>1. Types /\ Built("in") /\ Built("out")
  BY DEF IInv, AtDone, OtherDir, Before
<1>2. N \in Nat /\ V \in Nat /\ edges \in Seq(Lines) /\ N = Len(edges) /\ V = num_vertices
  BY <1>1 DEF Types, N, V
<1> DEFINE src    == [i \in 1 .. N |-> edges[i].src]
           dst    == [i \in 1 .. N |-> edges[i].dst]
           weight == [i \in 1 .. N |-> edges[i].weight]
<1>3. Keys("out") = src /\ Keys("in") = dst
  BY DEF Keys, Key
<1>4. ASSUME NEW d \in Dirs
      PROVE  /\ row[d] = Offsets(Keys(d), V)
             /\ col[d] = Sorted(d, [i \in 1 .. N |-> Stored(d, i)])
             /\ attr[d] = Sorted(d, weight)
  <2>1. Built(d)
    BY <1>1 DEF Dirs
  <2>2. Offsets(Keys(d), V) = Begin(d)
    BY <1>2, OffsetsAre
  <2>3. row[d] = Begin(d)
    BY <2>1 DEF Built, RowsBegin, Begin
  <2>4. col[d] \in [0 .. N - 1 -> Nat] /\ attr[d] \in [0 .. N - 1 -> Double]
        /\ \A i \in 1 .. N : /\ col[d][Position(d, i)] = Stored(d, i)
                              /\ attr[d][Position(d, i)] = edges[i].weight
    BY <2>1 DEF Built, Vectors
  <2>5. PICK field : field = [i \in 1 .. N |-> Stored(d, i)]
    OBVIOUS
  <2>6. Holds(d, col[d], field) /\ Holds(d, attr[d], weight)
    BY <2>4, <2>5 DEF Holds
  <2> HIDE DEF weight
  <2>7. col[d] = Sorted(d, field) /\ attr[d] = Sorted(d, weight)
    BY <1>2, <2>1, <2>6, SortedIs
  <2> QED
    BY <2>2, <2>3, <2>5, <2>7
<1>5. [i \in 1 .. N |-> Stored("out", i)] = dst /\ [i \in 1 .. N |-> Stored("in", i)] = src
  BY DEF Stored
<1>6. /\ row["out"] = Offsets(src, V) /\ row["in"] = Offsets(dst, V)
      /\ col["out"] = Sorted("out", dst) /\ col["in"] = Sorted("in", src)
      /\ attr["out"] = Sorted("out", weight) /\ attr["in"] = Sorted("in", weight)
  <2> HIDE DEF src, dst, weight
  <2> QED
    BY <1>3, <1>4, <1>5 DEF Dirs
<1>7. build(edges, V) =
        [num_vertices |-> V, num_edges |-> N,
         row_offsets |-> Offsets(src, V),
         col_indices |-> Sorted("out", dst), edge_attr |-> Sorted("out", weight),
         incoming_row_offsets |-> Offsets(dst, V),
         incoming_col_indices |-> Sorted("in", src), incoming_edge_attr |-> Sorted("in", weight)]
  <2>1. /\ Sorted("out", dst) = [pos \in 0 .. N - 1 |-> dst[Placement(src, V)[pos]]]
        /\ Sorted("out", weight) = [pos \in 0 .. N - 1 |-> weight[Placement(src, V)[pos]]]
        /\ Sorted("in", src) = [pos \in 0 .. N - 1 |-> src[Placement(dst, V)[pos]]]
        /\ Sorted("in", weight) = [pos \in 0 .. N - 1 |-> weight[Placement(dst, V)[pos]]]
    <3> HIDE DEF src, dst, weight
    <3> QED
      BY <1>3 DEF Sorted
  <2>2. build(edges, V) =
          [num_vertices |-> V, num_edges |-> N,
           row_offsets |-> Offsets(src, V),
           col_indices |-> [pos \in 0 .. N - 1 |-> dst[Placement(src, V)[pos]]],
           edge_attr |-> [pos \in 0 .. N - 1 |-> weight[Placement(src, V)[pos]]],
           incoming_row_offsets |-> Offsets(dst, V),
           incoming_col_indices |-> [pos \in 0 .. N - 1 |-> src[Placement(dst, V)[pos]]],
           incoming_edge_attr |-> [pos \in 0 .. N - 1 |-> weight[Placement(dst, V)[pos]]]]
    BY DEF build, N
  <2> HIDE DEF src, dst, weight
  <2> QED
    BY <2>1, <2>2
<1> HIDE DEF src, dst, weight
<1> QED
  BY <1>2, <1>6, <1>7 DEF Graph

-----------------------------------------------------------------------------
(* The columns in the row of a vertex are those stored for its edges. *)
LEMMA RowContents ==
  ASSUME Types, NEW d \in Dirs, Built(d), NEW v \in 0 .. V - 1, NEW w
  PROVE  (\E pos \in row[d][v] .. row[d][v + 1] - 1 : col[d][pos] = w)
           <=> \E i \in 1 .. N : Key(d, i) = v /\ Stored(d, i) = w
<1>1. N \in Nat /\ V \in Nat /\ edges \in Seq(Lines) /\ N = Len(edges) /\ N \in 0 .. Len(edges)
  BY DEF Types, N, V
<1>2. v \in Nat /\ v + 1 \in Nat /\ v \in 0 .. V /\ v + 1 \in 0 .. V
  BY <1>1
<1>3. row[d][v] = Below(d, v, N) /\ row[d][v + 1] = Below(d, v + 1, N)
  BY <1>2 DEF Built, RowsBegin
<1>4. Below(d, v, N) \in 0 .. N /\ Below(d, v + 1, N) \in 0 .. N
  BY <1>1, <1>2, BelowRange
<1>5. ASSUME NEW i \in 1 .. N
      PROVE  /\ Position(d, i) \in Nat /\ col[d][Position(d, i)] = Stored(d, i)
             /\ Below(d, Key(d, i), N) <= Position(d, i)
             /\ Position(d, i) < Below(d, Key(d, i) + 1, N)
  <2>1. col[d][Position(d, i)] = Stored(d, i)
    BY DEF Built, Vectors
  <2> QED
    BY <1>1, <2>1, PositionType
<1>6. ASSUME NEW pos \in row[d][v] .. row[d][v + 1] - 1, col[d][pos] = w
      PROVE  \E i \in 1 .. N : Key(d, i) = v /\ Stored(d, i) = w
  <2>1. pos \in 0 .. N - 1
    BY <1>1, <1>3, <1>4
  <2>2. PICK i \in 1 .. N : Position(d, i) = pos
    BY <1>1, <2>1, PositionsCover
  <2>3. PICK u : u = Key(d, i)
    OBVIOUS
  <2>4. u \in Nat /\ u + 1 \in Nat
    BY <1>1, <2>3, KeyType
  <2>5. Below(d, u, N) \in 0 .. N /\ Below(d, u + 1, N) \in 0 .. N
    BY <1>1, <2>4, BelowRange
  <2>6. Below(d, u, N) <= pos /\ pos < Below(d, u + 1, N)
    BY <1>5, <2>2, <2>3
  <2>7. ~(u < v)
    <3>1. u + 1 <= v => Below(d, u + 1, N) <= Below(d, v, N)
      BY <1>1, <1>2, <2>4, BelowMonotone
    <3> QED
      BY <1>2, <1>3, <1>4, <2>1, <2>4, <2>5, <2>6, <3>1
  <2>8. ~(v < u)
    <3>1. v + 1 <= u => Below(d, v + 1, N) <= Below(d, u, N)
      BY <1>1, <1>2, <2>4, BelowMonotone
    <3> QED
      BY <1>2, <1>3, <1>4, <2>1, <2>4, <2>5, <2>6, <3>1
  <2>9. u = v
    BY <1>2, <2>4, <2>7, <2>8
  <2> QED
    BY <1>5, <1>6, <2>2, <2>3, <2>9
<1>7. ASSUME NEW i \in 1 .. N, Key(d, i) = v, Stored(d, i) = w
      PROVE  \E pos \in row[d][v] .. row[d][v + 1] - 1 : col[d][pos] = w
  <2>1. Below(d, v, N) <= Position(d, i) /\ Position(d, i) < Below(d, v + 1, N)
        /\ Position(d, i) \in Nat /\ col[d][Position(d, i)] = w
    BY <1>5, <1>7
  <2>2. Position(d, i) \in row[d][v] .. row[d][v + 1] - 1
    BY <1>3, <1>4, <2>1
  <2> QED
    BY <2>1, <2>2
<1> QED
  BY <1>6, <1>7

LEMMA BothWays ==
  ASSUME IInv, stage = "done", NEW u \in Vertices(Graph), NEW v \in Vertices(Graph)
  PROVE  v \in OutNeighbors(Graph, u) <=> u \in InNeighbors(Graph, v)
<1>1. Types /\ Built("in") /\ Built("out") /\ "in" \in Dirs /\ "out" \in Dirs
  BY DEF IInv, AtDone, OtherDir, Before, Dirs
<1>2. u \in 0 .. V - 1 /\ v \in 0 .. V - 1
  BY DEF Vertices, Graph, V
<1>3. v \in OutNeighbors(Graph, u)
        <=> \E pos \in row["out"][u] .. row["out"][u + 1] - 1 : col["out"][pos] = v
  BY DEF OutNeighbors, OutEdges, Graph
<1>4. u \in InNeighbors(Graph, v)
        <=> \E pos \in row["in"][v] .. row["in"][v + 1] - 1 : col["in"][pos] = u
  BY DEF InNeighbors, InEdges, Graph
<1>5. v \in OutNeighbors(Graph, u)
        <=> \E i \in 1 .. N : Key("out", i) = u /\ Stored("out", i) = v
  BY <1>1, <1>2, <1>3, RowContents
<1>6. u \in InNeighbors(Graph, v)
        <=> \E i \in 1 .. N : Key("in", i) = v /\ Stored("in", i) = u
  <2>1. (\E pos \in row["in"][v] .. row["in"][v + 1] - 1 : col["in"][pos] = u)
          <=> \E i \in 1 .. N : Key("in", i) = v /\ Stored("in", i) = u
    BY <1>1, <1>2, RowContents
  <2> QED
    BY <1>4, <2>1
<1> QED
  BY <1>5, <1>6 DEF Key, Stored

(* The vectors keep their lengths and the numbers in them stay within the     *)
(* file's, in every state of cmd_graph, build_from_file and build.            *)
THEOREM TypeCorrectness == Spec => []TypeOK
<1>1. IInv => TypeOK
  BY TypesHold
<1> QED
  BY <1>1, Invariance, PTL

(* While build fills a direction the cursor of every row is inside the row, at*)
(* the number of its edges met, however many edges and vertices there are.    *)
THEOREM CursorsInRows == Spec => []CursorInRow
<1>1. IInv => CursorInRow
  BY CursorsHold
<1> QED
  BY <1>1, Invariance, PTL

(* The graph that build_from_file returns is well formed and its rows hold    *)
(* exactly the edges read, in the file's order, outgoing and incoming.        *)
THEOREM ArraysMatchFile == Spec => []RowsMatchFile
<1>1. IInv => RowsMatchFile
  BY RowsHold
<1> QED
  BY <1>1, Invariance, PTL

(* For every file the loops of build compute what the operator of CSR defines,*)
(* which the models of the runs load their graphs with.                       *)
THEOREM LoopsBuild == Spec => []BuildAgrees
<1>1. IInv => BuildAgrees
  BY BuildHolds
<1> QED
  BY <1>1, Invariance, PTL

(* The outgoing and the incoming arrays, filled separately, hold the same     *)
(* edges: v is reached from u if and only if u is among the in-neighbours of  *)
(* v.  That is what lets a kernel wake up, by SCATTER along outgoing edges,   *)
(* the vertices that gather from its own along incoming ones.                 *)
THEOREM SameEdges ==
  Spec => [](stage = "done" =>
               \A u, v \in Vertices(Graph) :
                 v \in OutNeighbors(Graph, u) <=> u \in InNeighbors(Graph, v))
<1>1. IInv => (stage = "done" =>
                 \A u, v \in Vertices(Graph) :
                   v \in OutNeighbors(Graph, u) <=> u \in InNeighbors(Graph, v))
  BY BothWays
<1> QED
  BY <1>1, Invariance, PTL
=============================================================================
