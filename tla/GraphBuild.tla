----------------------------- MODULE GraphBuild -----------------------------
(***************************************************************************)
(* From a list of edges in a text file to the CSR arrays of a Graph:       *)
(* cmd_graph and parse_line of gcvm.cpp write the binary file,             *)
(* build_from_file of graph.h reads it back, whole or cut off anywhere,    *)
(* and build fills the outgoing and then the incoming arrays with a        *)
(* counting sort, here loop by loop and edge by edge.                      *)
(***************************************************************************)
EXTENDS CSR

CONSTANTS
  Ids,        \* the vertex numbers a file may mention, once they are uint32_t
  Weights,    \* the weights a line may give
  Leftover,   \* what an uninitialized double may hold
  NoWeight,   \* the weight of a line of two columns
  MaxEdges    \* a bound on the lines of a file

ASSUME EdgesAssumption ==
  /\ Ids \subseteq Nat
  /\ Weights \subseteq Double /\ Leftover \subseteq Double /\ NoWeight \notin Double

VARIABLES
  edges,          \* the edges of the text, then those read from the file
  num_vertices,   \* the vertex count written to and read from the file
  stage,          \* "parse", "written", then the loops of a direction:
                  \* "count", "sum", "fill", then "done"; "fault" past the end
                  \* of a vector, "error" after an exception
  dir,            \* the direction being built, "out" or "in"
  k,              \* the next edge of a loop over edges, or index of the sum
  row, col, attr, \* the vectors of each direction
  cursor

vars == <<edges, num_vertices, stage, dir, k, row, col, attr, cursor>>

Nothing == [d \in {"out", "in"} |-> [i \in {} |-> 0]]

Init ==
  /\ edges = <<>> /\ num_vertices = 0
  /\ stage = "parse" /\ dir = "out" /\ k = 1
  /\ row = Nothing /\ col = Nothing /\ attr = Nothing
  /\ cursor = [v \in {} |-> 0]

(* parse_line leaves edge.weight unset when there are two columns. *)
ParseLine(src, dst, weight) ==
  /\ stage = "parse" /\ Len(edges) < MaxEdges
  /\ \E w \in IF weight = NoWeight THEN Leftover ELSE {weight} :
       edges' = Append(edges, [src |-> src, dst |-> dst, weight |-> w])
  /\ UNCHANGED <<num_vertices, stage, dir, k, row, col, attr, cursor>>

(* Another number of columns, or one that stoi or stod refuses. *)
BadLine ==
  /\ stage = "parse"
  /\ stage' = "error"
  /\ UNCHANGED <<edges, num_vertices, dir, k, row, col, attr, cursor>>

-----------------------------------------------------------------------------
(* Faulty variants: the incoming rows are keyed by the source; the vectors of *)
(* offsets start at 1; the cursors start at 0; the cursor does not advance.   *)
RowOf_Source(e) == e.src

Allocate_FromOne(d, n) ==
  /\ row'  = [row  EXCEPT ![d] = [v \in 0 .. num_vertices |-> 1]]
  /\ col'  = [col  EXCEPT ![d] = [pos \in 0 .. n - 1 |-> 0]]
  /\ attr' = [attr EXCEPT ![d] = [pos \in 0 .. n - 1 |-> 0]]

(* Row r receives edge e in the direction being built, and column c is stored. *)
RowOf(e)    == IF dir = "out" THEN e.src ELSE e.dst
ColumnOf(e) == IF dir = "out" THEN e.dst ELSE e.src

(* The vectors of a direction of n edges. *)
Allocate(d, n) ==
  /\ row'  = [row  EXCEPT ![d] = [v \in 0 .. num_vertices |-> 0]]
  /\ col'  = [col  EXCEPT ![d] = [pos \in 0 .. n - 1 |-> 0]]
  /\ attr' = [attr EXCEPT ![d] = [pos \in 0 .. n - 1 |-> 0]]

(* The count written is that of the distinct vertices mentioned. *)
Write ==
  /\ stage = "parse"
  /\ num_vertices' = Cardinality({edges[i].src : i \in DOMAIN edges}
                                   \cup {edges[i].dst : i \in DOMAIN edges})
  /\ stage' = "written"
  /\ UNCHANGED <<edges, dir, k, row, col, attr, cursor>>

(* Of a file cut off after n whole edges, and perhaps a part of the next, the *)
(* n edges are read; a file that ends within the count is refused.            *)
ReadFile(n) ==
  /\ stage = "written"
  /\ edges' = SubSeq(edges, 1, n)
  /\ Allocate("out", n)
  /\ stage' = "count"
  /\ UNCHANGED <<num_vertices, dir, k, cursor>>

NoCount ==
  /\ stage = "written"
  /\ stage' = "error"
  /\ UNCHANGED <<edges, num_vertices, dir, k, row, col, attr, cursor>>

(* 1. Count degrees. *)
Count ==
  /\ stage = "count" /\ k <= Len(edges)
  /\ LET r == RowOf(edges[k]) + 1
     IN  IF r \in DOMAIN row[dir]
         THEN row' = [row EXCEPT ![dir][r] = @ + 1] /\ k' = k + 1 /\ UNCHANGED stage
         ELSE stage' = "fault" /\ UNCHANGED <<row, k>>
  /\ UNCHANGED <<edges, num_vertices, dir, col, attr, cursor>>

Counted ==
  /\ stage = "count" /\ k > Len(edges)
  /\ stage' = "sum" /\ k' = 1
  /\ UNCHANGED <<edges, num_vertices, dir, row, col, attr, cursor>>

(* 2. Prefix sum, and 3. the cursor is a copy of it. *)
Sum ==
  /\ stage = "sum" /\ k <= num_vertices
  /\ row' = [row EXCEPT ![dir][k] = @ + row[dir][k - 1]]
  /\ k' = k + 1
  /\ UNCHANGED <<edges, num_vertices, stage, dir, col, attr, cursor>>

Summed_AtZero ==
  /\ stage = "sum" /\ k > num_vertices
  /\ cursor' = [v \in 0 .. num_vertices |-> 0]
  /\ stage' = "fill" /\ k' = 1
  /\ UNCHANGED <<edges, num_vertices, dir, row, col, attr>>

Summed ==
  /\ stage = "sum" /\ k > num_vertices
  /\ cursor' = row[dir]
  /\ stage' = "fill" /\ k' = 1
  /\ UNCHANGED <<edges, num_vertices, dir, row, col, attr>>

Fill_Fixed ==
  /\ stage = "fill" /\ k <= Len(edges)
  /\ LET e   == edges[k]
         pos == cursor[RowOf(e)]
     IN  /\ col' = [col EXCEPT ![dir][pos] = ColumnOf(e)]
         /\ attr' = [attr EXCEPT ![dir][pos] = e.weight]
  /\ k' = k + 1
  /\ UNCHANGED <<edges, num_vertices, stage, dir, row, cursor>>

(* 4. Fill. *)
Fill ==
  /\ stage = "fill" /\ k <= Len(edges)
  /\ LET e   == edges[k]
         pos == cursor[RowOf(e)]
     IN  /\ col' = [col EXCEPT ![dir][pos] = ColumnOf(e)]
         /\ attr' = [attr EXCEPT ![dir][pos] = e.weight]
         /\ cursor' = [cursor EXCEPT ![RowOf(e)] = @ + 1]
  /\ k' = k + 1
  /\ UNCHANGED <<edges, num_vertices, stage, dir, row>>

OutgoingBuilt ==
  /\ stage = "fill" /\ k > Len(edges) /\ dir = "out"
  /\ Allocate("in", Len(edges))
  /\ stage' = "count" /\ dir' = "in" /\ k' = 1
  /\ UNCHANGED <<edges, num_vertices, cursor>>

IncomingBuilt ==
  /\ stage = "fill" /\ k > Len(edges) /\ dir = "in"
  /\ stage' = "done"
  /\ UNCHANGED <<edges, num_vertices, dir, k, row, col, attr, cursor>>

Next ==
  \/ \E src, dst \in Ids, weight \in Weights \cup {NoWeight} : ParseLine(src, dst, weight)
  \/ BadLine \/ Write \/ NoCount \/ (\E n \in 0 .. Len(edges) : ReadFile(n))
  \/ Count \/ Counted \/ Sum \/ Summed \/ Fill
  \/ OutgoingBuilt \/ IncomingBuilt

Spec == Init /\ [][Next]_vars

-----------------------------------------------------------------------------
Graph ==
  [num_vertices |-> num_vertices, num_edges |-> Len(edges),
   row_offsets |-> row["out"], col_indices |-> col["out"], edge_attr |-> attr["out"],
   incoming_row_offsets |-> row["in"], incoming_col_indices |-> col["in"],
   incoming_edge_attr |-> attr["in"]]

(* Where the i-th edge read belongs in direction d: the vertex whose row it   *)
(* is in, and how many of the first n edges read are in the row of v.         *)
Key(d, i)     == IF d = "out" THEN edges[i].src ELSE edges[i].dst
Rank(d, v, n) == Cardinality({j \in 1 .. n : Key(d, j) = v})

TypeOK ==
  /\ edges \in Seq([src : Ids, dst : Ids, weight : Double])
  /\ num_vertices \in Nat /\ k \in Nat \ {0}
  /\ stage \in {"parse", "written", "count", "sum", "fill", "done", "fault", "error"}
  /\ dir \in {"out", "in"}
  /\ \A d \in {"out", "in"} : \A v \in DOMAIN row[d] : row[d][v] \in 0 .. Len(edges)
  /\ \A d \in {"out", "in"} : DOMAIN col[d] = DOMAIN attr[d]
  /\ \A v \in DOMAIN cursor : cursor[v] \in 0 .. Len(edges)

(* While the arrays are filled the cursor of every row stays inside the row,  *)
(* at the number of its edges met so far: no row runs into the next.          *)
CursorInRow ==
  stage = "fill" =>
    \A v \in 0 .. num_vertices - 1 :
      /\ cursor[v] \in row[dir][v] .. row[dir][v + 1]
      /\ cursor[v] - row[dir][v]
           = Cardinality({i \in 1 .. k - 1 : RowOf(edges[i]) = v})

(* The arrays that result are well formed, and the row of every vertex holds  *)
(* exactly its edges of the file, outgoing and incoming, in the file's order  *)
(* and with the file's weights.  Of a file that is cut off these are the edges*)
(* before the cut, though the vertices are those of the whole file.           *)
RowsMatchFile ==
  stage = "done" =>
    /\ IsGraph(Graph)
    /\ \A v \in Vertices(Graph) :
         /\ out_degree(Graph, v) = Rank("out", v, Len(edges))
         /\ in_degree(Graph, v) = Rank("in", v, Len(edges))
    /\ \A i \in 1 .. Len(edges), d \in {"out", "in"} :
         LET v   == Key(d, i)
             pos == row[d][v] + Rank(d, v, i - 1)
         IN  /\ v \in Vertices(Graph)
             /\ col[d][pos] = (IF d = "out" THEN edges[i].dst ELSE edges[i].src)
             /\ attr[d][pos] = edges[i].weight

(* The loops compute what the operator build of CSR computes, which the other *)
(* models load their graphs with.                                             *)
BuildAgrees == stage = "done" => Graph = build(edges, num_vertices)

(* gcvm.cpp line 242, "Count how many nodes are in the graph": the count in   *)
(* the file covers the vertices of its edges, so that building the graph      *)
(* stays inside row_offsets.                                                  *)
CountCoversVertices == stage # "fault"
=============================================================================
