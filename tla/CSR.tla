-------------------------------- MODULE CSR --------------------------------
(***************************************************************************)
(* Graphs in compressed sparse row form (include/graph.h).  A vector of    *)
(* length n is a function on 0 .. n-1; vertices and edge positions are     *)
(* numbered from 0, as in the code.                                        *)
(***************************************************************************)
EXTENDS Doubles, FiniteSets, Sequences

EmptyVector == [i \in {} |-> 0]   \* an empty vector

(* struct Edge, for the edges of a graph of V vertices. *)
Edge(V) == [src : 0 .. V - 1, dst : 0 .. V - 1, weight : Double]

-----------------------------------------------------------------------------
(* One direction of a graph of V vertices and E edges: row[v] .. row[v+1]-1 *)
(* are the positions of the edges of v in col and attr.  The attributes are *)
(* optional.                                                                *)
IsCSR(V, E, row, col, attr) ==
  /\ row \in [0 .. V -> 0 .. E]
  /\ row[0] = 0 /\ row[V] = E
  /\ \A v \in 0 .. V - 1 : row[v] <= row[v + 1]
  /\ col \in [0 .. E - 1 -> 0 .. V - 1]
  /\ attr = EmptyVector \/ attr \in [0 .. E - 1 -> Double]

IsGraph(g) ==
  /\ g.num_vertices \in Nat /\ g.num_edges \in Nat
  /\ IsCSR(g.num_vertices, g.num_edges, g.row_offsets, g.col_indices, g.edge_attr)
  /\ IsCSR(g.num_vertices, g.num_edges, g.incoming_row_offsets,
           g.incoming_col_indices, g.incoming_edge_attr)

(* A default-constructed Graph. *)
EmptyGraph ==
  [num_vertices |-> 0, num_edges |-> 0,
   row_offsets |-> EmptyVector, col_indices |-> EmptyVector, edge_attr |-> EmptyVector,
   incoming_row_offsets |-> EmptyVector, incoming_col_indices |-> EmptyVector,
   incoming_edge_attr |-> EmptyVector]

Vertices(g) == 0 .. g.num_vertices - 1

out_degree(g, v) == g.row_offsets[v + 1] - g.row_offsets[v]
in_degree(g, v)  == g.incoming_row_offsets[v + 1] - g.incoming_row_offsets[v]

(* The positions of the edges out of and into v, and the vertices they reach. *)
OutEdges(g, v) == g.row_offsets[v] .. g.row_offsets[v + 1] - 1
InEdges(g, v)  == g.incoming_row_offsets[v] .. g.incoming_row_offsets[v + 1] - 1
OutNeighbors(g, v) == {g.col_indices[e] : e \in OutEdges(g, v)}
InNeighbors(g, v)  == {g.incoming_col_indices[e] : e \in InEdges(g, v)}

-----------------------------------------------------------------------------
(* The counting sort that fills one direction.  key[k] is the vertex whose  *)
(* row receives the k-th edge of the list.                                  *)

(* 1. Count degrees, and 2. prefix sum. *)
Offsets(key, V) ==
  LET count == [v \in 0 .. V |-> Cardinality({k \in DOMAIN key : key[k] + 1 = v})]
      sum[v \in 0 .. V] == IF v = 0 THEN count[0] ELSE sum[v - 1] + count[v]
  IN  sum

(* 3. A cursor per row and 4. the edge list written through the cursors, in *)
(* order: the number of the edge that each position of the vectors receives.*)
Placement(key, V) ==
  LET E == Len(key)
      fill[k \in 0 .. E] ==
        IF k = 0
        THEN [cursor |-> Offsets(key, V), edge |-> [pos \in 0 .. E - 1 |-> 0]]
        ELSE LET before == fill[k - 1]
             IN  [cursor |-> [before.cursor EXCEPT ![key[k]] = @ + 1],
                  edge   |-> [before.edge EXCEPT ![before.cursor[key[k]]] = k]]
  IN  fill[E].edge

build(edges, V) ==
  LET E   == Len(edges)
      src == [k \in 1 .. E |-> edges[k].src]
      dst == [k \in 1 .. E |-> edges[k].dst]
      out == Placement(src, V)
      in  == Placement(dst, V)
      at(place, field) == [pos \in 0 .. E - 1 |-> field[place[pos]]]
      weight == [k \in 1 .. E |-> edges[k].weight]
  IN  [num_vertices |-> V, num_edges |-> E,
       row_offsets |-> Offsets(src, V),
       col_indices |-> at(out, dst), edge_attr |-> at(out, weight),
       incoming_row_offsets |-> Offsets(dst, V),
       incoming_col_indices |-> at(in, src), incoming_edge_attr |-> at(in, weight)]
=============================================================================
