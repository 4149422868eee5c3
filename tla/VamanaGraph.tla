----------------------------- MODULE VamanaGraph -----------------------------
(***************************************************************************)
(* The bulk build: incremental Vamana construction over rows in input      *)
(* order, alpha-pruning, reverse edges with slack, and the chain edge that *)
(* keeps every row reachable.  Everything is deterministic: candidates are *)
(* ordered by distance, then by id.                                        *)
(*                                                                         *)
(* A row is [point, labels]; a record [code, labels, neighbors, point].    *)
(* A graph under construction is the sequence of its neighbor lists.       *)
(***************************************************************************)
EXTENDS LabelSets, Quantizer

CONSTANTS
  MaxNeighbors,
  BuildSearchListSize,
  AlphaSteps           \* how often max_alpha lets 1.0 be multiplied by 1.2

ASSUME GraphAssumption ==
  /\ MaxNeighbors \in Nat \ {0} /\ BuildSearchListSize \in Nat \ {0}
  /\ AlphaSteps \in Nat

\* max_neighbors_during_build: 1.3 times, rounded up.
MaxDuringBuild == (13 * MaxNeighbors + 9) \div 10

Larger(a, b) == IF a < b THEN b ELSE a

\* rank_distance, then the id.
ByDistance(distance, ids) ==
  IF ids = {} THEN <<>>
  ELSE SetToSortSeq(ids, LAMBDA a, b : \/ distance[a] < distance[b]
                                       \/ distance[a] = distance[b] /\ a < b)

------------------------------------------------------------------------------
(* alpha_prune_candidates *)

\* Whether candidate j, at this distance from the base, is occluded for the
\* alpha of this step by a chosen one that is between away from it: whether
\* distance_factor is above 1.2^step.
Above(step, distance, between) ==
  IF between = 0 THEN distance # 0 ELSE distance * 5 ^ step > 6 ^ step * between

\* A factor above max_alpha is not looked at again, a smaller one never
\* shrinks: so j is passed over at this step if any chosen one occludes it.
Occluded(config, codes, labels, base, distance, chosen, j, step) ==
  \E i \in ToSet(chosen) :
    /\ \/ distance[i] < distance[j]
       \/ distance[i] = distance[j] /\ i < j
    /\ base = <<>> \/ ContainsIntersection(base, labels[i], labels[j])
    /\ Above(step, distance[j], RoutingDistance(config, codes[i], codes[j]))

Prune(config, codes, labels, base, distance, ids) ==
  LET ordered == ByDistance(distance, ids)
      pick(step, chosen, j) ==
        IF \/ Len(chosen) >= MaxNeighbors
           \/ Contains(chosen, j)
           \/ Occluded(config, codes, labels, base, distance, chosen, j, step)
        THEN chosen ELSE Append(chosen, j)
      round(chosen, step) == FoldLeft(LAMBDA c, j : pick(step, c, j), chosen, ordered)
      selected == FoldLeft(round, <<>>, [n \in 1 .. AlphaSteps + 1 |-> n - 1])
      rest == SelectSeq(ordered, LAMBDA j : ~Contains(selected, j))
      missing == Larger(0, MaxNeighbors - Len(selected))
  IN  IF Len(ordered) <= MaxNeighbors THEN ordered
      ELSE selected \o SubSeq(rest, 1, missing)

------------------------------------------------------------------------------
(* assign_bulk_neighbors *)

\* From code i to every other: what the searches and prunings order by.
From(config, codes, i) == [j \in DOMAIN codes |-> RoutingDistance(config, codes[i], codes[j])]

Nearest(distance, ids) ==
  CHOOSE i \in ids : \A j \in ids :
    \/ distance[i] < distance[j]
    \/ distance[i] = distance[j] /\ i <= j

\* bulk_greedy_search: the ids visited, closest first out of those queued,
\* starting at the first row.
Visited(config, codes, graph, i) ==
  LET distance == From(config, codes, i)
      limit == Larger(BuildSearchListSize, MaxNeighbors)
      walk[k \in 0 .. limit] ==
        IF k = 0 THEN [queued |-> {1}, visited |-> {}]
        ELSE LET before == walk[k - 1]
                 next == Nearest(distance, before.queued)
                 found == ToSet(graph[next]) \ (before.queued \cup before.visited)
             IN  IF before.queued = {} THEN before
                 ELSE [queued |-> (before.queued \ {next}) \cup found,
                       visited |-> before.visited \cup {next}]
  IN  walk[limit].visited

\* reprune_bulk_neighbors
Repruned(config, codes, labels, graph, i) ==
  [graph EXCEPT ![i] = Prune(config, codes, labels, labels[i], From(config, codes, i), ToSet(@))]

LinkBack(config, codes, labels, graph, n, i) ==
  LET linked == [graph EXCEPT ![n] = Append(@, i)]
  IN  IF Contains(graph[n], i) THEN graph
      ELSE IF Len(linked[n]) > MaxDuringBuild
           THEN Repruned(config, codes, labels, linked, n) ELSE linked

\* One row: search, prune what was visited, link back, then link.
Wire(config, codes, labels, graph, i) ==
  LET visited == Visited(config, codes, graph, i) \ {i}
      neighbors == Prune(config, codes, labels, labels[i], From(config, codes, i), visited)
      linkedBack == FoldLeft(LAMBDA g, n : LinkBack(config, codes, labels, g, n, i),
                             graph, neighbors)
  IN  [linkedBack EXCEPT ![i] = neighbors]

\* Mutant of EnsureNeighbor: a full list does not make room.
EnsureNeighborIfRoom(list, n) ==
  IF Contains(list, n) \/ Len(list) >= MaxNeighbors THEN list
  ELSE SetToSortSeq(ToSet(list) \cup {n}, <)

\* ensure_neighbor: the last of a full list makes room.
EnsureNeighbor(list, n) ==
  LET kept == IF Len(list) < MaxNeighbors THEN list ELSE SubSeq(list, 1, Len(list) - 1)
  IN  IF Contains(list, n) THEN list ELSE SetToSortSeq(ToSet(kept) \cup {n}, <)

\* The last pass: lists within the bound, and row i linked to row i + 1.
Finish(config, codes, labels, graph, i) ==
  LET bounded == IF Len(graph[i]) > MaxNeighbors
                 THEN Repruned(config, codes, labels, graph, i) ELSE graph
      chained == IF i < Len(codes) THEN i + 1 ELSE i - 1
  IN  IF Len(codes) = 1 THEN bounded
      ELSE [bounded EXCEPT ![i] = EnsureNeighbor(@, chained)]

Indices(first, last) == [n \in 1 .. last - first + 1 |-> first + n - 1]

Wired(config, codes, labels) ==
  LET rows == Len(codes)
      wired == FoldLeft(LAMBDA g, i : Wire(config, codes, labels, g, i),
                        [i \in 1 .. rows |-> <<>>], Indices(2, rows))
  IN  FoldLeft(LAMBDA g, i : Finish(config, codes, labels, g, i), wired, Indices(1, rows))

------------------------------------------------------------------------------
(* bulk_build *)

\* build_routing_vectors: a trained quantizer needs rows.
Model(config, rows) == Train(config, [i \in DOMAIN rows |-> rows[i].point])

BuiltRecords(config, rows) ==
  LET labels == [i \in DOMAIN rows |-> LabelSet(rows[i].labels)]
      codes == [i \in DOMAIN rows |-> RoutingVector(config, Model(config, rows), rows[i].point)]
      graph == Wired(config, codes, labels)
  IN  [i \in DOMAIN rows |->
         [id |-> i, code |-> codes[i], labels |-> labels[i], neighbors |-> graph[i],
          point |-> rows[i].point]]

\* start_nodes_for_records: the first row, and the first with each label.
StartsOf(rows) ==
  LET carriers(l) == {i \in DOMAIN rows : Contains(rows[i].labels, l)}
      all == UNION {ToSet(rows[i].labels) : i \in DOMAIN rows}
  IN  [default |-> IF rows = <<>> THEN 0 ELSE 1,
       labeled |-> [l \in all |-> Min(carriers(l))]]

==============================================================================
