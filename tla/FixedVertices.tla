--------------------------- MODULE FixedVertices ---------------------------
(***************************************************************************)
(* Fixed vertices after recursive bisection (partition/fixed_vertices.h):  *)
(* the blocks of the free nodes are renamed, by a maximum weighted         *)
(* bipartite matching between the blocks the vertices are fixed to and the *)
(* blocks there are, so that the objective grows as little as it can.      *)
(*                                                                         *)
(* The matching is found by the Hungarian algorithm: a weighted cover      *)
(* (u, v), the graph of its tight edges, in it a maximum flow along        *)
(* shortest augmenting paths; and while the flow does not match all        *)
(* blocks, a minimum vertex cover says how to change (u, v).               *)
(***************************************************************************)
EXTENDS Subhypergraph

VARIABLES
  context,   (* k, objective and max_part_weights (constant).              *)
  input,     (* The input hypergraph: free nodes assigned, fixed ones not. *)
  phase,
  graph,     (* The weights of the bipartite graph.                        *)
  u, v,      (* The weighted cover.                                        *)
  residual   (* The edges of the residual graph.                           *)

fixed_vars == <<context, input, phase, graph, u, v, residual>>

Blocks == 0 .. context.k - 1

(* Nodes of the flow graph: left i, right k + i, source and sink.          *)
Right(j) == context.k + j
Source == 2 * context.k
Sink == 2 * context.k + 1

fixedVertexPartWeight(hg, i) ==
  MapThenSumSet(LAMBDA n : hg.weight[n], {n \in hg.nodes : hg.fixed[n] = i})
assignedPartWeight(hg, i) ==
  MapThenSumSet(LAMBDA n : hg.weight[n], {n \in hg.nodes : hg.part[n] = i})
FixedBlocks(hg, e) == {hg.fixed[n] : n \in e.pins} \ {kUnassigned}
FreeBlocks(hg, e) == connectivitySet(hg, e)

(* What is saved if the vertices fixed to i go to block j.                 *)
Saved(hg, e, i, j) ==
  IF /\ i \in FixedBlocks(hg, e) /\ j \in FreeBlocks(hg, e)
     /\ \/ context.objective = "km1"
        \/ Cardinality(FreeBlocks(hg, e)) = 1 /\ Cardinality(FixedBlocks(hg, e)) = 1
  THEN e.weight ELSE 0

(* Mutant: the fixed vertices are not weighed.                             *)
FreeTooHeavy(hg, i, j) == assignedPartWeight(hg, j) > context.max_part_weights[i]

TooHeavy(hg, i, j) ==
  fixedVertexPartWeight(hg, i) + assignedPartWeight(hg, j) > context.max_part_weights[i]

setupWeightedBipartiteMatchingGraph(hg) ==
  LET total == FoldLeft(LAMBDA s, e : s + e.weight, 0, hg.nets)
  IN [i \in Blocks |-> [j \in Blocks |->
        IF TooHeavy(hg, i, j) THEN -total
        ELSE FoldLeft(LAMBDA s, e : s + Saved(hg, e, i, j), 0, hg.nets)]]

excess(a, b, g, i, j) == a[i] + b[j] - g[i][j]

(* The residual graph of the tight edges without a flow.                   *)
construct_matching_graph(a, b, g) ==
  {<<i, Right(j)>> : <<i, j>> \in {e \in Blocks \X Blocks : excess(a, b, g, e[1], e[2]) = 0}}
    \cup {<<Source, i>> : i \in Blocks} \cup {<<Right(j), Sink>> : j \in Blocks}

-----------------------------------------------------------------------------
(* Breadth-first search along the edges E: the nodes within d steps of S.  *)
Within(S, E, d) ==
  LET reach[n \in 0 .. d] ==
        IF n = 0 THEN S
        ELSE LET before == reach[n - 1]
             IN before \cup {y \in 0 .. Sink : \E x \in before : <<x, y>> \in E}
  IN reach[d]

SinkIsReachable == Sink \in Within({Source}, residual, Sink)

(* Shortest paths from the source to the sink, as sequences of nodes.      *)
AugmentingPaths ==
  LET distance == Min({d \in 1 .. Sink : Sink \in Within({Source}, residual, d)})
      paths[d \in 0 .. distance] ==
        IF d = 0 THEN {<<Source>>}
        ELSE LET new == Within({Source}, residual, d) \ Within({Source}, residual, d - 1)
             IN UNION {{Append(p, y) : y \in {y \in new : <<p[d], y>> \in residual}} : p \in paths[d - 1]}
  IN {p \in paths[distance] : p[distance + 1] = Sink}

Matching == {e \in Blocks \X Blocks : <<Right(e[2]), e[1]>> \in residual}

(* What alternating paths reach from the unmatched blocks on the left.     *)
Alternating ==
  Within({i \in Blocks : \A e \in Matching : e[1] # i},
         {e \in residual : e[1] \notin {Source, Sink} /\ e[2] \notin {Source, Sink}}, Sink)

(* Koenig: left \ H and right in H.                                        *)
findMinimumBipartiteVertexCover ==
  LET H == Alternating
  IN [left |-> Blocks \ H, right |-> {j \in Blocks : Right(j) \in H}]

-----------------------------------------------------------------------------
FixedIdle == graph = <<>> /\ u = <<>> /\ v = <<>> /\ residual = {}

Setup ==
  /\ phase = "fixed"
  /\ LET g == setupWeightedBipartiteMatchingGraph(input)
         a == [i \in Blocks |-> Max({g[i][j] : j \in Blocks})]
         b == [j \in Blocks |-> 0]
     IN /\ graph' = g /\ u' = a /\ v' = b
        /\ residual' = construct_matching_graph(a, b, g)
  /\ phase' = "match"
  /\ UNCHANGED <<context, input>>

(* augment: the edges of a shortest path are turned round.                 *)
Augment ==
  /\ phase = "match"
  /\ SinkIsReachable
  /\ \E p \in AugmentingPaths :
       LET edges == {<<p[i], p[i + 1]>> : i \in 1 .. Len(p) - 1}
       IN residual' = (residual \ edges) \cup {<<e[2], e[1]>> : e \in edges}
  /\ UNCHANGED <<context, input, phase, graph, u, v>>

ChangeCover ==
  /\ phase = "match"
  /\ ~SinkIsReachable /\ Cardinality(Matching) < context.k
  /\ LET cover == findMinimumBipartiteVertexCover
         uncovered == (Blocks \ cover.left) \X (Blocks \ cover.right)
         min_excess == Min({excess(u, v, graph, e[1], e[2]) : e \in uncovered})
         a == [i \in Blocks |-> IF i \in cover.left THEN u[i] ELSE u[i] - min_excess]
         b == [j \in Blocks |-> IF j \in cover.right THEN v[j] + min_excess ELSE v[j]]
     IN /\ u' = a /\ v' = b
        /\ residual' = construct_matching_graph(a, b, graph)
  /\ UNCHANGED <<context, input, phase, graph>>

Renamed(hg, matching) ==
  [n \in hg.nodes |-> IF isFixed(hg, n) THEN hg.fixed[n]
                      ELSE (CHOOSE e \in matching : e[2] = hg.part[n])[1]]

ApplyPermutation ==
  /\ phase = "match"
  /\ ~SinkIsReachable /\ Cardinality(Matching) = context.k
  /\ input' = [input EXCEPT !.part = Renamed(input, Matching)]
  /\ phase' = "permuted"
  /\ UNCHANGED <<context, graph, u, v, residual>>

FixedNext == Setup \/ Augment \/ ChangeCover \/ ApplyPermutation

-----------------------------------------------------------------------------
(* (u, v) is a cover whose tight edges the flow uses, the flow is a        *)
(* matching, and when no path augments it, it is as large as the vertex    *)
(* cover that is then used (the assertions of fixed_vertices.h).           *)
CoversAreRight ==
  phase = "match" =>
    /\ \A i, j \in Blocks : u[i] + v[j] >= graph[i][j]
    /\ \A e \in Matching : excess(u, v, graph, e[1], e[2]) = 0
    /\ \A e, f \in Matching : e # f => e[1] # f[1] /\ e[2] # f[2]
    /\ ~SinkIsReachable =>
         LET cover == findMinimumBipartiteVertexCover
         IN /\ Cardinality(cover.left) + Cardinality(cover.right) = Cardinality(Matching)
            /\ \A i \in Blocks \ cover.left, j \in Blocks \ cover.right :
                 excess(u, v, graph, i, j) > 0

(* When it ends, against every renaming that overloads no block: the one   *)
(* that was chosen has no worse an objective, and if it overloads blocks,  *)
(* it is better by the weight of all nets for each of them.                *)
Renamings == {p \in [Blocks -> Blocks] : \A i, j \in Blocks : i # j => p[i] # p[j]}
RenamedBy(p) ==
  [input EXCEPT !.part = [n \in input.nodes |-> IF isFixed(input, n) THEN input.fixed[n]
                                                ELSE p[input.part[n]]]]
Overloads(hg) == {i \in Blocks : partWeight(hg, i) > context.max_part_weights[i]}
Penalty(hg) == Cardinality(Overloads(hg)) * FoldLeft(LAMBDA s, e : s + e.weight, 0, hg.nets)

RenamingIsBest ==
  phase = "permuted" /\ graph # <<>> =>
    \A p \in Renamings :
      Overloads(RenamedBy(p)) = {} =>
        objective(input, context.objective) + Penalty(input)
          <= objective(RenamedBy(p), context.objective)
=============================================================================
