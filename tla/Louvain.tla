------------------------------- MODULE Louvain -------------------------------
(***************************************************************************)
(* Community detection before coarsening (partition/preprocessing/         *)
(* louvain.h, modularity.h, datastructure/graph.h): nodes move to the      *)
(* neighbouring cluster that gains most modularity, clusters become the    *)
(* nodes of the next graph, and the clusters of the last graph are carried *)
(* back to the nodes of the hypergraph.                                    *)
(*                                                                         *)
(* Weights are whole numbers: those of a net divided by its size are       *)
(* multiplied by a common multiple of the sizes, and gains by the total    *)
(* weight, which changes no comparison.  A comparison of equal numbers     *)
(* comes out as equal, where long doubles may differ in the last bit.      *)
(***************************************************************************)
EXTENDS Integers, SequencesExt

CONSTANT CommunityInstances

VARIABLES
  phase,
  context,        \* the hypergraph and the options
  hierarchy,      \* _graph_hierarchy
  mapping_stack,  \* nodes of a graph to nodes of the next
  quality,        \* internal and total weight of the clusters of the last graph
  pass,           \* the locals of louvain_pass
  cur_quality,
  communities

louvain_vars == <<phase, context, hierarchy, mapping_stack, quality, pass, cur_quality, communities>>

-----------------------------------------------------------------------------
(* Graphs.  The edges of a node are listed, since the first of the best    *)
(* clusters is taken.                                                      *)

Invalid == -1
NodesOf(g) == DOMAIN g.edges
SumOf(edges, indices) == MapThenSumSet(LAMBDA i : edges[i].weight, indices)
NewGraph(edges, mapping) ==
  LET nodes == DOMAIN edges
      degree == [u \in nodes |-> SumOf(edges[u], DOMAIN edges[u])]
      loops(u) == {i \in DOMAIN edges[u] : edges[u][i].target = u}
  IN [edges |-> edges, hypernode_mapping |-> mapping, cluster |-> [u \in nodes |-> u],
      cluster_size |-> [u \in nodes |-> 1], num_communities |-> Cardinality(nodes),
      weighted_degree |-> degree, total_weight |-> MapThenSumSet(LAMBDA u : degree[u], nodes),
      selfloop_weight |-> [u \in nodes |-> IF loops(u) = {} THEN 0 ELSE edges[u][Max(loops(u))].weight]]

(* A hypergraph whose nets have at most two pins is a graph already; any   *)
(* other one becomes the bipartite graph of its nodes and nets.            *)
Rank(x, S) == Cardinality({y \in S : y < x})
Sorted(S) == SetToSortSeq(S, <)
incidentEdges(h, hn) == Sorted({he \in DOMAIN h.nets : \E i \in DOMAIN h.nets[he].pins : h.nets[he].pins[i] = hn})
edgeWeight(h, he, hn) ==
  LET size == Len(h.nets[he].pins)
  IN CASE h.edge_weight = "uniform" -> h.nets[he].weight * h.scale
       [] h.edge_weight = "non_uniform" -> (h.nets[he].weight * h.scale) \div size
       [] h.edge_weight = "degree" ->
            (h.nets[he].weight * Len(incidentEdges(h, hn)) * h.scale) \div size
constructGraph(h) ==
  LET mapping == [hn \in h.nodes |-> Rank(hn, h.nodes)]
      others(he, hn) == SelectSeq(h.nets[he].pins, LAMBDA pin : pin # hn)
      edge(he, hn) == [target |-> mapping[others(he, hn)[1]], weight |-> h.nets[he].weight * h.scale]
      node(hn) == LET nets == incidentEdges(h, hn) IN [i \in DOMAIN nets |-> edge(nets[i], hn)]
  IN NewGraph([u \in 0 .. Cardinality(h.nodes) - 1 |-> node(Sorted(h.nodes)[u + 1])], mapping)
constructBipartiteGraph(h) ==
  LET n == Cardinality(h.nodes)
      mapping == [hn \in h.nodes |-> Rank(hn, h.nodes)]
      net(he) == n + Rank(he, DOMAIN h.nets)
      node(hn) ==
        LET nets == incidentEdges(h, hn)
        IN [i \in DOMAIN nets |-> [target |-> net(nets[i]), weight |-> edgeWeight(h, nets[i], hn)]]
      pins(he) ==
        [i \in DOMAIN h.nets[he].pins |->
           [target |-> mapping[h.nets[he].pins[i]], weight |-> edgeWeight(h, he, h.nets[he].pins[i])]]
  IN NewGraph([u \in 0 .. n + Cardinality(DOMAIN h.nets) - 1 |->
                 IF u < n THEN node(Sorted(h.nodes)[u + 1]) ELSE pins(Sorted(DOMAIN h.nets)[u - n + 1])],
              mapping)
GraphOf(h) ==
  IF \A he \in DOMAIN h.nets : Len(h.nets[he].pins) <= 2 THEN constructGraph(h)
  ELSE constructBipartiteGraph(h)

setClusterID(g, u, to) ==
  LET from == g.cluster[u]
      left == IF from # Invalid /\ from # to /\ g.cluster_size[from] = 1 THEN 1 ELSE 0
      opened == IF to # Invalid /\ from # to /\ g.cluster_size[to] = 0 THEN 1 ELSE 0
      change(c) == (IF c = to THEN 1 ELSE 0) - (IF c = from THEN 1 ELSE 0)
  IN [g EXCEPT !.num_communities = @ - left + opened,
               !.cluster_size = [c \in DOMAIN @ |-> @[c] + change(c)],
               !.cluster[u] = to]

(* The clusters at the ends of edges, in the order they are found.         *)
IncidentClusterWeights(edges, cluster) ==
  LET at(i) == cluster[edges[i].target]
      found == Sorted({i \in DOMAIN edges : at(i) # Invalid /\ \A j \in 1 .. i - 1 : at(j) # at(i)})
  IN [n \in DOMAIN found |->
        [cluster |-> at(found[n]), weight |-> SumOf(edges, {i \in DOMAIN edges : at(i) = at(found[n])})]]

(* Clusters are numbered by their first nodes; nodes get the new numbers   *)
(* one after the other.                                                    *)
ContractedNode(g) ==
  LET firsts == {u \in NodesOf(g) : \A v \in 0 .. u - 1 : g.cluster[v] # g.cluster[u]}
      first(u) == CHOOSE v \in firsts : g.cluster[v] = g.cluster[u]
  IN [u \in NodesOf(g) |-> Rank(first(u), firsts)]
Renumbered(g) ==
  LET number == ContractedNode(g)
      step[n \in 0 .. Cardinality(NodesOf(g))] ==
        IF n = 0 THEN g ELSE setClusterID(step[n - 1], n - 1, number[n - 1])
  IN step[Cardinality(NodesOf(g))]
contractClusters(g) ==
  LET number == ContractedNode(g)
      edgesOf(c) ==
        LET nodes == Sorted({u \in NodesOf(g) : number[u] = c})
            weights == IncidentClusterWeights(FlattenSeq([i \in DOMAIN nodes |-> g.edges[nodes[i]]]), number)
        IN [i \in DOMAIN weights |-> [target |-> weights[i].cluster, weight |-> weights[i].weight]]
  IN NewGraph([c \in 0 .. Max({number[u] : u \in NodesOf(g)}) |-> edgesOf(c)],
              [hn \in DOMAIN g.hypernode_mapping |-> number[g.hypernode_mapping[hn]]])

-----------------------------------------------------------------------------
(* Modularity.                                                             *)

NewQuality(g) == [internal |-> g.selfloop_weight, total |-> g.weighted_degree]
remove(q, g, u, weight) ==
  LET c == g.cluster[u]
  IN [internal |-> [q.internal EXCEPT ![c] = @ - (2 * weight + g.selfloop_weight[u])],
      total |-> [q.total EXCEPT ![c] = @ - g.weighted_degree[u]]]
insert(q, g, u, c, weight) ==
  [internal |-> [q.internal EXCEPT ![c] = @ + 2 * weight + g.selfloop_weight[u]],
   total |-> [q.total EXCEPT ![c] = @ + g.weighted_degree[u]]]
gain(q, g, u, c, weight) == weight * g.total_weight - q.total[c] * g.weighted_degree[u]
QualityOf(q, g) ==
  LET m2 == Max({g.total_weight, 1})
  IN [numerator |-> MapThenSumSet(LAMBDA c : q.internal[c] * m2 - q.total[c] * q.total[c], NodesOf(g)),
      denominator |-> m2 * m2]

(* A node leaves its cluster for the one with most gain, if any gains      *)
(* something, and otherwise returns to it.                                 *)
Within(g, u) == {i \in DOMAIN g.edges[u] : g.edges[u][i].target # u /\ g.cluster[g.edges[u][i].target] = g.cluster[u]}
Moved(q, g, u) ==
  LET cur_cid == g.cluster[u]
      weight == SumOf(g.edges[u], Within(g, u))
      isolated == setClusterID(g, u, Invalid)
      removed == remove(q, g, u, weight)
      weights == IncidentClusterWeights(g.edges[u], isolated.cluster)
      gains == [n \in DOMAIN weights |-> gain(removed, g, u, weights[n].cluster, weights[n].weight)]
      best == {n \in DOMAIN weights : gains[n] > 0 /\ \A k \in DOMAIN weights : gains[k] <= gains[n]}
      chosen == IF best = {} THEN [cluster |-> cur_cid, weight |-> weight] ELSE weights[Min(best)]
  IN [graph |-> setClusterID(isolated, u, chosen.cluster),
      quality |-> insert(removed, g, u, chosen.cluster, chosen.weight), cluster |-> chosen.cluster]

(* Mutant: a node is stamped with the time after its visit, so that a move *)
(* of the very next node is missed.                                        *)
stamped_after_visit(p, g, u) ==
  \E i \in DOMAIN g.edges[u] :
    p.node_time_stamp[u] + 1 < p.cluster_time_stamp[g.cluster[g.edges[u][i].target]]

(* A cluster around it has changed since it was visited.                   *)
incident_cluster_changed(p, g, u) ==
  \E i \in DOMAIN g.edges[u] :
    p.node_time_stamp[u] < p.cluster_time_stamp[g.cluster[g.edges[u][i].target]]

-----------------------------------------------------------------------------
Graph == hierarchy[Len(hierarchy)]
NewPass(g) ==
  LET n == Cardinality(NodesOf(g))
  IN [order |-> <<>>, position |-> 0, node_moves |-> 0, iterations |-> 1, time_stamp |-> 0,
      node_time_stamp |-> [u \in NodesOf(g) |-> 0], cluster_time_stamp |-> [u \in NodesOf(g) |-> n]]

LouvainInit ==
  /\ phase = "pass"
  /\ context \in CommunityInstances
  /\ hierarchy = <<GraphOf(context)>>
  /\ mapping_stack = <<>>
  /\ quality = NewQuality(hierarchy[1])
  /\ pass = NewPass(hierarchy[1])
  /\ cur_quality = QualityOf(quality, hierarchy[1])
  /\ communities = <<>>

(* The nodes are shuffled at the start of a pass: the first iteration may  *)
(* visit them in any order, the others repeat it.                          *)
NextNodes ==
  IF pass.position < Len(pass.order) THEN {pass.order[pass.position + 1]}
  ELSE NodesOf(Graph) \ {pass.order[i] : i \in DOMAIN pass.order}
Visit ==
  /\ phase = "pass"
  /\ \E u \in NextNodes :
       LET cur_cid == Graph.cluster[u]
           changed == incident_cluster_changed(pass, Graph, u)
           moved == Moved(quality, Graph, u)
           moves == changed /\ moved.cluster # cur_cid
           now == pass.time_stamp
       IN /\ hierarchy' = IF changed THEN [hierarchy EXCEPT ![Len(hierarchy)] = moved.graph] ELSE hierarchy
          /\ quality' = IF changed THEN moved.quality ELSE quality
          /\ pass' = [pass EXCEPT
               !.order = IF pass.position < Len(@) THEN @ ELSE Append(@, u),
               !.position = @ + 1,
               !.node_moves = IF moves THEN @ + 1 ELSE @,
               !.cluster_time_stamp = [c \in DOMAIN @ |->
                  IF moves /\ c \in {cur_cid, moved.cluster} THEN Max({now, @[c]}) ELSE @[c]],
               !.node_time_stamp[u] = now,
               !.time_stamp = now + 1]
  /\ UNCHANGED <<phase, context, mapping_stack, cur_quality, communities>>

IterationIsOver == phase = "pass" /\ pass.position = Cardinality(NodesOf(Graph))
PassGoesOn == pass.node_moves > 0 /\ pass.iterations < context.max_pass_iterations
EndIteration ==
  /\ IterationIsOver /\ PassGoesOn
  /\ pass' = [pass EXCEPT !.position = 0, !.node_moves = 0, !.iterations = @ + 1]
  /\ UNCHANGED <<phase, context, hierarchy, mapping_stack, quality, cur_quality, communities>>

Improvement(new, old) ==
  LET difference == new.numerator * old.denominator - old.numerator * new.denominator
  IN difference * context.min_eps_inverse > new.denominator * old.denominator
EndPass ==
  /\ IterationIsOver /\ ~PassGoesOn
  /\ cur_quality' = QualityOf(quality, Graph)
  /\ IF Improvement(cur_quality', cur_quality)
     THEN LET coarse == contractClusters(Graph)
          IN /\ hierarchy' = Append([hierarchy EXCEPT ![Len(hierarchy)] = Renumbered(Graph)], coarse)
             /\ mapping_stack' = Append(mapping_stack, ContractedNode(Graph))
             /\ quality' = NewQuality(coarse)
             /\ pass' = NewPass(coarse)
             /\ UNCHANGED phase
     ELSE phase' = "assign" /\ UNCHANGED <<hierarchy, mapping_stack, quality, pass>>
  /\ UNCHANGED <<context, communities>>

assignClusterToNextLevelFinerGraph(fine, coarse, mapping) ==
  LET step[n \in 0 .. Cardinality(NodesOf(fine))] ==
        IF n = 0 THEN fine ELSE setClusterID(step[n - 1], n - 1, coarse.cluster[mapping[n - 1]])
  IN step[Cardinality(NodesOf(fine))]
Assign ==
  LET n == Len(hierarchy)
  IN /\ phase = "assign" /\ mapping_stack # <<>>
     /\ hierarchy' = Append(SubSeq(hierarchy, 1, n - 2),
                            assignClusterToNextLevelFinerGraph(hierarchy[n - 1], hierarchy[n], mapping_stack[n - 1]))
     /\ mapping_stack' = Front(mapping_stack)
     /\ UNCHANGED <<phase, context, quality, pass, cur_quality, communities>>
hypernodeClusterID(g, hn) == g.cluster[g.hypernode_mapping[hn]]
detectCommunities ==
  /\ phase = "assign" /\ mapping_stack = <<>>
  /\ communities' = [hn \in context.nodes |-> hypernodeClusterID(Graph, hn)]
  /\ phase' = "done"
  /\ UNCHANGED <<context, hierarchy, mapping_stack, quality, pass, cur_quality>>

LouvainNext ==
  (Visit /\ pass.position < Cardinality(NodesOf(Graph))) \/ EndIteration \/ EndPass \/ Assign \/ detectCommunities

-----------------------------------------------------------------------------
(* Modularity by its definition: what the edges inside clusters weigh,     *)
(* less what they would weigh if edges joined ends at random.              *)
Modularity(g, cluster) ==
  MapThenSumSet(
    LAMBDA u : SumOf(g.edges[u], {i \in DOMAIN g.edges[u] : cluster[g.edges[u][i].target] = cluster[u]}) * g.total_weight
               - MapThenSumSet(LAMBDA v : g.weighted_degree[u] * g.weighted_degree[v],
                               {v \in NodesOf(g) : cluster[v] = cluster[u]}),
    NodesOf(g))

(* The numbers kept per cluster are recounts, on every graph (modularity.h, *)
(* graph.h: the assertion of setClusterID).                                *)
CountsAreRight ==
  /\ \A n \in DOMAIN hierarchy :
       LET g == hierarchy[n]
       IN /\ g.num_communities = Cardinality({g.cluster[u] : u \in NodesOf(g)})
          /\ \A c \in NodesOf(g) : g.cluster_size[c] = Cardinality({u \in NodesOf(g) : g.cluster[u] = c})
  /\ phase = "pass" =>
       \A c \in NodesOf(Graph) :
         LET members == {u \in NodesOf(Graph) : Graph.cluster[u] = c}
             inside(u) == {i \in DOMAIN Graph.edges[u] : Graph.edges[u][i].target \in members}
         IN /\ quality.total[c] = MapThenSumSet(LAMBDA u : Graph.weighted_degree[u], members)
            /\ quality.internal[c] = MapThenSumSet(LAMBDA u : SumOf(Graph.edges[u], inside(u)), members)

(* Wherever a node goes, it takes what the modularity gains, and nowhere   *)
(* is there more to gain but where it is (the assertion of gain).          *)
VisitsAreBest ==
  phase = "pass" =>
    \A u \in NodesOf(Graph) :
      LET modularity(c) == Modularity(Graph, [Graph.cluster EXCEPT ![u] = c])
          near == {Graph.cluster[Graph.edges[u][i].target] : i \in DOMAIN Graph.edges[u]}
          went == Moved(quality, Graph, u).cluster
          stays == modularity(Graph.cluster[u])
      IN /\ modularity(went) >= stays
         /\ went # Graph.cluster[u] => \A c \in near : modularity(went) >= modularity(c)

(* A node that is skipped since no cluster around it changed would have    *)
(* stayed (louvain.h:172).                                                 *)
SkippedNodesWouldStay ==
  phase = "pass" =>
    \A u \in NodesOf(Graph) :
      incident_cluster_changed(pass, Graph, u) \/ Moved(quality, Graph, u).cluster = Graph.cluster[u]

(* Seen from the first graph, the clusters of the last one are clusters    *)
(* with just the quality that is tracked, on every level (the assertion of *)
(* run); and no quality is lost on the way.                                *)
Composed ==
  LET at[n \in 1 .. Len(hierarchy)] ==
        IF n = 1 THEN [u \in NodesOf(hierarchy[1]) |-> u]
        ELSE [u \in NodesOf(hierarchy[1]) |-> mapping_stack[n - 1][at[n - 1][u]]]
  IN [u \in NodesOf(hierarchy[1]) |-> Graph.cluster[at[Len(hierarchy)][u]]]
LevelsAgree ==
  LET modularity == Modularity(hierarchy[1], Composed)
      m2 == hierarchy[1].total_weight
  IN /\ \A n \in DOMAIN hierarchy : hierarchy[n].total_weight = m2
     /\ \A n \in DOMAIN mapping_stack :
          n + 1 \in DOMAIN hierarchy => Cardinality(NodesOf(hierarchy[n + 1])) = hierarchy[n].num_communities
     /\ phase = "pass" => QualityOf(quality, Graph).numerator = modularity /\ modularity >= cur_quality.numerator
     /\ phase \in {"assign", "done"} => cur_quality = [numerator |-> modularity, denominator |-> m2 * m2]
     /\ phase = "done" => modularity >= Modularity(hierarchy[1], [u \in NodesOf(hierarchy[1]) |-> u])

(* In the end two nodes of the hypergraph are in one community if and only *)
(* if the graphs put them together, and every node has one.                *)
EveryNodeHasACommunity ==
  phase = "done" =>
    /\ Len(hierarchy) = 1 /\ mapping_stack = <<>>
    /\ \A hn \in context.nodes : communities[hn] \in 0 .. Cardinality(NodesOf(Graph)) - 1

CommunitiesAreRight ==
  CountsAreRight /\ VisitsAreBest /\ SkippedNodesWouldStay /\ LevelsAgree /\ EveryNodeHasACommunity
=============================================================================
