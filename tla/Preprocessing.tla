--------------------------- MODULE Preprocessing ---------------------------
(***************************************************************************)
(* What a call of the partitioner does around partitioning                 *)
(* (partition/partitioner.h and partition/preprocessing): identical nodes  *)
(* and parallel nets are merged, single-node and very large nets are taken *)
(* out, a sparsifier may cluster nodes by hashes, communities are detected *)
(* or taken over from an earlier call, and after partitioning everything   *)
(* is undone.  Partitioning itself is any assignment that respects the     *)
(* fixed vertices.                                                         *)
(***************************************************************************)
EXTENDS KHypergraph, SequencesExt

CONSTANTS
  PreprocessingInputs,  (* Hypergraphs with the options of the calls.      *)
  HashValues,           (* Values of a combined hash function.             *)
  Word                  (* Cluster sizes are kept modulo Word, 2^32.       *)

VARIABLES
  phase,
  input,         \* the hypergraph as it was given
  context,
  calls,         \* calls so far
  hg,
  removed,       \* what the removers and the deduplicator keep
  clusters,      \* of the sparsifier, by node
  lsh,           \* the locals of build
  sparse,        \* the sparsified hypergraph
  communities,   \* those in the context: the hypergraph they were found on
  used,          \* those of the hypergraph that is partitioned
  partitioned    \* objective and block weights of the partition found

preprocessing_vars ==
  <<phase, input, context, calls, hg, removed, clusters, lsh, sparse, communities, used, partitioned>>

Invalid == -1
Ascending(S) == SetToSortSeq(S, <)
WeightOf(S, weight) == MapThenSumSet(LAMBDA x : weight[x], S)

-----------------------------------------------------------------------------
(* Options that depend on the hypergraph.                                  *)

IsActive(g, c) ==
  LET edges == SetToSeq(g.live)
      sizes == SortSeq([i \in DOMAIN edges |-> g.size[edges[i]]], <)
      half == Len(sizes) \div 2
      twice_median == IF Len(sizes) % 2 = 0 THEN sizes[half + 1] + sizes[half] ELSE 2 * sizes[half + 1]
  IN /\ c.decisions[calls] = "normal" /\ c.enable_min_hash_sparsifier
     /\ twice_median >= 2 * c.min_median_he_size
configurePreprocessing(g, c) ==
  [c EXCEPT
     !.is_active = IsActive(g, c),
     !.edge_weight = IF c.enable_community_detection /\ @ = "hybrid"
                     THEN IF 4 * Cardinality(Nets) < 3 * Cardinality(Nodes) THEN "degree" ELSE "uniform"
                     ELSE @]
setupContext(c) ==
  [c EXCEPT !.max_he_size_threshold =
     Max({(Cardinality(Nodes) * c.max_he_size_threshold_percent) \div 100, c.smallest_max_he_size_threshold})]

-----------------------------------------------------------------------------
(* Deduplication: the first of identical nodes represents the others.      *)

removeIdenticalNodes(g) ==
  LET first(u) == Min({v \in g.on : g.nets[v] = g.nets[u]})
      others == Ascending({u \in g.on : first(u) # u})
  IN [i \in DOMAIN others |-> [u |-> first(others[i]), v |-> others[i]]]
removeParallelHyperedges(g) ==
  LET first(e) == Min({f \in g.live : pins(g, f) = pins(g, e)})
      others == Ascending({e \in g.live : first(e) # e})
  IN [i \in DOMAIN others |-> [he |-> others[i], representative |-> first(others[i])]]

Contracted(g, mementos) ==
  LET step[n \in 0 .. Len(mementos)] ==
        IF n = 0 THEN g
        ELSE LET before == step[n - 1] IN contract(before, mementos[n].u, mementos[n].v)
  IN step[Len(mementos)]
Merged(g, parallel) ==
  [removeEdges(g, {parallel[i].he : i \in DOMAIN parallel}) EXCEPT
     !.edge_weight =
       [e \in Nets |-> @[e] + WeightOf({parallel[i].he : i \in {j \in DOMAIN parallel : parallel[j].representative = e}},
                                       g.edge_weight)]]

restoreIdenticalVertices(g, mementos) ==
  LET n == Len(mementos)
      step[m \in 0 .. n] ==
        IF m = 0 THEN g
        ELSE LET after == step[m - 1] IN uncontract(after, mementos[n - m + 1].u, mementos[n - m + 1].v)
  IN step[n]
restoreParallelHyperedges(g, parallel) ==
  LET edges == {parallel[i].he : i \in DOMAIN parallel}
      representative(e) == parallel[CHOOSE i \in DOMAIN parallel : parallel[i].he = e].representative
  IN [restoreEdges(g, edges, {e \in edges : g.connectivity[representative(e)] > 1}) EXCEPT
        !.edge_weight = [e \in Nets |-> @[e] - WeightOf({f \in edges : representative(f) = e}, g.edge_weight)]]

restoreRedundancy(g) ==
  restoreIdenticalVertices(restoreParallelHyperedges(g, removed.parallel), removed.identical)

-----------------------------------------------------------------------------
(* The sparsifier.  In each round the nodes of active clusters get hashes, *)
(* and a node takes those with its hash into its cluster until it is full. *)

(* The cluster c takes the nodes of a bucket one after the other; once it  *)
(* is large enough it is not active any more.                              *)
Joined(s, c, nodes) ==
  LET step[n \in 0 .. Len(nodes)] ==
        IF n = 0 THEN [s EXCEPT !.full = FALSE]
        ELSE LET r == step[n - 1]
                 other == r.clusters[nodes[n]]
                 weight == hg.weight[nodes[n]]
                 given == [r.size EXCEPT ![other] = (@ - weight) % Word]
                 taken == [given EXCEPT ![c] = (@ + weight) % Word]
             IN IF r.full \/ other \notin r.active THEN r
                ELSE IF (r.size[c] + weight) % Word > context.max_cluster_size
                THEN [r EXCEPT !.full = TRUE]
                ELSE [r EXCEPT !.clusters[nodes[n]] = c, !.size = taken,
                        !.active = IF taken[c] >= context.min_cluster_size THEN @ \ {c} ELSE @,
                        !.visited = @ \cup {nodes[n]}, !.left = @ \ {nodes[n]}]
  IN step[Len(nodes)]
runIncrementalBfs(s, hash) ==
  LET order == Ascending(hg.on)
      bucket(r, u) == Ascending({x \in r.left : hash[x] = hash[u]})
      step[n \in 0 .. Len(order)] ==
        IF n = 0 THEN s
        ELSE LET r == step[n - 1]
                 u == order[n]
             IN IF u \in r.visited \/ r.clusters[u] \notin r.active THEN r
                ELSE Joined([r EXCEPT !.visited = @ \cup {u}], r.clusters[u], bucket(r, u))
  IN step[Len(order)]

NumFree == Cardinality(Nodes) - Cardinality(hg.fixed)
NewLsh == [size |-> [u \in Nodes |-> 1], active |-> Nodes, num_active |-> NumFree, rounds |-> 0]

(* Clusters are numbered by their first nodes.                             *)
reenumerateClusters ==
  LET first(u) == Min({v \in hg.on : clusters[v] = clusters[u]})
      firsts == {first(u) : u \in hg.on}
  IN [u \in Nodes |-> IF u \in hg.on THEN Cardinality({v \in firsts : v < first(u)}) ELSE Invalid]

(* A net with the clusters of its pins, in the order they are met.         *)
NewPins(e, number) ==
  LET of(i) == number[hg.slots[e][i]]
      firsts == Ascending({i \in 1 .. hg.size[e] : \A j \in 1 .. i - 1 : of(j) # of(i)})
  IN [n \in DOMAIN firsts |-> of(firsts[n])]

(* One net more: it is dropped, merged with one of the same clusters, or   *)
(* gets the next number.                                                   *)
WithNet(s, new_pins, weight) ==
  IF Len(new_pins) <= 1 THEN [s EXCEPT !.removed = @ + 1, !.next = @ + 1]
  ELSE IF new_pins \in DOMAIN s.parallel
  THEN [s EXCEPT !.parallel[new_pins].weight = @ + weight, !.removed = @ + 1, !.next = @ + 1]
  ELSE [s EXCEPT !.edges = Append(@, new_pins), !.next = @ + 1,
                 !.parallel = [p \in DOMAIN @ \cup {new_pins} |->
                    IF p \in DOMAIN @ THEN @[p] ELSE [number |-> s.next - s.removed, weight |-> weight]]]

buildSparsifiedHypergraph(number) ==
  LET order == Ascending(hg.live)
      step[n \in 0 .. Len(order)] ==
        IF n = 0 THEN [edges |-> <<>>, parallel |-> <<>>, removed |-> 0, next |-> 0]
        ELSE LET s == step[n - 1] IN WithNet(s, NewPins(order[n], number), hg.edge_weight[order[n]])
      nets == step[Len(order)]
      nodes == {number[u] : u \in hg.on}
      weightOf(i) == {p \in DOMAIN nets.parallel : nets.parallel[p].number = i - 1}
      fixed(c) == {hg.fixed_part[u] : u \in {v \in hg.fixed : number[v] = c}}
  IN [nodes |-> nodes,
      nets |-> [i \in DOMAIN nets.edges |->
                  [pins |-> {nets.edges[i][j] : j \in DOMAIN nets.edges[i]},
                   weight |-> MapThenSumSet(LAMBDA p : nets.parallel[p].weight, weightOf(i))]],
      weight |-> [c \in nodes |-> WeightOf({u \in hg.on : number[u] = c}, hg.weight)],
      fixed_part |-> [c \in nodes |-> IF fixed(c) = {} THEN kInvalidPartition ELSE Max(fixed(c))],
      part |-> [c \in nodes |-> kInvalidPartition]]

-----------------------------------------------------------------------------
objective(g) == IF context.objective = "km1" THEN km1(g) ELSE hyperedgeCut(g)
CostOf(connectivity, weight) ==
  IF connectivity <= 1 THEN 0 ELSE IF context.objective = "km1" THEN (connectivity - 1) * weight ELSE weight
SparseObjective(s) ==
  MapThenSumSet(LAMBDA i : CostOf(Cardinality({s.part[c] : c \in s.nets[i].pins}), s.nets[i].weight), DOMAIN s.nets)

NothingRemoved == [single |-> {}, large |-> {}, parallel |-> <<>>, identical |-> <<>>]
PreprocessingInit ==
  /\ phase = "configure"
  /\ \E i \in PreprocessingInputs :
       /\ context = i.context
       /\ LET fixed == DOMAIN i.fixed
              new == NewHypergraph(i.pins, i.weight, i.edge_weight)
          IN input = [new EXCEPT
               !.fixed = fixed,
               !.fixed_part = [u \in Nodes |-> IF u \in fixed THEN i.fixed[u] ELSE kInvalidPartition],
               !.fixed_weight = [p \in Parts |-> WeightOf({u \in fixed : i.fixed[u] = p}, i.weight)]]
  /\ hg = input
  /\ calls = 1 /\ removed = NothingRemoved /\ clusters = <<>> /\ lsh = <<>> /\ sparse = <<>>
  /\ communities = <<>> /\ used = <<>> /\ partitioned = <<>>

Configure ==
  /\ phase = "configure"
  /\ context' = setupContext(configurePreprocessing(hg, context))
  /\ phase' = IF context.enable_deduplication THEN "deduplicate" ELSE "sanitize"
  /\ UNCHANGED <<input, calls, hg, removed, clusters, lsh, sparse, communities, used, partitioned>>

deduplicate ==
  LET mementos == removeIdenticalNodes(hg)
      contracted == Contracted(hg, mementos)
      parallel == removeParallelHyperedges(contracted)
  IN /\ phase = "deduplicate"
     /\ hg' = Merged(contracted, parallel)
     /\ removed' = [removed EXCEPT !.identical = mementos, !.parallel = parallel]
     /\ phase' = "sanitize"
     /\ UNCHANGED <<input, context, calls, clusters, lsh, sparse, communities, used, partitioned>>

sanitize ==
  LET single == {e \in hg.live : hg.size[e] = 1}
      large == {e \in hg.live \ single : hg.size[e] > context.max_he_size_threshold}
  IN /\ phase = "sanitize"
     /\ hg' = removeEdges(hg, single \cup large)
     /\ removed' = [removed EXCEPT !.single = @ \cup single, !.large = large]
     /\ IF context.is_active
        THEN /\ phase' = "cluster"
             /\ clusters' = [u \in Nodes |-> IF u \in hg.on THEN u ELSE Invalid]
             /\ lsh' = NewLsh
        ELSE phase' = "preprocess" /\ UNCHANGED <<clusters, lsh>>
     /\ UNCHANGED <<input, context, calls, sparse, communities, used, partitioned>>

RoundsLeft == lsh.num_active > 0 /\ lsh.rounds < context.num_hash_functions
HashRound ==
  /\ phase = "cluster" /\ RoundsLeft
  /\ LET active == lsh.active \ {clusters[u] : u \in hg.fixed}
         vertices == {u \in hg.on : ~isFixedVertex(hg, u) /\ clusters[u] \in active}
         s == [clusters |-> clusters, size |-> lsh.size, active |-> active, visited |-> {},
               left |-> vertices, full |-> FALSE]
     IN \E hash \in [vertices -> HashValues] :
          \E r \in {runIncrementalBfs(s, hash)} :
            /\ clusters' = r.clusters
            /\ lsh' = [size |-> r.size, active |-> r.active, rounds |-> lsh.rounds + 1,
                       num_active |-> (lsh.num_active - WeightOf(active \ r.active, r.size)) % Word]
  /\ phase' = IF Cardinality(hg.on) <= NumFree \div 2 THEN "sparsify" ELSE "cluster"
  /\ UNCHANGED <<input, context, calls, hg, removed, sparse, communities, used, partitioned>>

Sparsify ==
  /\ phase = "sparsify" \/ (phase = "cluster" /\ ~RoundsLeft)
  /\ clusters' = reenumerateClusters
  /\ sparse' = buildSparsifiedHypergraph(clusters')
  /\ phase' = "preprocess"
  /\ UNCHANGED <<input, context, calls, hg, removed, lsh, communities, used, partitioned>>

(* Communities are found on the hypergraph that is partitioned, unless the *)
(* context still has some; what they are is left open.                     *)
Target == IF context.is_active THEN [sparse EXCEPT !.part = <<>>] ELSE [nets |-> hg.nets, on |-> hg.on]
preprocess ==
  /\ phase = "preprocess"
  /\ IF context.mode = "recursive_bisection" \/ ~context.enable_community_detection
     THEN UNCHANGED <<communities, used>>
     ELSE LET found == IF communities = <<>> \/ context.is_active THEN Target ELSE communities
          IN communities' = found /\ used' = found
  /\ phase' = "partition"
  /\ UNCHANGED <<input, context, calls, hg, removed, clusters, lsh, sparse, partitioned>>

partition ==
  /\ phase = "partition"
  /\ IF context.is_active
     THEN \E p \in [sparse.nodes -> Parts] :
            /\ \A c \in sparse.nodes : sparse.fixed_part[c] \in {kInvalidPartition, p[c]}
            /\ sparse' = [sparse EXCEPT !.part = p]
            /\ hg' = reset(hg)
            /\ partitioned' =
                 [objective |-> SparseObjective(sparse'),
                  part_weight |-> [b \in Parts |-> WeightOf({c \in sparse.nodes : p[c] = b}, sparse.weight)]]
     ELSE \E p \in [hg.on -> Parts] :
            /\ \A u \in hg.fixed : p[u] = hg.fixed_part[u]
            /\ hg' = initializeNumCutHyperedges(AssignParts(hg, p))
            /\ partitioned' = [objective |-> objective(hg'), part_weight |-> hg'.part_weight]
            /\ UNCHANGED sparse
  /\ phase' = "postprocess"
  /\ UNCHANGED <<input, context, calls, removed, clusters, lsh, communities, used>>

applyPartition(g) == AssignParts(g, [u \in g.on |-> sparse.part[clusters[u]]])
postprocess ==
  LET g == IF context.is_active THEN applyPartition(hg) ELSE hg
  IN /\ phase = "postprocess"
     /\ hg' = restoreEdges(g, removed.single \cup removed.large, {})
     /\ removed' = [removed EXCEPT !.single = {}]
     /\ communities' = IF context.is_active THEN <<>> ELSE communities
     /\ phase' = "restore"
     /\ UNCHANGED <<input, context, calls, clusters, lsh, sparse, used, partitioned>>

Restore ==
  /\ phase = "restore"
  /\ hg' = restoreRedundancy(hg)
  /\ phase' = "done"
  /\ UNCHANGED <<input, context, calls, removed, clusters, lsh, sparse, communities, used, partitioned>>

(* The next call of an evolutionary run, or of a repetition.               *)
CallAgain ==
  /\ phase = "done" /\ calls < Len(context.decisions)
  /\ calls' = calls + 1
  /\ hg' = reset(hg) /\ used' = <<>> /\ clusters' = <<>> /\ lsh' = <<>> /\ sparse' = <<>> /\ partitioned' = <<>>
  /\ phase' = "configure"
  /\ UNCHANGED <<input, context, removed, communities>>

PreprocessingNext ==
  \/ Configure \/ deduplicate \/ sanitize \/ HashRound \/ Sparsify \/ preprocess \/ partition
  \/ postprocess \/ Restore \/ CallAgain

-----------------------------------------------------------------------------
(* After a call the hypergraph is the one that was given (partitioner.h,   *)
(* hypergraph_deduplicator.h).                                             *)
Given(g) ==
  [on |-> g.on, live |-> g.live, nets |-> g.nets, pins |-> [e \in Nets |-> pins(g, e)], size |-> g.size,
   weight |-> g.weight, edge_weight |-> g.edge_weight, num_pins |-> g.num_pins, fixed |-> g.fixed,
   fixed_part |-> g.fixed_part, fixed_weight |-> g.fixed_weight]
HypergraphIsRestored == phase = "done" => Given(hg) = Given(input)

(* And it has a whole partition: every node a block, a fixed one its own,  *)
(* with the counts and the weights of that partition.                      *)
PartitionIsWhole ==
  phase = "done" =>
    /\ \A u \in Nodes : hg.part[u] \in Parts /\ hg.fixed_part[u] \in {kInvalidPartition, hg.part[u]}
    /\ PinCountsAreRight(hg) /\ PartWeightsAreRight(hg)

(* What was merged or taken out changes neither balance nor objective, but *)
(* for the large nets, which nobody tried to keep together.                *)
ObjectiveIsKept ==
  phase = "done" =>
    /\ hg.part_weight = partitioned.part_weight
    /\ objective(hg) = partitioned.objective
         + MapThenSumSet(LAMBDA e : CostOf(hg.connectivity[e], hg.edge_weight[e]), removed.large)

(* The sparsifier leaves fixed vertices alone and no cluster outgrows the  *)
(* limit, but for the weight of the node it is named after, which counts   *)
(* one.                                                                    *)
ClustersAreSmall ==
  phase \in {"cluster", "sparsify"} =>
    \A c \in {clusters[u] : u \in hg.on} :
      LET members == {u \in hg.on : clusters[u] = c}
      IN /\ members \cap hg.fixed # {} => members = {c}
         /\ WeightOf(members, hg.weight) <= Max({context.max_cluster_size, 1}) + hg.weight[c] - 1
         /\ lsh.size[c] = (WeightOf(members, hg.weight) + 1 - hg.weight[c]) % Word

(* Communities were found on just the hypergraph that is partitioned.      *)
CommunitiesAreOfTarget == phase = "partition" => used \in {<<>>, Target}

PreprocessingIsUndone ==
  HypergraphIsRestored /\ PartitionIsWhole /\ ObjectiveIsKept /\ ClustersAreSmall /\ CommunitiesAreOfTarget
=============================================================================
