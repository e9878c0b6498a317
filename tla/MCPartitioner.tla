--------------------------- MODULE MCPartitioner ---------------------------
(***************************************************************************)
(* Small instances of the algorithms inside KaHyPar's multilevel scheme.   *)
(* Each behaviour is one of a single component, chosen in the initial      *)
(* state; the components share variables where they name the same thing,   *)
(* and a variable that a component does not have is idle.                  *)
(***************************************************************************)
EXTENDS Integers, FiniteSets, Sequences, SequencesExt

VARIABLES
  component, hg, phase, history, refinement_nodes, iteration, value, deltas, active, keys,
  enabled, marked, locks, performed_moves, min_cut_index, touched, current, best, initial,
  changes, fully_active,
  context, input, graph, left_cover, right_cover, residual, coarse, input_to_coarse, free,
  free_to_input, stack, mapping_stack, attempt, cuts

search_vars == <<hg, history, refinement_nodes, iteration, value, deltas, active, keys, enabled,
                 marked, locks, performed_moves, min_cut_index, touched, current, best, initial,
                 changes, fully_active>>
matching_vars == <<context, input, graph, left_cover, right_cover, residual>>
bisection_vars == <<coarse, input_to_coarse, free, free_to_input, stack, mapping_stack, attempt,
                    cuts>>
vars == <<component, phase, search_vars, matching_vars, bisection_vars>>
Idle == "idle"
SearchIdle ==
  /\ hg = Idle /\ history = Idle /\ refinement_nodes = Idle /\ iteration = Idle
  /\ value = Idle /\ deltas = Idle /\ active = Idle /\ keys = Idle /\ enabled = Idle
  /\ marked = Idle /\ locks = Idle /\ performed_moves = Idle /\ min_cut_index = Idle
  /\ touched = Idle /\ current = Idle /\ best = Idle /\ initial = Idle /\ changes = Idle
  /\ fully_active = Idle
MatchingIdle ==
  /\ context = Idle /\ input = Idle /\ graph = Idle /\ left_cover = Idle
  /\ right_cover = Idle /\ residual = Idle
BisectionIdle ==
  /\ coarse = Idle /\ input_to_coarse = Idle /\ free = Idle /\ free_to_input = Idle
  /\ stack = Idle /\ mapping_stack = Idle /\ attempt = Idle /\ cuts = Idle

-----------------------------------------------------------------------------
(* Local search: seven nodes and five nets, two of them contracted away.   *)

SearchNodes == 0 .. 6
SearchNets == 0 .. 4
SearchHash == [u \in SearchNodes |-> u]
SearchPins == 0 :> <<0, 1, 2, 3>> @@ 1 :> <<2, 3, 4>> @@ 2 :> <<4, 1>> @@ 3 :> <<0, 5, 1>>
                @@ 4 :> <<5, 6, 2>>
SearchWeight == [u \in SearchNodes |-> 1]
SearchEdgeWeight == [e \in SearchNets |-> IF e = 1 THEN 2 ELSE 1]
SearchContractions == <<[u |-> 0, v |-> 5], [u |-> 2, v |-> 4]>>
SearchFixed == {{}, {1}}

(* A bisection has a net less heavy on pairs.                              *)
TwoWayNodes == 0 .. 5
TwoWayHash == [u \in TwoWayNodes |-> u]
TwoWayPins == 0 :> <<0, 1, 2, 3, 4>> @@ 1 :> <<2, 3, 4>> @@ 2 :> <<4, 1>> @@ 3 :> <<0, 5, 1>>
                @@ 4 :> <<5, 3, 2>>
TwoWayWeight == [u \in TwoWayNodes |-> 1]

TwoWay == INSTANCE TwoWayFM
  WITH Nodes <- TwoWayNodes, Nets <- SearchNets, K <- 2, Hash <- TwoWayHash,
       NetPins <- TwoWayPins, Weight <- TwoWayWeight, EdgeWeight <- SearchEdgeWeight,
       FixedVertices <- SearchFixed, Contractions <- SearchContractions,
       MaxPartWeight <- 3, MaxFruitlessMoves <- 3, IterationsPerLevel <- 2, FlowRefiner <- TRUE,
       delta <- deltas, queued <- active, key <- keys, locked <- locks, current_cut <- current

(* Three blocks: partitions with node 0 and the nodes of the contractions  *)
(* in block 0, node 6 in block 2, and the nodes 1, 2, 3 anywhere.          *)
SearchPartitions ==
  {p \in [SearchNodes -> 0 .. 2] : p[0] = 0 /\ p[5] = 0 /\ p[4] = 0 /\ p[6] = 2}

Kway == INSTANCE KwayFM
  WITH Nodes <- SearchNodes, Nets <- SearchNets, K <- 3, Hash <- SearchHash,
       NetPins <- SearchPins, Weight <- SearchWeight, EdgeWeight <- SearchEdgeWeight,
       FixedVertices <- SearchFixed, Contractions <- SearchContractions,
       InitialPartitions <- SearchPartitions,
       MaxPartWeight <- 4, HyperedgeSizeThreshold <- 3, MaxFruitlessMoves <- 3,
       IterationsPerLevel <- 2, FlowRefiner <- TRUE, unremovable <- locks, current_cost <- current,
       Objective <- "km1"
KwayCut == INSTANCE KwayCutFM
  WITH Nodes <- SearchNodes, Nets <- SearchNets, K <- 3, Hash <- SearchHash,
       NetPins <- SearchPins, Weight <- SearchWeight, EdgeWeight <- SearchEdgeWeight,
       FixedVertices <- SearchFixed, Contractions <- SearchContractions,
       InitialPartitions <- SearchPartitions,
       MaxPartWeight <- 4, HyperedgeSizeThreshold <- 3, MaxFruitlessMoves <- 3,
       IterationsPerLevel <- 2, FlowRefiner <- TRUE, he_state <- locks, current_cost <- current,
       Objective <- "cut"

-----------------------------------------------------------------------------
(* Recursive bisection: five nodes among the ids 0 .. 6, the others have   *)
(* been contracted.  Heavy and light nodes make prepacking stop at once,   *)
(* half-way and at the end; three, four and five blocks make bisections    *)
(* that are restarted early, late and at both levels.                      *)

CoarseNodes == {0, 2, 3, 5, 6}
CoarseNets == <<[pins |-> {0, 2, 3}, weight |-> 2], [pins |-> {3, 5, 6}, weight |-> 1],
                [pins |-> {0, 6}, weight |-> 1], [pins |-> CoarseNodes, weight |-> 1]>>
CoarseHypergraph(weights, fixed) ==
  LET position(n) == Cardinality({m \in CoarseNodes : m <= n})
  IN [nodes |-> CoarseNodes, weight |-> [n \in CoarseNodes |-> weights[position(n)]],
      nets |-> CoarseNets, part |-> [n \in 0 .. 6 |-> -1],
      fixed |-> [n \in CoarseNodes |-> IF n \in DOMAIN fixed THEN fixed[n] ELSE -1]]
NoneFixed == [n \in {} |-> 0]
Options(k, objective, epsilon, algorithm, early, late, heuristic) ==
  [k |-> k, objective |-> objective, epsilon |-> epsilon, bp_algo |-> algorithm, early |-> early,
   late |-> late, heuristic |-> heuristic]

BisectionInstances ==
  {[hypergraph |-> CoarseHypergraph(<<2, 2, 2, 1, 1>>, NoneFixed),
    context |-> Options(3, "km1", 30, "worst_fit", TRUE, TRUE, FALSE)],
   [hypergraph |-> CoarseHypergraph(<<7, 5, 4, 2, 2>>, NoneFixed),
    context |-> Options(3, "cut", 30, "first_fit", TRUE, FALSE, TRUE)],
   [hypergraph |-> CoarseHypergraph(<<3, 3, 2, 2, 2>>, NoneFixed),
    context |-> Options(4, "km1", 30, "worst_fit", FALSE, TRUE, FALSE)],
   [hypergraph |-> CoarseHypergraph(<<3, 3, 2, 2, 2>>, NoneFixed),
    context |-> Options(5, "cut", 30, "worst_fit", FALSE, TRUE, TRUE)],
   [hypergraph |-> CoarseHypergraph(<<2, 1, 1, 2, 1>>, 3 :> 1 @@ 6 :> 0),
    context |-> Options(3, "km1", 10, "worst_fit", TRUE, TRUE, FALSE)],
   [hypergraph |-> CoarseHypergraph(<<1, 1, 1, 1, 1>>, NoneFixed),
    context |-> Options(1, "cut", 10, "worst_fit", TRUE, TRUE, FALSE)]}

RB == INSTANCE RecursiveBisection
  WITH Instances <- BisectionInstances, u <- left_cover, v <- right_cover

(* Fixed vertices: four blocks, one node fixed to each and four free ones, *)
(* one in each block; three nets, and blocks that take every free node or  *)
(* not; and one net over all fixed vertices, which a renaming that         *)
(* overloads a block saves several times.                                  *)
MatchingInput(fixed_weights, weights, nets) ==
  [nodes |-> 0 .. 7, weight |-> [n \in 0 .. 7 |-> IF n < 4 THEN fixed_weights[n + 1] ELSE weights[n - 3]],
   nets |-> nets, part |-> [n \in 0 .. 7 |-> IF n < 4 THEN -1 ELSE n - 4],
   fixed |-> [n \in 0 .. 7 |-> IF n < 4 THEN n ELSE -1]]
Matchings ==
  {[input |-> MatchingInput(<<1, 1, 2, 1>>, <<1, 2, 1, 1>>,
                            <<[pins |-> p, weight |-> 2], [pins |-> q, weight |-> 1],
                              [pins |-> {2, 6, 7}, weight |-> 1]>>),
    context |-> [k |-> 4, objective |-> o, max_part_weights |-> [i \in 0 .. 3 |-> m]]] :
     o \in {"km1", "cut"}, m \in {3, 4},
     p \in {{0, 1, 5}, {0, 4, 5}, {1, 4}}, q \in {{0, 5, 6}, {1, 3, 4}, {3, 5}}}
  \cup
  {[input |-> MatchingInput(<<1, 1, 1, 1>>, <<1, 2, 3, 4>>,
                            <<[pins |-> {0, 2, 4, 6}, weight |-> 1]>>),
    context |-> [k |-> 4, objective |-> o, max_part_weights |-> [i \in 0 .. 3 |-> <<3, 4, 5, 2>>[i + 1]]]] :
     o \in {"km1", "cut"}}

FixedInit ==
  /\ \E m \in Matchings : input = m.input /\ context = m.context
  /\ phase = "fixed" /\ RB!FixedIdle

-----------------------------------------------------------------------------
(* Initial partitioning: five or six nodes with pairs, triples and larger  *)
(* nets; a heavy node that fits nowhere at first; nodes fixed to one or    *)
(* both blocks; three blocks; no imbalance allowed, so that nodes are left *)
(* over; and pools, one with refinement, whose runs are repeated.          *)

PartitioningHypergraph(weights, nets, fixed) ==
  LET nodes == 0 .. Len(weights) - 1
  IN [nodes |-> nodes, weight |-> [n \in nodes |-> weights[n + 1]], nets |-> nets,
      part |-> [n \in nodes |-> -1],
      fixed |-> [n \in nodes |-> IF n \in DOMAIN fixed THEN fixed[n] ELSE -1]]
Net(pins, weight) == [pins |-> pins, weight |-> weight]
MixedNets == <<Net({0, 1, 2}, 2), Net({2, 3}, 1), Net({3, 4}, 1), Net({0, 1, 3, 4}, 1)>>
NestedNets == <<Net({0, 1, 2, 3, 4}, 1), Net({0, 1}, 1), Net({1, 2, 4}, 2)>>
ApartNets == <<Net({0, 1, 2}, 1), Net({1, 2}, 2), Net({3, 4, 5}, 1), Net({2, 4}, 1)>>
PartitioningContext(algorithm, pool, perfect, epsilon, nruns, refinement) ==
  LET parts == 0 .. Len(perfect) - 1
  IN [algorithm |-> algorithm, pool |-> pool, k |-> Len(perfect),
      perfect |-> [i \in parts |-> perfect[i + 1]], upper |-> [i \in parts |-> 0],
      epsilon |-> epsilon, nruns |-> nruns, refinement |-> refinement, unassigned_part |-> 1,
      objective |-> IF epsilon = 0 THEN "cut" ELSE "km1", threshold |-> 4, bp_algo |-> "worst_fit",
      num_bins |-> [i \in 0 .. 1 |-> 1], lp_max_iteration |-> IF epsilon = 0 THEN 1 ELSE 3, lp_assign_vertex_to_part |-> IF epsilon = 30 THEN 1 ELSE 2]

PartitioningAlgorithms ==
  {"greedy_global", "greedy_round", "greedy_sequential", "greedy_global_maxnet",
   "greedy_round_maxnet", "greedy_sequential_maxnet", "greedy_global_maxpin",
   "greedy_round_maxpin", "greedy_sequential_maxpin", "lp", "bfs", "random", "bin_packing"}
Alone(hypergraph, algorithms, perfect, epsilon) ==
  {[hypergraph |-> hypergraph, context |-> PartitioningContext(a, {}, perfect, epsilon, 1, FALSE)] :
     a \in algorithms}
Pooled(hypergraph, pool, epsilon, nruns, refinement) ==
  [hypergraph |-> hypergraph,
   context |-> PartitioningContext("pool", pool, <<3, 3>>, epsilon, nruns, refinement)]
PartitioningInstances ==
  Alone(PartitioningHypergraph(<<2, 1, 1, 1, 1>>, MixedNets, NoneFixed), PartitioningAlgorithms, <<3, 3>>, 20)
  \cup Alone(PartitioningHypergraph(<<1, 1, 1, 3, 4>>, MixedNets, NoneFixed), PartitioningAlgorithms, <<5, 5>>, 0)
  \cup Alone(PartitioningHypergraph(<<1, 2, 1, 1, 1, 2>>, ApartNets, NoneFixed), PartitioningAlgorithms, <<4, 4>>, 30)
  \cup Alone(PartitioningHypergraph(<<1, 1, 1, 1, 1>>, NestedNets, 0 :> 1 @@ 3 :> 0), PartitioningAlgorithms,
             <<3, 3>>, 0)
  \cup Alone(PartitioningHypergraph(<<1, 1, 1, 2, 1, 1>>, ApartNets, 1 :> 0), PartitioningAlgorithms, <<4, 4>>, 30)
  \cup Alone(PartitioningHypergraph(<<1, 1, 2, 1, 1>>, MixedNets, NoneFixed), PartitioningAlgorithms \ {"bin_packing"},
             <<2, 2, 2>>, 50)
  \cup Alone(PartitioningHypergraph(<<1, 1, 2, 1, 1, 1>>, ApartNets, 4 :> 2), PartitioningAlgorithms \ {"bin_packing"},
             <<3, 3, 3>>, 10)
  \cup {Pooled(PartitioningHypergraph(<<2, 2, 1, 1>>, SubSeq(MixedNets, 1, 2), NoneFixed),
               {"random", "bfs", "greedy_global", "greedy_round_maxpin"}, 10, 2, TRUE),
        Pooled(PartitioningHypergraph(<<2, 1, 1, 1, 1>>, MixedNets, NoneFixed), PartitioningAlgorithms, 20, 1, FALSE)}

IP == INSTANCE InitialPartitioning
  WITH Instances <- PartitioningInstances, calls <- stack, unassigned_node <- iteration, local <- attempt

-----------------------------------------------------------------------------
(* Data structures: a heap of six elements, in which the last may have to  *)
(* rise when it takes the place of one removed; three parts, one with two  *)
(* elements; thresholds of two bits; keys that collide at the end of a     *)
(* hash table, and the two that mark its slots (inserted again as often as *)
(* any, but for the set that does not bear it: Containers.TableNext).      *)

Structures == INSTANCE Containers
  WITH Kinds <- {"heap", "buckets", "kway", "sparse_set", "insert_only", "sparse_map", "flags",
                 "reset_array", "connectivity", "hash_map", "insert_only_map", "insert_only_set"},
       IDs <- 0 .. 2, BucketIDs <- 0 .. 3, MaxKey <- 1,
       HeapKeys <- 0 :> {3} @@ 1 :> {1} @@ 2 :> {2} @@ 3 :> {0} @@ 4 :> {0, 4} @@ 5 :> {2},
       MaxCleared <- 1, Parts <- 0 .. 2, PartIDs <- 0 :> {0, 1} @@ 1 :> {0} @@ 2 :> {0},
       MaxEntries <- 3, MaxThreshold <- 3, MaxUsed <- 4, HashKeys <- {3, 7, 14, 15}, MaxSize <- 2,
       EmptyElement <- 15, MaxValue <- 1,
       kind <- phase, structure <- hg, call <- history
StructureIdle ==
  /\ refinement_nodes = Idle /\ iteration = Idle /\ value = Idle /\ deltas = Idle
  /\ active = Idle /\ keys = Idle /\ enabled = Idle /\ marked = Idle /\ locks = Idle
  /\ performed_moves = Idle /\ min_cut_index = Idle /\ touched = Idle /\ current = Idle
  /\ best = Idle /\ initial = Idle /\ changes = Idle /\ fully_active = Idle
  /\ MatchingIdle /\ BisectionIdle

-----------------------------------------------------------------------------
(* Community detection: graphs of five nodes, one with three levels, one   *)
(* in which nodes still move in the fourth iteration while others may be   *)
(* skipped, one whose gain is too small to contract again, and one with a  *)
(* node without nets; and hypergraphs with the weights of the other two    *)
(* models.                                                                 *)

CommunityInput(n, nets, edge_weight, scale, min_eps_inverse) ==
  [nodes |-> 0 .. n - 1, nets |-> nets, edge_weight |-> edge_weight, scale |-> scale,
   max_pass_iterations |-> 4, min_eps_inverse |-> min_eps_inverse]
SeqNet(pins, weight) == [pins |-> pins, weight |-> weight]
Communities == INSTANCE Louvain
  WITH CommunityInstances <-
         {CommunityInput(5, <<SeqNet(<<0, 2>>, 1), SeqNet(<<1, 4>>, 1), SeqNet(<<2, 4>>, 3),
                              SeqNet(<<3, 4>>, 1)>>, "uniform", 1, 100),
          CommunityInput(5, <<SeqNet(<<0, 1>>, 1), SeqNet(<<2, 4>>, 1), SeqNet(<<2, 3>>, 1),
                              SeqNet(<<0, 2>>, 1), SeqNet(<<1, 4>>, 1)>>, "uniform", 1, 5),
          CommunityInput(5, <<SeqNet(<<3, 4>>, 2), SeqNet(<<1, 4>>, 3), SeqNet(<<2, 4>>, 2),
                              SeqNet(<<1, 3>>, 2), SeqNet(<<0, 3>>, 1)>>, "uniform", 1, 100),
          CommunityInput(4, <<SeqNet(<<1, 2>>, 1), SeqNet(<<2, 3>>, 1)>>, "uniform", 1, 100),
          CommunityInput(3, <<SeqNet(<<0, 1, 2>>, 1), SeqNet(<<2, 1>>, 2)>>, "degree", 6, 100),
          CommunityInput(3, <<SeqNet(<<0, 1, 2>>, 2), SeqNet(<<2, 1>>, 1)>>, "non_uniform", 6, 100)},
       hierarchy <- stack, quality <- cuts, pass <- attempt, cur_quality <- current,
       communities <- input_to_coarse
CommunitiesIdle ==
  /\ hg = Idle /\ history = Idle /\ refinement_nodes = Idle /\ iteration = Idle
  /\ value = Idle /\ deltas = Idle /\ active = Idle /\ keys = Idle /\ enabled = Idle
  /\ marked = Idle /\ locks = Idle /\ performed_moves = Idle /\ min_cut_index = Idle
  /\ touched = Idle /\ best = Idle /\ initial = Idle /\ changes = Idle /\ fully_active = Idle
  /\ input = Idle /\ graph = Idle /\ left_cover = Idle /\ right_cover = Idle
  /\ residual = Idle /\ coarse = Idle /\ free = Idle /\ free_to_input = Idle

-----------------------------------------------------------------------------
(* Preprocessing: identical nodes (one of them fixed, three of them, nodes *)
(* without nets), parallel and single-node nets, a net that is too large;  *)
(* clusters of which the first node, a heavy one, moves on; a round of     *)
(* clustering that ends early; and a second call, which partitions the     *)
(* hypergraph itself after the first one partitioned a sparsified one.     *)

PreprocessingNodes == 0 .. 5
PreprocessingNets == 0 .. 5
PreprocessingHash == [u \in PreprocessingNodes |-> u]
CallOptions(dedup, sparsify, decisions, threshold, max_size, min_size, rounds) ==
  [enable_deduplication |-> dedup, enable_min_hash_sparsifier |-> sparsify,
   enable_community_detection |-> TRUE, edge_weight |-> "hybrid", mode |-> "direct_kway",
   decisions |-> decisions, objective |-> IF dedup THEN "km1" ELSE "cut", is_active |-> FALSE,
   min_median_he_size |-> 2, max_he_size_threshold |-> 0, max_he_size_threshold_percent |-> 50,
   smallest_max_he_size_threshold |-> threshold, max_cluster_size |-> max_size,
   min_cluster_size |-> min_size, num_hash_functions |-> rounds]
Given(net_pins, heavy, fixed, options) ==
  [pins |-> net_pins, fixed |-> fixed, context |-> options,
   weight |-> [u \in PreprocessingNodes |-> IF u = heavy THEN 3 ELSE 1],
   edge_weight |-> [e \in PreprocessingNets |-> 1 + (e % 2)]]
NoTwins == 0 :> <<0, 1, 2, 3>> @@ 1 :> <<2, 1, 0>> @@ 2 :> <<0, 1, 3>> @@ 3 :> <<4>> @@ 4 :> <<5, 4>>
             @@ 5 :> <<3, 2, 4, 5, 0>>
Twins == 0 :> <<0, 1, 2>> @@ 1 :> <<2, 0, 1>> @@ 2 :> <<3, 4>> @@ 3 :> <<4, 3, 0, 1>> @@ 4 :> <<5>>
           @@ 5 :> <<2, 4, 3>>
Triplets == 0 :> <<0, 3, 1, 2>> @@ 1 :> <<1, 0, 2>> @@ 2 :> <<1, 0, 2>> @@ 3 :> <<0, 1, 2, 3>>
              @@ 4 :> <<3>> @@ 5 :> <<3>>
Pairs == 0 :> <<0, 2>> @@ 1 :> <<0, 3>> @@ 2 :> <<1, 4, 0>> @@ 3 :> <<4, 5>> @@ 4 :> <<2, 3>> @@ 5 :> <<5>>
Once == <<"normal">>
Twice == <<"normal", "combine">>
Preprocess == INSTANCE Preprocessing
  WITH Nodes <- PreprocessingNodes, Nets <- PreprocessingNets, K <- 2, Hash <- PreprocessingHash,
       HashValues <- {0, 1}, Word <- 32,
       PreprocessingInputs <-
         UNION {{Given(NoTwins, 2, NoneFixed, CallOptions(dedup, TRUE, Twice, 4, 4, 3, 2)),
                 Given(Twins, 1, 0 :> 1 @@ 5 :> 0, CallOptions(dedup, TRUE, Twice, 4, 4, 3, 2)),
                 Given(Pairs, 2, 1 :> 0 @@ 4 :> 0 @@ 5 :> 1, CallOptions(dedup, TRUE, Twice, 4, 4, 3, 2)),
                 Given(Triplets, 1, NoneFixed, CallOptions(dedup, TRUE, Once, 3, 4, 3, 2)),
                 Given(Triplets, 1, NoneFixed, CallOptions(dedup, FALSE, Twice, 3, 0, 0, 0))} :
                  dedup \in BOOLEAN},
       calls <- stack, removed <- history, clusters <- free_to_input, lsh <- attempt,
       sparse <- coarse, communities <- input_to_coarse, used <- mapping_stack, partitioned <- cuts
PreprocessingIdle ==
  /\ refinement_nodes = Idle /\ iteration = Idle /\ value = Idle /\ deltas = Idle
  /\ active = Idle /\ keys = Idle /\ enabled = Idle /\ marked = Idle /\ locks = Idle
  /\ performed_moves = Idle /\ min_cut_index = Idle /\ touched = Idle /\ current = Idle
  /\ best = Idle /\ initial = Idle /\ changes = Idle /\ fully_active = Idle
  /\ graph = Idle /\ left_cover = Idle /\ right_cover = Idle /\ residual = Idle /\ free = Idle

-----------------------------------------------------------------------------
Init ==
  \/ component = "2way_fm" /\ TwoWay!Init /\ MatchingIdle /\ BisectionIdle
  \/ /\ component = "kway_fm" /\ Kway!Init /\ changes = Idle /\ fully_active = Idle
     /\ MatchingIdle /\ BisectionIdle
  \/ component = "kway_cut_fm" /\ KwayCut!Init /\ changes = Idle /\ MatchingIdle /\ BisectionIdle
  \/ component = "recursive_bisection" /\ RB!BisectionInit /\ SearchIdle
  \/ /\ component = "fixed_vertices" /\ FixedInit
     /\ SearchIdle /\ BisectionIdle
  \/ /\ component = "initial_partitioning" /\ IP!BaseInit
     /\ history = Idle /\ refinement_nodes = Idle
     /\ value = Idle /\ deltas = Idle /\ active = Idle /\ keys = Idle /\ enabled = Idle
     /\ marked = Idle /\ locks = Idle /\ performed_moves = Idle /\ min_cut_index = Idle
     /\ touched = Idle /\ current = Idle /\ best = Idle /\ initial = Idle /\ changes = Idle
     /\ fully_active = Idle /\ input = Idle /\ graph = Idle /\ left_cover = Idle
     /\ right_cover = Idle /\ residual = Idle
     /\ coarse = Idle /\ input_to_coarse = Idle /\ free = Idle /\ free_to_input = Idle
     /\ mapping_stack = Idle /\ cuts = Idle
  \/ component = "containers" /\ Structures!Init /\ StructureIdle
  \/ component = "community_detection" /\ Communities!LouvainInit /\ CommunitiesIdle
  \/ component = "preprocessing" /\ Preprocess!PreprocessingInit /\ PreprocessingIdle

FixedEnd == phase = "permuted" /\ phase' = "done" /\ UNCHANGED matching_vars

Next ==
  \/ component = "2way_fm" /\ TwoWay!Next /\ UNCHANGED <<component, matching_vars, bisection_vars>>
  \/ /\ component = "kway_fm" /\ Kway!Next
     /\ UNCHANGED <<component, changes, fully_active, matching_vars, bisection_vars>>
  \/ /\ component = "kway_cut_fm" /\ KwayCut!Next
     /\ UNCHANGED <<component, changes, matching_vars, bisection_vars>>
  \/ component = "recursive_bisection" /\ RB!BisectionNext /\ UNCHANGED <<component, search_vars>>
  \/ /\ component = "fixed_vertices" /\ (RB!FixedNext \/ FixedEnd)
     /\ UNCHANGED <<component, search_vars, bisection_vars>>
  \/ /\ component = "initial_partitioning" /\ IP!InitialPartitioningNext
     /\ UNCHANGED <<component, history, refinement_nodes, value, deltas, active, keys, enabled,
                    marked, locks, performed_moves, min_cut_index, touched, current, best, initial,
                    changes, fully_active, input, graph, left_cover, right_cover, residual,
                    coarse, input_to_coarse, free, free_to_input, mapping_stack, cuts>>
  \/ /\ component = "containers" /\ Structures!Next
     /\ UNCHANGED <<component, refinement_nodes, iteration, value, deltas, active, keys, enabled,
                    marked, locks, performed_moves, min_cut_index, touched, current, best, initial,
                    changes, fully_active, matching_vars, bisection_vars>>
  \/ /\ component = "community_detection" /\ Communities!LouvainNext
     /\ UNCHANGED <<component, hg, history, refinement_nodes, iteration, value, deltas, active, keys,
                    enabled, marked, locks, performed_moves, min_cut_index, touched, best, initial,
                    changes, fully_active, input, graph, left_cover, right_cover, residual, coarse,
                    free, free_to_input>>
  \/ /\ component = "preprocessing" /\ Preprocess!PreprocessingNext
     /\ UNCHANGED <<component, refinement_nodes, iteration, value, deltas, active, keys, enabled,
                    marked, locks, performed_moves, min_cut_index, touched, current, best, initial,
                    changes, fully_active, graph, left_cover, right_cover, residual, free>>
  \/ phase = "done" /\ UNCHANGED vars

(* WF_vars of the steps of the components: TLC finds that there is always  *)
(* one until the phase is "done" (it looks for deadlocks), so to be fair   *)
(* is to go on until then.                                                 *)
Fairness == <>[](phase = "done") \/ []<><<TRUE>>_vars
Spec == Init /\ [][Next]_vars /\ Fairness

-----------------------------------------------------------------------------
(* Gains, keys and scores of all searches are the gains of the partition.  *)
GainsAreRight ==
  /\ component = "2way_fm" => TwoWay!GainsAreRight /\ TwoWay!KeysAreGains
  /\ component = "kway_fm" => Kway!CacheIsValid /\ Kway!QueueHoldsGains
  /\ component = "kway_cut_fm" => KwayCut!CacheIsValid /\ KwayCut!QueueHoldsGains
  /\ component = "initial_partitioning" => IP!KeysAreGains /\ IP!ScoresAreGains

(* Whoever a search has to consider is in its queue.                       *)
NeighboursAreActive ==
  /\ component = "2way_fm" => TwoWay!NeighboursAreQueued
  /\ component = "kway_fm" => Kway!NeighboursAreActive
  /\ component = "kway_cut_fm" => KwayCut!NeighboursAreActive

(* The queues that may be asked for moves, and the locks that spare work,  *)
(* are those the state calls for.                                          *)
QueuesAndLocksAreRight ==
  /\ component = "2way_fm" => TwoWay!QueuesAreEnabled
  /\ component = "kway_fm" => Kway!OpenPartsHaveRoom /\ Kway!LocksAreOfMarkedPins
  /\ component = "kway_cut_fm" => KwayCut!OpenPartsHaveRoom /\ KwayCut!StatesAreOfMoves
  /\ component = "initial_partitioning" => IP!QueuesAreOpen /\ IP!QueuesHoldNodesOnce

(* Objectives tracked by gains are the objectives, and no block runs dry.  *)
ObjectiveIsTracked ==
  /\ component = "2way_fm" => TwoWay!MetricsAreRight
  /\ component = "kway_fm" => Kway!ObjectiveIsTracked /\ Kway!BlocksStayInUse
  /\ component = "kway_cut_fm" => KwayCut!ObjectiveIsTracked /\ KwayCut!BlocksStayInUse

(* Each search implements LocalSearch on the input hypergraph, and each    *)
(* data structure the container it stands for: every answer is the one its *)
(* entries give, whatever was called before.  (Left out are calls that the *)
(* classes assert not to happen, and the marking number inserted again     *)
(* into a hash set made for insertions only, which breaks it.)             *)
ImplementsSpecification ==
  /\ component = "2way_fm" => TwoWay!Abstract!Init
  /\ component = "kway_fm" => Kway!Abstract!Init
  /\ component = "kway_cut_fm" => KwayCut!Abstract!Init
  /\ component = "containers" => Structures!Abstract!Init
  /\ [][component = "containers" => Structures!Abstract!Next]_vars
  /\ [][component = "2way_fm" =>
          TwoWay!Abstract!Improve \/ UNCHANGED <<hg.fixed, TwoWay!BestPartition>>]_vars
  /\ [][component = "kway_fm" =>
          Kway!Abstract!Improve \/ UNCHANGED <<hg.fixed, Kway!BestPartition>>]_vars
  /\ [][component = "kway_cut_fm" =>
          KwayCut!Abstract!Improve \/ UNCHANGED <<hg.fixed, KwayCut!BestPartition>>]_vars

(* The bisections add up to the partition that is applied: each leaves its *)
(* part 0 alone until it is extracted, maps back through the right nodes,  *)
(* and pays for exactly the nets it cuts.                                  *)
BisectionsAddUp ==
  component = "recursive_bisection" =>
    RB!ObjectivesAddUp /\ RB!Part0IsIntact /\ RB!MappingsMatch /\ RB!PartitionIsApplied

(* Prepacked bisections can be divided into blocks that are not too heavy. *)
PackingsAreSafe ==
  /\ component = "recursive_bisection" => RB!PrepackingIsSafe /\ RB!DeepBalanceIsKept
  /\ component = "initial_partitioning" => IP!PackedPartsFit /\ IP!PartsAreOfGoodSize

(* An initial partition is a whole one and the best of all that were       *)
(* found, and partitioners do not change the options of one another.       *)
InitialPartitionsAreRight == component = "initial_partitioning" => IP!InitialPartitionsAreRight

(* Blocks are renamed so that fixed vertices cost no more than with any    *)
(* renaming that overloads no block, and blocks are overloaded only where  *)
(* that saves all nets once more for each of them.                         *)
FixedVerticesFitBest ==
  component \in {"recursive_bisection", "fixed_vertices"} => RB!CoversAreRight /\ RB!RenamingIsBest

(* Communities are those of the clusters that gain most modularity, on     *)
(* every level, and gains, weights and levels agree.  What preprocessing   *)
(* merges, clusters or takes out comes back after partitioning, and costs  *)
(* what it cost on the smaller hypergraph.                                 *)
PreprocessingIsRight ==
  /\ component = "community_detection" => Communities!CommunitiesAreRight
  /\ component = "preprocessing" => Preprocess!PreprocessingIsUndone

(* Every algorithm ends.                                                   *)
Terminates == component = "containers" \/ <>(phase = "done")
=============================================================================
