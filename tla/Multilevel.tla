----------------------------- MODULE Multilevel -----------------------------
(***************************************************************************)
(* The multilevel scheme of KaHyPar (partition/multilevel.h,               *)
(* direct_kway.h and partition/coarsening): the coarsener contracts pairs  *)
(* of hypernodes that the rater chooses, the pruner takes single-node and  *)
(* parallel nets out, an initial partition is found, and everything is     *)
(* undone level by level while a refiner moves nodes.  V-cycles coarsen a  *)
(* partitioned hypergraph again, within its blocks.                        *)
(*                                                                         *)
(* The initial partition is any assignment, and the searches of a level    *)
(* leave any partition that they may call an improvement: their algorithms *)
(* are modules of their own.                                               *)
(***************************************************************************)
EXTENDS KHypergraph, SequencesExt

CONSTANT
  Contexts    (* The calls of the partitioner: what is read of the Context. *)

(* As constructed, with any fixed vertices: nets of distinct pins.          *)
IsConstructed(h) ==
  /\ h.slots \in [Nets -> Seq(Nodes)] /\ \A e \in Nets : IsInjective(h.slots[e])
  /\ h.weight \in [Nodes -> Nat] /\ h.edge_weight \in [Nets -> Nat]
  /\ h.fixed_part \in [Nodes -> Parts \cup {kInvalidPartition}]
  /\ h = [NewHypergraph(h.slots, h.weight, h.edge_weight) EXCEPT
            !.fixed_part = h.fixed_part, !.fixed_weight = h.fixed_weight,
            !.fixed = {u \in Nodes : h.fixed_part[u] # kInvalidPartition}]
  /\ h.fixed_weight \in [Parts -> Int] /\ FixedWeightsAreRight(h)

(* A partition into k blocks that puts every fixed vertex where it belongs  *)
(* (the assertion at the end of Partitioner::partition): what the caller    *)
(* may give as input, and what individuals of the evolutionary algorithm    *)
(* are.                                                                     *)
PartitionsOf(h, k) ==
  {p \in [Nodes -> 0 .. k - 1] : \A u \in Nodes : isFixedVertex(h, u) => p[u] = h.fixed_part[u]}

ASSUME ContextsAssumption ==
  \A c \in Contexts :
    /\ IsConstructed(c.hypergraph) /\ c.partitions \subseteq PartitionsOf(c.hypergraph, c.k)
    /\ c.action = "combine" =>
         {c.parents[1], c.parents[2]} \subseteq PartitionsOf(c.hypergraph, c.k)
    /\ c.objective \in {"km1", "cut"} /\ c.k \in 1 .. K
    /\ c.contraction_limit \in Nat /\ c.max_allowed_node_weight \in Nat
    /\ c.vcycles \in Nat /\ c.from_input_partition \in BOOLEAN /\ c.time_limit \in BOOLEAN
    /\ c.action \in {"none", "normal", "new_initial_partitioning", "vcycle", "combine"}

VARIABLES
  context,           (* The hypergraph given, its communities, the limits, *)
                     (* and the action of the evolutionary algorithm with  *)
                     (* the parents it combines.                           *)
  hg,                (* The hypergraph.                                    *)
  phase,
  todo,              (* current_hns that the pass has not visited yet.     *)
  matched,           (* _already_matched of the rater.                     *)
  num_hns_before_pass,
  history,           (* _history: contraction mementos.                    *)
  removed_single,    (* _removed_single_node_hyperedges                    *)
  removed_parallel,  (* _removed_parallel_hyperedges                       *)
  max_hn_weights,    (* _max_hn_weights                                    *)
  initial_objective, (* of the current doUncoarsen.                        *)
  vcycle,
  communities,       (* of the hypergraph; reset() drops them.             *)
  levels             (* History variable: the structure of every level.    *)

coarsening == <<todo, matched, num_hns_before_pass>>
pruner == <<removed_single, removed_parallel>>
call == <<context, communities>>
vars == <<context, hg, phase, todo, matched, num_hns_before_pass, history, removed_single,
          removed_parallel, max_hn_weights, initial_objective, vcycle, communities, levels>>
Blocks == 0 .. context.k - 1
action == context.action
parents == context.parents

objective(g) == IF context.objective = "km1" THEN km1(g) ELSE hyperedgeCut(g)
currentNumNodes == Cardinality(hg.on)
currentNumFreeVertices(g) == Cardinality(g.on) - Cardinality(g.fixed)

(* What an uncontraction has to give back, whatever the refiner did.       *)
Structure(g) ==
  [on |-> g.on, live |-> g.live, num_pins |-> g.num_pins,
   pins |-> [e \in g.live |-> pins(g, e)], edge_weight |-> [e \in g.live |-> g.edge_weight[e]],
   nets |-> [u \in g.on |-> g.nets[u]], weight |-> [u \in g.on |-> g.weight[u]],
   fixed |-> g.fixed]

(* What a level costs when its nodes are in the blocks of f, and how much  *)
(* of it is in block p.                                                    *)
ConnectivityOf(L, f, e) == Cardinality({f[u] : u \in L.pins[e]})
CutOf(L, f) ==
  MapThenSumSet(LAMBDA e : L.edge_weight[e], {e \in L.live : ConnectivityOf(L, f, e) > 1})
km1Of(L, f) ==
  MapThenSumSet(LAMBDA e : Max({ConnectivityOf(L, f, e) - 1, 0}) * L.edge_weight[e], L.live)
WeightOf(L, f, p) == MapThenSumSet(LAMBDA u : L.weight[u], {u \in L.on : f[u] = p})

(* The blocks that all nodes get when the mementos are undone.             *)
Projected(mementos, f) ==
  FoldRight(LAMBDA m, part : [part EXCEPT ![m.v] = part[m.u]], mementos, f)

(* mutate:: sets the partition of an individual before it calls the        *)
(* partitioner, combine:: resets the hypergraph.                           *)
Init ==
  /\ context \in Contexts
  /\ communities = context.communities
  /\ IF context.from_input_partition \/ action \in {"new_initial_partitioning", "vcycle"}
       THEN \E part \in context.partitions : hg = setPartition(context.hypergraph, part)
       ELSE hg = context.hypergraph
  /\ phase = IF context.from_input_partition THEN "vcycle" ELSE "pass"
  /\ todo = {} /\ matched = {} /\ num_hns_before_pass = 0
  /\ history = <<>> /\ removed_single = <<>> /\ removed_parallel = <<>>
  /\ max_hn_weights = <<[num_nodes |-> Cardinality(Nodes), max_weight |-> weightOfHeaviestNode(hg)]>>
  /\ initial_objective = 0 /\ vcycle = 0
  /\ levels = <<Structure(hg)>>

-----------------------------------------------------------------------------
(* The rater.                                                              *)

(* HeavyEdgeScore, w(e) / (|e| - 1), times 60: exact for nets of up to     *)
(* seven pins.                                                             *)
score(e) == (60 * hg.edge_weight[e]) \div (hg.size[e] - 1)

(* AllowFreeOnFixedFreeOnFreeFixedOnFixed, with the bound on the weight    *)
(* that fixed vertices of one block may reach.                             *)
acceptFixedVertexImbalance(u, v) ==
  LET total == MapThenSumSet(LAMBDA p : hg.fixed_weight[p], Parts)
      ceiling == (total + context.k - 1) \div context.k
      bound == ((100 + context.epsilon_percent) * ceiling) \div 100
  IN \/ isFixedVertex(hg, u) <=> isFixedVertex(hg, v)
     \/ (IF isFixedVertex(hg, u) THEN hg.fixed_weight[hg.fixed_part[u]] ELSE 0)
          + (IF isFixedVertex(hg, v) THEN 0 ELSE hg.weight[v]) <= bound
acceptContraction(u, v) ==
  /\ acceptFixedVertexImbalance(u, v)
  /\ isFixedVertex(hg, u) \/ ~isFixedVertex(hg, v)
  /\ isFixedVertex(hg, u) /\ isFixedVertex(hg, v) => hg.fixed_part[u] = hg.fixed_part[v]

(* _tmp_ratings: the nets that count, and the nodes they rate.             *)
RatingNets(u, v) ==
  {e \in hg.nets[u] : hg.size[e] <= context.hyperedge_size_threshold /\ v \in pins(hg, e)}
(* NormalPartitionPolicy, or EvoPartitionPolicy for a combine.             *)
(* Mutant: it is enough that one parent keeps them together.               *)
acceptEitherParent(u, v) ==
  IF action = "combine"
    THEN parents[1][u] = parents[1][v] \/ parents[2][u] = parents[2][v]
    ELSE hg.part[u] = hg.part[v]
acceptPartition(u, v) ==
  IF action = "combine"
    THEN parents[1][u] = parents[1][v] /\ parents[2][u] = parents[2][v]
    ELSE hg.part[u] = hg.part[v]
Rating(u, v) == MapThenSumSet(score, RatingNets(u, v))
Rated(u) ==
  {v \in hg.on \ {u} : /\ RatingNets(u, v) # {}
                       /\ hg.weight[u] + hg.weight[v] <= context.max_allowed_node_weight
                       /\ acceptPartition(u, v)}

(* rate(u): the possible targets.  Ties go to unmatched nodes, then to     *)
(* chance (BestRatingPreferringUnmatched).                                 *)
Targets(u) ==
  LET accepted == {v \in Rated(u) : communities[u] = communities[v] /\ acceptContraction(u, v)}
      best == {v \in accepted : \A w \in accepted : Rating(u, w) <= Rating(u, v)}
  IN IF best \ matched # {} THEN best \ matched ELSE best

-----------------------------------------------------------------------------
(* The pruner.                                                             *)

SingleNodeHyperedges(g, u) == {e \in g.nets[u] : g.size[e] = 1}
removeSingleNodeHyperedges(g, u) == removeEdges(g, SingleNodeHyperedges(g, u))

(* Mutant: nets of different weight are not taken for parallel.            *)
EquallyHeavyParallel(g, e, f) ==
  g.hash[e] = g.hash[f] /\ g.edge_weight[e] = g.edge_weight[f] /\ pins(g, f) = pins(g, e)

(* Two nets are found parallel when their fingerprints meet.               *)
isParallelHyperedge(g, e, f) ==
  g.hash[e] = g.hash[f] /\ g.size[e] = g.size[f] /\ pins(g, f) \subseteq pins(g, e)

(* The order of equal hashes after the sort decides which net of a class   *)
(* of parallel ones stays.                                                 *)
Representatives(g, u) ==
  {R \in SUBSET g.nets[u] :
     /\ \A e \in g.nets[u] : \E r \in R : isParallelHyperedge(g, r, e)
     /\ \A r, s \in R : r # s => ~isParallelHyperedge(g, r, s)}

(* What is removed when the nets of R stay.                                *)
ParallelHyperedges(g, u, R) ==
  {[representative |-> CHOOSE r \in R : isParallelHyperedge(g, r, e), removed |-> e] :
     e \in g.nets[u] \ R}

AddToWeights(g, P, sign) ==
  [g EXCEPT !.edge_weight =
     [e \in Nets |->
        @[e] + sign * MapThenSumSet(LAMBDA r : g.edge_weight[r],
                                    {p.removed : p \in {q \in P : q.representative = e}})]]

(* Mutant: the representative does not get the weight.                     *)
DropParallelHyperedges(g, P) == removeEdges(g, {p.removed : p \in P})

removeParallelHyperedges(g, P) ==
  removeEdges(AddToWeights(g, P, 1), {p.removed : p \in P})

(* Mutant: the representative keeps the weight.                            *)
KeepMergedWeights(g, m) ==
  LET P == ToSet(SubSeq(removed_parallel, m.parallel_hes_begin + 1,
                        m.parallel_hes_begin + m.parallel_hes_size))
  IN restoreEdges(g, {p.removed : p \in P}, {})

(* Both restore the part of their stack that the memento names.            *)
restoreParallelHyperedges(g, m) ==
  LET P == ToSet(SubSeq(removed_parallel, m.parallel_hes_begin + 1,
                        m.parallel_hes_begin + m.parallel_hes_size))
  IN AddToWeights(
       restoreEdges(g, {p.removed : p \in P},
                    {p.removed : p \in {q \in P : g.connectivity[q.representative] > 1}}),
       P, -1)
restoreSingleNodeHyperedges(g, m) ==
  restoreEdges(g, ToSet(SubSeq(removed_single, m.one_pin_hes_begin + 1,
                               m.one_pin_hes_begin + m.one_pin_hes_size)), {})

-----------------------------------------------------------------------------
(* Coarsening: MLCoarsener::coarsenImpl.                                   *)

StartPass ==
  /\ phase = "pass" /\ currentNumFreeVertices(hg) > context.contraction_limit
  /\ phase' = "visit"
  /\ matched' = {} /\ todo' = hg.on
  /\ num_hns_before_pass' = currentNumNodes
  /\ UNCHANGED <<hg, history, pruner, max_hn_weights, initial_objective, vcycle, call, levels>>

(* Mutant: the heaviest node of the input is taken for that of all levels. *)
FirstMaximum(weights, n, w) == weights
(* _max_hn_weights: the maxima reached so far, and at how many nodes.      *)
WeightsWith(weights, n, w) ==
  IF w > Last(weights).max_weight
    THEN Append(weights, [num_nodes |-> n, max_weight |-> w]) ELSE weights
WeightsBelow(weights, n) ==
  IF n > Last(weights).num_nodes THEN Front(weights) ELSE weights

performContraction(rep, contracted) ==
  \E g \in {contract(hg, rep, contracted)} :
  \E pruned \in {removeSingleNodeHyperedges(g, rep)} :
  \E R \in Representatives(pruned, rep) :
    LET single == SetToSeq(SingleNodeHyperedges(g, rep))
        parallel == ParallelHyperedges(pruned, rep, R)
    IN /\ hg' = removeParallelHyperedges(pruned, parallel)
       /\ history' = Append(history,
            [u |-> rep, v |-> contracted,
             one_pin_hes_begin |-> Len(removed_single), one_pin_hes_size |-> Len(single),
             parallel_hes_begin |-> Len(removed_parallel),
             parallel_hes_size |-> Cardinality(parallel)])
       /\ removed_single' = removed_single \o single
       /\ removed_parallel' = removed_parallel \o SetToSeq(parallel)
       /\ max_hn_weights' = WeightsWith(max_hn_weights, Cardinality(g.on), g.weight[rep])
       /\ levels' = Append(levels, Structure(hg'))

(* Mutant: a node that is contracted with no other is tried again.         *)
VisitAgain(hn) ==
  /\ phase = "visit" /\ hn \in todo \cap hg.on
  /\ IF Targets(hn) = {}
       THEN UNCHANGED <<hg, history, pruner, max_hn_weights, levels, matched>>
       ELSE \E target \in Targets(hn) :
              /\ performContraction(hn, target)
              /\ matched' = matched \cup {hn, target}
  /\ IF currentNumFreeVertices(hg') <= context.contraction_limit
       THEN todo' = {}
       ELSE todo' = todo \cap hg'.on
  /\ UNCHANGED <<phase, num_hns_before_pass, initial_objective, vcycle, call>>

(* The nodes of a pass come in a random order.  Nodes contracted away in   *)
(* this pass are skipped; the pass breaks off at the limit.                *)
Visit(hn) ==
  /\ phase = "visit" /\ hn \in todo \cap hg.on
  /\ IF Targets(hn) = {}
       THEN UNCHANGED <<hg, history, pruner, max_hn_weights, levels, matched>>
       ELSE \E target \in Targets(hn) :
              /\ performContraction(hn, target)
              /\ matched' = matched \cup {hn, target}
  /\ IF currentNumFreeVertices(hg') <= context.contraction_limit
       THEN todo' = {}
       ELSE todo' = (todo \ {hn}) \cap hg'.on
  /\ UNCHANGED <<phase, num_hns_before_pass, initial_objective, vcycle, call>>

EndPass ==
  /\ phase = "visit" /\ todo = {}
  /\ phase' = IF num_hns_before_pass = currentNumNodes THEN "coarsened" ELSE "pass"
  /\ UNCHANGED <<hg, coarsening, history, pruner, max_hn_weights, initial_objective,
                 vcycle, call, levels>>

EndCoarsening ==
  /\ phase = "pass" /\ currentNumFreeVertices(hg) <= context.contraction_limit
  /\ phase' = "coarsened"
  /\ UNCHANGED <<hg, coarsening, history, pruner, max_hn_weights, initial_objective,
                 vcycle, call, levels>>

(* initial::partition: some block for every node.                          *)
InitiallyPartitioned(g) ==
  {AssignParts(g, part) :
     part \in {p \in [g.on -> Blocks] :
                \A u \in g.on : isFixedVertex(g, u) => p[u] = g.fixed_part[u]}}

(* A combine starts from the better parent; its contraction kept together  *)
(* only what both parents keep together.                                   *)
BetterParent(g) ==
  LET first == setPartition(g, parents[1])
      second == setPartition(g, parents[2])
  IN IF objective(first) < objective(second) THEN first ELSE second

(* What multilevel::partition does between coarsening and uncoarsening.    *)
PartitionsAfterCoarsening ==
  CASE vcycle > 0 \/ action = "vcycle" -> {hg}
    [] vcycle = 0 /\ action = "none" -> InitiallyPartitioned(hg)
    [] vcycle = 0 /\ action \in {"normal", "new_initial_partitioning"} ->
         InitiallyPartitioned(reset(hg))
    [] vcycle = 0 /\ action = "combine" -> {BetterParent(hg)}

InitialPartition ==
  /\ phase = "coarsened"
  /\ \E g \in PartitionsAfterCoarsening :
       /\ hg' = initializeNumCutHyperedges(g)
       /\ initial_objective' = objective(g)
  /\ communities' = IF vcycle = 0 /\ action \notin {"none", "vcycle"}
                      THEN [u \in Nodes |-> 0] ELSE communities
  /\ phase' = "uncoarsen"
  /\ UNCHANGED <<coarsening, history, pruner, max_hn_weights, vcycle, context, levels>>

-----------------------------------------------------------------------------
(* Uncoarsening: VertexPairCoarsenerBase::doUncoarsen.                     *)

Uncontract ==
  /\ phase = "uncoarsen" /\ history # <<>>
  /\ \E m \in {Last(history)} : \E restored \in {restoreParallelHyperedges(hg, m)} :
     \E all \in {restoreSingleNodeHyperedges(restored, m)} :
        /\ max_hn_weights' = WeightsBelow(max_hn_weights, currentNumNodes)
        /\ hg' = uncontract(all, m.u, m.v)
        /\ removed_parallel' =
             SubSeq(removed_parallel, 1, Len(removed_parallel) - m.parallel_hes_size)
        /\ removed_single' = SubSeq(removed_single, 1, Len(removed_single) - m.one_pin_hes_size)
  /\ history' = Front(history)
  /\ levels' = Front(levels)
  /\ phase' = "refine"
  /\ UNCHANGED <<coarsening, initial_objective, vcycle, call>>

(* performLocalSearch: one search after the other, each of many moves.     *)
(* Moves that are rolled back leave no trace, so one move is left of every *)
(* node that ends in another block.  A search keeps what is cheaper and in *)
(* balance, or no more expensive and less out of balance                   *)
(* (LocalSearch!Improves), and so do several, one after the other.         *)
MoveNodes(h, part) ==
  FoldSet(LAMBDA u, g : changeNodePart(g, u, h.part[u], part[u]), h,
          {u \in h.on : part[u] # h.part[u]})
Improves(h, g) ==
  LET Heaviest(f) == Max({f.part_weight[p] : p \in Blocks})
  IN \/ objective(g) < objective(h) /\ Heaviest(g) <= context.max_part_weight
     \/ objective(g) <= objective(h) /\ Heaviest(g) < Heaviest(h)

Refine ==
  /\ phase = "refine"
  /\ \/ hg' = hg
     \/ \E part \in [hg.on -> Blocks] :
          /\ \A u \in hg.on : isFixedVertex(hg, u) => part[u] = hg.part[u]
          /\ hg' = MoveNodes(hg, part)
          /\ Improves(hg, hg')
  /\ phase' = "uncoarsen"
  /\ UNCHANGED <<coarsening, history, pruner, max_hn_weights, initial_objective,
                 vcycle, call, levels>>

(* The soft time limit: the rest of the history only gives nodes their     *)
(* blocks; nets stay contracted and removed nets stay away.                *)
RestoreMementos(g, mementos) ==
  FoldRight(LAMBDA m, h : restoreMemento(h, m.u, m.v), mementos, g)

SoftTimeLimitExceeded ==
  /\ context.time_limit /\ phase = "uncoarsen" /\ history # <<>>
  /\ hg' = RestoreMementos(hg, history)
  /\ history' = <<>>
  /\ UNCHANGED <<phase, coarsening, pruner, max_hn_weights, initial_objective, vcycle,
                 call, levels>>

(* The end of doUncoarsen: partition() and its loop of V-cycles go on      *)
(* while a V-cycle improves the objective.                                 *)
EndUncoarsening ==
  /\ phase = "uncoarsen" /\ history = <<>>
  /\ phase' = IF vcycle < context.vcycles /\ (vcycle > 0 => objective(hg) < initial_objective)
                THEN "vcycle" ELSE "done"
  /\ UNCHANGED <<hg, coarsening, history, pruner, max_hn_weights, initial_objective,
                 vcycle, call, levels>>

partitionVCycle ==
  /\ phase = "vcycle"
  /\ hg' = resetEdgeHashes(hg)
  /\ vcycle' = vcycle + 1
  /\ phase' = "pass"
  /\ UNCHANGED <<coarsening, history, pruner, max_hn_weights, initial_objective, call,
                 levels>>

Next ==
  \/ StartPass \/ EndPass \/ EndCoarsening \/ InitialPartition
  \/ Uncontract \/ Refine \/ SoftTimeLimitExceeded \/ EndUncoarsening \/ partitionVCycle
  \/ \E hn \in Nodes : Visit(hn)

(* One thread runs to the end: it never waits for anything.                *)
Spec == Init /\ [][Next]_vars /\ WF_vars(Next)

-----------------------------------------------------------------------------
Partitioned == vcycle > 0 \/ context.from_input_partition \/ phase \in {"uncoarsen", "refine", "done", "vcycle"}
(* The time limit struck: nodes are restored, nets are not.                *)
Broken == Len(levels) > Len(history) + 1

(* Each uncontraction gives back exactly the hypergraph that the           *)
(* contraction met: pins, weights, nets merged as parallel, fixed vertices *)
(* -- after any moves of the refiner in between, and in every V-cycle; and *)
(* on each level nodes and nets describe the same incidence in their two   *)
(* arrays.                                                                 *)
LevelsAreRestored ==
  ~Broken => /\ Structure(hg) = Last(levels)
             /\ IncidenceIsSymmetric(hg) /\ PinsAreEnabled(hg) /\ NumPinsIsRight(hg)

(* V-cycles have a hypergraph to work on that was given back: the time      *)
(* limit leaves nets contracted, which direct_kway::partition does not ask, *)
(* and V-cycles of a combine contract what the parents keep together, in    *)
(* whatever blocks of the child (EvoPartitionPolicy).                       *)
Sound == vcycle > 0 => ~Broken /\ action # "combine"

(* While nets are compared by fingerprint, the hash of every net is the    *)
(* hash of its pins (contract updates hashes, uncontract does not, so      *)
(* V-cycles rely on resetEdgeHashes), and no two nets at the last          *)
(* representative are parallel, although only neighbours in the order of   *)
(* the hashes are compared.                                                *)
ParallelNetsAreFound ==
  ~Broken =>
    /\ phase \in {"pass", "visit"} => HashesAreOfPins(hg)
    /\ phase = "visit" /\ history # <<>> =>
         \A e, f \in hg.nets[Last(history).u] : e # f => pins(hg, e) # pins(hg, f)

(* The pin counts, connectivities, weights of blocks and numbers of        *)
(* incident cut nets equal what they stand for, through moves and          *)
(* uncontractions; and the weights of the blocks also when the time limit  *)
(* cut the uncoarsening short ("already maintained", as the comment says). *)
PartitionInfoIsRight ==
  Sound =>
    /\ Partitioned /\ ~Broken =>
         /\ PinCountsAreRight(hg) /\ PartWeightsAreRight(hg)
         /\ phase \in {"refine", "uncoarsen"} => CutCountsAreRight(hg)
    /\ phase = "done" => \A p \in Parts : hg.part_weight[p] = WeightOf(levels[1], hg.part, p)

(* The objective of the coarse hypergraph is that of the input hypergraph  *)
(* under the projected partition, also after the time limit left the nets  *)
(* contracted: what makes refinement of coarse levels meaningful.          *)
ObjectiveProjects ==
  Sound /\ Partitioned =>
    /\ hyperedgeCut(hg) = CutOf(levels[1], Projected(history, hg.part))
    /\ km1(hg) = km1Of(levels[1], Projected(history, hg.part))

(* The slack that local search gets on the bound of a block covers the     *)
(* heaviest node of the level (the stack of maxima is popped one level     *)
(* late, and left behind for the next V-cycle).                            *)
SlackCoversHeaviestNode ==
  ~Broken => Last(max_hn_weights).max_weight >= weightOfHeaviestNode(hg)

(* Contractions into and of fixed vertices keep the weights of the fixed   *)
(* vertices per block, and a fixed vertex stays in its block.              *)
FixedVerticesAreKept ==
  /\ ~Broken => FixedWeightsAreRight(hg)
  /\ Partitioned => \A u \in hg.on : isFixedVertex(hg, u) => hg.part[u] = hg.fixed_part[u]

(* The child of a combine is no worse than either parent (the assertion at *)
(* the end of combine::partitions): contraction must not merge what a      *)
(* parent separates, or the parent's objective is not that of the coarse   *)
(* hypergraph.                                                             *)
ParentObjective(part) ==
  IF context.objective = "km1" THEN km1Of(levels[1], part) ELSE CutOf(levels[1], part)
ChildIsNoWorse ==
  Sound /\ phase = "done" /\ action = "combine" =>
    /\ objective(hg) <= ParentObjective(parents[1])
    /\ objective(hg) <= ParentObjective(parents[2])

(* The partitioner ends, with all nodes given back and in a block.         *)
Finishes == <>(phase = "done" /\ hg.on = Nodes /\ \A u \in Nodes : hg.part[u] \in Parts)
=============================================================================
