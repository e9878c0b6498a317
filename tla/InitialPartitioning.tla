-------------------------- MODULE InitialPartitioning --------------------------
(***************************************************************************)
(* The initial partitioners together: greedy growing, label propagation,   *)
(* and those that need no more than a few steps, random assignment         *)
(* (random_initial_partitioner.h), bin packing (bin_packing_initial_       *)
(* partitioner.h) and breadth first search (bfs_initial_partitioner.h).    *)
(***************************************************************************)
EXTENDS GreedyGrowing, BinPacking

-----------------------------------------------------------------------------
(* Label propagation (label_propagation_initial_partitioner.h): after a    *)
(* few nodes around the start nodes have got a block, every node moves to  *)
(* the block with the greatest gain until no one wants to.                 *)

Degree(u) == Cardinality(incidentEdges(hg, u))

(* computeMaxGainMove adds up the gains of all blocks in one pass over the *)
(* nets.  The scores of the blocks that are valid targets:                 *)
Scores(u) ==
  LET s == hg.part[u]
      nets == incidentEdges(hg, u)
      connected(n) == connectivitySet(hg, hg.nets[n])
      internal == {n \in nets : connectivity(hg, n) = 1 /\ (s = kUnassigned \/ pinCountInPart(hg, n, s) > 1)}
      valid == IF s = kUnassigned THEN UNION {connected(n) : n \in nets}
               ELSE UNION {connected(n) : n \in {m \in nets : connectivity(hg, m) > 1}} \ {s}
      wins(n, t) == /\ t \in connected(n)
                    /\ IF s = kUnassigned THEN connectivity(hg, n) = 1
                       ELSE connectivity(hg, n) = 2 /\ pinCountInPart(hg, n, s) = 1
      weight(which) == SumOverNets(hg, LAMBDA n : 1, which)
  IN [t \in valid |-> weight({n \in nets : wins(n, t)}) - weight(internal)]

(* The first of the blocks with the greatest score that have room.  A node *)
(* that has a block already only moves for a gain.                         *)
MaxGainPart(u) ==
  LET scores == Scores(u)
      s == hg.part[u]
      targets == {t \in DOMAIN scores : Fits(u, t) /\ (s # kUnassigned => scores[t] > 0)}
      best == {t \in targets : \A r \in targets : scores[r] <= scores[t]}
  IN IF targets = {} THEN s ELSE Min(best)

LightestPart ==
  Min({i \in Parts : \A j \in Parts : partWeight(hg, i) <= partWeight(hg, j)})

(* The start of assignKConnectedHypernodesToPart for block p, or of the    *)
(* rounds after the last block.                                            *)
Growing(start, p, restore) ==
  IF p < context.k
  THEN [start |-> start, part |-> p, queue |-> start[p],
        in_queue |-> {start[p][i] : i \in DOMAIN start[p]}, assigned |-> 0, restore |-> restore]
  ELSE [restore |-> restore, unvisited |-> {u \in hg.nodes : Degree(u) > 0}, converged |-> TRUE,
        iterations |-> 0, assign |-> 0]

-----------------------------------------------------------------------------
LPStart ==
  /\ phase = "start" /\ algorithm = "lp"
  /\ \E start \in calculateStartNodes(hg, context.k, context.threshold) :
       local' = Growing(start, 0, context.unassigned_part)
  /\ context' = [context EXCEPT !.unassigned_part = kUnassigned]
  /\ hg' = resetPartitioning(kUnassigned)
  /\ phase' = "lp_grow"
  /\ UNCHANGED <<calls, unassigned_node>>

(* Each block gets connected_nodes nodes per start node, however heavy.    *)
connected_nodes == Max({1, Min({context.lp_assign_vertex_to_part, Cardinality(hg.nodes) \div context.k})})

LPGrow ==
  /\ phase = "lp_grow"
  /\ LET node == Head(local.queue)
         rest == Tail(local.queue)
         fresh == hg.part[node] = kUnassigned
         assigned == local.assigned + IF fresh THEN 1 ELSE 0
         push(s, n) ==
           LET new == {v \in hg.nets[n].pins : hg.part[v] = kUnassigned /\ v # node
                                                 /\ v \notin s.in_queue}
           IN IF edgeSize(hg, n) > context.threshold THEN s
              ELSE [queue |-> s.queue \o SetToSortSeq(new, <), in_queue |-> s.in_queue \cup new]
         pushed == IF fresh THEN FoldLeft(push, [queue |-> rest, in_queue |-> local.in_queue],
                                          SetToSortSeq(incidentEdges(hg, node), <))
                   ELSE [queue |-> rest, in_queue |-> local.in_queue]
         enough == assigned = connected_nodes * Len(local.start[local.part])
         others == Unassigned \ {node}
         next == Growing(local.start, local.part + 1, local.restore)
         go_on(queue) == [local EXCEPT !.queue = queue, !.in_queue = pushed.in_queue,
                                       !.assigned = assigned]
     IN /\ hg' = IF fresh THEN WithPart(node, local.part) ELSE hg
        /\ IF enough \/ (pushed.queue = <<>> /\ others = {})
           THEN /\ local' = next /\ UNCHANGED unassigned_node
                /\ phase' = IF local.part + 1 = context.k THEN "lp" ELSE phase
           ELSE /\ UNCHANGED phase
                /\ IF pushed.queue # <<>> THEN local' = go_on(pushed.queue) /\ UNCHANGED unassigned_node
                   ELSE \E u \in IF unassigned_node \in others THEN {unassigned_node} ELSE others :
                          local' = go_on(<<u>>) /\ unassigned_node' = u
  /\ UNCHANGED <<context, calls>>

(* One node of a round, in random order.                                   *)
LPVisit ==
  /\ phase = "lp" /\ local.assign = 0
  /\ \E v \in local.unvisited :
       LET moves == ~isFixed(hg, v) /\ MaxGainPart(v) # hg.part[v] /\ Assigns(v, MaxGainPart(v))
       IN /\ hg' = IF moves THEN WithPart(v, MaxGainPart(v)) ELSE hg
          /\ local' = [local EXCEPT !.unvisited = @ \ {v}, !.converged = @ /\ ~moves]
  /\ UNCHANGED <<context, phase, calls, unassigned_node>>

(* After a round without a move, some nodes that still have no block get   *)
(* the lightest one, and it goes on.                                       *)
LPRoundEnds ==
  /\ phase = "lp" /\ local.assign = 0 /\ local.unvisited = {}
  /\ LET stuck == local.converged /\ Unassigned # {}
         iterations == local.iterations + 1
         again == (~local.converged \/ stuck) /\ iterations < context.lp_max_iteration
     IN /\ local' = [local EXCEPT !.iterations = iterations, !.converged = TRUE,
                                  !.unvisited = IF again THEN {u \in hg.nodes : Degree(u) > 0} ELSE {},
                                  !.assign = IF stuck THEN context.lp_assign_vertex_to_part ELSE 0]
        /\ phase' = IF again THEN "lp" ELSE "lp_left"
  /\ UNCHANGED <<hg, context, calls, unassigned_node>>

AssignToLightest == \E u \in UnassignedNodes : hg' = WithPart(u, LightestPart)

LPAssign ==
  /\ phase \in {"lp", "lp_left"} /\ local.assign > 0
  /\ IF Unassigned = {} THEN local' = [local EXCEPT !.assign = 0] /\ UNCHANGED hg
     ELSE local' = [local EXCEPT !.assign = @ - 1] /\ AssignToLightest
  /\ unassigned_node' = NoNode
  /\ UNCHANGED <<context, phase, calls>>

LPLeftover ==
  /\ phase = "lp_left" /\ local.assign = 0 /\ Unassigned # {}
  /\ AssignToLightest /\ unassigned_node' = NoNode
  /\ UNCHANGED <<context, phase, calls, local>>

LPEnds ==
  /\ phase = "lp_left" /\ local.assign = 0 /\ Unassigned = {}
  /\ context' = [context EXCEPT !.unassigned_part = local.restore]
  /\ phase' = "refine" /\ local' = None /\ unassigned_node' = NoNode
  /\ UNCHANGED <<hg, calls>>

LPNext == LPStart \/ LPGrow \/ LPVisit \/ LPRoundEnds \/ LPAssign \/ LPLeftover \/ LPEnds

-----------------------------------------------------------------------------
(* The scores of one pass are the gains of the moves, whatever nodes have  *)
(* no block yet.                                                           *)
ScoresAreGains ==
  phase = "lp" =>
    \A u \in FreeNodes : LET scores == Scores(u)
                         IN \A t \in DOMAIN scores : scores[t] = FMGain(hg, u, t)

-----------------------------------------------------------------------------
(* Random assignment.                                                      *)

(* Node by node: any block with room may be drawn first; with no room      *)
(* anywhere it is the block that is drawn last.                            *)
RandomStart ==
  /\ phase = "start" /\ algorithm = "random"
  /\ hg' = resetPartitioning(kUnassigned)
  /\ context' = [context EXCEPT !.unassigned_part = kUnassigned]
  /\ local' = [restore |-> context.unassigned_part]
  /\ phase' = "random"
  /\ UNCHANGED <<calls, unassigned_node>>
RandomAssign ==
  /\ phase = "random" /\ Unassigned # {}
  /\ LET u == Min(Unassigned)
         fitting == {p \in Parts : Fits(u, p)}
     IN \E p \in IF fitting # {} THEN fitting ELSE Parts : hg' = WithPart(u, p)
  /\ UNCHANGED <<context, phase, calls, unassigned_node, local>>
RandomEnds ==
  /\ phase = "random" /\ Unassigned = {}
  /\ context' = [context EXCEPT !.unassigned_part = local.restore]
  /\ phase' = "refine" /\ local' = None
  /\ UNCHANGED <<hg, calls, unassigned_node>>

-----------------------------------------------------------------------------
(* Bin packing: all nodes in descending order of weight, those of a weight *)
(* in any order, except the lightest, which are never shuffled.            *)

DescendingOrders ==
  {o \in SetToSeqs(hg.nodes) :
     \A i, j \in DOMAIN o : i < j =>
       \/ hg.weight[o[i]] > hg.weight[o[j]]
       \/ /\ hg.weight[o[i]] = hg.weight[o[j]]
          /\ hg.weight[o[i]] = Min({hg.weight[u] : u \in hg.nodes}) => o[i] < o[j]}
bin_weight ==
  LET range_k == context.num_bins[0] + context.num_bins[1]
  IN ((100 + context.epsilon) * CeilDiv(totalWeight(hg), range_k)) \div 100

(* A node that does not fit into its part goes to the next one with room,  *)
(* or stays.                                                               *)
Assigned(g, order, parts) ==
  LET part(h, u) ==
        LET after(i) == (parts[u] + i) % context.k
            room == {i \in 0 .. context.k - 1 :
                       partWeight(h, after(i)) + h.weight[u] <= context.upper[after(i)]}
        IN IF room = {} THEN parts[u] ELSE after(Min(room))
  IN FoldLeft(LAMBDA h, u : IF isFixed(h, u) THEN h ELSE [h EXCEPT !.part[u] = part(h, u)], g, order)

BinPackingPartition ==
  /\ phase = "start" /\ algorithm = "bin_packing"
  /\ \E order \in DescendingOrders :
       \E parts \in twoLevelPacking(context.bp_algo, hg, order, context.upper, context.num_bins, bin_weight) :
         hg' = Assigned(resetPartitioning(kUnassigned), order, parts)
  /\ phase' = "refine"
  /\ UNCHANGED <<context, calls, unassigned_node, local>>

-----------------------------------------------------------------------------
(* Breadth first search from all start nodes at once, a node per block and *)
(* turn.  It reads unassigned_part from the context and leaves it alone.   *)
(* local is [queues, hypernodes: those ever in a queue of each block, nets,*)
(* enabled, weight, part: the next one, disabled: no block of this turn    *)
(* was enabled].                                                           *)

BFSStart ==
  /\ phase = "start" /\ algorithm = "bfs"
  /\ hg' = resetPartitioning(context.unassigned_part)
  /\ \E start \in calculateStartNodes(hg, context.k, context.threshold) :
       local' = [queues |-> start, nets |-> [i \in Parts |-> {}],
                 hypernodes |-> [i \in Parts |-> {start[i][n] : n \in DOMAIN start[i]}],
                 enabled |-> Parts \ {context.unassigned_part}, part |-> 0, disabled |-> TRUE,
                 weight |-> IF context.unassigned_part = kUnassigned THEN 0
                            ELSE (context.perfect[context.unassigned_part]
                                    * (100 - context.epsilon)) \div 100]
  /\ phase' = "bfs"
  /\ UNCHANGED <<context, calls, unassigned_node>>

(* Taken from the queue: the first node that can be assigned, or a fixed   *)
(* one; the last one otherwise.                                            *)
Taking(queue) ==
  Min({i \in DOMAIN queue :
         i = Len(queue) \/ hg.part[queue[i]] = context.unassigned_part \/ isFixed(hg, queue[i])})

(* What has been seen is noted for the block of u, which for a fixed       *)
(* vertex need not be the block p whose queue it was in.                   *)
pushIncidentHypernodesIntoQueue(g, s, u, p) ==
  LET own == g.part[u]
      new == {n \in incidentEdges(g, u) \ s.nets[own] : edgeSize(g, n) <= context.threshold}
      push(t, n) ==
        LET pins == {v \in g.nets[n].pins : /\ g.part[v] = context.unassigned_part /\ ~isFixed(g, v)
                                             /\ v \notin t.hypernodes[own]}
        IN [t EXCEPT !.queues[p] = @ \o SetToSortSeq(pins, <), !.hypernodes[own] = @ \cup pins]
  IN [FoldLeft(push, s, SetToSortSeq(new, <)) EXCEPT !.nets[own] = @ \cup incidentEdges(g, u)]

(* Block p tries node u.                                                   *)
BFSTry(s, u, p) ==
  LET tried == [s EXCEPT !.hypernodes[p] = @ \cup {u}]
      counted == [tried EXCEPT !.weight = @ + hg.weight[u]]
  IN IF isFixed(hg, u) THEN hg' = hg /\ local' = pushIncidentHypernodesIntoQueue(hg, counted, u, p)
     ELSE IF Assigns(u, p)
     THEN hg' = WithPart(u, p) /\ local' = pushIncidentHypernodesIntoQueue(WithPart(u, p), counted, u, p)
     ELSE hg' = hg /\ local' = [tried EXCEPT !.enabled = IF s.queues[p] = <<>> THEN @ \ {p} ELSE @]

BFSTurn ==
  /\ phase = "bfs" /\ local.part < context.k
  /\ LET p == local.part
         queue == local.queues[p]
         i == Taking(queue)
         next == [local EXCEPT !.part = p + 1, !.disabled = FALSE]
         taken == [next EXCEPT !.queues[p] = SubSeq(queue, i + 1, Len(queue))]
         usable(u) == hg.part[u] = context.unassigned_part \/ isFixed(hg, u)
     IN CASE p \notin local.enabled ->
               local' = [local EXCEPT !.part = p + 1] /\ UNCHANGED <<hg, unassigned_node>>
          [] p \in local.enabled /\ queue # <<>> /\ usable(queue[i]) ->
               BFSTry(taken, queue[i], p) /\ UNCHANGED unassigned_node
          [] OTHER ->
               \E u \in UnassignedNodes :
                 /\ unassigned_node' = u
                 /\ LET s == IF queue = <<>> THEN next ELSE taken
                    IN IF u = NoNode THEN hg' = hg /\ local' = [s EXCEPT !.enabled = @ \ {p}]
                       ELSE BFSTry(s, u, p)
  /\ UNCHANGED <<context, phase, calls>>

(* All blocks have had their turn.                                         *)
BFSRoundEnds ==
  /\ phase = "bfs" /\ local.part = context.k
  /\ IF local.disabled \/ local.weight >= totalWeight(hg)
     THEN phase' = "refine" /\ local' = None /\ unassigned_node' = NoNode
     ELSE UNCHANGED <<phase, unassigned_node>> /\ local' = [local EXCEPT !.part = 0, !.disabled = TRUE]
  /\ UNCHANGED <<hg, context, calls>>

SmallNext ==
  \/ RandomStart \/ RandomAssign \/ RandomEnds
  \/ BinPackingPartition
  \/ BFSStart \/ BFSTurn \/ BFSRoundEnds

InitialPartitioningNext == BaseNext \/ GreedyNext \/ LPNext \/ SmallNext

-----------------------------------------------------------------------------
(* Breadth first search looks at no free node twice for the same block.    *)
QueuesHoldNodesOnce ==
  phase = "bfs" =>
    \A i \in Parts : LET queue == local.queues[i]
                     IN \A m, n \in DOMAIN queue : m < n /\ queue[m] = queue[n] => isFixed(hg, queue[m])

(* Bin packing keeps its word: where all nodes fit into the bins, every    *)
(* part gets no more than its share of them.                               *)
PackedPartsFit ==
  phase = "refine" /\ algorithm = "bin_packing" /\ ~containsFixedVertices(hg)
    /\ currentBinImbalance(context.bp_algo, hg, bin_weight, context.num_bins[0] + context.num_bins[1]) = 0
  => \A i \in Parts : partWeight(hg, i) <= context.num_bins[i] * bin_weight

(* Every node is in a block, the context is as it was, and the best of all *)
(* partitions is kept.                                                     *)
InitialPartitionsAreRight == EveryNodeIsAssigned /\ ContextIsRestored /\ BestIsKept /\ PoolRunsOnce
=============================================================================
