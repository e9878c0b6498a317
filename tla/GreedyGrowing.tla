---------------------------- MODULE GreedyGrowing ----------------------------
(***************************************************************************)
(* Greedy hypergraph growing (greedy_hypergraph_growing_initial_           *)
(* partitioner.h): blocks grow from start nodes, and priority queues hold  *)
(* the gains of putting the nodes next to a block into it.  At first no    *)
(* block may get heavier than its perfect weight; when no queue is left    *)
(* that bound is released.                                                 *)
(***************************************************************************)
EXTENDS InitialPartitioner

(* local is [pq, nets: for each block the nets whose pins have been        *)
(* inserted, sticky, current: the block the last move was to, released,    *)
(* restore: the unassigned_part to restore].  A step builds a new local    *)
(* from the hypergraph g and the context ctx as they are in that step;     *)
(* pick is what getUnassignedNode returns all through it.                  *)

GreedyAlgorithms ==
  {"greedy_global", "greedy_round", "greedy_sequential", "greedy_global_maxnet",
   "greedy_round_maxnet", "greedy_sequential_maxnet", "greedy_global_maxpin",
   "greedy_round_maxpin", "greedy_sequential_maxpin"}
Policy ==
  CASE algorithm \in {"greedy_global", "greedy_round", "greedy_sequential"} -> "fm"
    [] algorithm \in {"greedy_global_maxnet", "greedy_round_maxnet", "greedy_sequential_maxnet"} ->
         "max_net"
    [] OTHER -> "max_pin"
Selection ==
  CASE algorithm \in {"greedy_round", "greedy_round_maxnet", "greedy_round_maxpin"} -> "round_robin"
    [] algorithm \in {"greedy_global", "greedy_global_maxnet", "greedy_global_maxpin"} -> "global"
    [] OTHER -> "sequential"

insertNodesIntoPQ(s, g, ctx, nodes, t) ==
  LET new == {v \in nodes : g.part[v] # t /\ ~isFixed(g, v) /\ v \notin contained(s.pq, t)}
      filled == insert(s.pq, t, [v \in new |-> calculateGain(Policy, g, v, t)])
  IN IF new = {} THEN s
     ELSE [s EXCEPT !.pq = IF t # ctx.unassigned_part THEN enablePart(filled, t) ELSE filled]

insertUnassignedHypernodeIntoPQ(s, g, ctx, t, pick) ==
  IF pick = NoNode THEN s
  ELSE insertNodesIntoPQ([s EXCEPT !.sticky = pick], g, ctx, {pick}, t)

removeHypernodeFromAllPQs(s, g, ctx, u, pick) ==
  LET refilled(r, i) ==
        IF i \in r.pq.enabled /\ contained(r.pq, i) = {u} /\ g.part[u] # i
        THEN insertUnassignedHypernodeIntoPQ(r, g, ctx, i, pick) ELSE r
      removed(r, i) == IF u \in contained(r.pq, i)
                       THEN [refilled(r, i) EXCEPT !.pq = remove(@, i, u)] ELSE r
  IN FoldLeft(removed, s, [i \in 1 .. ctx.k |-> i - 1])

(* Node u is in block t now.                                               *)
insertAndUpdateNodesAfterMove(s, g, ctx, u, t, pick) ==
  LET new == incidentEdges(g, u) \ s.nets[t]
      pins == {v \in UNION {g.nets[n].pins : n \in {m \in new : edgeSize(g, m) <= ctx.threshold}} :
                 g.part[v] = ctx.unassigned_part}
      updated == IF isFixed(g, u) THEN s
                 ELSE [s EXCEPT !.pq = deltaGainUpdate(Policy, g, @, u, ctx.unassigned_part, t)]
      inserted == insertNodesIntoPQ([updated EXCEPT !.nets[t] = @ \cup new], g, ctx, pins, t)
      removed == removeHypernodeFromAllPQs(inserted, g, ctx, u, pick)
  IN IF t \notin removed.pq.enabled /\ ~isFixed(g, u)
     THEN insertUnassignedHypernodeIntoPQ(removed, g, ctx, t, pick) ELSE removed

startNodesInserted(s, g, ctx, start, pick) ==
  LET put(r, u, t) == IF isFixed(g, u) /\ g.fixed[u] # ctx.unassigned_part
                      THEN insertAndUpdateNodesAfterMove(r, g, ctx, u, g.fixed[u], pick)
                      ELSE insertNodesIntoPQ(r, g, ctx, {u}, t)
      all[n \in 0 .. ctx.k] ==
        IF n = 0 THEN s ELSE FoldLeft(LAMBDA r, u : put(r, u, n - 1), all[n - 1], start[n - 1])
  IN all[ctx.k]

Overloaded(g, ctx) == {i \in 0 .. ctx.k - 1 : partWeight(g, i) >= ctx.upper[i]}
disableParts(s, parts) == [s EXCEPT !.pq.enabled = @ \ parts]

-----------------------------------------------------------------------------
GreedyStart ==
  /\ phase = "start" /\ algorithm \in GreedyAlgorithms
  /\ LET operating == getOperatingUnassignedPart(Selection)
         ctx == recalculateBalanceConstraints([context EXCEPT !.unassigned_part = operating], 0)
         g == resetPartitioning(operating)
         s == [pq |-> EmptyPQ(ctx.k), nets |-> [i \in Parts |-> {}], sticky |-> NoNode,
               current |-> 0, released |-> FALSE, restore |-> context.unassigned_part]
     IN /\ \E start \in calculateStartNodes(g, ctx.k, ctx.threshold),
              pick \in LET free == {u \in FreeNodes : g.part[u] = operating}
                       IN IF free = {} THEN {NoNode} ELSE free :
             \E r \in {startNodesInserted(s, g, ctx, start, pick)} :
               /\ local' = disableParts(r, {operating} \cup Overloaded(g, ctx))
               /\ unassigned_node' = r.sticky
        /\ hg' = g /\ context' = ctx
  /\ phase' = "growing"
  /\ UNCHANGED calls

(* minimum_unassigned_part_weight, at first zero, is the perfect weight of *)
(* the block that shrinks.                                                 *)
UnassignedPartIsSmall ==
  /\ context.unassigned_part # kUnassigned
  /\ context.perfect[context.unassigned_part] > partWeight(hg, context.unassigned_part)
Moves ==
  IF UnassignedPartIsSmall THEN {}
  ELSE nextQueueID(Selection, hg, local.pq, context.upper, local.current, local.released)

GreedyMove ==
  /\ phase = "growing"
  /\ \E m \in Moves :
       IF Assigns(m.node, m.part)
       THEN \E g \in {WithPart(m.node, m.part)} :
              \E pick \in IF unassigned_node \in Unassigned \ {m.node} THEN {unassigned_node}
                          ELSE IF Unassigned \ {m.node} = {} THEN {NoNode}
                          ELSE Unassigned \ {m.node} :
                \E s \in {insertAndUpdateNodesAfterMove(
                            [local EXCEPT !.pq = m.pq, !.current = m.part, !.sticky = unassigned_node],
                            g, context, m.node, m.part, pick)} :
                  /\ hg' = g /\ unassigned_node' = s.sticky
                  /\ local' = disableParts([s EXCEPT !.sticky = NoNode],
                                           {m.part} \cap Overloaded(g, context))
       ELSE /\ local' = [local EXCEPT
                           !.pq = disablePart(insert(m.pq, m.part, [v \in {m.node} |-> m.gain]), m.part),
                           !.current = m.part]
            /\ UNCHANGED <<hg, unassigned_node>>
  /\ UNCHANGED <<context, phase, calls>>

(* Every queue is disabled: the bound is released, and what has room again *)
(* is enabled, with any node if its queue is empty.                        *)
GreedyRelease ==
  /\ phase = "growing" /\ Moves = {} /\ ~UnassignedPartIsSmall /\ ~local.released
  /\ LET ctx == recalculateBalanceConstraints(context, context.epsilon)
         room == {i \in Parts \ {ctx.unassigned_part} : i \notin Overloaded(hg, ctx)}
         opened(r, i, pick) ==
           IF i \notin room THEN r
           ELSE IF contained(r.pq, i) = {} THEN insertUnassignedHypernodeIntoPQ(r, hg, ctx, i, pick)
           ELSE [r EXCEPT !.pq = enablePart(@, i)]
         released == [local EXCEPT !.released = TRUE, !.current = 0, !.sticky = unassigned_node]
     IN /\ context' = ctx
        /\ \E pick \in UnassignedNodes :
             \E s \in {FoldLeft(LAMBDA r, i : opened(r, i, pick), released,
                                [i \in 1 .. ctx.k |-> i - 1])} :
               local' = [s EXCEPT !.sticky = NoNode] /\ unassigned_node' = s.sticky
  /\ UNCHANGED <<hg, phase, calls>>

GrowingEnds == UnassignedPartIsSmall \/ (Moves = {} /\ local.released)

(* Nodes that are in no block go to the better of the blocks 0 and 1,      *)
(* whether they fit or not.                                                *)
GreedyLeftover ==
  /\ phase = "growing" /\ GrowingEnds
  /\ context.unassigned_part = kUnassigned /\ Unassigned # {}
  /\ \E u \in UnassignedNodes :
       hg' = WithPart(u, IF calculateGain(Policy, hg, u, 0) > calculateGain(Policy, hg, u, 1)
                         THEN 0 ELSE 1)
  /\ local' = [local EXCEPT !.pq = EmptyPQ(context.k)] /\ unassigned_node' = NoNode
  /\ UNCHANGED <<context, phase, calls>>

GreedyEnds ==
  /\ phase = "growing" /\ GrowingEnds
  /\ context.unassigned_part = kUnassigned => Unassigned = {}
  /\ context' = recalculateBalanceConstraints([context EXCEPT !.unassigned_part = local.restore],
                                              context.epsilon)
  /\ phase' = "refine" /\ local' = None /\ unassigned_node' = NoNode
  /\ UNCHANGED <<hg, calls>>

GreedyNext == GreedyStart \/ GreedyMove \/ GreedyRelease \/ GreedyLeftover \/ GreedyEnds

-----------------------------------------------------------------------------
(* The keys are the gains of the policy, though each move changes only     *)
(* those that it knows to change, and only nodes that may move have any.   *)
KeysAreGains ==
  phase = "growing" =>
    \A i \in Parts : \A u \in contained(local.pq, i) :
      u \in Unassigned /\ local.pq.keys[i][u] = calculateGain(Policy, hg, u, i)

(* A queue that may be asked has an answer and room in its block; one that *)
(* may not has none, or no room for the heaviest node.                     *)
QueuesAreOpen ==
  phase = "growing" =>
    /\ \A i \in local.pq.enabled :
         i # context.unassigned_part /\ contained(local.pq, i) # {} /\ i \notin Overloaded(hg, context)
    /\ context.k = 2 =>
         \A i \in Parts \ (local.pq.enabled \cup {context.unassigned_part}) :
           ~ /\ Unassigned # {} /\ contained(local.pq, i) # {}
             /\ partWeight(hg, i) + Max({hg.weight[u] : u \in hg.nodes}) <= context.upper[i]

(* Blocks only grow up to the bound, and the one they grow from falls      *)
(* below its perfect weight by less than a node.                           *)
PartsAreOfGoodSize ==
  phase = "growing" /\ ~containsFixedVertices(hg) /\ context.unassigned_part # kUnassigned =>
    LET shrinking == context.unassigned_part
    IN /\ \A i \in Parts \ {shrinking} : partWeight(hg, i) <= context.upper[i]
       /\ partWeight(hg, shrinking) > context.perfect[shrinking] - Max({hg.weight[u] : u \in hg.nodes})
=============================================================================
