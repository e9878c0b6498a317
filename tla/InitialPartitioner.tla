-------------------------- MODULE InitialPartitioner --------------------------
(***************************************************************************)
(* What all initial partitioners share: InitialPartitionerBase             *)
(* (initial_partitioner_base.h) with its repeated runs, and the pool that  *)
(* tries one after the other (pool_initial_partitioner.h).  All of them    *)
(* work on one hypergraph and one context, and a partitioner that needs    *)
(* other options changes those of the context while it runs.               *)
(*                                                                         *)
(* First come the policies (initial_partitioning/policies): the gain of a  *)
(* move, how the keys of a priority queue follow the gains, the nodes that *)
(* blocks grow from, and the queue that is asked next; with the queues,    *)
(* one per block, that they work on (datastructure/kway_priority_queue.h). *)
(* Moves to a block that a node is already in are of no interest.          *)
(*                                                                         *)
(* The refinement at the end of a run is any result the searches promise   *)
(* (LocalSearch).                                                          *)
(***************************************************************************)
EXTENDS Subhypergraph

NoNode == -1

incidentEdges(hg, u) == {n \in DOMAIN hg.nets : u \in hg.nets[n].pins}
edgeSize(hg, n) == Cardinality(hg.nets[n].pins)
connectivity(hg, n) == Cardinality(connectivitySet(hg, hg.nets[n]))
pinCountInPart(hg, n, p) == Cardinality({v \in hg.nets[n].pins : hg.part[v] = p})
SumOverNets(hg, f(_), nets) == MapThenSumSet(LAMBDA n : f(n) * hg.nets[n].weight, nets)

-----------------------------------------------------------------------------
(* The gain of putting node u into block t.                                *)

FMGain(hg, u, t) ==
  LET s == hg.part[u]
      alone(n) == pinCountInPart(hg, n, s) = 1
      change(n) ==
        CASE s = kUnassigned ->
               IF connectivity(hg, n) = 1 /\ pinCountInPart(hg, n, t) = 0 THEN -1 ELSE 0
          [] s = t -> 0
          [] OTHER ->
               IF connectivity(hg, n) = 1 /\ ~alone(n) THEN -1
               ELSE IF connectivity(hg, n) = 2 /\ alone(n) /\ pinCountInPart(hg, n, t) # 0 THEN 1
               ELSE 0
  IN SumOverNets(hg, change, incidentEdges(hg, u))

MaxNetGain(hg, u, t) ==
  SumOverNets(hg, LAMBDA n : 1, {n \in incidentEdges(hg, u) : pinCountInPart(hg, n, t) > 0})

MaxPinGain(hg, u, t) ==
  MapThenSumSet(LAMBDA v : hg.weight[v],
                {v \in UNION {hg.nets[n].pins : n \in incidentEdges(hg, u)} : hg.part[v] = t})

calculateGain(policy, hg, u, t) ==
  CASE policy = "fm" -> FMGain(hg, u, t)
    [] policy = "max_net" -> MaxNetGain(hg, u, t)
    [] policy = "max_pin" -> MaxPinGain(hg, u, t)

-----------------------------------------------------------------------------
(* How the gain of node v for block i changes with the move of u from one  *)
(* block to another, in the eyes of the code: hg is the hypergraph after   *)
(* the move, and v is another, free node.                                  *)

FMDeltaUnassigned(hg, u, to, v, i) ==
  LET change(n) ==
        LET first == pinCountInPart(hg, n, to) = 1
            c == connectivity(hg, n)
        IN (IF first /\ c = 1 /\ i # to THEN -1 ELSE 0)
           + (IF first /\ c = 2 /\ (i = to \/ pinCountInPart(hg, n, i) = 0) THEN 1 ELSE 0)
           + (IF c = 2 /\ pinCountInPart(hg, n, to) = edgeSize(hg, n) - 1 /\ hg.part[v] # to /\ i = to
              THEN 1 ELSE 0)
  IN SumOverNets(hg, change, incidentEdges(hg, u) \cap incidentEdges(hg, v))

FMDeltaAssigned(hg, u, from, to, v, i) ==
  LET part == hg.part[v]
      enters == IF part # to /\ i = to THEN 1 ELSE 0
      leaves == IF part # from /\ i = from THEN -1 ELSE 0
      change(n) ==
        LET size == edgeSize(hg, n)
            before == pinCountInPart(hg, n, from) + 1
            after == pinCountInPart(hg, n, to)
        IN (IF after = size THEN IF i # to THEN -1 ELSE 0
            ELSE IF before = size /\ i # from THEN 1 ELSE 0)
           + (IF size = 3 /\ after = 2 /\ before = 2 THEN enters + leaves
              ELSE IF after = size - 1 THEN enters
              ELSE IF before = size - 1 THEN leaves ELSE 0)
  IN SumOverNets(hg, change, incidentEdges(hg, u) \cap incidentEdges(hg, v))

MaxNetDelta(hg, u, from, to, v, i) ==
  LET change(n) ==
        (IF i = from /\ from # kUnassigned /\ pinCountInPart(hg, n, from) = 0 THEN -1 ELSE 0)
        + (IF i = to /\ pinCountInPart(hg, n, to) = 1 THEN 1 ELSE 0)
  IN SumOverNets(hg, change, incidentEdges(hg, u) \cap incidentEdges(hg, v))

MaxPinDelta(hg, u, from, to, v, i) ==
  IF incidentEdges(hg, u) \cap incidentEdges(hg, v) = {} THEN 0
  ELSE (IF i = to THEN hg.weight[u] ELSE 0)
       - (IF i = from /\ from # kUnassigned THEN hg.weight[u] ELSE 0)

Delta(policy, hg, u, from, to, v, i) ==
  CASE policy = "fm" /\ from = kUnassigned -> FMDeltaUnassigned(hg, u, to, v, i)
    [] policy = "fm" /\ from # kUnassigned -> FMDeltaAssigned(hg, u, from, to, v, i)
    [] policy = "max_net" -> MaxNetDelta(hg, u, from, to, v, i)
    [] policy = "max_pin" -> MaxPinDelta(hg, u, from, to, v, i)

-----------------------------------------------------------------------------
(* One priority queue per block.  An empty queue is never enabled, a queue *)
(* that runs empty is disabled, and an insertion does not enable it.       *)

EmptyPQ(k) == [keys |-> [i \in 0 .. k - 1 |-> [v \in {} |-> 0]], enabled |-> {}]
contained(pq, i) == DOMAIN pq.keys[i]
enablePart(pq, i) == IF contained(pq, i) = {} THEN pq ELSE [pq EXCEPT !.enabled = @ \cup {i}]
disablePart(pq, i) == [pq EXCEPT !.enabled = @ \ {i}]
insert(pq, i, new) ==
  [pq EXCEPT !.keys[i] =
     [v \in DOMAIN @ \cup DOMAIN new |-> IF v \in DOMAIN new THEN new[v] ELSE @[v]]]
remove(pq, i, u) ==
  [keys |-> [pq.keys EXCEPT ![i] = [v \in DOMAIN @ \ {u} |-> @[v]]],
   enabled |-> IF contained(pq, i) = {u} THEN pq.enabled \ {i} ELSE pq.enabled]

Tops(pq, i) == {u \in contained(pq, i) : \A v \in contained(pq, i) : pq.keys[i][v] <= pq.keys[i][u]}
topKey(pq, i) == Max({pq.keys[i][v] : v \in contained(pq, i)})

(* Every key follows its gain.                                             *)
deltaGainUpdate(policy, hg, pq, u, from, to) ==
  [pq EXCEPT !.keys =
     [i \in DOMAIN pq.keys |->
        [v \in contained(pq, i) |->
           pq.keys[i][v] + IF v = u \/ isFixed(hg, v) THEN 0
                           ELSE Delta(policy, hg, u, from, to, v, i)]]]

-----------------------------------------------------------------------------
(* Start nodes.  Nets and pins are visited in the order of their ids, as   *)
(* the arrays of a hypergraph list them.                                   *)

(* All nodes that breadth first search reaches, in its order.              *)
Visited(hg, starts, threshold) ==
  LET seen(s) == {s.order[i] : i \in DOMAIN s.order}
      push(s, n) ==
        [order |-> IF edgeSize(hg, n) <= threshold
                   THEN s.order \o SetToSortSeq(hg.nets[n].pins \ seen(s), <) ELSE s.order,
         nets |-> s.nets \cup {n}]
      visit[i \in 0 .. Cardinality(hg.nodes)] ==
        IF i = 0 THEN [order |-> starts, nets |-> {}]
        ELSE LET s == visit[i - 1]
             IN IF i > Len(s.order) THEN s
                ELSE FoldLeft(push, s, SetToSortSeq(incidentEdges(hg, s.order[i]) \ s.nets, <))
  IN visit[Cardinality(hg.nodes)].order

(* The last node visited, or any that is out of reach.                     *)
LastNodes(hg, starts, threshold) ==
  LET order == Visited(hg, starts, threshold)
      untouched == hg.nodes \ {order[i] : i \in DOMAIN order}
  IN IF untouched = {} THEN {Last(order)} ELSE untouched

(* Fixed vertices are start nodes; with none of them, the first block      *)
(* starts anywhere.  Blocks still without one start far from the others.   *)
calculateStartNodes(hg, k, threshold) ==
  LET parts == 0 .. k - 1
      fixed == [i \in parts |-> SetToSortSeq({u \in hg.nodes : hg.fixed[u] = i}, <)]
      first == IF containsFixedVertices(hg) THEN {fixed}
               ELSE {[fixed EXCEPT ![0] = <<u>>] : u \in hg.nodes}
      all(f) == FoldLeft(LAMBDA s, i : s \o f[i], <<>>, [i \in 1 .. k |-> i - 1])
      complete[n \in 0 .. k] ==
        IF n = 0 THEN first
        ELSE UNION {IF f[n - 1] # <<>> THEN {f}
                    ELSE {[f EXCEPT ![n - 1] = <<u>>] : u \in LastNodes(hg, all(f), threshold)} :
                    f \in complete[n - 1]}
  IN complete[k]

-----------------------------------------------------------------------------
(* The queue to take a node from: which move, and the queues without it.   *)
(* There is no move where no queue is enabled.                             *)

Taken(pq, i) ==
  {[node |-> u, part |-> i, gain |-> topKey(pq, i), pq |-> remove(pq, i, u)] : u \in Tops(pq, i)}
NextEnabled(pq, parts) == {i \in parts \cap pq.enabled : \A j \in parts \cap pq.enabled : i <= j}

RoundRobin(pq, current) ==
  LET later == NextEnabled(pq, {i \in DOMAIN pq.keys : i > current})
  IN UNION {Taken(pq, i) : i \in IF later # {} THEN later ELSE NextEnabled(pq, DOMAIN pq.keys)}

Global(pq) ==
  UNION {Taken(pq, i) : i \in {j \in pq.enabled : \A l \in pq.enabled : topKey(pq, l) <= topKey(pq, j)}}

(* Block by block; a node that is too heavy for the current block goes     *)
(* back into its queue.                                                    *)
Sequential(hg, pq, upper, current) ==
  LET next(q) == UNION {Taken(q, i) : i \in NextEnabled(q, {i \in DOMAIN q.keys : i > current})}
      fits(m) == partWeight(hg, current) + hg.weight[m.node] <= upper[current]
      back(m) == insert(m.pq, current, [v \in {m.node} |-> m.gain])
  IN IF current \in pq.enabled /\ partWeight(hg, current) < upper[current]
     THEN UNION {IF fits(m) THEN {m} ELSE next(back(m)) : m \in Taken(pq, current)}
     ELSE next(pq)

(* The block all nodes are in before a policy starts.                      *)
getOperatingUnassignedPart(selection) == IF selection = "round_robin" THEN kUnassigned ELSE 1

nextQueueID(selection, hg, pq, upper, current, released) ==
  CASE selection = "round_robin" -> RoundRobin(pq, current)
    [] selection = "global" \/ released -> Global(pq)
    [] OTHER -> Sequential(hg, pq, upper, current)

-----------------------------------------------------------------------------
CONSTANT Instances   (* Hypergraphs with the options of a context.         *)

VARIABLES
  hg, context, phase,
  calls,    (* The loops that are running: partitioners that repeat their runs, *)
            (* and the pool; each with the best partition it has seen.     *)
  unassigned_node,   (* The head of _unassigned_nodes once it is looked at, or NoNode. *)
  local     (* What the running partitioner keeps for itself.              *)

base_vars == <<hg, context, phase, calls, unassigned_node, local>>

Parts == 0 .. context.k - 1
None == <<>>

Fits(u, p) == partWeight(hg, p) + hg.weight[u] <= context.upper[p]
WithPart(u, p) == [hg EXCEPT !.part[u] = p]
FreeNodes == {u \in hg.nodes : ~isFixed(hg, u)}
Unassigned == {u \in FreeNodes : hg.part[u] = context.unassigned_part}

(* assignHypernodeToPartition returns true.                                *)
Assigns(u, p) ==
  /\ Fits(u, p)
  /\ hg.part[u] # kUnassigned =>
       hg.part[u] # p /\ Cardinality({v \in hg.nodes : hg.part[v] = hg.part[u]}) > 1

(* What getUnassignedNode may return: the nodes are in random order, and   *)
(* the first one that is unassigned stays the first until it is assigned.  *)
UnassignedNodes ==
  IF unassigned_node \in Unassigned THEN {unassigned_node}
  ELSE IF Unassigned = {} THEN {NoNode} ELSE Unassigned

recalculateBalanceConstraints(ctx, epsilon) ==
  [ctx EXCEPT !.upper = [i \in DOMAIN ctx.upper |-> (ctx.perfect[i] * (100 + epsilon)) \div 100]]

resetPartitioning(unassigned_part) ==
  [hg EXCEPT !.part = [u \in hg.nodes |-> IF isFixed(hg, u) THEN hg.fixed[u] ELSE unassigned_part]]

-----------------------------------------------------------------------------
(* The quality and the imbalance of a partition.  The imbalance is a       *)
(* fraction of a common denominator.                                       *)

Of(p) == [hg EXCEPT !.part = p]
Quality(p) == objective(Of(p), context.objective)
Product(f) == FoldFunction(LAMBDA x, y : x * y, 1, f)
imbalance(p) ==
  Max({partWeight(Of(p), i) * (Product(context.perfect) \div context.perfect[i]) : i \in Parts})
IsFeasible(p) == 100 * imbalance(p) <= (100 + context.epsilon) * Product(context.perfect)

(* Mutant: a cheaper partition is taken even if it is less balanced.       *)
CheaperIsBetter(p, best) ==
  \/ best = None
  \/ Quality(p) < Quality(best)
  \/ Quality(p) = Quality(best) /\ imbalance(p) < imbalance(best)

IsBetter(p, best) ==
  \/ best = None
  \/ Quality(p) < Quality(best) /\ (IsFeasible(p) \/ imbalance(p) < imbalance(best))
  \/ Quality(p) = Quality(best) /\ imbalance(p) < imbalance(best)
  \/ IsFeasible(p) /\ ~IsFeasible(best)

(* performFMRefinement: without two free nodes at the border nothing       *)
(* happens.                                                                *)
BorderNodes ==
  {u \in FreeNodes : \E n \in incidentEdges(hg, u) : connectivity(hg, n) > 1}
Refined(p) ==
  {q \in [hg.nodes -> Parts] :
     /\ \A u \in hg.nodes : isFixed(hg, u) => q[u] = p[u]
     /\ \/ q = p
        \/ Quality(q) < Quality(p) /\ IsFeasible(q)
        \/ Quality(q) <= Quality(p) /\ imbalance(q) < imbalance(p)}

Refine ==
  /\ phase = "refine"
  /\ \E q \in IF context.refinement /\ Cardinality(BorderNodes) >= 2 THEN Refined(hg.part)
              ELSE {hg.part} : hg' = Of(q)
  /\ phase' = "judge"
  /\ UNCHANGED <<context, calls, unassigned_node, local>>

-----------------------------------------------------------------------------
(* The loops.  cheapest is the quality of the cheapest feasible partition  *)
(* a loop has seen, or -1 (an auxiliary variable).                         *)

Frame(loop, algorithm) ==
  [loop |-> loop, algorithm |-> algorithm, next |-> 0, best |-> None, cheapest |-> -1]
Top == Last(calls)
WithTop(frame) == [calls EXCEPT ![Len(calls)] = frame]
algorithm == Top.algorithm

(* _partitioner_pool; those that maximise pins are skipped.                *)
PartitionerPool ==
  <<"bin_packing", "greedy_global", "greedy_round", "greedy_sequential",
    "greedy_global_maxpin", "greedy_round_maxpin", "greedy_sequential_maxpin",
    "greedy_global_maxnet", "greedy_round_maxnet", "greedy_sequential_maxnet",
    "lp", "bfs", "random">>
Skipped == {"greedy_global_maxpin", "greedy_round_maxpin", "greedy_sequential_maxpin"}
PoolOf(ctx) == SelectSeq(PartitionerPool, LAMBDA a : a \in ctx.pool \ Skipped)

BaseInit ==
  /\ \E i \in Instances :
       /\ hg = i.hypergraph
       /\ context = recalculateBalanceConstraints(i.context, i.context.epsilon)
       /\ calls = <<Frame("runs", i.context.algorithm)>>
  /\ phase = "loop" /\ unassigned_node = NoNode /\ local = None

(* A run of multipleRunsInitialPartitioning.                               *)
NextRun ==
  /\ phase = "loop" /\ Top.loop = "runs" /\ Top.next < context.nruns
  /\ LET counted == WithTop([Top EXCEPT !.next = @ + 1])
     IN IF algorithm = "pool"
        THEN calls' = Append(counted, Frame("pool", "pool")) /\ UNCHANGED phase
        ELSE calls' = counted /\ phase' = "start"
  /\ unassigned_node' = NoNode
  /\ UNCHANGED <<hg, context, local>>

NextPartitioner ==
  /\ phase = "loop" /\ Top.loop = "pool" /\ Top.next < Len(PoolOf(context))
  /\ calls' = Append(WithTop([Top EXCEPT !.next = @ + 1]),
                     Frame("runs", PoolOf(context)[Top.next + 1]))
  /\ UNCHANGED <<hg, context, phase, unassigned_node, local>>

(* The pool has run all its partitioners as often as they were to be run;  *)
(* itself it is to run once.                                               *)
PoolEnds ==
  /\ phase = "loop" /\ Top.loop = "pool" /\ Top.next = Len(PoolOf(context))
  /\ hg' = Of([u \in hg.nodes |-> IF isFixed(hg, u) THEN hg.fixed[u] ELSE Top.best[u]])
  /\ context' = [context EXCEPT !.nruns = 1]
  /\ calls' = Front(calls) /\ phase' = "judge"
  /\ UNCHANGED <<unassigned_node, local>>

RunsEnd ==
  /\ phase = "loop" /\ Top.loop = "runs" /\ Top.next >= context.nruns
  /\ hg' = Of(Top.best)
  /\ IF Len(calls) = 1 THEN phase' = "done" /\ UNCHANGED calls
     ELSE phase' = "judge" /\ calls' = Front(calls)
  /\ UNCHANGED <<context, unassigned_node, local>>

(* What the last turn of the loop has left is compared with the best.      *)
Judge ==
  /\ phase = "judge"
  /\ LET p == hg.part
         cheapest == IF IsFeasible(p) /\ (Top.cheapest = -1 \/ Quality(p) < Top.cheapest)
                     THEN Quality(p) ELSE Top.cheapest
     IN calls' = WithTop([Top EXCEPT !.best = IF IsBetter(p, @) THEN p ELSE @,
                                     !.cheapest = cheapest])
  /\ phase' = "loop" /\ local' = None /\ unassigned_node' = NoNode
  /\ UNCHANGED <<hg, context>>

BaseNext == NextRun \/ NextPartitioner \/ PoolEnds \/ RunsEnd \/ Judge \/ Refine

-----------------------------------------------------------------------------
(* A partitioner leaves every node in a block, fixed ones in theirs, and   *)
(* the context the way it found it: the others read it.                    *)
EveryNodeIsAssigned ==
  phase \in {"refine", "judge", "done"} =>
    \A u \in hg.nodes : hg.part[u] \in IF isFixed(hg, u) THEN {hg.fixed[u]} ELSE Parts
ContextIsRestored ==
  phase \in {"loop", "start", "refine", "judge", "done"} =>
    /\ context.unassigned_part = 1
    /\ context.upper = recalculateBalanceConstraints(context, context.epsilon).upper

(* Whatever order partitions are found in, a feasible one is never lost to *)
(* an infeasible one, and the best is as cheap as any feasible one seen.   *)
BestIsKept ==
  phase \in {"loop", "done"} =>
    \A i \in DOMAIN calls :
      calls[i].best # None =>
        /\ IsFeasible(calls[i].best) <=> calls[i].cheapest # -1
        /\ IsFeasible(calls[i].best) => Quality(calls[i].best) = calls[i].cheapest

(* Pooled partitioners run as often as the context says, the pool once.    *)
PoolRunsOnce ==
  \A i \in DOMAIN calls : calls[i].algorithm = "pool" /\ calls[i].loop = "runs" => calls[i].next <= 1
=============================================================================
