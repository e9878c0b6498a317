------------------------------ MODULE KwaySearch ------------------------------
(***************************************************************************)
(* What the two direct k-way FM local searches share (refinement/          *)
(* fm_refiner_base.h, kway_fm_gain_cache.h): the gains of a node towards   *)
(* the parts its nets connect are cached, a priority queue per part holds  *)
(* the moves of active nodes, and the moves after the best one are undone  *)
(* together with what they changed in the cache.  KwayFM searches for the  *)
(* (lambda - 1) objective, KwayCutFM for the cut.                          *)
(*                                                                         *)
(* The nets of a moved node are updated one after the other, but the       *)
(* update of each of them only reads the counts after the move and adds to *)
(* entries, so the updates of one move are one step.                       *)
(***************************************************************************)
EXTENDS KHypergraph, SequencesExt

CONSTANTS
  Objective,                    (* "km1" or "cut"                          *)
  NetPins, Weight, EdgeWeight,  (* The input hypergraph.                   *)
  FixedVertices,                (* Sets of nodes that may be fixed.        *)
  Contractions,                 (* The contractions to be undone.          *)
  InitialPartitions,            (* Partitions of the coarsest level.       *)
  MaxPartWeight,                (* context.partition.max_part_weights      *)
  HyperedgeSizeThreshold,       (* Larger nets activate nobody.            *)
  MaxFruitlessMoves, IterationsPerLevel,
  FlowRefiner                   (* Whether a flow refiner goes first.      *)

VARIABLES
  hg, phase,
  history, refinement_nodes, iteration,
  value,            (* _gain_cache: per node and part a gain or kNotCached. *)
  deltas,           (* The rollback log of each entry.                     *)
  keys,             (* _pq: per active node its parts with their keys.     *)
  enabled,          (* The parts whose queue is enabled.                   *)
  active, marked,
  performed_moves, min_cut_index, touched,
  current_cost,
  best, initial     (* The metrics: cost and heaviest block.               *)

levels == <<history, refinement_nodes, iteration>>
search == <<keys, enabled, active, marked, performed_moves, min_cut_index, touched, current_cost>>
search_vars == <<hg, phase, history, refinement_nodes, iteration, value, deltas, keys, enabled, active,
                 marked, performed_moves, min_cut_index, touched, current_cost, best, initial>>

kNotCached == 1000   (* Any number that no gain reaches.                   *)
Nothing == <<>>      (* The function with empty domain.                    *)

Cost(g) == IF Objective = "km1" THEN km1(g) ELSE hyperedgeCut(g)
Heaviest(g) == Max({g.part_weight[p] : p \in Parts})
isConnectedToPart(g, u, p) == \E e \in g.nets[u] : g.pins_in_part[e][p] > 0
hasRoom(g, p) == g.part_weight[p] < MaxPartWeight

(* The gain of moving node u to part p.                                    *)
Km1Gain(g, u, p) ==
  MapThenSumSet(
    LAMBDA e : (IF g.pins_in_part[e][g.part[u]] = 1 THEN g.edge_weight[e] ELSE 0)
               - (IF g.pins_in_part[e][p] = 0 THEN g.edge_weight[e] ELSE 0),
    g.nets[u])
CutGain(g, u, p) ==
  MapThenSumSet(
    LAMBDA e : CASE g.connectivity[e] = 1 -> -g.edge_weight[e]
                 [] /\ g.connectivity[e] # 1
                    /\ g.pins_in_part[e][g.part[u]] = 1 /\ g.pins_in_part[e][p] = g.size[e] - 1 ->
                      g.edge_weight[e]
                 [] OTHER -> 0,
    g.nets[u])
gainInducedByHypergraph(g, u, p) == IF Objective = "km1" THEN Km1Gain(g, u, p) ELSE CutGain(g, u, p)

(* The entries of a node: the other parts its nets connect.  For the cut,  *)
(* they are added up in one pass over the nets.                            *)
Entries(g, u, gain(_)) ==
  [p \in Parts |-> IF p # g.part[u] /\ isConnectedToPart(g, u, p) THEN gain(p) ELSE kNotCached]
CutGainInOnePass(g, u, p) ==
  LET weight(nets) == MapThenSumSet(LAMBDA e : g.edge_weight[e], nets)
  IN weight({e \in g.nets[u] : g.connectivity[e] = 2 /\ g.pins_in_part[e][p] = g.size[e] - 1})
     - weight({e \in g.nets[u] : g.connectivity[e] = 1})
initializeGainCacheFor(g, u) ==
  Entries(g, u, LAMBDA p : IF Objective = "km1" THEN Km1Gain(g, u, p) ELSE CutGainInOnePass(g, u, p))
initializeGainCache(g) ==
  [u \in Nodes |-> IF u \in g.on THEN initializeGainCacheFor(g, u)
                   ELSE [p \in Parts |-> kNotCached]]
adjacentParts(val, u) == {p \in Parts : val[u][p] # kNotCached}
NoDeltas == [u \in Nodes |-> [p \in Parts |-> <<>>]]

CoarseHypergraph(fixed, part) ==
  LET g == NewHypergraph(NetPins, Weight, EdgeWeight)
      f == FoldSet(LAMBDA u, h : setFixedVertex(h, u, part[u]), g, fixed)
      c == FoldLeft(LAMBDA h, m : contract(h, m.u, m.v), f, Contractions)
  IN initializeNumCutHyperedges(AssignParts(c, part))

SearchInit ==
  /\ \E fixed \in FixedVertices, part \in InitialPartitions : hg = CoarseHypergraph(fixed, part)
  /\ phase = "uncontract" /\ history = Contractions
  /\ refinement_nodes = <<>> /\ iteration = 0
  /\ value = initializeGainCache(hg) /\ deltas = NoDeltas
  /\ keys = [u \in Nodes |-> Nothing] /\ enabled = {} /\ active = {} /\ marked = {}
  /\ performed_moves = <<>> /\ min_cut_index = 0 /\ touched = 0
  /\ best = [cost |-> Cost(hg), heaviest |-> Heaviest(hg)] /\ current_cost = best.cost /\ initial = best

Uncontract ==
  /\ phase = "uncontract" /\ history # <<>>
  /\ \E m \in {Last(history)} :
       /\ hg' = uncontract(hg, m.u, m.v)
       /\ refinement_nodes' = <<m.u, m.v>>
  /\ history' = Front(history)
  /\ phase' = "refine" /\ iteration' = 0
  /\ UNCHANGED <<value, deltas, search, best, initial>>

-----------------------------------------------------------------------------
(* The cache after a move, and what the log gets for each entry: nodes in  *)
(* gone lose their entry for `from', nodes in new get one for `to', others *)
(* change by delta.  The last two steps of the moved node are              *)
(* updateFromAndToPartOfMovedHN.                                           *)
EntryUpdates(val, g, moved, from, to, gone, new, delta(_, _)) ==
  LET update(u, p) ==
        IF u = moved /\ p = from
          THEN IF isConnectedToPart(g, moved, from)
               THEN [value |-> -val[u][to],
                     log |-> <<[delta |-> kNotCached + val[u][to], action |-> "do_remove"]>>]
               ELSE [value |-> kNotCached, log |-> <<>>]
        ELSE IF u = moved /\ p = to
          THEN [value |-> kNotCached, log |-> <<[delta |-> val[u][to], action |-> "do_add"]>>]
        ELSE IF u \in new /\ p = to
          THEN LET gain == gainInducedByHypergraph(g, u, to)
               IN [value |-> gain, log |-> <<[delta |-> kNotCached - gain, action |-> "do_remove"]>>]
        ELSE IF val[u][p] = kNotCached THEN [value |-> kNotCached, log |-> <<>>]
        ELSE LET d == delta(u, p)
                 log == IF d = 0 THEN <<>> ELSE <<[delta |-> -d, action |-> "do_nothing"]>>
             IN IF u \in gone /\ p = from
                  THEN [value |-> kNotCached,
                        log |-> Append(log, [delta |-> val[u][p] + d, action |-> "do_add"])]
                  ELSE [value |-> val[u][p] + d, log |-> log]
      touchable == UNION {pins(g, e) : e \in g.nets[moved]}
  IN [u \in Nodes |->
        IF u \in touchable THEN [p \in Parts |-> update(u, p)]
        ELSE [p \in Parts |-> [value |-> val[u][p], log |-> <<>>]]]

ValueAfter(updates) == [u \in Nodes |-> [p \in Parts |-> updates[u][p].value]]
RollbackEntry(val, log) ==
  FoldRight(LAMBDA r, v : IF v # kNotCached
                            THEN IF r.action = "do_remove" THEN kNotCached ELSE v + r.delta
                            ELSE r.delta,
            log, val)

(* A move before which the node may have no entry for its new part.        *)
CacheForMove(val, g, u, to) ==
  [val EXCEPT ![u][to] = IF @ = kNotCached THEN gainInducedByHypergraph(g, u, to) ELSE @]

-----------------------------------------------------------------------------
(* The search.                                                             *)

(* Nodes that activate() takes, with their entries as keys, and the parts  *)
(* whose queues that enables.                                              *)
Activated(g, S) == {u \in S : isBorderNode(g, u) /\ ~isFixedVertex(g, u)}
KeysOf(val, u) == [p \in adjacentParts(val, u) |-> val[u][p]]
QueuedParts(ks) == UNION {DOMAIN ks[u] : u \in Nodes}

StartOfSearch ==
  /\ phase \in {"refine", "refine_fm"}
  /\ LET nodes == ToSet(refinement_nodes)
         adjacent == UNION {pins(hg, e) : e \in UNION {hg.nets[u] : u \in nodes \cap hg.fixed}}
     IN /\ value' = [u \in Nodes |-> IF u \in nodes THEN initializeGainCacheFor(hg, u) ELSE value[u]]
        /\ active' = Activated(hg, nodes \cup adjacent)
        /\ keys' = [u \in Nodes |-> IF u \in active' THEN KeysOf(value', u) ELSE Nothing]
        /\ enabled' = {p \in QueuedParts(keys') : hasRoom(hg, p)}
  /\ marked' = {}
  /\ performed_moves' = <<>> /\ min_cut_index' = 0 /\ touched' = 0
  /\ current_cost' = best.cost /\ initial' = best
  /\ phase' = "search"
  /\ UNCHANGED <<hg, levels, deltas, best>>

(* The moves deleteMax may return: ties are broken by the heap.            *)
MaxGainMoves ==
  LET open == {m \in [node : active, to : enabled] : m.to \in DOMAIN keys[m.node]}
  IN {m \in open : \A n \in open : keys[n.node][n.to] <= keys[m.node][m.to]}

searchShouldStop == touched >= MaxFruitlessMoves

moveIsFeasible(g, u, to) ==
  g.part_weight[to] + g.weight[u] <= MaxPartWeight /\ g.part_size[g.part[u]] - 1 # 0

(* The parts that leave the queues of a node and the one that comes.       *)
StaleMoves(updates, u, from) ==
  IF keys[u] # Nothing /\ updates[u][from].value = kNotCached THEN {from} ELSE {}
NewMoves(updates, u, to) ==
  IF value[u][to] = kNotCached /\ updates[u][to].value # kNotCached THEN {to} ELSE {}

(* The keys of a node that stays active.                                   *)
KeysAfter(updates, u, from, to, delta(_)) ==
  LET new == NewMoves(updates, u, to)
  IN [p \in (DOMAIN keys[u] \ StaleMoves(updates, u, from)) \cup new |->
        IF p \in new THEN updates[u][p].value ELSE keys[u][p] + delta(p)]

(* updatePQpartState, and the insertions that open a queue; a queue that   *)
(* runs empty is closed.                                                   *)
updatePQpartState(g, from, to, ks) ==
  (enabled \ (IF hasRoom(g, to) THEN {} ELSE {to}))
    \cup (IF hasRoom(g, from) THEN {from} \cap QueuedParts(ks) ELSE {})
InsertedParts(g, before, after) ==
  {p \in Parts : hasRoom(g, p) /\ \E u \in Nodes : p \in DOMAIN after[u] \ DOMAIN before[u]}

Improves(cost, heaviest) ==
  \/ cost < best.cost /\ heaviest <= MaxPartWeight
  \/ heaviest < best.heaviest /\ cost <= best.cost

(* Node moved, the best of all, goes to part `to'; updates are those of    *)
(* the cache, KeysIn the keys of the nodes that stay active, new are the   *)
(* nodes that become active.                                               *)
BestMove(node, to) ==
  phase = "search" /\ ~searchShouldStop /\ [node |-> node, to |-> to] \in MaxGainMoves
Moves(g, moved, from, to, updates, stay, new, KeysIn(_)) ==
  LET before == [keys EXCEPT ![moved] = Nothing]
      cost == current_cost - keys[moved][to]
      improved == Improves(cost, Heaviest(g))
  IN /\ hg' = g
     /\ value' = ValueAfter(updates)
     /\ deltas' = IF improved THEN NoDeltas
                  ELSE [u \in Nodes |-> [p \in Parts |-> deltas[u][p] \o updates[u][p].log]]
     /\ active' = stay \cup new
     /\ keys' = [u \in Nodes |->
                   IF u \in new THEN KeysOf(value', u) ELSE IF u \in stay THEN KeysIn(u) ELSE Nothing]
     /\ enabled' = (updatePQpartState(g, from, to, before) \cup InsertedParts(g, before, keys'))
                     \cap QueuedParts(keys')
     /\ marked' = marked \cup {moved}
     /\ performed_moves' = Append(performed_moves, [node |-> moved, from |-> from, to |-> to])
     /\ current_cost' = cost
     /\ IF improved
          THEN /\ best' = [cost |-> cost, heaviest |-> Heaviest(g)]
               /\ min_cut_index' = Len(performed_moves')
               /\ touched' = 0
          ELSE touched' = touched + 1 /\ UNCHANGED <<best, min_cut_index>>
     /\ UNCHANGED <<phase, levels, initial>>

(* The best move does not fit: the node stays, and new are the nodes that  *)
(* become active.                                                          *)
Stays(node, new) ==
  LET before == [keys EXCEPT ![node] = Nothing]
  IN /\ active' = (active \ {node}) \cup new
     /\ keys' = [u \in Nodes |-> IF u \in new THEN KeysOf(value, u) ELSE before[u]]
     /\ enabled' = (enabled \cup InsertedParts(hg, before, keys')) \cap QueuedParts(keys')
     /\ marked' = marked \cup {node}
     /\ touched' = touched + 1
     /\ UNCHANGED <<hg, phase, levels, value, deltas, performed_moves, min_cut_index, current_cost,
                    best, initial>>

improvementFound ==
  \/ best.cost < initial.cost
  \/ initial.heaviest > MaxPartWeight /\ best.heaviest < initial.heaviest

SearchEnds == MaxGainMoves = {} \/ searchShouldStop

(* Mutant: the best move is undone as well.                                *)
MovesFromBest == SubSeq(performed_moves, Max({min_cut_index, 1}), Len(performed_moves))
MovesAfterBest == SubSeq(performed_moves, min_cut_index + 1, Len(performed_moves))

(* The queue is empty or the search stops: the moves after the best one    *)
(* are undone, last move first, and so are their changes of the cache.     *)
EndOfSearch ==
  /\ phase = "search" /\ SearchEnds
  /\ hg' = FoldRight(LAMBDA m, g : changeNodePart(g, m.node, m.to, m.from),
                     MovesAfterBest, hg)
  /\ value' = [u \in Nodes |-> [p \in Parts |-> RollbackEntry(value[u][p], deltas[u][p])]]
  /\ deltas' = NoDeltas
  /\ keys' = [u \in Nodes |-> Nothing] /\ enabled' = {} /\ active' = {} /\ marked' = {}
  /\ performed_moves' = <<>> /\ min_cut_index' = 0 /\ touched' = 0
  /\ current_cost' = best.cost /\ initial' = best
  /\ iteration' = iteration + 1
  /\ phase' = IF iteration + 1 < IterationsPerLevel /\ improvementFound THEN "refine"
              ELSE IF history = <<>> THEN "done" ELSE "uncontract"
  /\ UNCHANGED <<history, refinement_nodes, best>>

-----------------------------------------------------------------------------
(* KWayFMFlowRefiner: the flow refiner's moves are repeated on the cache   *)
(* before the search.  All that is assumed of them is that they improve    *)
(* the partition within balance.  A move to a part that no net of the node *)
(* connects gets an entry first.  Cache(val, g, u, to, first) is the cache *)
(* after a move in hypergraph g, with the node and part of the first move  *)
(* of the list or None.                                                    *)
FlowMoves(Cache(_, _, _, _, _)) ==
  /\ FlowRefiner /\ phase = "refine"
  /\ \E u, w \in hg.on \ hg.fixed, p, q \in Parts :
       /\ p # hg.part[u] /\ q # hg.part[w] /\ (u = w => p = q)
       /\ \E g1 \in {changeNodePart(hg, u, hg.part[u], p)} :
          \E g2 \in {IF w = u THEN g1 ELSE changeNodePart(g1, w, hg.part[w], q)} :
            /\ Cost(g2) < best.cost /\ Heaviest(g2) <= MaxPartWeight
            /\ hg' = g2
            /\ best' = [cost |-> Cost(g2), heaviest |-> Heaviest(g2)]
            /\ LET fresh == [n \in Nodes |-> IF n \in ToSet(refinement_nodes)
                                             THEN initializeGainCacheFor(hg, n) ELSE value[n]]
               IN \E val1 \in {Cache(fresh, hg, u, p, Nothing)} :
                    value' = IF w = u THEN val1 ELSE Cache(val1, g1, w, q, <<u, p>>)
  /\ phase' = "refine_fm"
  /\ UNCHANGED <<levels, deltas, search, initial>>

-----------------------------------------------------------------------------
(* The cache holds exactly the gains towards the other parts that the nets *)
(* of a node connect, whichever way a move treated each net, after         *)
(* uncontractions, rollbacks and moves of the flow refiner                 *)
(* (ASSERT_THAT_GAIN_CACHE_IS_VALID).                                      *)
Gains(u) == Entries(hg, u, LAMBDA p : gainInducedByHypergraph(hg, u, p))
CacheIsValid ==
  \A u \in hg.on : \/ value[u] = Gains(u)
                   \/ phase = "refine" /\ u \in ToSet(refinement_nodes)

(* What is in the queues: for each active node exactly its entries with    *)
(* their gains as keys, no move that became stale, none of nodes that were *)
(* taken out, although locked nets update no keys (the *)
(* checks at the end of updateNeighbours).                                 *)
QueueHoldsGains ==
  phase = "search" =>
    \A u \in Nodes :
      keys[u] = IF u \in active THEN [p \in {q \in Parts : Gains(u)[q] # kNotCached} |-> Gains(u)[p]]
                ELSE Nothing

(* A part is open exactly when a move leads to it and it has room.         *)
OpenPartsHaveRoom ==
  phase = "search" => enabled = {p \in QueuedParts(keys) : hasRoom(hg, p)}

(* The objective that is tracked by subtracting gains is the objective,    *)
(* and a rollback returns to the partition whose metrics were kept.        *)
ObjectiveIsTracked ==
  /\ phase = "search" => current_cost = Cost(hg)
  /\ phase # "search" => best = [cost |-> Cost(hg), heaviest |-> Heaviest(hg)]

(* No block is emptied (partSize(from) - 1 != 0).                          *)
BlocksStayInUse ==
  phase # "refine_fm" => \A m \in ToSet(performed_moves) : hg.part_size[m.from] > 0

(* The partition of the input hypergraph that a rollback would leave now.  *)
BestPartition ==
  LET undone == SubSeq(performed_moves, min_cut_index + 1, Len(performed_moves))
      coarse == FoldRight(LAMBDA m, p : [p EXCEPT ![m.node] = m.from], undone, hg.part)
  IN FoldRight(LAMBDA m, p : [p EXCEPT ![m.v] = p[m.u]], history, coarse)

(* The descent through the levels is a local search on the partition of    *)
(* the input hypergraph.                                                   *)
Abstract == INSTANCE LocalSearch
  WITH Blocks <- Parts, Pins <- [e \in Nets |-> ToSet(NetPins[e])], fixed <- hg.fixed,
       partition <- BestPartition
ImplementsLocalSearch == Abstract!Spec
=============================================================================
