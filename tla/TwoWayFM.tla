------------------------------ MODULE TwoWayFM ------------------------------
(***************************************************************************)
(* Two-way FM local search (refinement/2way_fm_refiner.h) on the levels of *)
(* a bisection, with the gain cache that outlives the levels               *)
(* (2way_fm_gain_cache.h) and is repaired after each uncontraction by gain *)
(* changes computed in Hypergraph::uncontract.                             *)
(*                                                                         *)
(* The priority queue is a set of nodes with keys: a node is only ever in  *)
(* the queue of the other block, and it is active when it is in the queue. *)
(* The two blocks have the same perfect weight, so the imbalance is        *)
(* measured by the heavier block.                                          *)
(***************************************************************************)
EXTENDS KHypergraph, SequencesExt

CONSTANTS
  NetPins, Weight, EdgeWeight,  (* The input hypergraph.                   *)
  FixedVertices,                (* Sets of nodes that may be fixed.        *)
  Contractions,                 (* The contractions to be undone.          *)
  MaxPartWeight,                (* context.partition.max_part_weights      *)
  MaxFruitlessMoves,            (* Of the simple stopping rule.            *)
  IterationsPerLevel,           (* context.local_search.iterations_per_level *)
  FlowRefiner                   (* Whether a flow refiner goes first.      *)

VARIABLES
  hg, phase,
  history,          (* Contractions that are still to be undone.           *)
  refinement_nodes, changes, iteration,
  value, delta,     (* _gain_cache                                         *)
  queued, key,      (* _pq: the nodes in it and their keys.                *)
  enabled,          (* The blocks whose queue is enabled.                  *)
  marked,
  locked,           (* _locked_hes: free, a block (loose), or locked.      *)
  fully_active,     (* _he_fully_active                                    *)
  performed_moves, min_cut_index, touched,
  current_cut,
  best, initial     (* The metrics: cut and heavier block.                 *)

queue == <<queued, key, enabled>>
cache == <<value, delta>>
nets_state == <<locked, fully_active>>
search == <<performed_moves, min_cut_index, touched, current_cut, initial>>
vars == <<hg, phase, history, refinement_nodes, changes, iteration, value, delta, queued, key,
          enabled, marked, locked, fully_active, performed_moves, min_cut_index, touched,
          current_cut, best, initial>>

kNotCached == 1000   (* Any number that no gain reaches.                   *)

Free == K
Locked == K + 1

Other(p) == 1 - p
Heavier(g) == Max({g.part_weight[p] : p \in Parts})
max_allowed_part_weight(g) == MaxPartWeight + weightOfHeaviestNode(g)

computeGain(g, u) ==
  MapThenSumSet(
    LAMBDA e : (IF g.pins_in_part[e][g.part[u]] = 1 THEN g.edge_weight[e] ELSE 0)
               - (IF g.pins_in_part[e][Other(g.part[u])] = 0 THEN g.edge_weight[e] ELSE 0),
    g.nets[u])

initializeImpl(g) == [u \in Nodes |-> IF u \in g.on THEN computeGain(g, u) ELSE kNotCached]

CoarseHypergraph(fixed, part) ==
  LET g == NewHypergraph(NetPins, Weight, EdgeWeight)
      f == FoldSet(LAMBDA u, h : setFixedVertex(h, u, part[u]), g, fixed)
      c == FoldLeft(LAMBDA h, m : contract(h, m.u, m.v), f, Contractions)
  IN initializeNumCutHyperedges(AssignParts(c, part))

Init ==
  /\ \E fixed \in FixedVertices, part \in [Nodes -> Parts] :
       /\ \A i \in DOMAIN Contractions : part[Contractions[i].v] = 0
       /\ hg = CoarseHypergraph(fixed, part)
  /\ phase = "uncontract" /\ history = Contractions
  /\ refinement_nodes = <<>> /\ changes = [u |-> 0, v |-> 0] /\ iteration = 0
  /\ value = initializeImpl(hg) /\ delta = [u \in Nodes |-> 0]
  /\ queued = {} /\ key = [u \in Nodes |-> 0] /\ enabled = {} /\ marked = {}
  /\ locked = [e \in Nets |-> Free] /\ fully_active = {}
  /\ performed_moves = <<>> /\ min_cut_index = 0 /\ touched = 0
  /\ best = [cut |-> hyperedgeCut(hg), heavier |-> Heavier(hg)] /\ current_cut = best.cut /\ initial = best

-----------------------------------------------------------------------------
(* Uncontraction with gain changes.                                        *)

(* The nets of u before the uncontraction, by what happens to them: v was  *)
(* cut off, v's slot was reused, or the net never contained v.             *)
GainChanges(g, u, v) ==
  LET p == g.part[u]
      w(E) == MapThenSumSet(LAMBDA e : g.edge_weight[e], E)
      alone(E) == w({e \in E : g.pins_in_part[e][p] = 1})
      lost(E) == LET C == {e \in E : g.connectivity[e] > 1} IN w(E \ C) - alone(C)
      cut_off == CutOffPins(g, u, v)
  IN [u |-> lost(ReusedSlots(g, u, v)) - alone(cut_off),
      v |-> lost(g.nets[u] \ g.nets[v]) - alone(cut_off)]

Uncontract ==
  /\ phase = "uncontract" /\ history # <<>>
  /\ \E m \in {Last(history)} :
       /\ changes' = GainChanges(hg, m.u, m.v)
       /\ hg' = uncontract(hg, m.u, m.v)
       /\ refinement_nodes' = <<m.u, m.v>>
  /\ history' = Front(history)
  /\ phase' = "refine" /\ iteration' = 0
  /\ UNCHANGED <<cache, queue, marked, nets_state, search, best>>

updateGainCacheAfterUncontraction ==
  LET u == refinement_nodes[1]
      v == refinement_nodes[2]
  IN IF value[v] = kNotCached /\ value[u] # kNotCached
       THEN [value EXCEPT ![v] = value[u] + changes.v, ![u] = @ + changes.u] ELSE value

-----------------------------------------------------------------------------
(* The search.                                                             *)

(* activate() for the nodes of S.                                          *)
Activated(g, S) == {u \in S : isBorderNode(g, u) /\ ~isFixedVertex(g, u)}
Enabling(g, S) ==
  {p \in Parts : /\ \E u \in S : g.part[u] = Other(p)
                 /\ g.part_weight[p] < max_allowed_part_weight(g)}

ActivateRefinementNodes(g) ==
  LET nodes == ToSet(refinement_nodes)
      adjacent == UNION {pins(g, e) : e \in UNION {g.nets[u] : u \in nodes \cap g.fixed}}
  IN Activated(g, nodes \cup adjacent)

StartSearch ==
  /\ phase \in {"refine", "refine_fm"}
  /\ value' = updateGainCacheAfterUncontraction
  /\ queued' = ActivateRefinementNodes(hg)
  /\ key' = [u \in Nodes |-> IF u \in queued' THEN value'[u] ELSE 0]
  /\ enabled' = Enabling(hg, queued')
  /\ marked' = {} /\ locked' = [e \in Nets |-> Free] /\ fully_active' = {}
  /\ performed_moves' = <<>> /\ min_cut_index' = 0 /\ touched' = 0
  /\ current_cut' = best.cut /\ initial' = best
  /\ phase' = "search"
  /\ UNCHANGED <<hg, history, refinement_nodes, changes, iteration, delta, best>>

(* What the move of a node out of `from' changes in the gain of pin u of   *)
(* net e; g is the hypergraph after the move.                              *)
GainDelta(g, e, from, u) ==
  LET w == g.edge_weight[e]
      left == g.pins_in_part[e][from]
      there == g.pins_in_part[e][Other(from)]
      stays == g.part[u] = from
  IN CASE g.size[e] = 2             -> IF stays THEN 2 * w ELSE -2 * w
       [] g.size[e] # 2 /\ there = 1 -> w
       [] g.size[e] # 2 /\ there # 1 /\ left = 0 -> -w
       [] OTHER -> IF stays THEN IF left = 1 THEN w ELSE 0
                   ELSE IF there = 2 THEN -w ELSE 0

GainDeltas(g, E, from, u) ==
  MapThenSumSet(LAMBDA e : GainDelta(g, e, from, u), {e \in E : u \in pins(g, e)})

(* The nets the move gives a full update, unless all pins are known to be  *)
(* active and no gain changes.                                             *)
FullUpdates(g, moved, from) ==
  {e \in g.nets[moved] :
     /\ locked[e] \notin {Locked, Other(from)}
     /\ \/ g.pins_in_part[e][from] \in {0, 1}
        \/ g.pins_in_part[e][Other(from)] \in {1, 2}
        \/ e \notin fully_active}

LockedAfter(g, moved, to) ==
  [e \in Nets |-> IF e \notin g.nets[moved] \/ locked[e] \in {Locked, to} THEN locked[e]
                  ELSE IF locked[e] = Free THEN to ELSE Locked]

(* Pins of fully updated nets that are neither active nor marked.          *)
ToActivate(g, E, moved) == UNION {pins(g, e) : e \in E} \ (queued \cup marked \cup {moved})

(* num_active_pins of a net counts pins that an earlier net of the move    *)
(* has put on the list only once, for that net.                            *)
FullyActiveAfter(g, E, moved, order) ==
  LET earlier(e) ==
        UNION {pins(g, f) : f \in {f \in E : \E i, j \in DOMAIN order :
                                               i < j /\ order[i] = f /\ order[j] = e}}
      count(e) == 1 + Cardinality(pins(g, e) \cap (queued \ {moved}))
                    + Cardinality(ToActivate(g, {e}, moved) \ earlier(e))
  IN (fully_active \ E) \cup {e \in E : count(e) = g.size[e]}

(* The nodes deleteMax may return: ties are broken by the heap.            *)
MaxGainNodes ==
  LET open == {u \in queued : Other(hg.part[u]) \in enabled}
  IN {u \in open : \A v \in open : key[v] <= key[u]}

searchShouldStop == touched >= MaxFruitlessMoves

(* updatePQpartState, with the queues of q.                                *)
updatePQpartState(g, q, from) ==
  LET nonempty == {p \in Parts : \E u \in q : g.part[u] = Other(p)}
      room == {p \in Parts : g.part_weight[p] < max_allowed_part_weight(g)}
  IN ((enabled \ ({Other(from)} \ room)) \cup ({from} \cap room)) \cap nonempty

(* Mutant: a cheaper bisection is taken although a block is too heavy.     *)
AnyImprovement(g, from, cut) == g.part_size[from] > 0 /\ cut < best.cut
MoveIsFeasible(g, from, cut) ==
  /\ g.part_size[from] > 0
  /\ \/ cut < best.cut /\ \A p \in Parts : g.part_weight[p] <= MaxPartWeight
     \/ Heavier(g) < best.heavier /\ cut <= best.cut

Move(moved, order) ==
  /\ phase = "search" /\ MaxGainNodes # {} /\ ~searchShouldStop
  /\ moved \in MaxGainNodes /\ order \in SetToSeqs(hg.nets[moved])
  /\ \E from \in {hg.part[moved]} : \E g \in {changeNodePart(hg, moved, from, Other(from))} :
     \E E \in {FullUpdates(g, moved, from)} :
       LET q == queued \ {moved}
           new == Activated(g, ToActivate(g, E, moved))
           internal == MayHaveBecomeInternal(hg, moved, from, Other(from)) \cap (q \cup new)
           left == (q \cup new) \ internal
           to_update == {e \in g.nets[moved] : locked[e] # Locked}
           cut == current_cut - key[moved]
           improved == MoveIsFeasible(g, from, cut)
       IN /\ hg' = g
          /\ value' = [u \in Nodes |->
                         IF u = moved THEN -value[u]
                         ELSE value[u] + GainDeltas(g, g.nets[moved], from, u)]
          /\ delta' = [u \in Nodes |->
                         IF improved THEN 0
                         ELSE IF u = moved THEN delta[u] + 2 * value[u]
                         ELSE delta[u] - GainDeltas(g, g.nets[moved], from, u)]
          /\ queued' = left
          /\ key' = [u \in Nodes |->
                       IF u \notin left THEN 0
                       ELSE IF u \in new THEN value'[u]
                       ELSE key[u] + GainDeltas(g, to_update, from, u)]
          /\ enabled' = {p \in updatePQpartState(g, q, from) \cup Enabling(g, new) :
                           \E u \in left : g.part[u] = Other(p)}
          /\ marked' = marked \cup {moved}
          /\ locked' = LockedAfter(g, moved, Other(from))
          /\ fully_active' = FullyActiveAfter(g, E, moved, order)
          /\ performed_moves' = Append(performed_moves, moved)
          /\ current_cut' = cut
          /\ IF improved
               THEN /\ best' = [cut |-> cut, heavier |-> Heavier(g)]
                    /\ min_cut_index' = Len(performed_moves')
                    /\ touched' = 0
               ELSE touched' = touched + 1 /\ UNCHANGED <<best, min_cut_index>>
  /\ UNCHANGED <<phase, history, refinement_nodes, changes, iteration, initial>>

StopSearch ==
  /\ phase = "search" /\ (MaxGainNodes = {} \/ searchShouldStop)
  /\ phase' = "rollback"
  /\ UNCHANGED <<hg, history, refinement_nodes, changes, iteration, cache, queue, marked,
                 nets_state, search, best>>

(* Mutant: last_index is not decremented.                                  *)
UndoLastMoveForEver ==
  /\ phase = "rollback" /\ Len(performed_moves) > min_cut_index
  /\ \E u \in {Last(performed_moves)} :
       hg' = changeNodePart(hg, u, hg.part[u], Other(hg.part[u]))
  /\ UNCHANGED <<phase, history, refinement_nodes, changes, iteration, cache, queue, marked,
                 nets_state, search, best>>
(* rollback() undoes the moves after the best one, last move first.        *)
Rollback ==
  /\ phase = "rollback" /\ Len(performed_moves) > min_cut_index
  /\ \E u \in {Last(performed_moves)} :
       hg' = changeNodePart(hg, u, hg.part[u], Other(hg.part[u]))
  /\ performed_moves' = Front(performed_moves)
  /\ UNCHANGED <<phase, history, refinement_nodes, changes, iteration, cache, queue, marked,
                 nets_state, min_cut_index, touched, current_cut, best, initial>>

rollbackDelta == [u \in Nodes |-> IF value[u] # kNotCached THEN value[u] + delta[u] ELSE value[u]]

(* CutDecreasedOrInfeasibleImbalanceDecreased                              *)
improvementFound ==
  \/ best.cut < initial.cut
  \/ initial.heavier > MaxPartWeight /\ best.heavier < initial.heavier

(* refineImpl returns; performLocalSearch repeats it on the same nodes     *)
(* while it improves.                                                      *)
EndSearch ==
  /\ phase = "rollback" /\ Len(performed_moves) = min_cut_index
  /\ value' = rollbackDelta /\ delta' = [u \in Nodes |-> 0]
  /\ queued' = {} /\ enabled' = {} /\ marked' = {} /\ key' = [u \in Nodes |-> 0]
  /\ locked' = [e \in Nets |-> Free] /\ fully_active' = {}
  /\ performed_moves' = <<>> /\ min_cut_index' = 0 /\ touched' = 0
  /\ current_cut' = best.cut /\ initial' = best
  /\ changes' = [u |-> 0, v |-> 0]
  /\ iteration' = iteration + 1
  /\ phase' = IF iteration + 1 < IterationsPerLevel /\ improvementFound THEN "refine"
              ELSE IF history = <<>> THEN "done" ELSE "uncontract"
  /\ UNCHANGED <<hg, history, refinement_nodes, best>>

-----------------------------------------------------------------------------
(* TwoWayFMFlowRefiner: moves of a flow refiner go before the search, and  *)
(* into the cache that the search relies on.  All that is assumed of them  *)
(* is that they improve the bisection within balance.                      *)

CacheAfterMove(val, g, moved, from) ==
  [u \in Nodes |-> IF u = moved THEN -val[u]
                   ELSE val[u] + GainDeltas(g, g.nets[moved], from, u)]

performMovesAndUpdateCache ==
  /\ FlowRefiner /\ phase = "refine"
  /\ \E u, w \in hg.on \ hg.fixed :
     \E g1 \in {changeNodePart(hg, u, hg.part[u], Other(hg.part[u]))} :
     \E g2 \in {IF w = u THEN g1 ELSE changeNodePart(g1, w, hg.part[w], Other(hg.part[w]))} :
     \E val1 \in {CacheAfterMove(updateGainCacheAfterUncontraction, g1, u, hg.part[u])} :
       /\ hyperedgeCut(g2) < best.cut /\ Heavier(g2) <= MaxPartWeight
       /\ hg' = g2
       /\ value' = IF w = u THEN val1 ELSE CacheAfterMove(val1, g2, w, hg.part[w])
       /\ best' = [cut |-> hyperedgeCut(g2), heavier |-> Heavier(g2)]
  /\ changes' = [u |-> 0, v |-> 0]
  /\ phase' = "refine_fm"
  /\ UNCHANGED <<history, refinement_nodes, iteration, delta, queue, marked, nets_state, search>>

Next ==
  \/ Uncontract \/ performMovesAndUpdateCache \/ StartSearch \/ StopSearch \/ Rollback \/ EndSearch
  \/ \E u \in Nodes : \E order \in SetToSeqs(hg.nets[u]) : Move(u, order)

(* One thread runs to the end.                                             *)
Spec == Init /\ [][Next]_vars /\ WF_vars(Next)

-----------------------------------------------------------------------------
(* Outside of a rollback the cache holds the gain of every node, whichever *)
(* of full, delta and no queue update a net got, after uncontractions and  *)
(* rollbacks (ASSERT_THAT_GAIN_CACHE_IS_VALID).                            *)
GainsAreRight ==
  phase \in {"uncontract", "refine_fm", "search", "done"} =>
    \A u \in hg.on : value[u] = computeGain(hg, u)

(* The key of a node in the queue is its gain although locked nets update  *)
(* no keys.                                                                *)
KeysAreGains == phase = "search" => \A u \in queued : key[u] = computeGain(hg, u)

(* Every free border node next to a moved node is in the queue or has      *)
(* moved itself, although nets known to be fully active are skipped, nets  *)
(* in the loose state activate nobody, and nodes that became internal were *)
(* taken out; and no internal node is in the queue.                        *)
NeighboursAreQueued ==
  phase = "search" =>
    /\ queued \cap marked = {} /\ \A u \in queued : isBorderNode(hg, u)
    /\ \A m \in marked : \A e \in hg.nets[m] : \A u \in pins(hg, e) :
         isBorderNode(hg, u) /\ ~isFixedVertex(hg, u) => u \in queued \cup marked

(* A queue is enabled just when it holds a node and its block has room     *)
(* (asserted at the end of updateNeighbours).                              *)
QueuesAreEnabled ==
  phase = "search" =>
    enabled = {p \in Parts : /\ \E u \in queued : hg.part[u] = Other(p)
                             /\ hg.part_weight[p] < max_allowed_part_weight(hg)}

(* The cut is tracked by subtracting gains, and a rollback ends at the     *)
(* bisection whose metrics were kept.                                      *)
MetricsAreRight ==
  /\ phase = "search" => current_cut = hyperedgeCut(hg)
  /\ phase \notin {"search", "rollback"} =>
       best = [cut |-> hyperedgeCut(hg), heavier |-> Heavier(hg)]

(* The bisection a rollback would leave now, on the input hypergraph.      *)
BestPartition ==
  LET undone == {performed_moves[i] : i \in (min_cut_index + 1) .. Len(performed_moves)}
      coarse == [u \in Nodes |-> IF u \in undone THEN Other(hg.part[u]) ELSE hg.part[u]]
  IN FoldRight(LAMBDA m, p : [p EXCEPT ![m.v] = p[m.u]], history, coarse)

(* The whole descent through the levels is a local search on the input     *)
(* hypergraph: uncontractions, tentative moves and rollbacks leave its     *)
(* partition alone, and each accepted prefix of moves improves it.         *)
Abstract == INSTANCE LocalSearch
  WITH Blocks <- Parts, Pins <- [e \in Nets |-> ToSet(NetPins[e])], fixed <- hg.fixed,
       Objective <- "cut", partition <- BestPartition
ImplementsLocalSearch == Abstract!Spec

(* The refiner comes to rest on the input level.                           *)
Terminates == <>(phase = "done")
=============================================================================
