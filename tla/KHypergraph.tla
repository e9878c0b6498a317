---------------------------- MODULE KHypergraph ----------------------------
(***************************************************************************)
(* KaHyPar's dynamic hypergraph (datastructure/hypergraph.h), the one      *)
(* object that all phases of the partitioner change in place.  A state of  *)
(* it is a record hg; every operation is an operator that returns the next *)
(* record.                                                                 *)
(*                                                                         *)
(*   slots[e]      the part of _incidence_array that belongs to net e      *)
(*   size[e]       its first size[e] slots are pins, the rest was cut off  *)
(*   nets[u]       the incident nets of u (their order is abstracted)      *)
(*   on, live      the hypernodes and the nets that are not disabled       *)
(*   pins_in_part, connectivity, connectivity_set, part_weight, part_size, *)
(*   num_cut (num_incident_cut_hes), num_pins, hash    what is maintained  *)
(*   incrementally beside the partition                                    *)
(*   fixed_part, fixed, fixed_weight   the fixed vertices                  *)
(***************************************************************************)
EXTENDS Integers, FiniteSets, Sequences, FiniteSetsExt

CONSTANTS
  Nodes,   (* The hypernodes.                                              *)
  Nets,    (* The nets (hyperedges).                                       *)
  K,       (* Number of blocks.                                            *)
  Hash     (* math::hash of a hypernode; it need not be injective.         *)

ASSUME KHypergraphAssumption ==
  /\ IsFiniteSet(Nodes) /\ IsFiniteSet(Nets)
  /\ K \in Nat \ {0}
  /\ Hash \in [Nodes -> Nat]

Parts == 0 .. K - 1
kInvalidPartition == -1
kInvalidCount == -1
kEdgeHashSeed == 42

pins(hg, e) == {hg.slots[e][i] : i \in 1 .. hg.size[e]}
HashOf(S) == kEdgeHashSeed + MapThenSumSet(LAMBDA p : Hash[p], S)
isFixedVertex(hg, u) == hg.fixed_part[u] # kInvalidPartition
isBorderNode(hg, u) == hg.num_cut[u] > 0
numIncidentCutHEs(hg, u) == Cardinality({e \in hg.nets[u] : hg.connectivity[e] > 1})
weightOfHeaviestNode(hg) == Max({hg.weight[u] : u \in hg.on} \cup {0})

hyperedgeCut(hg) ==
  MapThenSumSet(LAMBDA e : hg.edge_weight[e], {e \in hg.live : hg.connectivity[e] > 1})
km1(hg) ==
  MapThenSumSet(LAMBDA e : Max({hg.connectivity[e] - 1, 0}) * hg.edge_weight[e], hg.live)

(* The hypergraph as constructed: a sequence of distinct pins per net.     *)
NewHypergraph(net_pins, weight, edge_weight) ==
  LET size == [e \in Nets |-> Len(net_pins[e])] IN
  [slots |-> net_pins, size |-> size,
   nets |-> [u \in Nodes |-> {e \in Nets : \E i \in DOMAIN net_pins[e] : net_pins[e][i] = u}],
   weight |-> weight, edge_weight |-> edge_weight,
   on |-> Nodes, live |-> Nets,
   num_pins |-> MapThenSumSet(LAMBDA e : size[e], Nets),
   hash |-> [e \in Nets |-> HashOf({net_pins[e][i] : i \in DOMAIN net_pins[e]})],
   part |-> [u \in Nodes |-> kInvalidPartition],
   part_weight |-> [p \in Parts |-> 0], part_size |-> [p \in Parts |-> 0],
   pins_in_part |-> [e \in Nets |-> [p \in Parts |-> 0]],
   connectivity |-> [e \in Nets |-> 0], connectivity_set |-> [e \in Nets |-> {}],
   num_cut |-> [u \in Nodes |-> 0],
   fixed_part |-> [u \in Nodes |-> kInvalidPartition],
   fixed |-> {}, fixed_weight |-> [p \in Parts |-> 0]]

-----------------------------------------------------------------------------
(* Pin counts of the nets in E in block p, by one up or down.              *)

incrementPinCountInPart(hg, E, p) ==
  [hg EXCEPT
     !.pins_in_part = [e \in Nets |-> IF e \in E THEN [@[e] EXCEPT ![p] = hg.pins_in_part[e][p] + 1]
                                      ELSE @[e]],
     !.connectivity =
       [e \in Nets |-> IF e \in E /\ hg.pins_in_part[e][p] = 0 THEN @[e] + 1 ELSE @[e]],
     !.connectivity_set =
       [e \in Nets |-> IF e \in E /\ hg.pins_in_part[e][p] = 0 THEN @[e] \cup {p} ELSE @[e]]]

decrementPinCountInPart(hg, E, p) ==
  [hg EXCEPT
     !.pins_in_part = [e \in Nets |-> IF e \in E THEN [@[e] EXCEPT ![p] = hg.pins_in_part[e][p] - 1]
                                      ELSE @[e]],
     !.connectivity =
       [e \in Nets |-> IF e \in E /\ hg.pins_in_part[e][p] = 1 THEN @[e] - 1 ELSE @[e]],
     !.connectivity_set =
       [e \in Nets |-> IF e \in E /\ hg.pins_in_part[e][p] = 1 THEN @[e] \ {p} ELSE @[e]]]

(* As many pins more or less on the cut, for every node.                   *)
AddToCut(hg, d) == [hg EXCEPT !.num_cut = [u \in Nodes |-> @[u] + d[u]]]

setNodePart(hg, u, p) ==
  incrementPinCountInPart(
    [hg EXCEPT !.part[u] = p, !.part_weight[p] = @ + hg.weight[u], !.part_size[p] = @ + 1],
    hg.nets[u], p)

(* The nets that leave and that enter the cut when hn moves.  As in the    *)
(* code, only nets that end up with (or had) all pins in one block count.  *)
BecameInternal(hg, hn, from, to) ==
  {e \in hg.nets[hn] : /\ hg.pins_in_part[e][from] = 1
                       /\ hg.pins_in_part[e][to] # 0
                       /\ hg.pins_in_part[e][to] + 1 = hg.size[e]}
BecameCut(hg, hn, from, to) ==
  {e \in hg.nets[hn] : /\ hg.pins_in_part[e][from] # 1
                       /\ hg.pins_in_part[e][to] = 0
                       /\ hg.pins_in_part[e][from] = hg.size[e]}

changeNodePart(hg, hn, from, to) ==
  LET moved == [hg EXCEPT
                  !.part[hn] = to,
                  !.part_weight = [p \in Parts |->
                                     IF p = from THEN @[p] - hg.weight[hn]
                                     ELSE IF p = to THEN @[p] + hg.weight[hn] ELSE @[p]],
                  !.part_size = [p \in Parts |-> IF p = from THEN @[p] - 1
                                                 ELSE IF p = to THEN @[p] + 1 ELSE @[p]]]
      out == BecameInternal(hg, hn, from, to)
      in == BecameCut(hg, hn, from, to)
  IN AddToCut(
       incrementPinCountInPart(decrementPinCountInPart(moved, hg.nets[hn], from), hg.nets[hn], to),
       [u \in Nodes |-> Cardinality({e \in in : u \in pins(hg, e)})
                          - Cardinality({e \in out : u \in pins(hg, e)})])

(* A node the loop saw reach zero cut nets, at any point of the loop: the  *)
(* nets are walked in some order, and a later one may be a new cut net.    *)
MayHaveBecomeInternal(hg, hn, from, to) ==
  {u \in hg.on :
     LET out == {e \in BecameInternal(hg, hn, from, to) : u \in pins(hg, e)}
     IN out # {} /\ hg.num_cut[u] - Cardinality(out) = 0}

-----------------------------------------------------------------------------
(* Fixed vertices.                                                         *)

setFixedVertex(hg, u, p) ==
  [hg EXCEPT !.fixed = @ \cup {u}, !.fixed_part[u] = p,
             !.fixed_weight[p] = @ + hg.weight[u]]

resetFixedVertices(hg) ==
  [hg EXCEPT !.fixed = {}, !.fixed_part = [u \in Nodes |-> kInvalidPartition],
             !.fixed_weight = [p \in Parts |-> 0]]

-----------------------------------------------------------------------------
(* Contraction of v into u, and its undoing.                               *)

(* The slots of e with v swapped to the last pin slot.                     *)
SwappedToEnd(hg, e, v) ==
  LET s == hg.slots[e]
      n == hg.size[e]
  IN [i \in DOMAIN s |->
        IF i = n THEN v ELSE IF i < n /\ s[i] = v THEN s[n] ELSE s[i]]

contract(hg, u, v) ==
  LET cut_off == hg.nets[v] \cap hg.nets[u]   (* Case 1: u is a pin too.   *)
      reused  == hg.nets[v] \ hg.nets[u]      (* Case 2: the slot goes to u. *)
      g == [hg EXCEPT
              !.weight[u] = @ + hg.weight[v],
              !.fixed_weight =
                IF isFixedVertex(hg, u) /\ ~isFixedVertex(hg, v)
                  THEN [p \in Parts |-> @[p] + (IF p = hg.fixed_part[u] THEN hg.weight[v] ELSE 0)]
                  ELSE @,
              !.fixed = IF isFixedVertex(hg, u) THEN @ \ {v} ELSE @,
              !.slots = [e \in Nets |->
                           IF e \in cut_off THEN SwappedToEnd(hg, e, v)
                           ELSE IF e \in reused
                             THEN [SwappedToEnd(hg, e, v) EXCEPT ![hg.size[e]] = u]
                           ELSE @[e]],
              !.size = [e \in Nets |-> IF e \in cut_off THEN @[e] - 1 ELSE @[e]],
              !.hash = [e \in Nets |->
                          IF e \in cut_off THEN @[e] - Hash[v]
                          ELSE IF e \in reused THEN @[e] - Hash[v] + Hash[u] ELSE @[e]],
              !.nets[u] = @ \cup reused,
              !.num_pins = @ - Cardinality(cut_off),
              !.on = @ \ {v}]
  IN IF hg.part[v] = kInvalidPartition THEN g
     ELSE decrementPinCountInPart(g, cut_off, hg.part[v])

(* Mutant: the weight that v brought to a fixed vertex stays.              *)
RestoreWithoutFixedWeight(hg, u, v) ==
  [hg EXCEPT !.on = @ \cup {v}, !.part[v] = hg.part[u], !.part_size[hg.part[u]] = @ + 1]

restoreMemento(hg, u, v) ==
  [hg EXCEPT
     !.on = @ \cup {v},
     !.part[v] = hg.part[u],
     !.part_size[hg.part[u]] = @ + 1,
     !.fixed_weight =
       IF isFixedVertex(hg, u) /\ ~isFixedVertex(hg, v)
         THEN [p \in Parts |-> @[p] - (IF p = hg.fixed_part[u] THEN hg.weight[v] ELSE 0)]
         ELSE @,
     !.fixed = IF isFixedVertex(hg, u) /\ isFixedVertex(hg, v) THEN @ \cup {v} ELSE @]

(* The nets in which v was only cut off: the slot after the last pin still *)
(* holds v, and belongs to the net.                                        *)
CutOffPins(hg, u, v) ==
  {e \in hg.nets[u] \cap hg.nets[v] :
     hg.size[e] < Len(hg.slots[e]) /\ hg.slots[e][hg.size[e] + 1] = v}
ReusedSlots(hg, u, v) == (hg.nets[u] \cap hg.nets[v]) \ CutOffPins(hg, u, v)

resetReusedPinSlotToOriginalValue(hg, e, u, v) ==
  [hg.slots[e] EXCEPT ![Max({i \in 1 .. hg.size[e] : hg.slots[e][i] = u})] = v]

uncontract(hg, u, v) ==
  LET cut_off == CutOffPins(hg, u, v)
      reused == ReusedSlots(hg, u, v)
      g == incrementPinCountInPart(restoreMemento(hg, u, v), cut_off, hg.part[u])
      cut(E) == Cardinality({e \in E : g.connectivity[e] > 1})
  IN [g EXCEPT
        !.size = [e \in Nets |-> IF e \in cut_off THEN @[e] + 1 ELSE @[e]],
        !.slots = [e \in Nets |-> IF e \in reused
                                    THEN resetReusedPinSlotToOriginalValue(hg, e, u, v) ELSE @[e]],
        !.nets[u] = @ \ reused,
        !.num_cut = [w \in Nodes |-> IF w = u THEN @[w] - cut(reused)
                                     ELSE IF w = v THEN @[w] + cut(cut_off \cup reused) ELSE @[w]],
        !.num_pins = @ + Cardinality(cut_off),
        !.weight[u] = @ - hg.weight[v]]

-----------------------------------------------------------------------------
(* Nets and nodes that leave the hypergraph, and nets that come back.      *)

(* removeEdge for each net of E.                                           *)
removeEdges(hg, E) ==
  [hg EXCEPT
     !.nets = [u \in Nodes |-> @[u] \ {e \in E : u \in pins(hg, e)}],
     !.num_pins = @ - MapThenSumSet(LAMBDA e : hg.size[e], E),
     !.live = @ \ E,
     !.pins_in_part =
       [e \in Nets |-> IF e \in E THEN [p \in Parts |-> kInvalidCount] ELSE @[e]],
     !.connectivity = [e \in Nets |-> IF e \in E THEN 0 ELSE @[e]],
     !.connectivity_set = [e \in Nets |-> IF e \in E THEN {} ELSE @[e]]]

(* restoreEdge for each net of E; the nets of cut (a subset of E) were     *)
(* parallel to a net that connects several blocks.                         *)
restoreEdges(hg, E, cut) ==
  LET P == [e \in E |-> pins(hg, e)]
      count == [e \in E |-> [p \in Parts |-> Cardinality({u \in P[e] : hg.part[u] = p})]]
      blocks == [e \in E |-> {p \in Parts : count[e][p] > 0}]
  IN [hg EXCEPT
        !.live = @ \cup E,
        !.nets = [u \in Nodes |-> @[u] \cup {e \in E : u \in P[e]}],
        !.pins_in_part = [e \in Nets |-> IF e \in E THEN count[e] ELSE @[e]],
        !.connectivity =
          [e \in Nets |-> IF e \in E THEN @[e] + Cardinality(blocks[e]) ELSE @[e]],
        !.connectivity_set = [e \in Nets |-> IF e \in E THEN @[e] \cup blocks[e] ELSE @[e]],
        !.num_cut = [u \in Nodes |-> @[u] + Cardinality({e \in cut : u \in P[e]})],
        !.num_pins = @ + MapThenSumSet(LAMBDA e : hg.size[e], E)]

-----------------------------------------------------------------------------
(* Recomputation from scratch.                                             *)

(* Mutant: counts of an earlier cycle are not cleared.                     *)
AddNumCutHyperedges(hg) ==
  [hg EXCEPT !.num_cut =
     [u \in Nodes |-> @[u] + Cardinality({e \in hg.live : hg.connectivity[e] > 1 /\ u \in pins(hg, e)})]]

initializeNumCutHyperedges(hg) ==
  [hg EXCEPT !.num_cut =
     [u \in Nodes |-> Cardinality({e \in hg.live : hg.connectivity[e] > 1 /\ u \in pins(hg, e)})]]

resetEdgeHashes(hg) ==
  [hg EXCEPT !.hash = [e \in Nets |-> IF e \in hg.live THEN HashOf(pins(hg, e)) ELSE @[e]]]

resetPartitioning(hg) ==
  [hg EXCEPT
     !.part = [u \in Nodes |-> kInvalidPartition], !.num_cut = [u \in Nodes |-> 0],
     !.part_weight = [p \in Parts |-> 0], !.part_size = [p \in Parts |-> 0],
     !.fixed_weight =
       [p \in Parts |-> MapThenSumSet(LAMBDA u : hg.weight[u],
                                      {u \in hg.fixed : hg.fixed_part[u] = p})],
     !.pins_in_part = [e \in Nets |-> [p \in Parts |-> 0]],
     !.connectivity = [e \in Nets |-> 0], !.connectivity_set = [e \in Nets |-> {}]]

(* reset() also drops the communities, which are not part of the record.   *)
reset(hg) ==
  [resetPartitioning(hg) EXCEPT !.hash = [e \in Nets |-> HashOf(pins(hg, e))]]

(* setNodePart for every node of a hypergraph without a partition.         *)
AssignParts(hg, part) ==
  LET count == [e \in Nets |-> [p \in Parts |-> Cardinality({u \in hg.on : e \in hg.nets[u] /\ part[u] = p})]]
      in(p) == {u \in hg.on : part[u] = p}
  IN [hg EXCEPT
        !.part = [u \in Nodes |-> IF u \in hg.on THEN part[u] ELSE @[u]],
        !.part_weight = [p \in Parts |-> @[p] + MapThenSumSet(LAMBDA u : hg.weight[u], in(p))],
        !.part_size = [p \in Parts |-> @[p] + Cardinality(in(p))],
        !.pins_in_part = [e \in Nets |-> [p \in Parts |-> @[e][p] + count[e][p]]],
        !.connectivity =
          [e \in Nets |-> @[e] + Cardinality({p \in Parts : count[e][p] > 0})],
        !.connectivity_set = [e \in Nets |-> @[e] \cup {p \in Parts : count[e][p] > 0}]]

setPartition(hg, part) == AssignParts(reset(hg), part)

-----------------------------------------------------------------------------
(* What is maintained incrementally, against its definition.               *)

IncidenceIsSymmetric(hg) ==
  \A e \in hg.live : \A u \in hg.on : u \in pins(hg, e) <=> e \in hg.nets[u]

PinsAreEnabled(hg) ==
  \A e \in hg.live : pins(hg, e) \subseteq hg.on /\ Cardinality(pins(hg, e)) = hg.size[e]

PinCountsAreRight(hg) ==
  \A e \in hg.live :
    /\ \A p \in Parts :
         hg.pins_in_part[e][p] = Cardinality({u \in pins(hg, e) : hg.part[u] = p})
    /\ hg.connectivity_set[e] = {p \in Parts : hg.pins_in_part[e][p] > 0}
    /\ hg.connectivity[e] = Cardinality(hg.connectivity_set[e])

CutCountsAreRight(hg) == \A u \in hg.on : hg.num_cut[u] = numIncidentCutHEs(hg, u)

PartWeightsAreRight(hg) ==
  \A p \in Parts :
    hg.part_weight[p] = MapThenSumSet(LAMBDA u : hg.weight[u], {u \in hg.on : hg.part[u] = p})

FixedWeightsAreRight(hg) ==
  \A p \in Parts :
    hg.fixed_weight[p]
      = MapThenSumSet(LAMBDA u : hg.weight[u], {u \in hg.fixed : hg.fixed_part[u] = p})

NumPinsIsRight(hg) == hg.num_pins = MapThenSumSet(LAMBDA e : hg.size[e], hg.live)

HashesAreOfPins(hg) == \A e \in hg.live : hg.hash[e] = HashOf(pins(hg, e))
=============================================================================
