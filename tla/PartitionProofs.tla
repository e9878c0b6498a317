---------------------------- MODULE PartitionProofs ----------------------------
(***************************************************************************)
(* Theorems about the partition of the multilevel scheme (Multilevel), for *)
(* every hypergraph, every call and every choice of the rater, the initial *)
(* partitioner and the refiner: fixed vertices stay, parallel nets are     *)
(* found, what is counted of the partition is right on every level, the    *)
(* objective is that of the input hypergraph, and the child of a combine   *)
(* is no worse than its parents.  They rest on the invariant of the levels *)
(* (MultilevelProofs) and add, in this order: what every operation does to *)
(* each field of the hypergraph; where the nodes are, after uncontractions *)
(* and after the time limit; the hashes; what a level costs, and that a    *)
(* contraction changes no cost; the counts of the nets and blocks.         *)
(***************************************************************************)
EXTENDS MultilevelProofs

(* What the operations do to the partition and what is kept beside it.      *)

(* g has the partition of h and everything kept beside it.                  *)
SameCounts(h, g) ==
  /\ g.pins_in_part = h.pins_in_part /\ g.connectivity = h.connectivity
  /\ g.connectivity_set = h.connectivity_set
SameBlocks(h, g) == g.part = h.part /\ g.part_weight = h.part_weight

(* One pin less, or more, of the nets E in block p.                         *)
Decremented(h, g, E, p) ==
  /\ g.pins_in_part = [e \in Nets |-> IF e \in E THEN [h.pins_in_part[e] EXCEPT ![p] = h.pins_in_part[e][p] - 1]
                                      ELSE h.pins_in_part[e]]
  /\ g.connectivity = [e \in Nets |-> IF e \in E /\ h.pins_in_part[e][p] = 1
                                        THEN h.connectivity[e] - 1 ELSE h.connectivity[e]]
  /\ g.connectivity_set = [e \in Nets |-> IF e \in E /\ h.pins_in_part[e][p] = 1
                                            THEN h.connectivity_set[e] \ {p} ELSE h.connectivity_set[e]]
Incremented(h, g, E, p) ==
  /\ g.pins_in_part = [e \in Nets |-> IF e \in E THEN [h.pins_in_part[e] EXCEPT ![p] = h.pins_in_part[e][p] + 1]
                                      ELSE h.pins_in_part[e]]
  /\ g.connectivity = [e \in Nets |-> IF e \in E /\ h.pins_in_part[e][p] = 0
                                        THEN h.connectivity[e] + 1 ELSE h.connectivity[e]]
  /\ g.connectivity_set = [e \in Nets |-> IF e \in E /\ h.pins_in_part[e][p] = 0
                                            THEN h.connectivity_set[e] \cup {p} ELSE h.connectivity_set[e]]

(* The other fields that an operation on the counts leaves alone.           *)
SameRest(h, g) ==
  SameBlocks(h, g) /\ g.hash = h.hash /\ g.num_cut = h.num_cut /\ g.fixed_weight = h.fixed_weight

(* decrementPinCountInPart and incrementPinCountInPart, field by field.     *)
LEMMA DecrementIs ==
  ASSUME NEW h, IsHypergraph(h), NEW E, NEW p, NEW g, g = decrementPinCountInPart(h, E, p)
  PROVE  Decremented(h, g, E, p) /\ SameRest(h, g)
<1>1. SameRest(h, g)
  BY DEF IsHypergraph, decrementPinCountInPart, SameRest, SameBlocks
<1>2. g.pins_in_part = [e \in Nets |-> IF e \in E THEN [h.pins_in_part[e] EXCEPT ![p] = h.pins_in_part[e][p] - 1]
                                      ELSE h.pins_in_part[e]]
  BY DEF IsHypergraph, decrementPinCountInPart
<1>3. g.connectivity = [e \in Nets |-> IF e \in E /\ h.pins_in_part[e][p] = 1
                                        THEN h.connectivity[e] - 1 ELSE h.connectivity[e]]
  BY DEF IsHypergraph, decrementPinCountInPart
<1>4. g.connectivity_set = [e \in Nets |-> IF e \in E /\ h.pins_in_part[e][p] = 1
                                            THEN h.connectivity_set[e] \ {p} ELSE h.connectivity_set[e]]
  BY DEF IsHypergraph, decrementPinCountInPart
<1> QED
  BY <1>1, <1>2, <1>3, <1>4 DEF Decremented

(* Incrementing the counts of some nets in one block.                       *)
LEMMA IncrementIs ==
  ASSUME NEW h, IsHypergraph(h), NEW E, NEW p, NEW g, g = incrementPinCountInPart(h, E, p)
  PROVE  Incremented(h, g, E, p) /\ SameRest(h, g)
<1>1. SameRest(h, g)
  BY DEF IsHypergraph, incrementPinCountInPart, SameRest, SameBlocks
<1>2. g.pins_in_part = [e \in Nets |-> IF e \in E THEN [h.pins_in_part[e] EXCEPT ![p] = h.pins_in_part[e][p] + 1]
                                      ELSE h.pins_in_part[e]]
  BY DEF IsHypergraph, incrementPinCountInPart
<1>3. g.connectivity = [e \in Nets |-> IF e \in E /\ h.pins_in_part[e][p] = 0
                                        THEN h.connectivity[e] + 1 ELSE h.connectivity[e]]
  BY DEF IsHypergraph, incrementPinCountInPart
<1>4. g.connectivity_set = [e \in Nets |-> IF e \in E /\ h.pins_in_part[e][p] = 0
                                            THEN h.connectivity_set[e] \cup {p} ELSE h.connectivity_set[e]]
  BY DEF IsHypergraph, incrementPinCountInPart
<1> QED
  BY <1>1, <1>2, <1>3, <1>4 DEF Incremented

(* contract: hashes follow the pins, and v no longer counts where it was    *)
(* cut off.                                                                 *)
FixedWeightContracted(h, g, u, v) ==
  /\ isFixedVertex(h, u) /\ ~isFixedVertex(h, v) =>
       g.fixed_weight = [p \in Parts |-> h.fixed_weight[p] + (IF p = h.fixed_part[u] THEN h.weight[v] ELSE 0)]
  /\ ~(isFixedVertex(h, u) /\ ~isFixedVertex(h, v)) => g.fixed_weight = h.fixed_weight
HashContracted(h, g, u, v) ==
  g.hash = [e \in Nets |-> IF e \in h.nets[v] \cap h.nets[u] THEN h.hash[e] - Hash[v]
                           ELSE IF e \in h.nets[v] \ h.nets[u] THEN h.hash[e] - Hash[v] + Hash[u]
                           ELSE h.hash[e]]
InfoContracted(h, g, u, v) ==
  /\ SameBlocks(h, g) /\ g.num_cut = h.num_cut
  /\ FixedWeightContracted(h, g, u, v) /\ HashContracted(h, g, u, v)
  /\ h.part[v] = kInvalidPartition => SameCounts(h, g)
  /\ h.part[v] # kInvalidPartition => Decremented(h, g, h.nets[v] \cap h.nets[u], h.part[v])

(* contract moves the counts of the nets of v to u.                         *)
LEMMA ContractInfo ==
  ASSUME NEW h, IsHypergraph(h), NEW u, NEW v, NEW g, g = contract(h, u, v)
  PROVE  InfoContracted(h, g, u, v)
<1>1. PICK c : c = [h EXCEPT
              !.weight[u] = @ + h.weight[v],
              !.fixed_weight =
                IF isFixedVertex(h, u) /\ ~isFixedVertex(h, v)
                  THEN [p \in Parts |-> @[p] + (IF p = h.fixed_part[u] THEN h.weight[v] ELSE 0)]
                  ELSE @,
              !.fixed = IF isFixedVertex(h, u) THEN @ \ {v} ELSE @,
              !.slots = [e \in Nets |->
                           IF e \in h.nets[v] \cap h.nets[u] THEN SwappedToEnd(h, e, v)
                           ELSE IF e \in h.nets[v] \ h.nets[u]
                             THEN [SwappedToEnd(h, e, v) EXCEPT ![h.size[e]] = u]
                           ELSE @[e]],
              !.size = [e \in Nets |-> IF e \in h.nets[v] \cap h.nets[u] THEN @[e] - 1 ELSE @[e]],
              !.hash = [e \in Nets |->
                          IF e \in h.nets[v] \cap h.nets[u] THEN @[e] - Hash[v]
                          ELSE IF e \in h.nets[v] \ h.nets[u] THEN @[e] - Hash[v] + Hash[u] ELSE @[e]],
              !.nets[u] = @ \cup (h.nets[v] \ h.nets[u]),
              !.num_pins = @ - Cardinality(h.nets[v] \cap h.nets[u]),
              !.on = @ \ {v}]
  OBVIOUS
<1>2. g = IF h.part[v] = kInvalidPartition THEN c
          ELSE decrementPinCountInPart(c, h.nets[v] \cap h.nets[u], h.part[v])
  BY <1>1 DEF contract
<1>3. IsHypergraph(c) /\ SameCounts(h, c) /\ SameBlocks(h, c) /\ c.num_cut = h.num_cut
  BY <1>1 DEF IsHypergraph, SameCounts, SameBlocks
<1>4. FixedWeightContracted(h, c, u, v)
  BY <1>1 DEF IsHypergraph, FixedWeightContracted
<1>5. HashContracted(h, c, u, v)
  BY <1>1 DEF IsHypergraph, HashContracted
<1>6. CASE h.part[v] = kInvalidPartition
  BY <1>2, <1>3, <1>4, <1>5, <1>6 DEF InfoContracted
<1>7. CASE h.part[v] # kInvalidPartition
  <2>1. g = decrementPinCountInPart(c, h.nets[v] \cap h.nets[u], h.part[v])
    BY <1>2, <1>7
  <2>2. Decremented(c, g, h.nets[v] \cap h.nets[u], h.part[v]) /\ SameRest(c, g)
    BY <1>3, <2>1, DecrementIs
  <2>3. Decremented(h, g, h.nets[v] \cap h.nets[u], h.part[v])
    BY <1>3, <2>2 DEF Decremented, SameCounts
  <2>4. SameBlocks(h, g) /\ g.num_cut = h.num_cut
    BY <1>3, <2>2 DEF SameRest, SameBlocks
  <2>5. FixedWeightContracted(h, g, u, v)
    BY <1>4, <2>2 DEF SameRest, FixedWeightContracted
  <2>6. HashContracted(h, g, u, v)
    BY <1>5, <2>2 DEF SameRest, HashContracted
  <2> QED
    BY <1>7, <2>3, <2>4, <2>5, <2>6 DEF InfoContracted
<1> QED
  BY <1>6, <1>7

(* restoreMemento: v comes back in the block of u.                          *)
FixedWeightRestored(h, g, u, v) ==
  /\ isFixedVertex(h, u) /\ ~isFixedVertex(h, v) =>
       g.fixed_weight = [p \in Parts |-> h.fixed_weight[p] - (IF p = h.fixed_part[u] THEN h.weight[v] ELSE 0)]
  /\ ~(isFixedVertex(h, u) /\ ~isFixedVertex(h, v)) => g.fixed_weight = h.fixed_weight
BackIn(h, g, u, v) ==
  /\ g.part = [h.part EXCEPT ![v] = h.part[u]]
  /\ g.part_weight = h.part_weight /\ g.hash = h.hash
  /\ FixedWeightRestored(h, g, u, v)

(* restoreMemento gives v the block of u, and no net a count.               *)
LEMMA RestoreMementoInfo ==
  ASSUME NEW h, IsHypergraph(h), NEW u, NEW v, NEW g, g = restoreMemento(h, u, v)
  PROVE  BackIn(h, g, u, v) /\ SameCounts(h, g) /\ g.num_cut = h.num_cut
<1>1. g.part = [h.part EXCEPT ![v] = h.part[u]] /\ g.part_weight = h.part_weight /\ g.hash = h.hash
  BY DEF IsHypergraph, restoreMemento
<1>2. SameCounts(h, g) /\ g.num_cut = h.num_cut
  BY DEF IsHypergraph, restoreMemento, SameCounts
<1>3. FixedWeightRestored(h, g, u, v)
  BY DEF IsHypergraph, restoreMemento, FixedWeightRestored
<1> QED
  BY <1>1, <1>2, <1>3 DEF BackIn

(* uncontract: v counts again where it was cut off; the cut nets that it    *)
(* takes from u are no longer incident to u.                                *)
CutIn(g, E) == Cardinality({e \in E : g.connectivity[e] > 1})
CutUncontracted(h, g, u, v) ==
  g.num_cut = [w \in Nodes |-> IF w = u THEN h.num_cut[w] - CutIn(g, ReusedSlots(h, u, v))
                               ELSE IF w = v THEN h.num_cut[w] + CutIn(g, CutOffPins(h, u, v) \cup ReusedSlots(h, u, v))
                               ELSE h.num_cut[w]]
InfoUncontracted(h, g, u, v) ==
  BackIn(h, g, u, v) /\ Incremented(h, g, CutOffPins(h, u, v), h.part[u]) /\ CutUncontracted(h, g, u, v)

(* uncontract counts v again in the nets that get it back as a pin.         *)
LEMMA UncontractInfo ==
  ASSUME NEW h, IsHypergraph(h), NEW u, NEW v, NEW g, g = uncontract(h, u, v)
  PROVE  InfoUncontracted(h, g, u, v)
<1> DEFINE cut_off == CutOffPins(h, u, v)
           reused == ReusedSlots(h, u, v)
<1>1. PICK r : r = restoreMemento(h, u, v)
  OBVIOUS
<1>2. PICK f : f = incrementPinCountInPart(r, cut_off, h.part[u])
  OBVIOUS
<1>3. IsHypergraph(r) /\ MementoRestored(h, r, u, v)
  BY <1>1, RestoreMementoIs
<1>4. BackIn(h, r, u, v) /\ SameCounts(h, r) /\ r.num_cut = h.num_cut
  BY <1>1, RestoreMementoInfo
<1>5. IsHypergraph(f)
  BY <1>2, <1>3, PinCountsKeepStructure
<1>6. Incremented(r, f, cut_off, h.part[u]) /\ SameRest(r, f)
  BY <1>2, <1>3, IncrementIs
<1>7. g = [f EXCEPT
                 !.size = [e \in Nets |-> IF e \in cut_off THEN f.size[e] + 1 ELSE f.size[e]],
                 !.slots = [e \in Nets |-> IF e \in reused
                                    THEN resetReusedPinSlotToOriginalValue(h, e, u, v) ELSE f.slots[e]],
                 !.nets[u] = @ \ reused,
                 !.num_cut = [x \in Nodes |-> IF x = u THEN @[x] - Cardinality({e \in reused : f.connectivity[e] > 1})
                                     ELSE IF x = v THEN @[x] + Cardinality({e \in cut_off \cup reused : f.connectivity[e] > 1})
                                     ELSE @[x]],
                 !.num_pins = f.num_pins + Cardinality(cut_off),
                 !.weight[u] = f.weight[u] - h.weight[v]]
  BY <1>1, <1>2, Zenon DEF uncontract
<1>8. /\ g.num_cut = [x \in Nodes |-> IF x = u THEN f.num_cut[x] - CutIn(f, reused)
                               ELSE IF x = v THEN f.num_cut[x] + CutIn(f, cut_off \cup reused) ELSE f.num_cut[x]]
      /\ g.part = f.part /\ g.part_weight = f.part_weight /\ g.hash = f.hash
      /\ g.fixed_weight = f.fixed_weight /\ g.pins_in_part = f.pins_in_part
      /\ g.connectivity = f.connectivity /\ g.connectivity_set = f.connectivity_set
  <2>1. g.num_cut = [x \in Nodes |-> IF x = u THEN f.num_cut[x] - Cardinality({e \in reused : f.connectivity[e] > 1})
                               ELSE IF x = v THEN f.num_cut[x] + Cardinality({e \in cut_off \cup reused : f.connectivity[e] > 1})
                               ELSE f.num_cut[x]]
    BY <1>5, <1>7 DEF IsHypergraph
  <2>2. g.num_cut = [x \in Nodes |-> IF x = u THEN f.num_cut[x] - CutIn(f, reused)
                               ELSE IF x = v THEN f.num_cut[x] + CutIn(f, cut_off \cup reused) ELSE f.num_cut[x]]
    BY <2>1, Zenon DEF CutIn
  <2>3. /\ g.part = f.part /\ g.part_weight = f.part_weight /\ g.hash = f.hash
        /\ g.fixed_weight = f.fixed_weight /\ g.pins_in_part = f.pins_in_part
        /\ g.connectivity = f.connectivity /\ g.connectivity_set = f.connectivity_set
    BY <1>5, <1>7 DEF IsHypergraph
  <2> QED
    BY <2>2, <2>3
<1>9. BackIn(h, g, u, v)
  BY <1>4, <1>6, <1>8 DEF BackIn, FixedWeightRestored, SameRest, SameBlocks
<1>10. Incremented(h, g, cut_off, h.part[u])
  BY <1>4, <1>6, <1>8 DEF Incremented, SameCounts
<1>11. CutUncontracted(h, g, u, v)
  <2>1. CutIn(f, reused) = CutIn(g, reused) /\ CutIn(f, cut_off \cup reused) = CutIn(g, cut_off \cup reused)
    BY <1>8 DEF CutIn
  <2>2. f.num_cut = h.num_cut
    BY <1>4, <1>6 DEF SameRest
  <2> QED
    BY <1>7, <1>8, <2>1, <2>2 DEF CutUncontracted
<1> QED
  BY <1>9, <1>10, <1>11 DEF InfoUncontracted

(* removeEdge clears the counts of a net.                                   *)
CountsRemoved(h, g, E) ==
  /\ \A e \in Nets \ E : /\ g.pins_in_part[e] = h.pins_in_part[e] /\ g.connectivity[e] = h.connectivity[e]
                         /\ g.connectivity_set[e] = h.connectivity_set[e]
  /\ \A e \in E \cap Nets : /\ g.pins_in_part[e] = [p \in Parts |-> kInvalidCount] /\ g.connectivity[e] = 0
                            /\ g.connectivity_set[e] = {}
(* Removed nets lose their connectivity.                                    *)
LEMMA RemoveEdgesInfo ==
  ASSUME NEW h, IsHypergraph(h), NEW E, NEW g, g = removeEdges(h, E)
  PROVE  CountsRemoved(h, g, E) /\ SameRest(h, g)
<1>1. SameRest(h, g)
  BY DEF IsHypergraph, removeEdges, SameRest, SameBlocks
<1>2. g.pins_in_part = [e \in Nets |-> IF e \in E THEN [p \in Parts |-> kInvalidCount] ELSE h.pins_in_part[e]]
  BY DEF IsHypergraph, removeEdges
<1>3. g.connectivity = [e \in Nets |-> IF e \in E THEN 0 ELSE h.connectivity[e]]
  BY DEF IsHypergraph, removeEdges
<1>4. g.connectivity_set = [e \in Nets |-> IF e \in E THEN {} ELSE h.connectivity_set[e]]
  BY DEF IsHypergraph, removeEdges
<1> QED
  BY <1>1, <1>2, <1>3, <1>4 DEF CountsRemoved

(* The weights of nets have no part in it.                                  *)
LEMMA AddToWeightsInfo ==
  ASSUME NEW h, IsHypergraph(h), NEW P, NEW sign, NEW g, g = AddToWeights(h, P, sign)
  PROVE  SameCounts(h, g) /\ SameRest(h, g)
BY DEF IsHypergraph, AddToWeights, SameCounts, SameRest, SameBlocks

(* restoreEdge counts the pins of a net again.                              *)
PinsIn(h, e, p) == Cardinality({u \in pins(h, e) : h.part[u] = p})
BlocksOf(h, e) == {p \in Parts : PinsIn(h, e, p) > 0}
CountsRestored(h, g, E) ==
  /\ \A e \in Nets \ E : /\ g.pins_in_part[e] = h.pins_in_part[e] /\ g.connectivity[e] = h.connectivity[e]
                         /\ g.connectivity_set[e] = h.connectivity_set[e]
  /\ \A e \in E \cap Nets :
       /\ g.pins_in_part[e] = [p \in Parts |-> PinsIn(h, e, p)]
       /\ g.connectivity[e] = h.connectivity[e] + Cardinality(BlocksOf(h, e))
       /\ g.connectivity_set[e] = h.connectivity_set[e] \cup BlocksOf(h, e)
CutRestored(h, g, cut) ==
  g.num_cut = [u \in Nodes |-> h.num_cut[u] + Cardinality({e \in cut : u \in pins(h, e)})]
(* Restored nets are counted from their pins.                               *)
LEMMA RestoreEdgesInfo ==
  ASSUME NEW h, IsHypergraph(h), NEW E, NEW cut, cut \subseteq E, NEW g, g = restoreEdges(h, E, cut)
  PROVE  /\ CountsRestored(h, g, E) /\ CutRestored(h, g, cut)
         /\ SameBlocks(h, g) /\ g.hash = h.hash /\ g.fixed_weight = h.fixed_weight
<1> DEFINE P == [e \in E |-> pins(h, e)]
           count == [e \in E |-> [p \in Parts |-> Cardinality({u \in P[e] : h.part[u] = p})]]
           blocks == [e \in E |-> {p \in Parts : count[e][p] > 0}]
<1>1. SameBlocks(h, g) /\ g.hash = h.hash /\ g.fixed_weight = h.fixed_weight
  BY DEF IsHypergraph, restoreEdges, SameBlocks
<1>2. g.pins_in_part = [e \in Nets |-> IF e \in E THEN count[e] ELSE h.pins_in_part[e]]
  BY DEF IsHypergraph, restoreEdges
<1>3. g.connectivity = [e \in Nets |-> IF e \in E THEN h.connectivity[e] + Cardinality(blocks[e]) ELSE h.connectivity[e]]
  BY DEF IsHypergraph, restoreEdges
<1>4. g.connectivity_set = [e \in Nets |-> IF e \in E THEN h.connectivity_set[e] \cup blocks[e] ELSE h.connectivity_set[e]]
  BY DEF IsHypergraph, restoreEdges
<1>5. g.num_cut = [u \in Nodes |-> h.num_cut[u] + Cardinality({e \in cut : u \in P[e]})]
  BY DEF IsHypergraph, restoreEdges
<1>6. \A e \in E : P[e] = pins(h, e)
  OBVIOUS
<1>7. \A e \in E : count[e] = [p \in Parts |-> PinsIn(h, e, p)]
  BY Zenon DEF PinsIn
<1>8. \A e \in E : blocks[e] = BlocksOf(h, e)
  <2> HIDE DEF count
  <2>1. \A e \in E : \A p \in Parts : count[e][p] = PinsIn(h, e, p)
    BY <1>7
  <2>2. \A e \in E : blocks[e] = {p \in Parts : count[e][p] > 0}
    OBVIOUS
  <2> HIDE DEF blocks
  <2> QED
    BY <2>1, <2>2 DEF BlocksOf
<1>9. \A u : {e \in cut : u \in P[e]} = {e \in cut : u \in pins(h, e)}
  BY <1>6
<1> HIDE DEF P, count, blocks
<1>10. CutRestored(h, g, cut)
  BY <1>5, <1>9 DEF CutRestored
<1>11. CountsRestored(h, g, E)
  BY <1>2, <1>3, <1>4, <1>7, <1>8 DEF CountsRestored
<1> QED
  BY <1>1, <1>10, <1>11

(* changeNodePart: a node changes its block, a pin of each of its nets too. *)
Left(h, g, u, from, to) ==
  /\ g.part = [h.part EXCEPT ![u] = to]
  /\ g.part_weight = [p \in Parts |-> IF p = from THEN h.part_weight[p] - h.weight[u]
                                      ELSE IF p = to THEN h.part_weight[p] + h.weight[u] ELSE h.part_weight[p]]
  /\ g.hash = h.hash /\ g.fixed_weight = h.fixed_weight
PinsOfNets(h, w, E) == {e \in E : w \in pins(h, e)}
CutMoved(h, g, u, from, to) ==
  g.num_cut = [w \in Nodes |-> h.num_cut[w] + (Cardinality(PinsOfNets(h, w, BecameCut(h, u, from, to)))
                                                 - Cardinality(PinsOfNets(h, w, BecameInternal(h, u, from, to))))]
(* changeNodePart moves u, its weight and the counts of its nets.           *)
LEMMA ChangeNodePartInfo ==
  ASSUME NEW h, IsHypergraph(h), NEW u, NEW p, NEW q, NEW g, g = changeNodePart(h, u, p, q)
  PROVE  /\ Left(h, g, u, p, q) /\ CutMoved(h, g, u, p, q)
         /\ \E f : Decremented(h, f, h.nets[u], p) /\ Incremented(f, g, h.nets[u], q)
<1>1. PICK m : m = [h EXCEPT
                  !.part[u] = q,
                  !.part_weight = [x \in Parts |->
                                     IF x = p THEN @[x] - h.weight[u]
                                     ELSE IF x = q THEN @[x] + h.weight[u] ELSE @[x]],
                  !.part_size = [x \in Parts |-> IF x = p THEN @[x] - 1
                                                 ELSE IF x = q THEN @[x] + 1 ELSE @[x]]]
  OBVIOUS
<1>2. PICK f : f = decrementPinCountInPart(m, h.nets[u], p)
  OBVIOUS
<1>3. PICK k : k = incrementPinCountInPart(f, h.nets[u], q)
  OBVIOUS
<1>4. PICK out, in : out = BecameInternal(h, u, p, q) /\ in = BecameCut(h, u, p, q)
  OBVIOUS
<1>5. PICK d : d = [w \in Nodes |-> Cardinality({e \in in : w \in pins(h, e)}) - Cardinality({e \in out : w \in pins(h, e)})]
  OBVIOUS
<1>6. g = AddToCut(k, d)
  BY <1>1, <1>2, <1>3, <1>4, <1>5, Zenon DEF changeNodePart
<1>7. IsHypergraph(m) /\ SameCounts(h, m)
  BY <1>1 DEF IsHypergraph, SameCounts
<1>8. IsHypergraph(f) /\ IsHypergraph(k)
  BY <1>2, <1>3, <1>7, PinCountsKeepStructure
<1>9. Decremented(m, f, h.nets[u], p) /\ SameRest(m, f)
  BY <1>2, <1>7, DecrementIs
<1>10. Incremented(f, k, h.nets[u], q) /\ SameRest(f, k)
  BY <1>3, <1>8, IncrementIs
<1>11. SameCounts(k, g) /\ SameBlocks(k, g) /\ g.hash = k.hash /\ g.fixed_weight = k.fixed_weight
  BY <1>6, <1>8 DEF IsHypergraph, AddToCut, SameCounts, SameBlocks
<1>12. g.num_cut = [w \in Nodes |-> k.num_cut[w] + d[w]]
  BY <1>6, <1>8 DEF IsHypergraph, AddToCut
<1>13. Left(h, m, u, p, q) /\ m.num_cut = h.num_cut
  BY <1>1 DEF IsHypergraph, Left
<1>14. Left(h, g, u, p, q)
  BY <1>9, <1>10, <1>11, <1>13 DEF Left, SameRest, SameBlocks
<1>15. k.num_cut = h.num_cut
  BY <1>9, <1>10, <1>13 DEF SameRest
<1>16. \A w \in Nodes : d[w] = Cardinality(PinsOfNets(h, w, in)) - Cardinality(PinsOfNets(h, w, out))
  BY <1>5, Zenon DEF PinsOfNets
<1>17. CutMoved(h, g, u, p, q)
  BY <1>4, <1>12, <1>15, <1>16 DEF CutMoved
<1>18. Decremented(h, f, h.nets[u], p)
  BY <1>7, <1>9 DEF Decremented, SameCounts
<1>19. Incremented(f, g, h.nets[u], q)
  BY <1>10, <1>11 DEF Incremented, SameCounts
<1> QED
  BY <1>14, <1>17, <1>18, <1>19

(* Every node of a hypergraph gets a block.                                 *)
NodesIn(h, part, p) == {u \in h.on : part[u] = p}
AssignedPins(h, part, e, p) == Cardinality({u \in h.on : e \in h.nets[u] /\ part[u] = p})
AssignedBlocks(h, part, e) == {p \in Parts : AssignedPins(h, part, e, p) > 0}
Assigned(h, g, part) ==
  /\ g.part = [u \in Nodes |-> IF u \in h.on THEN part[u] ELSE h.part[u]]
  /\ g.part_weight = [p \in Parts |-> h.part_weight[p] + SumOver(h.weight, NodesIn(h, part, p))]
  /\ g.hash = h.hash /\ g.fixed_weight = h.fixed_weight /\ g.num_cut = h.num_cut
CountsAssigned(h, g, part) ==
  \A e \in Nets :
    /\ g.pins_in_part[e] = [p \in Parts |-> h.pins_in_part[e][p] + AssignedPins(h, part, e, p)]
    /\ g.connectivity[e] = h.connectivity[e] + Cardinality(AssignedBlocks(h, part, e))
    /\ g.connectivity_set[e] = h.connectivity_set[e] \cup AssignedBlocks(h, part, e)
(* Nodes set one after the other are counted in their blocks.               *)
LEMMA AssignPartsInfo ==
  ASSUME NEW h, IsHypergraph(h), NEW part, NEW g, g = AssignParts(h, part)
  PROVE  Assigned(h, g, part) /\ CountsAssigned(h, g, part)
<1>1. PICK count : count = [e \in Nets |-> [p \in Parts |-> Cardinality({u \in h.on : e \in h.nets[u] /\ part[u] = p})]]
  OBVIOUS
<1>2. g = [h EXCEPT
        !.part = [u \in Nodes |-> IF u \in h.on THEN part[u] ELSE @[u]],
        !.part_weight = [p \in Parts |-> @[p] + MapThenSumSet(LAMBDA u : h.weight[u], {u \in h.on : part[u] = p})],
        !.part_size = [p \in Parts |-> @[p] + Cardinality({u \in h.on : part[u] = p})],
        !.pins_in_part = [e \in Nets |-> [p \in Parts |-> @[e][p] + count[e][p]]],
        !.connectivity =
          [e \in Nets |-> @[e] + Cardinality({p \in Parts : count[e][p] > 0})],
        !.connectivity_set = [e \in Nets |-> @[e] \cup {p \in Parts : count[e][p] > 0}]]
  BY <1>1, Zenon DEF AssignParts
<1>3. \A e \in Nets : \A p \in Parts : count[e][p] = AssignedPins(h, part, e, p)
  BY <1>1, Zenon DEF AssignedPins
<1>4. \A e \in Nets : {p \in Parts : count[e][p] > 0} = AssignedBlocks(h, part, e)
  BY <1>3 DEF AssignedBlocks
<1>5. g.pins_in_part = [e \in Nets |-> [p \in Parts |-> h.pins_in_part[e][p] + count[e][p]]]
  BY <1>2 DEF IsHypergraph
<1>6. g.connectivity = [e \in Nets |-> h.connectivity[e] + Cardinality({p \in Parts : count[e][p] > 0})]
  BY <1>2 DEF IsHypergraph
<1>7. g.connectivity_set = [e \in Nets |-> h.connectivity_set[e] \cup {p \in Parts : count[e][p] > 0}]
  BY <1>2 DEF IsHypergraph
<1>8. CountsAssigned(h, g, part)
  <2> SUFFICES ASSUME NEW e \in Nets
               PROVE  /\ g.pins_in_part[e] = [p \in Parts |-> h.pins_in_part[e][p] + AssignedPins(h, part, e, p)]
                      /\ g.connectivity[e] = h.connectivity[e] + Cardinality(AssignedBlocks(h, part, e))
                      /\ g.connectivity_set[e] = h.connectivity_set[e] \cup AssignedBlocks(h, part, e)
    BY DEF CountsAssigned
  <2>1. g.pins_in_part[e] = [p \in Parts |-> h.pins_in_part[e][p] + count[e][p]]
    BY <1>5
  <2>2. \A p \in Parts : count[e][p] = AssignedPins(h, part, e, p)
    BY <1>3
  <2>3. g.pins_in_part[e] = [p \in Parts |-> h.pins_in_part[e][p] + AssignedPins(h, part, e, p)]
    BY <2>1, <2>2
  <2>4. /\ g.connectivity[e] = h.connectivity[e] + Cardinality({p \in Parts : count[e][p] > 0})
        /\ g.connectivity_set[e] = h.connectivity_set[e] \cup {p \in Parts : count[e][p] > 0}
    BY <1>6, <1>7
  <2> QED
    BY <1>4, <2>3, <2>4
<1>9. g.part_weight = [p \in Parts |-> h.part_weight[p] + MapThenSumSet(LAMBDA u : h.weight[u], {u \in h.on : part[u] = p})]
  BY <1>2 DEF IsHypergraph
<1>10. g.part_weight = [p \in Parts |-> h.part_weight[p] + SumOver(h.weight, NodesIn(h, part, p))]
  BY <1>9, Zenon DEF SumOver, NodesIn
<1>11. /\ g.part = [u \in Nodes |-> IF u \in h.on THEN part[u] ELSE h.part[u]]
       /\ g.hash = h.hash /\ g.fixed_weight = h.fixed_weight /\ g.num_cut = h.num_cut
  BY <1>2 DEF IsHypergraph
<1> QED
  BY <1>8, <1>10, <1>11 DEF Assigned

(* reset: no node has a block, and everything kept is computed anew.        *)
FixedIn(h, p) == {u \in h.fixed : h.fixed_part[u] = p}
IsReset(h, g) ==
  /\ g.part = [u \in Nodes |-> kInvalidPartition] /\ g.part_weight = [p \in Parts |-> 0]
  /\ g.num_cut = [u \in Nodes |-> 0]
  /\ g.pins_in_part = [e \in Nets |-> [p \in Parts |-> 0]]
  /\ g.connectivity = [e \in Nets |-> 0] /\ g.connectivity_set = [e \in Nets |-> {}]
  /\ g.fixed_weight = [p \in Parts |-> SumOver(h.weight, FixedIn(h, p))]
  /\ g.hash = [e \in Nets |-> HashOf(pins(h, e))]
(* reset drops the partition, and computes the hashes anew.                 *)
LEMMA ResetInfo ==
  ASSUME NEW h, IsHypergraph(h), NEW g, g = reset(h)
  PROVE  IsReset(h, g)
<1>1. PICK r : r = resetPartitioning(h)
  OBVIOUS
<1>2. r = [h EXCEPT
     !.part = [u \in Nodes |-> kInvalidPartition], !.num_cut = [u \in Nodes |-> 0],
     !.part_weight = [p \in Parts |-> 0], !.part_size = [p \in Parts |-> 0],
     !.fixed_weight =
       [p \in Parts |-> MapThenSumSet(LAMBDA u : h.weight[u],
                                      {u \in h.fixed : h.fixed_part[u] = p})],
     !.pins_in_part = [e \in Nets |-> [p \in Parts |-> 0]],
     !.connectivity = [e \in Nets |-> 0], !.connectivity_set = [e \in Nets |-> {}]]
  BY <1>1, Zenon DEF resetPartitioning
<1>3. g = [r EXCEPT !.hash = [e \in Nets |-> HashOf(pins(h, e))]]
  BY <1>1, Zenon DEF reset
<1>4. IsHypergraph(r)
  BY <1>2 DEF IsHypergraph
<1>5. r.fixed_weight = [p \in Parts |-> MapThenSumSet(LAMBDA u : h.weight[u], {u \in h.fixed : h.fixed_part[u] = p})]
  BY <1>2 DEF IsHypergraph
<1>6. r.fixed_weight = [p \in Parts |-> SumOver(h.weight, FixedIn(h, p))]
  BY <1>5, Zenon DEF SumOver, FixedIn
<1>7. g.fixed_weight = r.fixed_weight /\ g.hash = [e \in Nets |-> HashOf(pins(h, e))]
  BY <1>3, <1>4 DEF IsHypergraph
<1>8. /\ g.part = [u \in Nodes |-> kInvalidPartition] /\ g.part_weight = [p \in Parts |-> 0]
      /\ g.num_cut = [u \in Nodes |-> 0]
      /\ g.pins_in_part = [e \in Nets |-> [p \in Parts |-> 0]]
      /\ g.connectivity = [e \in Nets |-> 0] /\ g.connectivity_set = [e \in Nets |-> {}]
  BY <1>2, <1>3, <1>4 DEF IsHypergraph
<1> QED
  BY <1>6, <1>7, <1>8 DEF IsReset

(* initializeNumCutHyperedges and resetEdgeHashes.                          *)
LEMMA InitializeNumCutInfo ==
  ASSUME NEW h, IsHypergraph(h), NEW g, g = initializeNumCutHyperedges(h)
  PROVE  /\ SameBlocks(h, g) /\ SameCounts(h, g) /\ g.hash = h.hash /\ g.fixed_weight = h.fixed_weight
         /\ g.num_cut = [u \in Nodes |-> Cardinality({e \in h.live : h.connectivity[e] > 1 /\ u \in pins(h, e)})]
<1>1. SameBlocks(h, g) /\ SameCounts(h, g) /\ g.hash = h.hash /\ g.fixed_weight = h.fixed_weight
  BY DEF IsHypergraph, initializeNumCutHyperedges, SameBlocks, SameCounts
<1>2. g.num_cut = [u \in Nodes |-> Cardinality({e \in h.live : h.connectivity[e] > 1 /\ u \in pins(h, e)})]
  BY DEF IsHypergraph, initializeNumCutHyperedges
<1> QED
  BY <1>1, <1>2
(* resetEdgeHashes computes the hashes only.                                *)
LEMMA ResetEdgeHashesInfo ==
  ASSUME NEW h, IsHypergraph(h), NEW g, g = resetEdgeHashes(h)
  PROVE  /\ SameBlocks(h, g) /\ SameCounts(h, g) /\ g.num_cut = h.num_cut /\ g.fixed_weight = h.fixed_weight
         /\ g.hash = [e \in Nets |-> IF e \in h.live THEN HashOf(pins(h, e)) ELSE h.hash[e]]
BY DEF IsHypergraph, resetEdgeHashes, SameBlocks, SameCounts

-----------------------------------------------------------------------------
(* Fixed vertices.                                                          *)

(* The weight of the fixed vertices of every block is kept right.           *)
FixedSums(h) ==
  h.fixed_weight \in [Parts -> Int] /\ \A p \in Parts : h.fixed_weight[p] = SumOver(h.weight, FixedIn(h, p))

(* The weights of the fixed vertices as sums.                               *)
LEMMA FixedSumsAre ==
  ASSUME NEW h
  PROVE  FixedSums(h) <=> h.fixed_weight \in [Parts -> Int] /\ FixedWeightsAreRight(h)
BY Zenon DEF FixedSums, FixedWeightsAreRight, SumOver, FixedIn

(* f is the hypergraph c after v was taken out of u.                        *)
Parted(c, f, u, v) ==
  /\ c.on \subseteq Nodes /\ u \in c.on /\ v \in Nodes \ c.on /\ f.on = c.on \cup {v}
  /\ FixedAreOn(c) /\ FixedAreOn(f) /\ f.fixed_part = c.fixed_part
  /\ \A w \in f.on : f.weight[w] \in Int
  /\ c.weight[u] = f.weight[u] + f.weight[v] /\ \A w \in c.on \ {u} : c.weight[w] = f.weight[w]
  /\ isFixedVertex(c, v) => isFixedVertex(c, u) /\ c.fixed_part[u] = c.fixed_part[v]

(* What v brings to the fixed vertices of block p.                          *)
Brought(f, u, v, p) ==
  IF isFixedVertex(f, u) /\ ~isFixedVertex(f, v) /\ p = f.fixed_part[u] THEN f.weight[v] ELSE 0

(* A summand that is d larger makes the sum d larger.                       *)
ChangedAt(t, a, D, i, d) ==
  /\ IsFiniteSet(D) /\ i \in D /\ d \in Int /\ t[i] = a[i] + d
  /\ (\A j \in D \ {i} : t[j] = a[j]) /\ \A j \in D : a[j] \in Int

(* A sum that changes in one place.                                         *)
LEMMA SumChangedAt ==
  ASSUME NEW t, NEW a, NEW D, NEW i, NEW d, ChangedAt(t, a, D, i, d)
  PROVE  SumOver(t, D) = SumOver(a, D) + d
BY SumChangedBy DEF ChangedAt

(* Only a free node that is contracted into a fixed one changes the sums.   *)
LEMMA FixedSumsDiffer ==
  ASSUME NEW c, NEW f, NEW u, NEW v, Parted(c, f, u, v), NEW p \in Parts
  PROVE  /\ SumOver(f.weight, FixedIn(f, p)) \in Int
         /\ SumOver(c.weight, FixedIn(c, p)) = SumOver(f.weight, FixedIn(f, p)) + Brought(f, u, v, p)
         /\ Brought(f, u, v, p) \in Int
<1> DEFINE F == FixedIn(f, p)
           C == FixedIn(c, p)
           In(w) == c.fixed_part[w] # kInvalidPartition /\ c.fixed_part[w] = p
<1>1. /\ c.on \subseteq Nodes /\ u \in c.on /\ v \in Nodes \ c.on /\ f.on = c.on \cup {v} /\ u # v
      /\ f.fixed_part = c.fixed_part
      /\ \A w \in f.on : f.weight[w] \in Int
      /\ c.weight[u] = f.weight[u] + f.weight[v] /\ \A w \in c.on \ {u} : c.weight[w] = f.weight[w]
  BY DEF Parted
<1>2. F = {w \in f.on : In(w)} /\ C = {w \in c.on : In(w)}
  BY DEF Parted, FixedIn, FixedAreOn
<1>3. IsFiniteSet(F) /\ IsFiniteSet(C)
  BY <1>1, <1>2, KHypergraphAssumption, FS_Subset
<1>4. \A w \in F : f.weight[w] \in Int
  BY <1>1, <1>2
<1>5. SumOver(f.weight, F) \in Int
  BY <1>3, <1>4, SumType
<1>6. Brought(f, u, v, p) \in Int
  BY <1>1 DEF Brought
<1>7. p # kInvalidPartition
  BY DEF Parts, kInvalidPartition
<1>8. In(v) => In(u)
  BY DEF Parted, isFixedVertex
<1>9. CASE ~In(u)
  <2>1. F = C /\ u \notin F /\ v \notin F
    BY <1>1, <1>2, <1>8, <1>9
  <2>2. \A w \in F : c.weight[w] = f.weight[w]
    BY <1>1, <1>2, <2>1
  <2>3. SumOver(c.weight, C) = SumOver(f.weight, F)
    BY <1>3, <2>1, <2>2, SumSame
  <2>4. Brought(f, u, v, p) = 0
    BY <1>1, <1>9 DEF Brought, isFixedVertex
  <2> QED
    BY <1>5, <1>6, <2>3, <2>4
<1>10. CASE In(u) /\ ~In(v)
  <2>1. F = C /\ u \in F /\ v \notin F
    BY <1>1, <1>2, <1>10
  <2>2. \A w \in F \ {u} : c.weight[w] = f.weight[w]
    BY <1>1, <1>2, <2>1
  <2>3. f.weight[v] \in Int
    BY <1>1
  <2>4. SumOver(c.weight, F) = SumOver(f.weight, F) + f.weight[v]
    <3>1. ChangedAt(c.weight, f.weight, F, u, f.weight[v])
      BY <1>1, <1>3, <1>4, <2>1, <2>2, <2>3 DEF ChangedAt
    <3> HIDE DEF F
    <3> QED
      BY <3>1, SumChangedAt
  <2>5. isFixedVertex(c, v) => In(v)
    BY <1>10 DEF Parted, isFixedVertex
  <2>6. Brought(f, u, v, p) = f.weight[v]
    BY <1>1, <1>10, <2>5 DEF Brought, isFixedVertex
  <2> QED
    BY <1>5, <1>6, <2>1, <2>4, <2>6
<1>11. CASE In(u) /\ In(v)
  <2>1. F = C \cup {v} /\ u \in C /\ v \notin C
    BY <1>1, <1>2, <1>11
  <2>2. \A w \in C \ {u} : c.weight[w] = f.weight[w]
    BY <1>1, <1>2, <2>1
  <2>3. f.weight[v] \in Int /\ \A w \in C : f.weight[w] \in Int
    BY <1>1, <1>4, <2>1
  <2>4. SumOver(c.weight, C) = SumOver(f.weight, C) + f.weight[v]
    <3>1. ChangedAt(c.weight, f.weight, C, u, f.weight[v])
      BY <1>1, <1>3, <2>1, <2>2, <2>3 DEF ChangedAt
    <3> HIDE DEF C
    <3> QED
      BY <3>1, SumChangedAt
  <2>5. SumOver(f.weight, C \cup {v}) = f.weight[v] + SumOver(f.weight, C)
    BY <1>3, <2>1, <2>3, SumAdd
  <2>6. SumOver(f.weight, C) \in Int
    BY <1>3, <2>3, SumType
  <2>7. Brought(f, u, v, p) = 0
    BY <1>1, <1>11 DEF Brought, isFixedVertex
  <2> QED
    BY <1>5, <1>6, <2>1, <2>3, <2>4, <2>5, <2>6, <2>7
<1> QED
  BY <1>9, <1>10, <1>11

(* A contraction and its undoing are such hypergraphs.                      *)
LEMMA ContractionParts ==
  ASSUME NEW h, WellFormed(h), NEW u, NEW v, MayContract(h, u, v), NEW g, g = contract(h, u, v)
  PROVE  Parted(g, h, u, v)
<1>1. u \in h.on /\ v \in h.on /\ u # v /\ (isFixedVertex(h, v) => isFixedVertex(h, u) /\ h.fixed_part[u] = h.fixed_part[v])
  BY DEF MayContract
<1>2. After(h, g, u, v)
  BY <1>1, ContractKeepsForm
<1>3. h.on \subseteq Nodes /\ h.weight \in [Nodes -> Int] /\ FixedAreOn(h)
  BY DEF WellFormed, Typed
<1>4. WellFormed(g) /\ g.on = h.on \ {v} /\ g.fixed_part = h.fixed_part
  BY <1>2 DEF After
<1>5. h.weight[u] + h.weight[v] = g.weight[u] /\ \A w \in g.on \ {u} : g.weight[w] = h.weight[w]
  BY <1>2 DEF After
<1>6. FixedAreOn(g)
  BY <1>4 DEF WellFormed
<1>7. u \in g.on /\ v \in Nodes \ g.on /\ h.on = g.on \cup {v} /\ g.on \subseteq Nodes
  BY <1>1, <1>3, <1>4
<1> QED
  BY <1>1, <1>3, <1>4, <1>5, <1>6, <1>7 DEF Parted, isFixedVertex

(* So does an uncontraction, read backwards.                                *)
LEMMA UncontractionParts ==
  ASSUME NEW h, WellFormed(h), NEW u \in h.on, NEW v \in Nodes \ h.on, NEW P, NEW g, Before(h, g, u, v, P),
         isFixedVertex(h, v) => isFixedVertex(h, u) /\ h.fixed_part[u] = h.fixed_part[v]
  PROVE  Parted(h, g, u, v)
<1>1. h.on \subseteq Nodes /\ h.weight \in [Nodes -> Int] /\ FixedAreOn(h)
  BY DEF WellFormed, Typed
<1>2. WellFormed(g) /\ g.on = h.on \cup {v} /\ g.fixed_part = h.fixed_part
  BY DEF Before
<1>3. FixedAreOn(g) /\ g.weight \in [Nodes -> Int]
  BY <1>2 DEF WellFormed, Typed
<1>4. g.weight[u] = h.weight[u] - h.weight[v] /\ \A w \in Nodes \ {u} : g.weight[w] = h.weight[w]
  BY DEF Before
<1>5. h.weight[u] = g.weight[u] + g.weight[v]
  <2>1. g.weight[v] = h.weight[v] /\ h.weight[v] \in Int /\ h.weight[u] \in Int
    BY <1>1, <1>4
  <2> QED
    BY <1>4, <2>1
<1>6. \A w \in h.on \ {u} : h.weight[w] = g.weight[w]
  BY <1>1, <1>4
<1>7. \A w \in g.on : g.weight[w] \in Int
  BY <1>1, <1>2, <1>3
<1> QED
  BY <1>1, <1>2, <1>3, <1>5, <1>6, <1>7 DEF Parted

(* They change the weights of the fixed vertices by what v brings.          *)
LEMMA ContractKeepsFixedSums ==
  ASSUME NEW h, NEW g, NEW u, NEW v, Parted(g, h, u, v), FixedSums(h), FixedWeightContracted(h, g, u, v)
  PROVE  FixedSums(g)
<1>1. \A p \in Parts : /\ SumOver(g.weight, FixedIn(g, p)) = SumOver(h.weight, FixedIn(h, p)) + Brought(h, u, v, p)
                       /\ Brought(h, u, v, p) \in Int
  BY FixedSumsDiffer
<1>2. h.fixed_weight \in [Parts -> Int] /\ \A p \in Parts : h.fixed_weight[p] = SumOver(h.weight, FixedIn(h, p))
  BY DEF FixedSums
<1>3. h.weight[v] \in Int
  BY DEF Parted
<1>4. g.fixed_weight \in [Parts -> Int] /\ \A p \in Parts : g.fixed_weight[p] = h.fixed_weight[p] + Brought(h, u, v, p)
  <2>1. CASE isFixedVertex(h, u) /\ ~isFixedVertex(h, v)
    <3>1. g.fixed_weight = [p \in Parts |-> h.fixed_weight[p] + (IF p = h.fixed_part[u] THEN h.weight[v] ELSE 0)]
      BY <2>1 DEF FixedWeightContracted
    <3>2. \A p \in Parts : Brought(h, u, v, p) = IF p = h.fixed_part[u] THEN h.weight[v] ELSE 0
      BY <2>1 DEF Brought
    <3> QED
      BY <1>2, <1>3, <3>1, <3>2
  <2>2. CASE ~(isFixedVertex(h, u) /\ ~isFixedVertex(h, v))
    <3>1. g.fixed_weight = h.fixed_weight
      BY <2>2 DEF FixedWeightContracted
    <3>2. \A p \in Parts : Brought(h, u, v, p) = 0
      BY <2>2 DEF Brought
    <3> QED
      BY <1>2, <3>1, <3>2
  <2> QED
    BY <2>1, <2>2
<1> QED
  BY <1>1, <1>2, <1>4 DEF FixedSums

(* An uncontraction keeps the weights of the fixed vertices.                *)
LEMMA UncontractKeepsFixedSums ==
  ASSUME NEW h, NEW g, NEW u, NEW v, Parted(h, g, u, v), h.weight[v] = g.weight[v], FixedSums(h),
         FixedWeightRestored(h, g, u, v)
  PROVE  FixedSums(g)
<1>1. \A p \in Parts : /\ SumOver(h.weight, FixedIn(h, p)) = SumOver(g.weight, FixedIn(g, p)) + Brought(g, u, v, p)
                       /\ SumOver(g.weight, FixedIn(g, p)) \in Int
                       /\ Brought(g, u, v, p) \in Int
  BY FixedSumsDiffer
<1>2. h.fixed_weight \in [Parts -> Int] /\ \A p \in Parts : h.fixed_weight[p] = SumOver(h.weight, FixedIn(h, p))
  BY DEF FixedSums
<1>3. g.weight[v] \in Int /\ g.fixed_part = h.fixed_part
  BY DEF Parted
<1>4. g.fixed_weight \in [Parts -> Int] /\ \A p \in Parts : g.fixed_weight[p] = h.fixed_weight[p] - Brought(g, u, v, p)
  <2>1. CASE isFixedVertex(h, u) /\ ~isFixedVertex(h, v)
    <3>1. g.fixed_weight = [p \in Parts |-> h.fixed_weight[p] - (IF p = h.fixed_part[u] THEN h.weight[v] ELSE 0)]
      BY <2>1 DEF FixedWeightRestored
    <3>2. \A p \in Parts : Brought(g, u, v, p) = IF p = h.fixed_part[u] THEN h.weight[v] ELSE 0
      BY <1>3, <2>1 DEF Brought, isFixedVertex
    <3> QED
      BY <1>2, <1>3, <3>1, <3>2
  <2>2. CASE ~(isFixedVertex(h, u) /\ ~isFixedVertex(h, v))
    <3>1. g.fixed_weight = h.fixed_weight
      BY <2>2 DEF FixedWeightRestored
    <3>2. \A p \in Parts : Brought(g, u, v, p) = 0
      BY <1>3, <2>2 DEF Brought, isFixedVertex
    <3> QED
      BY <1>2, <3>1, <3>2
  <2> QED
    BY <2>1, <2>2
<1>5. \A p \in Parts : g.fixed_weight[p] = SumOver(g.weight, FixedIn(g, p))
  <2> SUFFICES ASSUME NEW p \in Parts PROVE g.fixed_weight[p] = SumOver(g.weight, FixedIn(g, p))
    OBVIOUS
  <2>1. PICK x \in Int, y \in Int : x = SumOver(g.weight, FixedIn(g, p)) /\ y = Brought(g, u, v, p)
    BY <1>1
  <2>2. g.fixed_weight[p] = (x + y) - y
    BY <1>1, <1>2, <1>4, <2>1
  <2> QED
    BY <2>1, <2>2
<1> QED
  BY <1>4, <1>5 DEF FixedSums

(* What leaves the nodes alone keeps the sums, and reset computes them.     *)
LEMMA SameFixedSums ==
  ASSUME NEW h, NEW g, FixedSums(h), g.fixed_weight = h.fixed_weight, g.weight = h.weight, g.fixed = h.fixed,
         g.fixed_part = h.fixed_part
  PROVE  FixedSums(g)
<1>1. \A p : FixedIn(g, p) = FixedIn(h, p)
  BY DEF FixedIn
<1> QED
  BY <1>1 DEF FixedSums
(* reset keeps them as well.                                                *)
LEMMA ResetFixedSums ==
  ASSUME NEW h, WellFormed(h), NEW g, IsReset(h, g), g.weight = h.weight, g.fixed = h.fixed, g.fixed_part = h.fixed_part
  PROVE  FixedSums(g)
<1>1. \A p : FixedIn(g, p) = FixedIn(h, p)
  BY DEF FixedIn
<1>2. \A p : IsFiniteSet(FixedIn(h, p)) /\ \A w \in FixedIn(h, p) : h.weight[w] \in Int
  <2>1. h.on \subseteq Nodes /\ h.weight \in [Nodes -> Int] /\ h.fixed \subseteq h.on
    BY DEF WellFormed, Typed, FixedAreOn
  <2>2. \A p : FixedIn(h, p) \subseteq Nodes
    BY <2>1 DEF FixedIn
  <2> QED
    BY <2>1, <2>2, KHypergraphAssumption, FS_Subset
<1>3. \A p : SumOver(h.weight, FixedIn(h, p)) \in Int
  BY <1>2, SumType
<1>4. g.fixed_weight = [p \in Parts |-> SumOver(h.weight, FixedIn(h, p))]
  BY DEF IsReset
<1> QED
  BY <1>1, <1>3, <1>4 DEF FixedSums

-----------------------------------------------------------------------------
(* The operations of a contraction and of its undoing, one after the other. *)

PushOps(h, u, v, c, S, d, R, P, a, f) ==
  /\ c = contract(h, u, v) /\ S = SingleNodeHyperedges(c, u) /\ d = removeEdges(c, S)
  /\ R \in Representatives(d, u) /\ P = ParallelHyperedges(d, u, R)
  /\ a = AddToWeights(d, P, 1) /\ f = removeEdges(a, RemovedNets(P))

PushSteps(h, u, v, c, S, d, R, P, a, f) ==
  /\ After(h, c, u, v) /\ EdgesGone(c, d, S) /\ Reweighted(d, a, P, 1) /\ EdgesGone(a, f, RemovedNets(P))
  /\ Coarsened(h, f, u, v, S, P)
  /\ S \subseteq c.live /\ RemovedNets(P) \subseteq d.live

(* Each works on a well-formed hypergraph.                                  *)
LEMMA PushIs ==
  ASSUME NEW h, WellFormed(h), NEW u, NEW v, MayContract(h, u, v),
         NEW c, NEW S, NEW d, NEW R, NEW P, NEW a, NEW f, PushOps(h, u, v, c, S, d, R, P, a, f)
  PROVE  PushSteps(h, u, v, c, S, d, R, P, a, f)
<1>1. /\ u \in h.on /\ v \in h.on /\ u # v
      /\ isFixedVertex(h, v) => isFixedVertex(h, u)
  BY DEF MayContract
<1>2. /\ c = contract(h, u, v) /\ S = SingleNodeHyperedges(c, u) /\ d = removeEdges(c, S)
      /\ R \in Representatives(d, u) /\ P = ParallelHyperedges(d, u, R)
      /\ a = AddToWeights(d, P, 1) /\ f = removeEdges(a, RemovedNets(P))
  BY DEF PushOps
<1>3. After(h, c, u, v)
  BY <1>1, <1>2, ContractKeepsForm
<1>4. WellFormed(c) /\ c.on = h.on \ {v}
  BY <1>3 DEF After
<1>5. S \in SUBSET c.live
  BY <1>1, <1>2, <1>4 DEF SingleNodeHyperedges, WellFormed, Incident
<1>6. EdgesGone(c, d, S)
  BY <1>2, <1>4, <1>5, RemoveEdgesKeepsForm
<1>7. WellFormed(d) /\ d.on = c.on
  BY <1>6 DEF EdgesGone
<1>8. \A p \in P : p.representative \in R /\ p.removed \in d.nets[u] \ R /\ R \subseteq d.nets[u]
  BY <1>2, RepresentativesStay
<1>9. d.nets[u] \subseteq d.live /\ d.live \subseteq Nets
  BY <1>1, <1>4, <1>7 DEF WellFormed, Incident, Typed
<1>10. \A p \in P : p.removed \in Nets
  BY <1>8, <1>9
<1>11. Reweighted(d, a, P, 1)
  BY <1>2, <1>7, <1>10, AddToWeightsKeepsForm
<1>12. WellFormed(a) /\ a.live = d.live
  BY <1>11 DEF Reweighted
<1>13. RemovedNets(P) \in SUBSET a.live
  BY <1>8, <1>9, <1>12 DEF RemovedNets
<1>14. EdgesGone(a, f, RemovedNets(P))
  BY <1>2, <1>12, <1>13, RemoveEdgesKeepsForm
<1>15. d = removeSingleNodeHyperedges(c, u)
  BY <1>2 DEF removeSingleNodeHyperedges
<1>16. f = removeParallelHyperedges(d, P)
  BY <1>2 DEF removeParallelHyperedges, RemovedNets
<1>17. Coarsened(h, f, u, v, S, P)
  BY <1>1, <1>2, <1>15, <1>16, ContractionIs
<1> QED
  BY <1>3, <1>5, <1>6, <1>11, <1>12, <1>13, <1>14, <1>17 DEF PushSteps

(* performContraction is these operations.                                  *)
Pushes(h, u, v, f, H, H1, m) ==
  /\ m.u = u /\ m.v = v /\ H1 = Append(H, m)
  /\ \E c, S, d, R, P, a : PushOps(h, u, v, c, S, d, R, P, a, f)

(* performContraction is such a sequence of operations.                     *)
LEMMA PushHappens ==
  ASSUME NEW u, NEW v, performContraction(u, v)
  PROVE  /\ \E m : Pushes(hg, u, v, hg', history, history', m)
         /\ levels' = Append(levels, Structure(hg'))
<1>1. PICK h, H : h = hg /\ H = history
  OBVIOUS
<1>2. PICK c, S : c = contract(h, u, v) /\ S = SingleNodeHyperedges(c, u)
  OBVIOUS
<1>3. PICK d : d = removeSingleNodeHyperedges(c, u)
  OBVIOUS
<1>4. PICK R \in Representatives(d, u) :
        /\ hg' = removeParallelHyperedges(d, ParallelHyperedges(d, u, R))
        /\ history' = Append(history,
             [u |-> u, v |-> v,
              one_pin_hes_begin |-> Len(removed_single), one_pin_hes_size |-> Len(SetToSeq(S)),
              parallel_hes_begin |-> Len(removed_parallel),
              parallel_hes_size |-> Cardinality(ParallelHyperedges(d, u, R))])
        /\ levels' = Append(levels, Structure(hg'))
  BY <1>1, <1>2, <1>3 DEF performContraction
<1>5. PICK P : P = ParallelHyperedges(d, u, R)
  OBVIOUS
<1>6. PICK a : a = AddToWeights(d, P, 1)
  OBVIOUS
<1>7. PICK f : f = removeEdges(a, RemovedNets(P))
  OBVIOUS
<1>8. hg' = f
  BY <1>4, <1>5, <1>6, <1>7 DEF removeParallelHyperedges, RemovedNets
<1>9. PICK m : m = [u |-> u, v |-> v,
                    one_pin_hes_begin |-> Len(removed_single), one_pin_hes_size |-> Len(SetToSeq(S)),
                    parallel_hes_begin |-> Len(removed_parallel), parallel_hes_size |-> Cardinality(P)]
  OBVIOUS
<1>10. m.u = u /\ m.v = v /\ history' = Append(H, m)
  BY <1>1, <1>4, <1>5, <1>9
<1>11. d = removeEdges(c, S)
  BY <1>2, <1>3 DEF removeSingleNodeHyperedges
<1>12. PushOps(h, u, v, c, S, d, R, P, a, f)
  BY <1>2, <1>4, <1>5, <1>6, <1>7, <1>11 DEF PushOps
<1> QED
  BY <1>1, <1>4, <1>8, <1>10, <1>12 DEF Pushes

(* What Uncontract does, with the nets that the memento names.              *)
PopOps(h, m, S, P, cut, c, a, s, g) ==
  /\ cut = {p.removed : p \in {q \in P : h.connectivity[q.representative] > 1}}
  /\ c = restoreEdges(h, RemovedNets(P), cut) /\ a = AddToWeights(c, P, -1)
  /\ s = restoreEdges(a, S, {}) /\ g = uncontract(s, m.u, m.v)

NamedNets(m, RS, RP, S, P) ==
  /\ P = ToSet(SubSeq(RP, m.parallel_hes_begin + 1, m.parallel_hes_begin + m.parallel_hes_size))
  /\ S = ToSet(SubSeq(RS, m.one_pin_hes_begin + 1, m.one_pin_hes_begin + m.one_pin_hes_size))

Pops(h, H, RS, RP, m, S, P, cut, c, a, s, g) ==
  m = Last(H) /\ NamedNets(m, RS, RP, S, P) /\ PopOps(h, m, S, P, cut, c, a, s, g)

(* So is Uncontract.                                                        *)
LEMMA PopHappens ==
  ASSUME Uncontract
  PROVE  /\ \E m, S, P, cut, c, a, s : Pops(hg, history, removed_single, removed_parallel, m, S, P, cut, c, a, s, hg')
         /\ history # <<>> /\ history' = Front(history) /\ levels' = Front(levels)
<1>1. PICK h, H, RS, RP : h = hg /\ H = history /\ RS = removed_single /\ RP = removed_parallel
  OBVIOUS
<1>2. PICK m : m = Last(H)
  OBVIOUS
<1>3. PICK P, S :
        /\ P = ToSet(SubSeq(RP, m.parallel_hes_begin + 1, m.parallel_hes_begin + m.parallel_hes_size))
        /\ S = ToSet(SubSeq(RS, m.one_pin_hes_begin + 1, m.one_pin_hes_begin + m.one_pin_hes_size))
  OBVIOUS
<1>4. PICK cut : cut = {p.removed : p \in {q \in P : h.connectivity[q.representative] > 1}}
  OBVIOUS
<1>5. PICK c : c = restoreEdges(h, RemovedNets(P), cut)
  OBVIOUS
<1>6. PICK a : a = AddToWeights(c, P, -1)
  OBVIOUS
<1>7. PICK s : s = restoreEdges(a, S, {})
  OBVIOUS
<1>8. PICK g : g = uncontract(s, m.u, m.v)
  OBVIOUS
<1>9. H # <<>> /\ history' = Front(H) /\ levels' = Front(levels)
  BY <1>1 DEF Uncontract
<1>10. a = restoreParallelHyperedges(hg, m)
  BY <1>1, <1>3, <1>4, <1>5, <1>6 DEF restoreParallelHyperedges, RemovedNets
<1>11. s = restoreSingleNodeHyperedges(a, m)
  BY <1>1, <1>3, <1>7 DEF restoreSingleNodeHyperedges
<1>12. hg' = uncontract(s, m.u, m.v)
  BY <1>1, <1>2, <1>10, <1>11 DEF Uncontract
<1>13. PopOps(h, m, S, P, cut, c, a, s, g) /\ NamedNets(m, RS, RP, S, P)
  BY <1>3, <1>4, <1>5, <1>6, <1>7, <1>8 DEF PopOps, NamedNets
<1>14. Pops(h, H, RS, RP, m, S, P, cut, c, a, s, g)
  BY <1>2, <1>13 DEF Pops
<1> QED
  BY <1>1, <1>8, <1>9, <1>12, <1>14

(* On a level that was not cut short, each works on a well-formed one.      *)
LEMMA PopIs ==
  ASSUME NEW h, NEW H, NEW RS, NEW RP, NEW LV, LevelsInv(h, H, RS, RP, LV), NEW n \in Nat, n + 1 = Len(H),
         NEW m, NEW S, NEW P, NEW cut, NEW c, NEW a, NEW s, NEW g,
         Pops(h, H, RS, RP, m, S, P, cut, c, a, s, g)
  PROVE  /\ m = H[n + 1] /\ S = Single(RS, m) /\ P = Parallel(RP, m)
         /\ LevelOK(LV[n + 1], h.fixed_part) /\ Structure(h) = LV[n + 2]
         /\ Kept(h, LV[n + 1], LV[n + 2], m, S, P)
         /\ UncontractedBy(h, LV[n + 1], m, S, P, c, a, s, g)
<1>1. WellFormed(h) /\ IsList(H) /\ IsList(RS) /\ IsList(RP) /\ IsList(LV) /\ MementosOK(H, RS, RP)
  BY DEF LevelsInv
<1>2. m = H[n + 1] /\ NamedNets(m, RS, RP, S, P) /\ PopOps(h, m, S, P, cut, c, a, s, g)
  BY DEF Pops, Last
<1>3. n + 1 \in 1 .. Len(H) /\ Len(LV) = n + 2 /\ n + 1 \in 1 .. Len(LV)
  BY DEF LevelsInv
<1>4. /\ m.one_pin_hes_begin \in Nat /\ m.one_pin_hes_size \in Nat
      /\ m.one_pin_hes_begin + m.one_pin_hes_size <= Len(RS)
      /\ m.parallel_hes_begin \in Nat /\ m.parallel_hes_size \in Nat
      /\ m.parallel_hes_begin + m.parallel_hes_size <= Len(RP)
  BY <1>1, <1>2, <1>3, MementosSegments
<1>5. S = Single(RS, m)
  BY <1>1, <1>2, <1>4, SegmentIsSubSeq DEF Single, NamedNets
<1>6. P = Parallel(RP, m)
  BY <1>1, <1>2, <1>4, SegmentIsSubSeq DEF Parallel, NamedNets
<1>7. PICK A, B : A = LV[n + 1] /\ B = LV[n + 2]
  OBVIOUS
<1>8. Structure(h) = B
  BY <1>3, <1>7 DEF LevelsInv
<1>9. LevelOK(A, h.fixed_part) /\ TailsOK(h, A)
  BY <1>3, <1>7 DEF LevelsInv, IsOn
<1>10. Kept(h, A, B, m, S, P)
  <2>1. (n + 1) + 1 = n + 2
    OBVIOUS
  <2>2. Kept(h, LV[n + 1], LV[(n + 1) + 1], H[n + 1], Single(RS, H[n + 1]), Parallel(RP, H[n + 1]))
    BY <1>3 DEF LevelsInv
  <2> QED
    BY <1>2, <1>5, <1>6, <1>7, <2>1, <2>2
<1>11. Coarser(A, B, m, S, P, h.fixed_part) /\ Hidden(h, A, m, S \cup RemovedNets(P))
  BY <1>10 DEF Kept
<1>12. /\ c = restoreEdges(h, RemovedNets(P), cut) /\ a = AddToWeights(c, P, -1)
       /\ s = restoreEdges(a, S, {}) /\ g = uncontract(s, m.u, m.v)
  BY <1>2 DEF PopOps
<1>13. UncontractedBy(h, A, m, S, P, c, a, s, g)
  BY <1>1, <1>8, <1>9, <1>11, <1>12, UncontractionSteps
<1> QED
  BY <1>2, <1>5, <1>6, <1>7, <1>8, <1>9, <1>10, <1>13

-----------------------------------------------------------------------------
(* Folds over a history.                                                    *)

(* The numbers of T have a minimum.                                         *)
HasMinimum(T) == \E x \in T : \A y \in T : x <= y

(* A finite set of numbers has one, and Min is it.                          *)
LEMMA FiniteMinimum ==
  ASSUME NEW S, S \subseteq Int, IsFiniteSet(S), S # {}
  PROVE  Min(S) \in S /\ \A y \in S : Min(S) <= y
<1>1. HasMinimum(S)
  <2> SUFFICES ASSUME ~HasMinimum(S) PROVE FALSE
    OBVIOUS
  <2>1. PICK T : T = {X \in SUBSET S : X # {} /\ ~HasMinimum(X)}
    OBVIOUS
  <2>2. PICK X \in T : \A Y \in T : Y \subseteq X => Y = X
    <3>1. T \in SUBSET SUBSET S
      BY <2>1
    <3>2. S \in T
      BY <2>1
    <3>3. HasMinimal(T)
      BY <3>1, <3>2, SomeIsMinimal
    <3> QED
      BY <3>3 DEF HasMinimal
  <2>3. PICK x : x \in X
    BY <2>1
  <2>4. PICK Y : Y = X \ {x}
    OBVIOUS
  <2>5. Y = {} \/ HasMinimum(Y)
    BY <2>1, <2>2, <2>3, <2>4
  <2>6. X \subseteq Int /\ ~HasMinimum(X) /\ X = Y \cup {x}
    BY <2>1, <2>3, <2>4
  <2>7. CASE Y = {}
    <3>1. X = {x} /\ x \in Int
      BY <2>3, <2>6, <2>7
    <3> QED
      BY <2>6, <3>1 DEF HasMinimum
  <2>8. ASSUME NEW m \in Y, \A y \in Y : m <= y
        PROVE  FALSE
    <3>1. m \in Int /\ x \in Int /\ \A y \in Y : y \in Int
      BY <2>3, <2>6
    <3>2. CASE m <= x
      BY <2>6, <2>8, <3>2 DEF HasMinimum
    <3>3. CASE x <= m
      <4>1. \A y \in X : x <= y
        BY <2>6, <2>8, <3>1, <3>3
      <4> QED
        BY <2>3, <2>6, <4>1 DEF HasMinimum
    <3> QED
      BY <3>1, <3>2, <3>3
  <2> QED
    BY <2>5, <2>7, <2>8 DEF HasMinimum
<1> QED
  BY <1>1 DEF HasMinimum, Min

(* Finitely many numbers.                                                   *)
AreNumbers(D) == IsFiniteSet(D) /\ D \subseteq Nat

(* Part of a finite set of numbers is one.                                  *)
LEMMA NumbersIn ==
  ASSUME NEW D, AreNumbers(D), NEW X, X \subseteq D
  PROVE  AreNumbers(X)
BY FS_Subset DEF AreNumbers

(* It has a least member, which Min picks.                                  *)
LEMMA LeastNumber ==
  ASSUME NEW X, AreNumbers(X), X # {}
  PROVE  Min(X) \in X /\ \A y \in X : Min(X) <= y
<1>1. X \subseteq Int /\ IsFiniteSet(X)
  BY DEF AreNumbers
<1> QED
  BY <1>1, FiniteMinimum

(* A list of n elements.                                                    *)
IsListOf(s, n) == IsList(s) /\ Len(s) = n /\ DOMAIN s = 1 .. n

(* RestoreMementos gives back one node after the other.                      *)
RestoreOne(H, i, x) == restoreMemento(x, H[i].u, H[i].v)
RestoredOver(H, b, S, g) ==
  g = [s \in SUBSET S |-> IF s = {} THEN b ELSE RestoreOne(H, Min(s), g[s \ {Min(s)}])]

(* It is such a fold over the numbers of the mementos.                      *)
LEMMA RestoredIs ==
  ASSUME NEW H, NEW b
  PROVE  RestoreMementos(b, H) = (CHOOSE g : RestoredOver(H, b, DOMAIN H, g))[DOMAIN H]
BY Zenon DEF RestoreMementos, FoldRight, MapThenFoldSet, RestoredOver, RestoreOne

(* Two such folds agree where both are defined.                             *)
LEMMA RestoredAgree ==
  ASSUME NEW H, NEW b, NEW A, AreNumbers(A), NEW B, NEW g, NEW h,
         RestoredOver(H, b, A, g), RestoredOver(H, b, B, h), NEW w \in SUBSET A, w \subseteq B
  PROVE  g[w] = h[w]
<1> SUFFICES ASSUME g[w] # h[w] PROVE FALSE
  OBVIOUS
<1>1. PICK T : T = {v \in SUBSET A : v \subseteq B /\ g[v] # h[v]}
  OBVIOUS
<1>2. T \in SUBSET SUBSET A /\ T # {}
  BY <1>1
<1>3. PICK X \in T : \A Y \in T : Y \subseteq X => Y = X
  <2>1. HasMinimal(T)
    BY <1>2, SomeIsMinimal DEF AreNumbers
  <2> QED
    BY <2>1 DEF HasMinimal
<1>4. X \in SUBSET A /\ X \in SUBSET B /\ g[X] # h[X]
  BY <1>1
<1>5. /\ g[X] = IF X = {} THEN b ELSE RestoreOne(H, Min(X), g[X \ {Min(X)}])
      /\ h[X] = IF X = {} THEN b ELSE RestoreOne(H, Min(X), h[X \ {Min(X)}])
  BY <1>4 DEF RestoredOver
<1>6. X # {} /\ AreNumbers(X)
  BY <1>4, <1>5, NumbersIn
<1>7. Min(X) \in X
  BY <1>6, LeastNumber
<1>8. PICK Y : Y = X \ {Min(X)}
  OBVIOUS
<1>9. Y \subseteq X /\ Y # X /\ Y \in SUBSET A /\ Y \subseteq B
  BY <1>4, <1>7, <1>8
<1>10. g[Y] = h[Y]
  BY <1>1, <1>3, <1>9
<1> QED
  BY <1>4, <1>5, <1>6, <1>8, <1>10

(* There is such a fold for every finite set of numbers.                    *)
LEMMA RestoredExist ==
  ASSUME NEW H, NEW b, NEW S, AreNumbers(S)
  PROVE  \E g : RestoredOver(H, b, S, g)
<1> SUFFICES ASSUME ~ \E g : RestoredOver(H, b, S, g) PROVE FALSE
  OBVIOUS
<1>1. PICK T : T = {X \in SUBSET S : ~ \E g : RestoredOver(H, b, X, g)}
  OBVIOUS
<1>2. T \in SUBSET SUBSET S /\ T # {}
  BY <1>1
<1>3. PICK X \in T : \A Y \in T : Y \subseteq X => Y = X
  <2>1. HasMinimal(T)
    BY <1>2, SomeIsMinimal DEF AreNumbers
  <2> QED
    BY <2>1 DEF HasMinimal
<1>4. X \in SUBSET S /\ AreNumbers(X) /\ ~ \E g : RestoredOver(H, b, X, g)
  BY <1>1, NumbersIn
<1> DEFINE fold(s) == (CHOOSE g : RestoredOver(H, b, s, g))
<1>5. ASSUME NEW Y, Y \subseteq X, Y # X
      PROVE  RestoredOver(H, b, Y, fold(Y)) /\ AreNumbers(Y)
  <2>1. Y \in SUBSET S /\ Y \notin T
    BY <1>3, <1>4, <1>5
  <2>2. \E g : RestoredOver(H, b, Y, g)
    BY <1>1, <2>1
  <2> QED
    BY <1>4, <1>5, <2>2, NumbersIn
<1> HIDE DEF fold
<1>6. PICK g : g = [s \in SUBSET X |-> IF s = {} THEN b
                                        ELSE RestoreOne(H, Min(s), fold(s \ {Min(s)})[s \ {Min(s)}])]
  OBVIOUS
<1>7. ASSUME NEW u, u \subseteq X, u # X PROVE g[u] = fold(u)[u]
  <2>0. RestoredOver(H, b, u, fold(u)) /\ AreNumbers(u)
    BY <1>5, <1>7
  <2>1. fold(u)[u] = IF u = {} THEN b ELSE RestoreOne(H, Min(u), fold(u)[u \ {Min(u)}])
    BY <2>0 DEF RestoredOver
  <2>2. g[u] = IF u = {} THEN b ELSE RestoreOne(H, Min(u), fold(u \ {Min(u)})[u \ {Min(u)}])
    BY <1>6, <1>7
  <2>3. ASSUME u # {} PROVE fold(u)[u \ {Min(u)}] = fold(u \ {Min(u)})[u \ {Min(u)}]
    <3>1. PICK v : v = u \ {Min(u)}
      OBVIOUS
    <3>2. v \subseteq u /\ v \subseteq X /\ v # X
      BY <3>1, <1>7
    <3>3. RestoredOver(H, b, v, fold(v))
      BY <1>5, <3>2
    <3>4. fold(u)[v] = fold(v)[v]
      BY <2>0, <3>2, <3>3, RestoredAgree
    <3> QED
      BY <3>1, <3>4
  <2> QED
    BY <2>1, <2>2, <2>3
<1>8. ASSUME NEW s \in SUBSET X, s # {} PROVE fold(s \ {Min(s)})[s \ {Min(s)}] = g[s \ {Min(s)}]
  <2>1. Min(s) \in s
    <3>1. AreNumbers(s)
      BY <1>4, NumbersIn
    <3> QED
      BY <1>8, <3>1, LeastNumber
  <2>2. s \ {Min(s)} \subseteq X /\ s \ {Min(s)} # X
    BY <2>1
  <2> QED
    BY <1>7, <2>2
<1>9. g = [s \in SUBSET X |-> IF s = {} THEN b ELSE RestoreOne(H, Min(s), g[s \ {Min(s)}])]
  BY <1>6, <1>8
<1> QED
  BY <1>4, <1>9 DEF RestoredOver

(* Without mementos nothing changes; the last memento comes first.          *)
LEMMA RestoredNone ==
  ASSUME NEW b
  PROVE  RestoreMementos(b, <<>>) = b
<1>1. PICK H : H = <<>>
  OBVIOUS
<1>2. PICK D : D = {}
  OBVIOUS
<1>3. DOMAIN H = D
  BY <1>1, <1>2
<1>4. AreNumbers(D)
  BY <1>2, FS_EmptySet DEF AreNumbers
<1>5. PICK g : g = (CHOOSE x : RestoredOver(H, b, D, x))
  OBVIOUS
<1>6. RestoredOver(H, b, D, g)
  BY <1>4, <1>5, RestoredExist
<1>7. g[D] = b
  BY <1>2, <1>6 DEF RestoredOver
<1>8. RestoreMementos(b, H) = g[D]
  BY <1>3, <1>5, RestoredIs
<1> QED
  BY <1>1, <1>7, <1>8

(* The last memento is undone first.                                        *)
LEMMA RestoredLast ==
  ASSUME NEW H, NEW n \in Nat, NEW H1, IsListOf(H, n), IsListOf(H1, n + 1), Extends(H1, H, n), NEW b,
         NEW c, c = RestoreOne(H1, n + 1, b)
  PROVE  RestoreMementos(b, H1) = RestoreMementos(c, H)
<1>1. PICK D, D1 : D = 1 .. n /\ D1 = 1 .. n + 1
  OBVIOUS
<1>2. DOMAIN H = D /\ DOMAIN H1 = D1
  BY <1>1 DEF IsListOf
<1>3. AreNumbers(D) /\ AreNumbers(D1)
  BY <1>1, FS_Interval DEF AreNumbers
<1>4. PICK g : g = (CHOOSE x : RestoredOver(H1, b, D1, x))
  OBVIOUS
<1>5. RestoredOver(H1, b, D1, g)
  BY <1>3, <1>4, RestoredExist
<1>6. PICK f : f = (CHOOSE x : RestoredOver(H, c, D, x))
  OBVIOUS
<1>7. RestoredOver(H, c, D, f)
  BY <1>3, <1>6, RestoredExist
<1>8. RestoreMementos(b, H1) = g[D1] /\ RestoreMementos(c, H) = f[D]
  BY <1>2, <1>4, <1>6, RestoredIs
<1>9. \A s \in SUBSET D : g[s \cup {n + 1}] = f[s]
  <2> SUFFICES ASSUME NEW s \in SUBSET D, g[s \cup {n + 1}] # f[s] PROVE FALSE
    OBVIOUS
  <2>1. PICK T : T = {x \in SUBSET D : g[x \cup {n + 1}] # f[x]}
    OBVIOUS
  <2>2. T \in SUBSET SUBSET D /\ T # {}
    BY <2>1
  <2>3. PICK X \in T : \A Y \in T : Y \subseteq X => Y = X
    <3>1. HasMinimal(T)
      BY <1>3, <2>2, SomeIsMinimal DEF AreNumbers
    <3> QED
      BY <3>1 DEF HasMinimal
  <2>4. X \in SUBSET D /\ g[X \cup {n + 1}] # f[X]
    BY <2>1
  <2>5. PICK Z : Z = X \cup {n + 1}
    OBVIOUS
  <2>6. Z \in SUBSET D1 /\ Z # {} /\ n + 1 \notin X
    BY <1>1, <2>4, <2>5
  <2>7. g[Z] = RestoreOne(H1, Min(Z), g[Z \ {Min(Z)}])
    BY <1>5, <2>6 DEF RestoredOver
  <2>8. f[X] = IF X = {} THEN c ELSE RestoreOne(H, Min(X), f[X \ {Min(X)}])
    BY <1>7, <2>4 DEF RestoredOver
  <2>9. CASE X = {}
    <3>1. Z = {n + 1} /\ AreNumbers(Z)
      BY <1>3, <2>5, <2>6, <2>9, NumbersIn
    <3>2. Min(Z) = n + 1
      BY <3>1, LeastNumber
    <3>3. Z \ {Min(Z)} = {} /\ {} \in SUBSET D1
      BY <3>1, <3>2
    <3>4. g[{}] = b
      BY <1>5 DEF RestoredOver
    <3> QED
      BY <2>4, <2>5, <2>7, <2>8, <2>9, <3>2, <3>3, <3>4
  <2>10. CASE X # {}
    <3>1. AreNumbers(X) /\ AreNumbers(Z)
      BY <1>3, <2>4, <2>6, NumbersIn
    <3>2. Min(X) \in X /\ \A y \in X : Min(X) <= y
      BY <2>10, <3>1, LeastNumber
    <3>3. Min(Z) \in Z /\ \A y \in Z : Min(Z) <= y
      BY <2>6, <3>1, LeastNumber
    <3>4. \A y \in X : y \in 1 .. n
      BY <1>1, <2>4
    <3>5. Min(Z) = Min(X)
      BY <2>5, <3>2, <3>3, <3>4
    <3>6. PICK i : i = Min(X)
      OBVIOUS
    <3>7. PICK Y : Y = X \ {i}
      OBVIOUS
    <3>8. Y \subseteq X /\ Y # X /\ Z \ {i} = Y \cup {n + 1} /\ Y \in SUBSET D
      BY <2>4, <2>5, <3>2, <3>4, <3>6, <3>7
    <3>9. g[Y \cup {n + 1}] = f[Y]
      BY <2>1, <2>3, <3>8
    <3>10. H1[i] = H[i]
      BY <3>2, <3>4, <3>6 DEF Extends
    <3>11. RestoreOne(H1, i, f[Y]) = RestoreOne(H, i, f[Y])
      BY <3>10 DEF RestoreOne
    <3> QED
      BY <2>4, <2>5, <2>7, <2>8, <2>10, <3>5, <3>6, <3>7, <3>8, <3>9, <3>11
  <2> QED
    BY <2>9, <2>10
<1>10. D \cup {n + 1} = D1
  BY <1>1
<1> QED
  BY <1>8, <1>9, <1>10

(* Projected gives one node after the other its block.                       *)
ProjectOne(H, i, x) == [x EXCEPT ![H[i].v] = x[H[i].u]]
ProjectedOver(H, b, S, g) ==
  g = [s \in SUBSET S |-> IF s = {} THEN b ELSE ProjectOne(H, Min(s), g[s \ {Min(s)}])]

(* It is such a fold over the numbers of the mementos.                      *)
LEMMA ProjectedIs ==
  ASSUME NEW H, NEW b
  PROVE  Projected(H, b) = (CHOOSE g : ProjectedOver(H, b, DOMAIN H, g))[DOMAIN H]
BY Zenon DEF Projected, FoldRight, MapThenFoldSet, ProjectedOver, ProjectOne

(* Two such folds agree where both are defined.                             *)
LEMMA ProjectedAgree ==
  ASSUME NEW H, NEW b, NEW A, AreNumbers(A), NEW B, NEW g, NEW h,
         ProjectedOver(H, b, A, g), ProjectedOver(H, b, B, h), NEW w \in SUBSET A, w \subseteq B
  PROVE  g[w] = h[w]
<1> SUFFICES ASSUME g[w] # h[w] PROVE FALSE
  OBVIOUS
<1>1. PICK T : T = {v \in SUBSET A : v \subseteq B /\ g[v] # h[v]}
  OBVIOUS
<1>2. T \in SUBSET SUBSET A /\ T # {}
  BY <1>1
<1>3. PICK X \in T : \A Y \in T : Y \subseteq X => Y = X
  <2>1. HasMinimal(T)
    BY <1>2, SomeIsMinimal DEF AreNumbers
  <2> QED
    BY <2>1 DEF HasMinimal
<1>4. X \in SUBSET A /\ X \in SUBSET B /\ g[X] # h[X]
  BY <1>1
<1>5. /\ g[X] = IF X = {} THEN b ELSE ProjectOne(H, Min(X), g[X \ {Min(X)}])
      /\ h[X] = IF X = {} THEN b ELSE ProjectOne(H, Min(X), h[X \ {Min(X)}])
  BY <1>4 DEF ProjectedOver
<1>6. X # {} /\ AreNumbers(X)
  BY <1>4, <1>5, NumbersIn
<1>7. Min(X) \in X
  BY <1>6, LeastNumber
<1>8. PICK Y : Y = X \ {Min(X)}
  OBVIOUS
<1>9. Y \subseteq X /\ Y # X /\ Y \in SUBSET A /\ Y \subseteq B
  BY <1>4, <1>7, <1>8
<1>10. g[Y] = h[Y]
  BY <1>1, <1>3, <1>9
<1> QED
  BY <1>4, <1>5, <1>6, <1>8, <1>10

(* There is such a fold for every finite set of numbers.                    *)
LEMMA ProjectedExist ==
  ASSUME NEW H, NEW b, NEW S, AreNumbers(S)
  PROVE  \E g : ProjectedOver(H, b, S, g)
<1> SUFFICES ASSUME ~ \E g : ProjectedOver(H, b, S, g) PROVE FALSE
  OBVIOUS
<1>1. PICK T : T = {X \in SUBSET S : ~ \E g : ProjectedOver(H, b, X, g)}
  OBVIOUS
<1>2. T \in SUBSET SUBSET S /\ T # {}
  BY <1>1
<1>3. PICK X \in T : \A Y \in T : Y \subseteq X => Y = X
  <2>1. HasMinimal(T)
    BY <1>2, SomeIsMinimal DEF AreNumbers
  <2> QED
    BY <2>1 DEF HasMinimal
<1>4. X \in SUBSET S /\ AreNumbers(X) /\ ~ \E g : ProjectedOver(H, b, X, g)
  BY <1>1, NumbersIn
<1> DEFINE fold(s) == (CHOOSE g : ProjectedOver(H, b, s, g))
<1>5. ASSUME NEW Y, Y \subseteq X, Y # X
      PROVE  ProjectedOver(H, b, Y, fold(Y)) /\ AreNumbers(Y)
  <2>1. Y \in SUBSET S /\ Y \notin T
    BY <1>3, <1>4, <1>5
  <2>2. \E g : ProjectedOver(H, b, Y, g)
    BY <1>1, <2>1
  <2> QED
    BY <1>4, <1>5, <2>2, NumbersIn
<1> HIDE DEF fold
<1>6. PICK g : g = [s \in SUBSET X |-> IF s = {} THEN b
                                        ELSE ProjectOne(H, Min(s), fold(s \ {Min(s)})[s \ {Min(s)}])]
  OBVIOUS
<1>7. ASSUME NEW u, u \subseteq X, u # X PROVE g[u] = fold(u)[u]
  <2>0. ProjectedOver(H, b, u, fold(u)) /\ AreNumbers(u)
    BY <1>5, <1>7
  <2>1. fold(u)[u] = IF u = {} THEN b ELSE ProjectOne(H, Min(u), fold(u)[u \ {Min(u)}])
    BY <2>0 DEF ProjectedOver
  <2>2. g[u] = IF u = {} THEN b ELSE ProjectOne(H, Min(u), fold(u \ {Min(u)})[u \ {Min(u)}])
    BY <1>6, <1>7
  <2>3. ASSUME u # {} PROVE fold(u)[u \ {Min(u)}] = fold(u \ {Min(u)})[u \ {Min(u)}]
    <3>1. PICK v : v = u \ {Min(u)}
      OBVIOUS
    <3>2. v \subseteq u /\ v \subseteq X /\ v # X
      BY <3>1, <1>7
    <3>3. ProjectedOver(H, b, v, fold(v))
      BY <1>5, <3>2
    <3>4. fold(u)[v] = fold(v)[v]
      BY <2>0, <3>2, <3>3, ProjectedAgree
    <3> QED
      BY <3>1, <3>4
  <2> QED
    BY <2>1, <2>2, <2>3
<1>8. ASSUME NEW s \in SUBSET X, s # {} PROVE fold(s \ {Min(s)})[s \ {Min(s)}] = g[s \ {Min(s)}]
  <2>1. Min(s) \in s
    <3>1. AreNumbers(s)
      BY <1>4, NumbersIn
    <3> QED
      BY <1>8, <3>1, LeastNumber
  <2>2. s \ {Min(s)} \subseteq X /\ s \ {Min(s)} # X
    BY <2>1
  <2> QED
    BY <1>7, <2>2
<1>9. g = [s \in SUBSET X |-> IF s = {} THEN b ELSE ProjectOne(H, Min(s), g[s \ {Min(s)}])]
  BY <1>6, <1>8
<1> QED
  BY <1>4, <1>9 DEF ProjectedOver

(* Without mementos nothing changes; the last memento comes first.          *)
LEMMA ProjectedNone ==
  ASSUME NEW b
  PROVE  Projected(<<>>, b) = b
<1>1. PICK H : H = <<>>
  OBVIOUS
<1>2. PICK D : D = {}
  OBVIOUS
<1>3. DOMAIN H = D
  BY <1>1, <1>2
<1>4. AreNumbers(D)
  BY <1>2, FS_EmptySet DEF AreNumbers
<1>5. PICK g : g = (CHOOSE x : ProjectedOver(H, b, D, x))
  OBVIOUS
<1>6. ProjectedOver(H, b, D, g)
  BY <1>4, <1>5, ProjectedExist
<1>7. g[D] = b
  BY <1>2, <1>6 DEF ProjectedOver
<1>8. Projected(H, b) = g[D]
  BY <1>3, <1>5, ProjectedIs
<1> QED
  BY <1>1, <1>7, <1>8

(* So it is when blocks are projected.                                      *)
LEMMA ProjectedLast ==
  ASSUME NEW H, NEW n \in Nat, NEW H1, IsListOf(H, n), IsListOf(H1, n + 1), Extends(H1, H, n), NEW b,
         NEW c, c = ProjectOne(H1, n + 1, b)
  PROVE  Projected(H1, b) = Projected(H, c)
<1>1. PICK D, D1 : D = 1 .. n /\ D1 = 1 .. n + 1
  OBVIOUS
<1>2. DOMAIN H = D /\ DOMAIN H1 = D1
  BY <1>1 DEF IsListOf
<1>3. AreNumbers(D) /\ AreNumbers(D1)
  BY <1>1, FS_Interval DEF AreNumbers
<1>4. PICK g : g = (CHOOSE x : ProjectedOver(H1, b, D1, x))
  OBVIOUS
<1>5. ProjectedOver(H1, b, D1, g)
  BY <1>3, <1>4, ProjectedExist
<1>6. PICK f : f = (CHOOSE x : ProjectedOver(H, c, D, x))
  OBVIOUS
<1>7. ProjectedOver(H, c, D, f)
  BY <1>3, <1>6, ProjectedExist
<1>8. Projected(H1, b) = g[D1] /\ Projected(H, c) = f[D]
  BY <1>2, <1>4, <1>6, ProjectedIs
<1>9. \A s \in SUBSET D : g[s \cup {n + 1}] = f[s]
  <2> SUFFICES ASSUME NEW s \in SUBSET D, g[s \cup {n + 1}] # f[s] PROVE FALSE
    OBVIOUS
  <2>1. PICK T : T = {x \in SUBSET D : g[x \cup {n + 1}] # f[x]}
    OBVIOUS
  <2>2. T \in SUBSET SUBSET D /\ T # {}
    BY <2>1
  <2>3. PICK X \in T : \A Y \in T : Y \subseteq X => Y = X
    <3>1. HasMinimal(T)
      BY <1>3, <2>2, SomeIsMinimal DEF AreNumbers
    <3> QED
      BY <3>1 DEF HasMinimal
  <2>4. X \in SUBSET D /\ g[X \cup {n + 1}] # f[X]
    BY <2>1
  <2>5. PICK Z : Z = X \cup {n + 1}
    OBVIOUS
  <2>6. Z \in SUBSET D1 /\ Z # {} /\ n + 1 \notin X
    BY <1>1, <2>4, <2>5
  <2>7. g[Z] = ProjectOne(H1, Min(Z), g[Z \ {Min(Z)}])
    BY <1>5, <2>6 DEF ProjectedOver
  <2>8. f[X] = IF X = {} THEN c ELSE ProjectOne(H, Min(X), f[X \ {Min(X)}])
    BY <1>7, <2>4 DEF ProjectedOver
  <2>9. CASE X = {}
    <3>1. Z = {n + 1} /\ AreNumbers(Z)
      BY <1>3, <2>5, <2>6, <2>9, NumbersIn
    <3>2. Min(Z) = n + 1
      BY <3>1, LeastNumber
    <3>3. Z \ {Min(Z)} = {} /\ {} \in SUBSET D1
      BY <3>1, <3>2
    <3>4. g[{}] = b
      BY <1>5 DEF ProjectedOver
    <3> QED
      BY <2>4, <2>5, <2>7, <2>8, <2>9, <3>2, <3>3, <3>4
  <2>10. CASE X # {}
    <3>1. AreNumbers(X) /\ AreNumbers(Z)
      BY <1>3, <2>4, <2>6, NumbersIn
    <3>2. Min(X) \in X /\ \A y \in X : Min(X) <= y
      BY <2>10, <3>1, LeastNumber
    <3>3. Min(Z) \in Z /\ \A y \in Z : Min(Z) <= y
      BY <2>6, <3>1, LeastNumber
    <3>4. \A y \in X : y \in 1 .. n
      BY <1>1, <2>4
    <3>5. Min(Z) = Min(X)
      BY <2>5, <3>2, <3>3, <3>4
    <3>6. PICK i : i = Min(X)
      OBVIOUS
    <3>7. PICK Y : Y = X \ {i}
      OBVIOUS
    <3>8. Y \subseteq X /\ Y # X /\ Z \ {i} = Y \cup {n + 1} /\ Y \in SUBSET D
      BY <2>4, <2>5, <3>2, <3>4, <3>6, <3>7
    <3>9. g[Y \cup {n + 1}] = f[Y]
      BY <2>1, <2>3, <3>8
    <3>10. H1[i] = H[i]
      BY <3>2, <3>4, <3>6 DEF Extends
    <3>11. ProjectOne(H1, i, f[Y]) = ProjectOne(H, i, f[Y])
      BY <3>10 DEF ProjectOne
    <3> QED
      BY <2>4, <2>5, <2>7, <2>8, <2>10, <3>5, <3>6, <3>7, <3>8, <3>9, <3>11
  <2> QED
    BY <2>9, <2>10
<1>10. D \cup {n + 1} = D1
  BY <1>1
<1> QED
  BY <1>8, <1>9, <1>10

-----------------------------------------------------------------------------
(* Where the nodes are, whatever the nets: also in hypergraphs that a time  *)
(* limit left contracted.                                                   *)

(* A hypergraph with the fixed vertices fp.                                 *)
Basic(h, fp) ==
  /\ IsHypergraph(h) /\ h.on \subseteq Nodes /\ h.part \in [Nodes -> Int] /\ h.fixed_part = fp

(* Every node is in a block, and every fixed vertex in its own.             *)
Placed(h) ==
  \A w \in h.on : h.part[w] \in Parts /\ (isFixedVertex(h, w) => h.part[w] = h.fixed_part[w])

SamePlaces(h, g) ==
  IsHypergraph(g) /\ g.part = h.part /\ g.on = h.on /\ g.fixed_part = h.fixed_part

(* v is back, in the block of u.                                            *)
PutBack(h, g, u, v) ==
  /\ IsHypergraph(g) /\ g.part = [h.part EXCEPT ![v] = h.part[u]] /\ g.on = h.on \cup {v}
  /\ g.fixed_part = h.fixed_part

(* Hypergraphs with their nodes in the same places.                         *)
LEMMA SamePlacesKeeps ==
  ASSUME NEW h, NEW fp, Basic(h, fp), NEW g, SamePlaces(h, g)
  PROVE  Basic(g, fp) /\ (Placed(h) => Placed(g))
BY DEF Basic, SamePlaces, Placed, isFixedVertex

(* What the operations on nets leave alone.                                 *)
SameFixed(h, g) ==
  /\ SamePlaces(h, g)
  /\ g.weight = h.weight /\ g.fixed = h.fixed /\ g.fixed_weight = h.fixed_weight

(* Removing nets moves no node.                                             *)
LEMMA RemovingKeepsPlaces ==
  ASSUME NEW h, IsHypergraph(h), NEW E, NEW g, g = removeEdges(h, E)
  PROVE  SameFixed(h, g)
<1>1. IsHypergraph(g) /\ EdgesRemoved(h, g, E) /\ SameRest(h, g)
  BY RemoveEdgesIs, RemoveEdgesInfo
<1> QED
  BY <1>1 DEF EdgesRemoved, SameRest, SameBlocks, SamePlaces, SameFixed

(* Nor does restoring them.                                                 *)
LEMMA RestoringKeepsPlaces ==
  ASSUME NEW h, IsHypergraph(h), NEW E, NEW cut, cut \subseteq E, NEW g, g = restoreEdges(h, E, cut)
  PROVE  SameFixed(h, g)
<1>1. /\ IsHypergraph(g) /\ EdgesRestored(h, g, E)
      /\ SameBlocks(h, g) /\ g.fixed_weight = h.fixed_weight
  BY RestoreEdgesIs, RestoreEdgesInfo
<1> QED
  BY <1>1 DEF EdgesRestored, SameBlocks, SamePlaces, SameFixed

(* Nor does changing their weights.                                         *)
LEMMA WeighingKeepsPlaces ==
  ASSUME NEW h, IsHypergraph(h), NEW P, NEW sign, NEW g, g = AddToWeights(h, P, sign)
  PROVE  SameFixed(h, g)
<1>1. IsHypergraph(g) /\ WeightsAdded(h, g, P, sign) /\ SameRest(h, g)
  BY AddToWeightsIs, AddToWeightsInfo
<1> QED
  BY <1>1 DEF WeightsAdded, SameRest, SameBlocks, SamePlaces, SameFixed

(* A contraction takes v away, its undoing puts it back.                    *)
LEMMA PushLeavesPlaces ==
  ASSUME NEW h, IsHypergraph(h), NEW u, NEW v,
         NEW c, NEW S, NEW d, NEW R, NEW P, NEW a, NEW f, PushOps(h, u, v, c, S, d, R, P, a, f)
  PROVE  /\ IsHypergraph(f) /\ f.part = h.part /\ f.on = h.on \ {v} /\ f.fixed_part = h.fixed_part
         /\ f.weight = c.weight /\ f.fixed = c.fixed /\ f.fixed_weight = c.fixed_weight /\ c.fixed_part = h.fixed_part
<1>1. /\ c = contract(h, u, v) /\ d = removeEdges(c, S)
      /\ a = AddToWeights(d, P, 1) /\ f = removeEdges(a, RemovedNets(P))
  BY DEF PushOps
<1>2. IsHypergraph(c) /\ Contracted(h, c, u, v) /\ InfoContracted(h, c, u, v)
  BY <1>1, ContractIs, ContractInfo
<1>3. c.part = h.part /\ c.on = h.on \ {v} /\ c.fixed_part = h.fixed_part
  BY <1>2 DEF Contracted, InfoContracted, SameBlocks
<1>4. SameFixed(c, d)
  BY <1>1, <1>2, RemovingKeepsPlaces
<1>5. SameFixed(d, a)
  <2>1. IsHypergraph(d)
    BY <1>4 DEF SameFixed, SamePlaces
  <2> QED
    BY <1>1, <2>1, WeighingKeepsPlaces
<1>6. SameFixed(a, f)
  <2>1. IsHypergraph(a)
    BY <1>5 DEF SameFixed, SamePlaces
  <2> QED
    BY <1>1, <2>1, RemovingKeepsPlaces
<1> QED
  BY <1>3, <1>4, <1>5, <1>6 DEF SameFixed, SamePlaces

(* An uncontraction puts v into the block of u.                             *)
LEMMA PopLeavesPlaces ==
  ASSUME NEW h, IsHypergraph(h), NEW m, NEW S, NEW P, NEW cut, NEW c, NEW a, NEW s, NEW g,
         PopOps(h, m, S, P, cut, c, a, s, g)
  PROVE  /\ PutBack(h, g, m.u, m.v) /\ IsHypergraph(s)
         /\ s.weight = h.weight /\ s.fixed = h.fixed /\ s.fixed_weight = h.fixed_weight /\ s.fixed_part = h.fixed_part
<1>1. /\ cut \subseteq RemovedNets(P)
      /\ c = restoreEdges(h, RemovedNets(P), cut) /\ a = AddToWeights(c, P, -1)
      /\ s = restoreEdges(a, S, {}) /\ g = uncontract(s, m.u, m.v)
  BY DEF PopOps, RemovedNets
<1>2. SameFixed(h, c)
  BY <1>1, RestoringKeepsPlaces
<1>3. SameFixed(c, a)
  <2>1. IsHypergraph(c)
    BY <1>2 DEF SameFixed, SamePlaces
  <2> QED
    BY <1>1, <2>1, WeighingKeepsPlaces
<1>4. SameFixed(a, s)
  <2>1. {} \subseteq S /\ IsHypergraph(a)
    BY <1>3 DEF SameFixed, SamePlaces
  <2> QED
    BY <1>1, <2>1, RestoringKeepsPlaces
<1>5. IsHypergraph(s) /\ s.part = h.part /\ s.on = h.on /\ s.fixed_part = h.fixed_part
  BY <1>2, <1>3, <1>4 DEF SameFixed, SamePlaces
<1>6. PICK u, v : u = m.u /\ v = m.v
  OBVIOUS
<1>7. g = uncontract(s, u, v)
  BY <1>1, <1>6
<1>8. IsHypergraph(g) /\ Uncontracted(s, g, u, v) /\ InfoUncontracted(s, g, u, v)
  BY <1>5, <1>7, UncontractIs, UncontractInfo
<1>9. PutBack(h, g, u, v)
  BY <1>5, <1>8 DEF PutBack, Uncontracted, InfoUncontracted, BackIn
<1> QED
  BY <1>2, <1>3, <1>4, <1>5, <1>6, <1>9 DEF SameFixed

(* A node put back is where the node is that it was contracted into.        *)
LEMMA PutBackKeeps ==
  ASSUME NEW h, NEW fp, Basic(h, fp), NEW u \in h.on, NEW v \in Nodes, NEW g, PutBack(h, g, u, v)
  PROVE  /\ Basic(g, fp)
         /\ (fp[v] # kInvalidPartition => fp[u] = fp[v]) /\ Placed(h) => Placed(g)
<1>1. /\ IsHypergraph(g) /\ h.on \subseteq Nodes /\ h.part \in [Nodes -> Int]
      /\ g.part = [h.part EXCEPT ![v] = h.part[u]] /\ g.on = h.on \cup {v} /\ g.fixed_part = fp /\ h.fixed_part = fp
  BY DEF Basic, PutBack
<1>2. Basic(g, fp)
  BY <1>1 DEF Basic
<1>3. g.part[v] = h.part[u] /\ \A w \in Nodes \ {v} : g.part[w] = h.part[w]
  BY <1>1
<1>4. ASSUME fp[v] # kInvalidPartition => fp[u] = fp[v], Placed(h)
      PROVE  Placed(g)
  BY <1>1, <1>3, <1>4 DEF Placed, isFixedVertex
<1> QED
  BY <1>2, <1>4

-----------------------------------------------------------------------------
(* Histories.                                                               *)

(* Each memento names a node that is there, or that a later one gives back, *)
(* and a fixed vertex is contracted only into one of the same block.        *)
HistoryFits(on, fp, H, n) ==
  \A i \in 1 .. n :
    /\ H[i].v \in Nodes
    /\ H[i].u \in on \/ \E j \in i + 1 .. n : H[i].u = H[j].v
    /\ fp[H[i].v] # kInvalidPartition => fp[H[i].u] = fp[H[i].v]

(* A contraction fits into the history.                                     *)
LEMMA HistoryFitsPushed ==
  ASSUME NEW on, NEW fp, NEW H, NEW n \in Nat, HistoryFits(on, fp, H, n), NEW H1, NEW m, Extends(H1, H, n),
         H1[n + 1] = m, m.u \in on, m.u # m.v, m.v \in Nodes,
         fp[m.v] # kInvalidPartition => fp[m.u] = fp[m.v],
         NEW on1, on1 = on \ {m.v}
  PROVE  HistoryFits(on1, fp, H1, n + 1)
<1> SUFFICES ASSUME NEW i \in 1 .. n + 1
             PROVE  /\ H1[i].v \in Nodes
                    /\ H1[i].u \in on1 \/ \E j \in i + 1 .. n + 1 : H1[i].u = H1[j].v
                    /\ fp[H1[i].v] # kInvalidPartition => fp[H1[i].u] = fp[H1[i].v]
  BY DEF HistoryFits
<1>1. CASE i = n + 1
  BY <1>1
<1>2. CASE i \in 1 .. n
  <2>1. H1[i] = H[i] /\ \A j \in i + 1 .. n : H1[j] = H[j]
    BY <1>2 DEF Extends
  <2>2. /\ H[i].v \in Nodes
        /\ H[i].u \in on \/ \E j \in i + 1 .. n : H[i].u = H[j].v
        /\ fp[H[i].v] # kInvalidPartition => fp[H[i].u] = fp[H[i].v]
    BY <1>2 DEF HistoryFits
  <2>3. n + 1 \in i + 1 .. n + 1 /\ \A j \in i + 1 .. n : j \in i + 1 .. n + 1
    BY <1>2
  <2>4. CASE \E j \in i + 1 .. n : H[i].u = H[j].v
    BY <2>1, <2>2, <2>3, <2>4
  <2>5. CASE H[i].u \in on
    BY <2>1, <2>2, <2>3, <2>5
  <2> QED
    BY <2>2, <2>4, <2>5
<1> QED
  BY <1>1, <1>2

(* Its undoing leaves a history that fits.                                  *)
LEMMA HistoryFitsPopped ==
  ASSUME NEW on, NEW fp, NEW H, NEW n \in Nat, HistoryFits(on, fp, H, n + 1), NEW H1, Extends(H1, H, n),
         NEW m, m = H[n + 1], NEW on1, on1 = on \cup {m.v}
  PROVE  /\ m.u \in on /\ m.v \in Nodes /\ (fp[m.v] # kInvalidPartition => fp[m.u] = fp[m.v])
         /\ HistoryFits(on1, fp, H1, n)
<1>1. m.u \in on /\ m.v \in Nodes /\ (fp[m.v] # kInvalidPartition => fp[m.u] = fp[m.v])
  <2>1. n + 1 \in 1 .. n + 1 /\ (n + 1) + 1 .. n + 1 = {}
    OBVIOUS
  <2> QED
    BY <2>1 DEF HistoryFits
<1>2. ASSUME NEW i \in 1 .. n
      PROVE  /\ H1[i].v \in Nodes
             /\ H1[i].u \in on1 \/ \E j \in i + 1 .. n : H1[i].u = H1[j].v
             /\ fp[H1[i].v] # kInvalidPartition => fp[H1[i].u] = fp[H1[i].v]
  <2>1. H1[i] = H[i] /\ \A j \in i + 1 .. n : H1[j] = H[j]
    BY DEF Extends
  <2>2. /\ H[i].v \in Nodes
        /\ H[i].u \in on \/ \E j \in i + 1 .. n + 1 : H[i].u = H[j].v
        /\ fp[H[i].v] # kInvalidPartition => fp[H[i].u] = fp[H[i].v]
    BY DEF HistoryFits
  <2>3. CASE H[i].u \in on
    BY <2>1, <2>2, <2>3
  <2>4. ASSUME NEW j \in i + 1 .. n + 1, H[i].u = H[j].v
        PROVE  H[i].u \in on1 \/ \E k \in i + 1 .. n : H1[i].u = H1[k].v
    <3>1. CASE j = n + 1
      BY <2>4, <3>1
    <3>2. CASE j # n + 1
      <4>1. j \in i + 1 .. n
        BY <3>2
      <4> QED
        BY <2>1, <2>4, <4>1
    <3> QED
      BY <3>1, <3>2
  <2> QED
    BY <2>1, <2>2, <2>3, <2>4
<1> QED
  BY <1>1, <1>2 DEF HistoryFits

(* What undoing a whole history without the nets does.                      *)
AllPutBack(h, fp, H, n, g) ==
  /\ Basic(g, fp) /\ (Placed(h) => Placed(g))
  /\ g.part = Projected(H, h.part) /\ SameCounts(h, g) /\ g.part_weight = h.part_weight
  /\ g.live = h.live /\ g.edge_weight = h.edge_weight
  /\ g.on = h.on \cup {H[i].v : i \in 1 .. n}

(* restoreMemento puts v back.                                              *)
LEMMA MementoIsPutBack ==
  ASSUME NEW h, NEW fp, Basic(h, fp), NEW u, NEW v, NEW g, g = restoreMemento(h, u, v)
  PROVE  /\ PutBack(h, g, u, v) /\ SameCounts(h, g) /\ g.part_weight = h.part_weight
         /\ g.live = h.live /\ g.edge_weight = h.edge_weight
<1>1. IsHypergraph(h)
  BY DEF Basic
<1>2. IsHypergraph(g) /\ MementoRestored(h, g, u, v) /\ BackIn(h, g, u, v) /\ SameCounts(h, g)
  BY <1>1, RestoreMementoIs, RestoreMementoInfo
<1> QED
  BY <1>2 DEF PutBack, MementoRestored, BackIn

(* An empty history puts nothing back.                                      *)
LEMMA NoneIsPutBack ==
  ASSUME NEW h, NEW fp, Basic(h, fp), NEW H, IsListOf(H, 0), NEW g, g = RestoreMementos(h, H)
  PROVE  AllPutBack(h, fp, H, 0, g)
<1>1. H = <<>>
  BY DEF IsListOf, IsList
<1>2. g = h
  BY <1>1, RestoredNone
<1>3. PICK f : f = h.part
  OBVIOUS
<1>4. Projected(H, f) = f
  BY <1>1, ProjectedNone
<1>5. {H[i].v : i \in 1 .. 0} = {}
  OBVIOUS
<1> QED
  BY <1>2, <1>3, <1>4, <1>5 DEF AllPutBack, SameCounts

(* A history with one more memento.                                         *)
LEMMA OneMoreIsPutBack ==
  ASSUME NEW h, NEW fp, Basic(h, fp), NEW H, NEW n \in Nat, IsListOf(H, n + 1), HistoryFits(h.on, fp, H, n + 1),
         NEW H1, H1 = Front(H), NEW c, c = RestoreOne(H, n + 1, h)
  PROVE  /\ IsListOf(H1, n) /\ Basic(c, fp) /\ HistoryFits(c.on, fp, H1, n)
         /\ \A g : AllPutBack(c, fp, H1, n, g) => AllPutBack(h, fp, H, n + 1, g)
         /\ RestoreMementos(h, H) = RestoreMementos(c, H1)
<1>1. IsList(H1) /\ Len(H1) = n /\ Extends(H1, H, n)
  BY ListFront DEF IsListOf
<1>2. IsListOf(H1, n)
  BY <1>1 DEF IsListOf, IsList
<1>3. PICK m : m = H[n + 1]
  OBVIOUS
<1>4. PICK on1 : on1 = h.on \cup {m.v}
  OBVIOUS
<1>5. /\ m.u \in h.on /\ m.v \in Nodes /\ (fp[m.v] # kInvalidPartition => fp[m.u] = fp[m.v])
      /\ HistoryFits(on1, fp, H1, n)
  <2>1. PICK on : on = h.on
    OBVIOUS
  <2>2. HistoryFits(on, fp, H, n + 1) /\ on1 = on \cup {m.v} /\ Extends(H1, H, n)
    BY <1>1, <1>4, <2>1
  <2>3. /\ m.u \in on /\ m.v \in Nodes /\ (fp[m.v] # kInvalidPartition => fp[m.u] = fp[m.v])
        /\ HistoryFits(on1, fp, H1, n)
    BY <1>3, <2>2, HistoryFitsPopped
  <2> QED
    BY <2>1, <2>3
<1>6. PICK u, v : u = m.u /\ v = m.v
  OBVIOUS
<1>7. c = restoreMemento(h, u, v)
  BY <1>3, <1>6 DEF RestoreOne
<1>8. /\ PutBack(h, c, u, v) /\ SameCounts(h, c) /\ c.part_weight = h.part_weight
      /\ c.live = h.live /\ c.edge_weight = h.edge_weight
  BY <1>7, MementoIsPutBack
<1>9. u \in h.on /\ v \in Nodes
  BY <1>5, <1>6
<1>10. Basic(c, fp) /\ (Placed(h) => Placed(c))
  BY <1>5, <1>6, <1>8, <1>9, PutBackKeeps
<1>11. c.on = on1 /\ c.part = [h.part EXCEPT ![v] = h.part[u]]
  BY <1>4, <1>6, <1>8 DEF PutBack
<1>12. Extends(H, H1, n)
  BY <1>1 DEF Extends
<1>13. RestoreMementos(h, H) = RestoreMementos(c, H1)
  BY <1>2, <1>12, RestoredLast
<1>14. PICK p, q : p = h.part /\ q = c.part
  OBVIOUS
<1>15. q = ProjectOne(H, n + 1, p)
  BY <1>3, <1>6, <1>11, <1>14 DEF ProjectOne
<1>16. Projected(H, p) = Projected(H1, q)
  BY <1>2, <1>12, <1>15, ProjectedLast
<1>17. {H[i].v : i \in 1 .. n + 1} = {v} \cup {H1[i].v : i \in 1 .. n}
  <2>1. \A i \in 1 .. n + 1 : i = n + 1 \/ i \in 1 .. n
    OBVIOUS
  <2>2. n + 1 \in 1 .. n + 1 /\ \A i \in 1 .. n : i \in 1 .. n + 1 /\ H1[i] = H[i]
    BY <1>1 DEF Extends
  <2> QED
    BY <1>3, <1>6, <2>1, <2>2
<1>18. ASSUME NEW g, AllPutBack(c, fp, H1, n, g)
       PROVE  AllPutBack(h, fp, H, n + 1, g)
  <2>1. Basic(g, fp) /\ (Placed(h) => Placed(g))
    BY <1>10, <1>18 DEF AllPutBack
  <2>2. g.part = Projected(H, h.part)
    BY <1>14, <1>16, <1>18 DEF AllPutBack
  <2>3. SameCounts(h, g) /\ g.part_weight = h.part_weight /\ g.live = h.live /\ g.edge_weight = h.edge_weight
    BY <1>8, <1>18 DEF AllPutBack, SameCounts
  <2>4. g.on = h.on \cup {H[i].v : i \in 1 .. n + 1}
    BY <1>4, <1>6, <1>11, <1>17, <1>18 DEF AllPutBack
  <2> QED
    BY <2>1, <2>2, <2>3, <2>4 DEF AllPutBack
<1> QED
  BY <1>2, <1>5, <1>10, <1>11, <1>13, <1>18

(* Every history can be undone so: among those that cannot there would be a *)
(* shortest one.                                                            *)
Unrestorable(fp, n) ==
  \E h, H : /\ Basic(h, fp) /\ IsListOf(H, n) /\ HistoryFits(h.on, fp, H, n)
            /\ ~AllPutBack(h, fp, H, n, RestoreMementos(h, H))

(* So there is none.                                                        *)
LEMMA HistoryIsPutBack ==
  ASSUME NEW h, NEW fp, Basic(h, fp), NEW n \in Nat, NEW H, IsListOf(H, n), HistoryFits(h.on, fp, H, n),
         NEW g, g = RestoreMementos(h, H)
  PROVE  AllPutBack(h, fp, H, n, g)
<1> SUFFICES ASSUME ~AllPutBack(h, fp, H, n, g) PROVE FALSE
  OBVIOUS
<1>1. Unrestorable(fp, n)
  BY DEF Unrestorable
<1>2. PICK T : T = {k \in 0 .. n : Unrestorable(fp, k)}
  OBVIOUS
<1>3. AreNumbers(T) /\ T # {}
  <2>1. AreNumbers(0 .. n)
    BY FS_Interval DEF AreNumbers
  <2>2. T \subseteq 0 .. n /\ n \in T
    BY <1>1, <1>2
  <2> QED
    BY <2>1, <2>2, NumbersIn
<1>4. PICK k : k = Min(T)
  OBVIOUS
<1>5. k \in T /\ \A y \in T : k <= y
  BY <1>3, <1>4, LeastNumber
<1>6. k \in 0 .. n /\ Unrestorable(fp, k)
  BY <1>2, <1>5
<1>7. PICK f, I : /\ Basic(f, fp) /\ IsListOf(I, k) /\ HistoryFits(f.on, fp, I, k)
                  /\ ~AllPutBack(f, fp, I, k, RestoreMementos(f, I))
  BY <1>6 DEF Unrestorable
<1>8. k # 0
  BY <1>7, NoneIsPutBack
<1>9. PICK j \in Nat : k = j + 1
  <2>1. k - 1 \in Nat /\ k = (k - 1) + 1
    BY <1>6, <1>8
  <2> QED
    BY <2>1
<1>10. PICK I1, c : I1 = Front(I) /\ c = RestoreOne(I, j + 1, f)
  OBVIOUS
<1>11. /\ IsListOf(I1, j) /\ Basic(c, fp) /\ HistoryFits(c.on, fp, I1, j)
       /\ \A x : AllPutBack(c, fp, I1, j, x) => AllPutBack(f, fp, I, j + 1, x)
       /\ RestoreMementos(f, I) = RestoreMementos(c, I1)
  BY <1>7, <1>9, <1>10, OneMoreIsPutBack
<1>12. j \notin T /\ j \in 0 .. n
  BY <1>5, <1>6, <1>9
<1>13. ~Unrestorable(fp, j)
  BY <1>2, <1>12
<1>14. AllPutBack(c, fp, I1, j, RestoreMementos(c, I1))
  BY <1>11, <1>13 DEF Unrestorable
<1> QED
  BY <1>7, <1>9, <1>11, <1>14

-----------------------------------------------------------------------------
(* The steps, by what they do to the hypergraph.                            *)

Contraction ==
  /\ \E u \in hg.on : \E v \in Targets(u) : performContraction(u, v)
  /\ phase = "visit" /\ UNCHANGED <<phase, vcycle>>

Idle ==
  /\ UNCHANGED <<hg, history, pruner, levels, vcycle>>
  /\ \/ phase' = phase
     \/ phase \in {"pass", "visit"} /\ phase' \in {"pass", "visit", "coarsened"}
     \/ phase = "uncoarsen" /\ history = <<>> /\ phase' \in {"vcycle", "done"}

(* Every step is one of these.                                              *)
LEMMA NextIs ==
  ASSUME [Next]_vars
  PROVE  /\ context' = context
         /\ \/ Contraction \/ Uncontract \/ SoftTimeLimitExceeded \/ InitialPartition \/ Refine
            \/ partitionVCycle \/ Idle
<1>1. CASE StartPass \/ EndPass \/ EndCoarsening \/ EndUncoarsening \/ UNCHANGED vars
  <2>1. context' = context /\ UNCHANGED <<hg, history, pruner, levels, vcycle>>
    BY <1>1 DEF StartPass, EndPass, EndCoarsening, EndUncoarsening, vars, call, pruner
  <2>2. \/ phase' = phase
        \/ phase \in {"pass", "visit"} /\ phase' \in {"pass", "visit", "coarsened"}
        \/ phase = "uncoarsen" /\ history = <<>> /\ phase' \in {"vcycle", "done"}
    BY <1>1 DEF StartPass, EndPass, EndCoarsening, EndUncoarsening, vars
  <2> QED
    BY <2>1, <2>2 DEF Idle
<1>2. CASE Uncontract \/ SoftTimeLimitExceeded \/ InitialPartition \/ Refine \/ partitionVCycle
  BY <1>2 DEF Uncontract, SoftTimeLimitExceeded, InitialPartition, Refine, partitionVCycle, call
<1>3. ASSUME NEW hn \in Nodes, Visit(hn)
      PROVE  context' = context /\ (Contraction \/ Idle)
  <2>1. context' = context /\ phase = "visit" /\ UNCHANGED <<phase, vcycle>> /\ hn \in hg.on
    BY <1>3 DEF Visit, call
  <2>2. CASE Targets(hn) = {}
    <3>1. UNCHANGED <<hg, history, pruner, levels>>
      BY <1>3, <2>2 DEF Visit
    <3> QED
      BY <2>1, <3>1 DEF Idle
  <2>3. CASE Targets(hn) # {}
    <3>1. PICK target \in Targets(hn) : performContraction(hn, target)
      BY <1>3, <2>3 DEF Visit
    <3> QED
      BY <2>1, <3>1 DEF Contraction
  <2> QED
    BY <2>1, <2>2, <2>3
<1> QED
  BY <1>1, <1>2, <1>3 DEF Next

(* A contraction as it is pushed.                                           *)
LEMMA ContractionIsPushed ==
  ASSUME Contraction
  PROVE  \E u, v, m : /\ v \in Targets(u) /\ MayContract(hg, u, v) /\ performContraction(u, v)
                      /\ Pushes(hg, u, v, hg', history, history', m)
                      /\ levels' = Append(levels, Structure(hg'))
<1>1. PICK u \in hg.on : \E v \in Targets(u) : performContraction(u, v)
  BY DEF Contraction
<1>2. PICK v \in Targets(u) : performContraction(u, v)
  BY <1>1
<1>3. MayContract(hg, u, v)
  BY <1>1, <1>2, TargetsMayBeContracted
<1>4. /\ \E m : Pushes(hg, u, v, hg', history, history', m)
      /\ levels' = Append(levels, Structure(hg'))
  BY <1>2, PushHappens
<1> QED
  BY <1>2, <1>3, <1>4

(* Contractions and uncontractions do not tell whether the time limit       *)
(* struck; once it has, it has for good.                                    *)
LEMMA BrokenStays ==
  ASSUME IInv, [Next]_vars
  PROVE  /\ ~Broken' => ~Broken
         /\ ~SoftTimeLimitExceeded => (Broken' <=> Broken)
         /\ SoftTimeLimitExceeded => Broken'
<1>1. PICK n \in Nat, k \in Nat : n = Len(history) /\ k = Len(levels) /\ k >= n + 1
  BY ListLength DEF IInv
<1>2. Broken <=> k > n + 1
  BY <1>1 DEF Broken
<1>3. CASE Contraction
  <2>1. PICK m : history' = Append(history, m) /\ levels' = Append(levels, Structure(hg'))
    BY <1>3, ContractionIsPushed DEF Pushes
  <2>2. Len(history') = n + 1
    BY <1>1, <2>1, ListAppended DEF IInv, IsAppended
  <2>3. Len(levels') = k + 1
    BY <1>1, <2>1, ListAppended DEF IInv, IsAppended
  <2>4. Broken' <=> k + 1 > (n + 1) + 1
    BY <2>2, <2>3 DEF Broken
  <2>5. SoftTimeLimitExceeded => FALSE
    BY <1>3 DEF Contraction, SoftTimeLimitExceeded
  <2> QED
    BY <1>2, <2>4, <2>5
<1>4. CASE Uncontract
  <2>1. history # <<>> /\ history' = Front(history) /\ levels' = Front(levels)
    BY <1>4 DEF Uncontract
  <2>2. n > 0
    BY <1>1, <2>1, ListLength DEF IInv
  <2>3. PICK i \in Nat, j \in Nat : n = i + 1 /\ k = j + 1
    <3>1. n - 1 \in Nat /\ n = (n - 1) + 1 /\ k - 1 \in Nat /\ k = (k - 1) + 1
      BY <1>1, <2>2
    <3> QED
      BY <3>1
  <2>4. Len(history') = i
    BY <1>1, <2>1, <2>3, ListFront DEF IInv
  <2>5. Len(levels') = j
    BY <1>1, <2>1, <2>3, ListFront DEF IInv
  <2>6. Broken' <=> j > i + 1
    BY <2>4, <2>5 DEF Broken
  <2>7. SoftTimeLimitExceeded => FALSE
    BY <1>4 DEF Uncontract, SoftTimeLimitExceeded
  <2> QED
    BY <1>2, <2>3, <2>6, <2>7
<1>5. CASE SoftTimeLimitExceeded
  <2>1. history # <<>> /\ history' = <<>> /\ levels' = levels
    BY <1>5 DEF SoftTimeLimitExceeded
  <2>2. n > 0
    BY <1>1, <2>1, ListLength DEF IInv
  <2>3. Broken' <=> k > 1
    BY <1>1, <2>1 DEF Broken
  <2> QED
    BY <1>1, <1>5, <2>2, <2>3
<1>6. CASE InitialPartition \/ Refine \/ partitionVCycle \/ Idle
  <2>1. history' = history /\ levels' = levels
    BY <1>6 DEF InitialPartition, Refine, partitionVCycle, Idle
  <2>2. Broken' <=> Broken
    BY <2>1 DEF Broken
  <2>3. SoftTimeLimitExceeded => FALSE
    BY <1>2, <1>1, <2>1, ListLength DEF IInv, SoftTimeLimitExceeded
  <2> QED
    BY <2>2, <2>3
<1> QED
  BY <1>3, <1>4, <1>5, <1>6, NextIs

-----------------------------------------------------------------------------
(* Fixed vertices, step by step.                                            *)

(* A hypergraph whose history can be undone.                                *)
FitsIn(h, fp, H) == IsHypergraph(h) /\ Basic(h, fp) /\ HistoryFits(h.on, fp, H, Len(H))

(* A contraction keeps it so.                                               *)
LEMMA PushFits ==
  ASSUME NEW h, NEW fp, NEW H, IsList(H), FitsIn(h, fp, H), NEW u, NEW v, MayContract(h, u, v),
         NEW f, NEW H1, NEW m, Pushes(h, u, v, f, H, H1, m)
  PROVE  FitsIn(f, fp, H1) /\ (Placed(h) => Placed(f))
<1>1. /\ IsHypergraph(h) /\ h.on \subseteq Nodes /\ h.part \in [Nodes -> Int] /\ h.fixed_part = fp
      /\ HistoryFits(h.on, fp, H, Len(H))
  BY DEF FitsIn, Basic
<1>2. PICK c, S, d, R, P, a : PushOps(h, u, v, c, S, d, R, P, a, f)
  BY DEF Pushes
<1>3. IsHypergraph(f) /\ f.part = h.part /\ f.on = h.on \ {v} /\ f.fixed_part = h.fixed_part
  BY <1>1, <1>2, PushLeavesPlaces
<1>4. Basic(f, fp)
  BY <1>1, <1>3 DEF Basic
<1>5. Placed(h) => Placed(f)
  BY <1>3 DEF Placed, isFixedVertex
<1>6. m.u = u /\ m.v = v /\ H1 = Append(H, m)
  BY DEF Pushes
<1>7. PICK n \in Nat : n = Len(H)
  BY ListLength
<1>8. Len(H1) = n + 1 /\ H1[n + 1] = m /\ Extends(H1, H, n)
  BY <1>6, <1>7, ListAppended DEF IsAppended
<1>9. m.u \in h.on /\ m.u # m.v /\ m.v \in Nodes /\ (fp[m.v] # kInvalidPartition => fp[m.u] = fp[m.v])
  BY <1>1, <1>6 DEF MayContract, isFixedVertex
<1>10. PICK on, on1 : on = h.on /\ on1 = h.on \ {m.v}
  OBVIOUS
<1>11. HistoryFits(on, fp, H, n) /\ m.u \in on /\ on1 = on \ {m.v}
  BY <1>1, <1>7, <1>9, <1>10
<1>12. HistoryFits(on1, fp, H1, n + 1)
  BY <1>8, <1>9, <1>11, HistoryFitsPushed
<1> QED
  BY <1>3, <1>4, <1>5, <1>6, <1>8, <1>10, <1>12 DEF FitsIn

(* An uncontraction keeps it so.                                            *)
LEMMA PopFits ==
  ASSUME NEW h, NEW fp, NEW H, IsList(H), H # <<>>, FitsIn(h, fp, H), NEW RS, NEW RP, NEW m, NEW S, NEW P, NEW cut,
         NEW c, NEW a, NEW s, NEW g, Pops(h, H, RS, RP, m, S, P, cut, c, a, s, g), NEW H1, H1 = Front(H)
  PROVE  FitsIn(g, fp, H1) /\ (Placed(h) => Placed(g))
<1>1. IsHypergraph(h) /\ Basic(h, fp) /\ HistoryFits(h.on, fp, H, Len(H))
  BY DEF FitsIn
<1>2. m = Last(H) /\ PopOps(h, m, S, P, cut, c, a, s, g)
  BY DEF Pops
<1>3. PICK n \in Nat : n + 1 = Len(H)
  <2>1. Len(H) \in Nat /\ Len(H) > 0
    BY ListLength
  <2>2. Len(H) - 1 \in Nat /\ (Len(H) - 1) + 1 = Len(H)
    BY <2>1
  <2> QED
    BY <2>2
<1>4. Len(H1) = n /\ Last(H) = H[n + 1] /\ Extends(H1, H, n)
  BY <1>3, ListFront
<1>5. PutBack(h, g, m.u, m.v)
  BY <1>1, <1>2, PopLeavesPlaces
<1>6. PICK on, on1 : on = h.on /\ on1 = h.on \cup {m.v}
  OBVIOUS
<1>7. HistoryFits(on, fp, H, n + 1) /\ on1 = on \cup {m.v} /\ Extends(H1, H, n)
  BY <1>1, <1>3, <1>4, <1>6
<1>8. /\ m.u \in on /\ m.v \in Nodes /\ (fp[m.v] # kInvalidPartition => fp[m.u] = fp[m.v])
      /\ HistoryFits(on1, fp, H1, n)
  <2>1. m = H[n + 1]
    BY <1>2, <1>4
  <2> QED
    BY <1>7, <2>1, HistoryFitsPopped
<1>9. PICK u, v : u = m.u /\ v = m.v
  OBVIOUS
<1>10. u \in h.on /\ v \in Nodes /\ (fp[v] # kInvalidPartition => fp[u] = fp[v]) /\ PutBack(h, g, u, v)
  BY <1>5, <1>6, <1>8, <1>9
<1>11. Basic(g, fp) /\ (Placed(h) => Placed(g))
  BY <1>1, <1>10, PutBackKeeps
<1>12. g.on = on1 /\ IsHypergraph(g)
  BY <1>5, <1>6 DEF PutBack
<1> QED
  BY <1>4, <1>8, <1>11, <1>12 DEF FitsIn

(* The weights of the fixed vertices of every block.                        *)
LEMMA PushKeepsFixedSums ==
  ASSUME NEW h, WellFormed(h), FixedSums(h), NEW u, NEW v, MayContract(h, u, v),
         NEW f, NEW H, NEW H1, NEW m, Pushes(h, u, v, f, H, H1, m)
  PROVE  FixedSums(f)
<1>1. IsHypergraph(h)
  BY DEF WellFormed, Typed
<1>2. PICK c, S, d, R, P, a : PushOps(h, u, v, c, S, d, R, P, a, f)
  BY DEF Pushes
<1>3. c = contract(h, u, v)
  BY <1>2 DEF PushOps
<1>4. Parted(c, h, u, v)
  BY <1>3, ContractionParts
<1>5. InfoContracted(h, c, u, v)
  BY <1>1, <1>3, ContractInfo
<1>6. FixedSums(c)
  BY <1>4, <1>5, ContractKeepsFixedSums DEF InfoContracted
<1>7. /\ f.fixed_part = h.fixed_part /\ c.fixed_part = h.fixed_part
      /\ f.weight = c.weight /\ f.fixed = c.fixed /\ f.fixed_weight = c.fixed_weight
  BY <1>1, <1>2, PushLeavesPlaces
<1> QED
  BY <1>6, <1>7, SameFixedSums

(* An uncontraction keeps them.                                             *)
LEMMA PopKeepsFixedSums ==
  ASSUME NEW h, NEW H, NEW RS, NEW RP, NEW LV, LevelsInv(h, H, RS, RP, LV), FixedSums(h), H # <<>>,
         NEW m, NEW S, NEW P, NEW cut, NEW c, NEW a, NEW s, NEW g,
         Pops(h, H, RS, RP, m, S, P, cut, c, a, s, g)
  PROVE  FixedSums(g)
<1>1. PICK n \in Nat : n + 1 = Len(H)
  <2>1. Len(H) \in Nat /\ Len(H) > 0
    BY ListLength DEF LevelsInv
  <2>2. Len(H) - 1 \in Nat /\ (Len(H) - 1) + 1 = Len(H)
    BY <2>1
  <2> QED
    BY <2>2
<1>2. PICK A, B : A = LV[n + 1] /\ B = LV[n + 2]
  OBVIOUS
<1>3. Kept(h, A, B, m, S, P) /\ UncontractedBy(h, A, m, S, P, c, a, s, g)
  BY <1>1, <1>2, PopIs
<1>4. PICK u, v : u = m.u /\ v = m.v
  OBVIOUS
<1>5. h.fixed_part[v] # kInvalidPartition => h.fixed_part[u] = h.fixed_part[v]
  BY <1>3, <1>4 DEF Kept, Coarser
<1>6. /\ Before(s, g, u, v, A.pins) /\ u \in s.on /\ v \in Nodes \ s.on /\ EdgesBack(a, s, S)
      /\ s.on = h.on /\ s.fixed_part = h.fixed_part /\ s.weight = h.weight
  BY <1>3, <1>4 DEF UncontractedBy
<1>7. WellFormed(s)
  BY <1>6 DEF EdgesBack
<1>8. isFixedVertex(s, v) => isFixedVertex(s, u) /\ s.fixed_part[u] = s.fixed_part[v]
  BY <1>5, <1>6 DEF isFixedVertex
<1>9. Parted(s, g, u, v)
  <2>1. PICK Q : Q = A.pins
    OBVIOUS
  <2>2. Before(s, g, u, v, Q)
    BY <1>6, <2>1
  <2> QED
    BY <1>6, <1>7, <1>8, <2>2, UncontractionParts
<1>10. PopOps(h, m, S, P, cut, c, a, s, g)
  BY DEF Pops
<1>11. g = uncontract(s, u, v)
  BY <1>4, <1>10 DEF PopOps
<1>12. IsHypergraph(s)
  BY <1>7 DEF WellFormed, Typed
<1>13. FixedWeightRestored(s, g, u, v)
  BY <1>11, <1>12, UncontractInfo DEF InfoUncontracted, BackIn
<1>14. s.weight = h.weight /\ s.fixed = h.fixed /\ s.fixed_weight = h.fixed_weight /\ s.fixed_part = h.fixed_part
  <2>1. IsHypergraph(h)
    BY DEF LevelsInv, WellFormed, Typed
  <2> QED
    BY <1>10, <2>1, PopLeavesPlaces
<1>15. FixedSums(s)
  BY <1>14, SameFixedSums
<1>16. s.weight[v] = g.weight[v]
  <2>1. u # v /\ v \in Nodes
    BY <1>6
  <2> QED
    BY <1>6, <2>1 DEF Before
<1> QED
  BY <1>9, <1>13, <1>15, <1>16, UncontractKeepsFixedSums

(* Operations on the whole partition.                                       *)
LEMMA AssignedPlaces ==
  ASSUME NEW h, NEW fp, Basic(h, fp), NEW part,
         \A w \in h.on : part[w] \in Parts /\ (fp[w] # kInvalidPartition => part[w] = fp[w]),
         NEW g, g = AssignParts(h, part)
  PROVE  /\ Basic(g, fp) /\ Placed(g) /\ g.on = h.on
         /\ FixedSums(h) => FixedSums(g)
<1>1. IsHypergraph(h) /\ h.on \subseteq Nodes /\ h.part \in [Nodes -> Int] /\ h.fixed_part = fp
  BY DEF Basic
<1>2. IsHypergraph(g) /\ SameStructure(h, g)
  BY <1>1, PartitionOperationsKeepStructure
<1>3. Assigned(h, g, part)
  BY <1>1, AssignPartsInfo
<1>4. g.on = h.on /\ g.fixed_part = fp
  BY <1>1, <1>2 DEF SameStructure
<1>5. \A w \in h.on : part[w] \in Int
  BY DEF Parts
<1>6. g.part \in [Nodes -> Int] /\ \A w \in h.on : g.part[w] = part[w]
  BY <1>1, <1>3, <1>5 DEF Assigned
<1>7. Placed(g)
  BY <1>4, <1>6 DEF Placed, isFixedVertex
<1>8. FixedSums(h) => FixedSums(g)
  BY <1>2, <1>3, SameFixedSums DEF Assigned, SameStructure
<1> QED
  BY <1>1, <1>2, <1>4, <1>6, <1>7, <1>8 DEF Basic

(* reset leaves the fixed vertices fixed.                                   *)
LEMMA ResetPlaces ==
  ASSUME NEW h, NEW fp, Basic(h, fp), NEW g, g = reset(h)
  PROVE  Basic(g, fp) /\ g.on = h.on /\ (WellFormed(h) => FixedSums(g))
<1>1. IsHypergraph(h) /\ h.on \subseteq Nodes /\ h.fixed_part = fp
  BY DEF Basic
<1>2. IsHypergraph(g) /\ SameStructure(h, g)
  BY <1>1, PartitionOperationsKeepStructure
<1>3. IsReset(h, g)
  BY <1>1, ResetInfo
<1>4. g.part \in [Nodes -> Int]
  BY <1>3 DEF IsReset, kInvalidPartition
<1>5. WellFormed(h) => FixedSums(g)
  BY <1>2, <1>3, ResetFixedSums DEF SameStructure
<1> QED
  BY <1>1, <1>2, <1>4, <1>5 DEF Basic, SameStructure

(* Recomputing moves no node.                                               *)
LEMMA RecomputedPlaces ==
  ASSUME NEW h, NEW fp, Basic(h, fp), NEW g, g = initializeNumCutHyperedges(h) \/ g = resetEdgeHashes(h)
  PROVE  /\ Basic(g, fp) /\ g.on = h.on /\ (Placed(h) => Placed(g)) /\ (FixedSums(h) => FixedSums(g))
<1>1. IsHypergraph(h)
  BY DEF Basic
<1>2. IsHypergraph(g) /\ SameStructure(h, g)
  BY <1>1, PartitionOperationsKeepStructure
<1>3. SameBlocks(h, g) /\ g.fixed_weight = h.fixed_weight
  BY <1>1, InitializeNumCutInfo, ResetEdgeHashesInfo
<1>4. SamePlaces(h, g) /\ g.on = h.on
  BY <1>2, <1>3 DEF SamePlaces, SameBlocks, SameStructure
<1>5. Basic(g, fp) /\ (Placed(h) => Placed(g))
  BY <1>4, SamePlacesKeeps
<1>6. FixedSums(h) => FixedSums(g)
  BY <1>2, <1>3, SameFixedSums DEF SameStructure
<1> QED
  BY <1>4, <1>5, <1>6

(* A move of a free node.                                                   *)
LEMMA MovedPlaces ==
  ASSUME NEW h, NEW fp, Basic(h, fp), NEW u \in h.on, fp[u] = kInvalidPartition, NEW p, NEW to \in Parts,
         NEW g, g = changeNodePart(h, u, p, to)
  PROVE  /\ Basic(g, fp) /\ g.on = h.on /\ (Placed(h) => Placed(g)) /\ (FixedSums(h) => FixedSums(g))
<1>1. IsHypergraph(h) /\ h.on \subseteq Nodes /\ h.part \in [Nodes -> Int] /\ h.fixed_part = fp
  BY DEF Basic
<1>2. IsHypergraph(g) /\ SameStructure(h, g)
  BY <1>1, ChangeNodePartIs
<1>3. Left(h, g, u, p, to)
  BY <1>1, ChangeNodePartInfo
<1>4. to \in Int
  BY DEF Parts
<1>5. g.part = [h.part EXCEPT ![u] = to] /\ g.fixed_weight = h.fixed_weight
  BY <1>3 DEF Left
<1>6. g.on = h.on /\ g.fixed_part = fp
  BY <1>1, <1>2 DEF SameStructure
<1>7. Basic(g, fp)
  BY <1>1, <1>2, <1>4, <1>5, <1>6 DEF Basic
<1>8. Placed(h) => Placed(g)
  BY <1>1, <1>5, <1>6 DEF Placed, isFixedVertex
<1>9. FixedSums(h) => FixedSums(g)
  BY <1>2, <1>5, SameFixedSums DEF SameStructure
<1> QED
  BY <1>6, <1>7, <1>8, <1>9

(* Moves of free nodes, one after the other.                                *)
LEMMA MovesKeepPlaces ==
  ASSUME NEW h, NEW fp, Basic(h, fp), NEW part, NEW g, g = MoveNodes(h, part),
         \A u \in h.on : part[u] \in Parts /\ (fp[u] # kInvalidPartition => part[u] = h.part[u])
  PROVE  /\ Basic(g, fp) /\ g.on = h.on /\ (Placed(h) => Placed(g)) /\ (FixedSums(h) => FixedSums(g))
<1> DEFINE Placing(f) == /\ Basic(f, fp) /\ f.on = h.on
                         /\ (Placed(h) => Placed(f)) /\ (FixedSums(h) => FixedSums(f))
<1>1. PICK S : S = MovedNodes(h, part)
  OBVIOUS
<1>2. IsFiniteSet(S) /\ S \subseteq h.on
  BY <1>1, FS_Subset, KHypergraphAssumption DEF MovedNodes, Basic
<1>3. PICK c : Chain(h, g, part, S, c)
  BY <1>1, <1>2, MovesAreChain
<1>4. Placing(h)
  OBVIOUS
<1>5. ASSUME NEW f, NEW k, NEW u \in S, Placing(f), k = MoveOne(h, part, u, f)
      PROVE  Placing(k)
  <2>1. u \in f.on /\ part[u] \in Parts /\ fp[u] = kInvalidPartition
    BY <1>1, <1>2, <1>5 DEF MovedNodes
  <2>2. PICK p : k = changeNodePart(f, u, p, part[u])
    BY <1>5 DEF MoveOne
  <2>3. Basic(k, fp) /\ k.on = f.on /\ (Placed(f) => Placed(k)) /\ (FixedSums(f) => FixedSums(k))
    BY <1>5, <2>1, <2>2, MovedPlaces
  <2> QED
    BY <1>5, <2>3
<1> HIDE DEF Placing
<1>6. Placing(g)
  <2> SUFFICES ASSUME ~Placing(g) PROVE FALSE
    OBVIOUS
  <2>1. PICK T : T = {s \in SUBSET S : ~Placing(c[s])}
    OBVIOUS
  <2>2. T \in SUBSET SUBSET S /\ T # {}
    BY <1>3, <2>1 DEF Chain
  <2>3. PICK X \in T : \A Y \in T : Y \subseteq X => Y = X
    BY <1>2, <2>2, MinimalSet
  <2>4. X \in SUBSET S /\ ~Placing(c[X])
    BY <2>1
  <2>5. X # {}
    BY <1>3, <1>4, <2>4 DEF Chain
  <2>6. PICK u \in X : c[X] = MoveOne(h, part, u, c[X \ {u}])
    BY <1>3, <2>4, <2>5 DEF Chain
  <2>7. PICK Y, f, k : Y = X \ {u} /\ f = c[Y] /\ k = c[X]
    OBVIOUS
  <2>8. Placing(f)
    BY <2>1, <2>3, <2>4, <2>6, <2>7
  <2>9. k = MoveOne(h, part, u, f) /\ u \in S
    BY <2>4, <2>6, <2>7
  <2> QED
    BY <1>5, <2>4, <2>7, <2>8, <2>9
<1> QED
  BY <1>6 DEF Placing

(* A partition is there: from the start for two of the actions.             *)
HasPartition == Partitioned \/ action \in {"new_initial_partitioning", "vcycle"}

FixedInv ==
  /\ FitsIn(hg, context.hypergraph.fixed_part, history)
  /\ HasPartition => Placed(hg)
  /\ ~Broken => FixedSums(hg)

(* The initial partition, of every kind of call, puts every node where it   *)
(* may be.                                                                  *)
LEMMA ContextIs ==
  ASSUME NEW c \in Contexts, NEW h, h = c.hypergraph
  PROVE  /\ h.fixed_part \in [Nodes -> Parts \cup {kInvalidPartition}] /\ Basic(h, h.fixed_part) /\ h.on = Nodes
         /\ WellFormed(h) /\ FixedSums(h) /\ \A w \in Nodes : h.part[w] = kInvalidPartition
<1>1. IsConstructed(h)
  BY ContextsAssumption
<1>2. WellFormed(h)
  BY <1>1, ConstructedIsWellFormed
<1>3. IsHypergraph(h)
  BY <1>2 DEF WellFormed, Typed
<1>4. h.fixed_part \in [Nodes -> Parts \cup {kInvalidPartition}]
  BY <1>1 DEF IsConstructed
<1>5. FixedSums(h)
  BY <1>1, FixedSumsAre DEF IsConstructed
<1>6. h.on = Nodes /\ h.part = [w \in Nodes |-> kInvalidPartition]
  <2>1. h = [NewHypergraph(h.slots, h.weight, h.edge_weight) EXCEPT
               !.fixed_part = h.fixed_part, !.fixed_weight = h.fixed_weight,
               !.fixed = {u \in Nodes : h.fixed_part[u] # kInvalidPartition}]
    BY <1>1 DEF IsConstructed
  <2>2. PICK n : n = NewHypergraph(h.slots, h.weight, h.edge_weight)
    OBVIOUS
  <2>3. n.on = Nodes /\ n.part = [w \in Nodes |-> kInvalidPartition]
    BY <2>2 DEF NewHypergraph
  <2>4. h.on = n.on /\ h.part = n.part
    BY <2>1, <2>2 DEF NewHypergraph
  <2> QED
    BY <2>3, <2>4
<1>7. Basic(h, h.fixed_part)
  <2>1. h.part \in [Nodes -> Int]
    BY <1>6 DEF kInvalidPartition
  <2> QED
    BY <1>3, <1>6, <2>1 DEF Basic
<1> QED
  BY <1>2, <1>4, <1>5, <1>6, <1>7

(* Blocks are among the parts.                                              *)
LEMMA BlocksAreParts ==
  ASSUME context \in Contexts
  PROVE  Blocks \subseteq Parts /\ context.k \in 1 .. K
<1>1. context.k \in 1 .. K
  BY ContextsAssumption
<1>2. K \in Nat
  BY KHypergraphAssumption
<1> QED
  BY <1>1, <1>2 DEF Blocks, Parts

(* The partitions of a call put fixed vertices where they belong.           *)
LEMMA PartitionsFit ==
  ASSUME context \in Contexts, NEW fp, fp = context.hypergraph.fixed_part,
         NEW p \in PartitionsOf(context.hypergraph, context.k)
  PROVE  /\ p \in [Nodes -> Int]
         /\ \A w \in Nodes : p[w] \in Parts /\ (fp[w] # kInvalidPartition => p[w] = fp[w])
<1>1. p \in [Nodes -> Blocks] /\ \A w \in Nodes : fp[w] # kInvalidPartition => p[w] = fp[w]
  BY DEF PartitionsOf, isFixedVertex, Blocks
<1>2. Blocks \subseteq Parts /\ Blocks \subseteq Int
  BY BlocksAreParts DEF Blocks
<1> QED
  BY <1>1, <1>2

(* The invariant of the fixed vertices holds initially.                     *)
LEMMA InitFits ==
  ASSUME Init
  PROVE  FixedInv
<1>1. context \in Contexts /\ history = <<>>
  BY DEF Init
<1>2. PICK h, fp : h = context.hypergraph /\ fp = h.fixed_part
  OBVIOUS
<1>3. Basic(h, fp) /\ h.on = Nodes /\ WellFormed(h) /\ FixedSums(h)
  BY <1>1, <1>2, ContextIs
<1>4. CASE context.from_input_partition \/ action \in {"new_initial_partitioning", "vcycle"}
  <2>1. PICK part \in context.partitions : hg = setPartition(h, part)
    BY <1>2, <1>4 DEF Init
  <2>2. part \in PartitionsOf(context.hypergraph, context.k)
    BY <1>1, <2>1, ContextsAssumption
  <2>3. \A w \in Nodes : part[w] \in Parts /\ (fp[w] # kInvalidPartition => part[w] = fp[w])
    BY <1>1, <1>2, <2>2, PartitionsFit
  <2>4. PICK r, g : r = reset(h) /\ g = hg
    OBVIOUS
  <2>5. Basic(r, fp) /\ r.on = h.on /\ FixedSums(r)
    BY <1>3, <2>4, ResetPlaces
  <2>6. g = AssignParts(r, part)
    BY <2>1, <2>4 DEF setPartition
  <2>7. Basic(g, fp) /\ Placed(g) /\ FixedSums(g)
    <3>1. \A w \in r.on : part[w] \in Parts /\ (fp[w] # kInvalidPartition => part[w] = fp[w])
      BY <1>3, <2>3, <2>5
    <3> QED
      BY <2>5, <2>6, <3>1, AssignedPlaces
  <2>8. Len(history) = 0
    BY <1>1
  <2>9. FitsIn(g, fp, history)
    BY <2>7, <2>8 DEF FitsIn, Basic, HistoryFits
  <2> QED
    BY <1>2, <2>4, <2>7, <2>9 DEF FixedInv
<1>5. CASE ~(context.from_input_partition \/ action \in {"new_initial_partitioning", "vcycle"})
  <2>1. hg = h /\ phase = "pass" /\ vcycle = 0
    BY <1>2, <1>5 DEF Init
  <2>2. ~HasPartition
    BY <1>5, <2>1 DEF HasPartition, Partitioned
  <2>3. Len(history) = 0
    BY <1>1
  <2>4. FitsIn(h, fp, history)
    BY <1>3, <2>3 DEF FitsIn, Basic, HistoryFits
  <2> QED
    BY <1>2, <1>3, <2>1, <2>2, <2>4 DEF FixedInv
<1> QED
  BY <1>4, <1>5

(* A hypergraph of the initial partition.                                   *)
LEMMA InitiallyPlaced ==
  ASSUME context \in Contexts, NEW h, NEW fp, fp = context.hypergraph.fixed_part, Basic(h, fp),
         NEW f \in InitiallyPartitioned(h)
  PROVE  /\ Basic(f, fp) /\ Placed(f) /\ f.on = h.on
         /\ FixedSums(h) => FixedSums(f)
<1>1. PICK part : /\ part \in [h.on -> Blocks] /\ \A u \in h.on : isFixedVertex(h, u) => part[u] = h.fixed_part[u]
                  /\ f = AssignParts(h, part)
  BY DEF InitiallyPartitioned
<1>2. h.fixed_part = fp
  BY DEF Basic
<1>3. \A w \in h.on : part[w] \in Parts /\ (fp[w] # kInvalidPartition => part[w] = fp[w])
  BY <1>1, <1>2, BlocksAreParts DEF isFixedVertex
<1> QED
  BY <1>1, <1>3, AssignedPlaces

(* The initial partition keeps it.                                          *)
LEMMA InitialPartitionFits ==
  ASSUME IInv, FixedInv, InitialPartition, context' = context
  PROVE  FixedInv'
<1>1. context \in Contexts /\ vcycle \in Nat
  BY DEF IInv
<1>2. PICK h, fp, H, g : h = hg /\ fp = context.hypergraph.fixed_part /\ H = history /\ g = hg'
  OBVIOUS
<1>3. IsHypergraph(h) /\ Basic(h, fp) /\ HistoryFits(h.on, fp, H, Len(H)) /\ (HasPartition => Placed(h)) /\ (~Broken => FixedSums(h))
  BY <1>2 DEF FixedInv, FitsIn
<1>4. /\ phase = "coarsened" /\ history' = history /\ levels' = levels /\ Broken' = Broken
  BY DEF InitialPartition, Broken
<1>5. PICK f \in PartitionsAfterCoarsening : g = initializeNumCutHyperedges(f)
  BY <1>2 DEF InitialPartition
<1>6. PICK r : r = reset(h)
  OBVIOUS
<1>7. Basic(r, fp) /\ r.on = h.on /\ (WellFormed(h) => FixedSums(r))
  BY <1>3, <1>6, ResetPlaces
<1>8. ~Broken => WellFormed(h)
  BY <1>2 DEF IInv, LevelsInv
<1>9. Basic(f, fp) /\ Placed(f) /\ f.on = h.on /\ (~Broken => FixedSums(f))
  <2>1. CASE vcycle > 0 \/ action = "vcycle"
    <3>1. f = h
      BY <1>1, <1>2, <1>5, <2>1 DEF PartitionsAfterCoarsening
    <3>2. HasPartition
      BY <2>1 DEF HasPartition, Partitioned
    <3> QED
      BY <1>3, <3>1, <3>2
  <2>2. CASE vcycle = 0 /\ action = "none"
    <3>1. f \in InitiallyPartitioned(h)
      BY <1>2, <1>5, <2>2 DEF PartitionsAfterCoarsening
    <3> QED
      BY <1>1, <1>2, <1>3, <3>1, InitiallyPlaced
  <2>3. CASE vcycle = 0 /\ action \in {"normal", "new_initial_partitioning"}
    <3>1. f \in InitiallyPartitioned(r)
      BY <1>2, <1>5, <1>6, <2>3 DEF PartitionsAfterCoarsening
    <3> QED
      BY <1>1, <1>2, <1>7, <1>8, <3>1, InitiallyPlaced
  <2>4. CASE vcycle = 0 /\ action = "combine"
    <3>1. \E part \in {parents[1], parents[2]} : f = setPartition(h, part)
      BY <1>2, <1>5, <2>4 DEF PartitionsAfterCoarsening, BetterParent
    <3>2. PICK part : part \in {parents[1], parents[2]} /\ f = setPartition(h, part)
      BY <3>1
    <3>3. part \in PartitionsOf(context.hypergraph, context.k)
      BY <1>1, <2>4, <3>2, ContextsAssumption DEF parents, action
    <3>4. \A w \in Nodes : part[w] \in Parts /\ (fp[w] # kInvalidPartition => part[w] = fp[w])
      BY <1>1, <1>2, <3>3, PartitionsFit
    <3>5. f = AssignParts(r, part)
      BY <1>6, <3>2 DEF setPartition
    <3>6. \A w \in r.on : part[w] \in Parts /\ (fp[w] # kInvalidPartition => part[w] = fp[w])
      BY <1>7, <3>4 DEF Basic
    <3>7. Basic(f, fp) /\ Placed(f) /\ f.on = r.on /\ (FixedSums(r) => FixedSums(f))
      BY <1>7, <3>5, <3>6, AssignedPlaces
    <3> QED
      BY <1>7, <1>8, <3>7
  <2>5. action \in {"none", "normal", "new_initial_partitioning", "vcycle", "combine"}
    BY <1>1, ContextsAssumption DEF action
  <2> QED
    BY <1>1, <2>1, <2>2, <2>3, <2>4, <2>5
<1>10. Basic(g, fp) /\ g.on = f.on /\ Placed(g) /\ (FixedSums(f) => FixedSums(g))
  BY <1>5, <1>9, RecomputedPlaces
<1>11. FitsIn(g, fp, H)
  BY <1>3, <1>9, <1>10 DEF FitsIn, Basic
<1> QED
  BY <1>2, <1>4, <1>9, <1>10, <1>11 DEF FixedInv

(* The other steps.                                                         *)
LEMMA StepFits ==
  ASSUME IInv, FixedInv, [Next]_vars
  PROVE  FixedInv'
<1>1. context' = context /\ context \in Contexts /\ IsList(history)
  BY NextIs DEF IInv
<1>2. PICK h, fp, H, g, H1 : h = hg /\ fp = context.hypergraph.fixed_part /\ H = history /\ g = hg' /\ H1 = history'
  OBVIOUS
<1>3. FitsIn(h, fp, H) /\ (HasPartition => Placed(h)) /\ (~Broken => FixedSums(h)) /\ IsList(H)
  BY <1>1, <1>2 DEF FixedInv
<1>4. SUFFICES FitsIn(g, fp, H1) /\ (HasPartition' => Placed(g)) /\ (~Broken' => FixedSums(g))
  BY <1>1, <1>2 DEF FixedInv
<1>5. ~Broken' => ~Broken
  BY BrokenStays
<1>6. ~Broken => LevelsInv(h, H, removed_single, removed_parallel, levels)
  BY <1>2 DEF IInv
<1>7. CASE Contraction
  <2>1. PICK u, v, m : MayContract(h, u, v) /\ Pushes(h, u, v, g, H, H1, m)
    BY <1>2, <1>7, ContractionIsPushed
  <2>2. FitsIn(g, fp, H1) /\ (Placed(h) => Placed(g))
    BY <1>3, <2>1, PushFits
  <2>3. HasPartition' = HasPartition
    BY <1>1, <1>7 DEF Contraction, HasPartition, Partitioned, action
  <2>4. ASSUME ~Broken' PROVE FixedSums(g)
    <3>1. WellFormed(h) /\ FixedSums(h)
      BY <1>3, <1>5, <1>6, <2>4 DEF LevelsInv
    <3> QED
      BY <2>1, <3>1, PushKeepsFixedSums
  <2> QED
    BY <1>3, <2>2, <2>3, <2>4
<1>8. CASE Uncontract
  <2>1. PICK RS, RP, LV : RS = removed_single /\ RP = removed_parallel /\ LV = levels
    OBVIOUS
  <2>2. /\ \E m, S, P, cut, c, a, s : Pops(h, H, RS, RP, m, S, P, cut, c, a, s, g)
        /\ H # <<>> /\ H1 = Front(H)
    BY <1>2, <1>8, <2>1, PopHappens
  <2>3. PICK m, S, P, cut, c, a, s : Pops(h, H, RS, RP, m, S, P, cut, c, a, s, g)
    BY <2>2
  <2>4. FitsIn(g, fp, H1) /\ (Placed(h) => Placed(g))
    BY <1>3, <2>2, <2>3, PopFits
  <2>5. HasPartition
    BY <1>8 DEF Uncontract, HasPartition, Partitioned
  <2>6. ASSUME ~Broken' PROVE FixedSums(g)
    <3>1. LevelsInv(h, H, RS, RP, LV) /\ FixedSums(h)
      BY <1>3, <1>5, <1>6, <2>1, <2>6
    <3> QED
      BY <2>2, <2>3, <3>1, PopKeepsFixedSums
  <2> QED
    BY <1>3, <2>4, <2>5, <2>6
<1>9. CASE SoftTimeLimitExceeded
  <2>1. g = RestoreMementos(h, H) /\ H1 = <<>> /\ phase = "uncoarsen"
    BY <1>2, <1>9 DEF SoftTimeLimitExceeded
  <2>2. PICK n \in Nat : n = Len(H)
    BY <1>3, ListLength
  <2>3. IsListOf(H, n)
    <3>1. PICK X : H \in Seq(X)
      BY <1>3 DEF IsList
    <3> QED
      BY <1>3, <2>2, <3>1 DEF IsListOf
  <2>4. Basic(h, fp) /\ HistoryFits(h.on, fp, H, n)
    BY <1>3, <2>2 DEF FitsIn
  <2>5. AllPutBack(h, fp, H, n, g)
    BY <2>1, <2>3, <2>4, HistoryIsPutBack
  <2>6. Basic(g, fp) /\ (Placed(h) => Placed(g))
    BY <2>5 DEF AllPutBack
  <2>7. HasPartition
    BY <2>1 DEF HasPartition, Partitioned
  <2>8. FitsIn(g, fp, H1)
    <3>1. Len(H1) = 0
      BY <2>1
    <3> QED
      BY <2>6, <3>1 DEF FitsIn, Basic, HistoryFits
  <2> QED
    BY <1>3, <1>9, <2>6, <2>7, <2>8, BrokenStays
<1>10. CASE InitialPartition
  BY <1>1, <1>2, <1>10, InitialPartitionFits DEF FixedInv
<1>11. CASE Refine
  <2>1. H1 = H /\ phase = "refine"
    BY <1>2, <1>11 DEF Refine
  <2>2. HasPartition
    BY <2>1 DEF HasPartition, Partitioned
  <2>3. Basic(h, fp)
    BY <1>3 DEF FitsIn
  <2>4. Basic(g, fp) /\ g.on = h.on /\ (Placed(h) => Placed(g)) /\ (FixedSums(h) => FixedSums(g))
    <3>1. CASE g = h
      BY <2>3, <3>1
    <3>2. CASE g # h
      <4>1. PICK part \in [h.on -> Blocks] :
              g = MoveNodes(h, part) /\ \A u \in h.on : isFixedVertex(h, u) => part[u] = h.part[u]
        BY <1>2, <1>11, <3>2 DEF Refine
      <4>2. \A u \in h.on : part[u] \in Parts /\ (fp[u] # kInvalidPartition => part[u] = h.part[u])
        BY <1>1, <2>3, <4>1, BlocksAreParts DEF isFixedVertex, Basic
      <4> QED
        BY <2>3, <4>1, <4>2, MovesKeepPlaces
    <3> QED
      BY <3>1, <3>2
  <2>5. FitsIn(g, fp, H1)
    BY <1>3, <2>1, <2>4 DEF FitsIn, Basic
  <2> QED
    BY <1>3, <1>5, <2>2, <2>4, <2>5
<1>12. CASE partitionVCycle
  <2>1. H1 = H /\ phase = "vcycle" /\ g = resetEdgeHashes(h)
    BY <1>2, <1>12 DEF partitionVCycle
  <2>2. HasPartition
    BY <2>1 DEF HasPartition, Partitioned
  <2>3. Basic(h, fp)
    BY <1>3 DEF FitsIn
  <2>4. Basic(g, fp) /\ g.on = h.on /\ (Placed(h) => Placed(g)) /\ (FixedSums(h) => FixedSums(g))
    BY <2>1, <2>3, RecomputedPlaces
  <2>5. FitsIn(g, fp, H1)
    BY <1>3, <2>1, <2>4 DEF FitsIn, Basic
  <2> QED
    BY <1>3, <1>5, <2>2, <2>4, <2>5
<1>13. CASE Idle
  <2>1. g = h /\ H1 = H
    BY <1>2, <1>13 DEF Idle
  <2>2. HasPartition' => HasPartition
    BY <1>1, <1>13 DEF Idle, HasPartition, Partitioned, action
  <2> QED
    BY <1>3, <1>5, <2>1, <2>2
<1> QED
  BY <1>7, <1>8, <1>9, <1>10, <1>11, <1>12, <1>13, NextIs

(* It is enough.                                                            *)
LEMMA FixedIsEnough ==
  ASSUME FixedInv
  PROVE  FixedVerticesAreKept
<1>1. ~Broken => FixedWeightsAreRight(hg)
  BY FixedSumsAre DEF FixedInv
<1>2. Partitioned => Placed(hg)
  BY DEF FixedInv, HasPartition
<1> QED
  BY <1>1, <1>2 DEF FixedVerticesAreKept, Placed

(* The weights of the fixed vertices per block are kept right through       *)
(* contractions into and of fixed vertices and their undoing, and a fixed   *)
(* vertex stays in its block, also when the time limit cuts the             *)
(* uncoarsening short, for every hypergraph and every call                  *)
(* (Hypergraph::contract, restoreMemento and setFixedVertex).               *)
THEOREM FixedVerticesStay == Spec => []FixedVerticesAreKept
<1>1. Init => IInv /\ FixedInv
  BY InitIsInvariant, InitFits
<1>2. IInv /\ FixedInv /\ [Next]_vars => (IInv /\ FixedInv)'
  <2> SUFFICES ASSUME IInv, FixedInv, [Next]_vars PROVE (IInv /\ FixedInv)'
    OBVIOUS
  <2>1. IInv'
    BY StepKeepsInvariant
  <2> QED
    BY <2>1, StepFits
<1>3. IInv /\ FixedInv => FixedVerticesAreKept
  BY FixedIsEnough
<1> QED
  BY <1>1, <1>2, <1>3, PTL DEF Spec

-----------------------------------------------------------------------------
(* Parallel nets.                                                           *)

HashesRight(h) == \A e \in h.live : h.hash[e] = HashOf(pins(h, e))
(* No two nets at u have the same pins.                                     *)
NoneParallel(h, u) == \A e, f \in h.nets[u] : e # f => pins(h, e) # pins(h, f)

(* The nets of u that are no representatives are removed, each for one that *)
(* is parallel to it by its fingerprint.                                    *)
LEMMA ParallelNetsAre ==
  ASSUME NEW h, NEW u, NEW R \in Representatives(h, u), NEW P, P = ParallelHyperedges(h, u, R)
  PROVE  /\ RemovedNets(P) = h.nets[u] \ R /\ R \subseteq h.nets[u]
         /\ \A p \in P : p.representative \in R /\ isParallelHyperedge(h, p.representative, p.removed)
         /\ \A p, q \in P : p.removed = q.removed => p = q
<1>1. PICK rep : rep = [e \in h.nets[u] \ R |-> CHOOSE r \in R : isParallelHyperedge(h, r, e)]
  OBVIOUS
<1>2. R \subseteq h.nets[u] /\ \A e \in h.nets[u] : \E r \in R : isParallelHyperedge(h, r, e)
  BY DEF Representatives
<1>3. \A e \in h.nets[u] \ R : rep[e] \in R /\ isParallelHyperedge(h, rep[e], e)
  <2> SUFFICES ASSUME NEW e \in h.nets[u] \ R PROVE rep[e] \in R /\ isParallelHyperedge(h, rep[e], e)
    OBVIOUS
  <2>1. \E r \in R : isParallelHyperedge(h, r, e)
    BY <1>2
  <2>2. rep[e] = CHOOSE r \in R : isParallelHyperedge(h, r, e)
    BY <1>1
  <2> QED
    BY <2>1, <2>2
<1>4. P = {[representative |-> rep[e], removed |-> e] : e \in h.nets[u] \ R}
  BY <1>1 DEF ParallelHyperedges
<1>5. \A p \in P : \E e \in h.nets[u] \ R : p = [representative |-> rep[e], removed |-> e]
  BY <1>4
<1>6. \A e \in h.nets[u] \ R : [representative |-> rep[e], removed |-> e] \in P
  BY <1>4
<1>7. \A p \in P : p.removed \in h.nets[u] \ R /\ p = [representative |-> rep[p.removed], removed |-> p.removed]
  BY <1>5
<1>8. \A p \in P : p.representative = rep[p.removed]
  BY <1>5
<1>9. RemovedNets(P) = h.nets[u] \ R
  <2>1. \A e \in RemovedNets(P) : e \in h.nets[u] \ R
    BY <1>7 DEF RemovedNets
  <2>2. ASSUME NEW e \in h.nets[u] \ R PROVE e \in RemovedNets(P)
    <3>1. PICK p : p = [representative |-> rep[e], removed |-> e]
      OBVIOUS
    <3>2. p \in P /\ p.removed = e
      BY <1>6, <3>1
    <3> QED
      BY <3>2 DEF RemovedNets
  <2> QED
    BY <2>1, <2>2
<1>10. \A p, q \in P : p.removed = q.removed => p = q
  BY <1>7
<1> QED
  BY <1>2, <1>3, <1>7, <1>8, <1>9, <1>10

(* A hash is the seed and the sum of the hashes of the pins.                *)
LEMMA HashIs ==
  ASSUME NEW P, IsFiniteSet(P), P \subseteq Nodes
  PROVE  /\ SumOver(Hash, P) \in Int /\ HashOf(P) = kEdgeHashSeed + SumOver(Hash, P)
<1>1. \A w \in P : Hash[w] \in Int
  BY KHypergraphAssumption
<1>2. SumOver(Hash, P) \in Int
  BY <1>1, SumType
<1>3. HashOf(P) = kEdgeHashSeed + SumOver(Hash, P)
  BY DEF HashOf, SumOver
<1> QED
  BY <1>2, <1>3

(* The hash follows the pins of a net.                                      *)
LEMMA HashMerged ==
  ASSUME NEW P, IsFiniteSet(P), P \subseteq Nodes, NEW u \in Nodes, NEW v \in Nodes, u # v
  PROVE  /\ Cut(P, u, v) => HashOf(Merged(P, u, v)) = HashOf(P) - Hash[v]
         /\ v \in P /\ u \notin P => HashOf(Merged(P, u, v)) = HashOf(P) - Hash[v] + Hash[u]
         /\ v \notin P => HashOf(Merged(P, u, v)) = HashOf(P)
<1>1. \A w \in Nodes : Hash[w] \in Int
  BY KHypergraphAssumption
<1>2. v \notin P => HashOf(Merged(P, u, v)) = HashOf(P)
  BY DEF Merged
<1>3. ASSUME v \in P
      PROVE  /\ u \in P => HashOf(Merged(P, u, v)) = HashOf(P) - Hash[v]
             /\ u \notin P => HashOf(Merged(P, u, v)) = HashOf(P) - Hash[v] + Hash[u]
  <2>1. PICK Q : Q = P \ {v}
    OBVIOUS
  <2>2. IsFiniteSet(Q) /\ Q \subseteq Nodes
    BY <2>1, FS_RemoveElement
  <2>3. \A w \in P : Hash[w] \in Int
    BY <1>1
  <2>4. SumOver(Hash, P) = Hash[v] + SumOver(Hash, Q)
    BY <1>3, <2>1, <2>3, SumAny
  <2>5. /\ SumOver(Hash, Q) \in Int /\ HashOf(Q) = kEdgeHashSeed + SumOver(Hash, Q)
        /\ HashOf(P) = kEdgeHashSeed + SumOver(Hash, P)
    BY <2>2, HashIs
  <2>6. HashOf(Q) = HashOf(P) - Hash[v]
    BY <1>1, <2>4, <2>5 DEF kEdgeHashSeed
  <2>7. CASE u \in P
    <3>1. Merged(P, u, v) = Q
      BY <1>3, <2>1, <2>7 DEF Merged
    <3> QED
      BY <2>6, <2>7, <3>1
  <2>8. CASE u \notin P
    <3>1. Merged(P, u, v) = Q \cup {u}
      BY <1>3, <2>1 DEF Merged
    <3>2. u \notin Q /\ \A w \in Q : Hash[w] \in Int
      BY <1>1, <2>1, <2>2, <2>8
    <3>3. Hash[u] \in Int /\ Hash[v] \in Int
      BY <1>1
    <3>4. SumOver(Hash, Q \cup {u}) = Hash[u] + SumOver(Hash, Q)
      BY <2>2, <3>2, <3>3, SumAdd
    <3>5. PICK T : T = Q \cup {u}
      OBVIOUS
    <3>6. IsFiniteSet(T) /\ T \subseteq Nodes
      BY <2>2, <3>5, FS_AddElement
    <3>7. HashOf(T) = kEdgeHashSeed + SumOver(Hash, T)
      BY <3>6, HashIs
    <3>8. HashOf(T) = HashOf(P) - Hash[v] + Hash[u]
      BY <2>4, <2>5, <3>3, <3>4, <3>5, <3>7 DEF kEdgeHashSeed
    <3> QED
      BY <2>8, <3>1, <3>5, <3>8
  <2> QED
    BY <2>7, <2>8
<1> QED
  BY <1>2, <1>3 DEF Cut

(* contract keeps the hashes right.                                         *)
LEMMA ContractKeepsHashes ==
  ASSUME NEW h, WellFormed(h), HashesRight(h), NEW u, NEW v, MayContract(h, u, v), NEW c, After(h, c, u, v),
         HashContracted(h, c, u, v)
  PROVE  HashesRight(c)
<1> SUFFICES ASSUME NEW e \in c.live PROVE c.hash[e] = HashOf(pins(c, e))
  BY DEF HashesRight
<1>1. PICK P : P = pins(h, e)
  OBVIOUS
<1>2. e \in h.live /\ e \in Nets /\ u \in h.on /\ v \in h.on /\ u \in Nodes /\ v \in Nodes /\ u # v
  BY DEF After, WellFormed, Typed, MayContract
<1>3. Holds(h, e, P) /\ NetContracted(h, c, e, P, u, v)
  BY <1>1, <1>2 DEF WellFormed, NetsHold, After
<1>4. IsFiniteSet(P) /\ P \subseteq Nodes
  BY <1>3, HeldIsFinite
<1>5. pins(c, e) = Merged(P, u, v)
  BY <1>3, PinsOfMerged DEF NetContracted
<1>6. (e \in h.nets[u] <=> u \in P) /\ (e \in h.nets[v] <=> v \in P)
  BY <1>1, <1>2 DEF WellFormed, Incident
<1>7. h.hash[e] = HashOf(P)
  BY <1>1, <1>2 DEF HashesRight
<1>8. c.hash[e] = IF e \in h.nets[v] \cap h.nets[u] THEN h.hash[e] - Hash[v]
                  ELSE IF e \in h.nets[v] \ h.nets[u] THEN h.hash[e] - Hash[v] + Hash[u]
                  ELSE h.hash[e]
  BY <1>2 DEF HashContracted
<1>9. /\ Cut(P, u, v) => HashOf(Merged(P, u, v)) = HashOf(P) - Hash[v]
      /\ v \in P /\ u \notin P => HashOf(Merged(P, u, v)) = HashOf(P) - Hash[v] + Hash[u]
      /\ v \notin P => HashOf(Merged(P, u, v)) = HashOf(P)
  BY <1>2, <1>4, HashMerged
<1>10. CASE v \notin P
  BY <1>5, <1>6, <1>7, <1>8, <1>9, <1>10
<1>11. CASE v \in P /\ u \in P
  BY <1>5, <1>6, <1>7, <1>8, <1>9, <1>11 DEF Cut
<1>12. CASE v \in P /\ u \notin P
  BY <1>5, <1>6, <1>7, <1>8, <1>9, <1>12
<1> QED
  BY <1>10, <1>11, <1>12

(* Hypergraphs with the same hashes and pins.                               *)
LEMMA SameHashes ==
  ASSUME NEW h, HashesRight(h), NEW g, g.slots = h.slots, g.size = h.size, g.hash = h.hash, g.live \subseteq h.live
  PROVE  HashesRight(g)
BY SameNets DEF HashesRight

(* A whole contraction keeps the hashes right, and no two of the nets that  *)
(* stay at u are parallel: the fingerprints tell.                           *)
LEMMA PushFindsParallelNets ==
  ASSUME NEW h, WellFormed(h), HashesRight(h), NEW u, NEW v, MayContract(h, u, v),
         NEW f, NEW H, NEW H1, NEW m, Pushes(h, u, v, f, H, H1, m)
  PROVE  HashesRight(f) /\ NoneParallel(f, u)
<1>1. PICK c, S, d, R, P, a : PushOps(h, u, v, c, S, d, R, P, a, f)
  BY DEF Pushes
<1>2. /\ c = contract(h, u, v) /\ d = removeEdges(c, S) /\ R \in Representatives(d, u)
      /\ P = ParallelHyperedges(d, u, R) /\ a = AddToWeights(d, P, 1) /\ f = removeEdges(a, RemovedNets(P))
  BY <1>1 DEF PushOps
<1>3. After(h, c, u, v) /\ EdgesGone(c, d, S) /\ Reweighted(d, a, P, 1) /\ EdgesGone(a, f, RemovedNets(P))
  BY <1>1, PushIs DEF PushSteps
<1>4. WellFormed(c) /\ WellFormed(d) /\ WellFormed(a) /\ WellFormed(f)
  BY <1>3 DEF After, EdgesGone, Reweighted
<1>5. IsHypergraph(h) /\ IsHypergraph(c) /\ IsHypergraph(d) /\ IsHypergraph(a)
  BY <1>4 DEF WellFormed, Typed
<1>6. HashContracted(h, c, u, v)
  BY <1>2, <1>5, ContractInfo DEF InfoContracted
<1>7. HashesRight(c)
  BY <1>3, <1>6, ContractKeepsHashes
<1>8. d.hash = c.hash
  BY <1>2, <1>5, RemoveEdgesInfo DEF SameRest
<1>9. a.hash = d.hash
  BY <1>2, <1>5, AddToWeightsInfo DEF SameRest
<1>10. f.hash = a.hash
  BY <1>2, <1>5, RemoveEdgesInfo DEF SameRest
<1>11. HashesRight(d)
  <2>1. d.slots = c.slots /\ d.size = c.size /\ d.live \subseteq c.live
    BY <1>3 DEF EdgesGone
  <2> QED
    BY <1>7, <1>8, <2>1, SameHashes
<1>12. f.slots = d.slots /\ f.size = d.size /\ f.live = d.live \ RemovedNets(P) /\ f.on = d.on
  BY <1>3 DEF EdgesGone, Reweighted
<1>13. HashesRight(f)
  BY <1>9, <1>10, <1>11, <1>12, SameHashes
<1>14. u \in d.on
  BY <1>3 DEF EdgesGone, After, MayContract
<1>15. \A e : pins(f, e) = pins(d, e)
  BY <1>12, SameNets
<1>16. f.nets[u] \subseteq R
  <2>1. ASSUME NEW e \in f.nets[u]
        PROVE  e \in R
    <3>1. e \in f.live /\ u \in pins(f, e)
      BY <1>4, <1>12, <1>14 DEF WellFormed, Incident
    <3>2. e \in d.live /\ e \notin RemovedNets(P) /\ u \in pins(d, e)
      BY <1>12, <1>15, <3>1
    <3>3. e \in d.nets[u]
      BY <1>4, <1>14, <3>2 DEF WellFormed, Incident
    <3>4. e \in d.nets[u] \ R => e \in RemovedNets(P)
      BY <1>2, ParallelNetsAre
    <3> QED
      BY <3>2, <3>3, <3>4
  <2> QED
    BY <2>1
<1>17. R \subseteq d.nets[u] /\ \A r, s \in R : r # s => ~isParallelHyperedge(d, r, s)
  BY <1>2 DEF Representatives
<1>18. ASSUME NEW e \in f.nets[u], NEW x \in f.nets[u], e # x, pins(f, e) = pins(f, x)
       PROVE  FALSE
  <2>1. e \in R /\ x \in R /\ pins(d, e) = pins(d, x)
    BY <1>15, <1>16, <1>18
  <2>2. e \in d.live /\ x \in d.live
    BY <1>4, <1>14, <1>17, <2>1 DEF WellFormed, Incident
  <2>3. d.hash[e] = d.hash[x]
    BY <1>11, <2>1, <2>2 DEF HashesRight
  <2>4. d.size[e] = d.size[x]
    BY <1>4, <2>1, <2>2 DEF WellFormed, NetsHold, Holds
  <2>5. isParallelHyperedge(d, e, x)
    BY <2>1, <2>3, <2>4 DEF isParallelHyperedge
  <2> QED
    BY <1>17, <1>18, <2>1, <2>5
<1> QED
  BY <1>13, <1>18 DEF NoneParallel

-----------------------------------------------------------------------------
(* The invariant of the fingerprints.                                       *)
ParallelInv ==
  /\ phase \in {"vcycle", "done"} => history = <<>>
  /\ ~Broken =>
       /\ phase \in {"pass", "visit"} => HashesRight(hg)
       /\ phase \in {"pass", "visit"} /\ history # <<>> => NoneParallel(hg, Last(history).u)

(* A constructed hypergraph has the right hashes.                           *)
LEMMA ConstructedHashes ==
  ASSUME NEW h, IsConstructed(h)
  PROVE  HashesRight(h)
<1>1. PICK n : n = NewHypergraph(h.slots, h.weight, h.edge_weight)
  OBVIOUS
<1>2. h = [n EXCEPT !.fixed_part = h.fixed_part, !.fixed_weight = h.fixed_weight,
                    !.fixed = {u \in Nodes : h.fixed_part[u] # kInvalidPartition}]
  BY <1>1 DEF IsConstructed
<1>3. /\ n.size = [e \in Nets |-> Len(h.slots[e])] /\ n.live = Nets
      /\ n.hash = [e \in Nets |-> HashOf({h.slots[e][i] : i \in DOMAIN h.slots[e]})]
  BY <1>1 DEF NewHypergraph
<1>4. h.size = n.size /\ h.live = n.live /\ h.hash = n.hash
  BY <1>1, <1>2 DEF NewHypergraph
<1>5. \A e \in Nets : DOMAIN h.slots[e] = 1 .. h.size[e]
  <2>1. h.slots \in [Nets -> Seq(Nodes)]
    BY DEF IsConstructed
  <2> QED
    BY <1>3, <1>4, <2>1
<1>6. \A e \in Nets : h.hash[e] = HashOf(pins(h, e))
  BY <1>3, <1>4, <1>5 DEF pins
<1> QED
  BY <1>3, <1>4, <1>6 DEF HashesRight

(* The invariant holds initially.                                           *)
LEMMA InitFindsParallelNets ==
  ASSUME Init
  PROVE  ParallelInv
<1>1. PICK h, g : h = context.hypergraph /\ g = hg
  OBVIOUS
<1>2. context \in Contexts /\ history = <<>>
  BY DEF Init
<1>3. IsConstructed(h) /\ WellFormed(h)
  BY <1>1, <1>2, ContextsAssumption, ContextIs
<1>4. HashesRight(g)
  <2>1. CASE hg = context.hypergraph
    BY <1>1, <1>3, <2>1, ConstructedHashes
  <2>2. CASE \E part \in context.partitions : hg = setPartition(context.hypergraph, part)
    <3>1. PICK part : g = setPartition(h, part)
      BY <1>1, <2>2
    <3>2. PICK r : r = reset(h)
      OBVIOUS
    <3>3. g = AssignParts(r, part)
      BY <3>1, <3>2 DEF setPartition
    <3>4. IsHypergraph(h)
      BY <1>3 DEF WellFormed, Typed
    <3>5. IsHypergraph(r) /\ SameStructure(h, r) /\ IsReset(h, r)
      BY <3>2, <3>4, PartitionOperationsKeepStructure, ResetInfo
    <3>6. SameStructure(r, g) /\ Assigned(r, g, part)
      BY <3>3, <3>5, PartitionOperationsKeepStructure, AssignPartsInfo
    <3>7. g.hash = [e \in Nets |-> HashOf(pins(h, e))]
      BY <3>5, <3>6 DEF IsReset, Assigned
    <3>8. g.slots = h.slots /\ g.size = h.size /\ g.live = h.live
      BY <3>5, <3>6 DEF SameStructure
    <3>9. h.live \subseteq Nets
      BY <1>3 DEF WellFormed, Typed
    <3> QED
      BY <3>7, <3>8, <3>9, SameNets DEF HashesRight
  <2> QED
    BY <2>1, <2>2 DEF Init
<1> QED
  BY <1>1, <1>2, <1>4 DEF ParallelInv

(* Every step keeps it.                                                     *)
LEMMA StepFindsParallelNets ==
  ASSUME IInv, ParallelInv, [Next]_vars
  PROVE  ParallelInv'
<1>1. PICK h, H, g, H1 : h = hg /\ H = history /\ g = hg' /\ H1 = history'
  OBVIOUS
<1>2. ~Broken' => ~Broken
  BY BrokenStays
<1>3. ~Broken => WellFormed(h)
  BY <1>1 DEF IInv, LevelsInv
<1>4. CASE Contraction
  <2>1. phase = "visit" /\ phase' = "visit"
    BY <1>4 DEF Contraction
  <2>2. PICK u, v, m : MayContract(h, u, v) /\ Pushes(h, u, v, g, H, H1, m)
    BY <1>1, <1>4, ContractionIsPushed
  <2>3. ASSUME ~Broken'
        PROVE  HashesRight(g) /\ NoneParallel(g, Last(H1).u)
    <3>1. WellFormed(h) /\ HashesRight(h)
      BY <1>1, <1>2, <1>3, <2>1, <2>3 DEF ParallelInv
    <3>2. HashesRight(g) /\ NoneParallel(g, u)
      BY <2>2, <3>1, PushFindsParallelNets
    <3>3. m.u = u /\ H1 = Append(H, m)
      BY <2>2 DEF Pushes
    <3>4. PICK n \in Nat : n = Len(H)
      BY <1>1, ListLength DEF IInv
    <3>5. Last(H1) = m
      <4>1. IsAppended(H1, H, m, n)
        BY <1>1, <3>3, <3>4, ListAppended DEF IInv
      <4> QED
        BY <4>1 DEF IsAppended, Last
    <3> QED
      BY <3>2, <3>3, <3>5
  <2> QED
    BY <1>1, <2>1, <2>3 DEF ParallelInv
<1>5. CASE Uncontract \/ SoftTimeLimitExceeded \/ InitialPartition \/ Refine
  <2>1. phase' \notin {"pass", "visit", "vcycle", "done"}
    BY <1>5 DEF Uncontract, SoftTimeLimitExceeded, InitialPartition, Refine
  <2> QED
    BY <2>1 DEF ParallelInv
<1>6. CASE partitionVCycle
  <2>1. phase = "vcycle" /\ phase' = "pass" /\ g = resetEdgeHashes(h) /\ H1 = H
    BY <1>1, <1>6 DEF partitionVCycle
  <2>2. H = <<>>
    BY <1>1, <2>1 DEF ParallelInv
  <2>3. ASSUME ~Broken' PROVE HashesRight(g)
    <3>1. WellFormed(h)
      BY <1>2, <1>3, <2>3
    <3>2. IsHypergraph(h) /\ h.live \subseteq Nets
      BY <3>1 DEF WellFormed, Typed
    <3>3. g.hash = [e \in Nets |-> IF e \in h.live THEN HashOf(pins(h, e)) ELSE h.hash[e]]
      BY <2>1, <3>2, ResetEdgeHashesInfo
    <3>4. SameStructure(h, g)
      BY <2>1, <3>2, PartitionOperationsKeepStructure
    <3>5. g.live = h.live /\ \A e : pins(g, e) = pins(h, e)
      BY <3>4, SameNets DEF SameStructure
    <3> QED
      BY <3>2, <3>3, <3>5 DEF HashesRight
  <2> QED
    BY <1>1, <2>1, <2>2, <2>3 DEF ParallelInv
<1>7. CASE Idle
  <2>1. hg' = hg /\ history' = history
    BY <1>7 DEF Idle
  <2>2. phase' \in {"pass", "visit"} => phase \in {"pass", "visit"}
    BY <1>7 DEF Idle
  <2>3. phase' \in {"vcycle", "done"} => history = <<>>
    BY <1>7 DEF Idle, ParallelInv
  <2> QED
    BY <1>2, <2>1, <2>2, <2>3 DEF ParallelInv
<1> QED
  BY <1>4, <1>5, <1>6, <1>7, NextIs

(* It is enough.                                                            *)
LEMMA ParallelIsEnough ==
  ASSUME ParallelInv
  PROVE  ParallelNetsAreFound
<1>1. ~Broken /\ phase \in {"pass", "visit"} => HashesAreOfPins(hg)
  BY DEF ParallelInv, HashesRight, HashesAreOfPins
<1>2. ~Broken /\ phase = "visit" /\ history # <<>> =>
        \A e, f \in hg.nets[Last(history).u] : e # f => pins(hg, e) # pins(hg, f)
  BY DEF ParallelInv, NoneParallel
<1> QED
  BY <1>1, <1>2 DEF ParallelNetsAreFound

(* While nets are compared by fingerprint the hash of every net is the hash *)
(* of its pins, in every V-cycle, and so no parallel nets are left at a     *)
(* representative, for every hypergraph and every hash function, injective  *)
(* or not (contract, resetEdgeHashes and removeParallelHyperedges).         *)
THEOREM ParallelNetsFound == Spec => []ParallelNetsAreFound
<1>1. Init => IInv /\ ParallelInv
  BY InitIsInvariant, InitFindsParallelNets
<1>2. IInv /\ ParallelInv /\ [Next]_vars => (IInv /\ ParallelInv)'
  <2> SUFFICES ASSUME IInv, ParallelInv, [Next]_vars PROVE (IInv /\ ParallelInv)'
    OBVIOUS
  <2>1. IInv'
    BY StepKeepsInvariant
  <2> QED
    BY <2>1, StepFindsParallelNets
<1>3. IInv /\ ParallelInv => ParallelNetsAreFound
  BY ParallelIsEnough
<1> QED
  BY <1>1, <1>2, <1>3, PTL DEF Spec

-----------------------------------------------------------------------------
(* What a level costs.                                                      *)

(* A net costs its weight, times how much its pins are spread.              *)
Costs(t, w, D) == [e \in D |-> t[e] * w[e]]
CutFactor(c) == IF c > 1 THEN 1 ELSE 0
Km1Factor(c) == IF c > 1 THEN c - 1 ELSE 0

(* The nets D, with spreads t and weights w.                                *)
AreCosts(t, w, D) == IsFiniteSet(D) /\ \A e \in D : t[e] \in Int /\ w[e] \in Int

(* Products of sums.                                                        *)
LEMMA Distributes ==
  ASSUME NEW a \in Int, NEW b \in Int, NEW c \in Int
  PROVE  a * (b + c) = a * b + a * c /\ a * b \in Int
OBVIOUS

(* A sum over some of the nets is one with zeros.                           *)
Chosen(w, D, C) == [e \in D |-> IF e \in C THEN w[e] ELSE 0]
(* Those not chosen cost nothing.                                           *)
LEMMA SumChosen ==
  ASSUME NEW w, NEW D, IsFiniteSet(D), \A e \in D : w[e] \in Int, NEW C \in SUBSET D
  PROVE  SumOver(w, C) = SumOver(Chosen(w, D, C), D)
<1>1. PICK E : E = D \ C
  OBVIOUS
<1>2. IsFiniteSet(C) /\ IsFiniteSet(E) /\ C \cap E = {} /\ C \cup E = D
  BY <1>1, FS_Subset
<1>3. PICK g : g = Chosen(w, D, C)
  OBVIOUS
<1>4. /\ \A e \in C : g[e] = w[e] /\ g[e] \in Int
      /\ \A e \in E : g[e] = 0
  BY <1>1, <1>3 DEF Chosen
<1>5. SumOver(g, C) = SumOver(w, C) /\ SumOver(w, C) \in Int
  <2>1. SumOver(w, C) \in Int
    BY <1>2, SumType
  <2> QED
    BY <1>2, <1>4, <2>1, SumSame
<1>6. SumOver(g, E) = 0
  <2>1. \A x \in E : g[x] \in Nat
    BY <1>4
  <2> QED
    BY <1>2, <1>4, <2>1, SumOfZeros
<1>7. SumOver(g, C \cup E) = SumOver(g, C) + SumOver(g, E)
  <2>1. \A x \in C \cup E : g[x] \in Int
    BY <1>4
  <2> QED
    BY <1>2, <2>1, SumOfUnion
<1>8. SumOver(g, D) = SumOver(g, C) + SumOver(g, E)
  BY <1>2, <1>7
<1> QED
  BY <1>3, <1>5, <1>6, <1>8

(* The sum of sums.                                                         *)
Plus(f, g, D) == [e \in D |-> f[e] + g[e]]
(* The sum of the sums is the sum of both.                                  *)
LEMMA SumOfPlus ==
  ASSUME NEW f, NEW g, NEW D, IsFiniteSet(D), \A e \in D : f[e] \in Int /\ g[e] \in Int
  PROVE  SumOver(Plus(f, g, D), D) = SumOver(f, D) + SumOver(g, D)
<1>1. PICK h : h = Plus(f, g, D)
  OBVIOUS
<1>2. \A e \in D : h[e] = f[e] + g[e] /\ h[e] \in Int
  BY <1>1 DEF Plus
<1> DEFINE Adds(X) == SumOver(h, X) = SumOver(f, X) + SumOver(g, X)
<1> SUFFICES ASSUME ~Adds(D) PROVE FALSE
  BY <1>1
<1>3. PICK T : T = {X \in SUBSET D : ~Adds(X)}
  OBVIOUS
<1>4. T \in SUBSET SUBSET D /\ T # {}
  BY <1>3
<1>5. PICK X \in T : \A Y \in T : Y \subseteq X => Y = X
  BY <1>4, MinimalSet
<1>6. X \in SUBSET D /\ IsFiniteSet(X) /\ ~Adds(X)
  BY <1>3, FS_Subset
<1>7. X # {}
  <2> SUFFICES ASSUME X = {} PROVE FALSE
    OBVIOUS
  <2>1. SumOver(f, X) = 0 /\ SumOver(g, X) = 0 /\ SumOver(h, X) = 0
    BY SumEmpty
  <2> QED
    BY <1>6, <2>1
<1>8. PICK x : x \in X
  BY <1>7
<1>9. PICK Y : Y = X \ {x}
  OBVIOUS
<1>10. Y \subseteq X /\ Y # X /\ Y \in SUBSET D /\ IsFiniteSet(Y)
  BY <1>6, <1>8, <1>9, FS_Subset
<1>11. Adds(Y)
  BY <1>3, <1>5, <1>10
<1>12. x \in D /\ f[x] \in Int /\ g[x] \in Int /\ h[x] = f[x] + g[x]
  BY <1>2, <1>6, <1>8
<1>13. SumOver(f, X) = f[x] + SumOver(f, Y) /\ SumOver(g, X) = g[x] + SumOver(g, Y) /\ SumOver(h, X) = h[x] + SumOver(h, Y)
  <2>1. (\A y \in X : f[y] \in Int) /\ (\A y \in X : g[y] \in Int) /\ (\A y \in X : h[y] \in Int)
    BY <1>2, <1>6
  <2>2. SumOver(f, X) = f[x] + SumOver(f, X \ {x})
    BY <1>6, <1>8, <2>1, SumAny
  <2>3. SumOver(g, X) = g[x] + SumOver(g, X \ {x})
    BY <1>6, <1>8, <2>1, SumAny
  <2>4. SumOver(h, X) = h[x] + SumOver(h, X \ {x})
    BY <1>6, <1>8, <2>1, SumAny
  <2> QED
    BY <1>9, <2>2, <2>3, <2>4
<1>14. SumOver(f, Y) \in Int /\ SumOver(g, Y) \in Int
  <2>1. (\A y \in Y : f[y] \in Int) /\ (\A y \in Y : g[y] \in Int)
    BY <1>10
  <2> QED
    BY <1>10, <2>1, SumType
<1> QED
  BY <1>6, <1>11, <1>12, <1>13, <1>14

(* Max of a number and zero.                                                *)
LEMMA MaxWithZero ==
  ASSUME NEW c \in Int, c >= 0
  PROVE  Max({c - 1, 0}) = Km1Factor(c)
<1>1. PICK S : S = {c - 1, 0}
  OBVIOUS
<1>2. S \subseteq Int /\ IsFiniteSet(S) /\ S # {}
  <2>1. IsFiniteSet({0})
    BY FS_Singleton
  <2>2. S = {0} \cup {c - 1}
    BY <1>1
  <2>3. IsFiniteSet(S)
    BY <2>1, <2>2, FS_AddElement
  <2> QED
    BY <1>1, <2>3
<1>3. Max(S) \in S /\ \A y \in S : Max(S) >= y
  BY <1>2, FiniteMaximum
<1> QED
  BY <1>1, <1>3 DEF Km1Factor

(* km1 as a sum of costs.                                                   *)
Km1Over(c, w, S, g) ==
  g = [s \in SUBSET S |-> IF s = {} THEN 0 ELSE (Max({c[Some(s)] - 1, 0}) * w[Some(s)]) + g[s \ {Some(s)}]]
Km1Costs(c, w, S) == [e \in S |-> Max({c[e] - 1, 0}) * w[e]]

(* The fold of km1 is that of its costs.                                    *)
LEMMA Km1OverIs ==
  ASSUME NEW c, NEW w, NEW S
  PROVE  (CHOOSE g : Km1Over(c, w, S, g)) = (CHOOSE g : SumsOver(Km1Costs(c, w, S), S, g))
<1>1. \A s \in SUBSET S : s # {} => Some(s) \in S
  BY DEF Some
<1>2. ASSUME NEW g
      PROVE  [s \in SUBSET S |-> IF s = {} THEN 0 ELSE (Max({c[Some(s)] - 1, 0}) * w[Some(s)]) + g[s \ {Some(s)}]]
               = [s \in SUBSET S |-> IF s = {} THEN 0 ELSE Km1Costs(c, w, S)[Some(s)] + g[s \ {Some(s)}]]
  BY <1>1 DEF Km1Costs
<1>3. \A g : Km1Over(c, w, S, g) <=> SumsOver(Km1Costs(c, w, S), S, g)
  BY <1>2 DEF Km1Over, SumsOver
<1> QED
  BY <1>3

(* So km1 is a sum.                                                         *)
LEMMA Km1IsSum ==
  ASSUME NEW h
  PROVE  km1(h) = SumOver(Km1Costs(h.connectivity, h.edge_weight, h.live), h.live)
<1>1. km1(h) = (CHOOSE g : Km1Over(h.connectivity, h.edge_weight, h.live, g))[h.live]
  BY Zenon DEF km1, MapThenSumSet, MapThenFoldSet, Km1Over, Some
<1> QED
  BY <1>1, Km1OverIs, SumIs

Km1OfOver(L, f, g) ==
  g = [s \in SUBSET L.live |-> IF s = {} THEN 0
                               ELSE (Max({ConnectivityOf(L, f, Some(s)) - 1, 0}) * L.edge_weight[Some(s)]) + g[s \ {Some(s)}]]
Connectivities(L, f) == [e \in L.live |-> ConnectivityOf(L, f, e)]
(* So it is for a level.                                                    *)
LEMMA Km1OfIsSum ==
  ASSUME NEW L, NEW f
  PROVE  km1Of(L, f) = SumOver(Km1Costs(Connectivities(L, f), L.edge_weight, L.live), L.live)
<1>1. km1Of(L, f) = (CHOOSE g : Km1OfOver(L, f, g))[L.live]
  BY Zenon DEF km1Of, MapThenSumSet, MapThenFoldSet, Km1OfOver, Some
<1>2. PICK S : S = L.live
  OBVIOUS
<1>3. \A s \in SUBSET S : s # {} => Some(s) \in S
  BY DEF Some
<1>4. PICK c : c = Connectivities(L, f)
  OBVIOUS
<1>5. \A e \in S : c[e] = ConnectivityOf(L, f, e)
  BY <1>2, <1>4 DEF Connectivities
<1>6. \A s \in SUBSET S : s # {} => c[Some(s)] = ConnectivityOf(L, f, Some(s))
  BY <1>3, <1>5
<1>7. ASSUME NEW g
      PROVE  [s \in SUBSET S |-> IF s = {} THEN 0 ELSE (Max({c[Some(s)] - 1, 0}) * L.edge_weight[Some(s)]) + g[s \ {Some(s)}]]
               = [s \in SUBSET S |-> IF s = {} THEN 0
                      ELSE (Max({ConnectivityOf(L, f, Some(s)) - 1, 0}) * L.edge_weight[Some(s)]) + g[s \ {Some(s)}]]
  BY <1>6
<1>8. \A g : Km1OfOver(L, f, g) <=> Km1Over(c, L.edge_weight, S, g)
  BY <1>2, <1>7 DEF Km1OfOver, Km1Over
<1>9. (CHOOSE g : Km1OfOver(L, f, g)) = (CHOOSE g : Km1Over(c, L.edge_weight, S, g))
  BY <1>8
<1> QED
  BY <1>1, <1>2, <1>4, <1>9, Km1OverIs, SumIs

(* Elements that move: what x brings to r[x].                                *)
At(r, X, e) == {x \in X : r[x] = e}
Moved(t, w, r, X, C) == [e \in C |-> t[e] * SumOver(w, At(r, X, e))]
MayMove(t, w, r, X, C) ==
  /\ IsFiniteSet(X) /\ IsFiniteSet(C)
  /\ \A x \in X : r[x] \in C /\ t[x] = t[r[x]] /\ t[x] \in Int /\ w[x] \in Int
  /\ \A e \in C : t[e] \in Int

(* One element less to move.                                                *)
LEMMA OneMoves ==
  ASSUME NEW t, NEW w, NEW r, NEW X, NEW C, MayMove(t, w, r, X, C), NEW x \in X, NEW Y, Y = X \ {x}
  PROVE  /\ MayMove(t, w, r, Y, C)
         /\ SumOver(Moved(t, w, r, X, C), C) = SumOver(Moved(t, w, r, Y, C), C) + t[x] * w[x]
         /\ SumOver(Costs(t, w, X), X) = SumOver(Costs(t, w, Y), Y) + t[x] * w[x]
<1>1. MayMove(t, w, r, Y, C)
  <2>1. Y \subseteq X
    OBVIOUS
  <2>2. IsFiniteSet(Y)
    BY <2>1, FS_Subset DEF MayMove
  <2> QED
    BY <2>1, <2>2 DEF MayMove
<1>2. IsFiniteSet(X) /\ IsFiniteSet(C) /\ IsFiniteSet(Y) /\ r[x] \in C /\ t[x] = t[r[x]] /\ t[x] \in Int /\ w[x] \in Int
  BY <1>1 DEF MayMove
<1>3. PICK d : d = t[x] * w[x]
  OBVIOUS
<1>4. d \in Int
  BY <1>2, <1>3, Distributes
<1>5. ASSUME NEW e \in C
      PROVE  /\ SumOver(w, At(r, Y, e)) \in Int /\ t[e] \in Int
             /\ r[x] = e => SumOver(w, At(r, X, e)) = w[x] + SumOver(w, At(r, Y, e))
             /\ r[x] # e => SumOver(w, At(r, X, e)) = SumOver(w, At(r, Y, e))
  <2>1. PICK Z : Z = At(r, Y, e)
    OBVIOUS
  <2>2. Z \subseteq Y /\ Z \subseteq X
    BY <2>1 DEF At
  <2>3. IsFiniteSet(Z) /\ (\A y \in Z : w[y] \in Int) /\ x \notin Z
    BY <1>2, <2>2, FS_Subset DEF MayMove
  <2>4. SumOver(w, Z) \in Int
    BY <2>3, SumType
  <2>5. SumOver(w, Z \cup {x}) = w[x] + SumOver(w, Z)
    BY <1>2, <2>3, SumAdd
  <2>6. (r[x] = e => At(r, X, e) = Z \cup {x}) /\ (r[x] # e => At(r, X, e) = Z)
    BY <2>1 DEF At
  <2> QED
    BY <2>1, <2>4, <2>5, <2>6 DEF MayMove
<1>6. PICK f : f = Moved(t, w, r, X, C)
  OBVIOUS
<1>7. PICK g : g = Moved(t, w, r, Y, C)
  OBVIOUS
<1>8. ASSUME NEW e \in C
      PROVE  /\ g[e] \in Int /\ (r[x] # e => f[e] = g[e])
             /\ r[x] = e => f[e] = g[e] + d
  <2>1. PICK z \in Int : z = SumOver(w, At(r, Y, e))
    BY <1>5
  <2>2. g[e] = t[e] * z /\ f[e] = t[e] * SumOver(w, At(r, X, e))
    BY <1>6, <1>7, <2>1 DEF Moved
  <2>3. t[e] \in Int
    BY <1>5
  <2>4. t[e] * z \in Int /\ t[e] * (w[x] + z) = t[e] * w[x] + t[e] * z
    BY <1>2, <2>1, <2>3, Distributes
  <2>5. r[x] # e => f[e] = g[e]
    BY <1>5, <2>1, <2>2
  <2>6. r[x] = e => f[e] = t[e] * w[x] + t[e] * z
    BY <1>5, <2>1, <2>2, <2>4
  <2>7. r[x] = e => t[e] * w[x] = d
    BY <1>2, <1>3
  <2> QED
    BY <1>4, <2>2, <2>4, <2>5, <2>6, <2>7
<1>9. SumOver(f, C) = SumOver(g, C) + d
  <2>1. ChangedAt(f, g, C, r[x], d)
    BY <1>2, <1>4, <1>8 DEF ChangedAt
  <2> QED
    BY <2>1, SumChangedAt
<1>10. SumOver(Costs(t, w, X), X) = SumOver(Costs(t, w, Y), Y) + d
  <2>1. PICK a : a = Costs(t, w, X)
    OBVIOUS
  <2>2. PICK b : b = Costs(t, w, Y)
    OBVIOUS
  <2>3. \A y \in X : t[y] \in Int /\ w[y] \in Int
    BY DEF MayMove
  <2>4. \A y \in X : a[y] \in Int
    BY <2>1, <2>3, Distributes DEF Costs
  <2>5. a[x] = d /\ \A y \in Y : a[y] = b[y]
    BY <1>3, <2>1, <2>2 DEF Costs
  <2>6. SumOver(a, X) = a[x] + SumOver(a, Y)
    BY <1>2, <2>4, SumAny
  <2>7. SumOver(a, Y) = SumOver(b, Y)
    BY <1>2, <2>5, SumSame
  <2>8. SumOver(a, Y) \in Int
    BY <1>2, <2>4, SumType
  <2> QED
    BY <1>4, <2>1, <2>2, <2>5, <2>6, <2>7, <2>8
<1> QED
  BY <1>1, <1>3, <1>6, <1>7, <1>9, <1>10

(* Moved, they cost the same.                                               *)
LEMMA MovedCosts ==
  ASSUME NEW t, NEW w, NEW r, NEW X, NEW C, MayMove(t, w, r, X, C)
  PROVE  SumOver(Moved(t, w, r, X, C), C) = SumOver(Costs(t, w, X), X)
<1> DEFINE Same(Z) == MayMove(t, w, r, Z, C) => SumOver(Moved(t, w, r, Z, C), C) = SumOver(Costs(t, w, Z), Z)
<1> SUFFICES ASSUME ~Same(X) PROVE FALSE
  OBVIOUS
<1>1. PICK T : T = {Z \in SUBSET X : ~Same(Z)}
  OBVIOUS
<1>2. T \in SUBSET SUBSET X /\ T # {} /\ IsFiniteSet(X)
  BY <1>1 DEF MayMove
<1>3. PICK Z \in T : \A Y \in T : Y \subseteq Z => Y = Z
  BY <1>2, MinimalSet
<1>4. Z \in SUBSET X /\ ~Same(Z) /\ MayMove(t, w, r, Z, C)
  BY <1>1
<1>5. Z # {}
  <2> SUFFICES ASSUME Z = {} PROVE FALSE
    OBVIOUS
  <2>1. SumOver(Costs(t, w, Z), Z) = 0
    BY SumEmpty
  <2>2. PICK g : g = Moved(t, w, r, Z, C)
    OBVIOUS
  <2>3. ASSUME NEW e \in C PROVE g[e] = 0
    <3>1. At(r, Z, e) = {}
      BY DEF At
    <3>2. SumOver(w, At(r, Z, e)) = 0
      BY <3>1, SumEmpty
    <3>3. t[e] \in Int
      BY DEF MayMove
    <3> QED
      BY <2>2, <3>2, <3>3 DEF Moved
  <2>4. IsFiniteSet(C) /\ (\A e \in C : g[e] \in Nat)
    BY <2>3 DEF MayMove
  <2>5. SumOver(g, C) = 0
    BY <2>3, <2>4, SumOfZeros
  <2> QED
    BY <1>4, <2>1, <2>2, <2>5
<1>6. PICK x : x \in Z
  BY <1>5
<1>7. PICK Y : Y = Z \ {x}
  OBVIOUS
<1>8. Y \subseteq Z /\ Y # Z /\ Y \in SUBSET X
  BY <1>4, <1>6, <1>7
<1>9. Same(Y)
  BY <1>1, <1>3, <1>8
<1> HIDE DEF Same
<1>10. /\ MayMove(t, w, r, Y, C)
       /\ SumOver(Moved(t, w, r, Z, C), C) = SumOver(Moved(t, w, r, Y, C), C) + t[x] * w[x]
       /\ SumOver(Costs(t, w, Z), Z) = SumOver(Costs(t, w, Y), Y) + t[x] * w[x]
  BY <1>4, <1>6, <1>7, OneMoves
<1> QED
  BY <1>4, <1>9, <1>10 DEF Same

(* The nets of a level, S and X of which are removed.                        *)
Removing(tA, wA, D, S, X, r, tB, wB, C) ==
  /\ IsFiniteSet(D) /\ S \subseteq D /\ X \subseteq D /\ S \cap X = {} /\ C = D \ (S \cup X)
  /\ \A e \in D : tA[e] \in Int /\ wA[e] \in Int
  /\ \A e \in S : tA[e] = 0
  /\ \A x \in X : r[x] \in C /\ tA[x] = tA[r[x]]
  /\ \A e \in C : tB[e] = tA[e] /\ wB[e] = wA[e] + SumOver(wA, At(r, X, e))

(* What is left costs what all cost, when S costs nothing.                  *)
LEMMA RemovingKeepsCosts ==
  ASSUME NEW tA, NEW wA, NEW D, NEW S, NEW X, NEW r, NEW tB, NEW wB, NEW C,
         Removing(tA, wA, D, S, X, r, tB, wB, C)
  PROVE  SumOver(Costs(tB, wB, C), C) = SumOver(Costs(tA, wA, D), D)
<1>1. IsFiniteSet(D) /\ IsFiniteSet(S) /\ IsFiniteSet(X) /\ IsFiniteSet(C) /\ IsFiniteSet(S \cup X)
  BY FS_Subset DEF Removing
<1>2. PICK a : a = Costs(tA, wA, D)
  OBVIOUS
<1>3. PICK b : b = Costs(tB, wB, C)
  OBVIOUS
<1>4. PICK m : m = Moved(tA, wA, r, X, C)
  OBVIOUS
<1>5. PICK x : x = Costs(tA, wA, X)
  OBVIOUS
<1>6. \A e \in D : a[e] = tA[e] * wA[e] /\ a[e] \in Int
  BY <1>2, Distributes DEF Removing, Costs
<1>7. C \subseteq D /\ X \subseteq D /\ S \subseteq D
  BY DEF Removing
<1>8. MayMove(tA, wA, r, X, C)
  BY <1>1, <1>7 DEF Removing, MayMove
<1>9. SumOver(m, C) = SumOver(x, X)
  BY <1>4, <1>5, <1>8, MovedCosts
<1>10. ASSUME NEW e \in C PROVE b[e] = a[e] + m[e] /\ m[e] \in Int
  <2>1. PICK z : z = SumOver(wA, At(r, X, e))
    OBVIOUS
  <2>2. At(r, X, e) \subseteq X
    BY DEF At
  <2>3. IsFiniteSet(At(r, X, e)) /\ \A y \in At(r, X, e) : wA[y] \in Int
    BY <1>1, <1>7, <2>2, FS_Subset DEF Removing
  <2>4. z \in Int
    BY <2>1, <2>3, SumType
  <2>5. tB[e] = tA[e] /\ wB[e] = wA[e] + z /\ tA[e] \in Int /\ wA[e] \in Int
    BY <1>7, <2>1 DEF Removing
  <2>6. tA[e] * (wA[e] + z) = tA[e] * wA[e] + tA[e] * z /\ tA[e] * z \in Int
    BY <2>4, <2>5, Distributes
  <2>7. m[e] = tA[e] * z /\ b[e] = tB[e] * wB[e]
    BY <1>3, <1>4, <2>1 DEF Moved, Costs
  <2> QED
    BY <1>6, <1>7, <2>5, <2>6, <2>7
<1>11. SumOver(b, C) = SumOver(a, C) + SumOver(m, C)
  <2>1. \A e \in C : a[e] \in Int /\ m[e] \in Int
    BY <1>6, <1>7, <1>10
  <2>2. SumOver(Plus(a, m, C), C) = SumOver(a, C) + SumOver(m, C)
    BY <1>1, <2>1, SumOfPlus
  <2>3. PICK y : y = Plus(a, m, C)
    OBVIOUS
  <2>4. \A e \in C : y[e] = b[e]
    BY <1>10, <2>3 DEF Plus
  <2>5. SumOver(y, C) = SumOver(b, C)
    BY <1>1, <2>4, SumSame
  <2> QED
    BY <2>2, <2>3, <2>5
<1>12. SumOver(a, X) = SumOver(x, X)
  <2>1. \A e \in X : a[e] = x[e]
    BY <1>5, <1>6, <1>7 DEF Costs
  <2> QED
    BY <1>1, <2>1, SumSame
<1>13. SumOver(a, S) = 0
  <2>1. \A e \in S : a[e] = 0
    BY <1>6, <1>7 DEF Removing
  <2>2. \A e \in S : a[e] \in Nat
    BY <2>1
  <2> QED
    BY <1>1, <2>1, <2>2, SumOfZeros
<1>14. SumOver(a, D) = SumOver(a, C) + (SumOver(a, S) + SumOver(a, X))
  <2>1. (\A e \in S \cup X : a[e] \in Int) /\ S \cap X = {} /\ (S \cup X) \cap C = {} /\ C \cup (S \cup X) = D
    BY <1>6, <1>7 DEF Removing
  <2>2. SumOver(a, S \cup X) = SumOver(a, S) + SumOver(a, X)
    BY <1>1, <2>1, SumOfUnion
  <2>3. PICK Y : Y = S \cup X
    OBVIOUS
  <2>4. SumOver(a, C \cup Y) = SumOver(a, C) + SumOver(a, Y)
    <3>1. IsFiniteSet(Y) /\ C \cap Y = {} /\ \A e \in C \cup Y : a[e] \in Int
      BY <1>1, <1>6, <1>7, <2>1, <2>3
    <3> QED
      BY <1>1, <3>1, SumOfUnion
  <2> QED
    BY <2>1, <2>2, <2>3, <2>4
<1>15. SumOver(a, C) \in Int /\ SumOver(a, X) \in Int
  <2>1. (\A e \in C : a[e] \in Int) /\ (\A e \in X : a[e] \in Int)
    BY <1>6, <1>7
  <2> QED
    BY <1>1, <2>1, SumType
<1> QED
  BY <1>2, <1>3, <1>9, <1>11, <1>12, <1>13, <1>14, <1>15

-----------------------------------------------------------------------------
(* One contraction, between two levels.                                     *)
CutFactors(L, f) == [e \in L.live |-> CutFactor(ConnectivityOf(L, f, e))]
Km1Factors(L, f) == [e \in L.live |-> Km1Factor(ConnectivityOf(L, f, e))]

(* The image of finitely many pins.                                         *)
LEMMA ConnectivityIs ==
  ASSUME NEW L, NEW fixed_part, LevelOK(L, fixed_part), NEW f, NEW e \in L.live
  PROVE  ConnectivityOf(L, f, e) \in Nat /\ L.edge_weight[e] \in Int
<1>1. IsFiniteSet(L.pins[e])
  BY LevelsAreFinite
<1>2. PICK P : P = L.pins[e]
  OBVIOUS
<1>3. IsFiniteSet({f[u] : u \in P})
  BY <1>1, <1>2, ImageIsFinite
<1>4. Cardinality({f[u] : u \in P}) \in Nat
  BY <1>3, FS_CardinalityType
<1> QED
  BY <1>2, <1>4 DEF ConnectivityOf, LevelOK

CutNets(L, f) == {e \in L.live : ConnectivityOf(L, f, e) > 1}
(* The cut is the weight of the cut nets.                                   *)
LEMMA CutOfIsSum ==
  ASSUME NEW L, NEW f
  PROVE  CutOf(L, f) = SumOver(L.edge_weight, CutNets(L, f))
BY Zenon DEF CutOf, SumOver, CutNets

(* What a level costs, as sums over all of its nets.                        *)
LEMMA CostsAre ==
  ASSUME NEW L, NEW fixed_part, LevelOK(L, fixed_part), NEW f, NEW D, D = L.live, NEW w, w = L.edge_weight
  PROVE  /\ CutOf(L, f) = SumOver(Costs(CutFactors(L, f), w, D), D)
         /\ km1Of(L, f) = SumOver(Costs(Km1Factors(L, f), w, D), D)
<1>1. IsFiniteSet(D)
  BY FS_Subset, KHypergraphAssumption DEF LevelOK
<1>2. ASSUME NEW e \in D PROVE ConnectivityOf(L, f, e) \in Nat /\ w[e] \in Int
  BY ConnectivityIs
<1>3. PICK C : C = {e \in D : ConnectivityOf(L, f, e) > 1}
  OBVIOUS
<1>4. CutOf(L, f) = SumOver(w, C)
  BY <1>3, CutOfIsSum DEF CutNets
<1>5. C \in SUBSET D /\ \A e \in D : w[e] \in Int
  BY <1>2, <1>3
<1>6. SumOver(w, C) = SumOver(Chosen(w, D, C), D)
  BY <1>1, <1>5, SumChosen
<1>7. SumOver(Chosen(w, D, C), D) = SumOver(Costs(CutFactors(L, f), w, D), D)
  <2>1. PICK a : a = Chosen(w, D, C)
    OBVIOUS
  <2>2. PICK b : b = Costs(CutFactors(L, f), w, D)
    OBVIOUS
  <2>3. ASSUME NEW e \in D PROVE a[e] = b[e]
    <3>1. w[e] \in Int
      BY <1>5
    <3>2. b[e] = CutFactor(ConnectivityOf(L, f, e)) * w[e]
      BY <2>2 DEF Costs, CutFactors
    <3>3. 0 * w[e] = 0 /\ 1 * w[e] = w[e]
      BY <3>1
    <3> QED
      BY <1>3, <2>1, <3>2, <3>3 DEF Chosen, CutFactor
  <2>4. SumOver(a, D) = SumOver(b, D)
    BY <1>1, <2>3, SumSame
  <2> QED
    BY <2>1, <2>2, <2>4
<1>8. km1Of(L, f) = SumOver(Km1Costs(Connectivities(L, f), w, D), D)
  BY Km1OfIsSum
<1>9. SumOver(Km1Costs(Connectivities(L, f), w, D), D) = SumOver(Costs(Km1Factors(L, f), w, D), D)
  <2>1. PICK a : a = Km1Costs(Connectivities(L, f), w, D)
    OBVIOUS
  <2>2. PICK b : b = Costs(Km1Factors(L, f), w, D)
    OBVIOUS
  <2>3. ASSUME NEW e \in D PROVE a[e] = b[e]
    <3>1. PICK c \in Nat : c = ConnectivityOf(L, f, e)
      BY <1>2
    <3>2. b[e] = Km1Factor(c) * w[e] /\ a[e] = Max({c - 1, 0}) * w[e]
      BY <2>1, <2>2, <3>1 DEF Costs, Km1Factors, Km1Costs, Connectivities
    <3> QED
      BY <3>1, <3>2, MaxWithZero
  <2>4. SumOver(a, D) = SumOver(b, D)
    BY <1>1, <2>3, SumSame
  <2> QED
    BY <2>1, <2>2, <2>4
<1> QED
  BY <1>4, <1>6, <1>7, <1>8, <1>9

(* The nets removed by the contraction m: with one pin, or the pins of      *)
(* another one.                                                             *)
MergesOf(A, m, S, P) ==
  /\ \A e \in S : Merged(A.pins[e], m.u, m.v) = {m.u}
  /\ \A p \in P : Merged(A.pins[p.removed], m.u, m.v) = Merged(A.pins[p.representative], m.u, m.v)
  /\ \A p, q \in P : p.removed = q.removed => p = q

(* The block of v, once it is back.                                         *)
With(f, m) == [f EXCEPT ![m.v] = f[m.u]]

(* The blocks that a net connects.                                          *)
BackWith(f, g, u, v) ==
  /\ f \in [Nodes -> Int] /\ u \in Nodes /\ v \in Nodes /\ u # v
  /\ g = [f EXCEPT ![v] = f[u]]
Image(f, P) == {f[x] : x \in P}

(* Merged pins are in the same blocks.                                      *)
LEMMA BlocksOfMerged ==
  ASSUME NEW f, NEW g, NEW u, NEW v, BackWith(f, g, u, v), NEW P \in SUBSET Nodes
  PROVE  Image(g, P) = Image(f, Merged(P, u, v))
<1> USE DEF Image
<1>1. g[v] = f[u] /\ g[u] = f[u] /\ \A x \in Nodes \ {v} : g[x] = f[x]
  BY DEF BackWith
<1>2. CASE v \in P
  <2>1. Merged(P, u, v) = (P \ {v}) \cup {u}
    BY <1>2 DEF Merged
  <2> QED
    BY <1>1, <1>2, <2>1
<1>3. CASE v \notin P
  <2>1. Merged(P, u, v) = P
    BY <1>3 DEF Merged
  <2> QED
    BY <1>1, <1>3, <2>1
<1> QED
  BY <1>2, <1>3

(* Two levels, and a contraction that removes these nets.                   *)
Step(A, B, m, S, P) ==
  /\ \E fixed_part : LevelOK(A, fixed_part) /\ LevelOK(B, fixed_part) /\ Coarser(A, B, m, S, P, fixed_part)
  /\ MergesOf(A, m, S, P)

(* What a contraction does to the spread of each net.                       *)
LEMMA StepIs ==
  ASSUME NEW A, NEW B, NEW m, NEW S, NEW P, Step(A, B, m, S, P), NEW f \in [Nodes -> Int], NEW g, g = With(f, m)
  PROVE  /\ \A e \in B.live : e \in A.live /\ ConnectivityOf(B, f, e) = ConnectivityOf(A, g, e)
         /\ \A e \in S : e \in A.live /\ ConnectivityOf(A, g, e) = 1
         /\ \A p \in P : /\ p.removed \in A.live /\ p.representative \in B.live
                         /\ ConnectivityOf(A, g, p.removed) = ConnectivityOf(A, g, p.representative)
         /\ m.u \in B.on /\ m.v \in Nodes /\ m.u \in Nodes /\ m.u # m.v
<1>1. PICK fixed_part : LevelOK(A, fixed_part) /\ LevelOK(B, fixed_part) /\ Coarser(A, B, m, S, P, fixed_part)
  BY DEF Step
<1>2. m.u \in B.on /\ m.v \in Nodes /\ m.u \in Nodes /\ m.u # m.v
  BY <1>1 DEF Coarser, LevelOK
<1>3. PICK u \in Nodes, v \in Nodes : u = m.u /\ v = m.v /\ u # v
  BY <1>2
<1>4. BackWith(f, g, u, v)
  BY <1>3 DEF With, BackWith
<1>5. ASSUME NEW e \in A.live
      PROVE  ConnectivityOf(A, g, e) = Cardinality({f[x] : x \in Merged(A.pins[e], u, v)})
  <2>1. PICK Q \in SUBSET Nodes : Q = A.pins[e]
    BY <1>1 DEF LevelOK
  <2>2. Image(g, Q) = Image(f, Merged(Q, u, v))
    BY <1>4, BlocksOfMerged
  <2> QED
    BY <2>1, <2>2 DEF ConnectivityOf, Image
<1>6. ASSUME NEW e \in B.live PROVE e \in A.live /\ ConnectivityOf(B, f, e) = ConnectivityOf(A, g, e)
  <2>1. e \in A.live /\ B.pins[e] = Merged(A.pins[e], u, v)
    BY <1>1, <1>3 DEF Coarser
  <2> QED
    BY <1>5, <2>1 DEF ConnectivityOf
<1>7. ASSUME NEW e \in S PROVE e \in A.live /\ ConnectivityOf(A, g, e) = 1
  <2>1. e \in A.live /\ Merged(A.pins[e], u, v) = {u}
    BY <1>1, <1>3 DEF Coarser, Step, MergesOf
  <2>2. {f[x] : x \in {u}} = {f[u]}
    OBVIOUS
  <2>3. Cardinality({f[u]}) = 1
    BY FS_Singleton
  <2> QED
    BY <1>5, <2>1, <2>2, <2>3
<1>8. ASSUME NEW p \in P
      PROVE  /\ p.removed \in A.live /\ p.representative \in B.live
             /\ ConnectivityOf(A, g, p.removed) = ConnectivityOf(A, g, p.representative)
  <2>1. PICK x, y : x = p.removed /\ y = p.representative
    OBVIOUS
  <2>2. x \in A.live /\ y \in B.live /\ y \in A.live
    BY <1>1, <2>1 DEF Coarser, RemovedNets
  <2>3. Merged(A.pins[x], u, v) = Merged(A.pins[y], u, v)
    BY <1>3, <2>1 DEF Step, MergesOf
  <2> QED
    BY <1>5, <2>1, <2>2, <2>3
<1> QED
  BY <1>2, <1>6, <1>7, <1>8

(* The representative of each removed net.                                  *)
Represents(r, X, P, C) ==
  /\ X = RemovedNets(P)
  /\ \A x \in X : r[x] \in C /\ \E p \in P : p.removed = x /\ p.representative = r[x]
  /\ \A e \in C : MergedNets(P, e) = At(r, X, e)

(* There are such representatives.                                          *)
LEMMA HasRepresentatives ==
  ASSUME NEW A, NEW B, NEW m, NEW S, NEW P, Step(A, B, m, S, P)
  PROVE  \E r, X : Represents(r, X, P, B.live)
<1>1. PICK X : X = RemovedNets(P)
  OBVIOUS
<1>2. /\ \A p \in P : p.representative \in B.live
      /\ \A p, q \in P : p.removed = q.removed => p = q
  BY DEF Step, MergesOf, Coarser
<1>3. PICK c : c = [x \in X |-> CHOOSE p \in P : p.removed = x]
  OBVIOUS
<1>4. \A x \in X : \E p \in P : p.removed = x
  BY <1>1 DEF RemovedNets
<1>5. \A x \in X : c[x] \in P /\ c[x].removed = x
  BY <1>3, <1>4
<1>6. PICK r : r = [x \in X |-> c[x].representative]
  OBVIOUS
<1>7. ASSUME NEW x \in X PROVE r[x] \in B.live /\ \E p \in P : p.removed = x /\ p.representative = r[x]
  BY <1>2, <1>5, <1>6
<1>8. ASSUME NEW p \in P PROVE p.removed \in X /\ r[p.removed] = p.representative
  <2>1. PICK x : x = p.removed
    OBVIOUS
  <2>2. x \in X
    BY <1>1, <2>1 DEF RemovedNets
  <2>3. c[x] = p
    BY <1>2, <1>5, <2>1, <2>2
  <2> QED
    BY <1>6, <2>1, <2>2, <2>3
<1>9. ASSUME NEW e PROVE MergedNets(P, e) = At(r, X, e)
  <2>1. ASSUME NEW x \in MergedNets(P, e) PROVE x \in At(r, X, e)
    <3>1. PICK p \in P : p.representative = e /\ p.removed = x
      BY <2>1 DEF MergedNets
    <3> QED
      BY <1>8, <3>1 DEF At
  <2>2. ASSUME NEW x \in At(r, X, e) PROVE x \in MergedNets(P, e)
    <3>1. x \in X /\ r[x] = e
      BY <2>2 DEF At
    <3>2. PICK p \in P : p.removed = x /\ p.representative = r[x]
      BY <1>7, <3>1
    <3> QED
      BY <3>1, <3>2 DEF MergedNets
  <2> QED
    BY <2>1, <2>2
<1> QED
  BY <1>1, <1>7, <1>9 DEF Represents

(* The two hypergraphs cost the same, by either measure.                    *)
LEMMA StepKeepsCosts ==
  ASSUME NEW A, NEW B, NEW m, NEW S, NEW P, Step(A, B, m, S, P), NEW f \in [Nodes -> Int], NEW g, g = With(f, m)
  PROVE  CutOf(B, f) = CutOf(A, g) /\ km1Of(B, f) = km1Of(A, g)
<1>1. PICK fixed_part : LevelOK(A, fixed_part) /\ LevelOK(B, fixed_part) /\ Coarser(A, B, m, S, P, fixed_part)
  BY DEF Step
<1>2. PICK D : D = A.live
  OBVIOUS
<1>3. PICK C : C = B.live
  OBVIOUS
<1>4. PICK wA : wA = A.edge_weight
  OBVIOUS
<1>5. PICK wB : wB = B.edge_weight
  OBVIOUS
<1>6. PICK r, X : Represents(r, X, P, C)
  BY <1>3, HasRepresentatives
<1>7. /\ \A e \in C : e \in D /\ ConnectivityOf(B, f, e) = ConnectivityOf(A, g, e)
      /\ \A e \in S : e \in D /\ ConnectivityOf(A, g, e) = 1
      /\ \A p \in P : /\ p.removed \in D /\ p.representative \in C
                      /\ ConnectivityOf(A, g, p.removed) = ConnectivityOf(A, g, p.representative)
  BY <1>2, <1>3, StepIs
<1>8. ASSUME NEW x \in X PROVE r[x] \in C /\ x \in D /\ ConnectivityOf(A, g, x) = ConnectivityOf(A, g, r[x])
  <2>1. PICK p \in P : p.removed = x /\ p.representative = r[x]
    BY <1>6 DEF Represents
  <2> QED
    BY <1>7, <2>1
<1>9. ASSUME NEW e \in D PROVE ConnectivityOf(A, g, e) \in Nat /\ wA[e] \in Int
  BY <1>1, <1>2, <1>4, ConnectivityIs
<1>10. /\ IsFiniteSet(D) /\ S \subseteq D /\ X \subseteq D /\ S \cap X = {} /\ C = D \ (S \cup X)
  <2>1. IsFiniteSet(D)
    BY <1>1, <1>2, FS_Subset, KHypergraphAssumption DEF LevelOK
  <2>2. X = RemovedNets(P)
    BY <1>6 DEF Represents
  <2> QED
    BY <1>1, <1>2, <1>3, <1>7, <1>8, <2>1, <2>2 DEF Coarser
<1>11. ASSUME NEW e \in C PROVE wB[e] = wA[e] + SumOver(wA, At(r, X, e))
  <2>1. MergedNets(P, e) = At(r, X, e)
    BY <1>6 DEF Represents
  <2>2. wB[e] = wA[e] + MergedWeight(wA, P, e)
    BY <1>1, <1>3, <1>4, <1>5 DEF Coarser
  <2> QED
    BY <2>1, <2>2 DEF MergedWeight
<1>12. CutOf(B, f) = CutOf(A, g)
  <2>1. PICK tA : tA = CutFactors(A, g)
    OBVIOUS
  <2>2. PICK tB : tB = CutFactors(B, f)
    OBVIOUS
  <2>3. /\ \A e \in D : tA[e] = CutFactor(ConnectivityOf(A, g, e))
        /\ \A e \in C : tB[e] = CutFactor(ConnectivityOf(B, f, e))
    BY <1>2, <1>3, <2>1, <2>2 DEF CutFactors
  <2>4. \A e \in D : tA[e] \in Int
    BY <2>3 DEF CutFactor
  <2>5. \A e \in S : tA[e] = 0
    BY <1>7, <2>3 DEF CutFactor
  <2>6. \A x \in X : tA[x] = tA[r[x]]
    BY <1>7, <1>8, <2>3
  <2>7. \A e \in C : tB[e] = tA[e]
    BY <1>7, <2>3
  <2>8. Removing(tA, wA, D, S, X, r, tB, wB, C)
    BY <1>8, <1>9, <1>10, <1>11, <2>4, <2>5, <2>6, <2>7 DEF Removing
  <2>9. SumOver(Costs(tB, wB, C), C) = SumOver(Costs(tA, wA, D), D)
    BY <2>8, RemovingKeepsCosts
  <2>10. CutOf(A, g) = SumOver(Costs(CutFactors(A, g), wA, D), D)
    BY <1>1, <1>2, <1>4, CostsAre
  <2>11. CutOf(B, f) = SumOver(Costs(CutFactors(B, f), wB, C), C)
    BY <1>1, <1>3, <1>5, CostsAre
  <2> QED
    BY <2>1, <2>2, <2>9, <2>10, <2>11
<1>13. km1Of(B, f) = km1Of(A, g)
  <2>1. PICK tA : tA = Km1Factors(A, g)
    OBVIOUS
  <2>2. PICK tB : tB = Km1Factors(B, f)
    OBVIOUS
  <2>3. /\ \A e \in D : tA[e] = Km1Factor(ConnectivityOf(A, g, e))
        /\ \A e \in C : tB[e] = Km1Factor(ConnectivityOf(B, f, e))
    BY <1>2, <1>3, <2>1, <2>2 DEF Km1Factors
  <2>4. \A e \in D : tA[e] \in Int
    BY <1>9, <2>3 DEF Km1Factor
  <2>5. \A e \in S : tA[e] = 0
    BY <1>7, <2>3 DEF Km1Factor
  <2>6. \A x \in X : tA[x] = tA[r[x]]
    BY <1>7, <1>8, <2>3
  <2>7. \A e \in C : tB[e] = tA[e]
    BY <1>7, <2>3
  <2>8. Removing(tA, wA, D, S, X, r, tB, wB, C)
    BY <1>8, <1>9, <1>10, <1>11, <2>4, <2>5, <2>6, <2>7 DEF Removing
  <2>9. SumOver(Costs(tB, wB, C), C) = SumOver(Costs(tA, wA, D), D)
    BY <2>8, RemovingKeepsCosts
  <2>10. km1Of(A, g) = SumOver(Costs(Km1Factors(A, g), wA, D), D)
    BY <1>1, <1>2, <1>4, CostsAre
  <2>11. km1Of(B, f) = SumOver(Costs(Km1Factors(B, f), wB, C), C)
    BY <1>1, <1>3, <1>5, CostsAre
  <2> QED
    BY <2>1, <2>2, <2>9, <2>10, <2>11
<1> QED
  BY <1>12, <1>13

NodesOf(L, f, p) == {w \in L.on : f[w] = p}
(* A block weighs what its nodes weigh.                                     *)
LEMMA WeightOfIsSum ==
  ASSUME NEW L, NEW f, NEW p
  PROVE  WeightOf(L, f, p) = SumOver(L.weight, NodesOf(L, f, p))
BY Zenon DEF WeightOf, SumOver, NodesOf

(* And every block weighs the same.                                         *)
LEMMA StepKeepsWeights ==
  ASSUME NEW A, NEW B, NEW m, NEW S, NEW P, Step(A, B, m, S, P), NEW f \in [Nodes -> Int], NEW g, g = With(f, m),
         NEW p
  PROVE  WeightOf(B, f, p) = WeightOf(A, g, p)
<1>1. PICK fixed_part : LevelOK(A, fixed_part) /\ LevelOK(B, fixed_part) /\ Coarser(A, B, m, S, P, fixed_part)
  BY DEF Step
<1>2. PICK u \in Nodes, v \in Nodes : u = m.u /\ v = m.v /\ u # v
  BY <1>1 DEF Coarser, LevelOK
<1>3. PICK X : X = {w \in B.on : f[w] = p}
  OBVIOUS
<1>4. PICK Y : Y = {w \in A.on : g[w] = p}
  OBVIOUS
<1>5. PICK a : a = A.weight
  OBVIOUS
<1>6. PICK b : b = B.weight
  OBVIOUS
<1>7. /\ B.on \subseteq Nodes /\ A.on = B.on \cup {v} /\ v \notin B.on /\ u \in B.on
      /\ \A w \in A.on : a[w] \in Int
      /\ b[u] = a[u] + a[v] /\ \A w \in B.on \ {u} : b[w] = a[w]
  BY <1>1, <1>2, <1>5, <1>6 DEF Coarser, LevelOK
<1>8. g[v] = f[u] /\ \A w \in B.on : g[w] = f[w]
  BY <1>2, <1>7 DEF With
<1>9. IsFiniteSet(X) /\ v \notin X /\ \A w \in X : a[w] \in Int
  <2>1. X \subseteq Nodes
    BY <1>3, <1>7
  <2> QED
    BY <1>3, <1>7, <2>1, FS_Subset, KHypergraphAssumption
<1>10. SumOver(b, X) = SumOver(a, Y)
  <2>1. CASE f[u] = p
    <3>1. Y = X \cup {v} /\ u \in X
      BY <1>3, <1>4, <1>7, <1>8, <2>1
    <3>2. SumOver(a, X \cup {v}) = a[v] + SumOver(a, X)
      BY <1>7, <1>9, SumAdd
    <3>3. ChangedAt(b, a, X, u, a[v])
      BY <1>3, <1>7, <1>9, <3>1 DEF ChangedAt
    <3>4. SumOver(b, X) = SumOver(a, X) + a[v]
      BY <3>3, SumChangedAt
    <3>5. SumOver(a, X) \in Int /\ a[v] \in Int
      BY <1>7, <1>9, SumType
    <3> QED
      BY <3>1, <3>2, <3>4, <3>5
  <2>2. CASE f[u] # p
    <3>1. Y = X /\ u \notin X
      BY <1>3, <1>4, <1>7, <1>8, <2>2
    <3>2. \A w \in X : b[w] = a[w]
      BY <1>3, <1>7, <3>1
    <3> QED
      BY <1>9, <3>1, <3>2, SumSame
  <2> QED
    BY <2>1, <2>2
<1>11. WeightOf(B, f, p) = SumOver(b, X)
  BY <1>3, <1>6, WeightOfIsSum DEF NodesOf
<1>12. WeightOf(A, g, p) = SumOver(a, Y)
  BY <1>4, <1>5, WeightOfIsSum DEF NodesOf
<1> QED
  BY <1>10, <1>11, <1>12

-----------------------------------------------------------------------------
(* What the mementos name was merged.                                       *)
MergesOK(H, RS, RP, LV) ==
  \A i \in 1 .. Len(H) : MergesOf(LV[i], H[i], Single(RS, H[i]), Parallel(RP, H[i]))

(* The segments of the first n mementos.                                    *)
SegmentsSame(H, n, RS, RP, RS1, RP1) ==
  \A i \in 1 .. n : Single(RS1, H[i]) = Single(RS, H[i]) /\ Parallel(RP1, H[i]) = Parallel(RP, H[i])

(* A contraction leaves the segments of earlier ones alone, and adds its    *)
(* own.                                                                     *)
Stacked(t, s, x) == t = s \o x
(* The segments below the new one are the same.                             *)
LEMMA PushKeepsSegments ==
  ASSUME NEW H, NEW RS, NEW RP, IsList(H), IsList(RS), IsList(RP), MementosOK(H, RS, RP),
         NEW u, NEW v, NEW x, NEW y, IsList(x), IsList(y), NEW m, Noted(m, u, v, RS, RP, x, y),
         NEW RS1, Stacked(RS1, RS, x), NEW RP1, Stacked(RP1, RP, y)
  PROVE  /\ SegmentsSame(H, Len(H), RS, RP, RS1, RP1)
         /\ Single(RS1, m) = Elements(x) /\ Parallel(RP1, m) = Elements(y)
<1>1. PICK k \in Nat, l \in Nat, kx \in Nat, ly \in Nat : k = Len(RS) /\ l = Len(RP) /\ kx = Len(x) /\ ly = Len(y)
  BY ListLength
<1>2. IsJoined(RS1, RS, x, k, kx)
  <2>1. RS1 = RS \o x
    BY DEF Stacked
  <2> QED
    BY <1>1, <2>1, SegmentAppended
<1>3. IsJoined(RP1, RP, y, l, ly)
  <2>1. RP1 = RP \o y
    BY DEF Stacked
  <2> QED
    BY <1>1, <2>1, SegmentAppended
<1>4. Single(RS1, m) = Elements(x) /\ Parallel(RP1, m) = Elements(y)
  BY <1>1, <1>2, <1>3 DEF IsJoined, Noted, Single, Parallel
<1>5. ASSUME NEW i \in 1 .. Len(H)
      PROVE  Single(RS1, H[i]) = Single(RS, H[i]) /\ Parallel(RP1, H[i]) = Parallel(RP, H[i])
  <2>0. /\ H[i].one_pin_hes_begin \in Nat /\ H[i].one_pin_hes_size \in Nat
        /\ H[i].one_pin_hes_begin + H[i].one_pin_hes_size <= Len(RS)
        /\ H[i].parallel_hes_begin \in Nat /\ H[i].parallel_hes_size \in Nat
        /\ H[i].parallel_hes_begin + H[i].parallel_hes_size <= Len(RP)
    BY MementosSegments
  <2>1. PICK b \in Nat, n \in Nat, p \in Nat, q \in Nat :
          /\ b = H[i].one_pin_hes_begin /\ n = H[i].one_pin_hes_size /\ b + n <= k
          /\ p = H[i].parallel_hes_begin /\ q = H[i].parallel_hes_size /\ p + q <= l
    BY <1>1, <2>0
  <2>2. Extends(RS1, RS, k) /\ Extends(RP1, RP, l)
    BY <1>2, <1>3 DEF IsJoined
  <2>3. Segment(RS1, b, n) = Segment(RS, b, n)
    BY <2>1, <2>2, SegmentsStay
  <2>4. Segment(RP1, p, q) = Segment(RP, p, q)
    BY <2>1, <2>2, SegmentsStay
  <2> QED
    BY <2>1, <2>3, <2>4 DEF Single, Parallel
<1> QED
  BY <1>4, <1>5 DEF SegmentsSame

(* So they are when the last one is taken away.                             *)
LEMMA PopKeepsSegments ==
  ASSUME NEW H, NEW RS, NEW RP, IsList(H), IsList(RS), IsList(RP), MementosOK(H, RS, RP),
         NEW n \in Nat, n + 1 = Len(H), NEW kb \in Nat, kb = H[n + 1].one_pin_hes_begin,
         NEW lb \in Nat, lb = H[n + 1].parallel_hes_begin,
         NEW RS1, Extends(RS1, RS, kb), NEW RP1, Extends(RP1, RP, lb)
  PROVE  SegmentsSame(H, n, RS, RP, RS1, RP1)
<1>6. ASSUME NEW i \in 1 .. n
      PROVE  Single(RS1, H[i]) = Single(RS, H[i]) /\ Parallel(RP1, H[i]) = Parallel(RP, H[i])
  <2>1. i \in 1 .. Len(H) /\ i # Len(H)
    OBVIOUS
  <2>0. /\ H[i].one_pin_hes_begin \in Nat /\ H[i].one_pin_hes_size \in Nat
        /\ H[i].one_pin_hes_begin + H[i].one_pin_hes_size <= H[Len(H)].one_pin_hes_begin
        /\ H[i].parallel_hes_begin \in Nat /\ H[i].parallel_hes_size \in Nat
        /\ H[i].parallel_hes_begin + H[i].parallel_hes_size <= H[Len(H)].parallel_hes_begin
    BY <2>1, MementosSegments
  <2>2. PICK b \in Nat, s \in Nat, p \in Nat, q \in Nat :
          /\ b = H[i].one_pin_hes_begin /\ s = H[i].one_pin_hes_size
          /\ p = H[i].parallel_hes_begin /\ q = H[i].parallel_hes_size
          /\ b + s <= H[Len(H)].one_pin_hes_begin /\ p + q <= H[Len(H)].parallel_hes_begin
    BY <2>0
  <2>3. b + s <= kb /\ p + q <= lb
    BY <2>2
  <2>4. Segment(RS1, b, s) = Segment(RS, b, s)
    BY <2>2, <2>3, SegmentsStay
  <2>5. Segment(RP1, p, q) = Segment(RP, p, q)
    BY <2>2, <2>3, SegmentsStay
  <2> QED
    BY <2>2, <2>4, <2>5 DEF Single, Parallel
<1> QED
  BY <1>6 DEF SegmentsSame

(* A contraction merges what it removes.                                    *)
LEMMA PushMerges ==
  ASSUME NEW h, WellFormed(h), NEW u, NEW v, MayContract(h, u, v),
         NEW c, NEW S, NEW d, NEW R, NEW P, NEW a, NEW f, PushOps(h, u, v, c, S, d, R, P, a, f),
         NEW m, m.u = u, m.v = v, NEW A, A = Structure(h)
  PROVE  MergesOf(A, m, S, P)
<1>1. PushSteps(h, u, v, c, S, d, R, P, a, f)
  BY PushIs
<1>2. After(h, c, u, v) /\ EdgesGone(c, d, S) /\ S \subseteq c.live /\ RemovedNets(P) \subseteq d.live
  BY <1>1 DEF PushSteps
<1>3. c.live = h.live /\ d.live \subseteq h.live /\ WellFormed(c) /\ WellFormed(d)
  BY <1>2 DEF After, EdgesGone
<1>4. ASSUME NEW e \in h.live
      PROVE  Holds(c, e, Merged(A.pins[e], u, v)) /\ Holds(d, e, Merged(A.pins[e], u, v)) /\ A.pins[e] = pins(h, e)
  <2>0. A.pins = [x \in h.live |-> pins(h, x)]
    BY StructureIs
  <2>1. A.pins[e] = pins(h, e)
    BY <2>0
  <2>2. NetContracted(h, c, e, pins(h, e), u, v)
    BY <1>2 DEF After
  <2>3. Holds(c, e, Merged(pins(h, e), u, v))
    BY <2>2 DEF NetContracted
  <2>4. d.slots = c.slots /\ d.size = c.size
    BY <1>2 DEF EdgesGone
  <2>5. Holds(d, e, Merged(pins(h, e), u, v))
    BY <2>3, <2>4, SameNet
  <2> QED
    BY <2>1, <2>3, <2>5
<1>5. ASSUME NEW e \in S PROVE Merged(A.pins[e], u, v) = {u}
  <2>1. e \in c.nets[u] /\ c.size[e] = 1 /\ e \in h.live
    BY <1>2, <1>3 DEF PushOps, SingleNodeHyperedges
  <2>2. PICK Q : Q = Merged(A.pins[e], u, v)
    OBVIOUS
  <2>3. Holds(c, e, Q)
    BY <1>4, <2>1, <2>2
  <2>4. IsFiniteSet(Q) /\ Cardinality(Q) = 1 /\ pins(c, e) = Q
    <3>1. IsFiniteSet(Q)
      BY <2>3, HeldIsFinite
    <3> QED
      BY <2>1, <2>3, <3>1 DEF Holds
  <2>5. u \in Q
    <3>1. u \in c.on
      BY <1>2 DEF After, MayContract
    <3> QED
      BY <1>3, <2>1, <2>4, <3>1 DEF WellFormed, Incident
  <2>6. \E x : Q = {x}
    BY <2>4, FS_Singleton
  <2> QED
    BY <2>2, <2>5, <2>6
<1>6. P = ParallelHyperedges(d, u, R) /\ R \in Representatives(d, u)
  BY DEF PushOps
<1>7. /\ RemovedNets(P) = d.nets[u] \ R /\ R \subseteq d.nets[u]
      /\ \A p \in P : p.representative \in R /\ isParallelHyperedge(d, p.representative, p.removed)
      /\ \A p, q \in P : p.removed = q.removed => p = q
  BY <1>6, ParallelNetsAre
<1>8. ASSUME NEW p \in P
      PROVE  Merged(A.pins[p.removed], u, v) = Merged(A.pins[p.representative], u, v)
  <2>1. PICK x, y : x = p.removed /\ y = p.representative
    OBVIOUS
  <2>2. x \in d.nets[u] /\ y \in d.nets[u] /\ isParallelHyperedge(d, y, x)
    BY <1>7, <2>1 DEF RemovedNets
  <2>3. u \in d.on
    BY <1>2 DEF After, EdgesGone, MayContract
  <2>4. x \in h.live /\ y \in h.live
    BY <1>3, <2>2, <2>3 DEF WellFormed, Incident
  <2>5. PICK X, Y : X = Merged(A.pins[x], u, v) /\ Y = Merged(A.pins[y], u, v)
    OBVIOUS
  <2>6. Holds(d, x, X) /\ Holds(d, y, Y)
    BY <1>4, <2>4, <2>5
  <2>7. IsFiniteSet(Y)
    BY <2>6, HeldIsFinite
  <2>8. X \subseteq Y /\ Cardinality(X) = Cardinality(Y)
    BY <2>2, <2>6 DEF Holds, isParallelHyperedge
  <2>9. X = Y
    BY <2>7, <2>8, FS_Subset
  <2> QED
    BY <2>1, <2>5, <2>9
<1> QED
  BY <1>5, <1>7, <1>8 DEF MergesOf

(* performContraction, with what it appends.                                *)
PushedAll(h, H, RS, RP, LV, u, v, f, H1, RS1, RP1, LV1, m, c, S, d, R, P, a, x, y) ==
  /\ PushOps(h, u, v, c, S, d, R, P, a, f)
  /\ m.u = u /\ m.v = v /\ IsList(x) /\ IsList(y) /\ Noted(m, u, v, RS, RP, x, y)
  /\ S = Elements(x) /\ P = Elements(y)
  /\ H1 = Append(H, m) /\ RS1 = RS \o x /\ RP1 = RP \o y /\ LV1 = Append(LV, Structure(f))

(* It removes finitely many nets.                                           *)
LEMMA PushedNetsAreFinite ==
  ASSUME NEW h, WellFormed(h), NEW u, NEW v, MayContract(h, u, v),
         NEW c, NEW S, NEW d, NEW R, NEW P, NEW a, NEW f, PushOps(h, u, v, c, S, d, R, P, a, f)
  PROVE  IsFiniteSet(S) /\ IsFiniteSet(P)
<1>1. PushSteps(h, u, v, c, S, d, R, P, a, f)
  BY PushIs
<1>2. After(h, c, u, v) /\ EdgesGone(c, d, S) /\ S \subseteq c.live /\ RemovedNets(P) \subseteq d.live
  BY <1>1 DEF PushSteps
<1>3. c.live \subseteq Nets /\ d.live \subseteq Nets
  BY <1>2 DEF After, EdgesGone, WellFormed, Typed
<1>4. PICK T : T = RemovedNets(P)
  OBVIOUS
<1>5. IsFiniteSet(S) /\ IsFiniteSet(T)
  <2>1. S \subseteq Nets /\ T \subseteq Nets
    BY <1>2, <1>3, <1>4
  <2> QED
    BY <2>1, FS_Subset, KHypergraphAssumption
<1>6. P = ParallelHyperedges(d, u, R) /\ R \in Representatives(d, u)
  BY DEF PushOps
<1>7. \A p, q \in P : p.removed = q.removed => p = q
  BY <1>6, ParallelNetsAre
<1>8. PICK r : r = [p \in P |-> p.removed]
  OBVIOUS
<1>9. r \in Injection(P, T)
  <2>1. \A p \in P : r[p] = p.removed /\ r[p] \in T
    BY <1>4, <1>8 DEF RemovedNets
  <2>2. r \in [P -> T]
    BY <1>8, <2>1
  <2>3. \A p, q \in P : r[p] = r[q] => p = q
    BY <1>7, <2>1
  <2> QED
    BY <2>2, <2>3 DEF Injection, IsInjective
<1> QED
  BY <1>5, <1>9, FS_Injection

(* A contraction is such a push.                                            *)
LEMMA PushedAllHappens ==
  ASSUME NEW u, NEW v, MayContract(hg, u, v), WellFormed(hg), performContraction(u, v)
  PROVE  \E m, c, S, d, R, P, a, x, y :
           PushedAll(hg, history, removed_single, removed_parallel, levels, u, v,
                     hg', history', removed_single', removed_parallel', levels', m, c, S, d, R, P, a, x, y)
<1>1. PICK h, H, RS, RP, LV : /\ h = hg /\ H = history /\ RS = removed_single
                              /\ RP = removed_parallel /\ LV = levels
  OBVIOUS
<1>2. PICK c, S : c = contract(h, u, v) /\ S = SingleNodeHyperedges(c, u)
  OBVIOUS
<1>3. PICK d : d = removeSingleNodeHyperedges(c, u)
  OBVIOUS
<1>4. PICK R \in Representatives(d, u) :
        /\ hg' = removeParallelHyperedges(d, ParallelHyperedges(d, u, R))
        /\ history' = Append(history,
             [u |-> u, v |-> v,
              one_pin_hes_begin |-> Len(removed_single), one_pin_hes_size |-> Len(SetToSeq(S)),
              parallel_hes_begin |-> Len(removed_parallel),
              parallel_hes_size |-> Cardinality(ParallelHyperedges(d, u, R))])
        /\ removed_single' = removed_single \o SetToSeq(S)
        /\ removed_parallel' = removed_parallel \o SetToSeq(ParallelHyperedges(d, u, R))
        /\ levels' = Append(levels, Structure(hg'))
  BY <1>1, <1>2, <1>3 DEF performContraction
<1>5. PICK P, x, y : P = ParallelHyperedges(d, u, R) /\ x = SetToSeq(S) /\ y = SetToSeq(P)
  OBVIOUS
<1>6. PICK f : f = removeParallelHyperedges(d, P)
  OBVIOUS
<1>7. PICK m : m = [u |-> u, v |-> v,
                    one_pin_hes_begin |-> Len(RS), one_pin_hes_size |-> Len(x),
                    parallel_hes_begin |-> Len(RP), parallel_hes_size |-> Cardinality(P)]
  OBVIOUS
<1>8. PICK a : a = AddToWeights(d, P, 1)
  OBVIOUS
<1>9. /\ hg' = f /\ history' = Append(H, m) /\ removed_single' = RS \o x /\ removed_parallel' = RP \o y
      /\ levels' = Append(LV, Structure(f))
  <2>1. hg' = f /\ history' = Append(H, m) /\ removed_single' = RS \o x /\ removed_parallel' = RP \o y
    BY <1>1, <1>4, <1>5, <1>6, <1>7
  <2> QED
    BY <1>1, <1>4, <2>1
<1>10. PushOps(h, u, v, c, S, d, R, P, a, f)
  BY <1>2, <1>3, <1>4, <1>5, <1>6, <1>8 DEF PushOps, removeParallelHyperedges, removeSingleNodeHyperedges, RemovedNets
<1>11. IsFiniteSet(S) /\ IsFiniteSet(P)
  BY <1>1, <1>10, PushedNetsAreFinite
<1>12. IsList(x) /\ S = Elements(x)
  BY <1>5, <1>11, SeqOfSet
<1>13. IsList(y) /\ P = Elements(y) /\ Len(y) = Cardinality(P)
  BY <1>5, <1>11, SeqOfSet
<1>14. m.u = u /\ m.v = v /\ Noted(m, u, v, RS, RP, x, y)
  BY <1>7, <1>13 DEF Noted
<1>15. PushedAll(h, H, RS, RP, LV, u, v, hg', history', removed_single', removed_parallel', levels', m, c, S, d, R, P, a, x, y)
  BY <1>9, <1>10, <1>12, <1>13, <1>14 DEF PushedAll
<1> QED
  BY <1>1, <1>15

(* A contraction adds what it merged.                                       *)
LEMMA MergesPushed ==
  ASSUME NEW h, NEW H, NEW RS, NEW RP, NEW LV, LevelsInv(h, H, RS, RP, LV), MergesOK(H, RS, RP, LV),
         NEW u, NEW v, MayContract(h, u, v), NEW f, NEW H1, NEW RS1, NEW RP1, NEW LV1,
         NEW m, NEW c, NEW S, NEW d, NEW R, NEW P, NEW a, NEW x, NEW y,
         PushedAll(h, H, RS, RP, LV, u, v, f, H1, RS1, RP1, LV1, m, c, S, d, R, P, a, x, y)
  PROVE  MergesOK(H1, RS1, RP1, LV1)
<1>1. /\ WellFormed(h) /\ IsList(H) /\ IsList(RS) /\ IsList(RP) /\ IsList(LV) /\ MementosOK(H, RS, RP)
      /\ Len(LV) = Len(H) + 1 /\ Structure(h) = LV[Len(LV)]
  BY DEF LevelsInv
<1>2. /\ PushOps(h, u, v, c, S, d, R, P, a, f) /\ m.u = u /\ m.v = v /\ IsList(x) /\ IsList(y)
      /\ Noted(m, u, v, RS, RP, x, y) /\ S = Elements(x) /\ P = Elements(y)
      /\ H1 = Append(H, m) /\ RS1 = RS \o x /\ RP1 = RP \o y /\ LV1 = Append(LV, Structure(f))
  BY DEF PushedAll
<1>3. PICK n \in Nat : n = Len(H) /\ n + 1 = Len(LV)
  BY <1>1, ListLength
<1>4. IsAppended(H1, H, m, n)
  BY <1>1, <1>2, <1>3, ListAppended
<1>5. PICK k \in Nat : k = n + 1
  BY <1>3
<1>6. IsAppended(LV1, LV, Structure(f), k)
  BY <1>1, <1>2, <1>3, <1>5, ListAppended
<1>7. SegmentsSame(H, Len(H), RS, RP, RS1, RP1) /\ Single(RS1, m) = Elements(x) /\ Parallel(RP1, m) = Elements(y)
  <2>1. IsList(H) /\ IsList(RS) /\ IsList(RP) /\ MementosOK(H, RS, RP)
    BY <1>1
  <2>2. IsList(x) /\ IsList(y) /\ Noted(m, u, v, RS, RP, x, y) /\ Stacked(RS1, RS, x) /\ Stacked(RP1, RP, y)
    BY <1>2 DEF Stacked
  <2> QED
    BY <2>1, <2>2, PushKeepsSegments
<1>8. MergesOf(Structure(h), m, S, P)
  BY <1>1, <1>2, PushMerges
<1>9. ASSUME NEW i \in 1 .. n + 1
      PROVE  MergesOf(LV1[i], H1[i], Single(RS1, H1[i]), Parallel(RP1, H1[i]))
  <2>1. LV1[i] = LV[i]
    BY <1>5, <1>6 DEF IsAppended, Extends
  <2>2. CASE i = n + 1
    <3>1. H1[i] = m /\ LV1[i] = Structure(h)
      BY <1>1, <1>3, <1>4, <2>1, <2>2 DEF IsAppended
    <3> QED
      BY <1>2, <1>7, <1>8, <3>1
  <2>3. CASE i # n + 1
    <3>1. i \in 1 .. Len(H)
      BY <1>3, <2>3
    <3>2. H1[i] = H[i]
      BY <1>3, <1>4, <3>1 DEF IsAppended, Extends
    <3>3. Single(RS1, H[i]) = Single(RS, H[i]) /\ Parallel(RP1, H[i]) = Parallel(RP, H[i])
      BY <1>7, <3>1 DEF SegmentsSame
    <3>4. MergesOf(LV[i], H[i], Single(RS, H[i]), Parallel(RP, H[i]))
      BY <3>1 DEF MergesOK
    <3> QED
      BY <2>1, <3>2, <3>3, <3>4
  <2> QED
    BY <2>2, <2>3
<1>10. Len(H1) = n + 1
  BY <1>4 DEF IsAppended
<1> QED
  BY <1>9, <1>10 DEF MergesOK

(* An uncontraction takes the last one away.                                *)
LEMMA MergesPopped ==
  ASSUME NEW h, NEW H, NEW RS, NEW RP, NEW LV, LevelsInv(h, H, RS, RP, LV), MergesOK(H, RS, RP, LV),
         NEW n \in Nat, n + 1 = Len(H), NEW m, m = Last(H), NEW H1, H1 = Front(H), NEW LV1, LV1 = Front(LV),
         NEW RS1, RS1 = SubSeq(RS, 1, Len(RS) - m.one_pin_hes_size),
         NEW RP1, RP1 = SubSeq(RP, 1, Len(RP) - m.parallel_hes_size)
  PROVE  MergesOK(H1, RS1, RP1, LV1)
<1>1. /\ IsList(H) /\ IsList(RS) /\ IsList(RP) /\ IsList(LV) /\ MementosOK(H, RS, RP)
      /\ Len(LV) = n + 2
  BY DEF LevelsInv
<1>2. PICK k \in Nat, l \in Nat : k = Len(RS) /\ l = Len(RP)
  BY <1>1, ListLength
<1>3. IsList(H1) /\ Len(H1) = n /\ m = H[n + 1] /\ Extends(H1, H, n)
  BY <1>1, ListFront
<1>4. IsList(LV1) /\ Len(LV1) = n + 1 /\ Extends(LV1, LV, n + 1)
  <2>1. n + 1 \in Nat /\ (n + 1) + 1 = n + 2
    OBVIOUS
  <2> QED
    BY <1>1, <2>1, ListFront
<1>5. /\ m.one_pin_hes_begin \in Nat /\ m.one_pin_hes_size \in Nat
      /\ m.one_pin_hes_begin + m.one_pin_hes_size = k
      /\ m.parallel_hes_begin \in Nat /\ m.parallel_hes_size \in Nat
      /\ m.parallel_hes_begin + m.parallel_hes_size = l
  <2>1. n + 1 \in 1 .. Len(H)
    OBVIOUS
  <2> QED
    BY <1>1, <1>2, <1>3, <2>1, MementosSegments
<1>6. PICK kb \in Nat, lb \in Nat : kb = H[n + 1].one_pin_hes_begin /\ lb = H[n + 1].parallel_hes_begin
  BY <1>3, <1>5
<1>7. Extends(RS1, RS, kb)
  <2>1. Len(RS) - m.one_pin_hes_size = kb /\ kb <= Len(RS)
    BY <1>2, <1>3, <1>5, <1>6
  <2> QED
    BY <1>1, <2>1, ListCut
<1>8. Extends(RP1, RP, lb)
  <2>1. Len(RP) - m.parallel_hes_size = lb /\ lb <= Len(RP)
    BY <1>2, <1>3, <1>5, <1>6
  <2> QED
    BY <1>1, <2>1, ListCut
<1>9. SegmentsSame(H, n, RS, RP, RS1, RP1)
  BY <1>1, <1>6, <1>7, <1>8, PopKeepsSegments
<1>10. ASSUME NEW i \in 1 .. n
       PROVE  MergesOf(LV1[i], H1[i], Single(RS1, H1[i]), Parallel(RP1, H1[i]))
  <2>1. i \in 1 .. Len(H) /\ i \in 1 .. n + 1
    OBVIOUS
  <2>2. H1[i] = H[i] /\ LV1[i] = LV[i]
    BY <1>3, <1>4, <2>1 DEF Extends
  <2>3. Single(RS1, H[i]) = Single(RS, H[i]) /\ Parallel(RP1, H[i]) = Parallel(RP, H[i])
    BY <1>9 DEF SegmentsSame
  <2>4. MergesOf(LV[i], H[i], Single(RS, H[i]), Parallel(RP, H[i]))
    BY <2>1 DEF MergesOK
  <2> QED
    BY <2>2, <2>3, <2>4
<1> QED
  BY <1>3, <1>10 DEF MergesOK

-----------------------------------------------------------------------------
(* The invariant of what was merged.                                        *)
MergesInv == ~Broken => MergesOK(history, removed_single, removed_parallel, levels)

(* It holds initially: nothing was merged.                                  *)
LEMMA InitMerges ==
  ASSUME Init
  PROVE  MergesInv
<1>1. history = <<>>
  BY DEF Init
<1> QED
  BY <1>1 DEF MergesInv, MergesOK

(* Every step keeps it.                                                     *)
LEMMA StepKeepsMerges ==
  ASSUME IInv, MergesInv, [Next]_vars
  PROVE  MergesInv'
<1>1. SUFFICES ASSUME ~Broken' PROVE MergesOK(history', removed_single', removed_parallel', levels')
  BY DEF MergesInv
<1>2. ~Broken /\ ~SoftTimeLimitExceeded
  BY <1>1, BrokenStays
<1>3. /\ LevelsInv(hg, history, removed_single, removed_parallel, levels)
      /\ MergesOK(history, removed_single, removed_parallel, levels)
  BY <1>2 DEF IInv, MergesInv
<1>4. CASE Contraction
  <2>1. PICK u, v : MayContract(hg, u, v) /\ performContraction(u, v)
    BY <1>4, ContractionIsPushed
  <2>2. WellFormed(hg)
    BY <1>3 DEF LevelsInv
  <2>3. PICK m, c, S, d, R, P, a, x, y :
          PushedAll(hg, history, removed_single, removed_parallel, levels, u, v,
                    hg', history', removed_single', removed_parallel', levels', m, c, S, d, R, P, a, x, y)
    BY <2>1, <2>2, PushedAllHappens
  <2> QED
    BY <1>3, <2>1, <2>3, MergesPushed
<1>5. CASE Uncontract
  <2>1. PICK m : /\ m = Last(history)
                 /\ removed_parallel' = SubSeq(removed_parallel, 1, Len(removed_parallel) - m.parallel_hes_size)
                 /\ removed_single' = SubSeq(removed_single, 1, Len(removed_single) - m.one_pin_hes_size)
    BY <1>5 DEF Uncontract
  <2>2. history # <<>> /\ history' = Front(history) /\ levels' = Front(levels)
    BY <1>5 DEF Uncontract
  <2>3. PICK n \in Nat : n + 1 = Len(history)
    <3>1. Len(history) \in Nat /\ Len(history) > 0
      BY <1>3, <2>2, ListLength DEF LevelsInv
    <3>2. Len(history) - 1 \in Nat /\ (Len(history) - 1) + 1 = Len(history)
      BY <3>1
    <3> QED
      BY <3>2
  <2> QED
    BY <1>3, <2>1, <2>2, <2>3, MergesPopped
<1>6. CASE InitialPartition \/ Refine \/ partitionVCycle \/ Idle
  <2>1. history' = history /\ levels' = levels /\ removed_single' = removed_single /\ removed_parallel' = removed_parallel
    BY <1>6 DEF InitialPartition, Refine, partitionVCycle, Idle, pruner
  <2> QED
    BY <1>3, <2>1
<1> QED
  BY <1>2, <1>4, <1>5, <1>6, NextIs

-----------------------------------------------------------------------------
(* All contractions, between the coarsest level and the first.              *)

(* Every one of n contractions merged what it removed.                      *)
StepsTo(H, LV, n) == \A i \in 1 .. n : \E S, P : Step(LV[i], LV[i + 1], H[i], S, P)

(* B costs with the blocks f what A costs with the blocks g.                *)
SameCosts(A, B, f, g) ==
  /\ CutOf(B, f) = CutOf(A, g) /\ km1Of(B, f) = km1Of(A, g)
  /\ \A p \in Parts : WeightOf(B, f, p) = WeightOf(A, g, p)

(* The levels of the invariant are such.                                    *)
LEMMA LevelsAreSteps ==
  ASSUME NEW h, NEW H, NEW RS, NEW RP, NEW LV, LevelsInv(h, H, RS, RP, LV), MergesOK(H, RS, RP, LV)
  PROVE  StepsTo(H, LV, Len(H))
<1>1. PICK n \in Nat : n = Len(H) /\ Len(LV) = n + 1
  BY ListLength DEF LevelsInv
<1>2. ASSUME NEW i \in 1 .. n
      PROVE  \E S, P : Step(LV[i], LV[i + 1], H[i], S, P)
  <2>1. PICK A, B, m, S, P : /\ A = LV[i] /\ B = LV[i + 1] /\ m = H[i]
                             /\ S = Single(RS, H[i]) /\ P = Parallel(RP, H[i])
    OBVIOUS
  <2>2. i \in 1 .. Len(LV) /\ i + 1 \in 1 .. Len(LV) /\ i \in 1 .. Len(H)
    BY <1>1
  <2>3. LevelOK(A, h.fixed_part) /\ LevelOK(B, h.fixed_part)
    BY <2>1, <2>2 DEF LevelsInv, IsOn
  <2>4. Coarser(A, B, m, S, P, h.fixed_part)
    BY <2>1, <2>2 DEF LevelsInv, Kept
  <2>5. MergesOf(A, m, S, P)
    BY <2>1, <2>2 DEF MergesOK
  <2>6. Step(A, B, m, S, P)
    BY <2>3, <2>4, <2>5 DEF Step
  <2> QED
    BY <2>1, <2>6
<1> QED
  BY <1>1, <1>2 DEF StepsTo

(* What undoing n of them does to blocks f.                                 *)
Projects(G, LV, n, f) ==
  /\ Projected(G, f) \in [Nodes -> Int]
  /\ SameCosts(LV[1], LV[n + 1], f, Projected(G, f))

(* One more.                                                                *)
LEMMA OneMoreProjects ==
  ASSUME NEW G, NEW LV, NEW n \in Nat, IsListOf(G, n + 1), StepsTo(G, LV, n + 1), NEW f \in [Nodes -> Int],
         NEW G1, G1 = Front(G), NEW g, g = ProjectOne(G, n + 1, f)
  PROVE  /\ IsListOf(G1, n) /\ StepsTo(G1, LV, n) /\ g \in [Nodes -> Int]
         /\ Projects(G1, LV, n, g) => Projects(G, LV, n + 1, f)
<1>1. IsList(G1) /\ Len(G1) = n /\ Extends(G1, G, n)
  BY ListFront DEF IsListOf
<1>2. IsListOf(G1, n)
  BY <1>1 DEF IsListOf, IsList
<1>3. StepsTo(G1, LV, n)
  BY <1>1 DEF StepsTo, Extends
<1>4. PICK A, B, m : A = LV[n + 1] /\ B = LV[n + 2] /\ m = G[n + 1]
  OBVIOUS
<1>5. n + 1 \in 1 .. n + 1 /\ (n + 1) + 1 = n + 2
  OBVIOUS
<1>6. PICK S, P : Step(A, B, m, S, P)
  BY <1>4, <1>5 DEF StepsTo
<1>7. g = With(f, m)
  BY <1>4 DEF ProjectOne, With
<1>8. CutOf(B, f) = CutOf(A, g) /\ km1Of(B, f) = km1Of(A, g)
  BY <1>6, <1>7, StepKeepsCosts
<1>9. \A p \in Parts : WeightOf(B, f, p) = WeightOf(A, g, p)
  BY <1>6, <1>7, StepKeepsWeights
<1>10. g \in [Nodes -> Int]
  <2>1. m.u \in Nodes
    BY <1>6, <1>7, StepIs
  <2> QED
    BY <1>7, <2>1 DEF With
<1>11. Extends(G, G1, n)
  BY <1>1 DEF Extends
<1>12. Projected(G, f) = Projected(G1, g)
  BY <1>2, <1>11, ProjectedLast
<1>13. ASSUME Projects(G1, LV, n, g) PROVE Projects(G, LV, n + 1, f)
  <2>1. PICK q : q = Projected(G1, g) /\ q = Projected(G, f)
    BY <1>12
  <2>2. q \in [Nodes -> Int] /\ SameCosts(LV[1], A, g, q)
    BY <1>4, <1>13, <2>1 DEF Projects
  <2>3. SameCosts(LV[1], B, f, q)
    BY <1>8, <1>9, <2>2 DEF SameCosts
  <2> QED
    BY <1>4, <1>5, <2>1, <2>2, <2>3 DEF Projects
<1> QED
  BY <1>2, <1>3, <1>10, <1>13

(* Among the histories that project to something else there would be a      *)
(* shortest one.                                                            *)
Misprojected(LV, n) ==
  \E G, f : /\ IsListOf(G, n) /\ StepsTo(G, LV, n) /\ f \in [Nodes -> Int]
            /\ ~Projects(G, LV, n, f)

(* Without a history the first level is the only one.                       *)
LEMMA NoneProjects ==
  ASSUME NEW G, NEW LV, IsListOf(G, 0), NEW f \in [Nodes -> Int]
  PROVE  Projects(G, LV, 0, f)
<1>1. G = <<>>
  BY DEF IsListOf, IsList
<1>2. Projected(G, f) = f
  BY <1>1, ProjectedNone
<1>3. SameCosts(LV[1], LV[1], f, f)
  BY DEF SameCosts
<1>4. 0 + 1 = 1
  OBVIOUS
<1> QED
  BY <1>2, <1>3, <1>4 DEF Projects

(* So there is none.                                                        *)
LEMMA LevelsProject ==
  ASSUME NEW LV, NEW n \in Nat, NEW G, IsListOf(G, n), StepsTo(G, LV, n), NEW f \in [Nodes -> Int]
  PROVE  Projects(G, LV, n, f)
<1> SUFFICES ASSUME ~Projects(G, LV, n, f) PROVE FALSE
  OBVIOUS
<1>1. Misprojected(LV, n)
  BY DEF Misprojected
<1>2. PICK T : T = {k \in 0 .. n : Misprojected(LV, k)}
  OBVIOUS
<1>3. AreNumbers(T) /\ T # {}
  <2>1. AreNumbers(0 .. n)
    BY FS_Interval DEF AreNumbers
  <2>2. T \subseteq 0 .. n /\ n \in T
    BY <1>1, <1>2
  <2> QED
    BY <2>1, <2>2, NumbersIn
<1>4. PICK k : k = Min(T)
  OBVIOUS
<1>5. k \in T /\ \A y \in T : k <= y
  BY <1>3, <1>4, LeastNumber
<1>6. k \in 0 .. n /\ Misprojected(LV, k)
  BY <1>2, <1>5
<1>7. PICK I, b : /\ IsListOf(I, k) /\ StepsTo(I, LV, k) /\ b \in [Nodes -> Int]
                  /\ ~Projects(I, LV, k, b)
  BY <1>6 DEF Misprojected
<1>8. k # 0
  BY <1>7, NoneProjects
<1>9. PICK j \in Nat : k = j + 1
  <2>1. k - 1 \in Nat /\ k = (k - 1) + 1
    BY <1>6, <1>8
  <2> QED
    BY <2>1
<1>10. PICK I1, c : I1 = Front(I) /\ c = ProjectOne(I, j + 1, b)
  OBVIOUS
<1>11. /\ IsListOf(I1, j) /\ StepsTo(I1, LV, j) /\ c \in [Nodes -> Int]
       /\ Projects(I1, LV, j, c) => Projects(I, LV, j + 1, b)
  BY <1>7, <1>9, <1>10, OneMoreProjects
<1>12. j \notin T /\ j \in 0 .. n
  BY <1>5, <1>6, <1>9
<1>13. ~Misprojected(LV, j)
  BY <1>2, <1>12
<1>14. Projects(I1, LV, j, c)
  BY <1>11, <1>13 DEF Misprojected
<1> QED
  BY <1>7, <1>9, <1>11, <1>14

(* The hypergraph costs with any blocks what the first level costs with the *)
(* blocks of the nodes it stands for.                                       *)
LEMMA HypergraphProjects ==
  ASSUME NEW h, NEW H, NEW RS, NEW RP, NEW LV, LevelsInv(h, H, RS, RP, LV), MergesOK(H, RS, RP, LV),
         NEW f \in [Nodes -> Int]
  PROVE  /\ Projected(H, f) \in [Nodes -> Int]
         /\ SameCosts(LV[1], Structure(h), f, Projected(H, f))
<1>1. PICK n \in Nat : n = Len(H) /\ Structure(h) = LV[n + 1]
  BY ListLength DEF LevelsInv
<1>2. IsListOf(H, n)
  BY <1>1 DEF IsListOf, LevelsInv, IsList
<1>3. StepsTo(H, LV, n)
  BY <1>1, LevelsAreSteps
<1>4. Projects(H, LV, n, f)
  BY <1>2, <1>3, LevelsProject
<1> QED
  BY <1>1, <1>4 DEF Projects

-----------------------------------------------------------------------------
(* What is counted of one net with the pins P in the blocks f.              *)
PinsAt(P, f, p) == {x \in P : f[x] = p}
Counts(P, f) == [p \in Parts |-> Cardinality(PinsAt(P, f, p))]
Spread(P, f) == {p \in Parts : PinsAt(P, f, p) # {}}

NetCounted(h, e, P, f) ==
  /\ h.pins_in_part[e] = Counts(P, f)
  /\ h.connectivity_set[e] = Spread(P, f) /\ h.connectivity[e] = Cardinality(Spread(P, f))

(* There are finitely many parts.                                           *)
LEMMA PartsAreFinite == IsFiniteSet(Parts) /\ Parts \subseteq Int
<1>1. K \in Nat /\ K - 1 \in Int
  BY KHypergraphAssumption
<1> QED
  BY <1>1, FS_Interval DEF Parts

(* The counts are numbers.                                                  *)
LEMMA CountsAre ==
  ASSUME NEW P, IsFiniteSet(P), NEW f
  PROVE  /\ \A p : IsFiniteSet(PinsAt(P, f, p)) /\ Cardinality(PinsAt(P, f, p)) \in Nat
         /\ \A p : Cardinality(PinsAt(P, f, p)) = 0 <=> PinsAt(P, f, p) = {}
         /\ IsFiniteSet(Spread(P, f)) /\ Cardinality(Spread(P, f)) \in Nat
<1>1. ASSUME NEW p
      PROVE  /\ IsFiniteSet(PinsAt(P, f, p)) /\ Cardinality(PinsAt(P, f, p)) \in Nat
             /\ Cardinality(PinsAt(P, f, p)) = 0 <=> PinsAt(P, f, p) = {}
  <2>1. PinsAt(P, f, p) \in SUBSET P
    BY DEF PinsAt
  <2>2. IsFiniteSet(PinsAt(P, f, p))
    BY <2>1, FS_Subset
  <2> QED
    BY <2>2, FS_CardinalityType, FS_EmptySet
<1>2. Spread(P, f) \in SUBSET Parts
  BY DEF Spread
<1>3. IsFiniteSet(Spread(P, f))
  BY <1>2, PartsAreFinite, FS_Subset
<1> QED
  BY <1>1, <1>3, FS_CardinalityType

(* Two nodes of one block merged: one pin less where both were.             *)
OneLess(P, u, v, f, p) == IF Cut(P, u, v) /\ p = f[v] THEN 1 ELSE 0
(* The counts of merged pins.                                               *)
LEMMA MergedCounts ==
  ASSUME NEW P, IsFiniteSet(P), NEW u, NEW v, u # v, NEW f, f[u] = f[v], NEW M, M = Merged(P, u, v)
  PROVE  /\ Spread(M, f) = Spread(P, f) /\ IsFiniteSet(M)
         /\ \A p : Cardinality(PinsAt(P, f, p)) = Cardinality(PinsAt(M, f, p)) + OneLess(P, u, v, f, p)
         /\ \A p : Cardinality(PinsAt(M, f, p)) \in Nat
         /\ Cut(P, u, v) => Cardinality(PinsAt(M, f, f[v])) >= 1
<1>1. IsFiniteSet(M)
  BY MergedCardinality
<1>2. ASSUME NEW p
      PROVE  PinsAt(M, f, p) = Merged(PinsAt(P, f, p), u, v)
  BY DEF PinsAt, Merged
<1>3. ASSUME NEW p
      PROVE  PinsAt(M, f, p) = {} <=> PinsAt(P, f, p) = {}
  BY <1>2 DEF Merged
<1>4. Spread(M, f) = Spread(P, f)
  BY <1>3 DEF Spread
<1>5. ASSUME NEW p
      PROVE  Cardinality(PinsAt(P, f, p)) = Cardinality(PinsAt(M, f, p)) + OneLess(P, u, v, f, p)
  <2>1. PICK Q, N : Q = PinsAt(P, f, p) /\ N = PinsAt(M, f, p)
    OBVIOUS
  <2>2. IsFiniteSet(Q)
    BY <2>1, CountsAre
  <2>3. N = Merged(Q, u, v)
    BY <1>2, <2>1
  <2>4. /\ Cut(Q, u, v) => Cardinality(Q) = Cardinality(Merged(Q, u, v)) + 1
        /\ ~Cut(Q, u, v) => Cardinality(Q) = Cardinality(Merged(Q, u, v))
        /\ Cardinality(Merged(Q, u, v)) \in Nat
    BY <2>2, MergedCardinality
  <2>5. Cut(Q, u, v) <=> Cut(P, u, v) /\ p = f[v]
    BY <2>1 DEF Cut, PinsAt
  <2> QED
    BY <2>1, <2>3, <2>4, <2>5 DEF OneLess
<1>6. \A p : Cardinality(PinsAt(M, f, p)) \in Nat
  BY <1>1, CountsAre
<1>7. ASSUME Cut(P, u, v)
      PROVE  Cardinality(PinsAt(M, f, f[v])) >= 1
  <2>1. u \in M
    BY <1>7 DEF Cut, Merged
  <2>2. u \in PinsAt(M, f, f[v])
    BY <2>1 DEF PinsAt
  <2>3. PinsAt(M, f, f[v]) # {}
    BY <2>2
  <2> QED
    BY <1>1, <1>6, <2>3, CountsAre
<1> QED
  BY <1>1, <1>4, <1>5, <1>6, <1>7

(* Nets whose counts did not change.                                        *)
NetSame(h, g, e) ==
  /\ g.pins_in_part[e] = h.pins_in_part[e] /\ g.connectivity[e] = h.connectivity[e]
  /\ g.connectivity_set[e] = h.connectivity_set[e]

(* Nets outside stay as they are.                                           *)
LEMMA OutsideIsSame ==
  ASSUME NEW h, NEW g, NEW e \in Nets, NEW E, NEW p, Decremented(h, g, E, p) \/ Incremented(h, g, E, p), e \notin E
  PROVE  NetSame(h, g, e)
BY DEF Decremented, Incremented, NetSame

(* Nets that stay as they are stay counted.                                 *)
LEMMA SameIsCounted ==
  ASSUME NEW h, NEW g, NEW e, NetSame(h, g, e), NEW P, NEW f, NetCounted(h, e, P, f)
  PROVE  NetCounted(g, e, P, f)
BY DEF NetSame, NetCounted

(* contract counts v no more where it was cut off.                          *)
LEMMA ContractCounts ==
  ASSUME NEW h, NEW g, NEW e \in Nets, NEW P, IsFiniteSet(P), NEW u, NEW v, u # v, NEW f, f[u] = f[v],
         NetCounted(h, e, P, f), NEW E, e \in E <=> Cut(P, u, v), NEW q, q = f[v],
         (q \in Parts /\ Decremented(h, g, E, q)) \/ (q \notin Parts /\ NetSame(h, g, e)),
         NEW M, M = Merged(P, u, v)
  PROVE  NetCounted(g, e, M, f)
<1>1. /\ Spread(M, f) = Spread(P, f)
      /\ \A p : Cardinality(PinsAt(P, f, p)) = Cardinality(PinsAt(M, f, p)) + OneLess(P, u, v, f, p)
      /\ \A p : Cardinality(PinsAt(M, f, p)) \in Nat
      /\ Cut(P, u, v) => Cardinality(PinsAt(M, f, f[v])) >= 1
  BY MergedCounts
<1>2. CASE ~(q \in Parts /\ e \in E)
  <2>1. NetSame(h, g, e)
    BY <1>2, OutsideIsSame
  <2>2. \A p \in Parts : Cardinality(PinsAt(P, f, p)) = Cardinality(PinsAt(M, f, p))
    BY <1>1, <1>2 DEF OneLess
  <2>3. Counts(M, f) = Counts(P, f)
    BY <2>2 DEF Counts
  <2> QED
    BY <1>1, <2>1, <2>3 DEF NetSame, NetCounted
<1>3. CASE q \in Parts /\ e \in E
  <2>1. Cut(P, u, v) /\ Decremented(h, g, E, q)
    BY <1>3
  <2>2. g.pins_in_part[e] = [h.pins_in_part[e] EXCEPT ![q] = h.pins_in_part[e][q] - 1]
    BY <1>3, <2>1 DEF Decremented
  <2>3. h.pins_in_part[e] = Counts(P, f)
    BY DEF NetCounted
  <2>4. \A p \in Parts : Counts(P, f)[p] = Cardinality(PinsAt(P, f, p)) /\ Counts(M, f)[p] = Cardinality(PinsAt(M, f, p))
    BY DEF Counts
  <2>5. Counts(P, f)[q] = Counts(M, f)[q] + 1 /\ Counts(M, f)[q] \in Nat /\ Counts(M, f)[q] >= 1
    BY <1>1, <1>3, <2>1, <2>4 DEF OneLess
  <2>6. \A p \in Parts \ {q} : Counts(P, f)[p] = Counts(M, f)[p]
    BY <1>1, <2>4 DEF OneLess
  <2>7. g.pins_in_part[e] = Counts(M, f)
    BY <1>3, <2>2, <2>3, <2>5, <2>6 DEF Counts
  <2>8. h.pins_in_part[e][q] # 1
    BY <2>3, <2>5
  <2>9. g.connectivity[e] = h.connectivity[e] /\ g.connectivity_set[e] = h.connectivity_set[e]
    BY <2>1, <2>8 DEF Decremented
  <2> QED
    BY <1>1, <2>7, <2>9 DEF NetCounted
<1> QED
  BY <1>2, <1>3

(* uncontract counts it again.                                              *)
LEMMA UncontractCounts ==
  ASSUME NEW h, NEW g, NEW e \in Nets, NEW P, IsFiniteSet(P), NEW u, NEW v, u # v, NEW f, f[u] = f[v],
         NEW M, M = Merged(P, u, v), NetCounted(h, e, M, f), NEW E, e \in E <=> Cut(P, u, v), NEW q \in Parts, q = f[v],
         Incremented(h, g, E, q)
  PROVE  NetCounted(g, e, P, f) /\ g.connectivity[e] = h.connectivity[e]
<1>1. /\ Spread(M, f) = Spread(P, f)
      /\ \A p : Cardinality(PinsAt(P, f, p)) = Cardinality(PinsAt(M, f, p)) + OneLess(P, u, v, f, p)
      /\ \A p : Cardinality(PinsAt(M, f, p)) \in Nat
      /\ Cut(P, u, v) => Cardinality(PinsAt(M, f, f[v])) >= 1
  BY MergedCounts
<1>2. CASE e \notin E
  <2>1. NetSame(h, g, e)
    BY <1>2, OutsideIsSame
  <2>2. \A p \in Parts : Cardinality(PinsAt(P, f, p)) = Cardinality(PinsAt(M, f, p))
    BY <1>1, <1>2 DEF OneLess
  <2>3. Counts(M, f) = Counts(P, f)
    BY <2>2 DEF Counts
  <2> QED
    BY <1>1, <2>1, <2>3 DEF NetSame, NetCounted
<1>3. CASE e \in E
  <2>1. Cut(P, u, v)
    BY <1>3
  <2>2. g.pins_in_part[e] = [h.pins_in_part[e] EXCEPT ![q] = h.pins_in_part[e][q] + 1]
    BY <1>3 DEF Incremented
  <2>3. h.pins_in_part[e] = Counts(M, f)
    BY DEF NetCounted
  <2>4. \A p \in Parts : Counts(P, f)[p] = Cardinality(PinsAt(P, f, p)) /\ Counts(M, f)[p] = Cardinality(PinsAt(M, f, p))
    BY DEF Counts
  <2>5. Counts(P, f)[q] = Counts(M, f)[q] + 1 /\ Counts(M, f)[q] \in Nat /\ Counts(M, f)[q] >= 1
    BY <1>1, <2>1, <2>4 DEF OneLess
  <2>6. \A p \in Parts \ {q} : Counts(P, f)[p] = Counts(M, f)[p]
    BY <1>1, <2>4 DEF OneLess
  <2>7. g.pins_in_part[e] = Counts(P, f)
    BY <2>2, <2>3, <2>5, <2>6 DEF Counts
  <2>8. h.pins_in_part[e][q] # 0
    BY <2>3, <2>5
  <2>9. g.connectivity[e] = h.connectivity[e] /\ g.connectivity_set[e] = h.connectivity_set[e]
    BY <2>8 DEF Incremented
  <2> QED
    BY <1>1, <2>7, <2>9 DEF NetCounted
<1> QED
  BY <1>2, <1>3

(* Pins elsewhere do not matter.                                            *)
LEMMA SameBlocksCounts ==
  ASSUME NEW h, NEW e, NEW P, NEW f, NEW g, \A x \in P : f[x] = g[x], NetCounted(h, e, P, f)
  PROVE  NetCounted(h, e, P, g)
<1>1. \A p : PinsAt(P, f, p) = PinsAt(P, g, p)
  BY DEF PinsAt
<1>2. Counts(P, f) = Counts(P, g) /\ Spread(P, f) = Spread(P, g)
  BY <1>1 DEF Counts, Spread
<1> QED
  BY <1>2 DEF NetCounted

(* f2 is f with u in block q.                                               *)
MovedTo(f, f2, u, q) == f \in [Nodes -> Int] /\ u \in Nodes /\ f2 = [f EXCEPT ![u] = q]

(* The pins in each block after a move.                                     *)
LEMMA MovedPins ==
  ASSUME NEW P, P \subseteq Nodes, NEW u \in P, NEW f, NEW from, from = f[u], NEW to, to # from,
         NEW f2, MovedTo(f, f2, u, to)
  PROVE  /\ PinsAt(P, f2, from) = PinsAt(P, f, from) \ {u} /\ u \in PinsAt(P, f, from)
         /\ PinsAt(P, f2, to) = PinsAt(P, f, to) \cup {u} /\ u \notin PinsAt(P, f, to)
         /\ \A p : p # from /\ p # to => PinsAt(P, f2, p) = PinsAt(P, f, p)
         /\ f2[u] = to /\ \A x \in P \ {u} : f2[x] = f[x]
<1>1. f2[u] = to /\ \A x \in P \ {u} : f2[x] = f[x]
  BY DEF MovedTo
<1> QED
  BY <1>1 DEF PinsAt

(* changeNodePart counts u in its new block.                                *)
LEMMA MovedCounts ==
  ASSUME NEW h, NEW k, NEW g, NEW e \in Nets, NEW P, IsFiniteSet(P), P \subseteq Nodes, NEW u \in P, NEW f,
         NEW from \in Parts, from = f[u], NEW to \in Parts, to # from, NEW f2, MovedTo(f, f2, u, to),
         NetCounted(h, e, P, f), NEW E, e \in E, Decremented(h, k, E, from), Incremented(k, g, E, to)
  PROVE  NetCounted(g, e, P, f2)
<1>1. PICK a \in Nat, b \in Nat : a = Cardinality(PinsAt(P, f, from)) /\ b = Cardinality(PinsAt(P, f, to))
  BY CountsAre
<1>2. /\ PinsAt(P, f2, from) = PinsAt(P, f, from) \ {u} /\ u \in PinsAt(P, f, from)
      /\ PinsAt(P, f2, to) = PinsAt(P, f, to) \cup {u} /\ u \notin PinsAt(P, f, to)
      /\ \A p : p # from /\ p # to => PinsAt(P, f2, p) = PinsAt(P, f, p)
  BY MovedPins
<1>3. PICK A, B : A = PinsAt(P, f, from) /\ B = PinsAt(P, f, to)
  OBVIOUS
<1>4. IsFiniteSet(A) /\ IsFiniteSet(B)
  BY <1>3, CountsAre
<1>5. Cardinality(A \ {u}) = a - 1
  BY <1>1, <1>2, <1>3, <1>4, FS_RemoveElement
<1>6. Cardinality(B \cup {u}) = b + 1
  BY <1>1, <1>2, <1>3, <1>4, FS_AddElement
<1>7. Counts(P, f2) = [[Counts(P, f) EXCEPT ![from] = a - 1] EXCEPT ![to] = b + 1]
  <2>1. Counts(P, f2)[from] = a - 1 /\ Counts(P, f2)[to] = b + 1
    BY <1>2, <1>3, <1>5, <1>6 DEF Counts
  <2>2. \A p \in Parts : p # from /\ p # to => Counts(P, f2)[p] = Counts(P, f)[p]
    BY <1>2 DEF Counts
  <2>3. PICK s, t : s = Counts(P, f) /\ t = Counts(P, f2)
    OBVIOUS
  <2>4. s = [p \in Parts |-> s[p]] /\ t = [p \in Parts |-> t[p]]
    BY <2>3 DEF Counts
  <2>5. t = [[s EXCEPT ![from] = a - 1] EXCEPT ![to] = b + 1]
    BY <2>1, <2>2, <2>3, <2>4
  <2> QED
    BY <2>3, <2>5
<1>8. /\ h.pins_in_part[e] = Counts(P, f) /\ Counts(P, f)[from] = a /\ Counts(P, f)[to] = b
      /\ Counts(P, f) = [p \in Parts |-> Counts(P, f)[p]]
  BY <1>1 DEF NetCounted, Counts
<1>9. k.pins_in_part[e] = [Counts(P, f) EXCEPT ![from] = a - 1] /\ k.pins_in_part[e][to] = b
  BY <1>8 DEF Decremented
<1>10. g.pins_in_part[e] = Counts(P, f2)
  BY <1>7, <1>9 DEF Incremented
<1>11. PICK S : S = Spread(P, f)
  OBVIOUS
<1>12. /\ h.connectivity_set[e] = S /\ h.connectivity[e] = Cardinality(S) /\ IsFiniteSet(S)
       /\ Cardinality(S) \in Nat /\ from \in S
  BY <1>2, <1>11, CountsAre DEF NetCounted, Spread
<1>13. PICK T : T = (IF a = 1 THEN S \ {from} ELSE S)
  OBVIOUS
<1>14. k.connectivity_set[e] = T /\ k.connectivity[e] = Cardinality(T) /\ IsFiniteSet(T) /\ Cardinality(T) \in Nat
  <2>1. CASE a = 1
    <3>1. k.connectivity_set[e] = S \ {from} /\ k.connectivity[e] = Cardinality(S) - 1
      BY <1>8, <1>12, <2>1 DEF Decremented
    <3>2. IsFiniteSet(S \ {from}) /\ Cardinality(S \ {from}) = Cardinality(S) - 1
      BY <1>12, FS_RemoveElement
    <3>3. IsFiniteSet(T) /\ T = S \ {from}
      BY <1>13, <2>1, <3>2
    <3> QED
      BY <3>1, <3>2, <3>3, FS_CardinalityType
  <2>2. CASE a # 1
    <3>1. k.connectivity_set[e] = S /\ k.connectivity[e] = Cardinality(S)
      BY <1>8, <1>12, <2>2 DEF Decremented
    <3> QED
      BY <1>12, <1>13, <2>2, <3>1
  <2> QED
    BY <2>1, <2>2
<1>15. to \in T <=> b # 0
  <2>1. to \in S <=> PinsAt(P, f, to) # {}
    BY <1>11 DEF Spread
  <2>2. b = 0 <=> PinsAt(P, f, to) = {}
    BY <1>1, CountsAre
  <2> QED
    BY <1>13, <2>1, <2>2
<1>16. g.connectivity_set[e] = T \cup {to} /\ g.connectivity[e] = Cardinality(T \cup {to})
  <2>1. CASE b = 0
    <3>1. g.connectivity_set[e] = T \cup {to} /\ g.connectivity[e] = Cardinality(T) + 1
      BY <1>9, <1>14, <2>1 DEF Incremented
    <3>2. Cardinality(T \cup {to}) = Cardinality(T) + 1
      BY <1>14, <1>15, <2>1, FS_AddElement
    <3> QED
      BY <3>1, <3>2
  <2>2. CASE b # 0
    <3>1. g.connectivity_set[e] = T /\ g.connectivity[e] = Cardinality(T)
      BY <1>9, <1>14, <2>2 DEF Incremented
    <3>2. T \cup {to} = T
      BY <1>15, <2>2
    <3> QED
      BY <3>1, <3>2
  <2> QED
    BY <2>1, <2>2
<1>17. Spread(P, f2) = T \cup {to}
  <2>1. PinsAt(P, f2, from) = {} <=> a = 1
    <3>1. IsFiniteSet(A \ {u})
      BY <1>4, FS_RemoveElement
    <3>2. Cardinality(A \ {u}) = 0 <=> A \ {u} = {}
      BY <3>1, FS_EmptySet
    <3> QED
      BY <1>1, <1>2, <1>3, <1>5, <3>2
  <2>2. PinsAt(P, f2, to) # {}
    BY <1>2
  <2>3. ASSUME NEW p \in Parts PROVE p \in Spread(P, f2) <=> p \in T \cup {to}
    <3>1. CASE p = from
      BY <1>12, <1>13, <2>1, <3>1 DEF Spread
    <3>2. CASE p = to
      BY <2>2, <3>2 DEF Spread
    <3>3. CASE p # from /\ p # to
      BY <1>2, <1>11, <1>13, <3>3 DEF Spread
    <3> QED
      BY <3>1, <3>2, <3>3
  <2>4. Spread(P, f2) \subseteq Parts /\ T \cup {to} \subseteq Parts
    BY <1>11, <1>13 DEF Spread
  <2> QED
    BY <2>3, <2>4
<1> QED
  BY <1>10, <1>16, <1>17 DEF NetCounted

-----------------------------------------------------------------------------
(* Nets that connect several blocks.                                        *)
Spans(P, f) == \E x, y \in P : f[x] # f[y]

(* A net is cut when two of its pins are in different blocks.               *)
LEMMA SpansIs ==
  ASSUME NEW P, IsFiniteSet(P), NEW f, \A x \in P : f[x] \in Parts
  PROVE  Cardinality(Spread(P, f)) > 1 <=> Spans(P, f)
<1>1. PICK S : S = Spread(P, f) /\ IsFiniteSet(S) /\ Cardinality(S) \in Nat
  BY CountsAre
<1>2. \A x \in P : f[x] \in S
  BY <1>1 DEF Spread, PinsAt
<1>3. \A p \in S : \E x \in P : f[x] = p
  BY <1>1 DEF Spread, PinsAt
<1>4. ASSUME Spans(P, f) PROVE Cardinality(S) > 1
  <2>1. PICK x \in P, y \in P : f[x] # f[y]
    BY <1>4 DEF Spans
  <2>2. Cardinality(S) # 0 /\ Cardinality(S) # 1
    <3>1. Cardinality(S) # 0
      BY <1>1, <1>2, FS_EmptySet
    <3>2. Cardinality(S) = 1 => \E p : S = {p}
      BY <1>1, FS_Singleton
    <3> QED
      BY <1>2, <2>1, <3>1, <3>2
  <2> QED
    BY <1>1, <2>2
<1>5. ASSUME ~Spans(P, f) PROVE ~(Cardinality(S) > 1)
  <2>1. CASE S = {}
    BY <2>1, FS_EmptySet
  <2>2. CASE S # {}
    <3>1. PICK p : p \in S
      BY <2>2
    <3>2. S = {p}
      BY <1>3, <1>5, <3>1 DEF Spans
    <3>3. Cardinality({p}) = 1
      BY FS_Singleton
    <3> QED
      BY <3>2, <3>3
  <2> QED
    BY <2>1, <2>2
<1> QED
  BY <1>1, <1>4, <1>5

(* changeNodePart tells by the pin counts which nets leave the cut and      *)
(* which enter it.                                                          *)
LEMMA CutChanges ==
  ASSUME NEW P, IsFiniteSet(P), P \subseteq Nodes, NEW u \in P, NEW f, NEW from, from = f[u],
         NEW to, to # from, NEW f2, MovedTo(f, f2, u, to),
         NEW a, a = Cardinality(PinsAt(P, f, from)), NEW b, b = Cardinality(PinsAt(P, f, to)),
         NEW n, n = Cardinality(P)
  PROVE  /\ a = 1 /\ b # 0 /\ b + 1 = n <=> Spans(P, f) /\ ~Spans(P, f2)
         /\ a # 1 /\ b = 0 /\ a = n <=> ~Spans(P, f) /\ Spans(P, f2)
<1>1. a \in Nat /\ b \in Nat /\ n \in Nat
  BY CountsAre, FS_CardinalityType
<1>2. f2[u] = to /\ (\A x \in P \ {u} : f2[x] = f[x]) /\ u \in PinsAt(P, f, from)
  BY MovedPins
<1>3. PICK A, B : A = PinsAt(P, f, from) /\ B = PinsAt(P, f, to)
  OBVIOUS
<1>4. A \in SUBSET P /\ B \in SUBSET (P \ {u}) /\ IsFiniteSet(A) /\ IsFiniteSet(B) /\ IsFiniteSet(P \ {u})
  <2>1. A \in SUBSET P /\ B \in SUBSET (P \ {u})
    BY <1>3 DEF PinsAt
  <2> QED
    BY <1>3, <2>1, CountsAre, FS_RemoveElement
<1>5. Cardinality(P \ {u}) = n - 1
  BY FS_RemoveElement
<1>6. a = 1 <=> A = {u}
  <2>1. a = 1 <=> \E x : A = {x}
    BY <1>3, <1>4, FS_Singleton
  <2> QED
    BY <1>2, <1>3, <2>1
<1>7. b = 0 <=> B = {}
  BY <1>3, <1>4, FS_EmptySet
<1>8. b + 1 = n <=> B = P \ {u}
  <2>1. Cardinality(P \ {u}) = Cardinality(B) => P \ {u} = B
    BY <1>4, FS_Subset
  <2> QED
    BY <1>1, <1>3, <1>5, <2>1
<1>9. a = n <=> A = P
  <2>1. Cardinality(P) = Cardinality(A) => P = A
    BY <1>4, FS_Subset
  <2> QED
    BY <1>1, <1>3, <2>1
<1>10. ASSUME A = {u}, B # {}, B = P \ {u} PROVE Spans(P, f) /\ ~Spans(P, f2)
  <2>1. \A x \in P : f2[x] = to
    BY <1>2, <1>3, <1>10 DEF PinsAt
  <2>2. PICK y \in P : f[y] = to
    BY <1>3, <1>10 DEF PinsAt
  <2> QED
    BY <2>1, <2>2 DEF Spans
<1>11. ASSUME Spans(P, f), ~Spans(P, f2) PROVE A = {u} /\ B # {} /\ B = P \ {u}
  <2>1. \A x \in P : f2[x] = to
    BY <1>2, <1>11 DEF Spans
  <2>2. \A x \in P \ {u} : f[x] = to
    BY <1>2, <2>1
  <2>3. A = {u} /\ B = P \ {u}
    BY <1>3, <2>2 DEF PinsAt
  <2>4. PICK x \in P, y \in P : f[x] # f[y]
    BY <1>11 DEF Spans
  <2> QED
    BY <2>3, <2>4
<1>12. ASSUME A # {u}, A = P PROVE ~Spans(P, f) /\ Spans(P, f2)
  <2>1. \A x \in P : f[x] = from
    BY <1>3, <1>12 DEF PinsAt
  <2>2. PICK y \in P : y # u
    BY <1>12
  <2>3. f2[y] = from
    BY <1>2, <2>1, <2>2
  <2> QED
    BY <1>2, <2>1, <2>3 DEF Spans
<1>13. ASSUME ~Spans(P, f), Spans(P, f2) PROVE A # {u} /\ A = P /\ B = {}
  <2>1. \A x \in P : f[x] = from
    BY <1>13 DEF Spans
  <2>2. A = P /\ B = {}
    BY <1>3, <2>1 DEF PinsAt
  <2>3. PICK x \in P, y \in P : f2[x] # f2[y]
    BY <1>13 DEF Spans
  <2> QED
    BY <2>2, <2>3
<1>14. A = P => B = {}
  BY <1>3 DEF PinsAt
<1> QED
  BY <1>6, <1>7, <1>8, <1>9, <1>10, <1>11, <1>12, <1>13, <1>14

-----------------------------------------------------------------------------
(* The counts of all nets.                                                  *)
NetsCounted(h) ==
  /\ \A e \in h.live : NetCounted(h, e, pins(h, e), h.part)
  /\ \A e \in Nets \ h.live : h.connectivity[e] = 0 /\ h.connectivity_set[e] = {}

(* The nets of a well-formed hypergraph have finitely many pins.            *)
LEMMA PinsAreFinite ==
  ASSUME NEW h, WellFormed(h), NEW e \in h.live
  PROVE  e \in Nets /\ IsFiniteSet(pins(h, e)) /\ pins(h, e) \subseteq h.on /\ h.on \subseteq Nodes
<1>1. Holds(h, e, pins(h, e)) /\ pins(h, e) \subseteq h.on /\ e \in Nets /\ h.on \subseteq Nodes
  BY DEF WellFormed, NetsHold, Typed
<1> QED
  BY <1>1, HeldIsFinite

(* They are the nets of their pins.                                         *)
LEMMA NetsOfPins ==
  ASSUME NEW h, WellFormed(h), NEW w \in h.on
  PROVE  h.nets[w] \subseteq h.live /\ \A e \in h.live : e \in h.nets[w] <=> w \in pins(h, e)
BY DEF WellFormed, Incident

(* Removing nets, weighing them and bringing them back.                     *)
LEMMA RemovingKeepsCounts ==
  ASSUME NEW h, NetsCounted(h), NEW E, NEW g, EdgesGone(h, g, E), CountsRemoved(h, g, E), SameBlocks(h, g)
  PROVE  NetsCounted(g)
<1>1. g.live = h.live \ E /\ g.part = h.part
  BY DEF EdgesGone, SameBlocks
<1>2. \A e : pins(g, e) = pins(h, e)
  <2>1. g.slots = h.slots /\ g.size = h.size
    BY DEF EdgesGone
  <2> QED
    BY <2>1, SameNets
<1>3. g.live \subseteq Nets
  BY DEF EdgesGone, WellFormed, Typed
<1>4. ASSUME NEW e \in g.live PROVE NetCounted(g, e, pins(g, e), g.part)
  <2>1. e \in h.live /\ e \in Nets \ E
    BY <1>1, <1>3
  <2>2. NetSame(h, g, e)
    BY <2>1 DEF CountsRemoved, NetSame
  <2>3. NetCounted(h, e, pins(h, e), h.part)
    BY <2>1 DEF NetsCounted
  <2>4. NetCounted(g, e, pins(h, e), h.part)
    BY <2>2, <2>3, SameIsCounted
  <2> QED
    BY <1>1, <1>2, <2>4
<1>5. ASSUME NEW e \in Nets \ g.live PROVE g.connectivity[e] = 0 /\ g.connectivity_set[e] = {}
  <2>1. CASE e \in E
    BY <2>1 DEF CountsRemoved
  <2>2. CASE e \notin E
    BY <1>1, <2>2 DEF CountsRemoved, NetsCounted
  <2> QED
    BY <2>1, <2>2
<1> QED
  BY <1>4, <1>5 DEF NetsCounted

(* The same nets with the same counts.                                      *)
LEMMA SameKeepsCounts ==
  ASSUME NEW h, NetsCounted(h), NEW g, g.slots = h.slots, g.size = h.size, g.live = h.live, SameCounts(h, g),
         g.part = h.part
  PROVE  NetsCounted(g)
<1>1. \A e : pins(g, e) = pins(h, e)
  BY SameNets
<1>2. \A e : NetSame(h, g, e)
  BY DEF SameCounts, NetSame
<1>3. ASSUME NEW e \in g.live PROVE NetCounted(g, e, pins(g, e), g.part)
  <2>1. NetCounted(h, e, pins(h, e), h.part)
    BY DEF NetsCounted
  <2>2. NetCounted(g, e, pins(h, e), h.part)
    BY <1>2, <2>1, SameIsCounted
  <2> QED
    BY <1>1, <2>2
<1>4. \A e \in Nets \ g.live : g.connectivity[e] = 0 /\ g.connectivity_set[e] = {}
  BY <1>2 DEF NetsCounted, NetSame
<1> QED
  BY <1>3, <1>4 DEF NetsCounted

(* Nets that come back are counted.                                         *)
LEMMA RestoringKeepsCounts ==
  ASSUME NEW h, NetsCounted(h), NEW E, E \subseteq Nets \ h.live, NEW g, EdgesBack(h, g, E), CountsRestored(h, g, E),
         SameBlocks(h, g)
  PROVE  NetsCounted(g)
<1>1. g.live = h.live \cup E /\ g.part = h.part /\ WellFormed(g)
  BY DEF EdgesBack, SameBlocks
<1>2. \A e : pins(g, e) = pins(h, e)
  <2>1. g.slots = h.slots /\ g.size = h.size
    BY DEF EdgesBack
  <2> QED
    BY <2>1, SameNets
<1>3. g.live \subseteq Nets
  BY <1>1 DEF WellFormed, Typed
<1>4. ASSUME NEW e \in g.live, e \notin E PROVE NetCounted(g, e, pins(g, e), g.part)
  <2>1. e \in h.live /\ e \in Nets \ E
    BY <1>1, <1>3, <1>4
  <2>2. NetSame(h, g, e)
    BY <2>1 DEF CountsRestored, NetSame
  <2>3. NetCounted(h, e, pins(h, e), h.part)
    BY <2>1 DEF NetsCounted
  <2>4. NetCounted(g, e, pins(h, e), h.part)
    BY <2>2, <2>3, SameIsCounted
  <2> QED
    BY <1>1, <1>2, <2>4
<1>5. ASSUME NEW e \in E PROVE NetCounted(g, e, pins(g, e), g.part)
  <2>1. e \in Nets /\ e \in E \cap Nets /\ e \notin h.live /\ e \in g.live
    BY <1>1
  <2>2. PICK P, f : P = pins(h, e) /\ f = h.part
    OBVIOUS
  <2>3. IsFiniteSet(P)
    BY <1>1, <1>2, <2>1, <2>2, PinsAreFinite
  <2>4. \A p : PinsIn(h, e, p) = Cardinality(PinsAt(P, f, p))
    BY <2>2 DEF PinsIn, PinsAt
  <2>5. \A p : /\ Cardinality(PinsAt(P, f, p)) \in Nat
               /\ Cardinality(PinsAt(P, f, p)) = 0 <=> PinsAt(P, f, p) = {}
    BY <2>3, CountsAre
  <2>6. \A p : PinsIn(h, e, p) > 0 <=> PinsAt(P, f, p) # {}
    BY <2>4, <2>5
  <2>7. BlocksOf(h, e) = Spread(P, f)
    BY <2>6 DEF BlocksOf, Spread
  <2>8. g.pins_in_part[e] = Counts(P, f)
    BY <2>1, <2>4 DEF CountsRestored, Counts
  <2>9. h.connectivity[e] = 0 /\ h.connectivity_set[e] = {}
    BY <2>1 DEF NetsCounted
  <2>10. Cardinality(Spread(P, f)) \in Nat
    BY <2>3, CountsAre
  <2>11. g.connectivity[e] = Cardinality(Spread(P, f)) /\ g.connectivity_set[e] = Spread(P, f)
    BY <2>1, <2>7, <2>9, <2>10 DEF CountsRestored
  <2> QED
    BY <1>1, <1>2, <2>2, <2>8, <2>11 DEF NetCounted
<1>6. ASSUME NEW e \in Nets \ g.live PROVE g.connectivity[e] = 0 /\ g.connectivity_set[e] = {}
  BY <1>1 DEF CountsRestored, NetsCounted
<1> QED
  BY <1>4, <1>5, <1>6 DEF NetsCounted

(* A contraction of nodes of one block, or of none.                         *)
InBlockOrNone(h, u, v) == h.part[u] = h.part[v] /\ (h.part[v] \in Parts \/ h.part[v] = kInvalidPartition)

(* contract keeps the counts right.                                         *)
LEMMA ContractKeepsCounts ==
  ASSUME NEW h, WellFormed(h), NetsCounted(h), NEW u, NEW v, MayContract(h, u, v), InBlockOrNone(h, u, v),
         NEW g, After(h, g, u, v), InfoContracted(h, g, u, v)
  PROVE  NetsCounted(g)
<1>1. PICK f, q : f = h.part /\ q = f[v]
  OBVIOUS
<1>2. f[u] = f[v] /\ (q \in Parts \/ q = kInvalidPartition) /\ g.part = f
  BY <1>1 DEF InBlockOrNone, InfoContracted, SameBlocks
<1>3. u \in h.on /\ v \in h.on /\ u # v /\ g.live = h.live
  BY DEF MayContract, After
<1>4. PICK E : E = h.nets[v] \cap h.nets[u]
  OBVIOUS
<1>5. kInvalidPartition \notin Parts
  BY KHypergraphAssumption DEF kInvalidPartition, Parts
<1>6. ASSUME NEW e
      PROVE  (q \in Parts /\ Decremented(h, g, E, q)) \/ (q \notin Parts /\ NetSame(h, g, e))
  <2>1. CASE q \in Parts
    BY <1>1, <1>4, <1>5, <2>1 DEF InfoContracted
  <2>2. CASE q \notin Parts
    BY <1>1, <1>2, <2>2 DEF InfoContracted, SameCounts, NetSame
  <2> QED
    BY <2>1, <2>2
<1>7. ASSUME NEW e \in h.live PROVE NetCounted(g, e, pins(g, e), g.part)
  <2>1. PICK P, M : P = pins(h, e) /\ M = Merged(P, u, v)
    OBVIOUS
  <2>2. e \in Nets /\ IsFiniteSet(P)
    BY <2>1, PinsAreFinite
  <2>3. e \in E <=> Cut(P, u, v)
    BY <1>3, <1>4, <2>1, NetsOfPins DEF Cut
  <2>4. NetCounted(h, e, P, f)
    BY <1>1, <2>1 DEF NetsCounted
  <2>5. NetCounted(g, e, M, f)
    <3>1. \/ q \in Parts /\ Decremented(h, g, E, q)
          \/ q \notin Parts /\ NetSame(h, g, e)
      BY <1>6
    <3> QED
      BY <1>1, <1>2, <1>3, <2>1, <2>2, <2>3, <2>4, <3>1, ContractCounts
  <2>6. pins(g, e) = M
    <3>1. Holds(g, e, M)
      BY <2>1 DEF After, NetContracted
    <3> QED
      BY <3>1, PinsOfMerged
  <2> QED
    BY <1>2, <2>5, <2>6
<1>8. ASSUME NEW e \in Nets \ h.live PROVE g.connectivity[e] = 0 /\ g.connectivity_set[e] = {}
  <2>1. e \notin E
    BY <1>3, <1>4, NetsOfPins
  <2>2. NetSame(h, g, e)
    BY <1>6, <2>1, OutsideIsSame
  <2> QED
    BY <2>2 DEF NetsCounted, NetSame
<1> QED
  BY <1>3, <1>7, <1>8 DEF NetsCounted

(* So does a whole contraction with its removed nets.                       *)
LEMMA PushKeepsCounts ==
  ASSUME NEW h, WellFormed(h), NetsCounted(h), NEW u, NEW v, MayContract(h, u, v), InBlockOrNone(h, u, v),
         NEW f, NEW H, NEW H1, NEW m, Pushes(h, u, v, f, H, H1, m)
  PROVE  NetsCounted(f) /\ SameBlocks(h, f)
<1>1. PICK c, S, d, R, P, a : PushOps(h, u, v, c, S, d, R, P, a, f)
  BY DEF Pushes
<1>2. PushSteps(h, u, v, c, S, d, R, P, a, f)
  BY <1>1, PushIs
<1>3. IsHypergraph(h) /\ IsHypergraph(c) /\ IsHypergraph(d) /\ IsHypergraph(a)
  BY <1>2 DEF PushSteps, After, EdgesGone, Reweighted, WellFormed, Typed
<1>4. InfoContracted(h, c, u, v)
  <2>1. c = contract(h, u, v)
    BY <1>1 DEF PushOps
  <2> QED
    BY <1>3, <2>1, ContractInfo
<1>5. NetsCounted(c) /\ SameBlocks(h, c)
  <2>1. After(h, c, u, v)
    BY <1>2 DEF PushSteps
  <2>2. NetsCounted(c)
    BY <1>4, <2>1, ContractKeepsCounts
  <2> QED
    BY <1>4, <2>2 DEF InfoContracted
<1>6. NetsCounted(d) /\ SameBlocks(c, d)
  <2>1. d = removeEdges(c, S)
    BY <1>1 DEF PushOps
  <2>2. CountsRemoved(c, d, S) /\ SameRest(c, d)
    BY <1>3, <2>1, RemoveEdgesInfo
  <2>3. EdgesGone(c, d, S) /\ SameBlocks(c, d)
    BY <1>2, <2>2 DEF PushSteps, SameRest
  <2> QED
    BY <1>5, <2>2, <2>3, RemovingKeepsCounts
<1>7. NetsCounted(a) /\ SameBlocks(d, a)
  <2>1. a = AddToWeights(d, P, 1)
    BY <1>1 DEF PushOps
  <2>2. SameCounts(d, a) /\ SameBlocks(d, a)
    BY <1>3, <2>1, AddToWeightsInfo DEF SameRest
  <2>3. a.slots = d.slots /\ a.size = d.size /\ a.live = d.live /\ a.part = d.part
    BY <1>2, <2>2 DEF PushSteps, Reweighted, SameBlocks
  <2> QED
    BY <1>6, <2>2, <2>3, SameKeepsCounts
<1>8. NetsCounted(f) /\ SameBlocks(a, f)
  <2>1. f = removeEdges(a, RemovedNets(P))
    BY <1>1 DEF PushOps
  <2>2. PICK E : E = RemovedNets(P)
    OBVIOUS
  <2>3. CountsRemoved(a, f, E) /\ SameRest(a, f)
    BY <1>3, <2>1, <2>2, RemoveEdgesInfo
  <2>4. EdgesGone(a, f, E) /\ SameBlocks(a, f)
    BY <1>2, <2>2, <2>3 DEF PushSteps, SameRest
  <2> QED
    BY <1>7, <2>3, <2>4, RemovingKeepsCounts
<1> QED
  BY <1>5, <1>6, <1>7, <1>8 DEF SameBlocks

(* uncontract counts v in the block of u again.                             *)
Parting(h, g, u, v, P) ==
  /\ WellFormed(h) /\ u \in h.on /\ v \in Nodes \ h.on
  /\ (\A e \in h.live : Undoable(h, e, P[e], u, v)) /\ h.nets[v] = {e \in h.live : v \in P[e]}
  /\ Before(h, g, u, v, P) /\ InfoUncontracted(h, g, u, v)
  /\ h.part \in [Nodes -> Int] /\ h.part[u] \in Parts

(* The pins of the nets, before and after.                                  *)
LEMMA PartedNets ==
  ASSUME NEW h, NEW g, NEW u, NEW v, NEW P, Parting(h, g, u, v, P), NEW e \in h.live
  PROVE  /\ pins(h, e) = Merged(P[e], u, v) /\ pins(g, e) = P[e] /\ IsFiniteSet(P[e])
         /\ e \in CutOffPins(h, u, v) <=> Cut(P[e], u, v)
         /\ e \in ReusedSlots(h, u, v) <=> v \in P[e] /\ u \notin P[e]
         /\ u # v /\ u \in Nodes /\ v \in Nodes /\ v \notin Merged(P[e], u, v)
<1>1. u # v /\ u \in Nodes /\ v \in Nodes
  BY DEF Parting, WellFormed, Typed
<1>2. PICK Q : Q = P[e]
  OBVIOUS
<1>3. Undoable(h, e, Q, u, v)
  BY <1>2 DEF Parting
<1>4. pins(h, e) = Merged(Q, u, v) /\ IsFiniteSet(Q)
  BY <1>3, PinsOfMerged DEF Undoable
<1>5. pins(g, e) = Q
  <2>1. Holds(g, e, Q)
    BY <1>2 DEF Parting, Before, NetUncontracted
  <2> QED
    BY <2>1, PinsOfMerged
<1>6. e \in h.nets[u] <=> u \in Merged(Q, u, v)
  BY <1>4, NetsOfPins DEF Parting
<1>7. e \in h.nets[v] <=> v \in Q
  BY <1>2 DEF Parting
<1>8. /\ e \in CutOffPins(h, u, v) <=> Cut(Q, u, v)
      /\ e \in ReusedSlots(h, u, v) <=> v \in Q /\ u \notin Q
  BY <1>1, <1>3, <1>6, <1>7, SlotsTell
<1>9. v \notin Merged(Q, u, v)
  BY <1>1 DEF Merged
<1> QED
  BY <1>1, <1>2, <1>4, <1>5, <1>8, <1>9

(* It keeps the counts right, and no connectivity changes.                  *)
LEMMA UncontractKeepsCounts ==
  ASSUME NEW h, NEW g, NEW u, NEW v, NEW P, Parting(h, g, u, v, P), NetsCounted(h)
  PROVE  NetsCounted(g) /\ \A e \in Nets : g.connectivity[e] = h.connectivity[e]
<1>1. WellFormed(h) /\ u \in h.on /\ g.live = h.live /\ h.live \subseteq Nets
  BY DEF Parting, Before, WellFormed, Typed
<1>2. PICK f, f2 : f = h.part /\ f2 = g.part
  OBVIOUS
<1>3. f \in [Nodes -> Int] /\ f2 = [f EXCEPT ![v] = f[u]] /\ f[u] \in Parts
  BY <1>2 DEF Parting, InfoUncontracted, BackIn
<1>4. PICK q \in Parts : q = f[u]
  BY <1>3
<1>5. PICK E : E = CutOffPins(h, u, v)
  OBVIOUS
<1>6. Incremented(h, g, E, q)
  BY <1>2, <1>4, <1>5 DEF Parting, InfoUncontracted
<1>7. E \subseteq h.live
  BY <1>1, <1>5, NetsOfPins DEF CutOffPins
<1>8. ASSUME NEW e \in h.live PROVE NetCounted(g, e, pins(g, e), f2) /\ g.connectivity[e] = h.connectivity[e]
  <2>1. PICK Q, M : Q = P[e] /\ M = Merged(Q, u, v)
    OBVIOUS
  <2>2. /\ pins(h, e) = M /\ pins(g, e) = Q /\ IsFiniteSet(Q) /\ (e \in E <=> Cut(Q, u, v))
        /\ u # v /\ u \in Nodes /\ v \in Nodes /\ v \notin M
    BY <1>5, <2>1, PartedNets
  <2>3. M \subseteq Nodes
    BY <1>1, <2>2, PinsAreFinite
  <2>4. f2[u] = f2[v] /\ q = f2[v] /\ \A x \in M : f[x] = f2[x]
    BY <1>3, <1>4, <2>2, <2>3
  <2>5. NetCounted(h, e, M, f)
    BY <1>2, <2>2 DEF NetsCounted
  <2>6. NetCounted(h, e, M, f2)
    BY <2>4, <2>5, SameBlocksCounts
  <2>7. e \in Nets
    BY <1>1
  <2>8. NetCounted(g, e, Q, f2) /\ g.connectivity[e] = h.connectivity[e]
    BY <1>6, <2>1, <2>2, <2>4, <2>6, <2>7, UncontractCounts
  <2> QED
    BY <2>2, <2>8
<1>9. ASSUME NEW e \in Nets \ h.live PROVE NetSame(h, g, e)
  <2>1. e \notin E
    BY <1>7
  <2> QED
    BY <1>6, <2>1, OutsideIsSame
<1>10. \A e \in Nets \ g.live : g.connectivity[e] = 0 /\ g.connectivity_set[e] = {}
  BY <1>1, <1>9 DEF NetsCounted, NetSame
<1>11. \A e \in Nets : g.connectivity[e] = h.connectivity[e]
  BY <1>8, <1>9 DEF NetSame
<1>12. \A e \in g.live : NetCounted(g, e, pins(g, e), g.part)
  BY <1>1, <1>2, <1>8
<1> QED
  BY <1>10, <1>11, <1>12 DEF NetsCounted

-----------------------------------------------------------------------------
(* The numbers of incident cut nets.                                        *)
CutAt(h, w) == {e \in h.live : h.connectivity[e] > 1 /\ w \in pins(h, e)}
CutRight(h) == \A w \in Nodes : h.num_cut[w] = Cardinality(CutAt(h, w))

(* They are finitely many.                                                  *)
LEMMA CutAtIsFinite ==
  ASSUME NEW h, WellFormed(h), NEW w
  PROVE  IsFiniteSet(CutAt(h, w)) /\ Cardinality(CutAt(h, w)) \in Nat
<1>1. IsFiniteSet(h.live)
  BY LiveIsFinite DEF WellFormed
<1>2. CutAt(h, w) \in SUBSET h.live
  BY DEF CutAt
<1> QED
  BY <1>1, <1>2, FS_Subset, FS_CardinalityType

(* Disjoint sets.                                                           *)
LEMMA DisjointUnion ==
  ASSUME NEW A, IsFiniteSet(A), NEW B, IsFiniteSet(B), A \cap B = {}
  PROVE  Cardinality(A \cup B) = Cardinality(A) + Cardinality(B) /\ Cardinality(A) \in Nat /\ Cardinality(B) \in Nat
<1>1. Cardinality(A \cup B) = Cardinality(A) + Cardinality(B) - Cardinality(A \cap B)
  BY FS_Union
<1>2. Cardinality(A \cap B) = 0
  BY FS_EmptySet
<1>3. Cardinality(A) \in Nat /\ Cardinality(B) \in Nat
  BY FS_CardinalityType
<1> QED
  BY <1>1, <1>2, <1>3

(* Nets come back with the cut nets among them.                             *)
LEMMA RestoringKeepsCut ==
  ASSUME NEW h, WellFormed(h), CutRight(h), NEW E, E \subseteq Nets \ h.live, NEW g, EdgesBack(h, g, E),
         CountsRestored(h, g, E), NEW cut, cut = {e \in E : g.connectivity[e] > 1}, CutRestored(h, g, cut)
  PROVE  CutRight(g)
<1>1. g.live = h.live \cup E /\ WellFormed(g)
  BY DEF EdgesBack
<1>2. \A e : pins(g, e) = pins(h, e)
  <2>1. g.slots = h.slots /\ g.size = h.size
    BY DEF EdgesBack
  <2> QED
    BY <2>1, SameNets
<1>3. h.live \subseteq Nets
  BY DEF WellFormed, Typed
<1>4. \A e \in h.live : g.connectivity[e] = h.connectivity[e]
  BY <1>3 DEF CountsRestored
<1>5. ASSUME NEW w \in Nodes PROVE g.num_cut[w] = Cardinality(CutAt(g, w))
  <2>1. PICK A, B : A = CutAt(h, w) /\ B = {e \in cut : w \in pins(h, e)}
    OBVIOUS
  <2>2. CutAt(g, w) = A \cup B
    BY <1>1, <1>2, <1>4, <2>1 DEF CutAt
  <2>3. A \cap B = {}
    BY <2>1 DEF CutAt
  <2>4. IsFiniteSet(A) /\ IsFiniteSet(A \cup B)
    <3>1. IsFiniteSet(CutAt(h, w))
      BY CutAtIsFinite
    <3>2. IsFiniteSet(CutAt(g, w))
      BY <1>1, CutAtIsFinite
    <3> QED
      BY <2>1, <2>2, <3>1, <3>2
  <2>5. IsFiniteSet(B)
    <3>1. B \in SUBSET (A \cup B)
      OBVIOUS
    <3> QED
      BY <2>4, <3>1, FS_Subset
  <2>6. Cardinality(A \cup B) = Cardinality(A) + Cardinality(B)
    BY <2>3, <2>4, <2>5, DisjointUnion
  <2>7. g.num_cut[w] = h.num_cut[w] + Cardinality(B)
    BY <2>1 DEF CutRestored
  <2>8. h.num_cut[w] = Cardinality(A)
    BY <2>1 DEF CutRight
  <2> QED
    BY <2>2, <2>6, <2>7, <2>8
<1> QED
  BY <1>5 DEF CutRight

(* The same nets with the same connectivities.                              *)
LEMMA SameKeepsCut ==
  ASSUME NEW h, CutRight(h), NEW g, g.slots = h.slots, g.size = h.size, g.live = h.live,
         g.connectivity = h.connectivity, g.num_cut = h.num_cut
  PROVE  CutRight(g)
<1>1. \A e : pins(g, e) = pins(h, e)
  BY SameNets
<1>2. \A w : CutAt(g, w) = CutAt(h, w)
  BY <1>1 DEF CutAt
<1> QED
  BY <1>2 DEF CutRight

(* uncontract moves the cut nets of v from u to v, or adds them.            *)
LEMMA UncontractKeepsCut ==
  ASSUME NEW h, NEW g, NEW u, NEW v, NEW P, Parting(h, g, u, v, P), CutRight(h),
         \A e \in Nets : g.connectivity[e] = h.connectivity[e]
  PROVE  CutRight(g)
<1>1. WellFormed(h) /\ WellFormed(g) /\ u \in h.on /\ v \notin h.on /\ u # v /\ v \in Nodes /\ g.live = h.live /\ h.live \subseteq Nets
  BY DEF Parting, Before, WellFormed, Typed
<1>2. PICK CO, RE : CO = CutOffPins(h, u, v) /\ RE = ReusedSlots(h, u, v)
  OBVIOUS
<1>3. CO \subseteq h.live /\ RE \subseteq h.live
  BY <1>1, <1>2, NetsOfPins DEF CutOffPins, ReusedSlots
<1>4. \A e \in h.live : /\ pins(h, e) = Merged(P[e], u, v) /\ pins(g, e) = P[e]
                        /\ e \in CO <=> Cut(P[e], u, v)
                        /\ e \in RE <=> v \in P[e] /\ u \notin P[e]
  BY <1>2, PartedNets
<1>5. \A e \in h.live : g.connectivity[e] = h.connectivity[e]
  BY <1>1
<1>6. /\ \A w \in Nodes : w # u /\ w # v => g.num_cut[w] = h.num_cut[w]
      /\ u \in Nodes => g.num_cut[u] = h.num_cut[u] - CutIn(g, RE)
      /\ g.num_cut[v] = h.num_cut[v] + CutIn(g, CO \cup RE)
  BY <1>1, <1>2 DEF Parting, InfoUncontracted, CutUncontracted
<1>7. ASSUME NEW w \in Nodes, w # u, w # v PROVE g.num_cut[w] = Cardinality(CutAt(g, w))
  <2>1. CutAt(g, w) = CutAt(h, w)
    BY <1>1, <1>4, <1>5, <1>7 DEF CutAt, Merged
  <2> QED
    BY <1>6, <1>7, <2>1 DEF CutRight
<1>8. g.num_cut[v] = Cardinality(CutAt(g, v))
  <2>1. CutAt(h, v) = {}
    BY <1>1, <1>4 DEF CutAt, Merged
  <2>2. h.num_cut[v] = 0
    BY <1>1, <2>1, FS_EmptySet DEF CutRight
  <2>3. {e \in CO \cup RE : g.connectivity[e] > 1} = CutAt(g, v)
    <3>1. \A e \in h.live : e \in CO \cup RE <=> v \in pins(g, e)
      BY <1>4 DEF Cut
    <3> QED
      BY <1>1, <1>3, <3>1 DEF CutAt
  <2>4. CutIn(g, CO \cup RE) = Cardinality(CutAt(g, v))
    BY <2>3 DEF CutIn
  <2>5. Cardinality(CutAt(g, v)) \in Nat
    BY <1>1, CutAtIsFinite
  <2> QED
    BY <1>6, <2>2, <2>4, <2>5
<1>9. ASSUME u \in Nodes PROVE g.num_cut[u] = Cardinality(CutAt(g, u))
  <2>1. PICK A, B, X : A = CutAt(h, u) /\ B = CutAt(g, u) /\ X = {e \in RE : g.connectivity[e] > 1}
    OBVIOUS
  <2>2. A = B \cup X
    <3>1. \A e \in h.live : u \in pins(h, e) <=> u \in pins(g, e) \/ e \in RE
      BY <1>1, <1>4 DEF Merged
    <3> QED
      BY <1>1, <1>3, <1>5, <2>1, <3>1 DEF CutAt
  <2>3. B \cap X = {}
    BY <1>1, <1>4, <2>1 DEF CutAt
  <2>4. IsFiniteSet(A) /\ IsFiniteSet(B)
    BY <1>1, <2>1, CutAtIsFinite
  <2>5. IsFiniteSet(X)
    <3>1. X \in SUBSET A
      BY <2>2
    <3> QED
      BY <2>4, <3>1, FS_Subset
  <2>6. Cardinality(A) = Cardinality(B) + Cardinality(X) /\ Cardinality(B) \in Nat /\ Cardinality(X) \in Nat
    BY <2>2, <2>3, <2>4, <2>5, DisjointUnion
  <2>7. g.num_cut[u] = Cardinality(A) - Cardinality(X)
    BY <1>6, <1>9, <2>1 DEF CutRight, CutIn
  <2> QED
    BY <2>1, <2>6, <2>7
<1> QED
  BY <1>7, <1>8, <1>9 DEF CutRight

-----------------------------------------------------------------------------
(* A whole uncontraction.                                                   *)
Undoing(h, A, m, S, P, cut, c, a, s, g) ==
  /\ WellFormed(h) /\ UncontractedBy(h, A, m, S, P, c, a, s, g) /\ MergesOf(A, m, S, P)
  /\ PopOps(h, m, S, P, cut, c, a, s, g) /\ NetsCounted(h)
  /\ h.part \in [Nodes -> Int] /\ h.part[m.u] \in Parts

(* The nets that return have the pins of their representatives, or one pin. *)
LEMMA ReturningNets ==
  ASSUME NEW h, NEW A, NEW m, NEW S, NEW P, NEW cut, NEW c, NEW a, NEW s, NEW g,
         Undoing(h, A, m, S, P, cut, c, a, s, g)
  PROVE  /\ c.live = h.live \cup RemovedNets(P) /\ a.live = c.live /\ s.live = a.live \cup S /\ A.live = s.live
         /\ \A e : pins(c, e) = pins(h, e) /\ pins(a, e) = pins(h, e) /\ pins(s, e) = pins(h, e)
         /\ \A p \in P : pins(h, p.removed) = pins(h, p.representative) /\ p.representative \in h.live
         /\ \A e \in S : pins(h, e) = {m.u}
         /\ RemovedNets(P) \subseteq Nets \ h.live /\ S \subseteq Nets \ a.live
<1>1. /\ EdgesBack(h, c, RemovedNets(P)) /\ Reweighted(c, a, P, -1) /\ EdgesBack(a, s, S)
      /\ RemovedNets(P) \subseteq Nets \ h.live /\ S \subseteq Nets \ a.live /\ s.live = A.live
      /\ \A e \in A.live : pins(h, e) = Merged(A.pins[e], m.u, m.v)
      /\ \A p \in P : p.representative \in h.live
  BY DEF Undoing, UncontractedBy
<1>2. c.live = h.live \cup RemovedNets(P) /\ a.live = c.live /\ s.live = a.live \cup S
  BY <1>1 DEF EdgesBack, Reweighted
<1>3. \A e : pins(c, e) = pins(h, e)
  <2>1. c.slots = h.slots /\ c.size = h.size
    BY <1>1 DEF EdgesBack
  <2> QED
    BY <2>1, SameNets
<1>4. \A e : pins(a, e) = pins(c, e)
  <2>1. a.slots = c.slots /\ a.size = c.size
    BY <1>1 DEF Reweighted
  <2> QED
    BY <2>1, SameNets
<1>5. \A e : pins(s, e) = pins(a, e)
  <2>1. s.slots = a.slots /\ s.size = a.size
    BY <1>1 DEF EdgesBack
  <2> QED
    BY <2>1, SameNets
<1>6. \A p \in P : pins(h, p.removed) = pins(h, p.representative)
  <2> TAKE p \in P
  <2>1. p.removed \in A.live /\ p.representative \in A.live
    BY <1>1, <1>2 DEF RemovedNets
  <2>2. Merged(A.pins[p.removed], m.u, m.v) = Merged(A.pins[p.representative], m.u, m.v)
    BY DEF Undoing, MergesOf
  <2> QED
    BY <1>1, <2>1, <2>2
<1>7. \A e \in S : pins(h, e) = {m.u}
  <2> TAKE e \in S
  <2>1. e \in A.live
    BY <1>1, <1>2
  <2>2. Merged(A.pins[e], m.u, m.v) = {m.u}
    BY DEF Undoing, MergesOf
  <2> QED
    BY <1>1, <2>1, <2>2
<1> QED
  BY <1>1, <1>2, <1>3, <1>4, <1>5, <1>6, <1>7

(* Nets return counted, and the cut ones among those removed as parallel    *)
(* are those that the code takes for cut.                                   *)
Returned(h, c, P, cut) ==
  /\ NetsCounted(c) /\ SameBlocks(h, c) /\ CountsRestored(h, c, RemovedNets(P)) /\ CutRestored(h, c, cut)
  /\ cut = {e \in RemovedNets(P) : c.connectivity[e] > 1} /\ IsHypergraph(c)

(* Nets removed as parallel return so.                                      *)
LEMMA ParallelNetsReturn ==
  ASSUME NEW h, NEW A, NEW m, NEW S, NEW P, NEW cut, NEW c, NEW a, NEW s, NEW g,
         Undoing(h, A, m, S, P, cut, c, a, s, g)
  PROVE  Returned(h, c, P, cut) /\ (CutRight(h) => CutRight(c))
<1>1. WellFormed(h) /\ IsHypergraph(h) /\ NetsCounted(h)
  BY DEF Undoing, WellFormed, Typed
<1>2. EdgesBack(h, c, RemovedNets(P)) /\ IsHypergraph(c)
  BY DEF Undoing, UncontractedBy, EdgesBack, WellFormed, Typed
<1>3. c = restoreEdges(h, RemovedNets(P), cut) /\ cut = {p.removed : p \in {q \in P : h.connectivity[q.representative] > 1}}
  BY DEF Undoing, PopOps
<1>4. PICK E : E = RemovedNets(P)
  OBVIOUS
<1>5. cut \subseteq E /\ c = restoreEdges(h, E, cut) /\ EdgesBack(h, c, E)
  BY <1>2, <1>3, <1>4 DEF RemovedNets
<1>6. CountsRestored(h, c, E) /\ CutRestored(h, c, cut) /\ SameBlocks(h, c)
  BY <1>1, <1>5, RestoreEdgesInfo
<1>7. /\ c.live = h.live \cup E /\ E \subseteq Nets \ h.live /\ \A e : pins(c, e) = pins(h, e)
      /\ \A p \in P : pins(h, p.removed) = pins(h, p.representative) /\ p.representative \in h.live
  BY <1>4, ReturningNets
<1>8. NetsCounted(c)
  BY <1>1, <1>5, <1>6, <1>7, RestoringKeepsCounts
<1>9. \A p \in P : p.removed \in E /\ c.connectivity[p.removed] = h.connectivity[p.representative]
  <2> TAKE p \in P
  <2>1. p.removed \in E
    BY <1>4 DEF RemovedNets
  <2>2. NetCounted(c, p.removed, pins(c, p.removed), c.part)
    BY <1>7, <1>8, <2>1 DEF NetsCounted
  <2>3. NetCounted(h, p.representative, pins(h, p.representative), h.part)
    BY <1>1, <1>7 DEF NetsCounted
  <2>4. pins(c, p.removed) = pins(h, p.representative) /\ c.part = h.part
    BY <1>6, <1>7 DEF SameBlocks
  <2> QED
    BY <2>1, <2>2, <2>3, <2>4 DEF NetCounted
<1>10. cut = {e \in E : c.connectivity[e] > 1}
  BY <1>3, <1>4, <1>9 DEF RemovedNets
<1>11. CutRight(h) => CutRight(c)
  BY <1>1, <1>5, <1>6, <1>7, <1>10, RestoringKeepsCut
<1> QED
  BY <1>2, <1>4, <1>6, <1>8, <1>10, <1>11 DEF Returned

(* A net with one pin is in one block.                                      *)
LEMMA SingleSpread ==
  ASSUME NEW u, NEW f, f[u] \in Parts
  PROVE  Cardinality(Spread({u}, f)) = 1
<1>1. Spread({u}, f) = {f[u]}
  BY DEF Spread, PinsAt
<1>2. Cardinality({f[u]}) = 1
  BY FS_Singleton
<1> QED
  BY <1>1, <1>2

(* So no single-node net is cut.                                            *)
LEMMA SingleNetsReturn ==
  ASSUME NEW h, NEW A, NEW m, NEW S, NEW P, NEW cut, NEW c, NEW a, NEW s, NEW g,
         Undoing(h, A, m, S, P, cut, c, a, s, g)
  PROVE  NetsCounted(s) /\ SameBlocks(h, s) /\ IsHypergraph(s) /\ (CutRight(h) => CutRight(s))
<1>1. Returned(h, c, P, cut) /\ (CutRight(h) => CutRight(c))
  BY ParallelNetsReturn
<1>2. NetsCounted(c) /\ SameBlocks(h, c) /\ IsHypergraph(c)
  BY <1>1 DEF Returned
<1>3. a = AddToWeights(c, P, -1) /\ s = restoreEdges(a, S, {})
  BY DEF Undoing, PopOps
<1>4. SameCounts(c, a) /\ SameRest(c, a)
  BY <1>2, <1>3, AddToWeightsInfo
<1>5. Reweighted(c, a, P, -1) /\ EdgesBack(a, s, S)
  BY DEF Undoing, UncontractedBy
<1>6. WellFormed(a) /\ IsHypergraph(a) /\ IsHypergraph(s) /\ a.slots = c.slots /\ a.size = c.size /\ a.live = c.live
  BY <1>5 DEF Reweighted, EdgesBack, WellFormed, Typed
<1>7. a.part = c.part /\ a.num_cut = c.num_cut /\ a.connectivity = c.connectivity
  BY <1>4 DEF SameRest, SameBlocks, SameCounts
<1>8. NetsCounted(a)
  BY <1>2, <1>4, <1>6, <1>7, SameKeepsCounts
<1>9. CutRight(c) => CutRight(a)
  BY <1>6, <1>7, SameKeepsCut
<1>10. {} \subseteq S
  OBVIOUS
<1>11. CountsRestored(a, s, S) /\ CutRestored(a, s, {}) /\ SameBlocks(a, s)
  BY <1>3, <1>6, <1>10, RestoreEdgesInfo
<1>12. /\ s.live = a.live \cup S /\ S \subseteq Nets \ a.live
       /\ \A e \in S : pins(s, e) = {m.u}
  BY ReturningNets
<1>13. NetsCounted(s)
  BY <1>5, <1>8, <1>11, <1>12, RestoringKeepsCounts
<1>14. s.part = h.part /\ s.part_weight = h.part_weight
  BY <1>2, <1>4, <1>11 DEF SameRest, SameBlocks
<1>15. {} = {e \in S : s.connectivity[e] > 1}
  <2>1. ASSUME NEW e \in S PROVE s.connectivity[e] = 1
    <3>1. NetCounted(s, e, {m.u}, s.part)
      BY <1>12, <1>13 DEF NetsCounted
    <3>2. s.part[m.u] \in Parts
      BY <1>14 DEF Undoing
    <3>3. Cardinality(Spread({m.u}, s.part)) = 1
      BY <3>2, SingleSpread
    <3> QED
      BY <3>1, <3>3 DEF NetCounted
  <2> QED
    BY <2>1
<1>16. PICK none : none = {}
  OBVIOUS
<1>17. none = {e \in S : s.connectivity[e] > 1} /\ CutRestored(a, s, none)
  BY <1>11, <1>15, <1>16
<1>18. CutRight(a) => CutRight(s)
  BY <1>5, <1>6, <1>11, <1>12, <1>17, RestoringKeepsCut
<1> QED
  BY <1>1, <1>6, <1>9, <1>13, <1>14, <1>18 DEF SameBlocks

(* Then v is taken out of u.                                                *)
LEMMA UndoingKeepsCounts ==
  ASSUME NEW h, NEW A, NEW m, NEW S, NEW P, NEW cut, NEW c, NEW a, NEW s, NEW g,
         Undoing(h, A, m, S, P, cut, c, a, s, g)
  PROVE  /\ NetsCounted(g) /\ (CutRight(h) => CutRight(g))
         /\ g.part = With(h.part, m) /\ g.part_weight = h.part_weight
<1>1. NetsCounted(s) /\ SameBlocks(h, s) /\ IsHypergraph(s) /\ (CutRight(h) => CutRight(s))
  BY SingleNetsReturn
<1>2. PICK u, v, Q : u = m.u /\ v = m.v /\ Q = A.pins
  OBVIOUS
<1>3. g = uncontract(s, u, v)
  BY <1>2 DEF Undoing, PopOps
<1>4. InfoUncontracted(s, g, u, v)
  BY <1>1, <1>3, UncontractInfo
<1>5. s.part = h.part /\ s.part_weight = h.part_weight
  BY <1>1 DEF SameBlocks
<1>6. Parting(s, g, u, v, Q)
  <2>1. /\ u \in s.on /\ v \in Nodes \ s.on /\ Before(s, g, u, v, Q) /\ EdgesBack(a, s, S)
        /\ s.nets[v] = {e \in s.live : v \in Q[e]} /\ \A e \in s.live : Undoable(s, e, Q[e], u, v)
    BY <1>2 DEF Undoing, UncontractedBy
  <2>2. WellFormed(s)
    BY <2>1 DEF EdgesBack
  <2>3. s.part \in [Nodes -> Int] /\ s.part[u] \in Parts
    BY <1>2, <1>5 DEF Undoing
  <2> QED
    BY <1>4, <2>1, <2>2, <2>3 DEF Parting
<1>7. NetsCounted(g) /\ \A e \in Nets : g.connectivity[e] = s.connectivity[e]
  BY <1>1, <1>6, UncontractKeepsCounts
<1>8. CutRight(s) => CutRight(g)
  BY <1>6, <1>7, UncontractKeepsCut
<1>9. g.part = With(h.part, m) /\ g.part_weight = h.part_weight
  BY <1>2, <1>4, <1>5 DEF InfoUncontracted, BackIn, With
<1> QED
  BY <1>1, <1>7, <1>8, <1>9

(* An uncontraction of the multilevel scheme is one.                        *)
LEMMA PopKeepsCounts ==
  ASSUME NEW h, NEW H, NEW RS, NEW RP, NEW LV, LevelsInv(h, H, RS, RP, LV), MergesOK(H, RS, RP, LV), H # <<>>,
         NetsCounted(h), h.part \in [Nodes -> Int], Placed(h),
         NEW m, NEW S, NEW P, NEW cut, NEW c, NEW a, NEW s, NEW g,
         Pops(h, H, RS, RP, m, S, P, cut, c, a, s, g)
  PROVE  /\ NetsCounted(g) /\ (CutRight(h) => CutRight(g))
         /\ g.part = With(h.part, m) /\ g.part_weight = h.part_weight
         /\ \E A : Step(A, Structure(h), m, S, P) /\ Structure(g) = A
<1>1. WellFormed(h) /\ IsList(H)
  BY DEF LevelsInv
<1>2. PICK n \in Nat : n + 1 = Len(H)
  <2>1. Len(H) \in Nat /\ Len(H) > 0
    BY <1>1, ListLength
  <2>2. Len(H) - 1 \in Nat /\ (Len(H) - 1) + 1 = Len(H)
    BY <2>1
  <2> QED
    BY <2>2
<1>3. /\ m = H[n + 1] /\ S = Single(RS, m) /\ P = Parallel(RP, m)
      /\ LevelOK(LV[n + 1], h.fixed_part) /\ Structure(h) = LV[n + 2]
      /\ Kept(h, LV[n + 1], LV[n + 2], m, S, P)
      /\ UncontractedBy(h, LV[n + 1], m, S, P, c, a, s, g)
  BY <1>2, PopIs
<1>4. PICK A, B, fp : A = LV[n + 1] /\ B = LV[n + 2] /\ fp = h.fixed_part
  OBVIOUS
<1>5. MergesOf(A, m, S, P)
  <2>1. n + 1 \in 1 .. Len(H)
    BY <1>2
  <2> QED
    BY <1>3, <1>4, <2>1 DEF MergesOK
<1>6. UncontractedBy(h, A, m, S, P, c, a, s, g) /\ PopOps(h, m, S, P, cut, c, a, s, g)
  BY <1>3, <1>4 DEF Pops
<1>7. h.part[m.u] \in Parts
  <2>1. m.u \in h.on
    BY <1>6 DEF UncontractedBy
  <2> QED
    BY <2>1 DEF Placed
<1>8. Undoing(h, A, m, S, P, cut, c, a, s, g)
  BY <1>1, <1>5, <1>6, <1>7 DEF Undoing
<1>9. /\ NetsCounted(g) /\ (CutRight(h) => CutRight(g))
      /\ g.part = With(h.part, m) /\ g.part_weight = h.part_weight
  BY <1>8, UndoingKeepsCounts
<1>10. Step(A, B, m, S, P)
  <2>1. LevelOK(A, fp) /\ Coarser(A, B, m, S, P, fp)
    BY <1>3, <1>4 DEF Kept
  <2>2. LevelOK(B, fp)
    <3>1. PICK L : L = Structure(h)
      OBVIOUS
    <3>2. LevelOK(L, h.fixed_part)
      BY <1>1, <3>1, StructureIsLevel
    <3> QED
      BY <1>3, <1>4, <3>1, <3>2
  <2> QED
    BY <1>5, <2>1, <2>2 DEF Step
<1>11. Structure(g) = A
  <2>1. PICK L : L = Structure(h)
    OBVIOUS
  <2>2. LevelOK(A, h.fixed_part) /\ L = B /\ Coarser(A, L, m, S, P, h.fixed_part)
        /\ Hidden(h, A, m, S \cup RemovedNets(P))
    BY <1>3, <1>4, <2>1 DEF Kept
  <2>3. Uncoarsened(h, g, A)
    BY <1>1, <1>6, <2>1, <2>2, UncontractionIs
  <2> QED
    BY <2>3 DEF Uncoarsened
<1> QED
  BY <1>3, <1>4, <1>9, <1>10, <1>11

-----------------------------------------------------------------------------
(* A move of u to the block q, of a hypergraph with a partition.            *)
NodeMoved(h, g, u, p, q) ==
  /\ WellFormed(h) /\ NetsCounted(h) /\ h.part \in [Nodes -> Int] /\ \A w \in h.on : h.part[w] \in Parts
  /\ u \in h.on /\ p = h.part[u] /\ q \in Parts /\ q # p
  /\ g = changeNodePart(h, u, p, q)

(* What it does to a net of u, and to another.                              *)
MovedNet(h, g, u, q, P) ==
  /\ IsFiniteSet(P) /\ P \subseteq h.on /\ P \subseteq Nodes
  /\ MovedTo(h.part, g.part, u, q) /\ \A x \in P : h.part[x] \in Parts /\ g.part[x] \in Parts

(* What a move does.                                                        *)
LEMMA MovedIs ==
  ASSUME NEW h, NEW g, NEW u, NEW p, NEW q, NodeMoved(h, g, u, p, q)
  PROVE  /\ IsHypergraph(g) /\ SameStructure(h, g) /\ WellFormed(g) /\ Structure(g) = Structure(h)
         /\ Left(h, g, u, p, q) /\ CutMoved(h, g, u, p, q)
         /\ \E k : Decremented(h, k, h.nets[u], p) /\ Incremented(k, g, h.nets[u], q)
         /\ u \in Nodes /\ p \in Parts /\ h.live \subseteq Nets /\ h.on \subseteq Nodes
         /\ \A e : pins(g, e) = pins(h, e)
         /\ \A e \in h.live : (e \in h.nets[u] <=> u \in pins(h, e)) /\ MovedNet(h, g, u, q, pins(h, e))
<1>1. IsHypergraph(h) /\ u \in Nodes /\ p \in Parts /\ h.live \subseteq Nets /\ h.on \subseteq Nodes
  BY DEF NodeMoved, WellFormed, Typed
<1>2. g = changeNodePart(h, u, p, q)
  BY DEF NodeMoved
<1>3. IsHypergraph(g) /\ SameStructure(h, g)
  BY <1>1, <1>2, ChangeNodePartIs
<1>4. /\ Left(h, g, u, p, q) /\ CutMoved(h, g, u, p, q)
      /\ \E k : Decremented(h, k, h.nets[u], p) /\ Incremented(k, g, h.nets[u], q)
  BY <1>1, <1>2, ChangeNodePartInfo
<1>5. WellFormed(g) /\ Structure(g) = Structure(h)
  BY <1>3, PartitionKeepsLevels DEF NodeMoved
<1>6. \A e : pins(g, e) = pins(h, e)
  <2>1. g.slots = h.slots /\ g.size = h.size
    BY <1>3 DEF SameStructure
  <2> QED
    BY <2>1, SameNets
<1>7. ASSUME NEW e \in h.live
      PROVE  (e \in h.nets[u] <=> u \in pins(h, e)) /\ MovedNet(h, g, u, q, pins(h, e))
  <2>1. e \in h.nets[u] <=> u \in pins(h, e)
    BY NetsOfPins DEF NodeMoved
  <2>2. IsFiniteSet(pins(h, e)) /\ pins(h, e) \subseteq h.on /\ pins(h, e) \subseteq Nodes
    BY <1>1, PinsAreFinite DEF NodeMoved
  <2>3. MovedTo(h.part, g.part, u, q)
    BY <1>1, <1>4 DEF Left, MovedTo, NodeMoved
  <2>4. \A x \in pins(h, e) : h.part[x] \in Parts /\ g.part[x] \in Parts
    BY <2>2, <2>3 DEF MovedTo, NodeMoved
  <2> QED
    BY <2>1, <2>2, <2>3, <2>4 DEF MovedNet
<1> QED
  BY <1>1, <1>3, <1>4, <1>5, <1>6, <1>7

(* It keeps the counts of all nets.                                         *)
LEMMA MoveKeepsCounts ==
  ASSUME NEW h, NEW g, NEW u, NEW p, NEW q, NodeMoved(h, g, u, p, q)
  PROVE  NetsCounted(g)
<1>1. /\ u \in Nodes /\ p \in Parts /\ h.live \subseteq Nets /\ SameStructure(h, g)
      /\ \A e : pins(g, e) = pins(h, e)
      /\ \A e \in h.live : (e \in h.nets[u] <=> u \in pins(h, e)) /\ MovedNet(h, g, u, q, pins(h, e))
      /\ \E k : Decremented(h, k, h.nets[u], p) /\ Incremented(k, g, h.nets[u], q)
  BY MovedIs
<1>2. PICK k, E : E = h.nets[u] /\ Decremented(h, k, E, p) /\ Incremented(k, g, E, q)
  BY <1>1
<1>3. PICK f, f2 : f = h.part /\ f2 = g.part
  OBVIOUS
<1>4. g.live = h.live /\ NetsCounted(h) /\ u \in h.on /\ p = f[u] /\ q \in Parts /\ q # p
  BY <1>1, <1>3 DEF SameStructure, NodeMoved
<1>5. ASSUME NEW e \in Nets, e \notin E PROVE NetSame(h, g, e)
  <2>1. NetSame(h, k, e)
    BY <1>2, <1>5, OutsideIsSame
  <2>2. NetSame(k, g, e)
    BY <1>2, <1>5, OutsideIsSame
  <2> QED
    BY <2>1, <2>2 DEF NetSame
<1>6. ASSUME NEW e \in h.live PROVE NetCounted(g, e, pins(g, e), f2)
  <2>1. PICK P : P = pins(h, e)
    OBVIOUS
  <2>2. (e \in E <=> u \in P) /\ MovedNet(h, g, u, q, P) /\ pins(g, e) = P /\ e \in Nets
    BY <1>1, <1>2, <2>1
  <2>3. IsFiniteSet(P) /\ P \subseteq Nodes /\ MovedTo(f, f2, u, q)
    BY <1>3, <2>2 DEF MovedNet
  <2>4. NetCounted(h, e, P, f)
    BY <1>3, <1>4, <2>1 DEF NetsCounted
  <2>5. CASE e \in E
    <3>1. NetCounted(g, e, P, f2)
      BY <1>1, <1>2, <1>4, <2>2, <2>3, <2>4, <2>5, MovedCounts
    <3> QED
      BY <2>2, <3>1
  <2>6. CASE e \notin E
    <3>1. NetCounted(g, e, P, f)
      BY <1>5, <2>2, <2>4, <2>6, SameIsCounted
    <3>2. \A x \in P : f[x] = f2[x]
      BY <2>2, <2>3, <2>6 DEF MovedTo
    <3>3. NetCounted(g, e, P, f2)
      BY <3>1, <3>2, SameBlocksCounts
    <3> QED
      BY <2>2, <3>3
  <2> QED
    BY <2>5, <2>6
<1>7. ASSUME NEW e \in Nets \ h.live PROVE g.connectivity[e] = 0 /\ g.connectivity_set[e] = {}
  <2>1. e \notin E
    BY <1>2, NetsOfPins DEF NodeMoved
  <2>2. NetSame(h, g, e)
    BY <1>5, <2>1
  <2> QED
    BY <1>4, <2>2 DEF NetSame, NetsCounted
<1> QED
  BY <1>3, <1>4, <1>6, <1>7 DEF NetsCounted

(* Its nets leave and enter the cut as the counts tell.                     *)
LEMMA MovedNetsCut ==
  ASSUME NEW h, NEW g, NEW u, NEW p, NEW q, NodeMoved(h, g, u, p, q), NEW e \in h.live
  PROVE  /\ e \in BecameInternal(h, u, p, q) <=> h.connectivity[e] > 1 /\ ~(g.connectivity[e] > 1)
         /\ e \in BecameCut(h, u, p, q) <=> ~(h.connectivity[e] > 1) /\ g.connectivity[e] > 1
<1>1. /\ u \in Nodes /\ p \in Parts /\ h.live \subseteq Nets /\ SameStructure(h, g)
      /\ \A x : pins(g, x) = pins(h, x)
      /\ (e \in h.nets[u] <=> u \in pins(h, e)) /\ MovedNet(h, g, u, q, pins(h, e))
  BY MovedIs
<1>2. NetsCounted(g)
  BY MoveKeepsCounts
<1>3. PICK P, f, f2 : P = pins(h, e) /\ f = h.part /\ f2 = g.part
  OBVIOUS
<1>4. NetCounted(h, e, P, f) /\ p = f[u] /\ q \in Parts /\ q # p
  BY <1>3 DEF NodeMoved, NetsCounted
<1>5. NetCounted(g, e, P, f2)
  BY <1>1, <1>2, <1>3 DEF NetsCounted, SameStructure
<1>6. IsFiniteSet(P) /\ P \subseteq Nodes /\ MovedTo(f, f2, u, q) /\ \A x \in P : f[x] \in Parts /\ f2[x] \in Parts
  BY <1>1, <1>3 DEF MovedNet
<1>7. h.connectivity[e] > 1 <=> Spans(P, f)
  BY <1>4, <1>6, SpansIs DEF NetCounted
<1>8. g.connectivity[e] > 1 <=> Spans(P, f2)
  BY <1>5, <1>6, SpansIs DEF NetCounted
<1>9. CASE u \in P
  <2>1. PICK a, b, n : a = Cardinality(PinsAt(P, f, p)) /\ b = Cardinality(PinsAt(P, f, q)) /\ n = Cardinality(P)
    OBVIOUS
  <2>2. h.pins_in_part[e][p] = a /\ h.pins_in_part[e][q] = b
    BY <1>1, <1>4, <2>1 DEF NetCounted, Counts
  <2>3. h.size[e] = n
    <3>1. Holds(h, e, P)
      BY <1>3 DEF NodeMoved, WellFormed, NetsHold
    <3> QED
      BY <2>1, <3>1 DEF Holds
  <2>4. /\ a = 1 /\ b # 0 /\ b + 1 = n <=> Spans(P, f) /\ ~Spans(P, f2)
        /\ a # 1 /\ b = 0 /\ a = n <=> ~Spans(P, f) /\ Spans(P, f2)
    BY <1>4, <1>6, <1>9, <2>1, CutChanges
  <2>5. e \in h.nets[u]
    BY <1>1, <1>3, <1>9
  <2>6. e \in BecameInternal(h, u, p, q) <=> a = 1 /\ b # 0 /\ b + 1 = n
    BY <2>2, <2>3, <2>5 DEF BecameInternal
  <2>7. e \in BecameCut(h, u, p, q) <=> a # 1 /\ b = 0 /\ a = n
    BY <2>2, <2>3, <2>5 DEF BecameCut
  <2> QED
    BY <1>7, <1>8, <2>4, <2>6, <2>7
<1>10. CASE u \notin P
  <2>1. e \notin BecameInternal(h, u, p, q) /\ e \notin BecameCut(h, u, p, q)
    BY <1>1, <1>3, <1>10 DEF BecameInternal, BecameCut
  <2>2. \A x \in P : f[x] = f2[x]
    BY <1>6, <1>10 DEF MovedTo
  <2>3. Spans(P, f) <=> Spans(P, f2)
    BY <2>2 DEF Spans
  <2> QED
    BY <1>7, <1>8, <2>1, <2>3
<1> QED
  BY <1>9, <1>10

(* So it keeps the numbers of incident cut nets.                            *)
LEMMA MoveKeepsCut ==
  ASSUME NEW h, NEW g, NEW u, NEW p, NEW q, NodeMoved(h, g, u, p, q), CutRight(h)
  PROVE  CutRight(g)
<1>1. /\ CutMoved(h, g, u, p, q) /\ SameStructure(h, g) /\ \A e : pins(g, e) = pins(h, e)
      /\ WellFormed(g) /\ WellFormed(h) /\ u \in h.on
  BY MovedIs DEF NodeMoved
<1>2. PICK C, I : C = BecameCut(h, u, p, q) /\ I = BecameInternal(h, u, p, q)
  OBVIOUS
<1>3. C \subseteq h.live /\ I \subseteq h.live
  BY <1>1, <1>2, NetsOfPins DEF BecameCut, BecameInternal
<1>4. \A e \in h.live : /\ e \in I <=> h.connectivity[e] > 1 /\ ~(g.connectivity[e] > 1)
                        /\ e \in C <=> ~(h.connectivity[e] > 1) /\ g.connectivity[e] > 1
  BY <1>2, MovedNetsCut
<1>5. g.live = h.live
  BY <1>1 DEF SameStructure
<1>6. ASSUME NEW w \in Nodes PROVE g.num_cut[w] = Cardinality(CutAt(g, w))
  <2>1. PICK A, B, X, Y : A = CutAt(h, w) /\ B = CutAt(g, w) /\ X = PinsOfNets(h, w, I) /\ Y = PinsOfNets(h, w, C)
    OBVIOUS
  <2>2. \A e \in X \cup Y : e \in h.live /\ w \in pins(h, e)
    BY <1>3, <2>1 DEF PinsOfNets
  <2>3. \A e \in h.live : /\ e \in A <=> h.connectivity[e] > 1 /\ w \in pins(h, e)
                          /\ e \in B <=> g.connectivity[e] > 1 /\ w \in pins(h, e)
                          /\ e \in X <=> e \in I /\ w \in pins(h, e)
                          /\ e \in Y <=> e \in C /\ w \in pins(h, e)
    BY <1>1, <1>5, <2>1 DEF CutAt, PinsOfNets
  <2>4. A \subseteq h.live /\ B \subseteq h.live
    BY <1>5, <2>1 DEF CutAt
  <2>5. PICK D : D = A \cap B
    OBVIOUS
  <2>6. A = D \cup X /\ D \cap X = {} /\ B = D \cup Y /\ D \cap Y = {}
    BY <1>4, <2>2, <2>3, <2>4, <2>5
  <2>7. IsFiniteSet(A) /\ IsFiniteSet(B)
    <3>1. IsFiniteSet(CutAt(h, w))
      BY <1>1, CutAtIsFinite
    <3>2. IsFiniteSet(CutAt(g, w))
      BY <1>1, CutAtIsFinite
    <3> QED
      BY <2>1, <3>1, <3>2
  <2>8. IsFiniteSet(D) /\ IsFiniteSet(X) /\ IsFiniteSet(Y)
    <3>1. D \in SUBSET A /\ X \in SUBSET A /\ Y \in SUBSET B
      BY <2>6
    <3> QED
      BY <2>7, <3>1, FS_Subset
  <2>9. Cardinality(A) = Cardinality(D) + Cardinality(X) /\ Cardinality(D) \in Nat /\ Cardinality(X) \in Nat
    BY <2>6, <2>8, DisjointUnion
  <2>10. Cardinality(B) = Cardinality(D) + Cardinality(Y) /\ Cardinality(Y) \in Nat
    BY <2>6, <2>8, DisjointUnion
  <2>11. h.num_cut[w] = Cardinality(A)
    BY <2>1 DEF CutRight
  <2>12. g.num_cut[w] = h.num_cut[w] + (Cardinality(Y) - Cardinality(X))
    BY <1>1, <1>2, <2>1 DEF CutMoved
  <2> QED
    BY <2>1, <2>9, <2>10, <2>11, <2>12
<1> QED
  BY <1>6 DEF CutRight

-----------------------------------------------------------------------------
(* The weights of the blocks.                                               *)
WeightsRight(h) == \A p \in Parts : h.part_weight[p] = WeightOf(Structure(h), h.part, p)

(* The same nodes in the same blocks.                                       *)
LEMMA SameKeepsWeights ==
  ASSUME NEW h, WeightsRight(h), NEW g, SameBlocks(h, g), Structure(g) = Structure(h)
  PROVE  WeightsRight(g)
BY DEF WeightsRight, SameBlocks

(* The weight of a block of a hypergraph is that of its nodes.              *)
LEMMA BlockWeighs ==
  ASSUME NEW h, WellFormed(h), NEW f, NEW p
  PROVE  /\ WeightOf(Structure(h), f, p) = SumOver(h.weight, NodesIn(h, f, p))
         /\ IsFiniteSet(NodesIn(h, f, p)) /\ \A w \in NodesIn(h, f, p) : h.weight[w] \in Int
<1>1. PICK L, N : L = Structure(h) /\ N = NodesIn(h, f, p)
  OBVIOUS
<1>2. L.on = h.on /\ L.weight = [w \in h.on |-> h.weight[w]]
  BY <1>1, StructureIs
<1>3. h.on \subseteq Nodes /\ h.weight \in [Nodes -> Int] /\ N \subseteq h.on
  BY <1>1 DEF WellFormed, Typed, NodesIn
<1>4. IsFiniteSet(N)
  <2>1. N \in SUBSET Nodes
    BY <1>3
  <2> QED
    BY <2>1, KHypergraphAssumption, FS_Subset
<1>5. NodesOf(L, f, p) = N
  BY <1>1, <1>2 DEF NodesOf, NodesIn
<1>6. WeightOf(L, f, p) = SumOver(L.weight, N)
  BY <1>5, WeightOfIsSum
<1>7. \A w \in N : L.weight[w] = h.weight[w]
  BY <1>2, <1>3
<1>8. SumOver(L.weight, N) = SumOver(h.weight, N)
  BY <1>4, <1>7, SumSame
<1> QED
  BY <1>1, <1>3, <1>4, <1>6, <1>8

(* A contraction of nodes of one block, or of none.                         *)
LEMMA PushIsStep ==
  ASSUME NEW h, WellFormed(h), NEW u, NEW v, MayContract(h, u, v),
         NEW f, NEW H, NEW H1, NEW m, Pushes(h, u, v, f, H, H1, m)
  PROVE  WellFormed(f) /\ \E S, P : Step(Structure(h), Structure(f), m, S, P)
<1>1. PICK c, S, d, R, P, a : PushOps(h, u, v, c, S, d, R, P, a, f)
  BY DEF Pushes
<1>2. m.u = u /\ m.v = v
  BY DEF Pushes
<1>3. PushSteps(h, u, v, c, S, d, R, P, a, f)
  BY <1>1, PushIs
<1>4. Coarsened(h, f, u, v, S, P)
  BY <1>3 DEF PushSteps
<1>5. WellFormed(f) /\ f.fixed_part = h.fixed_part
  BY <1>4 DEF Coarsened
<1>6. PICK A, B, fp : A = Structure(h) /\ B = Structure(f) /\ fp = f.fixed_part
  OBVIOUS
<1>7. LevelOK(A, fp)
  <2>1. LevelOK(A, h.fixed_part)
    BY <1>6, StructureIsLevel
  <2> QED
    BY <1>5, <1>6, <2>1
<1>8. LevelOK(B, fp)
  BY <1>5, <1>6, StructureIsLevel
<1>9. Coarser(A, B, m, S, P, fp)
  <2>1. /\ u \in h.on /\ v \in h.on /\ u # v
        /\ isFixedVertex(h, v) => h.fixed_part[u] = h.fixed_part[v]
    BY DEF MayContract
  <2>2. Coarser(A, B, m, S, P, f.fixed_part)
    BY <1>2, <1>4, <1>6, <2>1, ContractionIsCoarser
  <2> QED
    BY <1>6, <2>2
<1>10. MergesOf(A, m, S, P)
  BY <1>1, <1>2, <1>6, PushMerges
<1>11. Step(A, B, m, S, P)
  BY <1>7, <1>8, <1>9, <1>10 DEF Step
<1> QED
  BY <1>5, <1>6, <1>11

(* The blocks keep their weights.                                           *)
LEMMA PushKeepsWeights ==
  ASSUME NEW h, WellFormed(h), WeightsRight(h), NEW u, NEW v, MayContract(h, u, v), h.part[u] = h.part[v],
         h.part \in [Nodes -> Int], NEW f, NEW H, NEW H1, NEW m, Pushes(h, u, v, f, H, H1, m), SameBlocks(h, f)
  PROVE  WeightsRight(f)
<1>1. PICK S, P : Step(Structure(h), Structure(f), m, S, P)
  BY PushIsStep
<1>2. PICK A, B, x : A = Structure(h) /\ B = Structure(f) /\ x = h.part
  OBVIOUS
<1>3. Step(A, B, m, S, P) /\ x \in [Nodes -> Int]
  BY <1>1, <1>2
<1>4. x = With(x, m)
  <2>1. m.u = u /\ m.v = v
    BY DEF Pushes
  <2> QED
    BY <1>2, <2>1 DEF With
<1>5. \A p : WeightOf(B, x, p) = WeightOf(A, x, p)
  BY <1>3, <1>4, StepKeepsWeights
<1> QED
  BY <1>2, <1>5 DEF WeightsRight, SameBlocks

(* An uncontraction.                                                        *)
LEMMA PopKeepsWeights ==
  ASSUME NEW h, WeightsRight(h), h.part \in [Nodes -> Int], NEW m, NEW S, NEW P, NEW A,
         Step(A, Structure(h), m, S, P), NEW g, Structure(g) = A, g.part = With(h.part, m), g.part_weight = h.part_weight
  PROVE  WeightsRight(g)
<1>1. PICK B, x, y : B = Structure(h) /\ x = h.part /\ y = g.part
  OBVIOUS
<1>2. Step(A, B, m, S, P) /\ x \in [Nodes -> Int] /\ y = With(x, m)
  BY <1>1
<1>3. \A p : WeightOf(B, x, p) = WeightOf(A, y, p)
  BY <1>2, StepKeepsWeights
<1> QED
  BY <1>1, <1>3 DEF WeightsRight

(* A move.                                                                  *)
LEMMA MoveKeepsWeights ==
  ASSUME NEW h, NEW g, NEW u, NEW p, NEW q, NodeMoved(h, g, u, p, q), WeightsRight(h)
  PROVE  WeightsRight(g)
<1>1. Left(h, g, u, p, q) /\ Structure(g) = Structure(h) /\ WellFormed(h) /\ p \in Parts
  BY MovedIs DEF NodeMoved
<1>2. u \in h.on /\ u \in Nodes /\ h.part \in [Nodes -> Int] /\ p = h.part[u] /\ q \in Parts /\ q # p
  BY MovedIs DEF NodeMoved
<1>3. PICK f, f2, w : f = h.part /\ f2 = g.part /\ w = h.weight
  OBVIOUS
<1>4. f2 = [f EXCEPT ![u] = q] /\ f \in [Nodes -> Int]
  BY <1>1, <1>2, <1>3 DEF Left
<1>5. h.on \subseteq Nodes /\ w[u] \in Int
  BY <1>1, <1>2, <1>3 DEF WellFormed, Typed
<1>6. ASSUME NEW b \in Parts PROVE g.part_weight[b] = WeightOf(Structure(g), f2, b)
  <2>1. PICK X, Y : X = NodesIn(h, f, b) /\ Y = NodesIn(h, f2, b)
    OBVIOUS
  <2>2. WeightOf(Structure(h), f, b) = SumOver(w, X) /\ IsFiniteSet(X) /\ \A x \in X : w[x] \in Int
    BY <1>1, <1>3, <2>1, BlockWeighs
  <2>3. WeightOf(Structure(h), f2, b) = SumOver(w, Y) /\ IsFiniteSet(Y) /\ \A x \in Y : w[x] \in Int
    BY <1>1, <1>3, <2>1, BlockWeighs
  <2>4. h.part_weight[b] = SumOver(w, X)
    BY <1>3, <2>2 DEF WeightsRight
  <2>5. SumOver(w, X) \in Int /\ SumOver(w, Y) \in Int
    BY <2>2, <2>3, SumType
  <2>6. CASE b = p
    <3>1. X \ {u} = Y /\ u \in X
      BY <1>2, <1>3, <1>4, <1>5, <2>1, <2>6 DEF NodesIn
    <3>2. SumOver(w, X) = w[u] + SumOver(w, X \ {u})
      BY <2>2, <3>1, SumAny
    <3>3. g.part_weight[b] = h.part_weight[b] - w[u]
      BY <1>1, <1>3, <2>6 DEF Left
    <3>4. SumOver(w, X) = w[u] + SumOver(w, Y)
      BY <3>1, <3>2
    <3>5. g.part_weight[b] = SumOver(w, Y)
      BY <1>5, <2>4, <2>5, <3>3, <3>4
    <3> QED
      BY <1>1, <2>3, <3>5
  <2>7. CASE b = q
    <3>1. Y = X \cup {u} /\ u \notin X
      BY <1>2, <1>3, <1>4, <1>5, <2>1, <2>7 DEF NodesIn
    <3>2. SumOver(w, X \cup {u}) = w[u] + SumOver(w, X)
      BY <1>5, <2>2, <3>1, SumAdd
    <3>3. g.part_weight[b] = h.part_weight[b] + w[u]
      BY <1>1, <1>2, <1>3, <2>7 DEF Left
    <3>4. SumOver(w, Y) = w[u] + SumOver(w, X)
      BY <3>1, <3>2
    <3>5. g.part_weight[b] = SumOver(w, Y)
      BY <1>5, <2>4, <2>5, <3>3, <3>4
    <3> QED
      BY <1>1, <2>3, <3>5
  <2>8. CASE b # p /\ b # q
    <3>1. Y = X
      BY <1>2, <1>3, <1>4, <1>5, <2>1, <2>8 DEF NodesIn
    <3>2. g.part_weight[b] = h.part_weight[b]
      BY <1>1, <2>8 DEF Left
    <3> QED
      BY <1>1, <2>3, <2>4, <3>1, <3>2
  <2> QED
    BY <2>6, <2>7, <2>8
<1> QED
  BY <1>3, <1>6 DEF WeightsRight

-----------------------------------------------------------------------------
(* A hypergraph without a partition, whose counts are zero.                 *)
Unplaced(h) == \A w \in Nodes : h.part[w] = kInvalidPartition

(* Nodes without a block are counted nowhere.                               *)
LEMMA NoSpread ==
  ASSUME NEW P, NEW f, \A x \in P : f[x] = kInvalidPartition
  PROVE  Counts(P, f) = [p \in Parts |-> 0] /\ Spread(P, f) = {} /\ Cardinality(Spread(P, f)) = 0
<1>1. kInvalidPartition \notin Parts
  BY KHypergraphAssumption DEF kInvalidPartition, Parts
<1>2. \A p \in Parts : PinsAt(P, f, p) = {}
  BY <1>1 DEF PinsAt
<1>3. \A p \in Parts : Cardinality(PinsAt(P, f, p)) = 0
  BY <1>2, FS_EmptySet
<1>4. Counts(P, f) = [p \in Parts |-> 0]
  BY <1>3 DEF Counts
<1>5. Spread(P, f) = {}
  BY <1>2 DEF Spread
<1> QED
  BY <1>4, <1>5, FS_EmptySet

(* reset makes such a hypergraph.                                           *)
LEMMA ResetIsCounted ==
  ASSUME NEW h, WellFormed(h), NEW g, g = reset(h)
  PROVE  WellFormed(g) /\ NetsCounted(g) /\ WeightsRight(g) /\ Unplaced(g) /\ g.part \in [Nodes -> Int]
         /\ Structure(g) = Structure(h)
<1>1. IsHypergraph(h)
  BY DEF WellFormed, Typed
<1>2. IsReset(h, g)
  BY <1>1, ResetInfo
<1>3. PartitionOnly(h, g)
  BY <1>1, PartitionOperations
<1>4. WellFormed(g) /\ Structure(g) = Structure(h)
  BY <1>3, PartitionKeepsLevels DEF PartitionOnly
<1>5. Unplaced(g) /\ g.part \in [Nodes -> Int]
  BY <1>2 DEF IsReset, Unplaced, kInvalidPartition
<1>6. \A e \in g.live : e \in Nets /\ pins(g, e) \subseteq Nodes
  BY <1>4, PinsAreFinite
<1>7. ASSUME NEW e \in g.live PROVE NetCounted(g, e, pins(g, e), g.part)
  <2>1. \A x \in pins(g, e) : g.part[x] = kInvalidPartition
    BY <1>5, <1>6 DEF Unplaced
  <2>2. /\ Counts(pins(g, e), g.part) = [p \in Parts |-> 0] /\ Spread(pins(g, e), g.part) = {}
        /\ Cardinality(Spread(pins(g, e), g.part)) = 0
    BY <2>1, NoSpread
  <2> QED
    BY <1>2, <1>6, <2>2 DEF NetCounted, IsReset
<1>8. NetsCounted(g)
  BY <1>2, <1>7 DEF NetsCounted, IsReset
<1>9. ASSUME NEW p \in Parts PROVE g.part_weight[p] = WeightOf(Structure(g), g.part, p)
  <2>1. kInvalidPartition \notin Parts
    BY KHypergraphAssumption DEF kInvalidPartition, Parts
  <2>2. NodesIn(g, g.part, p) = {}
    BY <1>4, <1>5, <2>1 DEF NodesIn, Unplaced, WellFormed, Typed
  <2>3. WeightOf(Structure(g), g.part, p) = SumOver(g.weight, NodesIn(g, g.part, p))
    BY <1>4, BlockWeighs
  <2> QED
    BY <1>2, <2>2, <2>3, SumEmpty DEF IsReset
<1> QED
  BY <1>4, <1>5, <1>8, <1>9 DEF WeightsRight

(* A partition assigned to such a hypergraph is counted.                    *)
LEMMA AssignedIsCounted ==
  ASSUME NEW h, WellFormed(h), NetsCounted(h), WeightsRight(h), Unplaced(h), h.part \in [Nodes -> Int],
         NEW part, NEW g, g = AssignParts(h, part)
  PROVE  WellFormed(g) /\ NetsCounted(g) /\ WeightsRight(g) /\ Structure(g) = Structure(h)
<1>1. IsHypergraph(h)
  BY DEF WellFormed, Typed
<1>2. Assigned(h, g, part) /\ CountsAssigned(h, g, part)
  BY <1>1, AssignPartsInfo
<1>3. PartitionOnly(h, g)
  BY <1>1, PartitionOperations
<1>4. WellFormed(g) /\ Structure(g) = Structure(h)
  BY <1>3, PartitionKeepsLevels DEF PartitionOnly
<1>5. g.on = h.on /\ g.live = h.live /\ g.slots = h.slots /\ g.size = h.size /\ g.nets = h.nets
  BY <1>3 DEF PartitionOnly, SameStructure
<1>6. h.on \subseteq Nodes /\ h.live \subseteq Nets
  BY DEF WellFormed, Typed
<1>7. \A w \in h.on : g.part[w] = part[w]
  BY <1>2, <1>6 DEF Assigned
<1>8. \A e : pins(g, e) = pins(h, e)
  BY <1>5, SameNets
<1>9. ASSUME NEW e \in h.live PROVE NetCounted(g, e, pins(g, e), g.part)
  <2>1. PICK P, f : P = pins(h, e) /\ f = g.part
    OBVIOUS
  <2>2. e \in Nets /\ IsFiniteSet(P) /\ P \subseteq h.on
    BY <2>1, PinsAreFinite
  <2>3. \A w \in h.on : e \in h.nets[w] <=> w \in P
    BY <2>1, NetsOfPins
  <2>4. ASSUME NEW p PROVE AssignedPins(h, part, e, p) = Cardinality(PinsAt(P, f, p))
    <3>1. {w \in h.on : e \in h.nets[w] /\ part[w] = p} = PinsAt(P, f, p)
      BY <1>7, <2>1, <2>2, <2>3 DEF PinsAt
    <3> QED
      BY <3>1 DEF AssignedPins
  <2>5. /\ h.pins_in_part[e] = [p \in Parts |-> 0] /\ h.connectivity[e] = 0 /\ h.connectivity_set[e] = {}
    <3>1. NetCounted(h, e, P, h.part)
      BY <2>1 DEF NetsCounted
    <3>2. \A x \in P : h.part[x] = kInvalidPartition
      BY <1>6, <2>2 DEF Unplaced
    <3>3. /\ Counts(P, h.part) = [p \in Parts |-> 0] /\ Spread(P, h.part) = {}
          /\ Cardinality(Spread(P, h.part)) = 0
      BY <3>2, NoSpread
    <3> QED
      BY <3>1, <3>3 DEF NetCounted
  <2>6. /\ \A p : Cardinality(PinsAt(P, f, p)) \in Nat
        /\ \A p : Cardinality(PinsAt(P, f, p)) = 0 <=> PinsAt(P, f, p) = {}
        /\ Cardinality(Spread(P, f)) \in Nat
    BY <2>2, CountsAre
  <2>7. g.pins_in_part[e] = Counts(P, f)
    <3>1. g.pins_in_part[e] = [p \in Parts |-> h.pins_in_part[e][p] + AssignedPins(h, part, e, p)]
      BY <1>2, <2>2 DEF CountsAssigned
    <3>2. \A p \in Parts : h.pins_in_part[e][p] + AssignedPins(h, part, e, p) = Cardinality(PinsAt(P, f, p))
      BY <2>4, <2>5, <2>6
    <3> QED
      BY <3>1, <3>2 DEF Counts
  <2>8. AssignedBlocks(h, part, e) = Spread(P, f)
    <3>1. \A p : AssignedPins(h, part, e, p) > 0 <=> PinsAt(P, f, p) # {}
      BY <2>4, <2>6
    <3> QED
      BY <3>1 DEF AssignedBlocks, Spread
  <2>9. g.connectivity[e] = Cardinality(Spread(P, f)) /\ g.connectivity_set[e] = Spread(P, f)
    <3>1. /\ g.connectivity[e] = h.connectivity[e] + Cardinality(AssignedBlocks(h, part, e))
          /\ g.connectivity_set[e] = h.connectivity_set[e] \cup AssignedBlocks(h, part, e)
      BY <1>2, <2>2 DEF CountsAssigned
    <3>2. g.connectivity_set[e] = Spread(P, f)
      BY <2>5, <2>8, <3>1
    <3>3. g.connectivity[e] = 0 + Cardinality(Spread(P, f))
      BY <2>5, <2>8, <3>1
    <3> QED
      BY <2>6, <3>2, <3>3
  <2> QED
    BY <1>8, <2>1, <2>7, <2>9 DEF NetCounted
<1>10. ASSUME NEW e \in Nets \ h.live PROVE g.connectivity[e] = 0 /\ g.connectivity_set[e] = {}
  <2>1. \A w \in h.on : e \notin h.nets[w]
    BY NetsOfPins
  <2>2. \A p : {w \in h.on : e \in h.nets[w] /\ part[w] = p} = {}
    BY <2>1
  <2>3. \A p : AssignedPins(h, part, e, p) = 0
    BY <2>2, FS_EmptySet DEF AssignedPins
  <2>4. AssignedBlocks(h, part, e) = {}
    BY <2>3 DEF AssignedBlocks
  <2>5. Cardinality(AssignedBlocks(h, part, e)) = 0
    BY <2>4, FS_EmptySet
  <2>6. h.connectivity[e] = 0 /\ h.connectivity_set[e] = {}
    BY DEF NetsCounted
  <2>7. /\ g.connectivity[e] = h.connectivity[e] + Cardinality(AssignedBlocks(h, part, e))
        /\ g.connectivity_set[e] = h.connectivity_set[e] \cup AssignedBlocks(h, part, e)
    BY <1>2 DEF CountsAssigned
  <2>8. g.connectivity_set[e] = {}
    BY <2>4, <2>6, <2>7
  <2>9. g.connectivity[e] = 0 + 0
    BY <2>5, <2>6, <2>7
  <2> QED
    BY <2>8, <2>9
<1>11. NetsCounted(g)
  BY <1>5, <1>9, <1>10 DEF NetsCounted
<1>12. ASSUME NEW p \in Parts PROVE g.part_weight[p] = WeightOf(Structure(g), g.part, p)
  <2>1. g.part_weight[p] = h.part_weight[p] + SumOver(h.weight, NodesIn(h, part, p))
    BY <1>2 DEF Assigned
  <2>2. NodesIn(h, part, p) = NodesIn(h, g.part, p)
    BY <1>7 DEF NodesIn
  <2>3. NodesIn(h, h.part, p) = {}
    <3>1. kInvalidPartition \notin Parts
      BY KHypergraphAssumption DEF kInvalidPartition, Parts
    <3> QED
      BY <1>6, <3>1 DEF NodesIn, Unplaced
  <2>4. h.part_weight[p] = 0
    <3>1. WeightOf(Structure(h), h.part, p) = SumOver(h.weight, NodesIn(h, h.part, p))
      BY BlockWeighs
    <3> QED
      BY <2>3, <3>1, SumEmpty DEF WeightsRight
  <2>5. PICK N : N = NodesIn(h, g.part, p)
    OBVIOUS
  <2>6. WeightOf(Structure(h), g.part, p) = SumOver(h.weight, N) /\ IsFiniteSet(N) /\ \A w \in N : h.weight[w] \in Int
    BY <2>5, BlockWeighs
  <2>7. SumOver(h.weight, N) \in Int
    BY <2>6, SumType
  <2> QED
    BY <1>4, <2>1, <2>2, <2>4, <2>5, <2>6, <2>7
<1> QED
  BY <1>4, <1>11, <1>12 DEF WeightsRight

(* The numbers of cut nets computed anew, and the hashes.                   *)
LEMMA RecomputedIsCounted ==
  ASSUME NEW h, WellFormed(h), NetsCounted(h), WeightsRight(h), NEW g,
         g = initializeNumCutHyperedges(h) \/ g = resetEdgeHashes(h)
  PROVE  /\ WellFormed(g) /\ NetsCounted(g) /\ WeightsRight(g) /\ SameBlocks(h, g) /\ Structure(g) = Structure(h)
         /\ g = initializeNumCutHyperedges(h) => CutRight(g)
<1>1. IsHypergraph(h)
  BY DEF WellFormed, Typed
<1>2. SameBlocks(h, g) /\ SameCounts(h, g)
  BY <1>1, InitializeNumCutInfo, ResetEdgeHashesInfo
<1>3. PartitionOnly(h, g)
  BY <1>1, PartitionOperations
<1>4. WellFormed(g) /\ Structure(g) = Structure(h)
  BY <1>3, PartitionKeepsLevels DEF PartitionOnly
<1>5. g.live = h.live /\ g.slots = h.slots /\ g.size = h.size
  BY <1>3 DEF PartitionOnly, SameStructure
<1>6. NetsCounted(g)
  BY <1>2, <1>5, SameKeepsCounts DEF SameBlocks
<1>7. WeightsRight(g)
  BY <1>2, <1>4, SameKeepsWeights
<1>8. ASSUME g = initializeNumCutHyperedges(h) PROVE CutRight(g)
  <2>1. g.num_cut = [w \in Nodes |-> Cardinality({e \in h.live : h.connectivity[e] > 1 /\ w \in pins(h, e)})]
    BY <1>1, <1>8, InitializeNumCutInfo
  <2>2. \A e : pins(g, e) = pins(h, e)
    BY <1>5, SameNets
  <2>3. g.connectivity = h.connectivity
    BY <1>2 DEF SameCounts
  <2>4. \A w : CutAt(g, w) = {e \in h.live : h.connectivity[e] > 1 /\ w \in pins(h, e)}
    BY <1>5, <2>2, <2>3 DEF CutAt
  <2> QED
    BY <2>1, <2>4 DEF CutRight
<1> QED
  BY <1>2, <1>4, <1>6, <1>7, <1>8

-----------------------------------------------------------------------------
(* The objective of a hypergraph is that of its structure under its         *)
(* partition, when the counts are right.                                    *)
LEMMA ConnectivityIsCounted ==
  ASSUME NEW h, WellFormed(h), NetsCounted(h), NEW f, f = h.part, \A w \in h.on : f[w] \in Parts, NEW e \in h.live
  PROVE  ConnectivityOf(Structure(h), f, e) = h.connectivity[e]
<1>1. PICK P, L : P = pins(h, e) /\ L = Structure(h)
  OBVIOUS
<1>2. L.pins[e] = P
  <2>1. L.pins = [x \in h.live |-> pins(h, x)]
    BY <1>1, StructureIs
  <2> QED
    BY <1>1, <2>1
<1>3. P \subseteq h.on
  BY <1>1, PinsAreFinite
<1>4. {f[x] : x \in P} = Spread(P, f)
  BY <1>3 DEF Spread, PinsAt
<1>5. h.connectivity[e] = Cardinality(Spread(P, f))
  BY <1>1 DEF NetsCounted, NetCounted
<1> QED
  BY <1>1, <1>2, <1>4, <1>5 DEF ConnectivityOf

(* So the cut is the same.                                                  *)
LEMMA ObjectiveIsCut ==
  ASSUME NEW h, WellFormed(h), NetsCounted(h), NEW f, f = h.part, \A w \in h.on : f[w] \in Parts
  PROVE  hyperedgeCut(h) = CutOf(Structure(h), f)
<1>1. PICK L : L = Structure(h)
  OBVIOUS
<1>2. L.live = h.live /\ L.edge_weight = [e \in h.live |-> h.edge_weight[e]]
  BY <1>1, StructureIs
<1>3. \A e \in h.live : ConnectivityOf(L, f, e) = h.connectivity[e]
  BY <1>1, ConnectivityIsCounted
<1>4. PICK C : C = CutNets(L, f)
  OBVIOUS
<1>5. C = {e \in h.live : h.connectivity[e] > 1}
  BY <1>2, <1>3, <1>4 DEF CutNets
<1>6. hyperedgeCut(h) = SumOver(h.edge_weight, C)
  BY <1>5, Zenon DEF hyperedgeCut, SumOver
<1>7. CutOf(L, f) = SumOver(L.edge_weight, C)
  BY <1>4, CutOfIsSum
<1>8. IsFiniteSet(C)
  <2>1. IsFiniteSet(h.live)
    BY LiveIsFinite DEF WellFormed
  <2>2. C \in SUBSET h.live
    BY <1>5
  <2> QED
    BY <2>1, <2>2, FS_Subset
<1>9. \A e \in C : h.edge_weight[e] = L.edge_weight[e]
  BY <1>2, <1>5
<1>10. SumOver(h.edge_weight, C) = SumOver(L.edge_weight, C)
  BY <1>8, <1>9, SumSame
<1> QED
  BY <1>1, <1>6, <1>7, <1>10

(* So is km1.                                                               *)
LEMMA ObjectiveIsKm1 ==
  ASSUME NEW h, WellFormed(h), NetsCounted(h), NEW f, f = h.part, \A w \in h.on : f[w] \in Parts
  PROVE  km1(h) = km1Of(Structure(h), f)
<1>1. PICK L, D : L = Structure(h) /\ D = h.live
  OBVIOUS
<1>2. L.live = D /\ L.edge_weight = [e \in D |-> h.edge_weight[e]]
  BY <1>1, StructureIs
<1>3. \A e \in D : ConnectivityOf(L, f, e) = h.connectivity[e]
  BY <1>1, ConnectivityIsCounted
<1>4. PICK x, y : x = Km1Costs(h.connectivity, h.edge_weight, D) /\ y = Km1Costs(Connectivities(L, f), L.edge_weight, D)
  OBVIOUS
<1>5. km1(h) = SumOver(x, D)
  BY <1>1, <1>4, Km1IsSum
<1>6. km1Of(L, f) = SumOver(y, D)
  BY <1>2, <1>4, Km1OfIsSum
<1>7. IsFiniteSet(D)
  BY <1>1, LiveIsFinite DEF WellFormed
<1>8. ASSUME NEW e \in D PROVE x[e] = y[e]
  <2>1. x[e] = Max({h.connectivity[e] - 1, 0}) * h.edge_weight[e]
    BY <1>4 DEF Km1Costs
  <2>2. y[e] = Max({Connectivities(L, f)[e] - 1, 0}) * L.edge_weight[e]
    BY <1>4 DEF Km1Costs
  <2>3. Connectivities(L, f)[e] = h.connectivity[e] /\ L.edge_weight[e] = h.edge_weight[e]
    BY <1>2, <1>3 DEF Connectivities
  <2> QED
    BY <2>1, <2>2, <2>3
<1>9. SumOver(x, D) = SumOver(y, D)
  BY <1>7, <1>8, SumSame
<1> QED
  BY <1>1, <1>5, <1>6, <1>9

(* The objective has no other part of the hypergraph in it.                 *)
LEMMA SameObjective ==
  ASSUME NEW h, NEW g, g.live = h.live, g.edge_weight = h.edge_weight, g.connectivity = h.connectivity
  PROVE  hyperedgeCut(g) = hyperedgeCut(h) /\ km1(g) = km1(h)
<1>1. km1(g) = km1(h)
  BY Km1IsSum
<1>2. PICK live, w, c : live = h.live /\ w = h.edge_weight /\ c = h.connectivity
  OBVIOUS
<1>3. PICK C : C = {e \in live : c[e] > 1}
  OBVIOUS
<1>4. C = {e \in h.live : h.connectivity[e] > 1} /\ C = {e \in g.live : g.connectivity[e] > 1}
  BY <1>2, <1>3
<1>5. hyperedgeCut(h) = SumOver(h.edge_weight, C)
  BY <1>4, Zenon DEF hyperedgeCut, SumOver
<1>6. hyperedgeCut(g) = SumOver(g.edge_weight, C)
  BY <1>4, Zenon DEF hyperedgeCut, SumOver
<1> QED
  BY <1>1, <1>5, <1>6

-----------------------------------------------------------------------------
(* The invariant of what is kept beside the partition.                      *)

(* What the blocks and nets of h say of level L: the blocks weigh and the   *)
(* partition costs what it does on L with the blocks f.                     *)
Measures(h, L, f) ==
  /\ \A p \in Parts : h.part_weight[p] = WeightOf(L, f, p)
  /\ hyperedgeCut(h) = CutOf(L, f) /\ km1(h) = km1Of(L, f)

Counting ==
  /\ NetsCounted(hg) /\ WeightsRight(hg)
  /\ phase \in {"uncoarsen", "refine"} => CutRight(hg)
CutShort ==
  /\ history = <<>> /\ phase \in {"uncoarsen", "vcycle", "done"}
  /\ Measures(hg, levels[1], hg.part)
CountsInv ==
  /\ Sound /\ ~Broken => Counting
  /\ ~HasPartition => Unplaced(hg)
  /\ context.from_input_partition => vcycle > 0 \/ phase = "vcycle"
  /\ Sound /\ Broken => CutShort

(* A constructed hypergraph counts nothing.                                 *)
LEMMA ConstructedIsCounted ==
  ASSUME NEW c \in Contexts, NEW h, h = c.hypergraph
  PROVE  WellFormed(h) /\ NetsCounted(h) /\ WeightsRight(h) /\ Unplaced(h) /\ h.part \in [Nodes -> Int] /\ h.on = Nodes
<1>1. WellFormed(h) /\ h.on = Nodes /\ Unplaced(h) /\ h.part \in [Nodes -> Int]
  BY ContextIs DEF Unplaced, Basic
<1>2. h.on \subseteq Nodes /\ h.live \subseteq Nets
  BY <1>1 DEF WellFormed, Typed
<1>3. /\ h.part_weight = [p \in Parts |-> 0] /\ h.pins_in_part = [e \in Nets |-> [p \in Parts |-> 0]]
      /\ h.connectivity = [e \in Nets |-> 0] /\ h.connectivity_set = [e \in Nets |-> {}]
  <2>1. IsConstructed(h)
    BY ContextsAssumption
  <2>2. h = [NewHypergraph(h.slots, h.weight, h.edge_weight) EXCEPT
               !.fixed_part = h.fixed_part, !.fixed_weight = h.fixed_weight,
               !.fixed = {u \in Nodes : h.fixed_part[u] # kInvalidPartition}]
    BY <2>1 DEF IsConstructed
  <2>3. PICK n : n = NewHypergraph(h.slots, h.weight, h.edge_weight)
    OBVIOUS
  <2>4. /\ n.part_weight = [p \in Parts |-> 0] /\ n.pins_in_part = [e \in Nets |-> [p \in Parts |-> 0]]
        /\ n.connectivity = [e \in Nets |-> 0] /\ n.connectivity_set = [e \in Nets |-> {}]
    BY <2>3 DEF NewHypergraph
  <2>5. /\ h.part_weight = n.part_weight /\ h.pins_in_part = n.pins_in_part
        /\ h.connectivity = n.connectivity /\ h.connectivity_set = n.connectivity_set
    BY <2>2, <2>3 DEF NewHypergraph
  <2> QED
    BY <2>4, <2>5
<1>4. ASSUME NEW e \in h.live PROVE NetCounted(h, e, pins(h, e), h.part)
  <2>1. e \in Nets /\ \A x \in pins(h, e) : h.part[x] = kInvalidPartition
    BY <1>1, <1>2, PinsAreFinite DEF Unplaced
  <2>2. /\ Counts(pins(h, e), h.part) = [p \in Parts |-> 0] /\ Spread(pins(h, e), h.part) = {}
        /\ Cardinality(Spread(pins(h, e), h.part)) = 0
    BY <2>1, NoSpread
  <2> QED
    BY <1>3, <2>1, <2>2 DEF NetCounted
<1>5. NetsCounted(h)
  BY <1>3, <1>4 DEF NetsCounted
<1>6. ASSUME NEW p \in Parts PROVE h.part_weight[p] = WeightOf(Structure(h), h.part, p)
  <2>1. kInvalidPartition \notin Parts
    BY KHypergraphAssumption DEF kInvalidPartition, Parts
  <2>2. NodesIn(h, h.part, p) = {}
    BY <1>1, <2>1 DEF NodesIn, Unplaced
  <2>3. WeightOf(Structure(h), h.part, p) = SumOver(h.weight, NodesIn(h, h.part, p))
    BY <1>1, BlockWeighs
  <2> QED
    BY <1>3, <2>2, <2>3, SumEmpty
<1> QED
  BY <1>1, <1>5, <1>6 DEF WeightsRight

(* Nor anything wrong after setPartition.                                   *)
LEMMA SetPartitionIsCounted ==
  ASSUME NEW h, WellFormed(h), NEW part, NEW g, g = setPartition(h, part)
  PROVE  WellFormed(g) /\ NetsCounted(g) /\ WeightsRight(g) /\ Structure(g) = Structure(h)
<1>1. PICK r : r = reset(h)
  OBVIOUS
<1>2. WellFormed(r) /\ NetsCounted(r) /\ WeightsRight(r) /\ Unplaced(r) /\ r.part \in [Nodes -> Int]
      /\ Structure(r) = Structure(h)
  BY <1>1, ResetIsCounted
<1>3. g = AssignParts(r, part)
  BY <1>1 DEF setPartition
<1>4. WellFormed(g) /\ NetsCounted(g) /\ WeightsRight(g) /\ Structure(g) = Structure(r)
  BY <1>2, <1>3, AssignedIsCounted
<1> QED
  BY <1>2, <1>4

(* The invariant holds initially.                                           *)
LEMMA InitIsCounted ==
  ASSUME Init
  PROVE  CountsInv
<1>1. context \in Contexts /\ history = <<>> /\ vcycle = 0 /\ phase \in {"vcycle", "pass"}
      /\ (context.from_input_partition => phase = "vcycle") /\ levels = <<Structure(hg)>>
  BY DEF Init
<1>2. PICK h : h = context.hypergraph
  OBVIOUS
<1>3. WellFormed(h) /\ NetsCounted(h) /\ WeightsRight(h) /\ Unplaced(h)
  BY <1>1, <1>2, ConstructedIsCounted
<1>4. ~Broken
  <2>1. Len(levels) = 1 /\ Len(history) = 0
    BY <1>1
  <2> QED
    BY <2>1 DEF Broken
<1>5. NetsCounted(hg) /\ WeightsRight(hg) /\ (~HasPartition => Unplaced(hg))
  <2>1. CASE context.from_input_partition \/ action \in {"new_initial_partitioning", "vcycle"}
    <3>1. PICK part \in context.partitions : hg = setPartition(h, part)
      BY <1>2, <2>1 DEF Init
    <3>2. PICK g : g = hg
      OBVIOUS
    <3>3. NetsCounted(g) /\ WeightsRight(g)
      BY <1>3, <3>1, <3>2, SetPartitionIsCounted
    <3>4. HasPartition
      BY <2>1 DEF HasPartition, Partitioned
    <3> QED
      BY <3>2, <3>3, <3>4
  <2>2. CASE ~(context.from_input_partition \/ action \in {"new_initial_partitioning", "vcycle"})
    <3>1. hg = h
      BY <1>2, <2>2 DEF Init
    <3> QED
      BY <1>3, <3>1
  <2> QED
    BY <2>1, <2>2
<1> QED
  BY <1>1, <1>4, <1>5 DEF CountsInv, Counting

-----------------------------------------------------------------------------
(* The steps keep what is counted.                                          *)

(* A hypergraph with right counts measures what the first level does with   *)
(* the blocks of the nodes that it stands for.                              *)
LEMMA MeasuresProjected ==
  ASSUME NEW h, NEW H, NEW RS, NEW RP, NEW LV, LevelsInv(h, H, RS, RP, LV), MergesOK(H, RS, RP, LV),
         NetsCounted(h), WeightsRight(h), Placed(h), h.part \in [Nodes -> Int], NEW f, f = Projected(H, h.part)
  PROVE  Measures(h, LV[1], f)
<1>1. WellFormed(h)
  BY DEF LevelsInv
<1>2. PICK b : b = h.part
  OBVIOUS
<1>3. \A w \in h.on : b[w] \in Parts
  BY <1>2 DEF Placed
<1>4. hyperedgeCut(h) = CutOf(Structure(h), b)
  BY <1>1, <1>2, <1>3, ObjectiveIsCut
<1>5. km1(h) = km1Of(Structure(h), b)
  BY <1>1, <1>2, <1>3, ObjectiveIsKm1
<1>6. SameCosts(LV[1], Structure(h), b, f)
  BY <1>2, HypergraphProjects
<1>7. \A p \in Parts : h.part_weight[p] = WeightOf(Structure(h), b, p)
  BY <1>2 DEF WeightsRight
<1> QED
  BY <1>4, <1>5, <1>6, <1>7 DEF SameCosts, Measures

(* A target shares its block, or neither node has one.                      *)
LEMMA TargetSharesBlock ==
  ASSUME NEW u, NEW v, v \in Targets(u)
  PROVE  acceptPartition(u, v) /\ v \in hg.on /\ v # u
<1>1. v \in Rated(u)
  BY DEF Targets
<1> QED
  BY <1>1 DEF Rated

(* A contraction, which stays within a block.                               *)
LEMMA ContractionIsCounted ==
  ASSUME IInv, FixedInv, CountsInv, Contraction, context' = context, Broken' <=> Broken
  PROVE  CountsInv'
<1>1. phase = "visit" /\ phase' = phase /\ vcycle' = vcycle /\ vcycle \in Nat
  BY DEF Contraction, IInv
<1>2. Sound' = Sound /\ HasPartition' = HasPartition /\ action' = action
  BY <1>1 DEF Sound, HasPartition, Partitioned, action
<1>3. PICK h, H, g, H1 : h = hg /\ H = history /\ g = hg' /\ H1 = history'
  OBVIOUS
<1>4. PICK u, v, m : v \in Targets(u) /\ MayContract(h, u, v) /\ Pushes(h, u, v, g, H, H1, m)
  BY <1>3, ContractionIsPushed
<1>5. IsHypergraph(h) /\ h.part \in [Nodes -> Int] /\ (HasPartition => Placed(h))
  BY <1>3 DEF FixedInv, FitsIn, Basic
<1>6. g.part = h.part
  <2>1. PICK c, S, d, R, P, a : PushOps(h, u, v, c, S, d, R, P, a, g)
    BY <1>4 DEF Pushes
  <2> QED
    BY <1>5, <2>1, PushLeavesPlaces
<1>7. ~HasPartition => Unplaced(h) /\ Unplaced(g)
  BY <1>3, <1>6 DEF CountsInv, Unplaced
<1>8. ~(Sound /\ Broken)
  BY <1>1 DEF CountsInv, CutShort
<1>9. ASSUME Sound, ~Broken PROVE NetsCounted(g) /\ WeightsRight(g)
  <2>1. NetsCounted(h) /\ WeightsRight(h)
    BY <1>3, <1>9 DEF CountsInv, Counting
  <2>2. WellFormed(h)
    BY <1>3, <1>9 DEF IInv, LevelsInv
  <2>3. u \in h.on /\ v \in h.on /\ u \in Nodes /\ v \in Nodes
    BY <1>4, <2>2 DEF MayContract, WellFormed, Typed
  <2>4. InBlockOrNone(h, u, v)
    <3>1. CASE ~HasPartition
      BY <1>7, <2>3, <3>1 DEF InBlockOrNone, Unplaced
    <3>2. CASE HasPartition
      <4>1. action # "combine"
        BY <1>1, <1>9, <3>2 DEF HasPartition, Partitioned, Sound, CountsInv
      <4>2. acceptPartition(u, v)
        BY <1>4, TargetSharesBlock
      <4>3. h.part[u] = h.part[v]
        BY <1>3, <4>1, <4>2 DEF acceptPartition
      <4>4. h.part[v] \in Parts
        BY <1>5, <2>3, <3>2 DEF Placed
      <4> QED
        BY <4>3, <4>4 DEF InBlockOrNone
    <3> QED
      BY <3>1, <3>2
  <2>5. NetsCounted(g) /\ SameBlocks(h, g)
    BY <1>4, <2>1, <2>2, <2>4, PushKeepsCounts
  <2>6. WeightsRight(g)
    BY <1>4, <1>5, <2>1, <2>2, <2>4, <2>5, PushKeepsWeights DEF InBlockOrNone
  <2> QED
    BY <2>5, <2>6
<1>10. Sound' /\ ~Broken' => Counting'
  BY <1>1, <1>2, <1>3, <1>9 DEF Counting
<1> QED
  BY <1>1, <1>2, <1>3, <1>7, <1>8, <1>10 DEF CountsInv

(* An uncontraction.                                                        *)
LEMMA UncontractIsCounted ==
  ASSUME IInv, FixedInv, MergesInv, CountsInv, Uncontract, context' = context, Broken' <=> Broken
  PROVE  CountsInv'
<1>1. /\ phase = "uncoarsen" /\ phase' = "refine" /\ vcycle' = vcycle /\ history # <<>> /\ vcycle \in Nat
  BY DEF Uncontract, IInv
<1>2. Sound' = Sound /\ HasPartition /\ HasPartition'
  BY <1>1 DEF Sound, HasPartition, Partitioned, action
<1>3. ~(Sound /\ Broken)
  BY <1>1 DEF CountsInv, CutShort
<1>4. context'.from_input_partition => vcycle' > 0 \/ phase' = "vcycle"
  BY <1>1 DEF CountsInv
<1>5. ASSUME Sound, ~Broken PROVE Counting'
  <2>1. PICK h, H, RS, RP, LV, g : h = hg /\ H = history /\ RS = removed_single /\ RP = removed_parallel /\ LV = levels /\ g = hg'
    OBVIOUS
  <2>2. LevelsInv(h, H, RS, RP, LV) /\ MergesOK(H, RS, RP, LV)
    BY <1>5, <2>1 DEF IInv, MergesInv
  <2>3. NetsCounted(h) /\ WeightsRight(h) /\ CutRight(h)
    BY <1>1, <1>5, <2>1 DEF CountsInv, Counting
  <2>4. h.part \in [Nodes -> Int] /\ Placed(h)
    BY <1>2, <2>1 DEF FixedInv, FitsIn, Basic
  <2>5. PICK m, S, P, cut, c, a, s : Pops(h, H, RS, RP, m, S, P, cut, c, a, s, g)
    BY <2>1, PopHappens
  <2>6. /\ NetsCounted(g) /\ (CutRight(h) => CutRight(g))
        /\ g.part = With(h.part, m) /\ g.part_weight = h.part_weight
        /\ \E A : Step(A, Structure(h), m, S, P) /\ Structure(g) = A
    BY <1>1, <2>1, <2>2, <2>3, <2>4, <2>5, PopKeepsCounts
  <2>7. PICK A : Step(A, Structure(h), m, S, P) /\ Structure(g) = A
    BY <2>6
  <2>8. WeightsRight(g)
    BY <2>3, <2>4, <2>6, <2>7, PopKeepsWeights
  <2> QED
    BY <2>1, <2>3, <2>6, <2>8 DEF Counting
<1> QED
  BY <1>2, <1>3, <1>4, <1>5 DEF CountsInv

(* The time limit, which leaves the counts behind.                          *)
LEMMA TimeLimitIsCounted ==
  ASSUME IInv, FixedInv, MergesInv, CountsInv, SoftTimeLimitExceeded, context' = context, Broken'
  PROVE  CountsInv'
<1>1. /\ phase = "uncoarsen" /\ phase' = "uncoarsen" /\ vcycle' = vcycle /\ history # <<>> /\ vcycle \in Nat
      /\ history' = <<>> /\ levels' = levels /\ hg' = RestoreMementos(hg, history)
  BY DEF SoftTimeLimitExceeded, IInv
<1>2. HasPartition /\ HasPartition'
  BY <1>1 DEF HasPartition, Partitioned
<1>3. Sound' => Sound
  BY <1>1 DEF Sound
<1>4. context'.from_input_partition => vcycle' > 0 \/ phase' = "vcycle"
  BY <1>1 DEF CountsInv
<1>5. ASSUME Sound PROVE CutShort'
  <2>1. ~Broken
    BY <1>1, <1>5 DEF CountsInv, CutShort
  <2>2. PICK h, H, RS, RP, LV, g, fp :
          h = hg /\ H = history /\ RS = removed_single /\ RP = removed_parallel /\ LV = levels /\ g = hg'
          /\ fp = context.hypergraph.fixed_part
    OBVIOUS
  <2>3. LevelsInv(h, H, RS, RP, LV) /\ MergesOK(H, RS, RP, LV)
    BY <2>1, <2>2 DEF IInv, MergesInv
  <2>4. NetsCounted(h) /\ WeightsRight(h)
    BY <1>5, <2>1, <2>2 DEF CountsInv, Counting
  <2>5. h.part \in [Nodes -> Int] /\ Placed(h) /\ Basic(h, fp) /\ HistoryFits(h.on, fp, H, Len(H))
    BY <1>2, <2>2 DEF FixedInv, FitsIn, Basic
  <2>6. PICK n \in Nat : n = Len(H)
    BY <2>3, ListLength DEF LevelsInv
  <2>7. IsListOf(H, n)
    <3>1. PICK X : H \in Seq(X)
      BY <2>3 DEF LevelsInv, IsList
    <3> QED
      BY <2>3, <2>6, <3>1 DEF IsListOf, LevelsInv
  <2>8. g = RestoreMementos(h, H)
    BY <1>1, <2>2
  <2>9. HistoryFits(h.on, fp, H, n)
    BY <2>5, <2>6
  <2>10. AllPutBack(h, fp, H, n, g)
    BY <2>5, <2>7, <2>8, <2>9, HistoryIsPutBack
  <2>11. PICK f : f = Projected(H, h.part)
    OBVIOUS
  <2>12. Measures(h, LV[1], f)
    BY <2>3, <2>4, <2>5, <2>11, MeasuresProjected
  <2>13. g.part = f /\ SameCounts(h, g) /\ g.part_weight = h.part_weight /\ g.live = h.live /\ g.edge_weight = h.edge_weight
    BY <2>10, <2>11 DEF AllPutBack
  <2>14. hyperedgeCut(g) = hyperedgeCut(h) /\ km1(g) = km1(h)
    BY <2>13, SameObjective DEF SameCounts
  <2>15. Measures(g, LV[1], g.part)
    BY <2>12, <2>13, <2>14 DEF Measures
  <2> QED
    BY <1>1, <2>2, <2>15 DEF CutShort
<1> QED
  BY <1>2, <1>3, <1>4, <1>5 DEF CountsInv

(* Assigning an initial partition.                                          *)
LEMMA InitiallyCounted ==
  ASSUME NEW h, WellFormed(h), NetsCounted(h), WeightsRight(h), Unplaced(h), h.part \in [Nodes -> Int],
         NEW f \in InitiallyPartitioned(h)
  PROVE  WellFormed(f) /\ NetsCounted(f) /\ WeightsRight(f) /\ Structure(f) = Structure(h)
<1>1. PICK part : f = AssignParts(h, part)
  BY DEF InitiallyPartitioned
<1> QED
  BY <1>1, AssignedIsCounted

(* So is every partition that uncoarsening may start from.                  *)
LEMMA AfterCoarseningIsCounted ==
  ASSUME context \in Contexts, vcycle \in Nat, NEW h, h = hg, WellFormed(h), NetsCounted(h), WeightsRight(h),
         h.part \in [Nodes -> Int], vcycle = 0 /\ action = "none" => Unplaced(h), NEW f \in PartitionsAfterCoarsening
  PROVE  WellFormed(f) /\ NetsCounted(f) /\ WeightsRight(f) /\ Structure(f) = Structure(h)
<1>1. PICK r : r = reset(h)
  OBVIOUS
<1>2. WellFormed(r) /\ NetsCounted(r) /\ WeightsRight(r) /\ Unplaced(r) /\ r.part \in [Nodes -> Int]
      /\ Structure(r) = Structure(h)
  BY <1>1, ResetIsCounted
<1>3. CASE vcycle > 0 \/ action = "vcycle"
  <2>1. f = h
    BY <1>3 DEF PartitionsAfterCoarsening
  <2> QED
    BY <2>1
<1>4. CASE vcycle = 0 /\ action = "none"
  <2>1. f \in InitiallyPartitioned(h)
    BY <1>4 DEF PartitionsAfterCoarsening
  <2> QED
    BY <1>4, <2>1, InitiallyCounted
<1>5. CASE vcycle = 0 /\ action \in {"normal", "new_initial_partitioning"}
  <2>1. f \in InitiallyPartitioned(r)
    BY <1>1, <1>5 DEF PartitionsAfterCoarsening
  <2>2. WellFormed(f) /\ NetsCounted(f) /\ WeightsRight(f) /\ Structure(f) = Structure(r)
    BY <1>2, <2>1, InitiallyCounted
  <2> QED
    BY <1>2, <2>2
<1>6. CASE vcycle = 0 /\ action = "combine"
  <2>1. PICK part : f = setPartition(h, part)
    BY <1>6 DEF PartitionsAfterCoarsening, BetterParent
  <2> QED
    BY <2>1, SetPartitionIsCounted
<1>7. action \in {"none", "normal", "new_initial_partitioning", "vcycle", "combine"}
  BY ContextsAssumption DEF action
<1> QED
  BY <1>3, <1>4, <1>5, <1>6, <1>7

(* The initial partition.                                                   *)
LEMMA InitialPartitionIsCounted ==
  ASSUME IInv, FixedInv, CountsInv, InitialPartition, context' = context, Broken' <=> Broken
  PROVE  CountsInv'
<1>1. /\ phase = "coarsened" /\ phase' = "uncoarsen" /\ vcycle' = vcycle /\ vcycle \in Nat /\ context \in Contexts
  BY DEF InitialPartition, IInv
<1>2. Sound' = Sound /\ HasPartition'
  BY <1>1 DEF Sound, HasPartition, Partitioned, action
<1>3. ~(Sound /\ Broken)
  BY <1>1 DEF CountsInv, CutShort
<1>4. context'.from_input_partition => vcycle' > 0 \/ phase' = "vcycle"
  BY <1>1 DEF CountsInv
<1>5. ASSUME Sound, ~Broken PROVE Counting'
  <2>1. PICK h, g : h = hg /\ g = hg'
    OBVIOUS
  <2>2. WellFormed(h) /\ NetsCounted(h) /\ WeightsRight(h)
    BY <1>5, <2>1 DEF IInv, LevelsInv, CountsInv, Counting
  <2>3. h.part \in [Nodes -> Int]
    BY <2>1 DEF FixedInv, FitsIn, Basic
  <2>4. ASSUME vcycle = 0, action = "none" PROVE Unplaced(h)
    <3>1. ~context.from_input_partition
      BY <1>1, <2>4 DEF CountsInv
    <3>2. ~HasPartition
      BY <1>1, <2>4, <3>1 DEF HasPartition, Partitioned
    <3> QED
      BY <2>1, <3>2 DEF CountsInv
  <2>5. PICK f \in PartitionsAfterCoarsening : g = initializeNumCutHyperedges(f)
    BY <2>1 DEF InitialPartition
  <2>6. WellFormed(f) /\ NetsCounted(f) /\ WeightsRight(f)
    BY <1>1, <2>1, <2>2, <2>3, <2>4, <2>5, AfterCoarseningIsCounted
  <2>7. NetsCounted(g) /\ WeightsRight(g) /\ CutRight(g)
    BY <2>5, <2>6, RecomputedIsCounted
  <2> QED
    BY <2>1, <2>7 DEF Counting
<1> QED
  BY <1>2, <1>3, <1>4, <1>5 DEF CountsInv

(* Moves, one after the other: each is of a node that is where it was.      *)
CountedSofar(h, part, s, f) ==
  /\ WellFormed(f) /\ NetsCounted(f) /\ WeightsRight(f) /\ CutRight(f)
  /\ f.part \in [Nodes -> Int] /\ f.on = h.on /\ \A w \in f.on : f.part[w] \in Parts
  /\ \A w \in h.on \ s : f.part[w] = h.part[w]

LEMMA NextMoveIsCounted ==
  ASSUME NEW h, NEW part, NEW X, NEW u \in X, u \in h.on, part[u] \in Parts, part[u] # h.part[u],
         NEW f, CountedSofar(h, part, X \ {u}, f), NEW g, g = MoveOne(h, part, u, f)
  PROVE  CountedSofar(h, part, X, g)
<1>1. PICK p, q : p = h.part[u] /\ q = part[u]
  OBVIOUS
<1>2. g = changeNodePart(f, u, p, q) /\ p = f.part[u] /\ q \in Parts /\ q # p
  BY <1>1 DEF MoveOne, CountedSofar
<1>3. NodeMoved(f, g, u, p, q)
  BY <1>2 DEF NodeMoved, CountedSofar
<1>4. NetsCounted(g) /\ WeightsRight(g) /\ CutRight(g)
  BY <1>3, MoveKeepsCounts, MoveKeepsWeights, MoveKeepsCut DEF CountedSofar
<1>5. WellFormed(g) /\ SameStructure(f, g) /\ Left(f, g, u, p, q) /\ u \in Nodes /\ f.on \subseteq Nodes
  BY <1>3, MovedIs
<1>6. g.on = f.on /\ g.part = [f.part EXCEPT ![u] = q]
  BY <1>5 DEF SameStructure, Left
<1>7. q \in Int
  BY <1>2 DEF Parts
<1>8. g.part \in [Nodes -> Int] /\ \A w \in g.on : g.part[w] \in Parts
  BY <1>2, <1>5, <1>6, <1>7 DEF CountedSofar
<1>9. \A w \in h.on \ X : g.part[w] = h.part[w]
  BY <1>5, <1>6 DEF CountedSofar
<1> QED
  BY <1>4, <1>5, <1>6, <1>8, <1>9 DEF CountedSofar

LEMMA MovesAreCounted ==
  ASSUME NEW h, WellFormed(h), NetsCounted(h), WeightsRight(h), CutRight(h),
         h.part \in [Nodes -> Int], \A w \in h.on : h.part[w] \in Parts,
         NEW part, \A w \in h.on : part[w] \in Parts, NEW g, g = MoveNodes(h, part)
  PROVE  NetsCounted(g) /\ WeightsRight(g) /\ CutRight(g)
<1>1. PICK S : S = MovedNodes(h, part)
  OBVIOUS
<1>2. h.on \subseteq Nodes
  BY DEF WellFormed, Typed
<1>3. IsFiniteSet(S)
  BY <1>1, <1>2, FS_Subset, KHypergraphAssumption DEF MovedNodes
<1>4. PICK c : Chain(h, g, part, S, c)
  BY <1>1, <1>3, MovesAreChain
<1>5. CountedSofar(h, part, {}, h)
  BY DEF CountedSofar
<1>6. CountedSofar(h, part, S, g)
  <2> SUFFICES ASSUME ~CountedSofar(h, part, S, g) PROVE FALSE
    OBVIOUS
  <2>1. PICK T : T = {s \in SUBSET S : ~CountedSofar(h, part, s, c[s])}
    OBVIOUS
  <2>2. T \in SUBSET SUBSET S /\ T # {}
    BY <1>4, <2>1 DEF Chain
  <2>3. PICK X \in T : \A Y \in T : Y \subseteq X => Y = X
    BY <1>3, <2>2, MinimalSet
  <2>4. X \in SUBSET S /\ ~CountedSofar(h, part, X, c[X])
    BY <2>1
  <2>5. X # {}
    BY <1>4, <1>5, <2>4 DEF Chain
  <2>6. PICK u \in X : c[X] = MoveOne(h, part, u, c[X \ {u}])
    BY <1>4, <2>4, <2>5 DEF Chain
  <2>7. PICK Y, f, k : Y = X \ {u} /\ f = c[Y] /\ k = c[X]
    OBVIOUS
  <2>8. CountedSofar(h, part, X \ {u}, f)
    BY <2>1, <2>3, <2>4, <2>6, <2>7
  <2>9. u \in h.on /\ part[u] \in Parts /\ part[u] # h.part[u]
    BY <1>1, <2>4, <2>6 DEF MovedNodes
  <2> QED
    BY <2>4, <2>6, <2>7, <2>8, <2>9, NextMoveIsCounted
<1> QED
  BY <1>6 DEF CountedSofar

(* The moves of the refiner.                                                *)
LEMMA RefineIsCounted ==
  ASSUME IInv, FixedInv, CountsInv, Refine, context' = context, Broken' <=> Broken
  PROVE  CountsInv'
<1>1. /\ phase = "refine" /\ phase' = "uncoarsen" /\ vcycle' = vcycle /\ vcycle \in Nat /\ context \in Contexts
  BY DEF Refine, IInv
<1>2. Sound' = Sound /\ HasPartition /\ HasPartition'
  BY <1>1 DEF Sound, HasPartition, Partitioned, action
<1>3. ~(Sound /\ Broken)
  BY <1>1 DEF CountsInv, CutShort
<1>4. context'.from_input_partition => vcycle' > 0 \/ phase' = "vcycle"
  BY <1>1 DEF CountsInv
<1>5. ASSUME Sound, ~Broken PROVE Counting'
  <2>1. PICK h, g : h = hg /\ g = hg'
    OBVIOUS
  <2>2. WellFormed(h) /\ NetsCounted(h) /\ WeightsRight(h) /\ CutRight(h)
    BY <1>1, <1>5, <2>1 DEF IInv, LevelsInv, CountsInv, Counting
  <2>3. h.part \in [Nodes -> Int] /\ Placed(h)
    BY <1>2, <2>1 DEF FixedInv, FitsIn, Basic
  <2>4. CASE g = h
    BY <2>1, <2>2, <2>4 DEF Counting
  <2>5. CASE g # h
    <3>1. PICK part \in [h.on -> Blocks] : g = MoveNodes(h, part)
      BY <2>1, <2>5 DEF Refine
    <3>2. \A w \in h.on : h.part[w] \in Parts /\ part[w] \in Parts
      BY <1>1, <2>3, <3>1, BlocksAreParts DEF Placed
    <3>3. NetsCounted(g) /\ WeightsRight(g) /\ CutRight(g)
      BY <2>2, <2>3, <3>1, <3>2, MovesAreCounted
    <3> QED
      BY <2>1, <3>3 DEF Counting
  <2> QED
    BY <2>4, <2>5
<1> QED
  BY <1>2, <1>3, <1>4, <1>5 DEF CountsInv

(* The start of a V-cycle.                                                  *)
LEMMA VCycleIsCounted ==
  ASSUME IInv, FixedInv, CountsInv, partitionVCycle, context' = context, Broken' <=> Broken
  PROVE  CountsInv'
<1>1. phase = "vcycle" /\ phase' = "pass" /\ vcycle' = vcycle + 1 /\ vcycle \in Nat /\ vcycle' > 0
  BY DEF partitionVCycle, IInv
<1>2. HasPartition'
  BY <1>1 DEF HasPartition, Partitioned
<1>3. Sound' => ~Broken /\ action # "combine" /\ Sound
  BY <1>1 DEF Sound, action
<1>4. ASSUME Sound, ~Broken PROVE Counting'
  <2>1. PICK h, g : h = hg /\ g = hg'
    OBVIOUS
  <2>2. WellFormed(h) /\ NetsCounted(h) /\ WeightsRight(h)
    BY <1>4, <2>1 DEF IInv, LevelsInv, CountsInv, Counting
  <2>3. g = resetEdgeHashes(h)
    BY <2>1 DEF partitionVCycle
  <2>4. NetsCounted(g) /\ WeightsRight(g)
    BY <2>2, <2>3, RecomputedIsCounted
  <2> QED
    BY <1>1, <2>1, <2>4 DEF Counting
<1> QED
  BY <1>1, <1>2, <1>3, <1>4 DEF CountsInv

(* The steps that leave the hypergraph alone.                               *)
LEMMA IdleIsCounted ==
  ASSUME IInv, CountsInv, ParallelInv, Idle, context' = context, Broken' <=> Broken
  PROVE  CountsInv'
<1>1. hg' = hg /\ history' = history /\ levels' = levels /\ vcycle' = vcycle
  BY DEF Idle
<1>2. Sound' = Sound /\ (HasPartition => HasPartition')
  BY <1>1 DEF Sound, HasPartition, Partitioned, action, Idle
<1>3. ~HasPartition' => Unplaced(hg')
  BY <1>1, <1>2 DEF CountsInv
<1>4. phase' \in {"uncoarsen", "refine"} => phase \in {"uncoarsen", "refine"}
  BY DEF Idle
<1>5. Counting => Counting'
  BY <1>1, <1>4 DEF Counting
<1>6. context'.from_input_partition => vcycle' > 0 \/ phase' = "vcycle"
  <2>1. phase = "vcycle" => phase' = "vcycle"
    BY DEF Idle
  <2> QED
    BY <1>1, <2>1 DEF CountsInv
<1>7. CutShort => CutShort'
  <2>1. phase \in {"uncoarsen", "vcycle", "done"} => phase' \in {"uncoarsen", "vcycle", "done"}
    BY DEF Idle
  <2> QED
    BY <1>1, <2>1 DEF CutShort
<1> QED
  BY <1>2, <1>3, <1>5, <1>6, <1>7 DEF CountsInv

(* Every step keeps what is counted.                                        *)
LEMMA StepIsCounted ==
  ASSUME IInv, FixedInv, MergesInv, ParallelInv, CountsInv, [Next]_vars
  PROVE  CountsInv'
<1>1. context' = context
  BY NextIs
<1>2. (~SoftTimeLimitExceeded => (Broken' <=> Broken)) /\ (SoftTimeLimitExceeded => Broken')
  BY BrokenStays
<1>3. CASE SoftTimeLimitExceeded
  BY <1>1, <1>2, <1>3, TimeLimitIsCounted
<1>4. CASE ~SoftTimeLimitExceeded
  <2>1. Broken' <=> Broken
    BY <1>2, <1>4
  <2> QED
    BY <1>1, <1>4, <2>1, NextIs, ContractionIsCounted, UncontractIsCounted, InitialPartitionIsCounted, RefineIsCounted,
       VCycleIsCounted, IdleIsCounted
<1> QED
  BY <1>3, <1>4

-----------------------------------------------------------------------------
(* What follows for the partition.                                          *)
PartitionInv == IInv /\ FixedInv /\ MergesInv /\ ParallelInv /\ CountsInv

(* All the invariants hold initially.                                       *)
LEMMA InitHasPartitionInv ==
  ASSUME Init
  PROVE  PartitionInv
BY InitIsInvariant, InitFits, InitMerges, InitFindsParallelNets, InitIsCounted DEF PartitionInv

(* Every step keeps all of them.                                            *)
LEMMA StepKeepsPartitionInv ==
  ASSUME PartitionInv, [Next]_vars
  PROVE  PartitionInv'
<1>1. IInv /\ FixedInv /\ MergesInv /\ ParallelInv /\ CountsInv
  BY DEF PartitionInv
<1>2. IInv' /\ FixedInv'
  BY <1>1, StepKeepsInvariant, StepFits
<1>3. MergesInv' /\ ParallelInv'
  BY <1>1, StepKeepsMerges, StepFindsParallelNets
<1>4. CountsInv'
  BY <1>1, StepIsCounted
<1> QED
  BY <1>2, <1>3, <1>4 DEF PartitionInv

(* The information about the partition, in the terms of the data structure. *)
LEMMA WeightSums ==
  ASSUME NEW h, NEW p
  PROVE  MapThenSumSet(LAMBDA u : h.weight[u], {u \in h.on : h.part[u] = p}) = SumOver(h.weight, NodesIn(h, h.part, p))
BY Zenon DEF SumOver, NodesIn

(* Right counts are those of the data structure.                            *)
LEMMA CountedIsRight ==
  ASSUME NEW h, WellFormed(h), NetsCounted(h), WeightsRight(h)
  PROVE  PinCountsAreRight(h) /\ PartWeightsAreRight(h) /\ (CutRight(h) => CutCountsAreRight(h))
<1>1. ASSUME NEW e \in h.live
      PROVE  /\ \A p \in Parts : h.pins_in_part[e][p] = Cardinality({u \in pins(h, e) : h.part[u] = p})
             /\ h.connectivity_set[e] = {p \in Parts : h.pins_in_part[e][p] > 0}
             /\ h.connectivity[e] = Cardinality(h.connectivity_set[e])
  <2>1. PICK P, f : P = pins(h, e) /\ f = h.part
    OBVIOUS
  <2>2. IsFiniteSet(P)
    BY <2>1, PinsAreFinite
  <2>3. NetCounted(h, e, P, f)
    BY <2>1 DEF NetsCounted
  <2>4. ASSUME NEW p \in Parts
        PROVE  /\ h.pins_in_part[e][p] = Cardinality({u \in P : f[u] = p})
               /\ h.pins_in_part[e][p] > 0 <=> PinsAt(P, f, p) # {}
    <3>1. h.pins_in_part[e][p] = Cardinality(PinsAt(P, f, p))
      BY <2>3 DEF NetCounted, Counts
    <3>2. Cardinality(PinsAt(P, f, p)) \in Nat /\ (Cardinality(PinsAt(P, f, p)) = 0 <=> PinsAt(P, f, p) = {})
      BY <2>2, CountsAre
    <3> QED
      BY <3>1, <3>2 DEF PinsAt
  <2>5. h.connectivity_set[e] = {p \in Parts : h.pins_in_part[e][p] > 0}
    BY <2>3, <2>4 DEF NetCounted, Spread
  <2>6. h.connectivity[e] = Cardinality(h.connectivity_set[e])
    BY <2>3 DEF NetCounted
  <2> QED
    BY <2>1, <2>4, <2>5, <2>6
<1>2. PinCountsAreRight(h)
  BY <1>1 DEF PinCountsAreRight
<1>3. ASSUME NEW p \in Parts
      PROVE  h.part_weight[p] = MapThenSumSet(LAMBDA u : h.weight[u], {u \in h.on : h.part[u] = p})
  <2>1. PICK f : f = h.part
    OBVIOUS
  <2>2. h.part_weight[p] = WeightOf(Structure(h), f, p)
    BY <2>1 DEF WeightsRight
  <2>3. WeightOf(Structure(h), f, p) = SumOver(h.weight, NodesIn(h, f, p))
    BY BlockWeighs
  <2> QED
    BY <2>1, <2>2, <2>3, WeightSums
<1>4. PartWeightsAreRight(h)
  BY <1>3 DEF PartWeightsAreRight
<1>5. ASSUME CutRight(h), NEW w \in h.on
      PROVE  h.num_cut[w] = numIncidentCutHEs(h, w)
  <2>1. w \in Nodes
    BY DEF WellFormed, Typed
  <2>2. h.nets[w] \subseteq h.live /\ \A e \in h.live : e \in h.nets[w] <=> w \in pins(h, e)
    BY NetsOfPins
  <2>3. {e \in h.nets[w] : h.connectivity[e] > 1} = CutAt(h, w)
    BY <2>2 DEF CutAt
  <2>4. h.num_cut[w] = Cardinality(CutAt(h, w))
    BY <1>5, <2>1 DEF CutRight
  <2> QED
    BY <2>3, <2>4 DEF numIncidentCutHEs
<1> QED
  BY <1>2, <1>4, <1>5 DEF CutCountsAreRight

(* What the blocks weigh and the partition costs is what it does on the     *)
(* first level, of nodes in the blocks of those that they went into.        *)
LEMMA MeasuredOnFirstLevel ==
  ASSUME PartitionInv, Sound, Partitioned
  PROVE  Measures(hg, levels[1], Projected(history, hg.part))
<1>1. CASE ~Broken
  <2>1. PICK h, H, RS, RP, LV : h = hg /\ H = history /\ RS = removed_single /\ RP = removed_parallel /\ LV = levels
    OBVIOUS
  <2>2. LevelsInv(h, H, RS, RP, LV) /\ MergesOK(H, RS, RP, LV)
    BY <1>1, <2>1 DEF PartitionInv, IInv, MergesInv
  <2>3. NetsCounted(h) /\ WeightsRight(h)
    BY <1>1, <2>1 DEF PartitionInv, CountsInv, Counting
  <2>4. h.part \in [Nodes -> Int] /\ Placed(h)
    BY <2>1 DEF PartitionInv, FixedInv, FitsIn, Basic, HasPartition
  <2>5. PICK f : f = Projected(H, h.part)
    OBVIOUS
  <2>6. Measures(h, LV[1], f)
    BY <2>2, <2>3, <2>4, <2>5, MeasuresProjected
  <2> QED
    BY <2>1, <2>5, <2>6
<1>2. CASE Broken
  <2>1. history = <<>> /\ Measures(hg, levels[1], hg.part)
    BY <1>2 DEF PartitionInv, CountsInv, CutShort
  <2>2. PICK b : b = hg.part
    OBVIOUS
  <2>3. Projected(<<>>, b) = b
    BY ProjectedNone
  <2> QED
    BY <2>1, <2>2, <2>3
<1> QED
  BY <1>1, <1>2

(* So the information about the partition is right.                         *)
LEMMA InfoIsRight ==
  ASSUME PartitionInv
  PROVE  PartitionInfoIsRight
<1>1. ASSUME Sound, ~Broken
      PROVE  /\ PinCountsAreRight(hg) /\ PartWeightsAreRight(hg)
             /\ phase \in {"refine", "uncoarsen"} => CutCountsAreRight(hg)
  <2>1. PICK h : h = hg
    OBVIOUS
  <2>2. WellFormed(h) /\ NetsCounted(h) /\ WeightsRight(h) /\ (phase \in {"refine", "uncoarsen"} => CutRight(h))
    BY <1>1, <2>1 DEF PartitionInv, IInv, LevelsInv, CountsInv, Counting
  <2> QED
    BY <2>1, <2>2, CountedIsRight
<1>2. ASSUME Sound, phase = "done"
      PROVE  \A p \in Parts : hg.part_weight[p] = WeightOf(levels[1], hg.part, p)
  <2>1. history = <<>> /\ Partitioned
    BY <1>2 DEF PartitionInv, ParallelInv, Partitioned
  <2>2. Measures(hg, levels[1], Projected(<<>>, hg.part))
    BY <1>2, <2>1, MeasuredOnFirstLevel
  <2>3. PICK b : b = hg.part
    OBVIOUS
  <2>4. Projected(<<>>, b) = b
    BY ProjectedNone
  <2> QED
    BY <2>2, <2>3, <2>4 DEF Measures
<1> QED
  BY <1>1, <1>2 DEF PartitionInfoIsRight

(* The pin counts, connectivities, weights of blocks and numbers of cut     *)
(* nets equal what they stand for on every level, through contractions,     *)
(* uncontractions, moves and V-cycles, and the weights of the blocks also   *)
(* after the time limit, for every hypergraph and every call                *)
(* (Hypergraph::contract, uncontract, changeNodePart, setNodePart and       *)
(* initializeNumCutHyperedges).                                             *)
THEOREM PartitionInfoStaysRight == Spec => []PartitionInfoIsRight
<1>1. Init => PartitionInv
  BY InitHasPartitionInv
<1>2. PartitionInv /\ [Next]_vars => PartitionInv'
  BY StepKeepsPartitionInv
<1>3. PartitionInv => PartitionInfoIsRight
  BY InfoIsRight
<1> QED
  BY <1>1, <1>2, <1>3, PTL DEF Spec

(* The cut and the connectivity of the coarse hypergraph are those of the   *)
(* input hypergraph under the projected partition, with nets merged and     *)
(* removed, and after the time limit, for every hypergraph and every call   *)
(* (metrics::hyperedgeCut and km1 on any level).                            *)
THEOREM ObjectiveIsProjected == Spec => []ObjectiveProjects
<1>1. Init => PartitionInv
  BY InitHasPartitionInv
<1>2. PartitionInv /\ [Next]_vars => PartitionInv'
  BY StepKeepsPartitionInv
<1>3. PartitionInv => ObjectiveProjects
  BY MeasuredOnFirstLevel DEF ObjectiveProjects, Measures
<1> QED
  BY <1>1, <1>2, <1>3, PTL DEF Spec

-----------------------------------------------------------------------------
(* The child of a combine.                                                  *)

(* The objective by its name.                                               *)
CostOf(o, L, f) == IF o = "km1" THEN km1Of(L, f) ELSE CutOf(L, f)

(* Levels cost whole numbers.                                               *)
LEMMA CostIsInt ==
  ASSUME NEW o, NEW L, NEW fixed_part, LevelOK(L, fixed_part), NEW f
  PROVE  CostOf(o, L, f) \in Int
<1>1. PICK D, w : D = L.live /\ w = L.edge_weight
  OBVIOUS
<1>2. IsFiniteSet(D)
  BY <1>1, FS_Subset, KHypergraphAssumption DEF LevelOK
<1>3. ASSUME NEW e \in D PROVE ConnectivityOf(L, f, e) \in Nat /\ w[e] \in Int
  BY <1>1, ConnectivityIs
<1>4. PICK a, b : a = Costs(CutFactors(L, f), w, D) /\ b = Costs(Km1Factors(L, f), w, D)
  OBVIOUS
<1>5. CutOf(L, f) = SumOver(a, D) /\ km1Of(L, f) = SumOver(b, D)
  BY <1>1, <1>4, CostsAre
<1>6. ASSUME NEW e \in D PROVE a[e] \in Int /\ b[e] \in Int
  <2>1. PICK c \in Nat, x \in Int : c = ConnectivityOf(L, f, e) /\ x = w[e]
    BY <1>3
  <2>2. a[e] = CutFactor(c) * x /\ b[e] = Km1Factor(c) * x
    BY <1>1, <1>4, <2>1 DEF Costs, CutFactors, Km1Factors
  <2>3. CutFactor(c) \in Int /\ Km1Factor(c) \in Int
    BY DEF CutFactor, Km1Factor
  <2>4. CutFactor(c) * x \in Int /\ Km1Factor(c) * x \in Int
    BY <2>3, Distributes
  <2> QED
    BY <2>2, <2>3, <2>4
<1>7. SumOver(a, D) \in Int /\ SumOver(b, D) \in Int
  BY <1>2, <1>6, SumType
<1> QED
  BY <1>5, <1>7 DEF CostOf

(* Only the blocks of the nodes that are there count.                       *)
LEMMA AgreeingCosts ==
  ASSUME NEW h, WellFormed(h), NEW f, NEW b, \A w \in h.on : f[w] = b[w], NEW o, NEW L, L = Structure(h)
  PROVE  CostOf(o, L, f) = CostOf(o, L, b)
<1>1. L.pins = [x \in h.live |-> pins(h, x)] /\ L.live = h.live
  BY Zenon, StructureIs
<1>2. ASSUME NEW e \in L.live PROVE ConnectivityOf(L, f, e) = ConnectivityOf(L, b, e)
  <2>1. PICK P : P = pins(h, e)
    OBVIOUS
  <2>2. L.pins[e] = P /\ P \subseteq h.on
    BY <1>1, <2>1, PinsAreFinite
  <2>3. {f[x] : x \in P} = {b[x] : x \in P}
    BY <2>2
  <2> QED
    BY <2>2, <2>3 DEF ConnectivityOf
<1>3. CutOf(L, f) = CutOf(L, b)
  <2>1. CutNets(L, f) = CutNets(L, b)
    BY <1>2 DEF CutNets
  <2> QED
    BY <2>1, CutOfIsSum
<1>4. km1Of(L, f) = km1Of(L, b)
  <2>1. Connectivities(L, f) = Connectivities(L, b)
    BY <1>2 DEF Connectivities
  <2> QED
    BY <2>1, Km1OfIsSum
<1> QED
  BY <1>3, <1>4 DEF CostOf

(* A partition that keeps together what the history contracts is its own    *)
(* projection: among the histories for which it is not there would be a     *)
(* shortest one.                                                            *)
KeepsTogether(H, n, f) == \A i \in 1 .. n : f[H[i].u] = f[H[i].v]
Scattered(n, f) == \E H : IsListOf(H, n) /\ KeepsTogether(H, n, f) /\ Projected(H, f) # f

(* A history with one more memento.                                         *)
LEMMA OneMoreTogether ==
  ASSUME NEW H, NEW n \in Nat, IsListOf(H, n + 1), NEW f \in [Nodes -> Int], KeepsTogether(H, n + 1, f),
         NEW H1, H1 = Front(H)
  PROVE  IsListOf(H1, n) /\ KeepsTogether(H1, n, f) /\ Projected(H, f) = Projected(H1, f)
<1>1. IsList(H1) /\ Len(H1) = n /\ Extends(H1, H, n)
  BY ListFront DEF IsListOf
<1>2. IsListOf(H1, n)
  BY <1>1 DEF IsListOf, IsList
<1>3. KeepsTogether(H1, n, f)
  BY <1>1 DEF KeepsTogether, Extends
<1>4. PICK c : c = ProjectOne(H, n + 1, f)
  OBVIOUS
<1>5. f[H[n + 1].u] = f[H[n + 1].v]
  <2>1. n + 1 \in 1 .. n + 1
    OBVIOUS
  <2> QED
    BY <2>1 DEF KeepsTogether
<1>6. c = f
  BY <1>4, <1>5 DEF ProjectOne
<1>7. Extends(H, H1, n)
  BY <1>1 DEF Extends
<1>8. Projected(H, f) = Projected(H1, c)
  BY <1>2, <1>4, <1>7, ProjectedLast
<1> QED
  BY <1>2, <1>3, <1>6, <1>8

(* So there is none.                                                        *)
LEMMA TogetherProjects ==
  ASSUME NEW n \in Nat, NEW H, IsListOf(H, n), NEW f \in [Nodes -> Int], KeepsTogether(H, n, f)
  PROVE  Projected(H, f) = f
<1> SUFFICES ASSUME Projected(H, f) # f PROVE FALSE
  OBVIOUS
<1>1. Scattered(n, f)
  BY DEF Scattered
<1>2. PICK T : T = {k \in 0 .. n : Scattered(k, f)}
  OBVIOUS
<1>3. AreNumbers(T) /\ T # {}
  <2>1. AreNumbers(0 .. n)
    BY FS_Interval DEF AreNumbers
  <2>2. T \subseteq 0 .. n /\ n \in T
    BY <1>1, <1>2
  <2> QED
    BY <2>1, <2>2, NumbersIn
<1>4. PICK k : k = Min(T)
  OBVIOUS
<1>5. k \in T /\ \A y \in T : k <= y
  BY <1>3, <1>4, LeastNumber
<1>6. k \in 0 .. n /\ Scattered(k, f)
  BY <1>2, <1>5
<1>7. PICK I : IsListOf(I, k) /\ KeepsTogether(I, k, f) /\ Projected(I, f) # f
  BY <1>6 DEF Scattered
<1>8. k # 0
  <2>1. ASSUME k = 0 PROVE FALSE
    <3>1. I = <<>>
      BY <1>7, <2>1 DEF IsListOf, IsList
    <3> QED
      BY <1>7, <3>1, ProjectedNone
  <2> QED
    BY <2>1
<1>9. PICK j \in Nat : k = j + 1
  <2>1. k - 1 \in Nat /\ k = (k - 1) + 1
    BY <1>6, <1>8
  <2> QED
    BY <2>1
<1>10. PICK I1 : I1 = Front(I)
  OBVIOUS
<1>11. IsListOf(I1, j) /\ KeepsTogether(I1, j, f) /\ Projected(I, f) = Projected(I1, f)
  BY <1>7, <1>9, <1>10, OneMoreTogether
<1>12. j \notin T /\ j \in 0 .. n
  BY <1>5, <1>6, <1>9
<1>13. ~Scattered(j, f)
  BY <1>2, <1>12
<1> QED
  BY <1>7, <1>11, <1>13 DEF Scattered

(* What a hypergraph with a partition costs is what the first level costs   *)
(* with the same partition, if the history kept it together.                *)
LEMMA PartitionMeasures ==
  ASSUME NEW h, NEW H, NEW RS, NEW RP, NEW LV, LevelsInv(h, H, RS, RP, LV), MergesOK(H, RS, RP, LV),
         NEW n \in Nat, IsListOf(H, n), NEW f \in [Nodes -> Int], KeepsTogether(H, n, f), NEW o
  PROVE  CostOf(o, Structure(h), f) = CostOf(o, LV[1], f)
<1>1. Projected(H, f) = f
  BY TogetherProjects
<1>2. SameCosts(LV[1], Structure(h), f, Projected(H, f))
  BY HypergraphProjects
<1> QED
  BY <1>1, <1>2 DEF SameCosts, CostOf

(* The objective of a hypergraph by its name.                               *)
LEMMA ObjectiveIsCost ==
  ASSUME NEW g, WellFormed(g), NetsCounted(g), NEW L, L = Structure(g), NEW f,
         \A w \in g.on : f[w] \in Parts /\ g.part[w] = f[w]
  PROVE  /\ objective(g) = CostOf(context.objective, L, f)
         /\ CostOf(context.objective, L, f) \in Int
<1>1. PICK b, o : b = g.part /\ o = context.objective
  OBVIOUS
<1>2. \A w \in g.on : b[w] \in Parts /\ b[w] = f[w]
  BY <1>1
<1>3. hyperedgeCut(g) = CutOf(L, b)
  BY <1>1, <1>2, ObjectiveIsCut
<1>4. km1(g) = km1Of(L, b)
  BY <1>1, <1>2, ObjectiveIsKm1
<1>5. CostOf(o, L, b) = CostOf(o, L, f)
  BY <1>2, AgreeingCosts
<1>6. objective(g) = CostOf(o, L, b)
  BY <1>1, <1>3, <1>4 DEF objective, CostOf
<1>7. CostOf(o, L, f) \in Int
  BY StructureIsLevel, CostIsInt
<1> QED
  BY <1>1, <1>5, <1>6, <1>7

(* A parent's partition of the hypergraph, before and after its cut nets    *)
(* are counted.                                                             *)
LEMMA ParentIsMeasured ==
  ASSUME NEW h, WellFormed(h), NEW part \in [Nodes -> Int], \A w \in Nodes : part[w] \in Parts,
         NEW s, s = setPartition(h, part), NEW g, g = initializeNumCutHyperedges(s), NEW L, L = Structure(h)
  PROVE  /\ objective(s) = CostOf(context.objective, L, part) /\ objective(g) = objective(s)
         /\ objective(s) \in Int
<1>1. PICK r : r = reset(h)
  OBVIOUS
<1>2. WellFormed(r) /\ Structure(r) = L
  BY <1>1, ResetIsCounted
<1>3. WellFormed(s) /\ NetsCounted(s) /\ WeightsRight(s) /\ Structure(s) = L
  BY SetPartitionIsCounted
<1>4. WellFormed(g) /\ NetsCounted(g) /\ SameBlocks(s, g) /\ Structure(g) = L
  BY <1>3, RecomputedIsCounted
<1>5. r.on = L.on /\ s.on = L.on /\ g.on = L.on /\ L.on \subseteq Nodes
  BY <1>2, <1>3, <1>4, StructureIs DEF WellFormed, Typed
<1>6. s = AssignParts(r, part) /\ IsHypergraph(r)
  BY <1>1, <1>2 DEF setPartition, WellFormed, Typed
<1>7. Assigned(r, s, part)
  BY <1>6, AssignPartsInfo
<1>8. \A w \in L.on : s.part[w] = part[w] /\ part[w] \in Parts
  BY <1>5, <1>7 DEF Assigned
<1>9. \A w \in L.on : g.part[w] = part[w]
  BY <1>4, <1>8 DEF SameBlocks
<1>10. \A w \in s.on : part[w] \in Parts /\ s.part[w] = part[w]
  BY <1>5, <1>8
<1>11. \A w \in g.on : part[w] \in Parts /\ g.part[w] = part[w]
  BY <1>5, <1>8, <1>9
<1>12. objective(s) = CostOf(context.objective, L, part) /\ CostOf(context.objective, L, part) \in Int
  BY <1>3, <1>10, ObjectiveIsCost
<1>13. objective(g) = CostOf(context.objective, L, part)
  BY <1>4, <1>11, ObjectiveIsCost
<1> QED
  BY <1>12, <1>13

-----------------------------------------------------------------------------
(* The invariant of a combine: contraction keeps together what it merges in *)
(* both parents, and the child is no worse from the initial partition on.   *)
Together == \A j \in {1, 2} : KeepsTogether(history, Len(history), parents[j])
NoWorse ==
  /\ objective(hg) \in Int
  /\ \A j \in {1, 2} : ParentObjective(parents[j]) \in Int /\ objective(hg) <= ParentObjective(parents[j])
ChildInv ==
  vcycle = 0 /\ action = "combine" =>
    /\ phase \in {"pass", "visit", "coarsened"} => Together
    /\ phase \in {"uncoarsen", "refine", "done"} => NoWorse

(* It holds initially.                                                      *)
LEMMA InitHasChildInv ==
  ASSUME Init
  PROVE  ChildInv
<1>1. history = <<>> /\ phase \in {"pass", "vcycle"}
  BY DEF Init
<1>2. Len(history) = 0
  BY <1>1
<1> QED
  BY <1>1, <1>2 DEF ChildInv, Together, KeepsTogether

(* The parents are partitions.                                              *)
LEMMA ParentsAre ==
  ASSUME context \in Contexts, action = "combine", NEW j \in {1, 2}
  PROVE  parents[j] \in [Nodes -> Int] /\ \A w \in Nodes : parents[j][w] \in Parts
<1>1. PICK p : p = parents[j]
  OBVIOUS
<1>2. p \in PartitionsOf(context.hypergraph, context.k)
  BY <1>1, ContextsAssumption DEF parents, action
<1>3. p \in [Nodes -> Int] /\ \A w \in Nodes : p[w] \in Parts
  BY <1>2, PartitionsFit
<1> QED
  BY <1>1, <1>3

(* The first level stays.                                                   *)
LEMMA FirstLevelStays ==
  ASSUME IInv, [Next]_vars
  PROVE  levels'[1] = levels[1]
<1>1. PICK n \in Nat, k \in Nat : n = Len(history) /\ k = Len(levels) /\ k >= n + 1 /\ IsList(levels) /\ IsList(history)
  BY ListLength DEF IInv
<1>2. CASE Contraction
  <2>1. PICK L : levels' = Append(levels, L)
    BY <1>2, ContractionIsPushed
  <2>2. Extends(levels', levels, k)
    BY <1>1, <2>1, ListAppended DEF IsAppended
  <2>3. 1 \in 1 .. k
    BY <1>1
  <2> QED
    BY <2>2, <2>3 DEF Extends
<1>3. CASE Uncontract
  <2>1. history # <<>> /\ levels' = Front(levels)
    BY <1>3 DEF Uncontract
  <2>2. n > 0
    BY <1>1, <2>1, ListLength
  <2>3. PICK j \in Nat : k = j + 1 /\ j >= 1
    <3>1. k - 1 \in Nat /\ k = (k - 1) + 1 /\ k - 1 >= 1
      BY <1>1, <2>2
    <3> QED
      BY <3>1
  <2>4. Extends(levels', levels, j)
    BY <1>1, <2>1, <2>3, ListFront
  <2>5. 1 \in 1 .. j
    BY <2>3
  <2> QED
    BY <2>4, <2>5 DEF Extends
<1>4. CASE SoftTimeLimitExceeded \/ InitialPartition \/ Refine \/ partitionVCycle \/ Idle
  BY <1>4 DEF SoftTimeLimitExceeded, InitialPartition, Refine, partitionVCycle, Idle
<1> QED
  BY <1>2, <1>3, <1>4, NextIs

(* A contraction keeps both parents together.                               *)
LEMMA ContractionKeepsTogether ==
  ASSUME IInv, Contraction, action = "combine", Together, context' = context
  PROVE  Together'
<1>1. PICK u, v, m : v \in Targets(u) /\ Pushes(hg, u, v, hg', history, history', m)
  BY ContractionIsPushed
<1>2. m.u = u /\ m.v = v /\ history' = Append(history, m)
  BY <1>1 DEF Pushes
<1>3. PICK n \in Nat : n = Len(history) /\ IsList(history)
  BY ListLength DEF IInv
<1>4. Len(history') = n + 1 /\ history'[n + 1] = m /\ Extends(history', history, n)
  BY <1>2, <1>3, ListAppended DEF IsAppended
<1>5. parents[1][u] = parents[1][v] /\ parents[2][u] = parents[2][v]
  BY <1>1, TargetSharesBlock DEF acceptPartition
<1>6. ASSUME NEW j \in {1, 2} PROVE KeepsTogether(history', n + 1, parents[j])
  <2>1. PICK f, H, H1 : f = parents[j] /\ H = history /\ H1 = history'
    OBVIOUS
  <2>2. \A i \in 1 .. n : f[H[i].u] = f[H[i].v]
    BY <1>3, <2>1 DEF Together, KeepsTogether
  <2>3. f[u] = f[v]
    BY <1>5, <2>1
  <2>4. ASSUME NEW i \in 1 .. n + 1 PROVE f[H1[i].u] = f[H1[i].v]
    <3>1. CASE i = n + 1
      BY <1>2, <1>4, <2>1, <2>3, <3>1
    <3>2. CASE i \in 1 .. n
      BY <1>4, <2>1, <2>2, <3>2 DEF Extends
    <3> QED
      BY <3>1, <3>2
  <2> QED
    BY <2>1, <2>4 DEF KeepsTogether
<1>7. parents' = parents
  BY DEF parents
<1> QED
  BY <1>4, <1>6, <1>7 DEF Together

(* In a combine's only cycle everything is counted while it can be undone.  *)
LEMMA CombineIsCounted ==
  ASSUME PartitionInv, vcycle = 0, history # <<>> \/ phase \in {"pass", "visit", "coarsened", "refine"}
  PROVE  ~Broken /\ NetsCounted(hg) /\ WeightsRight(hg)
<1>1. Sound
  BY DEF Sound
<1>2. ~Broken
  BY <1>1 DEF PartitionInv, CountsInv, CutShort
<1> QED
  BY <1>1, <1>2 DEF PartitionInv, CountsInv, Counting

(* The child starts as the better parent.                                   *)
LEMMA ChildStartsNoWorse ==
  ASSUME PartitionInv, vcycle = 0, action = "combine", Together, InitialPartition, context' = context
  PROVE  NoWorse'
<1>1. phase = "coarsened" /\ context \in Contexts /\ levels' = levels
  BY DEF InitialPartition, PartitionInv, IInv
<1>2. ~Broken /\ NetsCounted(hg)
  BY <1>1, CombineIsCounted
<1>3. PICK h, H, RS, RP, LV, g, o :
        h = hg /\ H = history /\ RS = removed_single /\ RP = removed_parallel /\ LV = levels /\ g = hg'
        /\ o = context.objective
  OBVIOUS
<1>4. LevelsInv(h, H, RS, RP, LV) /\ MergesOK(H, RS, RP, LV)
  BY <1>2, <1>3 DEF PartitionInv, IInv, MergesInv
<1>5. PICK n \in Nat : n = Len(H)
  BY <1>4, ListLength DEF LevelsInv
<1>6. IsListOf(H, n)
  <2>1. PICK X : H \in Seq(X)
    BY <1>4 DEF LevelsInv, IsList
  <2> QED
    BY <1>4, <1>5, <2>1 DEF IsListOf, LevelsInv
<1>7. WellFormed(h)
  BY <1>4 DEF LevelsInv
<1>8. PICK f1, f2, s1, s2 : /\ f1 = parents[1] /\ f2 = parents[2]
                            /\ s1 = setPartition(h, f1) /\ s2 = setPartition(h, f2)
  OBVIOUS
<1>9. PICK g1, g2, L : g1 = initializeNumCutHyperedges(s1) /\ g2 = initializeNumCutHyperedges(s2) /\ L = Structure(h)
  OBVIOUS
<1>10. f1 \in [Nodes -> Int] /\ (\A w \in Nodes : f1[w] \in Parts) /\ f2 \in [Nodes -> Int] /\ \A w \in Nodes : f2[w] \in Parts
  BY <1>1, <1>8, ParentsAre
<1>11. KeepsTogether(H, n, f1) /\ KeepsTogether(H, n, f2)
  BY <1>3, <1>5, <1>8 DEF Together
<1>12. objective(s1) = CostOf(o, L, f1) /\ objective(g1) = objective(s1) /\ objective(s1) \in Int
  BY <1>3, <1>7, <1>8, <1>9, <1>10, ParentIsMeasured
<1>13. objective(s2) = CostOf(o, L, f2) /\ objective(g2) = objective(s2) /\ objective(s2) \in Int
  BY <1>3, <1>7, <1>8, <1>9, <1>10, ParentIsMeasured
<1>14. CostOf(o, L, f1) = CostOf(o, LV[1], f1) /\ CostOf(o, L, f2) = CostOf(o, LV[1], f2)
  BY <1>4, <1>5, <1>6, <1>9, <1>10, <1>11, PartitionMeasures
<1>15. ParentObjective(f1) = objective(s1) /\ ParentObjective(f2) = objective(s2)
  BY <1>3, <1>12, <1>13, <1>14 DEF ParentObjective, CostOf
<1>16. g = IF objective(s1) < objective(s2) THEN g1 ELSE g2
  <2>1. g = initializeNumCutHyperedges(BetterParent(h))
    <3>1. PartitionsAfterCoarsening = {BetterParent(hg)}
      BY DEF PartitionsAfterCoarsening
    <3> QED
      BY <1>3, <3>1 DEF InitialPartition
  <2>2. BetterParent(h) = IF objective(s1) < objective(s2) THEN s1 ELSE s2
    BY <1>8 DEF BetterParent
  <2> QED
    BY <1>9, <2>1, <2>2
<1>17. objective(g) \in Int /\ objective(g) <= objective(s1) /\ objective(g) <= objective(s2)
  BY <1>12, <1>13, <1>16
<1>18. /\ ParentObjective(f1) \in Int /\ objective(g) <= ParentObjective(f1)
       /\ ParentObjective(f2) \in Int /\ objective(g) <= ParentObjective(f2)
  BY <1>12, <1>13, <1>15, <1>17
<1>19. objective(hg)' = objective(g)
  BY <1>3 DEF objective
<1>20. \A j \in {1, 2} : ParentObjective(parents[j])' = ParentObjective(parents[j])
  BY <1>1 DEF ParentObjective, parents
<1> QED
  BY <1>8, <1>17, <1>18, <1>19, <1>20 DEF NoWorse

(* An uncontraction changes no cost.                                        *)
LEMMA UncontractKeepsObjective ==
  ASSUME PartitionInv, PartitionInv', vcycle = 0, Uncontract, context' = context, Broken' <=> Broken
  PROVE  objective(hg)' = objective(hg)
<1>1. phase = "uncoarsen" /\ phase' = "refine" /\ vcycle' = 0 /\ history # <<>>
  BY DEF Uncontract
<1>2. ~Broken /\ NetsCounted(hg) /\ HasPartition /\ HasPartition'
  BY <1>1, CombineIsCounted DEF HasPartition, Partitioned
<1>3. PICK h, H, RS, RP, LV, g, o :
        h = hg /\ H = history /\ RS = removed_single /\ RP = removed_parallel /\ LV = levels /\ g = hg'
        /\ o = context.objective
  OBVIOUS
<1>4. LevelsInv(h, H, RS, RP, LV) /\ MergesOK(H, RS, RP, LV) /\ NetsCounted(h)
  BY <1>2, <1>3 DEF PartitionInv, IInv, MergesInv
<1>5. h.part \in [Nodes -> Int] /\ Placed(h) /\ Placed(g)
  BY <1>2, <1>3 DEF PartitionInv, FixedInv, FitsIn, Basic
<1>6. WellFormed(h) /\ WellFormed(g)
  BY <1>2, <1>3, <1>4 DEF PartitionInv, IInv, LevelsInv
<1>7. PICK m, S, P, cut, c, a, s : Pops(h, H, RS, RP, m, S, P, cut, c, a, s, g)
  BY <1>3, PopHappens
<1>8. /\ NetsCounted(g) /\ g.part = With(h.part, m)
      /\ \E A : Step(A, Structure(h), m, S, P) /\ Structure(g) = A
  BY <1>1, <1>3, <1>4, <1>5, <1>7, PopKeepsCounts
<1>9. PICK A : Step(A, Structure(h), m, S, P) /\ Structure(g) = A
  BY <1>8
<1>10. PICK B, f, f1 : B = Structure(h) /\ f = h.part /\ f1 = With(f, m)
  OBVIOUS
<1>11. CutOf(B, f) = CutOf(A, f1) /\ km1Of(B, f) = km1Of(A, f1)
  BY <1>5, <1>9, <1>10, StepKeepsCosts
<1>12. \A w \in h.on : f[w] \in Parts /\ h.part[w] = f[w]
  BY <1>5, <1>10 DEF Placed
<1>13. \A w \in g.on : f1[w] \in Parts /\ g.part[w] = f1[w]
  BY <1>5, <1>8, <1>10 DEF Placed
<1>14. objective(h) = CostOf(o, B, f)
  BY <1>3, <1>4, <1>6, <1>10, <1>12, ObjectiveIsCost
<1>15. objective(g) = CostOf(o, A, f1)
  BY <1>3, <1>6, <1>8, <1>9, <1>13, ObjectiveIsCost
<1>16. objective(g) = objective(h)
  BY <1>11, <1>14, <1>15 DEF CostOf
<1>17. objective(hg)' = objective(g)
  BY <1>3 DEF objective
<1> QED
  BY <1>3, <1>16, <1>17

(* Nor does the time limit.                                                 *)
LEMMA TimeLimitKeepsObjective ==
  ASSUME PartitionInv, SoftTimeLimitExceeded, context' = context
  PROVE  objective(hg)' = objective(hg)
<1>1. history' = <<>> /\ hg' = RestoreMementos(hg, history)
  BY DEF SoftTimeLimitExceeded
<1>2. PICK h, H, g, fp : h = hg /\ H = history /\ g = hg' /\ fp = context.hypergraph.fixed_part
  OBVIOUS
<1>3. Basic(h, fp) /\ HistoryFits(h.on, fp, H, Len(H)) /\ IsList(H)
  BY <1>2 DEF PartitionInv, FixedInv, FitsIn, IInv
<1>4. PICK n \in Nat : n = Len(H)
  BY <1>3, ListLength
<1>5. IsListOf(H, n)
  <2>1. PICK X : H \in Seq(X)
    BY <1>3 DEF IsList
  <2> QED
    BY <1>3, <1>4, <2>1 DEF IsListOf
<1>6. g = RestoreMementos(h, H) /\ HistoryFits(h.on, fp, H, n)
  BY <1>1, <1>2, <1>3, <1>4
<1>7. AllPutBack(h, fp, H, n, g)
  BY <1>3, <1>5, <1>6, HistoryIsPutBack
<1>8. hyperedgeCut(g) = hyperedgeCut(h) /\ km1(g) = km1(h)
  BY <1>7, SameObjective DEF AllPutBack, SameCounts
<1> QED
  BY <1>2, <1>8 DEF objective

(* Every step keeps it.                                                     *)
LEMMA StepKeepsChildInv ==
  ASSUME PartitionInv, PartitionInv', ChildInv, [Next]_vars
  PROVE  ChildInv'
<1>1. context' = context /\ action' = action /\ parents' = parents
  BY NextIs DEF action, parents
<1>2. levels'[1] = levels[1] /\ context \in Contexts /\ vcycle \in Nat
  BY FirstLevelStays DEF PartitionInv, IInv
<1>3. SUFFICES ASSUME vcycle' = 0, action = "combine"
               PROVE  /\ phase' \in {"pass", "visit", "coarsened"} => Together'
                      /\ phase' \in {"uncoarsen", "refine", "done"} => NoWorse'
  BY <1>1 DEF ChildInv
<1>4. \A j \in {1, 2} : ParentObjective(parents[j])' = ParentObjective(parents[j])
  BY <1>1, <1>2 DEF ParentObjective, parents
<1>5. NoWorse /\ objective(hg)' = objective(hg) => NoWorse'
  BY <1>4 DEF NoWorse
<1>6. ~SoftTimeLimitExceeded => (Broken' <=> Broken)
  BY BrokenStays DEF PartitionInv
<1>7. CASE Contraction
  <2>1. phase = "visit" /\ phase' = "visit" /\ vcycle = 0
    BY <1>3, <1>7 DEF Contraction
  <2>2. Together
    BY <1>3, <2>1 DEF ChildInv
  <2> QED
    BY <1>1, <1>3, <1>7, <2>1, <2>2, ContractionKeepsTogether DEF PartitionInv
<1>8. CASE Uncontract
  <2>1. phase = "uncoarsen" /\ phase' = "refine" /\ vcycle = 0
    BY <1>3, <1>8 DEF Uncontract
  <2>2. NoWorse
    BY <1>3, <2>1 DEF ChildInv
  <2>3. ~SoftTimeLimitExceeded
    BY <2>1, <1>8 DEF Uncontract, SoftTimeLimitExceeded
  <2>4. objective(hg)' = objective(hg)
    BY <1>1, <1>6, <1>8, <2>1, <2>3, UncontractKeepsObjective
  <2> QED
    BY <1>5, <2>1, <2>2, <2>4
<1>9. CASE SoftTimeLimitExceeded
  <2>1. phase = "uncoarsen" /\ phase' = "uncoarsen" /\ vcycle = 0
    BY <1>3, <1>9 DEF SoftTimeLimitExceeded
  <2>2. NoWorse
    BY <1>3, <2>1 DEF ChildInv
  <2>3. objective(hg)' = objective(hg)
    BY <1>1, <1>9, TimeLimitKeepsObjective
  <2> QED
    BY <1>5, <2>1, <2>2, <2>3
<1>10. CASE InitialPartition
  <2>1. phase = "coarsened" /\ phase' = "uncoarsen" /\ vcycle = 0
    BY <1>3, <1>10 DEF InitialPartition
  <2>2. Together
    BY <1>3, <2>1 DEF ChildInv
  <2> QED
    BY <1>1, <1>3, <1>10, <2>1, <2>2, ChildStartsNoWorse
<1>11. CASE Refine
  <2>1. phase = "refine" /\ phase' = "uncoarsen" /\ vcycle = 0
    BY <1>3, <1>11 DEF Refine
  <2>2. NoWorse
    BY <1>3, <2>1 DEF ChildInv
  <2>3. CASE hg' = hg
    <3>1. objective(hg)' = objective(hg)
      BY <1>1, <2>3 DEF objective
    <3> QED
      BY <1>5, <2>1, <2>2, <3>1
  <2>4. CASE hg' # hg
    <3>1. objective(hg)' = objective(hg')
      BY <1>1 DEF objective
    <3>2. PICK h, g, o, L, f : h = hg /\ g = hg' /\ o = context.objective /\ L = Structure(g) /\ f = g.part
      OBVIOUS
    <3>3. vcycle' = 0 /\ HasPartition'
      BY <2>1, <1>3 DEF HasPartition, Partitioned
    <3>4. ~SoftTimeLimitExceeded
      BY <2>1 DEF SoftTimeLimitExceeded
    <3>5. ~Broken'
      BY <1>6, <2>1, <3>4, CombineIsCounted
    <3>6. WellFormed(g) /\ NetsCounted(g) /\ Placed(g)
      <4>1. Sound'
        BY <1>3 DEF Sound
      <4> QED
        BY <3>2, <3>3, <3>5, <4>1 DEF PartitionInv, IInv, LevelsInv, FixedInv, CountsInv, Counting
    <3>7. \A w \in g.on : f[w] \in Parts /\ g.part[w] = f[w]
      BY <3>2, <3>6 DEF Placed
    <3>8. objective(g) \in Int
      BY <3>2, <3>6, <3>7, ObjectiveIsCost
    <3>9. objective(g) < objective(h) \/ objective(g) <= objective(h)
      BY <1>11, <2>4, <3>2 DEF Refine, Improves
    <3>10. NoWorse'
      BY <1>4, <2>2, <3>1, <3>2, <3>8, <3>9 DEF NoWorse
    <3> QED
      BY <2>1, <3>10
  <2> QED
    BY <2>3, <2>4
<1>12. CASE partitionVCycle
  <2>1. vcycle' = vcycle + 1
    BY <1>12 DEF partitionVCycle
  <2> QED
    BY <1>2, <1>3, <2>1
<1>13. CASE Idle
  <2>1. hg' = hg /\ history' = history /\ vcycle = 0
    BY <1>3, <1>13 DEF Idle
  <2>2. phase' \in {"pass", "visit", "coarsened"} => phase \in {"pass", "visit", "coarsened"}
    BY <1>13 DEF Idle
  <2>3. phase' \in {"uncoarsen", "refine", "done"} => phase \in {"uncoarsen", "refine", "done"}
    BY <1>13 DEF Idle
  <2>4. Together => Together'
    BY <1>1, <2>1 DEF Together, parents
  <2>5. objective(hg)' = objective(hg)
    BY <1>1, <2>1 DEF objective
  <2> QED
    BY <1>3, <1>5, <2>1, <2>2, <2>3, <2>4, <2>5 DEF ChildInv
<1> QED
  BY <1>7, <1>8, <1>9, <1>10, <1>11, <1>12, <1>13, NextIs

(* The child of a combine is no worse than either parent, whatever the      *)
(* hypergraph, the parents and the moves of the refiner, and also when the  *)
(* time limit strikes: contraction keeps together what it merges in both    *)
(* parents, and no step from the better parent on raises the objective (the *)
(* assertion of combine::partitions).                                       *)
THEOREM ChildStaysNoWorse == Spec => []ChildIsNoWorse
<1>1. Init => PartitionInv /\ ChildInv
  BY InitHasPartitionInv, InitHasChildInv
<1>2. PartitionInv /\ ChildInv /\ [Next]_vars => (PartitionInv /\ ChildInv)'
  BY StepKeepsPartitionInv, StepKeepsChildInv
<1>3. PartitionInv /\ ChildInv => ChildIsNoWorse
  <2> SUFFICES ASSUME PartitionInv, ChildInv, Sound, phase = "done", action = "combine"
               PROVE  /\ objective(hg) <= ParentObjective(parents[1])
                      /\ objective(hg) <= ParentObjective(parents[2])
    BY DEF ChildIsNoWorse
  <2>1. vcycle = 0
    BY DEF Sound, PartitionInv, IInv
  <2>2. NoWorse
    BY <2>1 DEF ChildInv
  <2> QED
    BY <2>2 DEF NoWorse
<1> QED
  BY <1>1, <1>2, <1>3, PTL DEF Spec
=============================================================================
