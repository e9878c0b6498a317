--------------------------- MODULE MultilevelProofs ---------------------------
(***************************************************************************)
(* Uncoarsening gives back exactly what coarsening met: the property       *)
(* LevelsAreRestored of the multilevel scheme, for every hypergraph, every *)
(* choice of the rater, the pruner and the refiner, and every number of    *)
(* V-cycles.                                                               *)
(*                                                                         *)
(* The argument.  A contraction loses nothing: what it changes of a net is *)
(* the order of its slots and, when both nodes are pins, its size, and the *)
(* slot it cuts off still holds the node contracted away; a removed net    *)
(* keeps its pins, weight and slots; a node contracted away keeps its nets *)
(* and its weight.  So beside the current hypergraph being well-formed,    *)
(* the invariant (LevelsInv) says for every earlier level that the next    *)
(* one is coarser by exactly the contraction of the memento (Coarser), and *)
(* that the hypergraph still holds what undoing it needs (Hidden,          *)
(* TailsOK); the mementos cut the two stacks of removed nets into adjacent *)
(* segments (MementosOK).  What a step does to one net, to the hypergraph  *)
(* and to the earlier levels is proved in this order.                      *)
(*                                                                         *)
(* On top of it, SlackCoversHeaviestNode: every level has a maximum on the *)
(* stack that was reached at no fewer nodes and covers it (SlackOK), and   *)
(* the maxima come at ever fewer nodes, so one pop per uncontraction, one  *)
(* level late, never drops a maximum that a level left still needs.        *)
(***************************************************************************)
EXTENDS Multilevel, SumsProofs

-----------------------------------------------------------------------------
(* The parts of the inductive invariant, for a hypergraph h, a history H,   *)
(* the stacks RS and RP of removed nets and the levels LV.                  *)

(* The pins of a net that held P after v was contracted into u.             *)
Merged(P, u, v) == IF v \in P THEN (P \ {v}) \cup {u} ELSE P
Cut(P, u, v) == u \in P /\ v \in P

Segment(S, begin, n) == {S[j] : j \in begin + 1 .. begin + n}
Single(RS, m) == Segment(RS, m.one_pin_hes_begin, m.one_pin_hes_size)
Parallel(RP, m) == Segment(RP, m.parallel_hes_begin, m.parallel_hes_size)
RemovedNets(P) == {p.removed : p \in P}

(* Net e holds the pins P, each once.                                       *)
Holds(h, e, P) ==
  /\ h.slots[e] \in Seq(Nodes) /\ h.size[e] \in 0 .. Len(h.slots[e])
  /\ \A i, j \in 1 .. h.size[e] : h.slots[e][i] = h.slots[e][j] => i = j
  /\ pins(h, e) = P /\ h.size[e] = Cardinality(P)

IsLevel(L) ==
  L = [on |-> L.on, live |-> L.live, num_pins |-> L.num_pins, pins |-> L.pins,
       edge_weight |-> L.edge_weight, nets |-> L.nets, weight |-> L.weight, fixed |-> L.fixed]

LevelOK(L, fixed_part) ==
  /\ IsLevel(L)
  /\ L.on \subseteq Nodes /\ L.live \subseteq Nets
  /\ L.pins \in [L.live -> SUBSET L.on]
  /\ L.nets = [u \in L.on |-> {e \in L.live : u \in L.pins[e]}]
  /\ L.weight \in [L.on -> Int] /\ L.edge_weight \in [L.live -> Int]
  /\ L.num_pins = SumOver([e \in L.live |-> Cardinality(L.pins[e])], L.live)
  /\ L.fixed = {u \in L.on : fixed_part[u] # kInvalidPartition}

MergedNets(P, e) == {p.removed : p \in {q \in P : q.representative = e}}
MergedWeight(w, P, e) == SumOver(w, MergedNets(P, e))

(* B is A after the contraction m that removed the nets S and Q.            *)
Coarser(A, B, m, S, P, fixed_part) ==
  /\ m.u \in B.on /\ m.v \notin B.on /\ A.on = B.on \cup {m.v}
  /\ S \subseteq A.live /\ RemovedNets(P) \subseteq A.live
  /\ S \cap RemovedNets(P) = {}
  /\ B.live = A.live \ (S \cup RemovedNets(P))
  /\ \A p \in P : p.representative \in B.live
  /\ \A e \in B.live : B.pins[e] = Merged(A.pins[e], m.u, m.v)
  /\ \A e \in B.live : B.edge_weight[e] = A.edge_weight[e] + MergedWeight(A.edge_weight, P, e)
  /\ B.weight[m.u] = A.weight[m.u] + A.weight[m.v] /\ \A w \in B.on \ {m.u} : B.weight[w] = A.weight[w]
  /\ fixed_part[m.v] # kInvalidPartition => fixed_part[m.u] = fixed_part[m.v]

Nested(A, B) ==
  /\ B.on \subseteq A.on /\ B.live \subseteq A.live
  /\ \A e \in B.live : Cardinality(B.pins[e]) <= Cardinality(A.pins[e])

(* What h still has of level A, which the contraction m ended.              *)
Hidden(h, A, m, R) ==
  /\ h.weight[m.v] = A.weight[m.v] /\ h.nets[m.v] = A.nets[m.v]
  /\ \A e \in R : Holds(h, e, Merged(A.pins[e], m.u, m.v)) /\ h.edge_weight[e] = A.edge_weight[e]
  /\ \A e \in A.live : Cut(A.pins[e], m.u, m.v) =>
       /\ h.size[e] < Cardinality(A.pins[e]) /\ Cardinality(A.pins[e]) <= Len(h.slots[e])
       /\ h.slots[e][Cardinality(A.pins[e])] = m.v

(* The slots that were cut off before level A hold nodes that are not on it. *)
TailsOK(h, A) ==
  \A e \in A.live :
    /\ h.size[e] <= Cardinality(A.pins[e]) /\ Cardinality(A.pins[e]) <= Len(h.slots[e])
    /\ \A j \in Cardinality(A.pins[e]) + 1 .. Len(h.slots[e]) : h.slots[e][j] \notin A.on

-----------------------------------------------------------------------------
(* The slots of one net.                                                    *)

(* The first n elements of s.                                               *)
First(s, n) == {s[i] : i \in 1 .. n}

(* The first n elements of a sequence of nodes are finitely many.           *)
LEMMA HeldIsFinite ==
  ASSUME NEW h, NEW e, NEW P, Holds(h, e, P)
  PROVE  IsFiniteSet(P) /\ P \subseteq Nodes
<1>1. PICK n \in Nat : n = h.size[e] /\ n <= Len(h.slots[e])
  BY DEF Holds
<1>2. PICK s \in Seq(Nodes) : s = h.slots[e]
  BY DEF Holds
<1>3. IsFiniteSet(1 .. n)
  BY FS_Interval
<1>4. P = First(s, n)
  BY <1>1, <1>2 DEF Holds, pins, First
<1>5. IsFiniteSet(First(s, n))
  BY <1>3, ImageIsFinite DEF First
<1>6. \A i \in 1 .. n : s[i] \in Nodes
  BY <1>1, <1>2
<1> QED
  BY <1>4, <1>5, <1>6 DEF First

(* v swapped to the end of the n pins of s.                                 *)
SwappedIn(s, n, v) ==
  [i \in DOMAIN s |-> IF i = n THEN v ELSE IF i < n /\ s[i] = v THEN s[n] ELSE s[i]]

Distinct(s, n) == \A i, j \in 1 .. n : s[i] = s[j] => i = j

(* t has the slots of s but for the first n.                                *)
SameTail(s, t, n) ==
  /\ t \in Seq(Nodes) /\ Len(t) = Len(s)
  /\ \A j \in n + 1 .. Len(s) : t[j] = s[j]

(* SwappedToEnd on one net: the last pin is v, the pins stay the same, and  *)
(* so do the slots that were cut off.                                       *)
LEMMA Swapped ==
  ASSUME NEW s \in Seq(Nodes), NEW n \in 1 .. Len(s), Distinct(s, n), NEW v \in Nodes,
         NEW k \in 1 .. n, s[k] = v, NEW t, t = SwappedIn(s, n, v)
  PROVE  /\ SameTail(s, t, n) /\ Distinct(t, n) /\ t[n] = v
         /\ First(t, n) = First(s, n)
         /\ First(t, n - 1) = First(s, n) \ {v}
<1>1. Len(s) \in Nat /\ DOMAIN s = 1 .. Len(s) /\ n \in Nat /\ n <= Len(s)
  OBVIOUS
<1>2. \A i \in 1 .. Len(s) : t[i] = IF i = n THEN v ELSE IF i < n /\ s[i] = v THEN s[n] ELSE s[i]
  BY <1>1 DEF SwappedIn
<1>3. \A i \in 1 .. n : s[i] = v <=> i = k
  BY DEF Distinct
<1>4. \A i \in 1 .. n : t[i] = IF i = n THEN v ELSE IF i = k THEN s[n] ELSE s[i]
  BY <1>1, <1>2, <1>3
<1>5. t \in Seq(Nodes) /\ Len(t) = Len(s)
  <2>1. \A i \in 1 .. Len(s) : s[i] \in Nodes
    OBVIOUS
  <2>2. t \in [1 .. Len(s) -> Nodes]
    BY <1>1, <2>1 DEF SwappedIn
  <2> QED
    BY <1>1, <2>2
<1>6. SameTail(s, t, n)
  BY <1>1, <1>2, <1>5 DEF SameTail
<1>7. Distinct(t, n)
  BY <1>4, <1>1 DEF Distinct
<1>8. \A i \in 1 .. n : t[i] = s[IF i = n THEN k ELSE IF i = k THEN n ELSE i]
  BY <1>4
<1>9. \A i \in 1 .. n : s[i] = t[IF i = n THEN k ELSE IF i = k THEN n ELSE i]
  BY <1>4, <1>1
<1>10. First(t, n) = First(s, n)
  BY <1>8, <1>9 DEF First
<1>11. t[n] = v
  BY <1>4, <1>1
<1>12. First(t, n - 1) = First(t, n) \ {v}
  <2>1. \A i \in 1 .. n : i \in 1 .. n - 1 <=> t[i] # v
    BY <1>1, <1>7, <1>11 DEF Distinct
  <2> QED
    BY <2>1, <1>1 DEF First
<1> QED
  BY <1>6, <1>7, <1>10, <1>11, <1>12

(* u for the k-th element.                                                  *)
ReplacedIn(s, k, u) == [s EXCEPT ![k] = u]

(* Giving the last pin slot to u replaces v by u among the pins.            *)
LEMMA Replaced ==
  ASSUME NEW s \in Seq(Nodes), NEW n \in 1 .. Len(s), Distinct(s, n), NEW k \in 1 .. n,
         NEW u \in Nodes, u \notin First(s, n), NEW t, t = ReplacedIn(s, k, u)
  PROVE  /\ SameTail(s, t, n) /\ Distinct(t, n)
         /\ First(t, n) = (First(s, n) \ {s[k]}) \cup {u}
<1>1. Len(s) \in Nat /\ DOMAIN s = 1 .. Len(s) /\ n \in Nat /\ n <= Len(s)
  OBVIOUS
<1>2. \A i \in 1 .. Len(s) : t[i] = IF i = k THEN u ELSE s[i]
  BY <1>1 DEF ReplacedIn
<1>3. t \in Seq(Nodes) /\ Len(t) = Len(s)
  BY DEF ReplacedIn
<1>4. SameTail(s, t, n)
  BY <1>1, <1>2, <1>3 DEF SameTail
<1>5. Distinct(t, n)
  <2>1. \A i \in 1 .. n : s[i] # u
    BY DEF First
  <2>2. \A i \in 1 .. n : t[i] = IF i = k THEN u ELSE s[i]
    BY <1>1, <1>2
  <2> QED
    BY <2>1, <2>2 DEF Distinct
<1>6. \A i \in 1 .. n : i # k => s[i] # s[k]
  BY DEF Distinct
<1>7. First(t, n) = (First(s, n) \ {s[k]}) \cup {u}
  <2>1. \A i \in 1 .. n : t[i] = IF i = k THEN u ELSE s[i]
    BY <1>1, <1>2
  <2> QED
    BY <2>1, <1>6 DEF First
<1> QED
  BY <1>4, <1>5, <1>7

-----------------------------------------------------------------------------
(* The operations, field by field.                                          *)

(* The fields of a hypergraph.                                              *)
IsHypergraph(h) ==
  h = [slots |-> h.slots, size |-> h.size, nets |-> h.nets, weight |-> h.weight,
       edge_weight |-> h.edge_weight, on |-> h.on, live |-> h.live, num_pins |-> h.num_pins,
       hash |-> h.hash, part |-> h.part, part_weight |-> h.part_weight,
       part_size |-> h.part_size, pins_in_part |-> h.pins_in_part,
       connectivity |-> h.connectivity, connectivity_set |-> h.connectivity_set,
       num_cut |-> h.num_cut, fixed_part |-> h.fixed_part, fixed |-> h.fixed,
       fixed_weight |-> h.fixed_weight]

(* g has the nets, nodes and weights of h: the partition may differ.        *)
SameStructure(h, g) ==
  /\ g.slots = h.slots /\ g.size = h.size /\ g.nets = h.nets /\ g.weight = h.weight
  /\ g.edge_weight = h.edge_weight /\ g.on = h.on /\ g.live = h.live
  /\ g.num_pins = h.num_pins /\ g.fixed_part = h.fixed_part /\ g.fixed = h.fixed

(* The pin counts per block are no part of the structure.                   *)
LEMMA PinCountsKeepStructure ==
  ASSUME NEW h, IsHypergraph(h), NEW E, NEW p, NEW g,
         g = decrementPinCountInPart(h, E, p) \/ g = incrementPinCountInPart(h, E, p)
  PROVE  IsHypergraph(g) /\ SameStructure(h, g)
BY DEF IsHypergraph, SameStructure, decrementPinCountInPart, incrementPinCountInPart

(* What a contraction does to the structure.                                *)
Contracted(h, g, u, v) ==
  /\ g.slots = [e \in Nets |->
                  IF e \in h.nets[v] \cap h.nets[u] THEN SwappedToEnd(h, e, v)
                  ELSE IF e \in h.nets[v] \ h.nets[u]
                    THEN [SwappedToEnd(h, e, v) EXCEPT ![h.size[e]] = u]
                  ELSE h.slots[e]]
  /\ g.size = [e \in Nets |-> IF e \in h.nets[v] \cap h.nets[u] THEN h.size[e] - 1 ELSE h.size[e]]
  /\ g.nets = [h.nets EXCEPT ![u] = h.nets[u] \cup (h.nets[v] \ h.nets[u])]
  /\ g.weight = [h.weight EXCEPT ![u] = h.weight[u] + h.weight[v]]
  /\ g.edge_weight = h.edge_weight /\ g.on = h.on \ {v} /\ g.live = h.live
  /\ g.num_pins = h.num_pins - Cardinality(h.nets[v] \cap h.nets[u])
  /\ g.fixed_part = h.fixed_part
  /\ g.fixed = IF isFixedVertex(h, u) THEN h.fixed \ {v} ELSE h.fixed

(* contract, field by field.                                                *)
LEMMA ContractIs ==
  ASSUME NEW h, IsHypergraph(h), NEW u, NEW v, NEW g, g = contract(h, u, v)
  PROVE  IsHypergraph(g) /\ Contracted(h, g, u, v)
<1> USE DEF IsHypergraph, decrementPinCountInPart, contract
<1>1. IsHypergraph(g)
  OBVIOUS
<1>2. g.slots = [e \in Nets |->
                   IF e \in h.nets[v] \cap h.nets[u] THEN SwappedToEnd(h, e, v)
                   ELSE IF e \in h.nets[v] \ h.nets[u]
                     THEN [SwappedToEnd(h, e, v) EXCEPT ![h.size[e]] = u]
                   ELSE h.slots[e]]
  OBVIOUS
<1>3. g.size = [e \in Nets |-> IF e \in h.nets[v] \cap h.nets[u] THEN h.size[e] - 1 ELSE h.size[e]]
  OBVIOUS
<1>4. g.nets = [h.nets EXCEPT ![u] = h.nets[u] \cup (h.nets[v] \ h.nets[u])]
  OBVIOUS
<1>5. g.weight = [h.weight EXCEPT ![u] = h.weight[u] + h.weight[v]]
  OBVIOUS
<1>6. /\ g.edge_weight = h.edge_weight /\ g.on = h.on \ {v} /\ g.live = h.live
      /\ g.fixed_part = h.fixed_part
  OBVIOUS
<1>7. g.num_pins = h.num_pins - Cardinality(h.nets[v] \cap h.nets[u])
  OBVIOUS
<1>8. g.fixed = IF isFixedVertex(h, u) THEN h.fixed \ {v} ELSE h.fixed
  OBVIOUS
<1> QED
  BY <1>1, <1>2, <1>3, <1>4, <1>5, <1>6, <1>7, <1>8 DEF Contracted

(* What an uncontraction does to the structure.                             *)
Uncontracted(h, g, u, v) ==
  LET cut_off == CutOffPins(h, u, v)
      reused == ReusedSlots(h, u, v)
  IN /\ g.slots = [e \in Nets |-> IF e \in reused
                                    THEN resetReusedPinSlotToOriginalValue(h, e, u, v) ELSE h.slots[e]]
     /\ g.size = [e \in Nets |-> IF e \in cut_off THEN h.size[e] + 1 ELSE h.size[e]]
     /\ g.nets = [h.nets EXCEPT ![u] = h.nets[u] \ reused]
     /\ g.weight = [h.weight EXCEPT ![u] = h.weight[u] - h.weight[v]]
     /\ g.edge_weight = h.edge_weight /\ g.on = h.on \cup {v} /\ g.live = h.live
     /\ g.num_pins = h.num_pins + Cardinality(cut_off)
     /\ g.fixed_part = h.fixed_part
     /\ g.fixed = IF isFixedVertex(h, u) /\ isFixedVertex(h, v) THEN h.fixed \cup {v} ELSE h.fixed

(* What restoreMemento does to the structure.                               *)
MementoRestored(h, g, u, v) ==
  /\ g.slots = h.slots /\ g.size = h.size /\ g.nets = h.nets /\ g.weight = h.weight
  /\ g.edge_weight = h.edge_weight /\ g.on = h.on \cup {v} /\ g.live = h.live
  /\ g.num_pins = h.num_pins /\ g.fixed_part = h.fixed_part
  /\ g.fixed = IF isFixedVertex(h, u) /\ isFixedVertex(h, v) THEN h.fixed \cup {v} ELSE h.fixed

(* restoreMemento, field by field.                                          *)
LEMMA RestoreMementoIs ==
  ASSUME NEW h, IsHypergraph(h), NEW u, NEW v, NEW g, g = restoreMemento(h, u, v)
  PROVE  IsHypergraph(g) /\ MementoRestored(h, g, u, v)
<1> USE DEF IsHypergraph, restoreMemento
<1>1. IsHypergraph(g)
  OBVIOUS
<1>2. /\ g.slots = h.slots /\ g.size = h.size /\ g.nets = h.nets /\ g.weight = h.weight
      /\ g.edge_weight = h.edge_weight /\ g.on = h.on \cup {v} /\ g.live = h.live
      /\ g.num_pins = h.num_pins /\ g.fixed_part = h.fixed_part
  OBVIOUS
<1>3. g.fixed = IF isFixedVertex(h, u) /\ isFixedVertex(h, v) THEN h.fixed \cup {v} ELSE h.fixed
  OBVIOUS
<1> QED
  BY <1>1, <1>2, <1>3 DEF MementoRestored

(* uncontract, field by field.                                              *)
LEMMA UncontractIs ==
  ASSUME NEW h, IsHypergraph(h), NEW u, NEW v, NEW g, g = uncontract(h, u, v)
  PROVE  IsHypergraph(g) /\ Uncontracted(h, g, u, v)
<1> DEFINE cut_off == CutOffPins(h, u, v)
           reused == ReusedSlots(h, u, v)
<1>1. PICK r : r = restoreMemento(h, u, v)
  OBVIOUS
<1>2. PICK f : f = incrementPinCountInPart(r, cut_off, h.part[u])
  OBVIOUS
<1>3. IsHypergraph(r) /\ MementoRestored(h, r, u, v)
  BY <1>1, RestoreMementoIs
<1>4. IsHypergraph(f) /\ SameStructure(r, f)
  BY <1>2, <1>3, PinCountsKeepStructure
<1>5. PICK c : g = [f EXCEPT
                 !.size = [e \in Nets |-> IF e \in cut_off THEN f.size[e] + 1 ELSE f.size[e]],
                 !.slots = [e \in Nets |-> IF e \in reused
                                    THEN resetReusedPinSlotToOriginalValue(h, e, u, v) ELSE f.slots[e]],
                 !.nets[u] = @ \ reused,
                 !.num_cut = c,
                 !.num_pins = f.num_pins + Cardinality(cut_off),
                 !.weight[u] = f.weight[u] - h.weight[v]]
  BY <1>1, <1>2, Zenon DEF uncontract
<1>6. /\ IsHypergraph(g)
      /\ g.size = [e \in Nets |-> IF e \in cut_off THEN f.size[e] + 1 ELSE f.size[e]]
      /\ g.slots = [e \in Nets |-> IF e \in reused
                      THEN resetReusedPinSlotToOriginalValue(h, e, u, v) ELSE f.slots[e]]
      /\ g.nets = [f.nets EXCEPT ![u] = f.nets[u] \ reused]
      /\ g.weight = [f.weight EXCEPT ![u] = f.weight[u] - h.weight[v]]
      /\ g.num_pins = f.num_pins + Cardinality(cut_off)
  BY <1>4, <1>5 DEF IsHypergraph
<1>7. /\ g.edge_weight = f.edge_weight /\ g.on = f.on /\ g.live = f.live
      /\ g.fixed_part = f.fixed_part /\ g.fixed = f.fixed
  BY <1>4, <1>5 DEF IsHypergraph
<1> QED
  BY <1>3, <1>4, <1>6, <1>7 DEF SameStructure, MementoRestored, Uncontracted

(* What the removal of the nets E does to the structure.                    *)
EdgesRemoved(h, g, E) ==
  /\ g.slots = h.slots /\ g.size = h.size /\ g.weight = h.weight
  /\ g.edge_weight = h.edge_weight /\ g.on = h.on /\ g.live = h.live \ E
  /\ g.nets = [u \in Nodes |-> h.nets[u] \ {e \in E : u \in pins(h, e)}]
  /\ g.num_pins = h.num_pins - SumOver(h.size, E)
  /\ g.fixed_part = h.fixed_part /\ g.fixed = h.fixed

(* removeEdges, field by field.                                             *)
LEMMA RemoveEdgesIs ==
  ASSUME NEW h, IsHypergraph(h), NEW E, NEW g, g = removeEdges(h, E)
  PROVE  IsHypergraph(g) /\ EdgesRemoved(h, g, E)
<1> USE DEF IsHypergraph, removeEdges
<1>1. IsHypergraph(g)
  OBVIOUS
<1>2. /\ g.slots = h.slots /\ g.size = h.size /\ g.weight = h.weight
      /\ g.edge_weight = h.edge_weight /\ g.on = h.on /\ g.live = h.live \ E
      /\ g.fixed_part = h.fixed_part /\ g.fixed = h.fixed
  OBVIOUS
<1>3. g.nets = [u \in Nodes |-> h.nets[u] \ {e \in E : u \in pins(h, e)}]
  OBVIOUS
<1>4. g.num_pins = h.num_pins - MapThenSumSet(LAMBDA e : h.size[e], E)
  OBVIOUS
<1>5. MapThenSumSet(LAMBDA e : h.size[e], E) = SumOver(h.size, E)
  BY Zenon DEF SumOver
<1>6. g.num_pins = h.num_pins - SumOver(h.size, E)
  BY <1>4, <1>5, Zenon
<1> QED
  BY <1>1, <1>2, <1>3, <1>6 DEF EdgesRemoved

(* What the return of the nets E does to the structure.                     *)
EdgesRestored(h, g, E) ==
  /\ g.slots = h.slots /\ g.size = h.size /\ g.weight = h.weight
  /\ g.edge_weight = h.edge_weight /\ g.on = h.on /\ g.live = h.live \cup E
  /\ g.nets = [u \in Nodes |-> h.nets[u] \cup {e \in E : u \in pins(h, e)}]
  /\ g.num_pins = h.num_pins + SumOver(h.size, E)
  /\ g.fixed_part = h.fixed_part /\ g.fixed = h.fixed

(* restoreEdges, field by field.                                            *)
LEMMA RestoreEdgesIs ==
  ASSUME NEW h, IsHypergraph(h), NEW E, NEW cut, NEW g, g = restoreEdges(h, E, cut)
  PROVE  IsHypergraph(g) /\ EdgesRestored(h, g, E)
<1> USE DEF IsHypergraph, restoreEdges
<1>1. IsHypergraph(g)
  OBVIOUS
<1>2. /\ g.slots = h.slots /\ g.size = h.size /\ g.weight = h.weight
      /\ g.edge_weight = h.edge_weight /\ g.on = h.on /\ g.live = h.live \cup E
      /\ g.fixed_part = h.fixed_part /\ g.fixed = h.fixed
  OBVIOUS
<1>3. g.nets = [u \in Nodes |-> h.nets[u] \cup {e \in E : u \in [f \in E |-> pins(h, f)][e]}]
  OBVIOUS
<1>4. g.nets = [u \in Nodes |-> h.nets[u] \cup {e \in E : u \in pins(h, e)}]
  BY <1>3, Zenon
<1>5. g.num_pins = h.num_pins + MapThenSumSet(LAMBDA e : h.size[e], E)
  OBVIOUS
<1>6. MapThenSumSet(LAMBDA e : h.size[e], E) = SumOver(h.size, E)
  BY Zenon DEF SumOver
<1>7. g.num_pins = h.num_pins + SumOver(h.size, E)
  BY <1>5, <1>6, Zenon
<1> QED
  BY <1>1, <1>2, <1>4, <1>7 DEF EdgesRestored

(* What the weights of parallel nets do to the structure.                   *)
WeightsAdded(h, g, P, sign) ==
  /\ g.slots = h.slots /\ g.size = h.size /\ g.nets = h.nets /\ g.weight = h.weight
  /\ g.edge_weight
       = [e \in Nets |-> h.edge_weight[e] + sign * MergedWeight(h.edge_weight, P, e)]
  /\ g.on = h.on /\ g.live = h.live /\ g.num_pins = h.num_pins
  /\ g.fixed_part = h.fixed_part /\ g.fixed = h.fixed

(* AddToWeights, field by field.                                            *)
LEMMA AddToWeightsIs ==
  ASSUME NEW h, IsHypergraph(h), NEW P, NEW sign, NEW g, g = AddToWeights(h, P, sign)
  PROVE  IsHypergraph(g) /\ WeightsAdded(h, g, P, sign)
<1> USE DEF IsHypergraph, AddToWeights
<1>1. IsHypergraph(g)
  OBVIOUS
<1>2. g.edge_weight = [e \in Nets |-> h.edge_weight[e]
                         + sign * MapThenSumSet(LAMBDA r : h.edge_weight[r],
                                                {p.removed : p \in {q \in P : q.representative = e}})]
  OBVIOUS
<1>3. /\ g.slots = h.slots /\ g.size = h.size /\ g.nets = h.nets /\ g.weight = h.weight
      /\ g.on = h.on /\ g.live = h.live /\ g.num_pins = h.num_pins
      /\ g.fixed_part = h.fixed_part /\ g.fixed = h.fixed
  OBVIOUS
<1>4. \A e : MapThenSumSet(LAMBDA r : h.edge_weight[r],
                            {p.removed : p \in {q \in P : q.representative = e}})
              = MergedWeight(h.edge_weight, P, e)
  BY Zenon DEF MergedWeight, MergedNets, SumOver
<1>5. g.edge_weight
        = [e \in Nets |-> h.edge_weight[e] + sign * MergedWeight(h.edge_weight, P, e)]
  BY <1>2, <1>4, Zenon
<1> QED
  BY <1>1, <1>3, <1>5 DEF WeightsAdded

(* A move of the refiner leaves the structure alone.                        *)
LEMMA ChangeNodePartIs ==
  ASSUME NEW h, IsHypergraph(h), NEW u, NEW p, NEW q, NEW g, g = changeNodePart(h, u, p, q)
  PROVE  IsHypergraph(g) /\ SameStructure(h, g)
<1>1. PICK m : m = [h EXCEPT
                !.part[u] = q,
                !.part_weight = [b \in Parts |->
                                   IF b = p THEN h.part_weight[b] - h.weight[u]
                                   ELSE IF b = q THEN h.part_weight[b] + h.weight[u] ELSE h.part_weight[b]],
                !.part_size = [b \in Parts |-> IF b = p THEN h.part_size[b] - 1
                                               ELSE IF b = q THEN h.part_size[b] + 1 ELSE h.part_size[b]]]
  OBVIOUS
<1>2. PICK d : d = decrementPinCountInPart(m, h.nets[u], p)
  OBVIOUS
<1>3. PICK i : i = incrementPinCountInPart(d, h.nets[u], q)
  OBVIOUS
<1>4. \E x : g = AddToCut(i, x)
  BY <1>1, <1>2, <1>3, Zenon DEF changeNodePart
<1>5. IsHypergraph(m) /\ SameStructure(h, m)
  BY <1>1 DEF IsHypergraph, SameStructure
<1>6. IsHypergraph(d) /\ SameStructure(m, d)
  BY <1>2, <1>5, PinCountsKeepStructure
<1>7. IsHypergraph(i) /\ SameStructure(d, i)
  BY <1>3, <1>6, PinCountsKeepStructure
<1>8. IsHypergraph(g) /\ SameStructure(i, g)
  BY <1>4, <1>7 DEF IsHypergraph, AddToCut, SameStructure
<1> QED
  BY <1>5, <1>6, <1>7, <1>8 DEF SameStructure

(* So do the assignment of blocks, reset and the recomputations.            *)
LEMMA PartitionOperationsKeepStructure ==
  ASSUME NEW h, IsHypergraph(h), NEW part, NEW g,
         \/ g = initializeNumCutHyperedges(h) \/ g = resetEdgeHashes(h) \/ g = reset(h)
         \/ g = AssignParts(h, part)
  PROVE  IsHypergraph(g) /\ SameStructure(h, g)
<1>1. CASE g = initializeNumCutHyperedges(h)
  BY <1>1 DEF IsHypergraph, SameStructure, initializeNumCutHyperedges
<1>2. CASE g = resetEdgeHashes(h)
  BY <1>2 DEF IsHypergraph, SameStructure, resetEdgeHashes
<1>3. CASE g = reset(h)
  <2>1. PICK f : f = resetPartitioning(h)
    OBVIOUS
  <2>2. IsHypergraph(f) /\ SameStructure(h, f)
    BY <2>1 DEF IsHypergraph, SameStructure, resetPartitioning
  <2>3. g = [f EXCEPT !.hash = [e \in Nets |-> HashOf(pins(h, e))]]
    BY <1>3, <2>1 DEF reset
  <2>4. IsHypergraph(g) /\ SameStructure(f, g)
    BY <2>2, <2>3 DEF IsHypergraph, SameStructure
  <2> QED
    BY <2>2, <2>4 DEF SameStructure
<1>4. CASE g = AssignParts(h, part)
  BY <1>4 DEF IsHypergraph, SameStructure, AssignParts
<1> QED
  BY <1>1, <1>2, <1>3, <1>4

-----------------------------------------------------------------------------
(* One net under contraction and uncontraction.                             *)

(* A net that holds P has its first size[e] slots as pins.                  *)
LEMMA HeldIs ==
  ASSUME NEW h, NEW e, NEW P, Holds(h, e, P)
  PROVE  \E s \in Seq(Nodes), n \in 0 .. Len(h.slots[e]) :
           /\ s = h.slots[e] /\ n = h.size[e] /\ Distinct(s, n)
           /\ P = First(s, n) /\ n = Cardinality(P)
BY DEF Holds, pins, Distinct, First

(* A net holds P when its first slots are distinct and make up P.           *)
LEMMA HoldsIf ==
  ASSUME NEW h, NEW e, NEW P, NEW s \in Seq(Nodes), NEW n \in 0 .. Len(s), s = h.slots[e],
         n = h.size[e], Distinct(s, n), P = First(s, n), n = Cardinality(P)
  PROVE  Holds(h, e, P)
BY DEF Holds, pins, Distinct, First

(* Nets with the same slots and size hold the same.                         *)
LEMMA SameNet ==
  ASSUME NEW h, NEW g, NEW e, NEW P, Holds(h, e, P), g.slots[e] = h.slots[e], g.size[e] = h.size[e]
  PROVE  Holds(g, e, P)
BY DEF Holds, pins

(* A contraction takes one pin from the nets with both nodes, and none from *)
(* the others.                                                              *)
LEMMA MergedCardinality ==
  ASSUME NEW P, IsFiniteSet(P), NEW u, NEW v, u # v
  PROVE  /\ IsFiniteSet(Merged(P, u, v))
         /\ Cut(P, u, v) => Cardinality(P) = Cardinality(Merged(P, u, v)) + 1
         /\ ~ Cut(P, u, v) => Cardinality(P) = Cardinality(Merged(P, u, v))
         /\ Cardinality(Merged(P, u, v)) \in Nat
<1>1. CASE v \notin P
  BY <1>1, FS_CardinalityType DEF Merged, Cut
<1>2. CASE v \in P
  <2>1. IsFiniteSet(P \ {v}) /\ Cardinality(P \ {v}) = Cardinality(P) - 1 /\ Cardinality(P) \in Nat
    BY <1>2, FS_RemoveElement, FS_CardinalityType
  <2>2. Cardinality(P \ {v}) \in Nat
    BY <2>1, FS_CardinalityType
  <2>3. CASE u \in P
    <3>1. Merged(P, u, v) = P \ {v}
      BY <1>2, <2>3 DEF Merged
    <3> QED
      BY <1>2, <2>1, <2>2, <2>3, <3>1 DEF Cut
  <2>4. CASE u \notin P
    <3>1. Merged(P, u, v) = (P \ {v}) \cup {u} /\ u \notin P \ {v}
      BY <1>2, <2>4 DEF Merged
    <3>2. IsFiniteSet((P \ {v}) \cup {u}) /\ Cardinality((P \ {v}) \cup {u}) = Cardinality(P \ {v}) + 1
      BY <2>1, <3>1, FS_AddElement
    <3> QED
      BY <2>1, <2>2, <2>4, <3>1, <3>2 DEF Cut
  <2> QED
    BY <2>3, <2>4
<1> QED
  BY <1>1, <1>2

(* What a contraction does to one net.                                      *)
NetContracted(h, g, e, P, u, v) ==
  /\ Holds(g, e, Merged(P, u, v))
  /\ SameTail(h.slots[e], g.slots[e], h.size[e])
  /\ Cut(P, u, v) => h.size[e] >= 1 /\ g.size[e] = h.size[e] - 1 /\ g.slots[e][h.size[e]] = v
  /\ ~Cut(P, u, v) => g.size[e] = h.size[e]

(* SwappedToEnd is the swap of one net.                                     *)
LEMMA SwappedToEndIs ==
  ASSUME NEW h, NEW e, NEW v
  PROVE  SwappedToEnd(h, e, v) = SwappedIn(h.slots[e], h.size[e], v)
BY DEF SwappedToEnd, SwappedIn

(* A net that held P holds Merged(P, u, v) after the contraction, and the   *)
(* slot behind it holds v when it was cut off.                              *)
LEMMA ContractNet ==
  ASSUME NEW h, NEW g, NEW u \in Nodes, NEW v \in Nodes, u # v, Contracted(h, g, u, v),
         NEW e \in Nets, NEW P, Holds(h, e, P),
         e \in h.nets[u] <=> u \in P, e \in h.nets[v] <=> v \in P
  PROVE  NetContracted(h, g, e, P, u, v)
<1>1. PICK s \in Seq(Nodes), n \in 0 .. Len(h.slots[e]) :
           /\ s = h.slots[e] /\ n = h.size[e] /\ Distinct(s, n)
           /\ P = First(s, n) /\ n = Cardinality(P)
  BY HeldIs
<1>2. /\ IsFiniteSet(P) /\ IsFiniteSet(Merged(P, u, v))
      /\ Cut(P, u, v) => Cardinality(P) = Cardinality(Merged(P, u, v)) + 1
      /\ ~ Cut(P, u, v) => Cardinality(P) = Cardinality(Merged(P, u, v))
      /\ Cardinality(Merged(P, u, v)) \in Nat
  BY HeldIsFinite, MergedCardinality
<1>3. CASE v \notin P
  <2>1. g.slots[e] = s /\ g.size[e] = n
    BY <1>1, <1>3 DEF Contracted
  <2>2. Merged(P, u, v) = P /\ ~ Cut(P, u, v)
    BY <1>3 DEF Merged, Cut
  <2>3. Holds(g, e, P)
    BY <1>1, <2>1, SameNet
  <2>4. SameTail(s, s, n)
    BY DEF SameTail
  <2> QED
    BY <1>1, <2>1, <2>2, <2>3, <2>4 DEF NetContracted
<1>4. CASE v \in P
  <2>1. PICK k \in 1 .. n : s[k] = v
    BY <1>1, <1>4 DEF First
  <2>2. n \in 1 .. Len(s) /\ n \in Nat
    BY <1>1, <2>1
  <2>3. PICK t : t = SwappedIn(s, n, v)
    OBVIOUS
  <2>4. /\ SameTail(s, t, n) /\ Distinct(t, n) /\ t[n] = v
        /\ First(t, n) = First(s, n)
        /\ First(t, n - 1) = First(s, n) \ {v}
    BY <1>1, <2>1, <2>2, <2>3, Swapped
  <2>5. SwappedToEnd(h, e, v) = t
    BY <1>1, <2>3, SwappedToEndIs
  <2>6. t \in Seq(Nodes) /\ Len(t) = Len(s)
    BY <2>4 DEF SameTail
  <2>7. CASE u \in P
    <3>1. g.slots[e] = t /\ g.size[e] = n - 1
      BY <1>1, <1>4, <2>5, <2>7 DEF Contracted
    <3>a. PICK Q : Q = Merged(P, u, v)
      OBVIOUS
    <3>2. Q = P \ {v} /\ Cut(P, u, v)
      BY <1>4, <2>7, <3>a DEF Merged, Cut
    <3>3. Distinct(t, n - 1) /\ n - 1 \in 0 .. Len(t)
      BY <2>2, <2>4, <2>6 DEF Distinct
    <3>4. Q = First(t, n - 1)
      BY <1>1, <2>4, <3>2
    <3>5. n - 1 = Cardinality(Q)
      <4>1. Cardinality(P) = Cardinality(Q) + 1 /\ Cardinality(Q) \in Nat
        BY <1>2, <3>2, <3>a
      <4>2. n = Cardinality(P)
        BY <1>1
      <4> QED
        BY <4>1, <4>2
    <3>6. Holds(g, e, Q)
      BY <2>6, <3>1, <3>3, <3>4, <3>5, HoldsIf
    <3>7. SameTail(h.slots[e], g.slots[e], h.size[e])
      BY <1>1, <2>4, <3>1
    <3>8. h.size[e] >= 1 /\ g.size[e] = h.size[e] - 1 /\ g.slots[e][h.size[e]] = v
      BY <1>1, <2>2, <2>4, <3>1
    <3> QED
      BY <3>2, <3>6, <3>7, <3>8, <3>a DEF NetContracted
  <2>8. CASE u \notin P
    <3>1. g.slots[e] = [t EXCEPT ![n] = u] /\ g.size[e] = n
      BY <1>1, <1>4, <2>5, <2>8 DEF Contracted
    <3>2. Merged(P, u, v) = (P \ {v}) \cup {u} /\ ~ Cut(P, u, v)
      BY <1>4, <2>8 DEF Merged, Cut
    <3>3. PICK r : r = ReplacedIn(t, n, u) /\ g.slots[e] = r
      BY <3>1 DEF ReplacedIn
    <3>4. n \in 1 .. n /\ n \in 1 .. Len(t) /\ u \notin First(t, n)
      BY <1>1, <2>2, <2>4, <2>6, <2>8
    <3>5. /\ SameTail(t, r, n) /\ Distinct(r, n)
          /\ First(r, n) = (First(t, n) \ {t[n]}) \cup {u}
      BY <2>4, <2>6, <3>3, <3>4, Replaced
    <3>6. SameTail(s, r, n)
      BY <2>2, <2>4, <2>6, <3>5 DEF SameTail
    <3>7. (P \ {v}) \cup {u} = First(r, n)
      BY <1>1, <2>4, <3>5
    <3>8. n = Cardinality((P \ {v}) \cup {u})
      BY <1>1, <1>2, <3>2
    <3>9. r \in Seq(Nodes) /\ n \in 0 .. Len(r)
      BY <2>2, <3>6 DEF SameTail
    <3>10. Holds(g, e, (P \ {v}) \cup {u})
      BY <3>1, <3>3, <3>5, <3>7, <3>8, <3>9, HoldsIf
    <3> QED
      BY <1>1, <3>1, <3>2, <3>3, <3>6, <3>10 DEF NetContracted
  <2> QED
    BY <2>7, <2>8
<1> QED
  BY <1>3, <1>4

(* What an uncontraction does to one net.                                   *)
NetUncontracted(h, g, e, P, u, v) ==
  /\ Holds(g, e, P)
  /\ SameTail(h.slots[e], g.slots[e], h.size[e])
  /\ Cut(P, u, v) => g.size[e] = h.size[e] + 1
  /\ ~Cut(P, u, v) => g.size[e] = h.size[e]

(* A net that held Merged(P, u, v) holds P again after the uncontraction.   *)
LEMMA UncontractNet ==
  ASSUME NEW h, NEW g, NEW u \in Nodes, NEW v \in Nodes, u # v, Uncontracted(h, g, u, v),
         NEW e \in Nets, NEW P, IsFiniteSet(P), Holds(h, e, Merged(P, u, v)),
         e \in h.nets[u] <=> u \in Merged(P, u, v), e \in h.nets[v] <=> v \in P,
         Cut(P, u, v) => h.size[e] < Len(h.slots[e]) /\ h.slots[e][h.size[e] + 1] = v,
         ~Cut(P, u, v) /\ v \in P => \A j \in h.size[e] + 1 .. Len(h.slots[e]) : h.slots[e][j] # v
  PROVE  NetUncontracted(h, g, e, P, u, v)
<1> DEFINE Q == Merged(P, u, v)
<1>1. PICK s \in Seq(Nodes), n \in 0 .. Len(h.slots[e]) :
           /\ s = h.slots[e] /\ n = h.size[e] /\ Distinct(s, n)
           /\ Q = First(s, n) /\ n = Cardinality(Q)
  BY HeldIs
<1>2. /\ Cut(P, u, v) => Cardinality(P) = Cardinality(Merged(P, u, v)) + 1
      /\ ~ Cut(P, u, v) => Cardinality(P) = Cardinality(Merged(P, u, v))
  BY MergedCardinality
<1>a. SameTail(s, s, n)
  BY DEF SameTail
<1>3. CASE v \notin P
  <2>1. g.slots[e] = s /\ g.size[e] = n
    BY <1>1, <1>3 DEF Uncontracted, CutOffPins, ReusedSlots
  <2>2. Q = P /\ ~ Cut(P, u, v)
    BY <1>3 DEF Merged, Cut
  <2>3. Holds(g, e, P)
    BY <1>1, <2>1, <2>2, SameNet
  <2> QED
    BY <1>1, <1>a, <2>1, <2>2, <2>3 DEF NetUncontracted
<1>4. CASE Cut(P, u, v)
  <2>1. u \in P /\ v \in P /\ Q = P \ {v} /\ u \in Q
    BY <1>4 DEF Cut, Merged
  <2>2. e \in CutOffPins(h, u, v) /\ e \notin ReusedSlots(h, u, v)
    BY <1>4, <2>1 DEF CutOffPins, ReusedSlots
  <2>3. g.slots[e] = s /\ g.size[e] = n + 1
    BY <1>1, <2>2 DEF Uncontracted
  <2>4. n \in Nat /\ n + 1 \in 0 .. Len(s) /\ s[n + 1] = v
    BY <1>1, <1>4
  <2>5. P = First(s, n + 1)
    <3>1. P = Q \cup {v}
      BY <2>1
    <3>2. \A i \in 1 .. n + 1 : i \in 1 .. n \/ i = n + 1
      BY <2>4
    <3>3. First(s, n + 1) = First(s, n) \cup {s[n + 1]}
      BY <2>4, <3>2 DEF First
    <3> QED
      BY <1>1, <2>4, <3>1, <3>3
  <2>6. Distinct(s, n + 1)
    <3>1. \A i \in 1 .. n : s[i] # v
      BY <1>1, <2>1 DEF First
    <3> QED
      BY <1>1, <2>4, <3>1 DEF Distinct
  <2>7. n + 1 = Cardinality(P)
    BY <1>1, <1>2, <1>4
  <2>8. Holds(g, e, P)
    BY <2>3, <2>4, <2>5, <2>6, <2>7, HoldsIf
  <2> QED
    BY <1>1, <1>4, <1>a, <2>3, <2>8 DEF NetUncontracted
<1>5. CASE v \in P /\ ~ Cut(P, u, v)
  <2>1. u \notin P /\ Q = (P \ {v}) \cup {u} /\ u \in Q
    BY <1>5 DEF Cut, Merged
  <2>2. e \in ReusedSlots(h, u, v) /\ e \notin CutOffPins(h, u, v)
    <3>1. n \in Nat /\ Len(s) \in Nat
      BY <1>1
    <3>2. ~ (n < Len(s) /\ s[n + 1] = v)
      BY <1>1, <1>5, <3>1
    <3> QED
      BY <1>1, <1>5, <2>1, <3>2 DEF CutOffPins, ReusedSlots
  <2>3. PICK k \in 1 .. n : s[k] = u
    BY <1>1, <2>1 DEF First
  <2>4. {i \in 1 .. n : s[i] = u} = {k}
    BY <1>1, <2>3 DEF Distinct
  <2>5. Max({k}) = k
    BY DEF Max
  <2>a. g.slots[e] = resetReusedPinSlotToOriginalValue(h, e, u, v) /\ g.size[e] = n
    BY <1>1, <2>2 DEF Uncontracted
  <2>b. resetReusedPinSlotToOriginalValue(h, e, u, v) = ReplacedIn(s, k, v)
    BY <1>1, <2>4, <2>5 DEF resetReusedPinSlotToOriginalValue, ReplacedIn
  <2>6. g.slots[e] = ReplacedIn(s, k, v) /\ g.size[e] = n
    BY <2>a, <2>b
  <2>7. PICK r : r = ReplacedIn(s, k, v)
    OBVIOUS
  <2>8. n \in 1 .. Len(s) /\ v \notin First(s, n)
    <3>1. n \in Nat /\ Len(s) \in Nat /\ n <= Len(s) /\ k \in Nat /\ 1 <= k /\ k <= n
      BY <1>1
    <3>2. v \notin Q
      BY <2>1
    <3> QED
      BY <1>1, <3>1, <3>2
  <2>9. /\ SameTail(s, r, n) /\ Distinct(r, n)
        /\ First(r, n) = (First(s, n) \ {s[k]}) \cup {v}
    BY <1>1, <2>7, <2>8, Replaced
  <2>c. First(r, n) = (Q \ {u}) \cup {v}
    BY <1>1, <2>3, <2>9
  <2>10. P = First(r, n)
    BY <1>5, <2>1, <2>c
  <2>11. n = Cardinality(P)
    BY <1>1, <1>2, <1>5
  <2>12. r \in Seq(Nodes) /\ n \in 0 .. Len(r)
    BY <2>8, <2>9 DEF SameTail
  <2>13. Holds(g, e, P)
    BY <2>6, <2>7, <2>9, <2>10, <2>11, <2>12, HoldsIf
  <2> QED
    BY <1>1, <1>5, <2>6, <2>7, <2>9, <2>13 DEF NetUncontracted
<1> QED
  BY <1>3, <1>4, <1>5

-----------------------------------------------------------------------------
(* Well-formed hypergraphs, and contract.                                   *)

(* The structural part of a hypergraph: every net holds distinct enabled    *)
(* pins, nodes and nets agree on their incidence, num_pins counts the pins, *)
(* and the fixed vertices are those enabled.                                *)
Typed(h) ==
  /\ IsHypergraph(h)
  /\ h.on \subseteq Nodes /\ h.live \subseteq Nets
  /\ h.slots \in [Nets -> Seq(Nodes)] /\ h.size \in [Nets -> Nat]
  /\ h.nets \in [Nodes -> SUBSET Nets]
  /\ h.weight \in [Nodes -> Int] /\ h.edge_weight \in [Nets -> Int]
  /\ h.num_pins \in Int
  /\ h.fixed_part \in [Nodes -> Int]

NetsHold(h) == \A e \in h.live : Holds(h, e, pins(h, e)) /\ pins(h, e) \subseteq h.on
Incident(h) == \A w \in h.on : h.nets[w] = {e \in h.live : w \in pins(h, e)}
PinsCounted(h) == h.num_pins = SumOver(h.size, h.live)
FixedAreOn(h) == h.fixed = {w \in h.on : h.fixed_part[w] # kInvalidPartition}

WellFormed(h) ==
  Typed(h) /\ NetsHold(h) /\ Incident(h) /\ PinsCounted(h) /\ FixedAreOn(h)

(* Nets and nodes that an operation leaves alone.                           *)
Untouched(h, g, E, W) ==
  /\ \A e \in E : g.slots[e] = h.slots[e] /\ g.size[e] = h.size[e] /\ g.edge_weight[e] = h.edge_weight[e]
  /\ \A w \in W : g.nets[w] = h.nets[w] /\ g.weight[w] = h.weight[w]

(* There are finitely many enabled nets.                                    *)
LEMMA LiveIsFinite ==
  ASSUME NEW h, Typed(h)
  PROVE  IsFiniteSet(h.live) /\ \A e \in h.live : h.size[e] \in Int
<1>1. IsFiniteSet(Nets)
  BY KHypergraphAssumption
<1> QED
  BY <1>1, FS_Subset DEF Typed

(* Whether a node is a pin after the contraction.                           *)
LEMMA PinsOfMerged ==
  ASSUME NEW g, NEW e, NEW P, Holds(g, e, P)
  PROVE  pins(g, e) = P
BY DEF Holds

(* The hypergraph g after v was contracted into u of h.                     *)
After(h, g, u, v) ==
  /\ WellFormed(g)
  /\ g.on = h.on \ {v} /\ g.live = h.live /\ g.fixed_part = h.fixed_part
  /\ \A e \in h.live : NetContracted(h, g, e, pins(h, e), u, v)
  /\ \A e \in h.live : g.edge_weight[e] = h.edge_weight[e]
  /\ Untouched(h, g, Nets \ h.live, Nodes \ h.on)
  /\ Untouched(h, g, {}, {v})
  /\ g.weight[u] = h.weight[u] + h.weight[v] /\ \A w \in g.on \ {u} : g.weight[w] = h.weight[w]

(* contract keeps a hypergraph well-formed and merges v into u on every     *)
(* net.                                                                     *)
LEMMA ContractKeepsForm ==
  ASSUME NEW h, WellFormed(h), NEW u \in h.on, NEW v \in h.on, u # v, NEW g, g = contract(h, u, v),
         isFixedVertex(h, v) => isFixedVertex(h, u)
  PROVE  After(h, g, u, v)
<1>1. IsHypergraph(g) /\ Contracted(h, g, u, v)
  BY ContractIs DEF WellFormed, Typed
<1>2. u \in Nodes /\ v \in Nodes
  BY DEF WellFormed, Typed
<1>3. \A e \in h.live : (e \in h.nets[u] <=> u \in pins(h, e)) /\ (e \in h.nets[v] <=> v \in pins(h, e))
  BY DEF WellFormed, Incident
<1>4. h.nets[u] \subseteq h.live /\ h.nets[v] \subseteq h.live
  BY DEF WellFormed, Incident
<1>5. ASSUME NEW e \in h.live PROVE NetContracted(h, g, e, pins(h, e), u, v)
  <2>1. e \in Nets /\ Holds(h, e, pins(h, e))
    BY DEF WellFormed, Typed, NetsHold
  <2> QED
    BY <1>1, <1>2, <1>3, <2>1, ContractNet
<1>6. /\ g.on = h.on \ {v} /\ g.live = h.live /\ g.fixed_part = h.fixed_part
      /\ g.edge_weight = h.edge_weight
  BY <1>1 DEF Contracted
<1>7. Untouched(h, g, Nets \ h.live, Nodes \ h.on)
  <2>1. \A e \in Nets \ h.live : g.slots[e] = h.slots[e] /\ g.size[e] = h.size[e]
    BY <1>1, <1>4 DEF Contracted
  <2>2. \A w \in Nodes \ h.on : g.nets[w] = h.nets[w] /\ g.weight[w] = h.weight[w]
    BY <1>1 DEF Contracted, WellFormed, Typed
  <2> QED
    BY <1>6, <2>1, <2>2 DEF Untouched
<1>8. Untouched(h, g, {}, {v})
  BY <1>1, <1>2 DEF Untouched, Contracted, WellFormed, Typed
<1>9. g.weight[u] = h.weight[u] + h.weight[v] /\ \A w \in g.on \ {u} : g.weight[w] = h.weight[w]
  BY <1>1 DEF Contracted, WellFormed, Typed
<1>10. Typed(g)
  <2>1. g.slots \in [Nets -> Seq(Nodes)]
    <3>1. \A e \in Nets : g.slots[e] \in Seq(Nodes)
      BY <1>5, <1>7 DEF NetContracted, SameTail, Untouched, WellFormed, Typed
    <3> QED
      BY <1>1, <3>1 DEF Contracted
  <2>2. g.size \in [Nets -> Nat]
    <3>1. ASSUME NEW e \in Nets PROVE g.size[e] \in Nat
      <4>1. CASE e \in h.live
        BY <1>5, <4>1, HeldIs DEF NetContracted
      <4>2. CASE e \notin h.live
        BY <1>7, <4>2 DEF Untouched, WellFormed, Typed
      <4> QED
        BY <4>1, <4>2
    <3> QED
      BY <1>1, <3>1 DEF Contracted
  <2>3. g.nets \in [Nodes -> SUBSET Nets] /\ g.weight \in [Nodes -> Int]
    BY <1>1, <1>2 DEF Contracted, WellFormed, Typed
  <2>4. g.num_pins \in Int
    <3>1. IsFiniteSet(h.nets[v] \cap h.nets[u])
      BY <1>4, LiveIsFinite, FS_Subset DEF WellFormed
    <3>2. Cardinality(h.nets[v] \cap h.nets[u]) \in Nat
      BY <3>1, FS_CardinalityType
    <3> QED
      BY <1>1, <3>2 DEF Contracted, WellFormed, Typed
  <2> QED
    BY <1>1, <1>6, <2>1, <2>2, <2>3, <2>4 DEF Typed, WellFormed
<1>11. \A e \in h.live : Holds(g, e, Merged(pins(h, e), u, v)) /\ pins(g, e) = Merged(pins(h, e), u, v)
  BY <1>5 DEF NetContracted, Holds
<1>12. NetsHold(g)
  <2>1. \A e \in h.live : Merged(pins(h, e), u, v) \subseteq h.on \ {v}
    BY DEF Merged, WellFormed, NetsHold
  <2> QED
    BY <1>6, <1>11, <2>1 DEF NetsHold
<1>13. Incident(g)
  <2> SUFFICES ASSUME NEW w \in h.on \ {v} PROVE g.nets[w] = {e \in h.live : w \in pins(g, e)}
    BY <1>6 DEF Incident
  <2>1. \A e \in h.live : w \in pins(g, e) <=> w \in pins(h, e) \/ (w = u /\ v \in pins(h, e))
    BY <1>11 DEF Merged
  <2>2. g.nets[w] = IF w = u THEN h.nets[u] \cup h.nets[v] ELSE h.nets[w]
    BY <1>1, <1>2 DEF Contracted, WellFormed, Typed
  <2>3. h.nets[w] = {e \in h.live : w \in pins(h, e)}
    BY DEF WellFormed, Incident
  <2> QED
    BY <1>3, <1>4, <2>1, <2>2, <2>3
<1>14. PinsCounted(g)
  <2>1. PICK C : C = h.nets[v] \cap h.nets[u]
    OBVIOUS
  <2>2. C \in SUBSET h.live /\ IsFiniteSet(h.live)
    BY <1>4, <2>1, LiveIsFinite DEF WellFormed
  <2>3. \A e \in h.live : e \in C <=> Cut(pins(h, e), u, v)
    BY <1>3, <2>1 DEF Cut
  <2>4. \A e \in h.live : g.size[e] \in Int /\ h.size[e] = RaisedOn(g.size, h.live, C)[e]
    <3> SUFFICES ASSUME NEW e \in h.live PROVE g.size[e] \in Int /\ h.size[e] = RaisedOn(g.size, h.live, C)[e]
      OBVIOUS
    <3>1. g.size[e] \in Int /\ h.size[e] \in Int
      BY <1>10, LiveIsFinite DEF Typed, WellFormed
    <3>2. g.size[e] = IF e \in C THEN h.size[e] - 1 ELSE h.size[e]
      BY <1>5, <2>3 DEF NetContracted
    <3> QED
      BY <3>1, <3>2 DEF RaisedOn
  <2>5. SumOver(h.size, h.live) = SumOver(RaisedOn(g.size, h.live, C), h.live)
    BY <2>2, <2>4, SumSame
  <2>6. SumOver(RaisedOn(g.size, h.live, C), h.live) = SumOver(g.size, h.live) + Cardinality(C)
    BY <2>2, <2>4, SumOfRaised
  <2>7. SumOver(g.size, h.live) \in Int /\ Cardinality(C) \in Nat
    BY <2>2, <2>4, SumType, FS_Subset, FS_CardinalityType
  <2>8. g.num_pins = h.num_pins - Cardinality(C) /\ h.num_pins = SumOver(h.size, h.live)
    BY <1>1, <2>1 DEF Contracted, WellFormed, PinsCounted
  <2> QED
    BY <1>6, <2>5, <2>6, <2>7, <2>8 DEF PinsCounted
<1>15. FixedAreOn(g)
  BY <1>1, <1>2, <1>6 DEF Contracted, FixedAreOn, WellFormed, isFixedVertex
<1> QED
  BY <1>5, <1>6, <1>7, <1>8, <1>9, <1>10, <1>12, <1>13, <1>14, <1>15 DEF WellFormed, After

-----------------------------------------------------------------------------
(* Nets that leave and come back.                                           *)

(* Hypergraphs with the same slots and sizes have the same pins.            *)
LEMMA SameNets ==
  ASSUME NEW h, NEW g, g.slots = h.slots, g.size = h.size
  PROVE  /\ \A e : pins(g, e) = pins(h, e)
         /\ \A e, P : Holds(g, e, P) <=> Holds(h, e, P)
BY DEF Holds, pins

(* The hypergraph g is h without the nets E.                                *)
EdgesGone(h, g, E) ==
  /\ WellFormed(g)
  /\ g.slots = h.slots /\ g.size = h.size /\ g.weight = h.weight
  /\ g.edge_weight = h.edge_weight /\ g.on = h.on /\ g.live = h.live \ E
  /\ g.fixed_part = h.fixed_part
  /\ \A w \in Nodes \ h.on : g.nets[w] = h.nets[w]

(* removeEdges keeps a hypergraph well-formed.                              *)
LEMMA RemoveEdgesKeepsForm ==
  ASSUME NEW h, WellFormed(h), NEW E \in SUBSET h.live, NEW g, g = removeEdges(h, E)
  PROVE  EdgesGone(h, g, E)
<1>1. IsHypergraph(g) /\ EdgesRemoved(h, g, E)
  BY RemoveEdgesIs DEF WellFormed, Typed
<1>2. /\ g.slots = h.slots /\ g.size = h.size /\ g.weight = h.weight
      /\ g.edge_weight = h.edge_weight /\ g.on = h.on /\ g.live = h.live \ E
      /\ g.fixed_part = h.fixed_part
  BY <1>1 DEF EdgesRemoved
<1>3. \A e : pins(g, e) = pins(h, e)
  BY <1>2, SameNets
<1>4. \A w \in Nodes : g.nets[w] = h.nets[w] \ {e \in E : w \in pins(h, e)}
  BY <1>1 DEF EdgesRemoved
<1>5. IsFiniteSet(E) /\ IsFiniteSet(h.live \ E) /\ (\A e \in h.live : h.size[e] \in Int)
  BY LiveIsFinite, FS_Subset DEF WellFormed
<1>6. SumOver(h.size, h.live) = SumOver(h.size, h.live \ E) + SumOver(h.size, E)
  <2>1. h.live = (h.live \ E) \cup E
    OBVIOUS
  <2>2. PICK D : D = h.live \ E
    OBVIOUS
  <2>3. SumOver(h.size, D \cup E) = SumOver(h.size, D) + SumOver(h.size, E)
    BY <1>5, <2>2, SumOfUnion
  <2> QED
    BY <2>1, <2>2, <2>3
<1>7. SumOver(h.size, h.live \ E) \in Int /\ SumOver(h.size, E) \in Int
  BY <1>5, SumType
<1>8. g.num_pins = h.num_pins - SumOver(h.size, E)
  BY <1>1 DEF EdgesRemoved
<1>9. Typed(g)
  <2>1. g.nets \in [Nodes -> SUBSET Nets]
    BY <1>1 DEF EdgesRemoved, WellFormed, Typed
  <2>2. g.num_pins \in Int
    BY <1>7, <1>8 DEF WellFormed, Typed
  <2> QED
    BY <1>1, <1>2, <2>1, <2>2 DEF WellFormed, Typed
<1>10. NetsHold(g)
  <2>1. \A e, P : Holds(g, e, P) <=> Holds(h, e, P)
    BY <1>2, SameNets
  <2> QED
    BY <1>2, <1>3, <2>1 DEF WellFormed, NetsHold
<1>11. Incident(g)
  <2> SUFFICES ASSUME NEW w \in h.on PROVE g.nets[w] = {e \in h.live \ E : w \in pins(h, e)}
    BY <1>2, <1>3 DEF Incident
  <2>1. h.nets[w] = {e \in h.live : w \in pins(h, e)} /\ w \in Nodes
    BY DEF WellFormed, Incident, Typed
  <2> QED
    BY <1>4, <2>1
<1>12. PinsCounted(g)
  BY <1>2, <1>6, <1>7, <1>8 DEF PinsCounted, WellFormed
<1>13. FixedAreOn(g)
  BY <1>1 DEF EdgesRemoved, FixedAreOn, WellFormed
<1>14. \A w \in Nodes \ h.on : g.nets[w] = h.nets[w]
  BY <1>4 DEF WellFormed, NetsHold
<1> QED
  BY <1>2, <1>9, <1>10, <1>11, <1>12, <1>13, <1>14 DEF WellFormed, EdgesGone

(* The hypergraph g is h with the nets E, which have kept their slots.      *)
EdgesBack(h, g, E) ==
  /\ WellFormed(g)
  /\ g.slots = h.slots /\ g.size = h.size /\ g.weight = h.weight
  /\ g.edge_weight = h.edge_weight /\ g.on = h.on /\ g.live = h.live \cup E
  /\ g.fixed_part = h.fixed_part
  /\ \A w \in Nodes \ h.on : g.nets[w] = h.nets[w]

(* restoreEdges keeps a hypergraph well-formed when the pins of the nets    *)
(* are enabled.                                                             *)
LEMMA RestoreEdgesKeepsForm ==
  ASSUME NEW h, WellFormed(h), NEW E \in SUBSET (Nets \ h.live), NEW cut, NEW g, g = restoreEdges(h, E, cut),
         \A e \in E : Holds(h, e, pins(h, e)) /\ pins(h, e) \subseteq h.on
  PROVE  EdgesBack(h, g, E)
<1>1. IsHypergraph(g) /\ EdgesRestored(h, g, E)
  BY RestoreEdgesIs DEF WellFormed, Typed
<1>2. /\ g.slots = h.slots /\ g.size = h.size /\ g.weight = h.weight
      /\ g.edge_weight = h.edge_weight /\ g.on = h.on /\ g.live = h.live \cup E
      /\ g.fixed_part = h.fixed_part
  BY <1>1 DEF EdgesRestored
<1>3. \A e : pins(g, e) = pins(h, e)
  BY <1>2, SameNets
<1>4. \A w \in Nodes : g.nets[w] = h.nets[w] \cup {e \in E : w \in pins(h, e)}
  BY <1>1 DEF EdgesRestored
<1>5. IsFiniteSet(E) /\ IsFiniteSet(h.live) /\ (\A e \in h.live \cup E : h.size[e] \in Int)
  <2>1. IsFiniteSet(Nets) /\ E \subseteq Nets
    BY KHypergraphAssumption
  <2>2. \A e \in Nets : h.size[e] \in Int
    BY DEF WellFormed, Typed
  <2> QED
    BY <2>1, <2>2, LiveIsFinite, FS_Subset DEF WellFormed, Typed
<1>6. SumOver(h.size, h.live \cup E) = SumOver(h.size, h.live) + SumOver(h.size, E)
  <2>1. h.live \cap E = {}
    OBVIOUS
  <2> QED
    BY <1>5, <2>1, SumOfUnion
<1>7. SumOver(h.size, h.live) \in Int /\ SumOver(h.size, E) \in Int
  BY <1>5, SumType
<1>8. g.num_pins = h.num_pins + SumOver(h.size, E)
  BY <1>1 DEF EdgesRestored
<1>9. Typed(g)
  <2>1. g.nets \in [Nodes -> SUBSET Nets]
    BY <1>1 DEF EdgesRestored, WellFormed, Typed
  <2>2. g.num_pins \in Int
    BY <1>7, <1>8 DEF WellFormed, Typed
  <2> QED
    BY <1>1, <1>2, <2>1, <2>2 DEF WellFormed, Typed
<1>10. NetsHold(g)
  <2>1. \A e, P : Holds(g, e, P) <=> Holds(h, e, P)
    BY <1>2, SameNets
  <2> QED
    BY <1>2, <1>3, <2>1 DEF WellFormed, NetsHold
<1>11. Incident(g)
  <2> SUFFICES ASSUME NEW w \in h.on PROVE g.nets[w] = {e \in h.live \cup E : w \in pins(h, e)}
    BY <1>2, <1>3 DEF Incident
  <2>1. h.nets[w] = {e \in h.live : w \in pins(h, e)} /\ w \in Nodes
    BY DEF WellFormed, Incident, Typed
  <2> QED
    BY <1>4, <2>1
<1>12. PinsCounted(g)
  BY <1>2, <1>6, <1>7, <1>8 DEF PinsCounted, WellFormed
<1>13. FixedAreOn(g)
  BY <1>1 DEF EdgesRestored, FixedAreOn, WellFormed
<1>14. \A w \in Nodes \ h.on : g.nets[w] = h.nets[w]
  BY <1>4
<1> QED
  BY <1>2, <1>9, <1>10, <1>11, <1>12, <1>13, <1>14 DEF WellFormed, EdgesBack

-----------------------------------------------------------------------------
(* Weights of merged nets, and uncontract.                                  *)

(* The weight merged into a net is a number, and none for a net that        *)
(* represents no other.                                                     *)
LEMMA MergedWeightType ==
  ASSUME NEW w, \A e \in Nets : w[e] \in Int, NEW P, \A p \in P : p.removed \in Nets, NEW e
  PROVE  /\ MergedWeight(w, P, e) \in Int
         /\ (\A p \in P : p.representative # e) => MergedWeight(w, P, e) = 0
<1>1. MergedNets(P, e) \subseteq Nets
  BY DEF MergedNets
<1>2. IsFiniteSet(MergedNets(P, e))
  BY <1>1, KHypergraphAssumption, FS_Subset
<1>3. SumOver(w, MergedNets(P, e)) \in Int
  BY <1>1, <1>2, SumType
<1>4. ASSUME \A p \in P : p.representative # e PROVE SumOver(w, MergedNets(P, e)) = 0
  <2>1. MergedNets(P, e) = {}
    BY <1>4 DEF MergedNets
  <2> QED
    BY <2>1, SumEmpty
<1> QED
  BY <1>3, <1>4 DEF MergedWeight

(* The hypergraph g is h but for the weights of the representatives.        *)
Reweighted(h, g, P, sign) ==
  /\ WellFormed(g)
  /\ g.slots = h.slots /\ g.size = h.size /\ g.weight = h.weight /\ g.nets = h.nets
  /\ g.on = h.on /\ g.live = h.live /\ g.fixed_part = h.fixed_part
  /\ \A e \in Nets :
       g.edge_weight[e] = h.edge_weight[e] + sign * MergedWeight(h.edge_weight, P, e)

(* AddToWeights keeps a hypergraph well-formed.                             *)
LEMMA AddToWeightsKeepsForm ==
  ASSUME NEW h, WellFormed(h), NEW P, \A p \in P : p.removed \in Nets, NEW sign \in Int,
         NEW g, g = AddToWeights(h, P, sign)
  PROVE  Reweighted(h, g, P, sign)
<1>1. IsHypergraph(g) /\ WeightsAdded(h, g, P, sign)
  BY AddToWeightsIs DEF WellFormed, Typed
<1>2. /\ g.slots = h.slots /\ g.size = h.size /\ g.weight = h.weight /\ g.nets = h.nets
      /\ g.on = h.on /\ g.live = h.live /\ g.fixed_part = h.fixed_part /\ g.fixed = h.fixed
      /\ g.num_pins = h.num_pins
  BY <1>1 DEF WeightsAdded
<1>3. g.edge_weight
        = [e \in Nets |-> h.edge_weight[e] + sign * MergedWeight(h.edge_weight, P, e)]
  BY <1>1 DEF WeightsAdded
<1>4. g.edge_weight \in [Nets -> Int]
  <2>1. \A e \in Nets : h.edge_weight[e] \in Int
    BY DEF WellFormed, Typed
  <2>2. \A e \in Nets : MergedWeight(h.edge_weight, P, e) \in Int
    BY <2>1, MergedWeightType
  <2>3. ASSUME NEW e \in Nets PROVE h.edge_weight[e] + sign * MergedWeight(h.edge_weight, P, e) \in Int
    <3>1. PICK x \in Int, y \in Int : x = h.edge_weight[e] /\ y = MergedWeight(h.edge_weight, P, e)
      BY <2>1, <2>2
    <3> QED
      BY <3>1
  <2> QED
    BY <1>3, <2>3
<1>5. Typed(g)
  BY <1>1, <1>2, <1>4 DEF WellFormed, Typed
<1>6. /\ \A e : pins(g, e) = pins(h, e)
      /\ \A e, P_ : Holds(g, e, P_) <=> Holds(h, e, P_)
  BY <1>2, SameNets
<1>7. NetsHold(g) /\ Incident(g)
  BY <1>2, <1>6 DEF WellFormed, NetsHold, Incident
<1>8. PinsCounted(g) /\ FixedAreOn(g)
  BY <1>2 DEF WellFormed, PinsCounted, FixedAreOn
<1> QED
  BY <1>2, <1>3, <1>5, <1>7, <1>8 DEF WellFormed, Reweighted

(* What the memento of v needs of a net that held P before the contraction. *)
Undoable(h, e, P, u, v) ==
  /\ IsFiniteSet(P) /\ Holds(h, e, Merged(P, u, v))
  /\ Cut(P, u, v) => h.size[e] < Len(h.slots[e]) /\ h.slots[e][h.size[e] + 1] = v
  /\ ~Cut(P, u, v) /\ v \in P => \A j \in h.size[e] + 1 .. Len(h.slots[e]) : h.slots[e][j] # v

(* The slots tell in which nets v was only cut off and in which its slot    *)
(* was given to u: uncontract decides as contract did.                      *)
LEMMA SlotsTell ==
  ASSUME NEW h, NEW e, NEW P, NEW u, NEW v, u # v, Undoable(h, e, P, u, v),
         e \in h.nets[u] <=> u \in Merged(P, u, v), e \in h.nets[v] <=> v \in P
  PROVE  /\ e \in CutOffPins(h, u, v) <=> Cut(P, u, v)
         /\ e \in ReusedSlots(h, u, v) <=> v \in P /\ u \notin P
<1>1. PICK n \in Nat, k \in Nat : n = h.size[e] /\ k = Len(h.slots[e])
  BY DEF Undoable, Holds
<1>2. v \in P => u \in Merged(P, u, v)
  BY DEF Merged
<1>3. CASE v \notin P
  BY <1>3 DEF CutOffPins, ReusedSlots, Cut
<1>4. CASE Cut(P, u, v)
  BY <1>1, <1>2, <1>4 DEF CutOffPins, ReusedSlots, Cut, Undoable
<1>5. CASE v \in P /\ ~ Cut(P, u, v)
  <2>1. ~ (n < k /\ h.slots[e][n + 1] = v)
    BY <1>1, <1>5 DEF Undoable
  <2> QED
    BY <1>1, <1>2, <1>5, <2>1 DEF CutOffPins, ReusedSlots, Cut
<1> QED
  BY <1>3, <1>4, <1>5

(* The hypergraph g after v was taken out of u of h again; the nets hold P. *)
Before(h, g, u, v, P) ==
  /\ WellFormed(g)
  /\ g.on = h.on \cup {v} /\ g.live = h.live /\ g.fixed_part = h.fixed_part
  /\ \A e \in h.live : NetUncontracted(h, g, e, P[e], u, v)
  /\ g.edge_weight = h.edge_weight
  /\ Untouched(h, g, Nets \ h.live, Nodes \ h.on)
  /\ g.weight[u] = h.weight[u] - h.weight[v] /\ \A w \in Nodes \ {u} : g.weight[w] = h.weight[w]

(* uncontract keeps a hypergraph well-formed and gives every net its pins   *)
(* back.                                                                    *)
LEMMA UncontractKeepsForm ==
  ASSUME NEW h, WellFormed(h), NEW u \in h.on, NEW v \in Nodes \ h.on, NEW P,
         \A e \in h.live : Undoable(h, e, P[e], u, v),
         h.nets[v] = {e \in h.live : v \in P[e]},
         isFixedVertex(h, v) => isFixedVertex(h, u), NEW g, g = uncontract(h, u, v)
  PROVE  Before(h, g, u, v, P)
<1>1. IsHypergraph(g) /\ Uncontracted(h, g, u, v)
  BY UncontractIs DEF WellFormed, Typed
<1>2. u \in Nodes /\ u # v
  BY DEF WellFormed, Typed
<1>3. \A e \in h.live : pins(h, e) = Merged(P[e], u, v)
  BY PinsOfMerged DEF Undoable
<1>4. \A e \in h.live : (e \in h.nets[u] <=> u \in Merged(P[e], u, v)) /\ (e \in h.nets[v] <=> v \in P[e])
  BY <1>3 DEF WellFormed, Incident
<1>5. PICK C, D : C = CutOffPins(h, u, v) /\ D = ReusedSlots(h, u, v)
  OBVIOUS
<1>6. \A e \in h.live : (e \in C <=> Cut(P[e], u, v)) /\ (e \in D <=> v \in P[e] /\ u \notin P[e])
  BY <1>2, <1>4, <1>5, SlotsTell
<1>7. C \subseteq h.live /\ D \subseteq h.live
  BY <1>5 DEF CutOffPins, ReusedSlots
<1>8. ASSUME NEW e \in h.live PROVE NetUncontracted(h, g, e, P[e], u, v)
  <2>1. e \in Nets
    BY DEF WellFormed, Typed
  <2>2. /\ IsFiniteSet(P[e]) /\ Holds(h, e, Merged(P[e], u, v))
        /\ Cut(P[e], u, v) => h.size[e] < Len(h.slots[e]) /\ h.slots[e][h.size[e] + 1] = v
        /\ ~Cut(P[e], u, v) /\ v \in P[e] => \A j \in h.size[e] + 1 .. Len(h.slots[e]) : h.slots[e][j] # v
    BY DEF Undoable
  <2> QED
    BY <1>1, <1>2, <1>4, <2>1, <2>2, UncontractNet
<1>9. /\ g.on = h.on \cup {v} /\ g.live = h.live /\ g.fixed_part = h.fixed_part
      /\ g.edge_weight = h.edge_weight
  BY <1>1 DEF Uncontracted
<1>10. Untouched(h, g, Nets \ h.live, Nodes \ h.on)
  <2>1. \A e \in Nets \ h.live : g.slots[e] = h.slots[e] /\ g.size[e] = h.size[e]
    BY <1>1, <1>5, <1>7 DEF Uncontracted
  <2>2. \A w \in Nodes \ h.on : g.nets[w] = h.nets[w] /\ g.weight[w] = h.weight[w]
    BY <1>1 DEF Uncontracted, WellFormed, Typed
  <2> QED
    BY <1>9, <2>1, <2>2 DEF Untouched
<1>11. g.weight[u] = h.weight[u] - h.weight[v] /\ \A w \in Nodes \ {u} : g.weight[w] = h.weight[w]
  BY <1>1 DEF Uncontracted, WellFormed, Typed
<1>12. Typed(g)
  <2>1. g.slots \in [Nets -> Seq(Nodes)]
    <3>1. \A e \in Nets : g.slots[e] \in Seq(Nodes)
      BY <1>8, <1>10 DEF NetUncontracted, SameTail, Untouched, WellFormed, Typed
    <3> QED
      BY <1>1, <3>1 DEF Uncontracted
  <2>2. g.size \in [Nets -> Nat]
    <3>1. \A e \in Nets : h.size[e] \in Nat
      BY DEF WellFormed, Typed
    <3> QED
      BY <1>1, <3>1 DEF Uncontracted
  <2>3. g.nets \in [Nodes -> SUBSET Nets]
    BY <1>1, <1>2 DEF Uncontracted, WellFormed, Typed
  <2>4. g.weight \in [Nodes -> Int]
    BY <1>1, <1>2 DEF Uncontracted, WellFormed, Typed
  <2>5. g.num_pins \in Int
    <3>1. Cardinality(C) \in Nat
      BY <1>7, LiveIsFinite, FS_Subset, FS_CardinalityType DEF WellFormed
    <3> QED
      BY <1>1, <1>5, <3>1 DEF Uncontracted, WellFormed, Typed
  <2>6. g.on \subseteq Nodes
    BY <1>9 DEF WellFormed, Typed
  <2> QED
    BY <1>1, <1>9, <2>1, <2>2, <2>3, <2>4, <2>5, <2>6 DEF Typed, WellFormed
<1>13. \A e \in h.live : Holds(g, e, P[e]) /\ pins(g, e) = P[e]
  BY <1>8 DEF NetUncontracted, Holds
<1>14. NetsHold(g)
  <2>1. \A e \in h.live : Merged(P[e], u, v) \subseteq h.on
    BY <1>3 DEF WellFormed, NetsHold
  <2>2. \A e \in h.live : P[e] \subseteq h.on \cup {v}
    BY <2>1 DEF Merged
  <2> QED
    BY <1>9, <1>13, <2>2 DEF NetsHold
<1>15. Incident(g)
  <2>1. ASSUME NEW w \in h.on \cup {v} PROVE g.nets[w] = {e \in h.live : w \in P[e]}
    <3>1. CASE w = v
      BY <1>10, <3>1 DEF Untouched
    <3>2. CASE w = u
      <4>1. g.nets[u] = h.nets[u] \ D
        BY <1>1, <1>2, <1>5 DEF Uncontracted, WellFormed, Typed
      <4>2. h.nets[u] = {e \in h.live : u \in pins(h, e)}
        BY DEF WellFormed, Incident
      <4>3. \A e \in h.live : u \in Merged(P[e], u, v) <=> u \in P[e] \/ v \in P[e]
        BY <1>2 DEF Merged
      <4> QED
        BY <1>3, <1>6, <3>2, <4>1, <4>2, <4>3
    <3>3. CASE w \notin {u, v}
      <4>1. g.nets[w] = h.nets[w] /\ h.nets[w] = {e \in h.live : w \in pins(h, e)}
        BY <1>1, <1>2, <3>3 DEF Uncontracted, WellFormed, Typed, Incident
      <4>2. \A e \in h.live : w \in Merged(P[e], u, v) <=> w \in P[e]
        BY <3>3 DEF Merged
      <4> QED
        BY <1>3, <4>1, <4>2
    <3> QED
      BY <3>1, <3>2, <3>3
  <2> QED
    BY <1>9, <1>13, <2>1 DEF Incident
<1>16. PinsCounted(g)
  <2>1. C \in SUBSET h.live /\ IsFiniteSet(h.live) /\ \A e \in h.live : h.size[e] \in Int
    BY <1>7, LiveIsFinite DEF WellFormed
  <2>2. \A e \in h.live : g.size[e] = RaisedOn(h.size, h.live, C)[e]
    BY <1>6, <1>8 DEF NetUncontracted, RaisedOn
  <2>3. SumOver(g.size, h.live) = SumOver(RaisedOn(h.size, h.live, C), h.live)
    BY <2>1, <2>2, SumSame
  <2>4. SumOver(RaisedOn(h.size, h.live, C), h.live) = SumOver(h.size, h.live) + Cardinality(C)
    BY <2>1, SumOfRaised
  <2>5. g.num_pins = h.num_pins + Cardinality(C) /\ h.num_pins = SumOver(h.size, h.live)
    BY <1>1, <1>5 DEF Uncontracted, WellFormed, PinsCounted
  <2> QED
    BY <1>9, <2>3, <2>4, <2>5 DEF PinsCounted
<1>17. FixedAreOn(g)
  BY <1>1, <1>2, <1>9 DEF Uncontracted, FixedAreOn, WellFormed, isFixedVertex
<1> QED
  BY <1>8, <1>9, <1>10, <1>11, <1>12, <1>14, <1>15, <1>16, <1>17 DEF WellFormed, Before

-----------------------------------------------------------------------------
(* Levels.                                                                  *)

(* A level, field by field.                                                 *)
LEMMA StructureIs ==
  ASSUME NEW h, NEW L, L = Structure(h)
  PROVE  /\ IsLevel(L) /\ L.on = h.on /\ L.live = h.live /\ L.num_pins = h.num_pins
         /\ L.pins = [e \in h.live |-> pins(h, e)]
         /\ L.edge_weight = [e \in h.live |-> h.edge_weight[e]]
         /\ L.nets = [u \in h.on |-> h.nets[u]] /\ L.weight = [u \in h.on |-> h.weight[u]]
         /\ L.fixed = h.fixed
BY DEF Structure, IsLevel

(* The structure of a well-formed hypergraph is a level.                    *)
LEMMA StructureIsLevel ==
  ASSUME NEW h, WellFormed(h), NEW L, L = Structure(h)
  PROVE  LevelOK(L, h.fixed_part) /\ \A e \in L.live : Holds(h, e, L.pins[e])
<1>1. /\ IsLevel(L) /\ L.on = h.on /\ L.live = h.live /\ L.num_pins = h.num_pins
      /\ L.pins = [e \in h.live |-> pins(h, e)]
      /\ L.edge_weight = [e \in h.live |-> h.edge_weight[e]]
      /\ L.nets = [u \in h.on |-> h.nets[u]] /\ L.weight = [u \in h.on |-> h.weight[u]]
      /\ L.fixed = h.fixed
  BY StructureIs
<1>2. L.on \subseteq Nodes /\ L.live \subseteq Nets
  BY <1>1 DEF WellFormed, Typed
<1>3. L.pins \in [L.live -> SUBSET L.on]
  BY <1>1 DEF WellFormed, NetsHold
<1>4. L.nets = [u \in L.on |-> {e \in L.live : u \in L.pins[e]}]
  BY <1>1 DEF WellFormed, Incident
<1>5. L.weight \in [L.on -> Int] /\ L.edge_weight \in [L.live -> Int]
  BY <1>1 DEF WellFormed, Typed
<1>6. L.num_pins = SumOver([e \in L.live |-> Cardinality(L.pins[e])], L.live)
  <2>1. PICK f : f = [e \in L.live |-> Cardinality(L.pins[e])]
    OBVIOUS
  <2>2. \A e \in h.live : h.size[e] = f[e]
    BY <1>1, <2>1 DEF WellFormed, NetsHold, Holds
  <2>3. IsFiniteSet(h.live)
    BY LiveIsFinite DEF WellFormed
  <2>4. SumOver(h.size, h.live) = SumOver(f, h.live)
    BY <2>2, <2>3, SumSame
  <2> QED
    BY <1>1, <2>1, <2>4 DEF WellFormed, PinsCounted
<1>7. L.fixed = {u \in L.on : h.fixed_part[u] # kInvalidPartition}
  BY <1>1 DEF WellFormed, FixedAreOn
<1>8. \A e \in L.live : Holds(h, e, L.pins[e])
  BY <1>1 DEF WellFormed, NetsHold
<1> QED
  BY <1>1, <1>2, <1>3, <1>4, <1>5, <1>6, <1>7, <1>8 DEF LevelOK

(* A well-formed hypergraph with the nodes, nets, pins and weights of a     *)
(* level has it as its structure.                                           *)
LEMMA LevelIsStructure ==
  ASSUME NEW h, WellFormed(h), NEW L, LevelOK(L, h.fixed_part), h.on = L.on, h.live = L.live,
         \A e \in L.live : Holds(h, e, L.pins[e]) /\ h.edge_weight[e] = L.edge_weight[e],
         \A w \in L.on : h.weight[w] = L.weight[w]
  PROVE  Structure(h) = L
<1>1. PICK S : S = Structure(h)
  OBVIOUS
<1>2. /\ IsLevel(S) /\ S.on = h.on /\ S.live = h.live /\ S.num_pins = h.num_pins
      /\ S.pins = [e \in h.live |-> pins(h, e)]
      /\ S.edge_weight = [e \in h.live |-> h.edge_weight[e]]
      /\ S.nets = [u \in h.on |-> h.nets[u]] /\ S.weight = [u \in h.on |-> h.weight[u]]
      /\ S.fixed = h.fixed
  BY <1>1, StructureIs
<1>3. LevelOK(S, h.fixed_part)
  BY <1>1, StructureIsLevel
<1>4. S.pins = L.pins
  <2>1. \A e \in L.live : pins(h, e) = L.pins[e]
    BY PinsOfMerged
  <2> QED
    BY <1>2, <2>1 DEF LevelOK
<1>5. S.edge_weight = L.edge_weight /\ S.weight = L.weight
  BY <1>2 DEF LevelOK
<1>6. S.nets = L.nets /\ S.num_pins = L.num_pins /\ S.fixed = L.fixed
  <2>1. S.nets = [u \in S.on |-> {e \in S.live : u \in S.pins[e]}]
    BY <1>3 DEF LevelOK
  <2>2. L.nets = [u \in L.on |-> {e \in L.live : u \in L.pins[e]}]
    BY DEF LevelOK
  <2>3. S.num_pins = SumOver([e \in S.live |-> Cardinality(S.pins[e])], S.live)
    BY <1>3 DEF LevelOK
  <2>4. L.num_pins = SumOver([e \in L.live |-> Cardinality(L.pins[e])], L.live)
    BY DEF LevelOK
  <2>5. S.fixed = L.fixed
    BY <1>2, <1>3 DEF LevelOK
  <2>6. S.live = L.live /\ S.on = L.on
    BY <1>2
  <2>7. S.nets = L.nets
    BY <1>4, <2>1, <2>2, <2>6, Zenon
  <2>8. S.num_pins = L.num_pins
    BY <1>4, <2>3, <2>4, <2>6, Zenon
  <2> QED
    BY <2>5, <2>7, <2>8
<1>7. IsLevel(L)
  BY DEF LevelOK
<1> QED
  BY <1>1, <1>2, <1>4, <1>5, <1>6, <1>7 DEF IsLevel

(* The nets of a level have finitely many pins, all on it.                  *)
LEMMA LevelsAreFinite ==
  ASSUME NEW L, NEW fixed_part, LevelOK(L, fixed_part), NEW e \in L.live
  PROVE  IsFiniteSet(L.pins[e]) /\ Cardinality(L.pins[e]) \in Nat /\ L.pins[e] \subseteq L.on
<1>1. L.pins[e] \subseteq L.on /\ L.on \subseteq Nodes
  BY DEF LevelOK
<1>2. IsFiniteSet(L.pins[e])
  BY <1>1, KHypergraphAssumption, FS_Subset
<1> QED
  BY <1>1, <1>2, FS_CardinalityType

(* g changed of h nothing that an earlier level A needs.                    *)
TailsStay(h, g, A) ==
  \A e \in A.live :
    /\ SameTail(h.slots[e], g.slots[e], h.size[e])
    /\ g.size[e] \in Nat /\ g.size[e] <= Cardinality(A.pins[e])
(* Nor anything that the contraction m, which ended A, left behind.         *)
HiddenStays(h, g, A, m, R) ==
  /\ g.weight[m.v] = h.weight[m.v] /\ g.nets[m.v] = h.nets[m.v]
  /\ \A e \in R : g.slots[e] = h.slots[e] /\ g.size[e] = h.size[e] /\ g.edge_weight[e] = h.edge_weight[e]
  /\ \A e \in A.live : Cut(A.pins[e], m.u, m.v) =>
       /\ SameTail(h.slots[e], g.slots[e], h.size[e])
       /\ g.size[e] < Cardinality(A.pins[e])

(* The cut-off slots of an earlier level stay good.                         *)
LEMMA TailsAreKept ==
  ASSUME NEW h, Typed(h), NEW g, NEW A, NEW fixed_part, LevelOK(A, fixed_part), TailsOK(h, A), TailsStay(h, g, A)
  PROVE  TailsOK(g, A)
<1> SUFFICES ASSUME NEW e \in A.live
             PROVE  /\ g.size[e] <= Cardinality(A.pins[e]) /\ Cardinality(A.pins[e]) <= Len(g.slots[e])
                    /\ \A j \in Cardinality(A.pins[e]) + 1 .. Len(g.slots[e]) : g.slots[e][j] \notin A.on
  BY DEF TailsOK
<1>0. e \in Nets
  BY DEF LevelOK
<1>1. PICK c \in Nat, n \in Nat : c = Cardinality(A.pins[e]) /\ n = h.size[e]
  BY <1>0, LevelsAreFinite DEF Typed
<1>2. PICK l \in Nat : l = Len(h.slots[e]) /\ l = Len(g.slots[e])
  <2>1. SameTail(h.slots[e], g.slots[e], h.size[e])
    BY DEF TailsStay
  <2>2. h.slots[e] \in Seq(Nodes)
    BY <1>0 DEF Typed
  <2> QED
    BY <2>1, <2>2 DEF SameTail
<1>3. n <= c /\ c <= l /\ \A j \in c + 1 .. l : h.slots[e][j] \notin A.on
  BY <1>1, <1>2 DEF TailsOK
<1>4. \A j \in n + 1 .. l : g.slots[e][j] = h.slots[e][j]
  BY <1>1, <1>2 DEF TailsStay, SameTail
<1>5. \A j \in c + 1 .. l : g.slots[e][j] = h.slots[e][j]
  BY <1>3, <1>4
<1>6. g.size[e] <= c
  BY <1>1 DEF TailsStay
<1> QED
  BY <1>1, <1>2, <1>3, <1>5, <1>6

(* What a contraction left behind stays.                                    *)
LEMMA HiddenIsKept ==
  ASSUME NEW h, Typed(h), NEW g, NEW A, NEW fixed_part, LevelOK(A, fixed_part), NEW m, NEW R,
         Hidden(h, A, m, R), HiddenStays(h, g, A, m, R)
  PROVE  Hidden(g, A, m, R)
<1>1. g.weight[m.v] = A.weight[m.v] /\ g.nets[m.v] = A.nets[m.v]
  BY DEF Hidden, HiddenStays
<1>2. ASSUME NEW e \in R
      PROVE  Holds(g, e, Merged(A.pins[e], m.u, m.v)) /\ g.edge_weight[e] = A.edge_weight[e]
  <2>1. g.slots[e] = h.slots[e] /\ g.size[e] = h.size[e] /\ g.edge_weight[e] = h.edge_weight[e]
    BY DEF HiddenStays
  <2>2. Holds(h, e, Merged(A.pins[e], m.u, m.v)) /\ h.edge_weight[e] = A.edge_weight[e]
    BY DEF Hidden
  <2> QED
    BY <2>1, <2>2, SameNet
<1>3. ASSUME NEW e \in A.live, Cut(A.pins[e], m.u, m.v)
      PROVE  /\ g.size[e] < Cardinality(A.pins[e]) /\ Cardinality(A.pins[e]) <= Len(g.slots[e])
             /\ g.slots[e][Cardinality(A.pins[e])] = m.v
  <2>0. e \in Nets
    BY DEF LevelOK
  <2>1. PICK c \in Nat, n \in Nat : c = Cardinality(A.pins[e]) /\ n = h.size[e]
    BY <2>0, LevelsAreFinite DEF Typed
  <2>2. /\ SameTail(h.slots[e], g.slots[e], h.size[e])
        /\ g.size[e] < Cardinality(A.pins[e])
    BY <1>3 DEF HiddenStays
  <2>3. PICK l \in Nat : l = Len(h.slots[e]) /\ l = Len(g.slots[e])
    BY <2>0, <2>2 DEF Typed, SameTail
  <2>4. n < c /\ c <= l /\ h.slots[e][c] = m.v
    BY <1>3, <2>1, <2>3 DEF Hidden
  <2>5. \A j \in n + 1 .. l : g.slots[e][j] = h.slots[e][j]
    BY <2>1, <2>2, <2>3 DEF SameTail
  <2>6. c \in n + 1 .. l
    BY <2>1, <2>3, <2>4
  <2> QED
    BY <2>1, <2>2, <2>3, <2>4, <2>5, <2>6
<1> QED
  BY <1>1, <1>2, <1>3 DEF Hidden

(* What the operations on the partition alone leave alone.                  *)
LEMMA PartitionKeepsLevels ==
  ASSUME NEW h, NEW g, SameStructure(h, g), IsHypergraph(g)
  PROVE  /\ WellFormed(h) => WellFormed(g)
         /\ Structure(g) = Structure(h)
         /\ \A A : TailsOK(h, A) => TailsOK(g, A)
         /\ \A A, m, R : Hidden(h, A, m, R) => Hidden(g, A, m, R)
<1>1. /\ \A e : pins(g, e) = pins(h, e)
      /\ \A e, P : Holds(g, e, P) <=> Holds(h, e, P)
  BY SameNets DEF SameStructure
<1>2. WellFormed(h) => WellFormed(g)
  <2>1. Typed(h) => Typed(g)
    BY DEF Typed, SameStructure
  <2>2. NetsHold(h) => NetsHold(g)
    BY <1>1 DEF NetsHold, SameStructure
  <2>3. Incident(h) => Incident(g)
    BY <1>1 DEF Incident, SameStructure
  <2>4. (PinsCounted(h) => PinsCounted(g)) /\ (FixedAreOn(h) => FixedAreOn(g))
    BY DEF PinsCounted, FixedAreOn, SameStructure
  <2> QED
    BY <2>1, <2>2, <2>3, <2>4 DEF WellFormed
<1>3. Structure(g) = Structure(h)
  BY <1>1 DEF Structure, SameStructure
<1>4. \A A : TailsOK(h, A) => TailsOK(g, A)
  BY DEF TailsOK, SameStructure
<1>5. \A A, m, R : Hidden(h, A, m, R) => Hidden(g, A, m, R)
  BY <1>1 DEF Hidden, SameStructure
<1> QED
  BY <1>2, <1>3, <1>4, <1>5

-----------------------------------------------------------------------------
(* A whole contraction.                                                     *)

(* Nets taken out as parallel are nets of u, their representatives stay.    *)
LEMMA RepresentativesStay ==
  ASSUME NEW h, NEW u, NEW R \in Representatives(h, u), NEW P, P = ParallelHyperedges(h, u, R)
  PROVE  \A p \in P : p.representative \in R /\ p.removed \in h.nets[u] \ R /\ R \subseteq h.nets[u]
<1> SUFFICES ASSUME NEW p \in P PROVE p.representative \in R /\ p.removed \in h.nets[u] \ R
  BY DEF Representatives
<1>1. PICK e \in h.nets[u] \ R :
        p = [representative |-> CHOOSE r \in R : isParallelHyperedge(h, r, e), removed |-> e]
  BY DEF ParallelHyperedges
<1>2. \E r \in R : isParallelHyperedge(h, r, e)
  BY DEF Representatives
<1>3. (CHOOSE r \in R : isParallelHyperedge(h, r, e)) \in R
  BY <1>2
<1> QED
  BY <1>1, <1>3

(* What performContraction makes of h, with S and P the removed nets.       *)
Coarsened(h, f, u, v, S, P) ==
  /\ WellFormed(f) /\ f.fixed_part = h.fixed_part
  /\ f.on = h.on \ {v} /\ f.live = h.live \ (S \cup RemovedNets(P))
  /\ S \subseteq h.live /\ RemovedNets(P) \subseteq h.live /\ S \cap RemovedNets(P) = {}
  /\ \A p \in P : p.representative \in f.live
  /\ \A e \in h.live : NetContracted(h, f, e, pins(h, e), u, v)
  /\ \A e \in h.live : f.edge_weight[e] = h.edge_weight[e] + MergedWeight(h.edge_weight, P, e)
  /\ Untouched(h, f, Nets \ h.live, Nodes \ f.on)
  /\ f.weight[u] = h.weight[u] + h.weight[v] /\ \A w \in f.on \ {u} : f.weight[w] = h.weight[w]

(* performContraction: contract, then remove the single-node nets and the   *)
(* parallel ones.                                                           *)
LEMMA ContractionIs ==
  ASSUME NEW h, WellFormed(h), NEW u \in h.on, NEW v \in h.on, u # v,
         isFixedVertex(h, v) => isFixedVertex(h, u),
         NEW c, c = contract(h, u, v), NEW S, S = SingleNodeHyperedges(c, u),
         NEW d, d = removeSingleNodeHyperedges(c, u),
         NEW R \in Representatives(d, u), NEW P, P = ParallelHyperedges(d, u, R),
         NEW f, f = removeParallelHyperedges(d, P)
  PROVE  Coarsened(h, f, u, v, S, P)
<1>1. /\ WellFormed(c)
      /\ c.on = h.on \ {v} /\ c.live = h.live /\ c.fixed_part = h.fixed_part
      /\ \A e \in h.live : NetContracted(h, c, e, pins(h, e), u, v)
      /\ \A e \in h.live : c.edge_weight[e] = h.edge_weight[e]
      /\ Untouched(h, c, Nets \ h.live, Nodes \ h.on)
      /\ Untouched(h, c, {}, {v})
      /\ c.weight[u] = h.weight[u] + h.weight[v] /\ \A w \in c.on \ {u} : c.weight[w] = h.weight[w]
  <2>1. After(h, c, u, v)
    BY ContractKeepsForm
  <2> QED
    BY <2>1 DEF After
<1>2. S \in SUBSET c.live /\ u \in c.on
  BY <1>1 DEF SingleNodeHyperedges, WellFormed, Incident
<1>3. d = removeEdges(c, S)
  BY DEF removeSingleNodeHyperedges
<1>4. /\ WellFormed(d)
      /\ d.slots = c.slots /\ d.size = c.size /\ d.weight = c.weight
      /\ d.edge_weight = c.edge_weight /\ d.on = c.on /\ d.live = c.live \ S
      /\ d.fixed_part = c.fixed_part
      /\ \A w \in Nodes \ c.on : d.nets[w] = c.nets[w]
  <2>1. EdgesGone(c, d, S)
    BY <1>1, <1>2, <1>3, RemoveEdgesKeepsForm
  <2> QED
    BY <2>1 DEF EdgesGone
<1>5. \A p \in P : p.representative \in R /\ p.removed \in d.nets[u] \ R /\ R \subseteq d.nets[u]
  BY RepresentativesStay
<1>6. d.nets[u] \subseteq d.live /\ d.live \subseteq Nets
  BY <1>2, <1>4 DEF WellFormed, Incident, Typed
<1>7. RemovedNets(P) \in SUBSET d.live /\ \A p \in P : p.representative \in d.live \ RemovedNets(P)
  BY <1>5, <1>6 DEF RemovedNets
<1>8. \A p \in P : p.removed \in Nets
  BY <1>5, <1>6
<1>9. PICK a : a = AddToWeights(d, P, 1)
  OBVIOUS
<1>10. /\ WellFormed(a)
       /\ a.slots = d.slots /\ a.size = d.size /\ a.weight = d.weight /\ a.nets = d.nets
       /\ a.on = d.on /\ a.live = d.live /\ a.fixed_part = d.fixed_part
       /\ \A e \in Nets :
            a.edge_weight[e] = d.edge_weight[e] + 1 * MergedWeight(d.edge_weight, P, e)
  <2>1. Reweighted(d, a, P, 1)
    BY <1>4, <1>8, <1>9, AddToWeightsKeepsForm
  <2> QED
    BY <2>1 DEF Reweighted
<1>11. f = removeEdges(a, RemovedNets(P))
  BY <1>9 DEF removeParallelHyperedges, RemovedNets
<1>12. RemovedNets(P) \in SUBSET a.live
  BY <1>7, <1>10
<1>13. /\ WellFormed(f)
       /\ f.slots = a.slots /\ f.size = a.size /\ f.weight = a.weight
       /\ f.edge_weight = a.edge_weight /\ f.on = a.on /\ f.live = a.live \ RemovedNets(P)
       /\ f.fixed_part = a.fixed_part
       /\ \A w \in Nodes \ a.on : f.nets[w] = a.nets[w]
  <2>1. EdgesGone(a, f, RemovedNets(P))
    BY <1>10, <1>11, <1>12, RemoveEdgesKeepsForm
  <2> QED
    BY <2>1 DEF EdgesGone
<1>14. /\ f.fixed_part = h.fixed_part
       /\ f.on = h.on \ {v} /\ f.live = h.live \ (S \cup RemovedNets(P))
       /\ S \subseteq h.live /\ RemovedNets(P) \subseteq h.live /\ S \cap RemovedNets(P) = {}
       /\ \A p \in P : p.representative \in f.live
  BY <1>1, <1>2, <1>4, <1>7, <1>10, <1>13
<1>15. f.slots = c.slots /\ f.size = c.size /\ f.weight = c.weight
  BY <1>4, <1>10, <1>13
<1>16. \A e \in h.live : NetContracted(h, f, e, pins(h, e), u, v)
  <2>1. ASSUME NEW e \in h.live PROVE NetContracted(h, f, e, pins(h, e), u, v)
    <3>1. NetContracted(h, c, e, pins(h, e), u, v)
      BY <1>1
    <3>2. Holds(f, e, Merged(pins(h, e), u, v)) <=> Holds(c, e, Merged(pins(h, e), u, v))
      BY <1>15, SameNets
    <3> QED
      BY <1>15, <3>1, <3>2 DEF NetContracted
  <2> QED
    BY <2>1
<1>17. \A e \in Nets : c.edge_weight[e] = h.edge_weight[e]
  BY <1>1 DEF Untouched
<1>18. c.edge_weight = h.edge_weight
  BY <1>1, <1>17 DEF WellFormed, Typed
<1>19. ASSUME NEW e \in Nets
       PROVE  f.edge_weight[e] = h.edge_weight[e] + MergedWeight(h.edge_weight, P, e)
  <2>1. \A x \in Nets : h.edge_weight[x] \in Int
    BY DEF WellFormed, Typed
  <2>2. MergedWeight(h.edge_weight, P, e) \in Int
    BY <1>8, <2>1, MergedWeightType
  <2>3. PICK y \in Int : y = MergedWeight(h.edge_weight, P, e)
    BY <2>2
  <2>4. d.edge_weight = h.edge_weight
    BY <1>4, <1>18
  <2>5. f.edge_weight[e] = h.edge_weight[e] + 1 * y
    BY <1>10, <1>13, <2>3, <2>4
  <2> QED
    BY <2>3, <2>5
<1>20. Untouched(h, f, Nets \ h.live, Nodes \ f.on)
  <2>1. \A e \in Nets \ h.live : f.slots[e] = h.slots[e] /\ f.size[e] = h.size[e]
    BY <1>1, <1>15 DEF Untouched
  <2>2. \A e \in Nets \ h.live : f.edge_weight[e] = h.edge_weight[e]
    <3> SUFFICES ASSUME NEW e \in Nets \ h.live PROVE f.edge_weight[e] = h.edge_weight[e]
      OBVIOUS
    <3>1. \A p \in P : p.representative # e
      BY <1>14
    <3>2. \A x \in Nets : h.edge_weight[x] \in Int
      BY DEF WellFormed, Typed
    <3>3. MergedWeight(h.edge_weight, P, e) = 0
      BY <1>8, <3>1, <3>2, MergedWeightType
    <3> QED
      BY <1>19, <3>2, <3>3
  <2>3. \A w \in Nodes \ f.on : f.nets[w] = h.nets[w] /\ f.weight[w] = h.weight[w]
    <3> SUFFICES ASSUME NEW w \in Nodes \ f.on PROVE f.nets[w] = h.nets[w] /\ f.weight[w] = h.weight[w]
      OBVIOUS
    <3>1. w \in (Nodes \ h.on) \cup {v}
      BY <1>14
    <3>2. c.nets[w] = h.nets[w] /\ c.weight[w] = h.weight[w]
      BY <1>1, <3>1 DEF Untouched
    <3>3. f.nets[w] = c.nets[w]
      BY <1>4, <1>10, <1>13
    <3> QED
      BY <1>15, <3>2, <3>3
  <2> QED
    BY <2>1, <2>2, <2>3 DEF Untouched
<1>21. f.weight[u] = h.weight[u] + h.weight[v] /\ \A w \in f.on \ {u} : f.weight[w] = h.weight[w]
  BY <1>1, <1>14, <1>15
<1>22. \A e \in h.live : e \in Nets
  BY DEF WellFormed, Typed
<1> QED
  BY <1>13, <1>14, <1>16, <1>19, <1>20, <1>21, <1>22 DEF Coarsened

-----------------------------------------------------------------------------
(* What a contraction leaves behind.                                        *)

(* Beyond what was cut off, contractions move no slots.                     *)
Shrunk(h, f) ==
  \A e \in Nets : SameTail(h.slots[e], f.slots[e], h.size[e]) /\ f.size[e] \in Nat /\ f.size[e] <= h.size[e]

(* A contraction moves no slot behind the pins of a net.                    *)
LEMMA ContractionShrinks ==
  ASSUME NEW h, WellFormed(h), NEW f, NEW u, NEW v, NEW S, NEW P, Coarsened(h, f, u, v, S, P)
  PROVE  Shrunk(h, f)
<1> SUFFICES ASSUME NEW e \in Nets
             PROVE  SameTail(h.slots[e], f.slots[e], h.size[e]) /\ f.size[e] \in Nat /\ f.size[e] <= h.size[e]
  BY DEF Shrunk
<1>1. PICK n \in Nat : n = h.size[e]
  BY DEF WellFormed, Typed
<1>2. h.slots[e] \in Seq(Nodes)
  BY DEF WellFormed, Typed
<1>3. CASE e \in h.live
  <2>1. NetContracted(h, f, e, pins(h, e), u, v)
    BY <1>3 DEF Coarsened
  <2>2. f.size[e] = n \/ (n >= 1 /\ f.size[e] = n - 1)
    BY <1>1, <2>1 DEF NetContracted
  <2> QED
    BY <1>1, <2>1, <2>2 DEF NetContracted
<1>4. CASE e \notin h.live
  <2>1. f.slots[e] = h.slots[e] /\ f.size[e] = h.size[e]
    BY <1>4 DEF Coarsened, Untouched
  <2> QED
    BY <1>1, <1>2, <2>1 DEF SameTail
<1> QED
  BY <1>3, <1>4

(* The next level is coarser by exactly this contraction.                   *)
LEMMA ContractionIsCoarser ==
  ASSUME NEW h, WellFormed(h), NEW f, NEW u \in h.on, NEW v \in h.on, u # v, NEW S, NEW P,
         Coarsened(h, f, u, v, S, P), NEW m, m.u = u, m.v = v,
         isFixedVertex(h, v) => h.fixed_part[u] = h.fixed_part[v],
         NEW A, A = Structure(h), NEW B, B = Structure(f)
  PROVE  /\ Coarser(A, B, m, S, P, f.fixed_part)
         /\ Nested(A, B)
<1>1. LevelOK(A, h.fixed_part) /\ LevelOK(B, f.fixed_part)
  BY StructureIsLevel DEF Coarsened
<1>2. /\ A.on = h.on /\ A.live = h.live
      /\ A.pins = [e \in h.live |-> pins(h, e)]
      /\ A.edge_weight = [e \in h.live |-> h.edge_weight[e]]
      /\ A.weight = [w \in h.on |-> h.weight[w]]
  BY DEF Structure
<1>3. /\ B.on = f.on /\ B.live = f.live
      /\ B.pins = [e \in f.live |-> pins(f, e)]
      /\ B.edge_weight = [e \in f.live |-> f.edge_weight[e]]
      /\ B.weight = [w \in f.on |-> f.weight[w]]
  BY DEF Structure
<1>4. /\ u \in B.on /\ v \notin B.on /\ A.on = B.on \cup {v}
      /\ S \subseteq A.live /\ RemovedNets(P) \subseteq A.live /\ S \cap RemovedNets(P) = {}
      /\ B.live = A.live \ (S \cup RemovedNets(P))
      /\ \A p \in P : p.representative \in B.live
  BY <1>2, <1>3 DEF Coarsened
<1>5. ASSUME NEW e \in B.live PROVE B.pins[e] = Merged(A.pins[e], u, v)
  <2>1. e \in h.live /\ NetContracted(h, f, e, pins(h, e), u, v)
    BY <1>2, <1>4 DEF Coarsened
  <2>2. pins(f, e) = Merged(pins(h, e), u, v)
    BY <2>1, PinsOfMerged DEF NetContracted
  <2> QED
    BY <1>2, <1>3, <2>1, <2>2
<1>6. ASSUME NEW e \in B.live PROVE B.edge_weight[e] = A.edge_weight[e] + MergedWeight(A.edge_weight, P, e)
  <2>1. e \in h.live /\ f.edge_weight[e] = h.edge_weight[e] + MergedWeight(h.edge_weight, P, e)
    BY <1>2, <1>4 DEF Coarsened
  <2>2. MergedNets(P, e) \subseteq h.live
    BY <1>2, <1>4 DEF MergedNets, RemovedNets
  <2>3. IsFiniteSet(MergedNets(P, e))
    BY <2>2, LiveIsFinite, FS_Subset DEF WellFormed
  <2>4. \A x \in MergedNets(P, e) : h.edge_weight[x] = A.edge_weight[x]
    BY <1>2, <2>2
  <2>5. SumOver(h.edge_weight, MergedNets(P, e)) = SumOver(A.edge_weight, MergedNets(P, e))
    BY <2>3, <2>4, SumSame
  <2> QED
    BY <1>2, <1>3, <2>1, <2>5 DEF MergedWeight
<1>7. B.weight[u] = A.weight[u] + A.weight[v] /\ \A w \in B.on \ {u} : B.weight[w] = A.weight[w]
  BY <1>2, <1>3 DEF Coarsened
<1>8. f.fixed_part[v] # kInvalidPartition => f.fixed_part[u] = f.fixed_part[v]
  BY DEF Coarsened, isFixedVertex
<1>9. Coarser(A, B, m, S, P, f.fixed_part)
  BY <1>4, <1>5, <1>6, <1>7, <1>8 DEF Coarser
<1>10. Nested(A, B)
  <2>1. ASSUME NEW e \in B.live PROVE Cardinality(B.pins[e]) <= Cardinality(A.pins[e])
    <3>1. e \in A.live /\ IsFiniteSet(A.pins[e])
      BY <1>1, <1>4, LevelsAreFinite
    <3>2. PICK Q : Q = A.pins[e] /\ B.pins[e] = Merged(Q, u, v)
      BY <1>5
    <3>3. IsFiniteSet(Q)
      BY <3>1, <3>2
    <3>4. /\ Cut(Q, u, v) => Cardinality(Q) = Cardinality(Merged(Q, u, v)) + 1
          /\ ~ Cut(Q, u, v) => Cardinality(Q) = Cardinality(Merged(Q, u, v))
          /\ Cardinality(Merged(Q, u, v)) \in Nat
      BY <3>3, MergedCardinality
    <3>5. Cardinality(Merged(Q, u, v)) <= Cardinality(Q)
      BY <3>4
    <3> QED
      BY <3>2, <3>5
  <2> QED
    BY <1>4, <2>1 DEF Nested
<1> QED
  BY <1>9, <1>10

(* The contraction m of A, which gave B, can be undone in f.                *)
HiddenAway(f, A, B, m, S, P) ==
  Hidden(f, A, m, S \cup RemovedNets(P)) /\ TailsOK(f, A) /\ TailsOK(f, B)

(* A contraction leaves behind what its undoing needs.                      *)
LEMMA ContractionHides ==
  ASSUME NEW h, WellFormed(h), NEW f, NEW u \in h.on, NEW v \in h.on, u # v, NEW S, NEW P,
         Coarsened(h, f, u, v, S, P), NEW m, m.u = u, m.v = v,
         NEW A, A = Structure(h), NEW B, B = Structure(f), TailsOK(h, A)
  PROVE  HiddenAway(f, A, B, m, S, P)
<1>1. LevelOK(A, h.fixed_part) /\ \A e \in A.live : Holds(h, e, A.pins[e])
  BY StructureIsLevel
<1>2. /\ A.on = h.on /\ A.live = h.live
      /\ A.pins = [e \in h.live |-> pins(h, e)]
      /\ A.edge_weight = [e \in h.live |-> h.edge_weight[e]]
      /\ A.weight = [w \in h.on |-> h.weight[w]] /\ A.nets = [w \in h.on |-> h.nets[w]]
  BY StructureIs
<1>3. B.on = f.on /\ B.live = f.live
  BY StructureIs
<1>a. WellFormed(f)
  BY DEF Coarsened
<1>4. \A e \in h.live : h.size[e] = Cardinality(A.pins[e]) /\ h.size[e] \in Nat /\ A.pins[e] = pins(h, e)
  BY <1>1, <1>2 DEF Holds, WellFormed, Typed
<1>5. f.weight[v] = A.weight[v] /\ f.nets[v] = A.nets[v]
  <2>1. v \in Nodes \ f.on
    BY DEF Coarsened, WellFormed, Typed
  <2> QED
    BY <1>2, <2>1 DEF Coarsened, Untouched
<1>6. ASSUME NEW e \in S \cup RemovedNets(P)
      PROVE  Holds(f, e, Merged(A.pins[e], u, v)) /\ f.edge_weight[e] = A.edge_weight[e]
  <2>1. e \in h.live /\ e \notin f.live /\ \A p \in P : p.representative # e
    BY DEF Coarsened
  <2>2. Holds(f, e, Merged(A.pins[e], u, v))
    BY <1>4, <2>1 DEF Coarsened, NetContracted
  <2>3. \A x \in Nets : h.edge_weight[x] \in Int
    BY DEF WellFormed, Typed
  <2>4. \A p \in P : p.removed \in Nets
    BY DEF Coarsened, RemovedNets, WellFormed, Typed
  <2>5. MergedWeight(h.edge_weight, P, e) = 0
    BY <2>1, <2>3, <2>4, MergedWeightType
  <2>6. f.edge_weight[e] = h.edge_weight[e] + MergedWeight(h.edge_weight, P, e) /\ e \in Nets
    BY <2>1 DEF Coarsened, WellFormed, Typed
  <2> QED
    BY <1>2, <2>1, <2>2, <2>3, <2>5, <2>6
<1>7. ASSUME NEW e \in A.live, Cut(A.pins[e], u, v)
      PROVE  /\ f.size[e] < Cardinality(A.pins[e]) /\ Cardinality(A.pins[e]) <= Len(f.slots[e])
             /\ f.slots[e][Cardinality(A.pins[e])] = v
  <2>1. PICK n \in Nat : n = h.size[e] /\ n = Cardinality(A.pins[e])
    BY <1>2, <1>4
  <2>2. NetContracted(h, f, e, A.pins[e], u, v)
    BY <1>2, <1>4 DEF Coarsened
  <2>3. f.size[e] = n - 1 /\ f.slots[e][n] = v /\ SameTail(h.slots[e], f.slots[e], n)
    BY <1>7, <2>1, <2>2 DEF NetContracted
  <2>4. n <= Len(h.slots[e])
    BY <1>1, <2>1 DEF Holds
  <2> QED
    BY <2>1, <2>3, <2>4 DEF SameTail
<1>8. Hidden(f, A, m, S \cup RemovedNets(P))
  BY <1>5, <1>6, <1>7 DEF Hidden
<1>9. TailsOK(f, A)
  <2>1. Shrunk(h, f)
    BY ContractionShrinks
  <2>2. \A e \in A.live : e \in Nets
    BY <1>1 DEF LevelOK
  <2>3. TailsStay(h, f, A)
    BY <1>2, <1>4, <2>1, <2>2 DEF TailsStay, Shrunk
  <2> QED
    BY <1>1, <2>3, TailsAreKept DEF WellFormed
<1>10. TailsOK(f, B)
  <2> SUFFICES ASSUME NEW e \in B.live
               PROVE  /\ f.size[e] <= Cardinality(B.pins[e]) /\ Cardinality(B.pins[e]) <= Len(f.slots[e])
                      /\ \A j \in Cardinality(B.pins[e]) + 1 .. Len(f.slots[e]) : f.slots[e][j] \notin B.on
    BY DEF TailsOK
  <2>1. Holds(f, e, B.pins[e])
    BY <1>a, StructureIsLevel
  <2>2. e \in h.live
    BY <1>3 DEF Coarsened
  <2>3. PICK n \in Nat, k \in Nat, l \in Nat :
          /\ n = h.size[e] /\ k = f.size[e] /\ k = Cardinality(B.pins[e]) /\ k <= l
          /\ l = Len(f.slots[e]) /\ n = Cardinality(A.pins[e])
    <3>1. f.size[e] \in 0 .. Len(f.slots[e]) /\ f.slots[e] \in Seq(Nodes) /\ f.size[e] = Cardinality(B.pins[e])
      BY <2>1 DEF Holds
    <3> QED
      BY <1>4, <2>2, <3>1
  <2>4. NetContracted(h, f, e, A.pins[e], u, v)
    BY <1>4, <2>2 DEF Coarsened
  <2>5. k = n \/ (k = n - 1 /\ f.slots[e][n] = v)
    BY <2>3, <2>4 DEF NetContracted
  <2>6. \A j \in n + 1 .. l : f.slots[e][j] \notin A.on
    BY <1>2, <1>9, <2>2, <2>3 DEF TailsOK
  <2>7. B.on \subseteq A.on /\ v \notin B.on
    BY <1>2, <1>3 DEF Coarsened
  <2>8. \A j \in k + 1 .. l : j \in n + 1 .. l \/ j = n
    BY <2>3, <2>5
  <2> QED
    BY <2>3, <2>5, <2>6, <2>7, <2>8
<1> QED
  BY <1>8, <1>9, <1>10 DEF HiddenAway

-----------------------------------------------------------------------------
(* A whole uncontraction.                                                   *)

(* Level A is given back as g; nets and nodes outside of it are as in h.    *)
Uncoarsened(h, g, A) ==
  /\ WellFormed(g) /\ g.fixed_part = h.fixed_part /\ Structure(g) = A
  /\ \A e \in Nets : SameTail(h.slots[e], g.slots[e], h.size[e])
  /\ \A e \in A.live : g.size[e] = Cardinality(A.pins[e])
  /\ Untouched(h, g, Nets \ A.live, Nodes \ h.on)

(* The nets P come back, their representatives lose their weight, the nets  *)
(* S come back, and v is taken out of u; what uncontract finds then.        *)
UncontractedBy(h, A, m, S, P, c, a, s, g) ==
  /\ EdgesBack(h, c, RemovedNets(P)) /\ Reweighted(c, a, P, -1) /\ EdgesBack(a, s, S)
  /\ Before(s, g, m.u, m.v, A.pins)
  /\ RemovedNets(P) \subseteq Nets \ h.live /\ S \subseteq Nets \ a.live
  /\ m.u \in h.on /\ m.v \in Nodes \ h.on /\ m.u # m.v /\ A.on = h.on \cup {m.v}
  /\ \A p \in P : p.representative \in h.live
  /\ s.slots = h.slots /\ s.size = h.size /\ s.weight = h.weight /\ s.on = h.on
  /\ s.live = A.live /\ s.fixed_part = h.fixed_part
  /\ \A w \in Nodes \ h.on : s.nets[w] = h.nets[w]
  /\ \A e \in A.live : s.edge_weight[e] = A.edge_weight[e]
  /\ \A e \in Nets \ A.live : s.edge_weight[e] = h.edge_weight[e]
  /\ \A e \in A.live : pins(h, e) = Merged(A.pins[e], m.u, m.v) /\ Undoable(s, e, A.pins[e], m.u, m.v)
  /\ s.nets[m.v] = {e \in s.live : m.v \in A.pins[e]}

(* The steps of an uncontraction, each on a well-formed hypergraph.         *)
LEMMA UncontractionSteps ==
  ASSUME NEW h, WellFormed(h), NEW A, LevelOK(A, h.fixed_part), NEW B, B = Structure(h),
         NEW m, NEW S, NEW P, Coarser(A, B, m, S, P, h.fixed_part),
         Hidden(h, A, m, S \cup RemovedNets(P)), TailsOK(h, A),
         NEW cut, NEW c, c = restoreEdges(h, RemovedNets(P), cut),
         NEW a, a = AddToWeights(c, P, -1),
         NEW s, s = restoreEdges(a, S, {}), NEW g, g = uncontract(s, m.u, m.v)
  PROVE  UncontractedBy(h, A, m, S, P, c, a, s, g)
<1> DEFINE Q == RemovedNets(P)
<1>1. /\ B.on = h.on /\ B.live = h.live
      /\ B.pins = [e \in h.live |-> pins(h, e)]
      /\ B.edge_weight = [e \in h.live |-> h.edge_weight[e]]
      /\ B.weight = [w \in h.on |-> h.weight[w]]
  BY DEF Structure
<1>2. PICK u, v : u = m.u /\ v = m.v
  OBVIOUS
<1>3. /\ u \in h.on /\ v \notin h.on /\ A.on = h.on \cup {v} /\ u # v
      /\ S \subseteq A.live /\ Q \subseteq A.live /\ S \cap Q = {}
      /\ h.live = A.live \ (S \cup Q)
      /\ \A p \in P : p.representative \in h.live
  BY <1>1, <1>2 DEF Coarser
<1>4. A.on \subseteq Nodes /\ A.live \subseteq Nets /\ v \in Nodes \ h.on
  BY <1>3 DEF LevelOK
<1>5. \A e \in A.live : Holds(h, e, Merged(A.pins[e], u, v))
  <2>1. ASSUME NEW e \in A.live PROVE Holds(h, e, Merged(A.pins[e], u, v))
    <3>1. CASE e \in h.live
      <4>1. pins(h, e) = Merged(A.pins[e], u, v)
        BY <1>1, <1>2, <3>1 DEF Coarser
      <4>2. Holds(h, e, pins(h, e))
        BY <3>1 DEF WellFormed, NetsHold
      <4> QED
        BY <4>1, <4>2
    <3>2. CASE e \in S \cup Q
      BY <1>2, <3>2 DEF Hidden
    <3> QED
      BY <1>3, <3>1, <3>2
  <2> QED
    BY <2>1
<1>6. \A e \in A.live : pins(h, e) = Merged(A.pins[e], u, v)
  BY <1>5, PinsOfMerged
<1>7. \A e \in A.live : Holds(h, e, pins(h, e)) /\ pins(h, e) \subseteq h.on
  <2>1. \A e \in A.live : Merged(A.pins[e], u, v) \subseteq h.on
    BY <1>3, LevelsAreFinite DEF Merged
  <2> QED
    BY <1>5, <1>6, <2>1
<1>8. EdgesBack(h, c, Q)
  <2>1. Q \in SUBSET (Nets \ h.live)
    BY <1>3, <1>4
  <2>2. \A e \in Q : Holds(h, e, pins(h, e)) /\ pins(h, e) \subseteq h.on
    BY <1>3, <1>7
  <2> QED
    BY <2>1, <2>2, RestoreEdgesKeepsForm
<1>9. /\ WellFormed(c)
      /\ c.slots = h.slots /\ c.size = h.size /\ c.weight = h.weight
      /\ c.edge_weight = h.edge_weight /\ c.on = h.on /\ c.live = h.live \cup Q
      /\ c.fixed_part = h.fixed_part
      /\ \A w \in Nodes \ h.on : c.nets[w] = h.nets[w]
  BY <1>8 DEF EdgesBack
<1>10. \A p \in P : p.removed \in Nets
  BY <1>3, <1>4 DEF RemovedNets
<1>11. Reweighted(c, a, P, -1)
  BY <1>9, <1>10, AddToWeightsKeepsForm
<1>12. /\ WellFormed(a)
       /\ a.slots = c.slots /\ a.size = c.size /\ a.weight = c.weight /\ a.nets = c.nets
       /\ a.on = c.on /\ a.live = c.live /\ a.fixed_part = c.fixed_part
       /\ \A e \in Nets :
            a.edge_weight[e] = c.edge_weight[e] + (-1) * MergedWeight(c.edge_weight, P, e)
  BY <1>11 DEF Reweighted
<1>13. /\ \A e : pins(a, e) = pins(h, e)
       /\ \A e, R : Holds(a, e, R) <=> Holds(h, e, R)
  BY <1>9, <1>12, SameNets
<1>14. EdgesBack(a, s, S)
  <2>1. S \in SUBSET (Nets \ a.live)
    BY <1>3, <1>4, <1>9, <1>12
  <2>2. \A e \in S : Holds(a, e, pins(a, e)) /\ pins(a, e) \subseteq a.on
    BY <1>3, <1>7, <1>9, <1>12, <1>13
  <2> QED
    BY <1>12, <2>1, <2>2, RestoreEdgesKeepsForm
<1>15. /\ WellFormed(s)
       /\ s.slots = a.slots /\ s.size = a.size /\ s.weight = a.weight
       /\ s.edge_weight = a.edge_weight /\ s.on = a.on /\ s.live = a.live \cup S
       /\ s.fixed_part = a.fixed_part
       /\ \A w \in Nodes \ a.on : s.nets[w] = a.nets[w]
  BY <1>14 DEF EdgesBack
<1>16. /\ s.slots = h.slots /\ s.size = h.size /\ s.weight = h.weight /\ s.on = h.on
       /\ s.live = A.live /\ s.fixed_part = h.fixed_part
       /\ \A w \in Nodes \ h.on : s.nets[w] = h.nets[w]
  <2>1. s.slots = h.slots /\ s.size = h.size /\ s.weight = h.weight /\ s.on = h.on /\ s.fixed_part = h.fixed_part
    BY <1>9, <1>12, <1>15
  <2>2. s.live = (h.live \cup Q) \cup S
    BY <1>9, <1>12, <1>15
  <2>3. s.live = A.live
    BY <1>3, <2>2
  <2>4. \A w \in Nodes \ h.on : s.nets[w] = h.nets[w]
    BY <1>9, <1>12, <1>15
  <2> QED
    BY <2>1, <2>3, <2>4
<1>17. \A e \in A.live : s.edge_weight[e] = A.edge_weight[e]
  <2> SUFFICES ASSUME NEW e \in A.live PROVE s.edge_weight[e] = A.edge_weight[e]
    OBVIOUS
  <2>0. (\A x \in Nets : h.edge_weight[x] \in Int) /\ e \in Nets
    BY <1>4 DEF WellFormed, Typed
  <2>1. s.edge_weight[e] = h.edge_weight[e] + (-1) * MergedWeight(h.edge_weight, P, e)
    BY <1>9, <1>12, <1>15, <2>0
  <2>2. PICK y \in Int : y = MergedWeight(h.edge_weight, P, e)
    BY <1>10, <2>0, MergedWeightType
  <2>3. CASE e \in h.live
    <3>1. h.edge_weight[e] = A.edge_weight[e] + MergedWeight(A.edge_weight, P, e)
      BY <1>1, <2>3 DEF Coarser
    <3>2. MergedNets(P, e) \subseteq Q /\ IsFiniteSet(Q)
      <4>1. MergedNets(P, e) \subseteq Q
        BY DEF MergedNets, RemovedNets
      <4>2. IsFiniteSet(Q)
        BY <1>3, <1>4, KHypergraphAssumption, FS_Subset
      <4> QED
        BY <4>1, <4>2
    <3>3. IsFiniteSet(MergedNets(P, e))
      BY <3>2, FS_Subset
    <3>4. \A x \in MergedNets(P, e) : h.edge_weight[x] = A.edge_weight[x]
      BY <3>2 DEF Hidden
    <3>5. SumOver(h.edge_weight, MergedNets(P, e)) = SumOver(A.edge_weight, MergedNets(P, e))
      BY <3>3, <3>4, SumSame
    <3>6. h.edge_weight[e] = A.edge_weight[e] + y
      BY <2>2, <3>1, <3>5 DEF MergedWeight
    <3>7. A.edge_weight[e] \in Int
      BY DEF LevelOK
    <3>8. s.edge_weight[e] = h.edge_weight[e] + (-1) * y
      BY <2>1, <2>2
    <3> QED
      BY <3>6, <3>7, <3>8
  <2>4. CASE e \in S \cup Q
    <3>1. \A p \in P : p.representative # e
      BY <1>3, <2>4
    <3>2. y = 0
      BY <1>10, <2>0, <2>2, <3>1, MergedWeightType
    <3>3. s.edge_weight[e] = h.edge_weight[e]
      BY <2>0, <2>1, <2>2, <3>2
    <3> QED
      BY <2>4, <3>3 DEF Hidden
  <2> QED
    BY <1>3, <2>3, <2>4
<1>18. \A e \in Nets \ A.live : s.edge_weight[e] = h.edge_weight[e]
  <2> SUFFICES ASSUME NEW e \in Nets \ A.live PROVE s.edge_weight[e] = h.edge_weight[e]
    OBVIOUS
  <2>0. (\A x \in Nets : h.edge_weight[x] \in Int) /\ e \in Nets
    BY DEF WellFormed, Typed
  <2>1. s.edge_weight[e] = h.edge_weight[e] + (-1) * MergedWeight(h.edge_weight, P, e)
    BY <1>9, <1>12, <1>15, <2>0
  <2>2. \A p \in P : p.representative # e
    BY <1>3
  <2>3. MergedWeight(h.edge_weight, P, e) = 0
    BY <1>10, <2>0, <2>2, MergedWeightType
  <2> QED
    BY <2>0, <2>1, <2>3
<1>19. \A e \in A.live : Undoable(s, e, A.pins[e], u, v)
  <2> SUFFICES ASSUME NEW e \in A.live PROVE Undoable(s, e, A.pins[e], u, v)
    OBVIOUS
  <2>1. Holds(s, e, Merged(A.pins[e], u, v))
    BY <1>5, <1>16, SameNet
  <2>2. IsFiniteSet(A.pins[e])
    BY LevelsAreFinite
  <2>3. PICK Z : Z = A.pins[e]
    OBVIOUS
  <2>4. /\ Cut(Z, u, v) => Cardinality(Z) = Cardinality(Merged(Z, u, v)) + 1
        /\ ~ Cut(Z, u, v) => Cardinality(Z) = Cardinality(Merged(Z, u, v))
        /\ Cardinality(Merged(Z, u, v)) \in Nat
    BY <1>3, <2>2, <2>3, MergedCardinality
  <2>5. PICK n \in Nat, l \in Nat : n = s.size[e] /\ n = Cardinality(Merged(Z, u, v)) /\ l = Len(s.slots[e])
    BY <2>1, <2>3 DEF Holds
  <2>6. ASSUME Cut(Z, u, v) PROVE n < l /\ s.slots[e][n + 1] = v
    <3>1. Cardinality(Z) = n + 1
      BY <2>4, <2>5, <2>6
    <3>2. Cardinality(Z) <= l /\ s.slots[e][Cardinality(Z)] = v
      BY <1>2, <1>16, <2>3, <2>5, <2>6 DEF Hidden
    <3> QED
      BY <2>5, <3>1, <3>2
  <2>7. ASSUME ~ Cut(Z, u, v), v \in Z PROVE \A j \in n + 1 .. l : s.slots[e][j] # v
    <3>1. Cardinality(Z) = n
      BY <2>4, <2>5, <2>7
    <3>2. \A j \in n + 1 .. l : s.slots[e][j] \notin A.on
      BY <1>16, <2>3, <2>5, <3>1 DEF TailsOK
    <3> QED
      BY <1>3, <3>2
  <2> QED
    BY <2>1, <2>2, <2>3, <2>5, <2>6, <2>7 DEF Undoable
<1>20. s.nets[v] = {e \in s.live : v \in A.pins[e]}
  <2>1. s.nets[v] = A.nets[v]
    BY <1>2, <1>4, <1>16 DEF Hidden
  <2>2. A.nets[v] = {e \in A.live : v \in A.pins[e]}
    BY <1>3 DEF LevelOK
  <2> QED
    BY <1>16, <2>1, <2>2
<1>21. isFixedVertex(s, v) => isFixedVertex(s, u)
  BY <1>2, <1>16 DEF Coarser, isFixedVertex
<1>22. Before(s, g, u, v, A.pins)
  <2>1. u \in s.on /\ v \in Nodes \ s.on /\ g = uncontract(s, u, v)
    BY <1>2, <1>3, <1>4, <1>16
  <2>2. \A e \in s.live : Undoable(s, e, A.pins[e], u, v)
    BY <1>16, <1>19
  <2> QED
    BY <1>15, <1>20, <1>21, <2>1, <2>2, UncontractKeepsForm
<1>23. /\ Q \subseteq Nets \ h.live /\ S \subseteq Nets \ a.live
       /\ u \in h.on /\ v \in Nodes \ h.on /\ u # v /\ A.on = h.on \cup {v}
       /\ \A p \in P : p.representative \in h.live
  BY <1>3, <1>4, <1>9, <1>12
<1> QED
  BY <1>2, <1>6, <1>8, <1>11, <1>14, <1>16, <1>17, <1>18, <1>19, <1>20, <1>22, <1>23 DEF UncontractedBy

(* restoreParallelHyperedges, restoreSingleNodeHyperedges and uncontract    *)
(* give the level before the contraction back.                              *)
LEMMA UncontractionIs ==
  ASSUME NEW h, WellFormed(h), NEW A, LevelOK(A, h.fixed_part), NEW B, B = Structure(h),
         NEW m, NEW S, NEW P, Coarser(A, B, m, S, P, h.fixed_part),
         Hidden(h, A, m, S \cup RemovedNets(P)), NEW c, NEW a, NEW s, NEW g,
         UncontractedBy(h, A, m, S, P, c, a, s, g)
  PROVE  Uncoarsened(h, g, A)
<1>1. /\ B.on = h.on /\ B.live = h.live
      /\ B.weight = [w \in h.on |-> h.weight[w]]
  BY DEF Structure
<1>2. PICK u, v : u = m.u /\ v = m.v
  OBVIOUS
<1>3. u \in h.on /\ v \notin h.on /\ A.on = h.on \cup {v} /\ u # v
  BY <1>2 DEF UncontractedBy
<1>4. A.on \subseteq Nodes /\ A.live \subseteq Nets /\ v \in Nodes \ h.on
  BY <1>3 DEF LevelOK
<1>5. /\ s.slots = h.slots /\ s.size = h.size /\ s.weight = h.weight /\ s.on = h.on
       /\ s.live = A.live /\ s.fixed_part = h.fixed_part
  BY DEF UncontractedBy
<1>6. \A e \in A.live : s.edge_weight[e] = A.edge_weight[e]
  BY DEF UncontractedBy
<1>7. \A w \in Nodes \ h.on : s.nets[w] = h.nets[w]
  BY DEF UncontractedBy
<1>8. \A e \in Nets \ A.live : s.edge_weight[e] = h.edge_weight[e]
  BY DEF UncontractedBy
<1>9. Before(s, g, u, v, A.pins)
  BY <1>2 DEF UncontractedBy
<1>10. /\ WellFormed(g) /\ g.on = A.on /\ g.live = A.live /\ g.fixed_part = h.fixed_part
       /\ g.edge_weight = s.edge_weight
  BY <1>3, <1>5, <1>9 DEF Before
<1>11. \A e \in A.live : NetUncontracted(s, g, e, A.pins[e], u, v)
  BY <1>5, <1>9 DEF Before
<1>12. \A e \in A.live : Holds(g, e, A.pins[e])
  BY <1>11 DEF NetUncontracted
<1>13. \A w \in A.on : g.weight[w] = A.weight[w]
  <2> SUFFICES ASSUME NEW w \in A.on PROVE g.weight[w] = A.weight[w]
    OBVIOUS
  <2>1. g.weight[u] = h.weight[u] - h.weight[v] /\ \A x \in Nodes \ {u} : g.weight[x] = h.weight[x]
    BY <1>5, <1>9 DEF Before
  <2>2. h.weight[v] = A.weight[v]
    BY <1>2 DEF Hidden
  <2>3. h.weight[u] = A.weight[u] + A.weight[v] /\ \A x \in h.on \ {u} : h.weight[x] = A.weight[x]
    BY <1>1, <1>2, <1>3 DEF Coarser
  <2>4. A.weight[u] \in Int /\ A.weight[v] \in Int
    BY <1>3 DEF LevelOK
  <2>5. CASE w = u
    BY <2>1, <2>2, <2>3, <2>4, <2>5
  <2>6. CASE w # u
    BY <1>3, <1>4, <2>1, <2>2, <2>3, <2>6
  <2> QED
    BY <2>5, <2>6
<1>14. Structure(g) = A
  <2>1. \A e \in A.live : Holds(g, e, A.pins[e]) /\ g.edge_weight[e] = A.edge_weight[e]
    BY <1>6, <1>10, <1>12
  <2>2. LevelOK(A, g.fixed_part)
    BY <1>10
  <2> QED
    BY <1>10, <1>13, <2>1, <2>2, LevelIsStructure
<1>15. Untouched(h, g, Nets \ A.live, Nodes \ h.on)
  <2>1. Untouched(s, g, Nets \ A.live, Nodes \ h.on)
    BY <1>5, <1>9 DEF Before
  <2> QED
    BY <1>5, <1>7, <1>8, <2>1 DEF Untouched
<1>16. \A e \in Nets : SameTail(h.slots[e], g.slots[e], h.size[e])
  <2> SUFFICES ASSUME NEW e \in Nets PROVE SameTail(h.slots[e], g.slots[e], h.size[e])
    OBVIOUS
  <2>1. CASE e \in A.live
    BY <1>5, <1>11, <2>1 DEF NetUncontracted
  <2>2. CASE e \notin A.live
    <3>1. g.slots[e] = h.slots[e] /\ h.slots[e] \in Seq(Nodes)
      BY <1>15, <2>2 DEF Untouched, WellFormed, Typed
    <3> QED
      BY <3>1 DEF SameTail
  <2> QED
    BY <2>1, <2>2
<1>17. \A e \in A.live : g.size[e] = Cardinality(A.pins[e])
  BY <1>12 DEF Holds
<1> QED
  BY <1>10, <1>14, <1>15, <1>16, <1>17 DEF Uncoarsened

-----------------------------------------------------------------------------
(* Earlier levels are kept.                                                 *)

(* What is needed of an earlier level A, which the contraction m ended.     *)
Kept(h, A, B, m, S, P) ==
  Coarser(A, B, m, S, P, h.fixed_part) /\ Hidden(h, A, m, S \cup RemovedNets(P))
(* The level A is one that h can still go back to.                          *)
IsOn(h, A) == LevelOK(A, h.fixed_part) /\ TailsOK(h, A)

(* A further contraction keeps the earlier levels.                          *)
LEMMA ContractionKeepsLevel ==
  ASSUME NEW h, WellFormed(h), NEW f, NEW u, NEW v, NEW S, NEW P, Coarsened(h, f, u, v, S, P),
         NEW A, IsOn(h, A), NEW L, L = Structure(h), Nested(A, L)
  PROVE  IsOn(f, A)
<1>1. /\ L.on = h.on /\ L.live = h.live /\ \A e \in L.live : Holds(h, e, L.pins[e])
  BY StructureIsLevel DEF Structure
<1>2. Shrunk(h, f)
  BY ContractionShrinks
<1>3. TailsStay(h, f, A)
  <2> SUFFICES ASSUME NEW e \in A.live
               PROVE  /\ SameTail(h.slots[e], f.slots[e], h.size[e])
                      /\ f.size[e] \in Nat /\ f.size[e] <= Cardinality(A.pins[e])
    BY DEF TailsStay
  <2>1. e \in Nets
    BY DEF IsOn, LevelOK
  <2>2. SameTail(h.slots[e], f.slots[e], h.size[e]) /\ f.size[e] \in Nat /\ f.size[e] <= h.size[e]
    BY <1>2, <2>1 DEF Shrunk
  <2>3. h.size[e] \in Nat /\ h.size[e] <= Cardinality(A.pins[e]) /\ Cardinality(A.pins[e]) \in Nat
    <3>1. Cardinality(A.pins[e]) \in Nat
      BY LevelsAreFinite DEF IsOn
    <3> QED
      BY <2>1, <3>1 DEF WellFormed, Typed, IsOn, TailsOK
  <2> QED
    BY <2>2, <2>3
<1>4. LevelOK(A, f.fixed_part)
  BY DEF IsOn, Coarsened
<1> QED
  BY <1>3, <1>4, TailsAreKept DEF IsOn, WellFormed

(* It keeps what their contractions left behind.                            *)
LEMMA ContractionKeepsHidden ==
  ASSUME NEW h, WellFormed(h), NEW f, NEW u, NEW v, NEW S, NEW P, Coarsened(h, f, u, v, S, P),
         NEW A, IsOn(h, A), NEW L, L = Structure(h), NEW B, Nested(B, L),
         NEW m, NEW T, NEW Q, Kept(h, A, B, m, T, Q)
  PROVE  Kept(f, A, B, m, T, Q)
<1>0. LevelOK(A, h.fixed_part)
  BY DEF IsOn
<1>1. L.on = h.on /\ L.live = h.live
  BY DEF Structure
<1>2. Shrunk(h, f)
  BY ContractionShrinks
<1>3. m.v \in Nodes \ f.on
  <2>1. m.v \in A.on /\ m.v \notin B.on
    BY DEF Kept, Coarser
  <2> QED
    BY <1>0, <1>1, <2>1 DEF Nested, Coarsened, LevelOK
<1>4. T \cup RemovedNets(Q) \subseteq Nets \ h.live
  <2>1. T \cup RemovedNets(Q) \subseteq A.live /\ (T \cup RemovedNets(Q)) \cap B.live = {}
    BY DEF Kept, Coarser
  <2> QED
    BY <1>0, <1>1, <2>1 DEF Nested, LevelOK
<1>5. ASSUME NEW e \in A.live, Cut(A.pins[e], m.u, m.v)
      PROVE  SameTail(h.slots[e], f.slots[e], h.size[e]) /\ f.size[e] < Cardinality(A.pins[e])
  <2>1. e \in Nets
    BY <1>0 DEF LevelOK
  <2>2. SameTail(h.slots[e], f.slots[e], h.size[e]) /\ f.size[e] \in Nat /\ f.size[e] <= h.size[e]
    BY <1>2, <2>1 DEF Shrunk
  <2>3. h.size[e] \in Nat /\ Cardinality(A.pins[e]) \in Nat
    BY <1>0, <2>1, LevelsAreFinite DEF WellFormed, Typed
  <2>4. h.size[e] < Cardinality(A.pins[e])
    BY <1>5 DEF Kept, Hidden
  <2> QED
    BY <2>2, <2>3, <2>4
<1>6. HiddenStays(h, f, A, m, T \cup RemovedNets(Q))
  BY <1>3, <1>4, <1>5 DEF HiddenStays, Coarsened, Untouched
<1>7. Hidden(f, A, m, T \cup RemovedNets(Q))
  BY <1>0, <1>6, HiddenIsKept DEF Kept, WellFormed
<1> QED
  BY <1>7 DEF Kept, Coarsened

(* So does an uncontraction, for the levels before the one given back.      *)
LEMMA UncontractionKeepsLevel ==
  ASSUME NEW h, WellFormed(h), NEW g, NEW L, Uncoarsened(h, g, L), LevelOK(L, h.fixed_part),
         NEW A, IsOn(h, A), Nested(A, L)
  PROVE  IsOn(g, A)
<1>0. LevelOK(A, h.fixed_part)
  BY DEF IsOn
<1>1. TailsStay(h, g, A)
  <2> SUFFICES ASSUME NEW e \in A.live
               PROVE  /\ SameTail(h.slots[e], g.slots[e], h.size[e])
                      /\ g.size[e] \in Nat /\ g.size[e] <= Cardinality(A.pins[e])
    BY DEF TailsStay
  <2>1. e \in Nets
    BY <1>0 DEF LevelOK
  <2>2. SameTail(h.slots[e], g.slots[e], h.size[e]) /\ g.size[e] \in Nat
    BY <2>1 DEF Uncoarsened, WellFormed, Typed
  <2>3. CASE e \in L.live
    BY <2>2, <2>3 DEF Uncoarsened, Nested
  <2>4. CASE e \notin L.live
    <3>1. g.size[e] = h.size[e]
      BY <2>1, <2>4 DEF Uncoarsened, Untouched
    <3> QED
      BY <2>2, <3>1 DEF IsOn, TailsOK
  <2> QED
    BY <2>3, <2>4
<1>2. LevelOK(A, g.fixed_part)
  BY <1>0 DEF Uncoarsened
<1> QED
  BY <1>0, <1>1, <1>2, TailsAreKept DEF IsOn, WellFormed

(* It too keeps what their contractions left behind.                        *)
LEMMA UncontractionKeepsHidden ==
  ASSUME NEW h, WellFormed(h), NEW g, NEW L, Uncoarsened(h, g, L), LevelOK(L, h.fixed_part), h.on \subseteq L.on,
         NEW A, IsOn(h, A), NEW B, Nested(B, L), Nested(A, B), LevelOK(B, h.fixed_part),
         NEW m, NEW T, NEW Q, Kept(h, A, B, m, T, Q)
  PROVE  Kept(g, A, B, m, T, Q)
<1>0. LevelOK(A, h.fixed_part)
  BY DEF IsOn
<1>3. m.v \in Nodes \ h.on
  <2>1. m.v \in A.on /\ m.v \notin B.on
    BY DEF Kept, Coarser
  <2> QED
    BY <1>0, <2>1 DEF Nested, LevelOK
<1>4. T \cup RemovedNets(Q) \subseteq Nets \ L.live
  <2>1. T \cup RemovedNets(Q) \subseteq A.live /\ (T \cup RemovedNets(Q)) \cap B.live = {}
    BY DEF Kept, Coarser
  <2> QED
    BY <1>0, <2>1 DEF Nested, LevelOK
<1>5. ASSUME NEW e \in A.live, Cut(A.pins[e], m.u, m.v)
      PROVE  SameTail(h.slots[e], g.slots[e], h.size[e]) /\ g.size[e] < Cardinality(A.pins[e])
  <2>1. e \in Nets
    BY <1>0 DEF LevelOK
  <2>2. SameTail(h.slots[e], g.slots[e], h.size[e])
    BY <2>1 DEF Uncoarsened
  <2>3. IsFiniteSet(A.pins[e]) /\ Cardinality(A.pins[e]) \in Nat
    BY <1>0, LevelsAreFinite
  <2>4. CASE e \in L.live
    <3>1. e \in B.live /\ g.size[e] = Cardinality(L.pins[e]) /\ Cardinality(L.pins[e]) <= Cardinality(B.pins[e])
      BY <2>4 DEF Uncoarsened, Nested
    <3>2. B.pins[e] = Merged(A.pins[e], m.u, m.v)
      BY <3>1 DEF Kept, Coarser
    <3>3. Cardinality(L.pins[e]) \in Nat /\ Cardinality(B.pins[e]) \in Nat
      BY <2>4, <3>1, LevelsAreFinite
    <3>4. PICK Z : Z = A.pins[e]
      OBVIOUS
    <3>5. m.u # m.v
      BY DEF Kept, Coarser
    <3>6. Cardinality(Z) = Cardinality(Merged(Z, m.u, m.v)) + 1
      BY <1>5, <2>3, <3>4, <3>5, MergedCardinality
    <3>7. Cardinality(A.pins[e]) = Cardinality(B.pins[e]) + 1
      BY <3>2, <3>4, <3>6
    <3> QED
      BY <2>2, <2>3, <3>1, <3>3, <3>7
  <2>5. CASE e \notin L.live
    <3>1. g.size[e] = h.size[e]
      BY <2>1, <2>5 DEF Uncoarsened, Untouched
    <3> QED
      BY <1>5, <2>2, <3>1 DEF Kept, Hidden
  <2> QED
    BY <2>4, <2>5
<1>6. HiddenStays(h, g, A, m, T \cup RemovedNets(Q))
  BY <1>3, <1>4, <1>5 DEF HiddenStays, Uncoarsened, Untouched
<1>7. Hidden(g, A, m, T \cup RemovedNets(Q))
  BY <1>0, <1>6, HiddenIsKept DEF Kept, WellFormed
<1> QED
  BY <1>7 DEF Kept, Uncoarsened

-----------------------------------------------------------------------------
(* Mementos that name adjacent segments of a stack of l elements.           *)
SegmentsOf(b, s, n, l) ==
  \A i \in 1 .. n :
    /\ b[i] \in Nat /\ s[i] \in Nat /\ (i = n => b[i] + s[i] = l)
    /\ \A j \in 1 .. n : (j > i => b[i] + s[i] <= b[j]) /\ (j = i + 1 => b[i] + s[i] = b[j])

(* A segment ends within the stack, and before the last one begins.         *)
LEMMA SegmentsEnd ==
  ASSUME NEW b, NEW s, NEW n \in Nat, NEW l \in Nat, SegmentsOf(b, s, n, l), NEW i \in 1 .. n
  PROVE  b[i] \in Nat /\ s[i] \in Nat /\ b[i] + s[i] <= l /\ (i # n => b[i] + s[i] <= b[n])
<1>1. b[i] \in Nat /\ s[i] \in Nat /\ b[n] \in Nat /\ s[n] \in Nat /\ b[n] + s[n] = l
  BY DEF SegmentsOf
<1>2. CASE i = n
  BY <1>1, <1>2
<1>3. CASE i # n
  <2>1. n > i
    BY <1>3
  <2>2. b[i] + s[i] <= b[n]
    BY <2>1 DEF SegmentsOf
  <2> QED
    BY <1>1, <2>2
<1> QED
  BY <1>2, <1>3

(* Two lists of segments that agree on the first n.                         *)
Agree(c, t, b, s, n) == \A i \in 1 .. n : c[i] = b[i] /\ t[i] = s[i]

(* A segment of k elements on top of the stack.                             *)
LEMMA SegmentsPushed ==
  ASSUME NEW b, NEW s, NEW n \in Nat, NEW l \in Nat, SegmentsOf(b, s, n, l),
         NEW k \in Nat, NEW c, NEW t, Agree(c, t, b, s, n),
         c[n + 1] = l, t[n + 1] = k
  PROVE  SegmentsOf(c, t, n + 1, l + k)
<1> SUFFICES ASSUME NEW i \in 1 .. n + 1
             PROVE  /\ c[i] \in Nat /\ t[i] \in Nat /\ (i = n + 1 => c[i] + t[i] = l + k)
                    /\ \A j \in 1 .. n + 1 : (j > i => c[i] + t[i] <= c[j]) /\ (j = i + 1 => c[i] + t[i] = c[j])
  BY DEF SegmentsOf
<1>1. CASE i = n + 1
  BY <1>1
<1>2. CASE i \in 1 .. n
  <2>1. b[i] \in Nat /\ s[i] \in Nat /\ b[i] + s[i] <= l
    BY <1>2, SegmentsEnd
  <2>2. i = n => b[i] + s[i] = l
    BY <1>2 DEF SegmentsOf
  <2>3. \A j \in 1 .. n : (j > i => b[i] + s[i] <= b[j]) /\ (j = i + 1 => b[i] + s[i] = b[j])
    BY <1>2 DEF SegmentsOf
  <2>4. c[i] = b[i] /\ t[i] = s[i]
    BY <1>2 DEF Agree
  <2>5. ASSUME NEW j \in 1 .. n + 1
        PROVE  (j > i => c[i] + t[i] <= c[j]) /\ (j = i + 1 => c[i] + t[i] = c[j])
    <3>1. CASE j \in 1 .. n
      BY <2>3, <2>4, <3>1 DEF Agree
    <3>2. CASE j = n + 1
      BY <1>2, <2>1, <2>2, <2>4, <3>2
    <3> QED
      BY <3>1, <3>2
  <2> QED
    BY <1>2, <2>1, <2>4, <2>5
<1> QED
  BY <1>1, <1>2

(* The stack without its last segment.                                      *)
LEMMA SegmentsPopped ==
  ASSUME NEW b, NEW s, NEW n \in Nat, NEW l \in Nat, SegmentsOf(b, s, n + 1, l),
         NEW c, NEW t, Agree(c, t, b, s, n)
  PROVE  SegmentsOf(c, t, n, b[n + 1])
<1> SUFFICES ASSUME NEW i \in 1 .. n
             PROVE  /\ c[i] \in Nat /\ t[i] \in Nat /\ (i = n => c[i] + t[i] = b[n + 1])
                    /\ \A j \in 1 .. n : (j > i => c[i] + t[i] <= c[j]) /\ (j = i + 1 => c[i] + t[i] = c[j])
  BY DEF SegmentsOf
<1>1. /\ b[i] \in Nat /\ s[i] \in Nat
      /\ \A j \in 1 .. n + 1 : (j > i => b[i] + s[i] <= b[j]) /\ (j = i + 1 => b[i] + s[i] = b[j])
  BY DEF SegmentsOf
<1>2. i = n => b[i] + s[i] = b[n + 1]
  BY <1>1
<1> QED
  BY <1>1, <1>2 DEF Agree

-----------------------------------------------------------------------------
(* Sequences, of whatever elements.                                         *)
IsList(s) == \E X : s \in Seq(X)

Elements(s) == {s[i] : i \in 1 .. Len(s)}
Extends(t, s, n) == \A j \in 1 .. n : t[j] = s[j]

(* A segment stays when the stack grows or loses what is above it.          *)
LEMMA SegmentsStay ==
  ASSUME NEW s, NEW t, NEW k \in Nat, Extends(t, s, k),
         NEW b \in Nat, NEW n \in Nat, b + n <= k
  PROVE  Segment(t, b, n) = Segment(s, b, n)
<1>1. \A j \in b + 1 .. b + n : j \in 1 .. k
  OBVIOUS
<1> QED
  BY <1>1 DEF Segment, Extends

(* t is s, of k elements, followed by x, of l elements.                     *)
IsJoined(t, s, x, k, l) ==
  IsList(t) /\ Len(t) = k + l /\ Extends(t, s, k) /\ Segment(t, k, l) = Elements(x)

(* What is appended is the last segment.                                    *)
LEMMA SegmentAppended ==
  ASSUME NEW s, IsList(s), NEW x, IsList(x), NEW t, t = s \o x,
         NEW k \in Nat, NEW l \in Nat, k = Len(s), l = Len(x)
  PROVE  IsJoined(t, s, x, k, l)
<1>1. PICK X : s \in Seq(X)
  BY DEF IsList
<1>2. PICK Y : x \in Seq(Y)
  BY DEF IsList
<1>3. s \in Seq(X \cup Y) /\ x \in Seq(X \cup Y)
  BY <1>1, <1>2
<1>6. /\ t \in Seq(X \cup Y) /\ Len(t) = k + l
      /\ \A j \in 1 .. k + l : t[j] = IF j <= k THEN s[j] ELSE x[j - k]
  BY <1>3
<1>7. Segment(t, k, l) = {x[i] : i \in 1 .. l}
  <2>1. \A i \in 1 .. l : k + i \in k + 1 .. k + l /\ t[k + i] = x[i]
    BY <1>6
  <2>2. \A j \in k + 1 .. k + l : j - k \in 1 .. l /\ t[j] = x[j - k]
    BY <1>6
  <2>3. Segment(t, k, l) = {t[j] : j \in k + 1 .. k + l}
    BY DEF Segment
  <2>4. ASSUME NEW z PROVE (\E j \in k + 1 .. k + l : z = t[j]) <=> (\E i \in 1 .. l : z = x[i])
    <3>1. ASSUME NEW j \in k + 1 .. k + l, z = t[j] PROVE \E i \in 1 .. l : z = x[i]
      BY <2>2, <3>1
    <3>2. ASSUME NEW i \in 1 .. l, z = x[i] PROVE \E j \in k + 1 .. k + l : z = t[j]
      BY <2>1, <3>2
    <3> QED
      BY <3>1, <3>2
  <2>5. {t[j] : j \in k + 1 .. k + l} = {x[i] : i \in 1 .. l}
    BY <2>4
  <2> QED
    BY <2>3, <2>5
<1>8. \A j \in 1 .. k : t[j] = s[j]
  BY <1>6
<1> QED
  BY <1>6, <1>7, <1>8 DEF IsList, Extends, Elements, IsJoined

(* The elements of a SubSeq are a segment.                                  *)
LEMMA SegmentIsSubSeq ==
  ASSUME NEW s, IsList(s), NEW b \in Nat, NEW n \in Nat, b + n <= Len(s)
  PROVE  ToSet(SubSeq(s, b + 1, b + n)) = Segment(s, b, n)
<1>1. PICK X : s \in Seq(X)
  BY DEF IsList
<1>2. PICK t : t = SubSeq(s, b + 1, b + n)
  OBVIOUS
<1>3. DOMAIN t = 1 .. n /\ \A i \in 1 .. n : t[i] = s[b + i]
  BY <1>1, <1>2
<1>4. \A j \in b + 1 .. b + n : j - b \in 1 .. n /\ s[j] = t[j - b]
  BY <1>3
<1>5. \A i \in 1 .. n : b + i \in b + 1 .. b + n
  OBVIOUS
<1> QED
  <2>1. ToSet(t) = {t[i] : i \in 1 .. n}
    BY <1>3 DEF ToSet
  <2>2. {t[i] : i \in 1 .. n} = {s[j] : j \in b + 1 .. b + n}
    BY <1>3, <1>4, <1>5
  <2> QED
    BY <1>2, <2>1, <2>2 DEF Segment

(* SetToSeq lists a finite set.                                             *)
LEMMA SeqOfSet ==
  ASSUME NEW S, IsFiniteSet(S), NEW x, x = SetToSeq(S)
  PROVE  IsList(x) /\ Len(x) = Cardinality(S) /\ Elements(x) = S
<1>1. PICK n \in Nat : n = Cardinality(S)
  BY FS_CardinalityType
<1>2. ExistsBijection(1 .. n, S)
  BY <1>1, FS_CardinalityType
<1>3. \E f \in [1 .. n -> S] : IsInjective(f)
  BY <1>2 DEF ExistsBijection, Bijection, Injection, IsInjective
<1>4. x \in [1 .. n -> S] /\ IsInjective(x)
  BY <1>1, <1>3 DEF SetToSeq
<1>5. x \in Seq(S) /\ Len(x) = n
  BY <1>4
<1>6. IsFiniteSet(1 .. n) /\ Cardinality(1 .. n) = n
  BY FS_Interval
<1>7. x \in Injection(1 .. n, S)
  BY <1>4 DEF Injection, IsInjective
<1>8. x \in Surjection(1 .. n, S)
  BY <1>1, <1>6, <1>7, FS_Injection
<1>9. {x[i] : i \in 1 .. n} = S
  BY <1>4, <1>8 DEF Surjection
<1> QED
  BY <1>1, <1>5, <1>9 DEF IsList, Elements

(* t is s, of n elements, followed by x.                                    *)
IsAppended(t, s, x, n) == IsList(t) /\ Len(t) = n + 1 /\ t[n + 1] = x /\ Extends(t, s, n)

(* Append.                                                                  *)
LEMMA ListAppended ==
  ASSUME NEW s, IsList(s), NEW x, NEW t, t = Append(s, x), NEW n \in Nat, n = Len(s)
  PROVE  IsAppended(t, s, x, n)
<1>1. PICK X : s \in Seq(X)
  BY DEF IsList
<1>2. s \in Seq(X \cup {x})
  BY <1>1
<1>3. t \in Seq(X \cup {x}) /\ Len(t) = n + 1 /\ t[n + 1] = x /\ \A i \in 1 .. n : t[i] = s[i]
  BY <1>2
<1> QED
  BY <1>3 DEF IsList, Extends, IsAppended

(* The length of a list.                                                    *)
LEMMA ListLength ==
  ASSUME NEW s, IsList(s)
  PROVE  Len(s) \in Nat /\ (s # <<>> => Len(s) > 0)
<1>1. PICK X : s \in Seq(X)
  BY DEF IsList
<1> QED
  BY <1>1

(* Front and Last of a list.                                                *)
LEMMA ListFront ==
  ASSUME NEW s, IsList(s), NEW n \in Nat, n + 1 = Len(s), NEW t, t = Front(s)
  PROVE  IsList(t) /\ Len(t) = n /\ Last(s) = s[n + 1] /\ Extends(t, s, n)
<1>1. PICK X : s \in Seq(X)
  BY DEF IsList
<1>2. t = SubSeq(s, 1, n) /\ Last(s) = s[n + 1]
  BY <1>1 DEF Front, Last
<1>3. t \in Seq(X) /\ Len(t) = n /\ \A i \in 1 .. n : t[i] = s[i]
  BY <1>1, <1>2
<1> QED
  BY <1>2, <1>3 DEF IsList, Extends

(* The first k elements of a list.                                          *)
LEMMA ListCut ==
  ASSUME NEW s, IsList(s), NEW k \in Nat, k <= Len(s), NEW t, t = SubSeq(s, 1, k)
  PROVE  IsList(t) /\ Len(t) = k /\ Extends(t, s, k)
<1>1. PICK X : s \in Seq(X)
  BY DEF IsList
<1>3. t \in Seq(X) /\ Len(t) = k /\ \A i \in 1 .. k : t[i] = s[i]
  BY <1>1
<1> QED
  BY <1>3 DEF IsList, Extends

-----------------------------------------------------------------------------
(* The invariant of the levels.                                             *)

(* The mementos name adjacent segments of both stacks of removed nets.      *)
MementosOK(H, RS, RP) ==
  /\ SegmentsOf([i \in 1 .. Len(H) |-> H[i].one_pin_hes_begin],
                [i \in 1 .. Len(H) |-> H[i].one_pin_hes_size], Len(H), Len(RS))
  /\ SegmentsOf([i \in 1 .. Len(H) |-> H[i].parallel_hes_begin],
                [i \in 1 .. Len(H) |-> H[i].parallel_hes_size], Len(H), Len(RP))

(* The invariant of the levels, while no time limit struck.                 *)
LevelsInv(h, H, RS, RP, LV) ==
  /\ WellFormed(h)
  /\ IsList(H) /\ IsList(RS) /\ IsList(RP) /\ IsList(LV) /\ Len(LV) = Len(H) + 1
  /\ Structure(h) = LV[Len(LV)]
  /\ MementosOK(H, RS, RP)
  /\ \A i \in 1 .. Len(LV) : IsOn(h, LV[i])
  /\ \A i, j \in 1 .. Len(LV) : i <= j => Nested(LV[i], LV[j])
  /\ \A i \in 1 .. Len(H) :
       Kept(h, LV[i], LV[i + 1], H[i], Single(RS, H[i]), Parallel(RP, H[i]))

(* Levels are nested in all earlier ones.                                   *)
LEMMA NestedIsTransitive ==
  ASSUME NEW A, NEW B, NEW C, NEW fixed_part, LevelOK(A, fixed_part), LevelOK(B, fixed_part),
         LevelOK(C, fixed_part)
  PROVE  Nested(A, A) /\ (Nested(A, B) /\ Nested(B, C) => Nested(A, C))
<1>1. /\ \A e \in A.live : Cardinality(A.pins[e]) \in Nat
      /\ \A e \in B.live : Cardinality(B.pins[e]) \in Nat
      /\ \A e \in C.live : Cardinality(C.pins[e]) \in Nat
  BY LevelsAreFinite
<1> QED
  BY <1>1 DEF Nested

(* The segments that one memento names.                                     *)
LEMMA MementosSegments ==
  ASSUME NEW H, NEW RS, NEW RP, IsList(H), IsList(RS), IsList(RP), MementosOK(H, RS, RP), NEW i \in 1 .. Len(H)
  PROVE  /\ H[i].one_pin_hes_begin \in Nat /\ H[i].one_pin_hes_size \in Nat
         /\ H[i].one_pin_hes_begin + H[i].one_pin_hes_size <= Len(RS)
         /\ i # Len(H) => H[i].one_pin_hes_begin + H[i].one_pin_hes_size <= H[Len(H)].one_pin_hes_begin
         /\ i = Len(H) => H[i].one_pin_hes_begin + H[i].one_pin_hes_size = Len(RS)
         /\ H[i].parallel_hes_begin \in Nat /\ H[i].parallel_hes_size \in Nat
         /\ H[i].parallel_hes_begin + H[i].parallel_hes_size <= Len(RP)
         /\ i # Len(H) => H[i].parallel_hes_begin + H[i].parallel_hes_size <= H[Len(H)].parallel_hes_begin
         /\ i = Len(H) => H[i].parallel_hes_begin + H[i].parallel_hes_size = Len(RP)
<1>1. PICK n \in Nat, k \in Nat, l \in Nat : n = Len(H) /\ k = Len(RS) /\ l = Len(RP)
  BY ListLength
<1>2. PICK b, s, c, t : /\ b = [j \in 1 .. n |-> H[j].one_pin_hes_begin]
                        /\ s = [j \in 1 .. n |-> H[j].one_pin_hes_size]
                        /\ c = [j \in 1 .. n |-> H[j].parallel_hes_begin]
                        /\ t = [j \in 1 .. n |-> H[j].parallel_hes_size]
  OBVIOUS
<1>3. SegmentsOf(b, s, n, k) /\ SegmentsOf(c, t, n, l)
  BY <1>1, <1>2 DEF MementosOK
<1>4. /\ b[i] \in Nat /\ s[i] \in Nat /\ b[i] + s[i] <= k /\ (i # n => b[i] + s[i] <= b[n])
      /\ c[i] \in Nat /\ t[i] \in Nat /\ c[i] + t[i] <= l /\ (i # n => c[i] + t[i] <= c[n])
  BY <1>1, <1>3, SegmentsEnd
<1>5. i = n => b[i] + s[i] = k /\ c[i] + t[i] = l
  BY <1>1, <1>3 DEF SegmentsOf
<1>6. i \in 1 .. n /\ n \in 1 .. n
  BY <1>1
<1> QED
  BY <1>1, <1>2, <1>4, <1>5, <1>6

(* The stacks of removed nets end where the last memento says.              *)
EndAt(RS, RP, m) ==
  /\ m.one_pin_hes_begin \in Nat /\ m.one_pin_hes_size \in Nat
  /\ m.one_pin_hes_begin + m.one_pin_hes_size = Len(RS)
  /\ m.parallel_hes_begin \in Nat /\ m.parallel_hes_size \in Nat
  /\ m.parallel_hes_begin + m.parallel_hes_size = Len(RP)

LEMMA LastEndsStacks ==
  ASSUME NEW H, NEW RS, NEW RP, IsList(H), IsList(RS), IsList(RP), MementosOK(H, RS, RP),
         H # <<>>, NEW m, m = Last(H)
  PROVE  EndAt(RS, RP, m)
<1>1. Len(H) \in Nat /\ Len(H) > 0
  BY ListLength
<1>2. PICK i : i = Len(H)
  OBVIOUS
<1>3. i \in 1 .. Len(H) /\ m = H[i]
  BY <1>1, <1>2 DEF Last
<1> QED
  BY <1>2, <1>3, MementosSegments DEF EndAt

(* A contraction appends its segments.                                      *)
LEMMA MementosPushed ==
  ASSUME NEW H, NEW RS, NEW RP, IsList(H), IsList(RS), IsList(RP), MementosOK(H, RS, RP),
         NEW x, NEW y, IsList(x), IsList(y),
         NEW m, m.one_pin_hes_begin = Len(RS), m.one_pin_hes_size = Len(x),
         m.parallel_hes_begin = Len(RP), m.parallel_hes_size = Len(y)
  PROVE  MementosOK(Append(H, m), RS \o x, RP \o y)
<1>1. PICK n \in Nat, k \in Nat, l \in Nat, kx \in Nat, ly \in Nat :
        n = Len(H) /\ k = Len(RS) /\ l = Len(RP) /\ kx = Len(x) /\ ly = Len(y)
  BY ListLength
<1>2. PICK G, T, U : G = Append(H, m) /\ T = RS \o x /\ U = RP \o y
  OBVIOUS
<1>3. Len(G) = n + 1 /\ G[n + 1] = m /\ Extends(G, H, n)
  <2>1. IsAppended(G, H, m, n)
    BY <1>1, <1>2, ListAppended
  <2> QED
    BY <2>1 DEF IsAppended
<1>4. Len(T) = k + kx /\ Len(U) = l + ly
  <2>1. IsJoined(T, RS, x, k, kx)
    BY <1>1, <1>2, SegmentAppended
  <2>2. IsJoined(U, RP, y, l, ly)
    BY <1>1, <1>2, SegmentAppended
  <2> QED
    BY <2>1, <2>2 DEF IsJoined
<1>5. PICK b, s, c, t : /\ b = [j \in 1 .. n |-> H[j].one_pin_hes_begin]
                        /\ s = [j \in 1 .. n |-> H[j].one_pin_hes_size]
                        /\ c = [j \in 1 .. n |-> H[j].parallel_hes_begin]
                        /\ t = [j \in 1 .. n |-> H[j].parallel_hes_size]
  OBVIOUS
<1>6. PICK b1, s1, c1, t1 : /\ b1 = [j \in 1 .. n + 1 |-> G[j].one_pin_hes_begin]
                            /\ s1 = [j \in 1 .. n + 1 |-> G[j].one_pin_hes_size]
                            /\ c1 = [j \in 1 .. n + 1 |-> G[j].parallel_hes_begin]
                            /\ t1 = [j \in 1 .. n + 1 |-> G[j].parallel_hes_size]
  OBVIOUS
<1>7. SegmentsOf(b, s, n, k) /\ SegmentsOf(c, t, n, l)
  BY <1>1, <1>5 DEF MementosOK
<1>8. Agree(b1, s1, b, s, n) /\ Agree(c1, t1, c, t, n)
  BY <1>3, <1>5, <1>6 DEF Agree, Extends
<1>9. n + 1 \in 1 .. n + 1
  BY <1>1
<1>10. b1[n + 1] = G[n + 1].one_pin_hes_begin /\ s1[n + 1] = G[n + 1].one_pin_hes_size
  BY <1>6, <1>9
<1>11. c1[n + 1] = G[n + 1].parallel_hes_begin /\ t1[n + 1] = G[n + 1].parallel_hes_size
  BY <1>6, <1>9
<1>12. b1[n + 1] = k /\ s1[n + 1] = kx /\ c1[n + 1] = l /\ t1[n + 1] = ly
  BY <1>1, <1>3, <1>10, <1>11
<1>13. SegmentsOf(b1, s1, n + 1, k + kx)
  BY <1>7, <1>8, <1>12, SegmentsPushed
<1>14. SegmentsOf(c1, t1, n + 1, l + ly)
  BY <1>7, <1>8, <1>12, SegmentsPushed
<1> QED
  BY <1>2, <1>3, <1>4, <1>6, <1>13, <1>14 DEF MementosOK

(* An uncontraction takes the last ones away.                               *)
LEMMA MementosPopped ==
  ASSUME NEW H, NEW RS, NEW RP, IsList(H), IsList(RS), IsList(RP), MementosOK(H, RS, RP),
         NEW n \in Nat, n + 1 = Len(H), NEW G, Len(G) = n, Extends(G, H, n),
         NEW T, NEW U, Len(T) = H[n + 1].one_pin_hes_begin, Len(U) = H[n + 1].parallel_hes_begin
  PROVE  MementosOK(G, T, U)
<1>1. PICK k \in Nat, l \in Nat : k = Len(RS) /\ l = Len(RP)
  BY ListLength
<1>2. PICK b, s, c, t : /\ b = [j \in 1 .. n + 1 |-> H[j].one_pin_hes_begin]
                        /\ s = [j \in 1 .. n + 1 |-> H[j].one_pin_hes_size]
                        /\ c = [j \in 1 .. n + 1 |-> H[j].parallel_hes_begin]
                        /\ t = [j \in 1 .. n + 1 |-> H[j].parallel_hes_size]
  OBVIOUS
<1>3. PICK b1, s1, c1, t1 : /\ b1 = [j \in 1 .. n |-> G[j].one_pin_hes_begin]
                            /\ s1 = [j \in 1 .. n |-> G[j].one_pin_hes_size]
                            /\ c1 = [j \in 1 .. n |-> G[j].parallel_hes_begin]
                            /\ t1 = [j \in 1 .. n |-> G[j].parallel_hes_size]
  OBVIOUS
<1>4. SegmentsOf(b, s, n + 1, k) /\ SegmentsOf(c, t, n + 1, l)
  BY <1>1, <1>2 DEF MementosOK
<1>5. Agree(b1, s1, b, s, n) /\ Agree(c1, t1, c, t, n)
  BY <1>2, <1>3 DEF Agree, Extends
<1>6. b[n + 1] = Len(T) /\ c[n + 1] = Len(U)
  BY <1>2
<1>7. SegmentsOf(b1, s1, n, b[n + 1])
  BY <1>1, <1>4, <1>5, SegmentsPopped
<1>8. SegmentsOf(c1, t1, n, c[n + 1])
  BY <1>1, <1>4, <1>5, SegmentsPopped
<1> QED
  BY <1>3, <1>6, <1>7, <1>8 DEF MementosOK

-----------------------------------------------------------------------------
(* A level more.                                                            *)

(* The rater lets v be contracted into u.                                   *)
MayContract(h, u, v) ==
  /\ u \in h.on /\ v \in h.on /\ u # v
  /\ isFixedVertex(h, v) => isFixedVertex(h, u) /\ h.fixed_part[u] = h.fixed_part[v]

(* The memento m of the contraction that removed the nets x and y.          *)
Noted(m, u, v, RS, RP, x, y) ==
  /\ m.u = u /\ m.v = v
  /\ m.one_pin_hes_begin = Len(RS) /\ m.one_pin_hes_size = Len(x)
  /\ m.parallel_hes_begin = Len(RP) /\ m.parallel_hes_size = Len(y)

(* A contraction adds a level.                                              *)
LEMMA LevelPushed ==
  ASSUME NEW h, NEW H, NEW RS, NEW RP, NEW LV, LevelsInv(h, H, RS, RP, LV),
         NEW u, NEW v, MayContract(h, u, v), NEW f, NEW x, IsList(x), NEW y, IsList(y),
         Coarsened(h, f, u, v, Elements(x), Elements(y)),
         NEW m, Noted(m, u, v, RS, RP, x, y), NEW H1, H1 = Append(H, m),
         NEW RS1, RS1 = RS \o x, NEW RP1, RP1 = RP \o y,
         NEW LV1, LV1 = Append(LV, Structure(f))
  PROVE  LevelsInv(f, H1, RS1, RP1, LV1)
<1>a. PICK S, P : S = Elements(x) /\ P = Elements(y)
  OBVIOUS
<1>b. Coarsened(h, f, u, v, S, P)
  BY <1>a
<1>c. /\ u \in h.on /\ v \in h.on /\ u # v
      /\ isFixedVertex(h, v) => h.fixed_part[u] = h.fixed_part[v]
  BY DEF MayContract
<1>d. /\ m.u = u /\ m.v = v
      /\ m.one_pin_hes_begin = Len(RS) /\ m.one_pin_hes_size = Len(x)
      /\ m.parallel_hes_begin = Len(RP) /\ m.parallel_hes_size = Len(y)
  BY DEF Noted
<1>1. WellFormed(h) /\ IsList(H) /\ IsList(RS) /\ IsList(RP) /\ IsList(LV) /\ MementosOK(H, RS, RP)
  BY DEF LevelsInv
<1>2. PICK n \in Nat, k \in Nat, l \in Nat, kx \in Nat, ly \in Nat :
        n = Len(H) /\ k = Len(RS) /\ l = Len(RP) /\ kx = Len(x) /\ ly = Len(y)
  BY <1>1, ListLength
<1>3. Len(LV) = n + 1
  BY <1>2 DEF LevelsInv
<1>4. PICK A, B : A = Structure(h) /\ B = Structure(f)
  OBVIOUS
<1>5. LV[n + 1] = A
  BY <1>3, <1>4 DEF LevelsInv
<1>6. IsList(H1) /\ Len(H1) = n + 1 /\ H1[n + 1] = m /\ \A i \in 1 .. n : H1[i] = H[i]
  <2>1. IsAppended(H1, H, m, n)
    BY <1>1, <1>2, ListAppended
  <2> QED
    BY <2>1 DEF IsAppended, Extends
<1>7. IsList(LV1) /\ Len(LV1) = n + 2 /\ LV1[n + 2] = B /\ \A i \in 1 .. n + 1 : LV1[i] = LV[i]
  <2>1. n + 1 \in Nat /\ (n + 1) + 1 = n + 2
    BY <1>2
  <2>2. IsAppended(LV1, LV, B, n + 1)
    BY <1>1, <1>3, <1>4, <2>1, ListAppended
  <2> QED
    BY <2>1, <2>2 DEF IsAppended, Extends
<1>8. IsJoined(RS1, RS, x, k, kx)
  BY <1>1, <1>2, SegmentAppended
<1>9. IsJoined(RP1, RP, y, l, ly)
  BY <1>1, <1>2, SegmentAppended
<1>10. MementosOK(H1, RS1, RP1)
  BY <1>1, <1>d, MementosPushed
<1>11. WellFormed(f)
  BY <1>b DEF Coarsened
<1>12. LevelOK(A, h.fixed_part)
  BY <1>1, <1>4, StructureIsLevel
<1>13. LevelOK(B, f.fixed_part)
  BY <1>4, <1>11, StructureIsLevel
<1>14. f.fixed_part = h.fixed_part
  BY <1>b DEF Coarsened
<1>15. Coarser(A, B, m, S, P, f.fixed_part) /\ Nested(A, B)
  BY <1>1, <1>4, <1>b, <1>c, <1>d, ContractionIsCoarser
<1>16. n + 1 \in 1 .. n + 1
  BY <1>2
<1>17. IsOn(h, A)
  BY <1>3, <1>5, <1>16 DEF LevelsInv
<1>18. Hidden(f, A, m, S \cup RemovedNets(P)) /\ TailsOK(f, A) /\ TailsOK(f, B)
  <2>1. TailsOK(h, A)
    BY <1>17 DEF IsOn
  <2>2. HiddenAway(f, A, B, m, S, P)
    BY <1>1, <1>4, <1>b, <1>c, <1>d, <2>1, ContractionHides
  <2> QED
    BY <2>2 DEF HiddenAway
<1>19. ASSUME NEW i \in 1 .. n + 1
       PROVE  IsOn(h, LV[i]) /\ Nested(LV[i], A)
  <2>1. i <= n + 1
    BY <1>2
  <2> QED
    BY <1>3, <1>5, <1>16, <2>1 DEF LevelsInv
<1>20. ASSUME NEW i \in 1 .. n + 2
       PROVE  IsOn(f, LV1[i]) /\ Nested(LV1[i], B)
  <2>0. i = n + 2 \/ i \in 1 .. n + 1
    OBVIOUS
  <2>1. CASE i = n + 2
    <3>1. IsOn(f, B)
      BY <1>13, <1>18 DEF IsOn
    <3>2. Nested(B, B)
      BY <1>13, NestedIsTransitive
    <3> QED
      BY <1>7, <2>1, <3>1, <3>2
  <2>2. CASE i \in 1 .. n + 1
    <3>1. PICK L : L = LV[i]
      OBVIOUS
    <3>2. IsOn(h, L) /\ Nested(L, A)
      BY <1>19, <2>2, <3>1
    <3>3. IsOn(f, L)
      BY <1>1, <1>4, <1>b, <3>2, ContractionKeepsLevel
    <3>4. LevelOK(L, f.fixed_part)
      BY <3>3 DEF IsOn
    <3>5. Nested(L, B)
      BY <1>12, <1>13, <1>14, <1>15, <3>2, <3>4, NestedIsTransitive
    <3> QED
      BY <1>7, <2>2, <3>1, <3>3, <3>5
  <2> QED
    BY <2>0, <2>1, <2>2
<1>21. ASSUME NEW i \in 1 .. n + 2, NEW j \in 1 .. n + 2, i <= j
       PROVE  Nested(LV1[i], LV1[j])
  <2>0. j = n + 2 \/ j \in 1 .. n + 1
    OBVIOUS
  <2>1. CASE j = n + 2
    BY <1>7, <1>20, <2>1
  <2>2. CASE j \in 1 .. n + 1
    <3>1. i \in 1 .. n + 1
      BY <1>2, <1>21, <2>2
    <3>2. Nested(LV[i], LV[j])
      BY <1>3, <1>21, <2>2, <3>1 DEF LevelsInv
    <3> QED
      BY <1>7, <2>2, <3>1, <3>2
  <2> QED
    BY <2>0, <2>1, <2>2
<1>22. ASSUME NEW i \in 1 .. n + 1
       PROVE  Kept(f, LV1[i], LV1[i + 1], H1[i], Single(RS1, H1[i]), Parallel(RP1, H1[i]))
  <2>0. i = n + 1 \/ i \in 1 .. n
    OBVIOUS
  <2>1. CASE i = n + 1
    <3>1. i + 1 = n + 2 /\ i \in 1 .. n + 1
      BY <1>2, <2>1
    <3>2. LV1[i] = A /\ LV1[i + 1] = B /\ H1[i] = m
      BY <1>5, <1>6, <1>7, <2>1, <3>1
    <3>3. Single(RS1, m) = S /\ Parallel(RP1, m) = P
      BY <1>2, <1>8, <1>9, <1>a, <1>d DEF Single, Parallel, IsJoined
    <3>4. Kept(f, A, B, m, S, P)
      BY <1>15, <1>18 DEF Kept
    <3> QED
      BY <3>2, <3>3, <3>4
  <2>2. CASE i \in 1 .. n
    <3>1. i \in 1 .. n + 1 /\ i + 1 \in 1 .. n + 1
      BY <1>2, <2>2
    <3>2. PICK L, N, M, T, Q : /\ L = LV[i] /\ N = LV[i + 1] /\ M = H[i]
                               /\ T = Single(RS, H[i]) /\ Q = Parallel(RP, H[i])
      OBVIOUS
    <3>3. LV1[i] = L /\ LV1[i + 1] = N /\ H1[i] = M
      BY <1>6, <1>7, <2>2, <3>1, <3>2
    <3>4. Kept(h, L, N, M, T, Q)
      BY <1>2, <2>2, <3>2 DEF LevelsInv
    <3>5. IsOn(h, L) /\ Nested(N, A)
      BY <1>19, <3>1, <3>2
    <3>6. Kept(f, L, N, M, T, Q)
      BY <1>1, <1>4, <1>b, <3>4, <3>5, ContractionKeepsHidden
    <3>7. i \in 1 .. Len(H)
      BY <1>2, <2>2
    <3>8. /\ M.one_pin_hes_begin \in Nat /\ M.one_pin_hes_size \in Nat
          /\ M.one_pin_hes_begin + M.one_pin_hes_size <= k
          /\ M.parallel_hes_begin \in Nat /\ M.parallel_hes_size \in Nat
          /\ M.parallel_hes_begin + M.parallel_hes_size <= l
      BY <1>1, <1>2, <3>2, <3>7, MementosSegments
    <3>9. Single(RS1, M) = T
      <4>1. Segment(RS1, M.one_pin_hes_begin, M.one_pin_hes_size)
              = Segment(RS, M.one_pin_hes_begin, M.one_pin_hes_size)
        BY <1>8, <3>8, SegmentsStay DEF IsJoined
      <4> QED
        BY <3>2, <4>1 DEF Single
    <3>10. Parallel(RP1, M) = Q
      <4>1. Segment(RP1, M.parallel_hes_begin, M.parallel_hes_size)
              = Segment(RP, M.parallel_hes_begin, M.parallel_hes_size)
        BY <1>9, <3>8, SegmentsStay DEF IsJoined
      <4> QED
        BY <3>2, <4>1 DEF Parallel
    <3> QED
      BY <3>3, <3>6, <3>9, <3>10
  <2> QED
    BY <2>0, <2>1, <2>2
<1>23. Len(LV1) = n + 2 /\ Len(H1) = n + 1 /\ n + 2 = (n + 1) + 1
  BY <1>2, <1>6, <1>7
<1>24. Structure(f) = LV1[Len(LV1)]
  BY <1>4, <1>7
<1>25. \A i \in 1 .. Len(LV1) : IsOn(f, LV1[i])
  BY <1>20, <1>23
<1>26. \A i, j \in 1 .. Len(LV1) : i <= j => Nested(LV1[i], LV1[j])
  BY <1>21, <1>23
<1>27. \A i \in 1 .. Len(H1) :
         Kept(f, LV1[i], LV1[i + 1], H1[i], Single(RS1, H1[i]), Parallel(RP1, H1[i]))
  BY <1>22, <1>23
<1> QED
  BY <1>6, <1>7, <1>8, <1>9, <1>10, <1>11, <1>23, <1>24, <1>25, <1>26, <1>27 DEF LevelsInv, IsJoined

-----------------------------------------------------------------------------
(* A level less.                                                            *)

(* An uncontraction takes the last level away.                              *)
LEMMA LevelPopped ==
  ASSUME NEW h, NEW H, NEW RS, NEW RP, NEW LV, LevelsInv(h, H, RS, RP, LV), H # <<>>,
         NEW m, m = Last(H), NEW S, S = Single(RS, m), NEW P, P = Parallel(RP, m),
         NEW cut, NEW c, c = restoreEdges(h, RemovedNets(P), cut),
         NEW a, a = AddToWeights(c, P, -1),
         NEW s, s = restoreEdges(a, S, {}), NEW g, g = uncontract(s, m.u, m.v),
         NEW H1, H1 = Front(H), NEW LV1, LV1 = Front(LV),
         NEW RS1, RS1 = SubSeq(RS, 1, Len(RS) - m.one_pin_hes_size),
         NEW RP1, RP1 = SubSeq(RP, 1, Len(RP) - m.parallel_hes_size)
  PROVE  LevelsInv(g, H1, RS1, RP1, LV1)
<1>1. WellFormed(h) /\ IsList(H) /\ IsList(RS) /\ IsList(RP) /\ IsList(LV) /\ MementosOK(H, RS, RP)
  BY DEF LevelsInv
<1>2. PICK n \in Nat, k \in Nat, l \in Nat : n + 1 = Len(H) /\ k = Len(RS) /\ l = Len(RP)
  <2>1. Len(H) \in Nat /\ Len(H) > 0 /\ Len(RS) \in Nat /\ Len(RP) \in Nat
    BY <1>1, ListLength
  <2>2. Len(H) - 1 \in Nat /\ (Len(H) - 1) + 1 = Len(H)
    BY <2>1
  <2> QED
    BY <2>1, <2>2
<1>3. Len(LV) = n + 2
  BY <1>2 DEF LevelsInv
<1>4. PICK A, B : A = LV[n + 1] /\ B = LV[n + 2]
  OBVIOUS
<1>5. Structure(h) = B
  BY <1>3, <1>4 DEF LevelsInv
<1>6. IsList(H1) /\ Len(H1) = n /\ m = H[n + 1] /\ Extends(H1, H, n)
  BY <1>1, <1>2, ListFront
<1>7. IsList(LV1) /\ Len(LV1) = n + 1 /\ Extends(LV1, LV, n + 1)
  <2>1. n + 1 \in Nat /\ (n + 1) + 1 = n + 2
    BY <1>2
  <2> QED
    BY <1>1, <1>3, <2>1, ListFront
<1>8. /\ m.one_pin_hes_begin \in Nat /\ m.one_pin_hes_size \in Nat
      /\ m.one_pin_hes_begin + m.one_pin_hes_size = k
      /\ m.parallel_hes_begin \in Nat /\ m.parallel_hes_size \in Nat
      /\ m.parallel_hes_begin + m.parallel_hes_size = l
  <2>1. EndAt(RS, RP, m)
    BY <1>1, LastEndsStacks
  <2> QED
    BY <1>2, <2>1 DEF EndAt
<1>9. IsList(RS1) /\ Len(RS1) = m.one_pin_hes_begin /\ Extends(RS1, RS, m.one_pin_hes_begin)
  <2>1. Len(RS) - m.one_pin_hes_size = m.one_pin_hes_begin /\ m.one_pin_hes_begin <= Len(RS)
    BY <1>2, <1>8
  <2> QED
    BY <1>1, <1>8, <2>1, ListCut
<1>10. IsList(RP1) /\ Len(RP1) = m.parallel_hes_begin /\ Extends(RP1, RP, m.parallel_hes_begin)
  <2>1. Len(RP) - m.parallel_hes_size = m.parallel_hes_begin /\ m.parallel_hes_begin <= Len(RP)
    BY <1>2, <1>8
  <2> QED
    BY <1>1, <1>8, <2>1, ListCut
<1>11. MementosOK(H1, RS1, RP1)
  BY <1>1, <1>2, <1>6, <1>9, <1>10, MementosPopped
<1>12. ASSUME NEW i \in 1 .. n + 2 PROVE IsOn(h, LV[i]) /\ LevelOK(LV[i], h.fixed_part)
  BY <1>3 DEF LevelsInv, IsOn
<1>13. ASSUME NEW i \in 1 .. n + 2, NEW j \in 1 .. n + 2, i <= j PROVE Nested(LV[i], LV[j])
  BY <1>3, <1>13 DEF LevelsInv
<1>14. ASSUME NEW i \in 1 .. n + 1
       PROVE  Kept(h, LV[i], LV[i + 1], H[i], Single(RS, H[i]), Parallel(RP, H[i]))
  BY <1>2 DEF LevelsInv
<1>15. n + 1 \in 1 .. n + 1 /\ n + 1 \in 1 .. n + 2 /\ n + 2 \in 1 .. n + 2 /\ (n + 1) + 1 = n + 2
  BY <1>2
<1>16. IsOn(h, A) /\ LevelOK(A, h.fixed_part) /\ Nested(A, B)
  <2>1. n + 1 <= n + 2
    BY <1>2
  <2> QED
    BY <1>4, <1>12, <1>13, <1>15, <2>1
<1>17. Kept(h, A, B, m, S, P)
  BY <1>4, <1>6, <1>14, <1>15
<1>18. Uncoarsened(h, g, A)
  <2>1. Coarser(A, B, m, S, P, h.fixed_part) /\ Hidden(h, A, m, S \cup RemovedNets(P)) /\ TailsOK(h, A)
    BY <1>16, <1>17 DEF Kept, IsOn
  <2>2. UncontractedBy(h, A, m, S, P, c, a, s, g)
    BY <1>1, <1>5, <1>16, <2>1, UncontractionSteps
  <2> QED
    BY <1>1, <1>5, <1>16, <2>1, <2>2, UncontractionIs
<1>19. h.on \subseteq A.on
  BY <1>5, <1>16 DEF Structure, Nested
<1>20. ASSUME NEW i \in 1 .. n + 1
       PROVE  IsOn(g, LV1[i]) /\ Nested(LV[i], A)
  <2>1. i \in 1 .. n + 2 /\ i <= n + 1
    BY <1>2
  <2>2. PICK L : L = LV[i]
    OBVIOUS
  <2>3. IsOn(h, L) /\ Nested(L, A)
    BY <1>4, <1>12, <1>13, <1>15, <2>1, <2>2
  <2>4. IsOn(g, L)
    BY <1>1, <1>16, <1>18, <2>3, UncontractionKeepsLevel
  <2> QED
    BY <1>7, <2>2, <2>3, <2>4 DEF Extends
<1>21. ASSUME NEW i \in 1 .. n + 1, NEW j \in 1 .. n + 1, i <= j
       PROVE  Nested(LV1[i], LV1[j])
  <2>1. i \in 1 .. n + 2 /\ j \in 1 .. n + 2
    BY <1>2
  <2> QED
    BY <1>7, <1>13, <1>21, <2>1 DEF Extends
<1>22. ASSUME NEW i \in 1 .. n
       PROVE  Kept(g, LV1[i], LV1[i + 1], H1[i], Single(RS1, H1[i]), Parallel(RP1, H1[i]))
  <2>1. /\ i \in 1 .. n + 1 /\ i + 1 \in 1 .. n + 1 /\ i \in 1 .. n + 2 /\ i + 1 \in 1 .. n + 2
        /\ i <= i + 1
    BY <1>2
  <2>2. PICK L, N, M, T, Q : /\ L = LV[i] /\ N = LV[i + 1] /\ M = H[i]
                             /\ T = Single(RS, H[i]) /\ Q = Parallel(RP, H[i])
    OBVIOUS
  <2>3. LV1[i] = L /\ LV1[i + 1] = N /\ H1[i] = M
    BY <1>6, <1>7, <2>1, <2>2 DEF Extends
  <2>4. Kept(h, L, N, M, T, Q)
    BY <1>14, <2>1, <2>2
  <2>5. IsOn(h, L) /\ LevelOK(N, h.fixed_part) /\ Nested(L, N)
    BY <1>12, <1>13, <2>1, <2>2
  <2>6. Nested(N, A)
    BY <1>20, <2>1, <2>2
  <2>7. Kept(g, L, N, M, T, Q)
    BY <1>1, <1>16, <1>18, <1>19, <2>4, <2>5, <2>6, UncontractionKeepsHidden
  <2>8. i \in 1 .. Len(H) /\ i # Len(H)
    BY <1>2
  <2>9. /\ M.one_pin_hes_begin \in Nat /\ M.one_pin_hes_size \in Nat
        /\ M.one_pin_hes_begin + M.one_pin_hes_size <= m.one_pin_hes_begin
        /\ M.parallel_hes_begin \in Nat /\ M.parallel_hes_size \in Nat
        /\ M.parallel_hes_begin + M.parallel_hes_size <= m.parallel_hes_begin
    BY <1>1, <1>2, <1>6, <2>2, <2>8, MementosSegments
  <2>10. Single(RS1, M) = T
    <3>1. PICK q \in Nat, b \in Nat, d \in Nat :
            q = m.one_pin_hes_begin /\ b = M.one_pin_hes_begin /\ d = M.one_pin_hes_size
      BY <1>8, <2>9
    <3>2. b + d <= q
      BY <2>9, <3>1
    <3>3. Extends(RS1, RS, q)
      BY <1>9, <3>1
    <3>4. Segment(RS1, b, d) = Segment(RS, b, d)
      BY <3>2, <3>3, SegmentsStay
    <3> QED
      BY <2>2, <3>1, <3>4 DEF Single
  <2>11. Parallel(RP1, M) = Q
    <3>1. PICK q \in Nat, b \in Nat, d \in Nat :
            q = m.parallel_hes_begin /\ b = M.parallel_hes_begin /\ d = M.parallel_hes_size
      BY <1>8, <2>9
    <3>2. b + d <= q
      BY <2>9, <3>1
    <3>3. Extends(RP1, RP, q)
      BY <1>10, <3>1
    <3>4. Segment(RP1, b, d) = Segment(RP, b, d)
      BY <3>2, <3>3, SegmentsStay
    <3> QED
      BY <2>2, <3>1, <3>4 DEF Parallel
  <2> QED
    BY <2>3, <2>7, <2>10, <2>11
<1>23. WellFormed(g) /\ Structure(g) = A
  BY <1>18 DEF Uncoarsened
<1>24. Structure(g) = LV1[Len(LV1)]
  BY <1>4, <1>7, <1>15, <1>23 DEF Extends
<1>25. \A i \in 1 .. Len(LV1) : IsOn(g, LV1[i])
  BY <1>7, <1>20
<1>26. \A i, j \in 1 .. Len(LV1) : i <= j => Nested(LV1[i], LV1[j])
  BY <1>7, <1>21
<1>27. \A i \in 1 .. Len(H1) :
         Kept(g, LV1[i], LV1[i + 1], H1[i], Single(RS1, H1[i]), Parallel(RP1, H1[i]))
  BY <1>6, <1>22
<1> QED
  BY <1>6, <1>7, <1>9, <1>10, <1>11, <1>23, <1>24, <1>25, <1>26, <1>27 DEF LevelsInv

-----------------------------------------------------------------------------
(* Steps as the actions take them.                                          *)

(* The operations that change the partition only.                           *)
PartitionOnly(h, g) == IsHypergraph(g) /\ SameStructure(h, g)

(* They keep the invariant.                                                 *)
LEMMA PartitionOnlyKeepsLevels ==
  ASSUME NEW h, NEW H, NEW RS, NEW RP, NEW LV, LevelsInv(h, H, RS, RP, LV), NEW g, PartitionOnly(h, g)
  PROVE  LevelsInv(g, H, RS, RP, LV)
<1>1. /\ WellFormed(g) /\ Structure(g) = Structure(h) /\ g.fixed_part = h.fixed_part
      /\ \A A : TailsOK(h, A) => TailsOK(g, A)
      /\ \A A, m, R : Hidden(h, A, m, R) => Hidden(g, A, m, R)
  <2>1. g.fixed_part = h.fixed_part /\ WellFormed(h)
    BY DEF PartitionOnly, SameStructure, LevelsInv
  <2>2. /\ WellFormed(h) => WellFormed(g)
        /\ Structure(g) = Structure(h)
        /\ \A A : TailsOK(h, A) => TailsOK(g, A)
        /\ \A A, m, R : Hidden(h, A, m, R) => Hidden(g, A, m, R)
    BY PartitionKeepsLevels DEF PartitionOnly
  <2> QED
    BY <2>1, <2>2
<1>2. \A A : IsOn(h, A) => IsOn(g, A)
  BY <1>1 DEF IsOn
<1>3. \A A, B, m, S, P : Kept(h, A, B, m, S, P) => Kept(g, A, B, m, S, P)
  BY <1>1 DEF Kept
<1> QED
  BY <1>1, <1>2, <1>3 DEF LevelsInv

(* Every operation on a whole partition is one.                             *)
LEMMA PartitionOperations ==
  ASSUME NEW h, IsHypergraph(h), NEW part, NEW g,
         \/ g = initializeNumCutHyperedges(h) \/ g = resetEdgeHashes(h) \/ g = reset(h)
         \/ g = AssignParts(h, part)
  PROVE  PartitionOnly(h, g)
<1>1. IsHypergraph(g) /\ SameStructure(h, g)
  BY PartitionOperationsKeepStructure
<1> QED
  BY <1>1 DEF PartitionOnly

(* One after the other is one.                                              *)
LEMMA PartitionOnlyIsTransitive ==
  ASSUME NEW h, NEW f, NEW g, IsHypergraph(h)
  PROVE  PartitionOnly(h, h) /\ (PartitionOnly(h, f) /\ PartitionOnly(f, g) => PartitionOnly(h, g))
BY DEF PartitionOnly, SameStructure

(* A partition assigned to the hypergraph, reset or not.                    *)
LEMMA AssignedAnew ==
  ASSUME NEW h, IsHypergraph(h), NEW part
  PROVE  PartitionOnly(h, AssignParts(h, part)) /\ PartitionOnly(h, AssignParts(reset(h), part))
<1>1. PICK f : f = reset(h)
  OBVIOUS
<1>2. PICK g : g = AssignParts(f, part)
  OBVIOUS
<1>3. PICK a : a = AssignParts(h, part)
  OBVIOUS
<1>4. PartitionOnly(h, f)
  BY <1>1, PartitionOperations
<1>5. IsHypergraph(f)
  BY <1>4 DEF PartitionOnly
<1>6. PartitionOnly(f, g)
  BY <1>2, <1>5, PartitionOperations
<1>7. PartitionOnly(h, a)
  BY <1>3, PartitionOperations
<1>8. PartitionOnly(h, g)
  BY <1>4, <1>6, PartitionOnlyIsTransitive
<1> QED
  BY <1>1, <1>2, <1>3, <1>7, <1>8

(* The contraction removed the nets x and y, which the memento m notes.     *)
Listed(h, f, u, v, x, y, m, RS, RP) ==
  /\ IsList(x) /\ IsList(y) /\ Coarsened(h, f, u, v, Elements(x), Elements(y))
  /\ Noted(m, u, v, RS, RP, x, y)

(* performContraction pushes what it removed, as its memento says.          *)
LEMMA ContractionIsListed ==
  ASSUME NEW h, WellFormed(h), NEW RS, NEW RP, NEW u, NEW v,
         MayContract(h, u, v), NEW c, c = contract(h, u, v), NEW S, S = SingleNodeHyperedges(c, u),
         NEW d, d = removeSingleNodeHyperedges(c, u),
         NEW R \in Representatives(d, u), NEW P, P = ParallelHyperedges(d, u, R),
         NEW f, f = removeParallelHyperedges(d, P),
         NEW x, x = SetToSeq(S), NEW y, y = SetToSeq(P),
         NEW m, m.u = u, m.v = v,
         m.one_pin_hes_begin = Len(RS), m.one_pin_hes_size = Len(x),
         m.parallel_hes_begin = Len(RP), m.parallel_hes_size = Cardinality(P)
  PROVE  Listed(h, f, u, v, x, y, m, RS, RP)
<1>2. Coarsened(h, f, u, v, S, P)
  BY ContractionIs DEF MayContract
<1>3. IsFiniteSet(Nets) /\ h.live \subseteq Nets
  BY KHypergraphAssumption DEF WellFormed, Typed
<1>4. IsFiniteSet(S)
  <2>1. S \subseteq Nets
    BY <1>2, <1>3 DEF Coarsened
  <2> QED
    BY <1>3, <2>1, FS_Subset
<1>5. IsFiniteSet(P)
  <2>1. PICK T : T = RemovedNets(P)
    OBVIOUS
  <2>2. IsFiniteSet(T)
    <3>1. T \subseteq Nets
      BY <1>2, <1>3, <2>1 DEF Coarsened
    <3> QED
      BY <1>3, <3>1, FS_Subset
  <2>3. PICK r : r = [e \in T |-> [representative |-> CHOOSE q \in R : isParallelHyperedge(d, q, e),
                                   removed |-> e]]
    OBVIOUS
  <2>4. r \in Surjection(T, P)
    <3>1. \A p \in P : p.removed \in T /\ r[p.removed] = p
      BY <2>1, <2>3 DEF ParallelHyperedges, RemovedNets
    <3>2. \A e \in T : r[e] \in P
      BY <2>1, <3>1 DEF RemovedNets
    <3>3. r \in [T -> P]
      BY <2>3, <3>2
    <3> QED
      BY <3>1, <3>3 DEF Surjection
  <2> QED
    BY <2>2, <2>4, FS_Surjection
<1>6. IsList(x) /\ S = Elements(x)
  BY <1>4, SeqOfSet
<1>7. IsList(y) /\ P = Elements(y) /\ Len(y) = Cardinality(P)
  BY <1>5, SeqOfSet
<1>8. Coarsened(h, f, u, v, Elements(x), Elements(y))
  BY <1>2, <1>6, <1>7
<1>9. Noted(m, u, v, RS, RP, x, y)
  BY <1>7 DEF Noted
<1> QED
  BY <1>6, <1>7, <1>8, <1>9 DEF Listed

(* It adds a level.                                                         *)
LEMMA ContractionPushes ==
  ASSUME NEW h, NEW H, NEW RS, NEW RP, NEW LV, LevelsInv(h, H, RS, RP, LV), NEW u, NEW v, MayContract(h, u, v),
         NEW f, NEW x, NEW y, NEW m, Listed(h, f, u, v, x, y, m, RS, RP)
  PROVE  LevelsInv(f, Append(H, m), RS \o x, RP \o y, Append(LV, Structure(f)))
<1>1. /\ IsList(x) /\ IsList(y) /\ Coarsened(h, f, u, v, Elements(x), Elements(y))
      /\ Noted(m, u, v, RS, RP, x, y)
  BY DEF Listed
<1> QED
  BY <1>1, LevelPushed

(* The two restore functions and uncontract take a level away.              *)
LEMMA UncontractionPops ==
  ASSUME NEW h, NEW H, NEW RS, NEW RP, NEW LV, LevelsInv(h, H, RS, RP, LV), H # <<>>,
         NEW m, m = Last(H),
         NEW P, P = ToSet(SubSeq(RP, m.parallel_hes_begin + 1, m.parallel_hes_begin + m.parallel_hes_size)),
         NEW S, S = ToSet(SubSeq(RS, m.one_pin_hes_begin + 1, m.one_pin_hes_begin + m.one_pin_hes_size)),
         NEW cut, NEW c, c = restoreEdges(h, RemovedNets(P), cut),
         NEW a, a = AddToWeights(c, P, -1),
         NEW s, s = restoreEdges(a, S, {}), NEW g, g = uncontract(s, m.u, m.v),
         NEW H1, H1 = Front(H), NEW LV1, LV1 = Front(LV),
         NEW RS1, RS1 = SubSeq(RS, 1, Len(RS) - m.one_pin_hes_size),
         NEW RP1, RP1 = SubSeq(RP, 1, Len(RP) - m.parallel_hes_size)
  PROVE  LevelsInv(g, H1, RS1, RP1, LV1)
<1>1. IsList(H) /\ IsList(RS) /\ IsList(RP) /\ MementosOK(H, RS, RP)
  BY DEF LevelsInv
<1>2. Len(H) \in Nat /\ Len(H) > 0 /\ Len(H) \in 1 .. Len(H) /\ m = H[Len(H)]
  <2>1. Len(H) \in Nat /\ Len(H) > 0
    BY <1>1, ListLength
  <2> QED
    BY <2>1 DEF Last
<1>3. PICK n : n = Len(H)
  OBVIOUS
<1>4. /\ m.one_pin_hes_begin \in Nat /\ m.one_pin_hes_size \in Nat
      /\ m.one_pin_hes_begin + m.one_pin_hes_size <= Len(RS)
      /\ m.parallel_hes_begin \in Nat /\ m.parallel_hes_size \in Nat
      /\ m.parallel_hes_begin + m.parallel_hes_size <= Len(RP)
  BY <1>1, <1>2, <1>3, MementosSegments
<1>5. S = Single(RS, m)
  BY <1>1, <1>4, SegmentIsSubSeq DEF Single
<1>6. P = Parallel(RP, m)
  BY <1>1, <1>4, SegmentIsSubSeq DEF Parallel
<1> QED
  BY <1>5, <1>6, LevelPopped

-----------------------------------------------------------------------------
(* Initial states.                                                          *)

(* The inductive invariant.                                                 *)
IInv ==
  /\ context \in Contexts /\ vcycle \in Nat
  /\ IsList(history) /\ IsList(levels) /\ Len(levels) >= Len(history) + 1
  /\ ~Broken => LevelsInv(hg, history, removed_single, removed_parallel, levels)

(* A hypergraph is well-formed as constructed.                              *)
LEMMA ConstructedIsWellFormed ==
  ASSUME NEW h, IsConstructed(h)
  PROVE  WellFormed(h) /\ \A e \in Nets : h.size[e] = Len(h.slots[e])
<1>1. PICK f : f = h.fixed_part
  OBVIOUS
<1>2. PICK n : n = NewHypergraph(h.slots, h.weight, h.edge_weight)
  OBVIOUS
<1>3. /\ h.slots \in [Nets -> Seq(Nodes)] /\ \A e \in Nets : IsInjective(h.slots[e])
      /\ h.weight \in [Nodes -> Nat] /\ h.edge_weight \in [Nets -> Nat]
      /\ h.fixed_part \in [Nodes -> Parts \cup {kInvalidPartition}]
  BY DEF IsConstructed
<1>4. h = [n EXCEPT !.fixed_part = h.fixed_part, !.fixed_weight = h.fixed_weight,
                    !.fixed = {u \in Nodes : h.fixed_part[u] # kInvalidPartition}]
  BY <1>2 DEF IsConstructed
<1>5. /\ h.size = [e \in Nets |-> Len(h.slots[e])]
      /\ h.nets = [u \in Nodes |-> {e \in Nets : \E i \in DOMAIN h.slots[e] : h.slots[e][i] = u}]
      /\ h.on = Nodes /\ h.live = Nets
      /\ h.num_pins = SumOver(h.size, Nets)
      /\ h.fixed = {u \in Nodes : h.fixed_part[u] # kInvalidPartition}
  <2> DEFINE size == [e \in Nets |-> Len(h.slots[e])]
  <2>1. n.size = size /\ n.num_pins = SumOver(size, Nets)
    BY <1>2 DEF NewHypergraph, SumOver
  <2>2. h.size = size /\ h.num_pins = n.num_pins
    BY <1>2, <1>4, <2>1 DEF NewHypergraph
  <2>3. h.num_pins = SumOver(h.size, Nets)
    BY <2>1, <2>2
  <2>4. /\ h.nets = [u \in Nodes |-> {e \in Nets : \E i \in DOMAIN h.slots[e] : h.slots[e][i] = u}]
        /\ h.on = Nodes /\ h.live = Nets
        /\ h.fixed = {u \in Nodes : h.fixed_part[u] # kInvalidPartition}
    BY <1>2, <1>4 DEF NewHypergraph
  <2> QED
    BY <2>2, <2>3, <2>4
<1>6. IsHypergraph(h)
  BY <1>2, <1>4 DEF NewHypergraph, IsHypergraph
<1>7. \A e \in Nets : Len(h.slots[e]) \in Nat /\ DOMAIN h.slots[e] = 1 .. Len(h.slots[e])
  BY <1>3
<1>8. \A e \in Nets : h.size[e] = Len(h.slots[e])
  BY <1>5
<1>9. IsFiniteSet(Nets)
  BY KHypergraphAssumption
<1>10. h.num_pins = SumOver(h.size, h.live)
  BY <1>5
<1>11. Typed(h)
  <2>1. h.size \in [Nets -> Nat]
    BY <1>5, <1>7
  <2>2. h.slots \in [Nets -> Seq(Nodes)]
    BY <1>3
  <2>3. h.nets \in [Nodes -> SUBSET Nets]
    BY <1>5
  <2>4. h.weight \in [Nodes -> Int] /\ h.edge_weight \in [Nets -> Int]
    BY <1>3
  <2>5. h.num_pins \in Int
    <3>1. \A e \in Nets : h.size[e] \in Int
      BY <2>1
    <3> QED
      BY <1>5, <1>9, <1>10, <3>1, SumType
  <2>6. h.fixed_part \in [Nodes -> Int]
    BY <1>3, KHypergraphAssumption DEF Parts, kInvalidPartition
  <2> QED
    BY <1>5, <1>6, <2>1, <2>2, <2>3, <2>4, <2>5, <2>6 DEF Typed
<1>12. ASSUME NEW e \in Nets
       PROVE  Holds(h, e, pins(h, e)) /\ pins(h, e) \subseteq Nodes
  <2>a. PICK s : s = h.slots[e]
    OBVIOUS
  <2>1. PICK k \in Nat : k = Len(s) /\ k = h.size[e]
    BY <1>7, <1>8, <2>a
  <2>2. s \in [1 .. k -> Nodes] /\ s \in Seq(Nodes)
    <3>1. s \in Seq(Nodes)
      BY <1>3, <2>a
    <3>2. s \in [1 .. Len(s) -> Nodes]
      BY <3>1
    <3> QED
      BY <2>1, <3>1, <3>2
  <2>3. \A i, j \in 1 .. k : s[i] = s[j] => i = j
    BY <1>3, <2>a, <2>1, <2>2 DEF IsInjective
  <2>4. pins(h, e) = {s[i] : i \in 1 .. k}
    BY <2>a, <2>1 DEF pins
  <2>5. IsFiniteSet(1 .. k) /\ Cardinality(1 .. k) = k
    BY FS_Interval
  <2>6. PICK X : X = pins(h, e)
    OBVIOUS
  <2>7. s \in Bijection(1 .. k, X)
    BY <2>2, <2>3, <2>4, <2>6 DEF Bijection, Injection, Surjection, IsInjective
  <2>8. Cardinality(X) = k
    <3>1. ExistsBijection(1 .. k, X)
      BY <2>7 DEF ExistsBijection
    <3> QED
      BY <2>5, <3>1, FS_Bijection
  <2> QED
    BY <2>a, <2>1, <2>2, <2>3, <2>4, <2>6, <2>8 DEF Holds
<1>13. \A w \in Nodes : h.nets[w] = {e \in Nets : w \in pins(h, e)}
  <2>1. \A e \in Nets : DOMAIN h.slots[e] = 1 .. h.size[e]
    BY <1>7, <1>8
  <2> SUFFICES ASSUME NEW w \in Nodes PROVE h.nets[w] = {e \in Nets : w \in pins(h, e)}
    OBVIOUS
  <2>2. h.nets[w] = {e \in Nets : \E i \in DOMAIN h.slots[e] : h.slots[e][i] = w}
    BY <1>5
  <2>3. \A e \in Nets : (\E i \in DOMAIN h.slots[e] : h.slots[e][i] = w) <=> w \in pins(h, e)
    BY <2>1 DEF pins
  <2> QED
    BY <2>2, <2>3
<1> QED
  BY <1>5, <1>8, <1>10, <1>11, <1>12, <1>13 DEF WellFormed, NetsHold, Incident, PinsCounted, FixedAreOn

-----------------------------------------------------------------------------
(* The inductive invariant.                                                 *)

(* The invariant holds initially.                                           *)
LEMMA InitIsInvariant ==
  ASSUME Init
  PROVE  IInv
<1>1. PICK c, h : c = context /\ h = c.hypergraph
  OBVIOUS
<1>2. context \in Contexts /\ vcycle = 0
  BY DEF Init
<1>3. WellFormed(h) /\ \A e \in Nets : h.size[e] = Len(h.slots[e])
  BY <1>1, <1>2, ContextsAssumption, ConstructedIsWellFormed
<1>4. PICK g : g = hg
  OBVIOUS
<1>5. IsHypergraph(h)
  BY <1>3 DEF WellFormed, Typed
<1>6. PartitionOnly(h, g)
  <2>1. CASE hg = context.hypergraph
    BY <1>1, <1>4, <1>5, <2>1, PartitionOnlyIsTransitive
  <2>2. CASE \E part \in context.partitions : hg = setPartition(context.hypergraph, part)
    <3>1. PICK part : g = AssignParts(reset(h), part)
      BY <1>1, <1>4, <2>2 DEF setPartition
    <3> QED
      BY <1>5, <3>1, AssignedAnew
  <2> QED
    BY <2>1, <2>2 DEF Init
<1>7. WellFormed(g)
  BY <1>3, <1>6, PartitionKeepsLevels DEF PartitionOnly
<1>8. history = <<>> /\ removed_single = <<>> /\ removed_parallel = <<>> /\ levels = <<Structure(g)>>
  BY <1>4 DEF Init
<1>9. PICK L, LV : L = Structure(g) /\ LV = <<L>>
  OBVIOUS
<1>10. IsList(<<>>) /\ IsList(LV) /\ Len(LV) = 1 /\ LV[1] = L /\ Len(<<>>) = 0
  <2>1. <<>> \in Seq({}) /\ LV \in Seq({L})
    BY <1>9
  <2>2. Len(LV) = 1 /\ LV[1] = L /\ Len(<<>>) = 0
    BY <1>9
  <2> QED
    BY <2>1, <2>2 DEF IsList
<1>11. LevelOK(L, g.fixed_part) /\ \A e \in L.live : Holds(g, e, L.pins[e])
  BY <1>7, <1>9, StructureIsLevel
<1>12. TailsOK(g, L)
  <2> SUFFICES ASSUME NEW e \in L.live
               PROVE  /\ g.size[e] <= Cardinality(L.pins[e]) /\ Cardinality(L.pins[e]) <= Len(g.slots[e])
                      /\ \A j \in Cardinality(L.pins[e]) + 1 .. Len(g.slots[e]) : g.slots[e][j] \notin L.on
    BY DEF TailsOK
  <2>1. e \in Nets
    BY <1>11 DEF LevelOK
  <2>2. g.size[e] = Len(g.slots[e])
    BY <1>3, <1>6, <2>1 DEF PartitionOnly, SameStructure
  <2>3. g.size[e] = Cardinality(L.pins[e])
    BY <1>11 DEF Holds
  <2>4. g.size[e] \in Nat
    BY <1>7, <2>1 DEF WellFormed, Typed
  <2> QED
    BY <2>2, <2>3, <2>4
<1>13. IsOn(g, L) /\ Nested(L, L)
  BY <1>11, <1>12, NestedIsTransitive DEF IsOn
<1>14. LevelsInv(g, <<>>, <<>>, <<>>, LV)
  BY <1>7, <1>9, <1>10, <1>13 DEF LevelsInv, MementosOK, SegmentsOf
<1> QED
  BY <1>2, <1>4, <1>8, <1>9, <1>10, <1>14 DEF IInv

(* Steps that leave history and levels alone.                               *)
LEMMA PartitionStep ==
  ASSUME IInv, UNCHANGED <<history, pruner, levels>>, context' = context, vcycle' \in Nat,
         NEW g, hg' = g, IsHypergraph(hg) /\ hg.on \subseteq Nodes => PartitionOnly(hg, g)
  PROVE  IInv'
<1>1. Broken' <=> Broken
  BY DEF Broken
<1>2. ASSUME ~Broken
      PROVE  LevelsInv(g, history, removed_single, removed_parallel, levels)
  <2>1. LevelsInv(hg, history, removed_single, removed_parallel, levels)
    BY <1>2 DEF IInv
  <2>2. PICK h : h = hg
    OBVIOUS
  <2>3. IsHypergraph(h) /\ h.on \subseteq Nodes
    BY <2>1, <2>2 DEF LevelsInv, WellFormed, Typed
  <2> QED
    BY <2>1, <2>2, <2>3, PartitionOnlyKeepsLevels
<1>3. (~Broken => LevelsInv(hg, history, removed_single, removed_parallel, levels))'
  BY <1>1, <1>2 DEF pruner
<1> QED
  BY <1>3 DEF IInv

-----------------------------------------------------------------------------
(* The actions.                                                             *)

(* The rater accepts no target that is fixed to another block, or fixed     *)
(* while the representative is free.                                        *)
LEMMA TargetsMayBeContracted ==
  ASSUME NEW hn \in hg.on, NEW target \in Targets(hn)
  PROVE  MayContract(hg, hn, target)
<1>1. target \in Rated(hn) /\ acceptContraction(hn, target)
  BY DEF Targets
<1>2. target \in hg.on /\ target # hn
  BY <1>1 DEF Rated
<1>3. /\ isFixedVertex(hg, hn) \/ ~isFixedVertex(hg, target)
      /\ isFixedVertex(hg, hn) /\ isFixedVertex(hg, target) => hg.fixed_part[hn] = hg.fixed_part[target]
  BY <1>1 DEF acceptContraction
<1> QED
  BY <1>2, <1>3 DEF MayContract

(* performContraction keeps the invariant.                                  *)
LEMMA ContractionStep ==
  ASSUME IInv, NEW u, NEW v, MayContract(hg, u, v), performContraction(u, v), UNCHANGED <<context, vcycle>>
  PROVE  IInv'
<1>1. PICK h, H, RS, RP, LV : /\ h = hg /\ H = history /\ RS = removed_single
                              /\ RP = removed_parallel /\ LV = levels
  OBVIOUS
<1>2. PICK c, S : c = contract(h, u, v) /\ S = SingleNodeHyperedges(c, u)
  OBVIOUS
<1>3. PICK d : d = removeSingleNodeHyperedges(c, u)
  OBVIOUS
<1>4. PICK R \in Representatives(d, u) :
        /\ hg' = removeParallelHyperedges(d, ParallelHyperedges(d, u, R))
        /\ history' = Append(history,
             [u |-> u, v |-> v,
              one_pin_hes_begin |-> Len(removed_single), one_pin_hes_size |-> Len(SetToSeq(S)),
              parallel_hes_begin |-> Len(removed_parallel),
              parallel_hes_size |-> Cardinality(ParallelHyperedges(d, u, R))])
        /\ removed_single' = removed_single \o SetToSeq(S)
        /\ removed_parallel' = removed_parallel \o SetToSeq(ParallelHyperedges(d, u, R))
        /\ levels' = Append(levels, Structure(hg'))
  BY <1>1, <1>2, <1>3 DEF performContraction
<1>5. PICK P, x, y : P = ParallelHyperedges(d, u, R) /\ x = SetToSeq(S) /\ y = SetToSeq(P)
  OBVIOUS
<1>6. PICK f : f = removeParallelHyperedges(d, P)
  OBVIOUS
<1>7. PICK m : m = [u |-> u, v |-> v,
                    one_pin_hes_begin |-> Len(RS), one_pin_hes_size |-> Len(x),
                    parallel_hes_begin |-> Len(RP), parallel_hes_size |-> Cardinality(P)]
  OBVIOUS
<1>8. hg' = f /\ history' = Append(H, m) /\ removed_single' = RS \o x /\ removed_parallel' = RP \o y
  BY <1>1, <1>4, <1>5, <1>6, <1>7
<1>9. levels' = Append(LV, Structure(f))
  BY <1>1, <1>4, <1>8
<1>10. PICK n \in Nat, k \in Nat : n = Len(H) /\ k = Len(LV) /\ k >= n + 1
  BY <1>1, ListLength DEF IInv
<1>11. IsAppended(history', H, m, n)
  BY <1>1, <1>8, <1>10, ListAppended DEF IInv
<1>12. IsAppended(levels', LV, Structure(f), k)
  BY <1>1, <1>9, <1>10, ListAppended DEF IInv
<1>13. Len(history') = n + 1 /\ Len(levels') = k + 1 /\ IsList(history') /\ IsList(levels')
  BY <1>11, <1>12 DEF IsAppended
<1>14. ASSUME ~Broken'
       PROVE  LevelsInv(f, Append(H, m), RS \o x, RP \o y, Append(LV, Structure(f)))
  <2>1. ~Broken
    BY <1>1, <1>10, <1>13, <1>14 DEF Broken
  <2>2. LevelsInv(h, H, RS, RP, LV)
    BY <1>1, <2>1 DEF IInv
  <2>3. WellFormed(h)
    BY <2>2 DEF LevelsInv
  <2>4. MayContract(h, u, v)
    BY <1>1
  <2>5. /\ m.u = u /\ m.v = v
        /\ m.one_pin_hes_begin = Len(RS) /\ m.one_pin_hes_size = Len(x)
        /\ m.parallel_hes_begin = Len(RP) /\ m.parallel_hes_size = Cardinality(P)
    BY <1>7
  <2>6. Listed(h, f, u, v, x, y, m, RS, RP)
    BY <1>2, <1>3, <1>5, <1>6, <2>3, <2>4, <2>5, ContractionIsListed
  <2> QED
    BY <2>2, <2>4, <2>6, ContractionPushes
<1>15. (~Broken => LevelsInv(hg, history, removed_single, removed_parallel, levels))'
  BY <1>8, <1>9, <1>14
<1> QED
  BY <1>10, <1>13, <1>15 DEF IInv

(* Uncontract keeps the invariant.                                          *)
LEMMA UncontractionStep ==
  ASSUME IInv, Uncontract
  PROVE  IInv'
<1>1. PICK h, H, RS, RP, LV : /\ h = hg /\ H = history /\ RS = removed_single
                              /\ RP = removed_parallel /\ LV = levels
  OBVIOUS
<1>2. PICK m : m = Last(H)
  OBVIOUS
<1>3. PICK P, S :
        /\ P = ToSet(SubSeq(RP, m.parallel_hes_begin + 1, m.parallel_hes_begin + m.parallel_hes_size))
        /\ S = ToSet(SubSeq(RS, m.one_pin_hes_begin + 1, m.one_pin_hes_begin + m.one_pin_hes_size))
  OBVIOUS
<1>4. PICK cut : cut = {p.removed : p \in {q \in P : h.connectivity[q.representative] > 1}}
  OBVIOUS
<1>5. PICK c : c = restoreEdges(h, RemovedNets(P), cut)
  OBVIOUS
<1>6. PICK a : a = AddToWeights(c, P, -1)
  OBVIOUS
<1>7. PICK s : s = restoreEdges(a, S, {})
  OBVIOUS
<1>8. PICK g : g = uncontract(s, m.u, m.v)
  OBVIOUS
<1>9. H # <<>> /\ history' = Front(H) /\ levels' = Front(LV) /\ UNCHANGED <<context, vcycle>>
  BY <1>1 DEF Uncontract, call
<1>10. a = restoreParallelHyperedges(hg, m)
  BY <1>1, <1>3, <1>4, <1>5, <1>6 DEF restoreParallelHyperedges, RemovedNets
<1>11. s = restoreSingleNodeHyperedges(a, m)
  BY <1>1, <1>3, <1>7 DEF restoreSingleNodeHyperedges
<1>12. /\ hg' = uncontract(s, m.u, m.v)
       /\ removed_parallel' = SubSeq(RP, 1, Len(RP) - m.parallel_hes_size)
       /\ removed_single' = SubSeq(RS, 1, Len(RS) - m.one_pin_hes_size)
  BY <1>1, <1>2, <1>10, <1>11 DEF Uncontract
<1>13. PICK n \in Nat, k \in Nat : n + 1 = Len(H) /\ k + 1 = Len(LV) /\ k >= n + 1
  <2>1. Len(H) \in Nat /\ Len(H) > 0 /\ Len(LV) \in Nat /\ Len(LV) >= Len(H) + 1
    BY <1>1, <1>9, ListLength DEF IInv
  <2>2. /\ Len(H) - 1 \in Nat /\ (Len(H) - 1) + 1 = Len(H)
        /\ Len(LV) - 1 \in Nat /\ (Len(LV) - 1) + 1 = Len(LV) /\ Len(LV) - 1 >= (Len(H) - 1) + 1
    BY <2>1
  <2> QED
    BY <2>2
<1>14. IsList(history') /\ Len(history') = n
  BY <1>1, <1>9, <1>13, ListFront DEF IInv
<1>15. IsList(levels') /\ Len(levels') = k
  BY <1>1, <1>9, <1>13, ListFront DEF IInv
<1>16. ASSUME ~Broken'
       PROVE  LevelsInv(g, Front(H), SubSeq(RS, 1, Len(RS) - m.one_pin_hes_size),
                        SubSeq(RP, 1, Len(RP) - m.parallel_hes_size), Front(LV))
  <2>1. ~Broken
    BY <1>1, <1>13, <1>14, <1>15, <1>16 DEF Broken
  <2>2. LevelsInv(h, H, RS, RP, LV)
    BY <1>1, <2>1 DEF IInv
  <2>3. PICK H1, RS1, RP1, LV1 :
          /\ H1 = Front(H) /\ RS1 = SubSeq(RS, 1, Len(RS) - m.one_pin_hes_size)
          /\ RP1 = SubSeq(RP, 1, Len(RP) - m.parallel_hes_size) /\ LV1 = Front(LV)
    OBVIOUS
  <2>4. H # <<>>
    BY <1>9
  <2>5. LevelsInv(g, H1, RS1, RP1, LV1)
    BY <1>2, <1>3, <1>5, <1>6, <1>7, <1>8, <2>2, <2>3, <2>4, UncontractionPops
  <2> QED
    BY <2>3, <2>5
<1>17. (~Broken => LevelsInv(hg, history, removed_single, removed_parallel, levels))'
  BY <1>8, <1>9, <1>12, <1>16
<1> QED
  BY <1>9, <1>13, <1>14, <1>15, <1>17 DEF IInv

(* The time limit leaves more levels than mementos for good.                *)
LEMMA TimeLimitStep ==
  ASSUME IInv, SoftTimeLimitExceeded
  PROVE  IInv'
<1>1. /\ history' = <<>> /\ levels' = levels /\ history # <<>> /\ UNCHANGED <<context, vcycle>>
  BY DEF SoftTimeLimitExceeded, call
<1>2. Len(history) \in Nat /\ Len(history) > 0 /\ Len(levels) \in Nat /\ Len(levels) >= Len(history) + 1
  BY <1>1, ListLength DEF IInv
<1>3. IsList(<<>>) /\ Len(<<>>) = 0
  <2>1. <<>> \in Seq({}) /\ Len(<<>>) = 0
    OBVIOUS
  <2> QED
    BY <2>1 DEF IsList
<1>4. Broken'
  BY <1>1, <1>2, <1>3 DEF Broken
<1> QED
  BY <1>1, <1>2, <1>3, <1>4 DEF IInv

(* The initial partition keeps the invariant, in every kind of call.        *)
LEMMA InitialPartitionStep ==
  ASSUME IInv, InitialPartition
  PROVE  IInv'
<1>1. /\ UNCHANGED <<history, pruner, levels>> /\ context' = context /\ vcycle' = vcycle
  BY DEF InitialPartition
<1>2. vcycle \in Nat /\ action \in {"none", "normal", "new_initial_partitioning", "vcycle", "combine"}
  BY ContextsAssumption DEF IInv, action
<1>3. PICK f \in PartitionsAfterCoarsening : hg' = initializeNumCutHyperedges(f)
  BY DEF InitialPartition
<1>4. PICK h, g : h = hg /\ g = hg'
  OBVIOUS
<1>5. ASSUME IsHypergraph(h)
      PROVE  PartitionOnly(h, f)
  <2>1. f = h \/ (\E part : f = AssignParts(h, part)) \/ (\E part : f = AssignParts(reset(h), part))
    <3>1. CASE vcycle > 0 \/ action = "vcycle"
      BY <1>2, <1>3, <1>4, <3>1 DEF PartitionsAfterCoarsening
    <3>2. CASE vcycle = 0 /\ action = "none"
      BY <1>3, <1>4, <3>2 DEF PartitionsAfterCoarsening, InitiallyPartitioned
    <3>3. CASE vcycle = 0 /\ action \in {"normal", "new_initial_partitioning"}
      BY <1>3, <1>4, <3>3 DEF PartitionsAfterCoarsening, InitiallyPartitioned
    <3>4. CASE vcycle = 0 /\ action = "combine"
      BY <1>3, <1>4, <3>4 DEF PartitionsAfterCoarsening, BetterParent, setPartition
    <3> QED
      BY <1>2, <3>1, <3>2, <3>3, <3>4
  <2> QED
    BY <1>5, <2>1, AssignedAnew, PartitionOnlyIsTransitive
<1>6. IsHypergraph(h) => PartitionOnly(h, g)
  <2> SUFFICES ASSUME IsHypergraph(h) PROVE PartitionOnly(h, g)
    OBVIOUS
  <2>1. PartitionOnly(h, f)
    BY <1>5
  <2>2. IsHypergraph(f)
    BY <2>1 DEF PartitionOnly
  <2>3. PartitionOnly(f, g)
    BY <1>3, <1>4, <2>2, PartitionOperations
  <2> QED
    BY <2>1, <2>3, PartitionOnlyIsTransitive
<1>7. vcycle' \in Nat
  BY <1>1, <1>2
<1> QED
  BY <1>1, <1>4, <1>6, <1>7, PartitionStep

(* The moves of the refiner are a chain of single ones.                     *)
MoveOne(h, part, u, f) == changeNodePart(f, u, h.part[u], part[u])
MovedNodes(h, part) == {u \in h.on : part[u] # h.part[u]}
MovesOver(h, part, S, g) ==
  g = [s \in SUBSET S |-> IF s = {} THEN h ELSE MoveOne(h, part, Some(s), g[s \ {Some(s)}])]

LEMMA MovesAre ==
  ASSUME NEW h, NEW part
  PROVE  MoveNodes(h, part)
           = (CHOOSE g : MovesOver(h, part, MovedNodes(h, part), g))[MovedNodes(h, part)]
BY Zenon DEF MoveNodes, FoldSet, MapThenFoldSet, MovesOver, MoveOne, MovedNodes, Some

(* Two such chains agree where both are defined.                            *)
LEMMA MovesAgree ==
  ASSUME NEW h, NEW part, NEW A, IsFiniteSet(A), NEW B, NEW f, NEW g,
         MovesOver(h, part, A, f), MovesOver(h, part, B, g), NEW w \in SUBSET A, w \subseteq B
  PROVE  f[w] = g[w]
<1> SUFFICES ASSUME f[w] # g[w] PROVE FALSE
  OBVIOUS
<1>1. PICK T : T = {v \in SUBSET A : v \subseteq B /\ f[v] # g[v]}
  OBVIOUS
<1>2. T \in SUBSET SUBSET A /\ T # {}
  BY <1>1
<1>3. PICK X \in T : \A Y \in T : Y \subseteq X => Y = X
  BY <1>2, MinimalSet
<1>4. X \in SUBSET A /\ X \in SUBSET B /\ f[X] # g[X]
  BY <1>1
<1>5. /\ f[X] = IF X = {} THEN h ELSE MoveOne(h, part, Some(X), f[X \ {Some(X)}])
      /\ g[X] = IF X = {} THEN h ELSE MoveOne(h, part, Some(X), g[X \ {Some(X)}])
  BY <1>4 DEF MovesOver
<1>6. X # {}
  BY <1>4, <1>5
<1>7. Some(X) \in X
  BY <1>6 DEF Some
<1>8. PICK Y : Y = X \ {Some(X)}
  OBVIOUS
<1>9. Y \subseteq X /\ Y # X /\ Y \in SUBSET A /\ Y \subseteq B
  BY <1>4, <1>7, <1>8
<1>10. f[Y] = g[Y]
  BY <1>1, <1>3, <1>9
<1> QED
  BY <1>4, <1>5, <1>6, <1>8, <1>10

(* There is one over every finite set.                                      *)
LEMMA MovesExist ==
  ASSUME NEW h, NEW part, NEW S, IsFiniteSet(S)
  PROVE  \E g : MovesOver(h, part, S, g)
<1> SUFFICES ASSUME ~ \E g : MovesOver(h, part, S, g) PROVE FALSE
  OBVIOUS
<1>1. PICK T : T = {X \in SUBSET S : ~ \E g : MovesOver(h, part, X, g)}
  OBVIOUS
<1>2. T \in SUBSET SUBSET S /\ T # {}
  BY <1>1
<1>3. PICK X \in T : \A Y \in T : Y \subseteq X => Y = X
  BY <1>2, MinimalSet
<1>4. X \in SUBSET S /\ IsFiniteSet(X) /\ ~ \E g : MovesOver(h, part, X, g)
  BY <1>1, FS_Subset
<1> DEFINE chain(s) == (CHOOSE g : MovesOver(h, part, s, g))
<1>5. ASSUME NEW Y, Y \subseteq X, Y # X
      PROVE  MovesOver(h, part, Y, chain(Y)) /\ IsFiniteSet(Y)
  <2>1. Y \in SUBSET S /\ Y \notin T
    BY <1>3, <1>4, <1>5
  <2>2. \E g : MovesOver(h, part, Y, g)
    BY <1>1, <2>1
  <2> QED
    BY <1>4, <1>5, <2>2, FS_Subset
<1> HIDE DEF chain
<1>6. PICK g : g = [s \in SUBSET X |-> IF s = {} THEN h
                                        ELSE MoveOne(h, part, Some(s), chain(s \ {Some(s)})[s \ {Some(s)}])]
  OBVIOUS
<1>7. ASSUME NEW u, u \subseteq X, u # X PROVE g[u] = chain(u)[u]
  <2>0. MovesOver(h, part, u, chain(u)) /\ IsFiniteSet(u)
    BY <1>5, <1>7
  <2>1. chain(u)[u] = IF u = {} THEN h ELSE MoveOne(h, part, Some(u), chain(u)[u \ {Some(u)}])
    BY <2>0 DEF MovesOver
  <2>2. g[u] = IF u = {} THEN h ELSE MoveOne(h, part, Some(u), chain(u \ {Some(u)})[u \ {Some(u)}])
    BY <1>6, <1>7
  <2>3. ASSUME u # {} PROVE chain(u)[u \ {Some(u)}] = chain(u \ {Some(u)})[u \ {Some(u)}]
    <3>1. PICK v : v = u \ {Some(u)}
      OBVIOUS
    <3>2. v \subseteq u /\ v \subseteq X /\ v # X
      BY <3>1, <1>7
    <3>3. MovesOver(h, part, v, chain(v))
      BY <1>5, <3>2
    <3>4. chain(u)[v] = chain(v)[v]
      BY <2>0, <3>2, <3>3, MovesAgree
    <3> QED
      BY <3>1, <3>4
  <2> QED
    BY <2>1, <2>2, <2>3
<1>8. ASSUME NEW s \in SUBSET X, s # {} PROVE chain(s \ {Some(s)})[s \ {Some(s)}] = g[s \ {Some(s)}]
  <2>1. Some(s) \in s
    BY <1>8 DEF Some
  <2>2. s \ {Some(s)} \subseteq X /\ s \ {Some(s)} # X
    BY <2>1
  <2> QED
    BY <1>7, <2>2
<1>9. g = [s \in SUBSET X |-> IF s = {} THEN h ELSE MoveOne(h, part, Some(s), g[s \ {Some(s)}])]
  BY <1>6, <1>8
<1> QED
  BY <1>4, <1>9 DEF MovesOver

(* c leads from h to g by moves of the nodes of S, each of one of them.     *)
Chain(h, g, part, S, c) ==
  /\ c[{}] = h /\ c[S] = g
  /\ \A s \in SUBSET S : s # {} => \E u \in s : c[s] = MoveOne(h, part, u, c[s \ {u}])

LEMMA MovesAreChain ==
  ASSUME NEW h, NEW part, NEW g, g = MoveNodes(h, part), NEW S, S = MovedNodes(h, part), IsFiniteSet(S)
  PROVE  \E c : Chain(h, g, part, S, c)
<1>1. PICK c : c = (CHOOSE x : MovesOver(h, part, S, x))
  OBVIOUS
<1>2. MovesOver(h, part, S, c)
  BY <1>1, MovesExist
<1>3. c[S] = g
  BY <1>1, MovesAre
<1>4. \A s \in SUBSET S : c[s] = IF s = {} THEN h ELSE MoveOne(h, part, Some(s), c[s \ {Some(s)}])
  BY <1>2 DEF MovesOver
<1>5. c[{}] = h
  BY <1>4
<1>6. ASSUME NEW s \in SUBSET S, s # {}
      PROVE  \E u \in s : c[s] = MoveOne(h, part, u, c[s \ {u}])
  <2>1. PICK u : u = Some(s)
    OBVIOUS
  <2>2. u \in s
    BY <1>6, <2>1 DEF Some
  <2>3. c[s] = MoveOne(h, part, u, c[s \ {u}])
    BY <1>4, <1>6, <2>1
  <2> QED
    BY <2>2, <2>3
<1> QED
  BY <1>3, <1>5, <1>6 DEF Chain

(* None of them touches the structure.                                      *)
LEMMA ChainKeepsStructure ==
  ASSUME NEW h, IsHypergraph(h), NEW g, NEW part, NEW S, IsFiniteSet(S), NEW c, Chain(h, g, part, S, c)
  PROVE  PartitionOnly(h, g)
<1> SUFFICES ASSUME ~PartitionOnly(h, g) PROVE FALSE
  OBVIOUS
<1>1. PICK T : T = {s \in SUBSET S : ~PartitionOnly(h, c[s])}
  OBVIOUS
<1>2. T \in SUBSET SUBSET S /\ T # {}
  BY <1>1 DEF Chain
<1>3. PICK X \in T : \A Y \in T : Y \subseteq X => Y = X
  BY <1>2, MinimalSet
<1>4. X \in SUBSET S /\ ~PartitionOnly(h, c[X])
  BY <1>1
<1>5. PartitionOnly(h, h)
  BY DEF PartitionOnly, SameStructure
<1>6. X # {}
  BY <1>4, <1>5 DEF Chain
<1>7. PICK u \in X : c[X] = MoveOne(h, part, u, c[X \ {u}])
  BY <1>4, <1>6 DEF Chain
<1>8. PICK Y, f, k : Y = X \ {u} /\ f = c[Y] /\ k = c[X]
  OBVIOUS
<1>9. PartitionOnly(h, f)
  BY <1>1, <1>3, <1>4, <1>8
<1>10. k = changeNodePart(f, u, h.part[u], part[u])
  BY <1>7, <1>8 DEF MoveOne
<1>11. IsHypergraph(k) /\ SameStructure(f, k)
  BY <1>9, <1>10, ChangeNodePartIs DEF PartitionOnly
<1>12. PartitionOnly(h, k)
  BY <1>9, <1>11 DEF PartitionOnly, SameStructure
<1> QED
  BY <1>4, <1>8, <1>12

LEMMA MoveNodesIs ==
  ASSUME NEW h, IsHypergraph(h), h.on \subseteq Nodes, NEW part, NEW g, g = MoveNodes(h, part)
  PROVE  PartitionOnly(h, g)
<1>1. PICK S : S = MovedNodes(h, part)
  OBVIOUS
<1>2. IsFiniteSet(S)
  BY <1>1, FS_Subset, KHypergraphAssumption DEF MovedNodes
<1>3. PICK c : Chain(h, g, part, S, c)
  BY <1>1, <1>2, MovesAreChain
<1> QED
  BY <1>2, <1>3, ChainKeepsStructure

(* The moves of the refiner keep the invariant.                             *)
LEMMA RefineStep ==
  ASSUME IInv, Refine
  PROVE  IInv'
<1>1. UNCHANGED <<history, pruner, levels>> /\ context' = context /\ vcycle' = vcycle
  BY DEF Refine, call
<1>2. PICK h, g : h = hg /\ g = hg'
  OBVIOUS
<1>3. g = h \/ \E part : g = MoveNodes(h, part)
  BY <1>2 DEF Refine
<1>4. IsHypergraph(h) /\ h.on \subseteq Nodes => PartitionOnly(h, g)
  BY <1>3, MoveNodesIs DEF PartitionOnly, SameStructure
<1>5. vcycle' \in Nat
  BY <1>1 DEF IInv
<1> QED
  BY <1>1, <1>2, <1>4, <1>5, PartitionStep

(* The start of a V-cycle keeps the invariant.                              *)
LEMMA VCycleStep ==
  ASSUME IInv, partitionVCycle
  PROVE  IInv'
<1>1. /\ UNCHANGED <<history, pruner, levels>> /\ context' = context /\ vcycle' = vcycle + 1
      /\ hg' = resetEdgeHashes(hg)
  BY DEF partitionVCycle, call
<1>2. PICK h, g : h = hg /\ g = hg'
  OBVIOUS
<1>3. IsHypergraph(h) => PartitionOnly(h, g)
  BY <1>1, <1>2, PartitionOperations
<1>4. vcycle' \in Nat
  BY <1>1 DEF IInv
<1> QED
  BY <1>1, <1>2, <1>3, <1>4, PartitionStep

(* Steps that touch neither hypergraph nor history.                         *)
LEMMA UnchangedStep ==
  ASSUME IInv, UNCHANGED <<hg, history, pruner, levels, context, vcycle>>
  PROVE  IInv'
<1>1. (~Broken => LevelsInv(hg, history, removed_single, removed_parallel, levels))'
  BY DEF IInv, Broken, pruner
<1> QED
  BY <1>1 DEF IInv

(* The invariant is inductive.                                              *)
LEMMA StepKeepsInvariant ==
  ASSUME IInv, [Next]_vars
  PROVE  IInv'
<1>1. CASE StartPass \/ EndPass \/ EndCoarsening \/ EndUncoarsening \/ UNCHANGED vars
  <2>1. UNCHANGED <<hg, history, pruner, levels, context, vcycle>>
    BY <1>1 DEF StartPass, EndPass, EndCoarsening, EndUncoarsening, vars, call, pruner
  <2> QED
    BY <2>1, UnchangedStep
<1>2. CASE InitialPartition
  BY <1>2, InitialPartitionStep
<1>3. CASE Uncontract
  BY <1>3, UncontractionStep
<1>4. CASE Refine
  BY <1>4, RefineStep
<1>5. CASE SoftTimeLimitExceeded
  BY <1>5, TimeLimitStep
<1>6. CASE partitionVCycle
  BY <1>6, VCycleStep
<1>7. ASSUME NEW hn \in Nodes, Visit(hn)
      PROVE  IInv'
  <2>1. UNCHANGED <<context, vcycle>> /\ hn \in hg.on
    BY <1>7 DEF Visit, call
  <2>2. CASE Targets(hn) = {}
    <3>1. UNCHANGED <<hg, history, pruner, levels, context, vcycle>>
      BY <1>7, <2>1, <2>2 DEF Visit
    <3> QED
      BY <3>1, UnchangedStep
  <2>3. CASE Targets(hn) # {}
    <3>1. PICK target \in Targets(hn) : performContraction(hn, target)
      BY <1>7, <2>3 DEF Visit
    <3>2. MayContract(hg, hn, target)
      BY <2>1, TargetsMayBeContracted
    <3> QED
      BY <2>1, <3>1, <3>2, ContractionStep
  <2> QED
    BY <2>2, <2>3
<1> QED
  BY <1>1, <1>2, <1>3, <1>4, <1>5, <1>6, <1>7 DEF Next

(* It implies the property.                                                 *)
LEMMA InvariantIsEnough ==
  ASSUME IInv
  PROVE  LevelsAreRestored
<1> SUFFICES ASSUME ~Broken
             PROVE  /\ Structure(hg) = Last(levels)
                    /\ IncidenceIsSymmetric(hg) /\ PinsAreEnabled(hg) /\ NumPinsIsRight(hg)
  BY DEF LevelsAreRestored
<1>1. PICK h : h = hg
  OBVIOUS
<1>2. LevelsInv(h, history, removed_single, removed_parallel, levels)
  BY <1>1 DEF IInv
<1>3. WellFormed(h) /\ Structure(h) = levels[Len(levels)]
  BY <1>2 DEF LevelsInv
<1>4. IncidenceIsSymmetric(h)
  BY <1>3 DEF IncidenceIsSymmetric, WellFormed, Incident
<1>5. PinsAreEnabled(h)
  BY <1>3 DEF PinsAreEnabled, WellFormed, NetsHold, Holds
<1>6. NumPinsIsRight(h)
  <2>1. h.num_pins = SumOver(h.size, h.live)
    BY <1>3 DEF WellFormed, PinsCounted
  <2>2. SumOver(h.size, h.live) = MapThenSumSet(LAMBDA e : h.size[e], h.live)
    BY Zenon DEF SumOver
  <2> QED
    BY <2>1, <2>2, Zenon DEF NumPinsIsRight
<1> QED
  BY <1>1, <1>3, <1>4, <1>5, <1>6 DEF Last

(* Each uncontraction gives back exactly the hypergraph that its            *)
(* contraction met, for every hypergraph, every choice of the rater, the    *)
(* pruner and the refiner, and every number of V-cycles                     *)
(* (VertexPairCoarsenerBase::performContraction and doUncoarsen).           *)
THEOREM LevelsRestored == Spec => []LevelsAreRestored
<1>1. Init => IInv
  BY InitIsInvariant
<1>2. IInv /\ [Next]_vars => IInv'
  BY StepKeepsInvariant
<1>3. IInv => LevelsAreRestored
  BY InvariantIsEnough
<1> QED
  BY <1>1, <1>2, <1>3, PTL DEF Spec

-----------------------------------------------------------------------------
(* The stack of maxima: x is no less than the weight of any node of level L. *)
Covers(x, L) == x >= 0 /\ \A u \in L.on : L.weight[u] <= x

(* The maxima grow, and come at ever fewer nodes; only what stays between   *)
(* V-cycles may come twice at the same number.                              *)
Ordered(W, most) ==
  \A i, k \in 1 .. Len(W) : i < k =>
    /\ W[i].max_weight < W[k].max_weight
    /\ W[i].num_nodes > W[k].num_nodes
         \/ (W[i].num_nodes >= W[k].num_nodes /\ W[k].num_nodes >= most - 1)

(* No maximum is of a coarser level, but for the last while going back.     *)
NotBelow(W, n, most, coarse) ==
  \A k \in 1 .. Len(W) :
    IF coarse THEN W[k].num_nodes >= n \/ W[k].num_nodes >= most - 1
    ELSE W[k].num_nodes >= n - 1

IsStack(W) ==
  /\ IsList(W) /\ Len(W) >= 1
  /\ \A k \in 1 .. Len(W) : W[k].num_nodes \in Nat /\ W[k].max_weight \in Int

(* Some maximum covers L and was reached at no fewer nodes.                 *)
Covered(W, L) ==
  \E k \in 1 .. Len(W) : W[k].num_nodes >= Cardinality(L.on) /\ Covers(W[k].max_weight, L)

SlackOK(W, LV, coarse) ==
  /\ IsStack(W)
  /\ Ordered(W, Cardinality(LV[1].on))
  /\ NotBelow(W, Cardinality(LV[Len(LV)].on), Cardinality(LV[1].on), coarse)
  /\ \A j \in 1 .. Len(LV) : Covered(W, LV[j])

IsCoarsening(p) == p \in {"pass", "visit", "coarsened", "vcycle"}

SlackInv ==
  ~Broken => /\ IsCoarsening(phase) => SlackOK(max_hn_weights, levels, TRUE)
             /\ ~IsCoarsening(phase) => SlackOK(max_hn_weights, levels, FALSE)

(* Every level has one node less than the one before.                       *)
LevelsCounted(LV) ==
  /\ IsList(LV) /\ Len(LV) >= 1
  /\ \A i \in 1 .. Len(LV) :
       Cardinality(LV[i].on) \in Nat /\ \A u \in LV[i].on : LV[i].weight[u] \in Int
  /\ \A i, j \in 1 .. Len(LV) : i <= j => Cardinality(LV[j].on) <= Cardinality(LV[i].on)
  /\ \A i \in 1 .. Len(LV) - 1 : Cardinality(LV[i].on) = Cardinality(LV[i + 1].on) + 1

(* Each contraction takes one node away.                                    *)
LEMMA LevelsAreCounted ==
  ASSUME NEW h, NEW H, NEW RS, NEW RP, NEW LV, LevelsInv(h, H, RS, RP, LV)
  PROVE  LevelsCounted(LV)
<1>1. IsList(LV) /\ IsList(H) /\ Len(LV) = Len(H) + 1
  BY DEF LevelsInv
<1>2. PICK n \in Nat : n = Len(H) /\ Len(LV) = n + 1
  BY <1>1, ListLength
<1>3. \A i \in 1 .. n + 1 : LevelOK(LV[i], h.fixed_part)
  BY <1>2 DEF LevelsInv, IsOn
<1>4. \A i \in 1 .. n + 1 :
        LV[i].on \subseteq Nodes /\ \A u \in LV[i].on : LV[i].weight[u] \in Int
  <2> SUFFICES ASSUME NEW i \in 1 .. n + 1
               PROVE  LV[i].on \subseteq Nodes /\ \A u \in LV[i].on : LV[i].weight[u] \in Int
    OBVIOUS
  <2>1. PICK L : L = LV[i]
    OBVIOUS
  <2>2. LevelOK(L, h.fixed_part)
    BY <1>3, <2>1
  <2> QED
    BY <2>1, <2>2 DEF LevelOK
<1>5. \A i \in 1 .. n + 1 : IsFiniteSet(LV[i].on) /\ Cardinality(LV[i].on) \in Nat
  BY <1>4, KHypergraphAssumption, FS_Subset, FS_CardinalityType
<1>6. \A i, j \in 1 .. n + 1 : i <= j => Cardinality(LV[j].on) <= Cardinality(LV[i].on)
  <2> SUFFICES ASSUME NEW i \in 1 .. n + 1, NEW j \in 1 .. n + 1, i <= j
               PROVE  Cardinality(LV[j].on) <= Cardinality(LV[i].on)
    OBVIOUS
  <2>1. LV[j].on \subseteq LV[i].on
    BY <1>2 DEF LevelsInv, Nested
  <2> QED
    BY <1>5, <2>1, FS_Subset
<1>7. \A i \in 1 .. n : Cardinality(LV[i].on) = Cardinality(LV[i + 1].on) + 1
  <2> SUFFICES ASSUME NEW i \in 1 .. n
               PROVE  Cardinality(LV[i].on) = Cardinality(LV[i + 1].on) + 1
    OBVIOUS
  <2>1. PICK m, A, B : m = H[i] /\ A = LV[i] /\ B = LV[i + 1]
    OBVIOUS
  <2>2. m.v \notin B.on /\ A.on = B.on \cup {m.v}
    BY <1>2, <2>1 DEF LevelsInv, Kept, Coarser
  <2>3. IsFiniteSet(B.on) /\ i + 1 \in 1 .. n + 1
    BY <1>5, <2>1
  <2>4. Cardinality(A.on) = Cardinality(B.on) + 1
    BY <2>2, <2>3, FS_AddElement
  <2> QED
    BY <2>1, <2>4
<1> QED
  BY <1>1, <1>2, <1>4, <1>5, <1>6, <1>7 DEF LevelsCounted

(* The maximum that covers a level still does when another one is pushed.   *)
LEMMA StillCovered ==
  ASSUME NEW W, NEW W1, NEW n \in Nat, Len(W) >= n, Len(W1) >= n, Extends(W1, W, n), NEW L,
         NEW k \in 1 .. n, W[k].num_nodes >= Cardinality(L.on), Covers(W[k].max_weight, L),
         Len(W1) \in Nat
  PROVE  Covered(W1, L)
<1>1. W1[k] = W[k] /\ k \in 1 .. Len(W1)
  BY DEF Extends
<1> QED
  BY <1>1 DEF Covered

(* Every node of B weighs w or what it weighs in A.                          *)
Heavier(B, A, w) ==
  \A x \in B.on : B.weight[x] = w \/ (x \in A.on /\ B.weight[x] = A.weight[x])

(* A contraction: the new node is covered by its own weight, or by the last *)
(* maximum if it is no heavier.                                             *)
LEMMA SlackPushed ==
  ASSUME NEW W, NEW LV, SlackOK(W, LV, TRUE), LevelsCounted(LV), NEW LV1, LevelsCounted(LV1),
         NEW B, NEW k \in Nat, k = Len(LV), IsAppended(LV1, LV, B, k),
         NEW c, c = Cardinality(B.on), NEW w \in Int, Heavier(B, LV[k], w),
         NEW W1, W1 = WeightsWith(W, c, w)
  PROVE  SlackOK(W1, LV1, TRUE)
<1>1. k >= 1 /\ Len(LV1) = k + 1 /\ LV1[k + 1] = B /\ \A i \in 1 .. k : LV1[i] = LV[i]
  BY DEF LevelsCounted, IsAppended, Extends
<1>2. PICK most : most = Cardinality(LV[1].on)
  OBVIOUS
<1>3. most \in Nat /\ c \in Nat /\ c + 1 = Cardinality(LV[k].on) /\ c + 1 <= most
      /\ \A j \in 1 .. k : Cardinality(LV[j].on) >= c + 1
  <2>1. Cardinality(LV1[k + 1].on) \in Nat /\ Cardinality(LV1[k].on) = Cardinality(LV1[k + 1].on) + 1
        /\ \A j \in 1 .. k : Cardinality(LV1[j].on) \in Nat /\ Cardinality(LV1[k].on) <= Cardinality(LV1[j].on)
    BY <1>1 DEF LevelsCounted
  <2> QED
    BY <1>1, <1>2, <2>1
<1>4. PICK l \in Nat : l = Len(W) /\ l >= 1
  BY ListLength DEF SlackOK, IsStack
<1>5. /\ IsList(W)
      /\ \A i \in 1 .. l : W[i].num_nodes \in Nat /\ W[i].max_weight \in Int
      /\ Ordered(W, most) /\ NotBelow(W, c + 1, most, TRUE)
      /\ \A j \in 1 .. k : Covered(W, LV[j])
  BY <1>2, <1>3, <1>4 DEF SlackOK, IsStack
<1>6. PICK q \in 1 .. l : W[q].num_nodes >= c + 1 /\ Covers(W[q].max_weight, LV[k])
  BY <1>1, <1>3, <1>4, <1>5 DEF Covered
<1>7. Last(W) = W[l] /\ W[l].max_weight >= W[q].max_weight
  <2>1. q = l \/ W[q].max_weight < W[l].max_weight
    BY <1>4, <1>5 DEF Ordered
  <2> QED
    BY <1>4, <1>5, <2>1 DEF Last
<1>8. \A i \in 1 .. l : W[i].num_nodes >= c
  BY <1>3, <1>4, <1>5 DEF NotBelow
<1>n. \A x \in B.on : B.weight[x] = w \/ (x \in LV[k].on /\ B.weight[x] = LV[k].weight[x])
  BY DEF Heavier
<1>9. CASE w > Last(W).max_weight
  <2>1. PICK e : e = [num_nodes |-> c, max_weight |-> w]
    OBVIOUS
  <2>2. W1 = Append(W, e)
    BY <1>9, <2>1 DEF WeightsWith
  <2>3. IsAppended(W1, W, e, l)
    BY <1>4, <1>5, <2>2, ListAppended
  <2>4. IsList(W1) /\ Len(W1) = l + 1 /\ W1[l + 1] = e /\ Extends(W1, W, l)
    BY <2>3 DEF IsAppended
  <2>5. e.num_nodes = c /\ e.max_weight = w
    BY <2>1
  <2>6. \A i \in 1 .. l : W1[i] = W[i]
    BY <2>4 DEF Extends
  <2>7. IsStack(W1)
    BY <1>3, <1>4, <1>5, <2>4, <2>5, <2>6 DEF IsStack
  <2>8. \A i \in 1 .. l : W[i].max_weight < w
    <3>1. \A i \in 1 .. l : i = l \/ W[i].max_weight < W[l].max_weight
      BY <1>4, <1>5 DEF Ordered
    <3> QED
      BY <1>4, <1>5, <1>7, <1>9, <3>1
  <2>9. Ordered(W1, most)
    <3> SUFFICES ASSUME NEW i \in 1 .. l + 1, NEW j \in 1 .. l + 1, i < j
                 PROVE  /\ W1[i].max_weight < W1[j].max_weight
                        /\ W1[i].num_nodes > W1[j].num_nodes
                             \/ (W1[i].num_nodes >= W1[j].num_nodes /\ W1[j].num_nodes >= most - 1)
      BY <2>4 DEF Ordered
    <3>1. CASE j \in 1 .. l
      BY <1>4, <1>5, <2>6, <3>1 DEF Ordered
    <3>2. CASE j = l + 1
      <4>1. i \in 1 .. l /\ W1[i] = W[i] /\ W1[j] = e
        BY <2>4, <2>6, <3>2
      <4>2. W[i].num_nodes >= c + 1 \/ W[i].num_nodes >= most - 1
        BY <1>4, <1>5, <4>1 DEF NotBelow
      <4>3. W[i].num_nodes \in Nat
        BY <1>5, <4>1
      <4> QED
        BY <1>3, <2>5, <2>8, <4>1, <4>2, <4>3
    <3> QED
      BY <3>1, <3>2
  <2>10. NotBelow(W1, c, most, TRUE)
    BY <1>3, <1>5, <1>8, <2>4, <2>5, <2>6 DEF NotBelow
  <2>11. \A j \in 1 .. k : Covered(W1, LV[j])
    <3> SUFFICES ASSUME NEW j \in 1 .. k
                 PROVE  Covered(W1, LV[j])
      OBVIOUS
    <3>1. PICK i \in 1 .. l : W[i].num_nodes >= Cardinality(LV[j].on) /\ Covers(W[i].max_weight, LV[j])
      BY <1>4, <1>5 DEF Covered
    <3> QED
      BY <1>4, <2>4, <3>1, StillCovered
  <2>12. Covered(W1, B)
    <3>1. w >= 0
      BY <1>5, <1>6, <1>7, <1>9 DEF Covers
    <3>2. \A x \in B.on : B.weight[x] <= w
      <4> SUFFICES ASSUME NEW x \in B.on, x \in LV[k].on, B.weight[x] = LV[k].weight[x]
                   PROVE  B.weight[x] <= w
        BY <1>n
      <4>1. LV[k].weight[x] <= W[q].max_weight /\ LV[k].weight[x] \in Int
        BY <1>1, <1>6 DEF Covers, LevelsCounted
      <4> QED
        BY <1>4, <1>5, <1>7, <1>9, <4>1
    <3>3. Covers(w, B)
      BY <3>1, <3>2 DEF Covers
    <3> QED
      BY <1>3, <2>4, <2>5, <3>3 DEF Covered
  <2> QED
    <3>1. Ordered(W1, Cardinality(LV1[1].on))
      BY <1>1, <1>2, <2>9
    <3>2. NotBelow(W1, Cardinality(LV1[Len(LV1)].on), Cardinality(LV1[1].on), TRUE)
      <4>1. Cardinality(LV1[Len(LV1)].on) = c /\ Cardinality(LV1[1].on) = most
        BY <1>1, <1>2
      <4> QED
        BY <2>10, <4>1
    <3>3. \A j \in 1 .. Len(LV1) : Covered(W1, LV1[j])
      BY <1>1, <2>11, <2>12
    <3> QED
      BY <2>7, <3>1, <3>2, <3>3 DEF SlackOK
<1>10. CASE ~(w > Last(W).max_weight)
  <2>1. W1 = W
    BY <1>10 DEF WeightsWith
  <2>2. w <= W[l].max_weight
    BY <1>4, <1>5, <1>7, <1>10
  <2>3. NotBelow(W, c, most, TRUE)
    BY <1>3, <1>4, <1>5, <1>8 DEF NotBelow
  <2>4. Covered(W, B)
    <3>1. W[l].max_weight >= 0
      BY <1>4, <1>5, <1>6, <1>7 DEF Covers
    <3>2. \A x \in B.on : B.weight[x] <= W[l].max_weight
      <4> SUFFICES ASSUME NEW x \in B.on, x \in LV[k].on, B.weight[x] = LV[k].weight[x]
                   PROVE  B.weight[x] <= W[l].max_weight
        BY <1>n, <2>2
      <4>1. LV[k].weight[x] <= W[q].max_weight /\ LV[k].weight[x] \in Int
        BY <1>1, <1>6 DEF Covers, LevelsCounted
      <4> QED
        BY <1>4, <1>5, <1>7, <4>1
    <3>3. Covers(W[l].max_weight, B)
      BY <3>1, <3>2 DEF Covers
    <3> QED
      BY <1>4, <1>8, <3>3 DEF Covered
  <2> QED
    <3>1. Ordered(W1, Cardinality(LV1[1].on))
      BY <1>1, <1>2, <1>5, <2>1
    <3>2. NotBelow(W1, Cardinality(LV1[Len(LV1)].on), Cardinality(LV1[1].on), TRUE)
      <4>1. Cardinality(LV1[Len(LV1)].on) = c /\ Cardinality(LV1[1].on) = most
        BY <1>1, <1>2
      <4> QED
        BY <2>1, <2>3, <4>1
    <3>3. \A j \in 1 .. Len(LV1) : Covered(W1, LV1[j])
      BY <1>1, <1>5, <2>1, <2>4
    <3>4. IsStack(W1)
      BY <2>1 DEF SlackOK
    <3> QED
      BY <3>1, <3>2, <3>3, <3>4 DEF SlackOK
<1> QED
  BY <1>9, <1>10

(* An uncontraction: a maximum is dropped only if it was reached at fewer   *)
(* nodes than the levels left have, and no other one was.                   *)
LEMMA SlackPopped ==
  ASSUME NEW W, NEW LV, SlackOK(W, LV, FALSE), LevelsCounted(LV), NEW k \in Nat, k >= 1, Len(LV) = k + 1,
         NEW LV1, LevelsCounted(LV1), Len(LV1) = k, Extends(LV1, LV, k),
         NEW n, n = Cardinality(LV[k + 1].on), NEW W1, W1 = WeightsBelow(W, n)
  PROVE  SlackOK(W1, LV1, FALSE)
<1>1. \A i \in 1 .. k : LV1[i] = LV[i]
  BY DEF Extends
<1>2. PICK most : most = Cardinality(LV[1].on)
  OBVIOUS
<1>3. /\ most \in Nat /\ n \in Nat /\ Cardinality(LV[k].on) = n + 1 /\ n + 1 <= most
      /\ \A j \in 1 .. k : Cardinality(LV[j].on) \in Nat /\ Cardinality(LV[j].on) >= n + 1
  <2>1. Cardinality(LV[k].on) = n + 1 /\ n \in Nat /\ most \in Nat
    <3>1. 1 \in 1 .. Len(LV) /\ k + 1 \in 1 .. Len(LV) /\ k \in 1 .. Len(LV) - 1
      OBVIOUS
    <3>2. /\ \A i \in 1 .. Len(LV) : Cardinality(LV[i].on) \in Nat
          /\ \A i \in 1 .. Len(LV) - 1 : Cardinality(LV[i].on) = Cardinality(LV[i + 1].on) + 1
      BY DEF LevelsCounted
    <3>3. Cardinality(LV[k].on) = Cardinality(LV[k + 1].on) + 1
      BY <3>1, <3>2
    <3>4. Cardinality(LV[1].on) \in Nat /\ Cardinality(LV[k + 1].on) \in Nat
      BY <3>1, <3>2
    <3> QED
      BY <1>2, <3>3, <3>4
  <2>2. \A j \in 1 .. k : Cardinality(LV[j].on) \in Nat /\ Cardinality(LV[k].on) <= Cardinality(LV[j].on)
    BY DEF LevelsCounted
  <2> QED
    BY <1>2, <2>1, <2>2
<1>4. PICK l \in Nat : l + 1 = Len(W)
  <2>1. Len(W) \in Nat /\ Len(W) >= 1
    BY ListLength DEF SlackOK, IsStack
  <2>2. Len(W) - 1 \in Nat /\ (Len(W) - 1) + 1 = Len(W)
    BY <2>1
  <2> QED
    BY <2>2
<1>5. /\ IsList(W)
      /\ \A i \in 1 .. l + 1 : W[i].num_nodes \in Nat /\ W[i].max_weight \in Int
      /\ Ordered(W, most)
      /\ \A j \in 1 .. k : Covered(W, LV[j])
  BY <1>2, <1>4 DEF SlackOK, IsStack
<1>6. \A i \in 1 .. l + 1 : W[i].num_nodes >= n - 1
  <2>1. PICK a : a = Cardinality(LV[1].on)
    OBVIOUS
  <2>2. PICK b : b = Cardinality(LV[Len(LV)].on)
    OBVIOUS
  <2>3. NotBelow(W, b, a, FALSE) /\ b = n
    BY <2>1, <2>2 DEF SlackOK
  <2> QED
    BY <1>4, <2>3 DEF NotBelow
<1>7. Last(W) = W[l + 1]
  BY <1>4 DEF Last
<1>8. \A i \in 1 .. l : W[i].num_nodes >= n
  <2> SUFFICES ASSUME NEW i \in 1 .. l
               PROVE  W[i].num_nodes >= n
    OBVIOUS
  <2>1. \/ W[i].num_nodes > W[l + 1].num_nodes
        \/ W[i].num_nodes >= W[l + 1].num_nodes /\ W[l + 1].num_nodes >= most - 1
    BY <1>4, <1>5 DEF Ordered
  <2>2. W[i].num_nodes \in Nat /\ W[l + 1].num_nodes \in Nat /\ W[l + 1].num_nodes >= n - 1
    BY <1>4, <1>5, <1>6
  <2> QED
    BY <1>3, <2>1, <2>2
<1>9. Cardinality(LV1[Len(LV1)].on) = n + 1 /\ Cardinality(LV1[1].on) = most
  BY <1>1, <1>2, <1>3
<1>10. CASE n > Last(W).num_nodes
  <2>1. W1 = Front(W)
    BY <1>10 DEF WeightsBelow
  <2>2. IsList(W1) /\ Len(W1) = l /\ Extends(W1, W, l)
    BY <1>4, <1>5, <2>1, ListFront
  <2>3. \A i \in 1 .. l : W1[i] = W[i]
    BY <2>2 DEF Extends
  <2>4. \A j \in 1 .. k : \E i \in 1 .. l :
          W[i].num_nodes >= Cardinality(LV[j].on) /\ Covers(W[i].max_weight, LV[j])
    <3> SUFFICES ASSUME NEW j \in 1 .. k
                 PROVE  \E i \in 1 .. l :
                          W[i].num_nodes >= Cardinality(LV[j].on) /\ Covers(W[i].max_weight, LV[j])
      OBVIOUS
    <3>1. PICK i \in 1 .. l + 1 : W[i].num_nodes >= Cardinality(LV[j].on) /\ Covers(W[i].max_weight, LV[j])
      BY <1>4, <1>5 DEF Covered
    <3>2. W[l + 1].num_nodes \in Nat /\ n > W[l + 1].num_nodes
      BY <1>4, <1>5, <1>7, <1>10
    <3>3. i # l + 1
      <4> SUFFICES ASSUME i = l + 1 PROVE FALSE
        OBVIOUS
      <4>1. W[l + 1].num_nodes >= Cardinality(LV[j].on)
        BY <3>1
      <4>2. Cardinality(LV[j].on) \in Nat /\ Cardinality(LV[j].on) >= n + 1
        BY <1>3
      <4> QED
        BY <1>3, <3>2, <4>1, <4>2
    <3> QED
      BY <3>1, <3>3
  <2>5. l >= 1
    BY <2>4
  <2>6. IsStack(W1)
    BY <1>5, <2>2, <2>3, <2>5 DEF IsStack
  <2>7. Ordered(W1, most)
    <3> SUFFICES ASSUME NEW i \in 1 .. l, NEW j \in 1 .. l, i < j
                 PROVE  /\ W1[i].max_weight < W1[j].max_weight
                        /\ W1[i].num_nodes > W1[j].num_nodes
                             \/ (W1[i].num_nodes >= W1[j].num_nodes /\ W1[j].num_nodes >= most - 1)
      BY <2>2 DEF Ordered
    <3>1. W1[i] = W[i] /\ W1[j] = W[j] /\ i \in 1 .. Len(W) /\ j \in 1 .. Len(W)
      BY <1>4, <2>3
    <3> QED
      BY <1>5, <3>1 DEF Ordered
  <2>8. NotBelow(W1, n + 1, most, FALSE)
    <3> SUFFICES ASSUME NEW i \in 1 .. l PROVE W1[i].num_nodes >= (n + 1) - 1
      BY <2>2 DEF NotBelow
    <3>1. W[i].num_nodes >= n /\ W1[i] = W[i] /\ (n + 1) - 1 = n
      BY <1>3, <1>8, <2>3
    <3> QED
      BY <3>1
  <2>9. \A j \in 1 .. k : Covered(W1, LV1[j])
    BY <1>1, <2>2, <2>3, <2>4 DEF Covered
  <2> QED
    <3>1. Ordered(W1, Cardinality(LV1[1].on))
      BY <1>9, <2>7
    <3>2. NotBelow(W1, Cardinality(LV1[Len(LV1)].on), Cardinality(LV1[1].on), FALSE)
      BY <1>9, <2>8
    <3> QED
      BY <2>6, <2>9, <3>1, <3>2 DEF SlackOK
<1>11. CASE ~(n > Last(W).num_nodes)
  <2>1. W1 = W
    BY <1>11 DEF WeightsBelow
  <2>2. \A i \in 1 .. l + 1 : W[i].num_nodes >= n
    <3>1. W[l + 1].num_nodes \in Nat
      BY <1>4, <1>5
    <3>2. W[l + 1].num_nodes >= n
      BY <1>3, <1>7, <1>11, <3>1
    <3> QED
      BY <1>4, <1>8, <3>2
  <2>3. NotBelow(W1, n + 1, most, FALSE)
    BY <1>3, <1>4, <2>1, <2>2 DEF NotBelow
  <2>4. IsStack(W1)
    BY <2>1 DEF SlackOK
  <2>5. \A j \in 1 .. k : Covered(W1, LV1[j])
    BY <1>1, <1>5, <2>1
  <2> QED
    <3>1. Ordered(W1, Cardinality(LV1[1].on))
      BY <1>5, <1>9, <2>1
    <3>2. NotBelow(W1, Cardinality(LV1[Len(LV1)].on), Cardinality(LV1[1].on), FALSE)
      BY <1>9, <2>3
    <3> QED
      BY <2>4, <2>5, <3>1, <3>2 DEF SlackOK
<1> QED
  BY <1>10, <1>11

(* The stack serves when coarsening ends; and when it begins again, with    *)
(* the finest level alone.                                                  *)
LEMMA SlackTurns ==
  ASSUME NEW W, NEW LV, LevelsCounted(LV)
  PROVE  /\ SlackOK(W, LV, TRUE) => SlackOK(W, LV, FALSE)
         /\ SlackOK(W, LV, FALSE) /\ Len(LV) = 1 => SlackOK(W, LV, TRUE)
<1>1. PICK k : k = Len(LV) /\ 1 <= k /\ k \in Nat
  <2>1. Len(LV) \in Nat
    BY ListLength DEF LevelsCounted
  <2> QED
    BY <2>1 DEF LevelsCounted
<1>2. PICK n, most : n = Cardinality(LV[k].on) /\ most = Cardinality(LV[1].on)
  OBVIOUS
<1>3. n \in Nat /\ most \in Nat /\ n <= most
  BY <1>1, <1>2 DEF LevelsCounted
<1>4. ASSUME SlackOK(W, LV, TRUE)
      PROVE  SlackOK(W, LV, FALSE)
  <2>1. NotBelow(W, n, most, TRUE) /\ \A i \in 1 .. Len(W) : W[i].num_nodes \in Nat
    BY <1>1, <1>2, <1>4 DEF SlackOK, IsStack
  <2>2. NotBelow(W, n, most, FALSE)
    BY <1>3, <2>1 DEF NotBelow
  <2> QED
    BY <1>1, <1>2, <1>4, <2>2 DEF SlackOK
<1>5. ASSUME SlackOK(W, LV, FALSE), Len(LV) = 1
      PROVE  SlackOK(W, LV, TRUE)
  <2>1. NotBelow(W, n, most, FALSE) /\ n = most
    BY <1>1, <1>2, <1>5 DEF SlackOK
  <2>2. NotBelow(W, n, most, TRUE)
    BY <2>1 DEF NotBelow
  <2> QED
    BY <1>1, <1>2, <1>5, <2>2 DEF SlackOK
<1> QED
  BY <1>4, <1>5

(* Some set of T has no other one in it.                                    *)
HasMinimal(T) == \E X \in T : \A Y \in T : Y \subseteq X => Y = X

(* Among subsets of a finite set there is such a one.                       *)
LEMMA SomeIsMinimal ==
  ASSUME NEW S, IsFiniteSet(S), NEW T, T \in SUBSET SUBSET S, NEW X \in T
  PROVE  HasMinimal(T)
<1>1. T # {}
  OBVIOUS
<1> QED
  BY <1>1, MinimalSet DEF HasMinimal

(* The numbers of T have a maximum.                                         *)
HasMaximum(T) == \E x \in T : \A y \in T : x >= y

(* A finite set of numbers has one, and Max is it.                          *)
LEMMA FiniteMaximum ==
  ASSUME NEW S, S \subseteq Int, IsFiniteSet(S), S # {}
  PROVE  Max(S) \in S /\ \A y \in S : Max(S) >= y
<1>1. HasMaximum(S)
  <2> SUFFICES ASSUME ~HasMaximum(S) PROVE FALSE
    OBVIOUS
  <2>1. PICK T : T = {X \in SUBSET S : X # {} /\ ~HasMaximum(X)}
    OBVIOUS
  <2>2. PICK X \in T : \A Y \in T : Y \subseteq X => Y = X
    <3>1. T \in SUBSET SUBSET S
      BY <2>1
    <3>2. S \in T
      BY <2>1
    <3>3. HasMinimal(T)
      BY <3>1, <3>2, SomeIsMinimal
    <3> QED
      BY <3>3 DEF HasMinimal
  <2>3. PICK x : x \in X
    BY <2>1
  <2>4. PICK Y : Y = X \ {x}
    OBVIOUS
  <2>5. Y = {} \/ HasMaximum(Y)
    BY <2>1, <2>2, <2>3, <2>4
  <2>6. X \subseteq Int /\ ~HasMaximum(X) /\ X = Y \cup {x}
    BY <2>1, <2>3, <2>4
  <2>7. CASE Y = {}
    <3>1. X = {x} /\ x \in Int
      BY <2>3, <2>6, <2>7
    <3> QED
      BY <2>6, <3>1 DEF HasMaximum
  <2>8. ASSUME NEW m \in Y, \A y \in Y : m >= y
        PROVE  FALSE
    <3>1. m \in Int /\ x \in Int /\ \A y \in Y : y \in Int
      BY <2>3, <2>6
    <3>2. CASE m >= x
      BY <2>6, <2>8, <3>2 DEF HasMaximum
    <3>3. CASE x >= m
      <4>1. \A y \in X : x >= y
        BY <2>6, <2>8, <3>1, <3>3
      <4> QED
        BY <2>3, <2>6, <4>1 DEF HasMaximum
    <3> QED
      BY <3>1, <3>2, <3>3
  <2> QED
    BY <2>5, <2>7, <2>8 DEF HasMaximum
<1> QED
  BY <1>1 DEF HasMaximum, Max

(* weightOfHeaviestNode bounds the weights, and is one of them or zero.     *)
LEMMA HeaviestIs ==
  ASSUME NEW h, WellFormed(h), NEW w, w = weightOfHeaviestNode(h)
  PROVE  /\ w \in Int /\ w >= 0 /\ \A u \in h.on : h.weight[u] \in Int /\ h.weight[u] <= w
         /\ w = 0 \/ \E u \in h.on : w = h.weight[u]
<1>1. h.on \subseteq Nodes /\ \A u \in h.on : h.weight[u] \in Int
  BY DEF WellFormed, Typed
<1>2. PICK S, f : S = {h.weight[u] : u \in h.on} \cup {0} /\ f = h.weight
  OBVIOUS
<1>3. IsFiniteSet(S)
  <2>1. IsFiniteSet(h.on)
    BY <1>1, KHypergraphAssumption, FS_Subset
  <2>2. IsFiniteSet({f[u] : u \in h.on})
    BY <2>1, ImageIsFinite
  <2> QED
    BY <1>2, <2>2, FS_AddElement
<1>4. S \subseteq Int /\ S # {} /\ 0 \in S
  BY <1>1, <1>2
<1>5. Max(S) \in S /\ \A y \in S : Max(S) >= y
  BY <1>3, <1>4, FiniteMaximum
<1>6. w = Max(S)
  BY <1>2 DEF weightOfHeaviestNode
<1> QED
  BY <1>1, <1>2, <1>4, <1>5, <1>6

-----------------------------------------------------------------------------
(* The actions.                                                             *)

(* The constructor pushes the heaviest node of the hypergraph it is given.  *)
LEMMA InitIsCovered ==
  ASSUME Init
  PROVE  SlackInv
<1>1. PICK c, h, g : c = context /\ h = c.hypergraph /\ g = hg
  OBVIOUS
<1>2. IsConstructed(h)
  BY <1>1, ContextsAssumption DEF Init
<1>3. h.on = Nodes
  BY <1>2 DEF IsConstructed, NewHypergraph
<1>4. IsHypergraph(h)
  BY <1>2, ConstructedIsWellFormed DEF WellFormed, Typed
<1>5. PartitionOnly(h, g)
  <2>1. CASE hg = context.hypergraph
    BY <1>1, <1>4, <2>1, PartitionOnlyIsTransitive
  <2>2. CASE \E part \in context.partitions : hg = setPartition(context.hypergraph, part)
    <3>1. PICK part : g = AssignParts(reset(h), part)
      BY <1>1, <2>2 DEF setPartition
    <3> QED
      BY <1>4, <3>1, AssignedAnew
  <2> QED
    BY <2>1, <2>2 DEF Init
<1>6. g.on = Nodes
  BY <1>3, <1>5 DEF PartitionOnly, SameStructure
<1>7. PICK L, n, w : L = Structure(g) /\ n = Cardinality(Nodes) /\ w = weightOfHeaviestNode(g)
  OBVIOUS
<1>8. WellFormed(g)
  <2>1. WellFormed(h)
    BY <1>2, ConstructedIsWellFormed
  <2> QED
    BY <1>5, <2>1, PartitionKeepsLevels DEF PartitionOnly
<1>9. n \in Nat
  BY <1>7, KHypergraphAssumption, FS_CardinalityType
<1>10. w \in Int /\ w >= 0 /\ \A u \in g.on : g.weight[u] <= w
  BY <1>7, <1>8, HeaviestIs
<1>11. L.on = Nodes /\ \A u \in L.on : L.weight[u] = g.weight[u]
  BY <1>6, <1>7 DEF Structure
<1>12. PICK e, W, LV : e = [num_nodes |-> n, max_weight |-> w] /\ W = <<e>> /\ LV = <<L>>
  OBVIOUS
<1>13. max_hn_weights = W /\ levels = LV
  BY <1>1, <1>7, <1>12 DEF Init
<1>14. W \in Seq({e}) /\ Len(W) = 1 /\ W[1] = e /\ Len(LV) = 1 /\ LV[1] = L
  BY <1>12
<1>15. e.num_nodes = n /\ e.max_weight = w
  BY <1>12
<1>16. IsStack(W)
  BY <1>9, <1>10, <1>14, <1>15 DEF IsStack, IsList
<1>17. Covers(w, L)
  BY <1>6, <1>10, <1>11 DEF Covers
<1>18. Covered(W, L)
  BY <1>7, <1>9, <1>11, <1>14, <1>15, <1>17 DEF Covered
<1>19. Ordered(W, n)
  BY <1>14 DEF Ordered
<1>20. \A b \in BOOLEAN : NotBelow(W, n, n, b)
  BY <1>9, <1>14, <1>15 DEF NotBelow
<1>21. \A b \in BOOLEAN : SlackOK(W, LV, b)
  BY <1>7, <1>11, <1>14, <1>16, <1>18, <1>19, <1>20 DEF SlackOK
<1> QED
  BY <1>13, <1>21 DEF SlackInv

(* A contraction pushes the weight of the new node if it is a new maximum.  *)
LEMMA ContractionIsCovered ==
  ASSUME IInv, IInv', SlackInv, NEW u, NEW v, MayContract(hg, u, v), performContraction(u, v),
         phase = "visit", phase' = "visit"
  PROVE  SlackInv'
<1> SUFFICES ASSUME ~Broken' PROVE SlackOK(max_hn_weights', levels', TRUE)
  BY DEF SlackInv, IsCoarsening
<1>1. PICK h, H, LV, f, H1, LV1 :
        /\ h = hg /\ H = history /\ LV = levels
        /\ f = hg' /\ H1 = history' /\ LV1 = levels'
  OBVIOUS
<1>2. PICK c : c = contract(h, u, v)
  OBVIOUS
<1>3. PICK m : H1 = Append(H, m) /\ m.u = u /\ m.v = v
  <2>1. PICK d, S : d = removeSingleNodeHyperedges(contract(hg, u, v), u)
                    /\ S = SingleNodeHyperedges(contract(hg, u, v), u)
    OBVIOUS
  <2>2. PICK R \in Representatives(d, u) :
          history' = Append(history,
             [u |-> u, v |-> v,
              one_pin_hes_begin |-> Len(removed_single), one_pin_hes_size |-> Len(SetToSeq(S)),
              parallel_hes_begin |-> Len(removed_parallel),
              parallel_hes_size |-> Cardinality(ParallelHyperedges(d, u, R))])
    BY <2>1 DEF performContraction
  <2>3. PICK s, q : s = Len(SetToSeq(S)) /\ q = Cardinality(ParallelHyperedges(d, u, R))
    OBVIOUS
  <2>4. PICK m : m = [u |-> u, v |-> v,
                      one_pin_hes_begin |-> Len(removed_single), one_pin_hes_size |-> s,
                      parallel_hes_begin |-> Len(removed_parallel), parallel_hes_size |-> q]
    OBVIOUS
  <2>5. H1 = Append(H, m)
    BY <1>1, <2>2, <2>3, <2>4
  <2>6. m.u = u /\ m.v = v
    BY <2>4
  <2> QED
    BY <2>5, <2>6
<1>4. LV1 = Append(LV, Structure(f))
  BY <1>1 DEF performContraction
<1>5. max_hn_weights' = WeightsWith(max_hn_weights, Cardinality(c.on), c.weight[u])
  BY <1>1, <1>2 DEF performContraction
<1>6. PICK n \in Nat, k \in Nat : n = Len(H) /\ k = Len(LV) /\ k >= n + 1
  BY <1>1, ListLength DEF IInv
<1>7. IsAppended(H1, H, m, n)
  BY <1>1, <1>3, <1>6, ListAppended DEF IInv
<1>8. PICK A, B : A = Structure(h) /\ B = Structure(f)
  OBVIOUS
<1>9. IsAppended(LV1, LV, B, k)
  BY <1>1, <1>4, <1>6, <1>8, ListAppended DEF IInv
<1>10. ~Broken
  BY <1>1, <1>6, <1>7, <1>9 DEF Broken, IsAppended
<1>11. LevelsInv(h, H, removed_single, removed_parallel, LV)
  BY <1>1, <1>10 DEF IInv
<1>12. LevelsInv(f, H1, removed_single', removed_parallel', LV1)
  BY <1>1 DEF IInv
<1>13. k = n + 1 /\ LV[k] = A
  BY <1>6, <1>8, <1>11 DEF LevelsInv
<1>14. /\ Len(H1) = n + 1 /\ H1[n + 1] = m /\ Len(LV1) = k + 1 /\ LV1[k + 1] = B
       /\ LV1[k] = A
  BY <1>7, <1>9, <1>13 DEF IsAppended, Extends
<1>15. /\ m.u \in B.on /\ m.v \notin B.on /\ A.on = B.on \cup {m.v}
       /\ B.weight[m.u] = A.weight[m.u] + A.weight[m.v] /\ \A w \in B.on \ {m.u} : B.weight[w] = A.weight[w]
  <2>1. \A i \in 1 .. Len(H1) :
          Kept(f, LV1[i], LV1[i + 1], H1[i], Single(removed_single', H1[i]), Parallel(removed_parallel', H1[i]))
    BY <1>12 DEF LevelsInv
  <2>2. n + 1 \in 1 .. Len(H1) /\ k = n + 1
    BY <1>13, <1>14
  <2>3. PICK S, P : S = Single(removed_single', m) /\ P = Parallel(removed_parallel', m)
    OBVIOUS
  <2>4. Kept(f, A, B, m, S, P)
    BY <1>14, <2>1, <2>2, <2>3
  <2> QED
    BY <2>4 DEF Kept, Coarser
<1>16. Contracted(h, c, u, v)
  BY <1>2, <1>11, ContractIs DEF LevelsInv, WellFormed, Typed
<1>17. c.on = B.on
  <2>1. A.on = h.on /\ c.on = h.on \ {v}
    BY <1>8, <1>16 DEF Contracted, Structure
  <2> QED
    BY <1>3, <1>15, <2>1
<1>18. c.weight[u] = B.weight[u] /\ c.weight[u] \in Int
  <2>1. h.weight \in [Nodes -> Int] /\ h.on \subseteq Nodes
    BY <1>11 DEF LevelsInv, WellFormed, Typed
  <2>2. u \in h.on /\ v \in h.on
    BY <1>1 DEF MayContract
  <2>3. A.weight[u] = h.weight[u] /\ A.weight[v] = h.weight[v]
    BY <1>8, <2>2 DEF Structure
  <2>4. c.weight[u] = h.weight[u] + h.weight[v]
    BY <1>16, <2>1, <2>2 DEF Contracted
  <2> QED
    BY <1>3, <1>15, <2>1, <2>2, <2>3, <2>4
<1>19. PICK w \in Int : w = c.weight[u]
  BY <1>18
<1>20. \A x \in B.on : B.weight[x] = w \/ (x \in LV[k].on /\ B.weight[x] = LV[k].weight[x])
  BY <1>3, <1>13, <1>15, <1>18, <1>19
<1>21. LevelsCounted(LV) /\ LevelsCounted(LV1)
  BY <1>11, <1>12, LevelsAreCounted
<1>22. PICK W, d : W = max_hn_weights /\ d = Cardinality(B.on)
  OBVIOUS
<1>23. SlackOK(W, LV, TRUE)
  BY <1>1, <1>10, <1>22 DEF SlackInv, IsCoarsening
<1>24. PICK W1 : W1 = WeightsWith(W, d, w)
  OBVIOUS
<1>25. SlackOK(W1, LV1, TRUE)
  <2>1. Heavier(B, LV[k], w)
    BY <1>20 DEF Heavier
  <2>2. d = Cardinality(B.on) /\ k = Len(LV)
    BY <1>6, <1>22
  <2> QED
    BY <1>9, <1>21, <1>23, <1>24, <2>1, <2>2, SlackPushed
<1> QED
  BY <1>1, <1>5, <1>17, <1>19, <1>22, <1>24, <1>25

(* An uncontraction looks at the number of nodes before it.                 *)
LEMMA UncontractionIsCovered ==
  ASSUME IInv, IInv', SlackInv, Uncontract
  PROVE  SlackInv'
<1>1. PICK h, H, LV, H1, LV1 :
        /\ h = hg /\ H = history /\ LV = levels /\ H1 = history' /\ LV1 = levels'
  OBVIOUS
<1>2. /\ H # <<>> /\ H1 = Front(H) /\ LV1 = Front(LV)
      /\ max_hn_weights' = WeightsBelow(max_hn_weights, Cardinality(h.on))
      /\ phase = "uncoarsen" /\ phase' = "refine"
  BY <1>1 DEF Uncontract, currentNumNodes
<1> SUFFICES ASSUME ~Broken' PROVE SlackOK(max_hn_weights', levels', FALSE)
  BY <1>2 DEF SlackInv, IsCoarsening
<1>3. PICK n \in Nat, k \in Nat : n + 1 = Len(H) /\ k + 1 = Len(LV) /\ k >= n + 1
  <2>1. Len(H) \in Nat /\ Len(H) > 0 /\ Len(LV) \in Nat /\ Len(LV) >= Len(H) + 1
    BY <1>1, <1>2, ListLength DEF IInv
  <2>2. /\ Len(H) - 1 \in Nat /\ (Len(H) - 1) + 1 = Len(H)
        /\ Len(LV) - 1 \in Nat /\ (Len(LV) - 1) + 1 = Len(LV) /\ Len(LV) - 1 >= (Len(H) - 1) + 1
    BY <2>1
  <2> QED
    BY <2>2
<1>4. Len(H1) = n
  BY <1>1, <1>2, <1>3, ListFront DEF IInv
<1>5. Len(LV1) = k /\ Extends(LV1, LV, k)
  BY <1>1, <1>2, <1>3, ListFront DEF IInv
<1>6. ~Broken
  BY <1>1, <1>3, <1>4, <1>5 DEF Broken
<1>7. LevelsInv(h, H, removed_single, removed_parallel, LV)
  BY <1>1, <1>6 DEF IInv
<1>8. LevelsInv(hg', H1, removed_single', removed_parallel', LV1)
  BY <1>1 DEF IInv
<1>9. LevelsCounted(LV) /\ LevelsCounted(LV1)
  BY <1>7, <1>8, LevelsAreCounted
<1>10. LV[k + 1].on = h.on
  BY <1>3, <1>7 DEF LevelsInv, Structure
<1>11. PICK W, d : W = max_hn_weights /\ d = Cardinality(LV[k + 1].on)
  OBVIOUS
<1>12. SlackOK(W, LV, FALSE)
  BY <1>1, <1>2, <1>6, <1>11 DEF SlackInv, IsCoarsening
<1>13. PICK W1 : W1 = WeightsBelow(W, d)
  OBVIOUS
<1>14. k >= 1 /\ Len(LV) = k + 1
  BY <1>3
<1>15. SlackOK(W1, LV1, FALSE)
  BY <1>5, <1>9, <1>11, <1>12, <1>13, <1>14, SlackPopped
<1> QED
  BY <1>1, <1>2, <1>10, <1>11, <1>13, <1>15

(* Steps that push and pop nothing: coarsening begins again only when all   *)
(* nodes have been given back.                                              *)
LEMMA StillIsCovered ==
  ASSUME IInv, SlackInv, UNCHANGED <<history, max_hn_weights, levels>>,
         ~IsCoarsening(phase) /\ IsCoarsening(phase') => history = <<>>
  PROVE  SlackInv'
<1>1. Broken' <=> Broken
  BY DEF Broken
<1> SUFFICES ASSUME ~Broken PROVE SlackInv'
  BY <1>1 DEF SlackInv
<1>2. LevelsInv(hg, history, removed_single, removed_parallel, levels)
  BY DEF IInv
<1>3. LevelsCounted(levels)
  BY <1>2, LevelsAreCounted
<1>4. history = <<>> => Len(levels) = 1
  BY <1>2 DEF LevelsInv
<1>5. CASE IsCoarsening(phase)
  <2>1. SlackOK(max_hn_weights, levels, TRUE)
    BY <1>5 DEF SlackInv
  <2>2. SlackOK(max_hn_weights, levels, FALSE)
    BY <1>3, <2>1, SlackTurns
  <2> QED
    BY <1>1, <2>1, <2>2 DEF SlackInv
<1>6. CASE ~IsCoarsening(phase)
  <2>1. SlackOK(max_hn_weights, levels, FALSE)
    BY <1>6 DEF SlackInv
  <2>2. CASE ~IsCoarsening(phase')
    BY <2>1, <2>2 DEF SlackInv
  <2>3. CASE IsCoarsening(phase')
    <3>1. Len(levels) = 1
      BY <1>4, <1>6, <2>3
    <3>2. SlackOK(max_hn_weights, levels, TRUE)
      BY <1>3, <2>1, <3>1, SlackTurns
    <3> QED
      BY <2>3, <3>2 DEF SlackInv
  <2> QED
    BY <2>2, <2>3
<1> QED
  BY <1>5, <1>6

(* A step of the specification keeps the stack sufficient.                  *)
LEMMA StepKeepsSlack ==
  ASSUME IInv, IInv', SlackInv, [Next]_vars
  PROVE  SlackInv'
<1>1. CASE StartPass \/ EndPass \/ EndCoarsening \/ EndUncoarsening \/ InitialPartition \/ Refine
           \/ partitionVCycle \/ UNCHANGED vars
  <2>1. UNCHANGED <<history, max_hn_weights, levels>>
    BY <1>1 DEF StartPass, EndPass, EndCoarsening, EndUncoarsening, InitialPartition, Refine, partitionVCycle, vars
  <2>2. ~IsCoarsening(phase) /\ IsCoarsening(phase') => history = <<>>
    BY <1>1 DEF StartPass, EndPass, EndCoarsening, EndUncoarsening, InitialPartition, Refine, partitionVCycle, vars,
                IsCoarsening
  <2> QED
    BY <2>1, <2>2, StillIsCovered
<1>2. CASE Uncontract
  BY <1>2, UncontractionIsCovered
<1>3. CASE SoftTimeLimitExceeded
  <2>1. Len(history) \in Nat /\ Len(history) > 0 /\ Len(levels) \in Nat /\ Len(levels) >= Len(history) + 1
    BY <1>3, ListLength DEF IInv, SoftTimeLimitExceeded
  <2>2. Len(history') = 0 /\ levels' = levels
    BY <1>3 DEF SoftTimeLimitExceeded
  <2>3. Broken'
    BY <2>1, <2>2 DEF Broken
  <2> QED
    BY <2>3 DEF SlackInv
<1>4. ASSUME NEW hn \in Nodes, Visit(hn)
      PROVE  SlackInv'
  <2>1. hn \in hg.on /\ phase = "visit" /\ phase' = "visit"
    BY <1>4 DEF Visit
  <2>2. CASE Targets(hn) = {}
    <3>1. UNCHANGED <<history, max_hn_weights, levels>>
      BY <1>4, <2>2 DEF Visit
    <3> QED
      BY <2>1, <3>1, StillIsCovered DEF IsCoarsening
  <2>3. CASE Targets(hn) # {}
    <3>1. PICK target \in Targets(hn) : performContraction(hn, target)
      BY <1>4, <2>3 DEF Visit
    <3>2. MayContract(hg, hn, target)
      BY <2>1, TargetsMayBeContracted
    <3> QED
      BY <2>1, <3>1, <3>2, ContractionIsCovered
  <2> QED
    BY <2>2, <2>3
<1> QED
  BY <1>1, <1>2, <1>3, <1>4 DEF Next

(* The last maximum is the largest, so it covers the coarsest level, which  *)
(* is the hypergraph.                                                       *)
LEMMA SlackIsEnough ==
  ASSUME IInv, SlackInv
  PROVE  SlackCoversHeaviestNode
<1> SUFFICES ASSUME ~Broken
             PROVE  Last(max_hn_weights).max_weight >= weightOfHeaviestNode(hg)
  BY DEF SlackCoversHeaviestNode
<1>1. PICK h, LV, W : h = hg /\ LV = levels /\ W = max_hn_weights
  OBVIOUS
<1>2. LevelsInv(h, history, removed_single, removed_parallel, LV)
  BY <1>1 DEF IInv
<1>3. PICK b : SlackOK(W, LV, b)
  BY <1>1 DEF SlackInv
<1>4. PICK k \in Nat : k = Len(LV) /\ k >= 1
  <2>1. LevelsCounted(LV)
    BY <1>2, LevelsAreCounted
  <2> QED
    BY <2>1, ListLength DEF LevelsCounted
<1>5. WellFormed(h) /\ LV[k] = Structure(h)
  BY <1>2, <1>4 DEF LevelsInv
<1>6. PICK l \in Nat : l = Len(W) /\ l >= 1
  BY <1>3, ListLength DEF SlackOK, IsStack
<1>7. PICK i \in 1 .. l : Covers(W[i].max_weight, LV[k])
  BY <1>3, <1>4, <1>6 DEF SlackOK, Covered
<1>8. W[i].max_weight <= W[l].max_weight /\ W[i].max_weight \in Int /\ W[l].max_weight \in Int
  <2>1. i = l \/ W[i].max_weight < W[l].max_weight
    BY <1>3, <1>6 DEF SlackOK, Ordered
  <2>2. W[i].max_weight \in Int /\ W[l].max_weight \in Int
    BY <1>3, <1>6 DEF SlackOK, IsStack
  <2> QED
    BY <2>1, <2>2
<1>9. PICK w \in Int : /\ w = weightOfHeaviestNode(h)
                       /\ w = 0 \/ \E u \in h.on : w = h.weight[u]
  BY <1>5, HeaviestIs
<1>10. w <= W[i].max_weight
  <2>1. LV[k].on = h.on /\ \A u \in h.on : LV[k].weight[u] = h.weight[u]
    BY <1>5 DEF Structure
  <2> QED
    BY <1>7, <1>9, <2>1 DEF Covers
<1>11. w <= W[l].max_weight
  BY <1>8, <1>10
<1> QED
  BY <1>1, <1>6, <1>9, <1>11 DEF Last

(* The slack that local search gets on the bound of a block covers the      *)
(* heaviest node of the level it works on, for every hypergraph and any     *)
(* number of V-cycles (VertexPairCoarsenerBase, _max_hn_weights).           *)
THEOREM SlackCorrect == Spec => []SlackCoversHeaviestNode
<1>1. Init => IInv /\ SlackInv
  BY InitIsInvariant, InitIsCovered
<1>2. IInv /\ SlackInv /\ [Next]_vars => (IInv /\ SlackInv)'
  <2> SUFFICES ASSUME IInv, SlackInv, [Next]_vars PROVE (IInv /\ SlackInv)'
    OBVIOUS
  <2>1. IInv'
    BY StepKeepsInvariant
  <2> QED
    BY <2>1, StepKeepsSlack
<1>3. IInv /\ SlackInv => SlackCoversHeaviestNode
  BY SlackIsEnough
<1> QED
  BY <1>1, <1>2, <1>3, PTL DEF Spec
=============================================================================
