----------------------------- MODULE HyperGraph -----------------------------
(***************************************************************************)
(* The nets of src/src/storage/HyperGraph.cpp and HyperEdge.cpp.           *)
(*                                                                         *)
(* A HyperEdge keeps its pins twice: the set `pins' the partitioner reads, *)
(* and the map `pin_count' with how often each pin was inserted.  Merging  *)
(* nets into one (a contraction) inserts the pins of each of them, clipped *)
(* to an interval or to a set of accessed columns; an uncontraction takes  *)
(* the pins of one net out again and may erase a pin only when no other    *)
(* contracted net still holds it.  The module is the life of one merged    *)
(* net: any nets of a hypergraph are contracted into it and uncontracted,  *)
(* in any order, and it may be reset.                                      *)
(*                                                                         *)
(* A map entry that was never written reads as 0 in C++ (operator[]), so   *)
(* pin_count is a total function here.                                     *)
(***************************************************************************)
EXTENDS Integers, FiniteSets

CONSTANTS
  NumVertices,  (* Vertex ids are 0 .. NumVertices - 1.                    *)
  NetIds        (* The ids of the hypergraph's nets.                       *)

ASSUME VerticesAssumption == NumVertices \in Nat
ASSUME NetIdsAssumption == IsFiniteSet(NetIds)

Vertices == 0 .. NumVertices - 1

(***************************************************************************)
(* The operations of a HyperEdge.  Every loop runs over a set of distinct  *)
(* pins, so the pins are inserted, or taken out, all at once.              *)
(***************************************************************************)
EmptyEdge == [pins |-> {}, pin_count |-> [v \in Vertices |-> 0]]

(* Mutant: the count of a pin that is already there is not raised.         *)
InsertOnce(a, S) ==
  [pins      |-> a.pins \cup S,
   pin_count |-> [v \in Vertices |-> IF v \in S THEN 1 ELSE a.pin_count[v]]]

InsertPins(a, S) ==
  [pins      |-> a.pins \cup S,
   pin_count |-> [v \in Vertices |->
                    IF v \in S THEN a.pin_count[v] + 1 ELSE a.pin_count[v]]]

Clip(b, lower, upper) == {v \in b.pins : lower <= v /\ v <= upper}

MergeNets(a, b, lower, upper) == InsertPins(a, Clip(b, lower, upper))

MergeAccessedNets(a, b, accessed) == InsertPins(a, b.pins \cap accessed)

(* Mutant: erases a pin whatever its count.                                *)
EagerUncontraction(a, b) ==
  [InsertPins(a, {}) EXCEPT
     !.pins = @ \ b.pins,
     !.pin_count = [v \in Vertices |->
                      IF v \in b.pins THEN @[v] - 1 ELSE @[v]]]

NetsUncontraction(a, b) ==
  [pins      |-> {v \in a.pins : ~ (v \in b.pins /\ a.pin_count[v] = 1)},
   pin_count |-> [v \in Vertices |->
                    IF v \in b.pins THEN a.pin_count[v] - 1
                                    ELSE a.pin_count[v]]]

-----------------------------------------------------------------------------
VARIABLES
  nets,   (* The nets of the hypergraph, each with its pins.               *)
  merged, (* The net they are contracted into.                             *)
  held    (* held[n]: what the contraction of net n put into `merged'.     *)
          (* The caller's knowledge, read by the properties and by the     *)
          (* guard that pairs an uncontraction with its contraction.       *)

vars == <<nets, merged, held>>

(* HyperGraph(num_nets) makes empty nets; the caller inserts each pin once. *)
Init ==
  /\ \E pinsOf \in [NetIds -> SUBSET Vertices] :
       nets = [n \in NetIds |-> InsertPins(EmptyEdge, pinsOf[n])]
  /\ merged = EmptyEdge
  /\ held = [n \in NetIds |-> {}]

Contract(n, lower, upper) ==
  /\ held[n] = {}
  /\ merged' = MergeNets(merged, nets[n], lower, upper)
  /\ held' = [held EXCEPT ![n] = Clip(nets[n], lower, upper)]
  /\ UNCHANGED nets

ContractAccessed(n, accessed) ==
  /\ held[n] = {}
  /\ merged' = MergeAccessedNets(merged, nets[n], accessed)
  /\ held' = [held EXCEPT ![n] = nets[n].pins \cap accessed]
  /\ UNCHANGED nets

(* An uncontraction takes out every pin of the net, so it undoes only a     *)
(* contraction that was not clipped.                                       *)
Uncontract(n) ==
  /\ held[n] = nets[n].pins
  /\ merged' = NetsUncontraction(merged, nets[n])
  /\ held' = [held EXCEPT ![n] = {}]
  /\ UNCHANGED nets

Reset ==
  /\ merged' = EmptyEdge
  /\ held' = [n \in NetIds |-> {}]
  /\ UNCHANGED nets

Next ==
  \/ \E n \in NetIds, lower, upper \in Vertices : Contract(n, lower, upper)
  \/ \E n \in NetIds, accessed \in SUBSET Vertices : ContractAccessed(n, accessed)
  \/ \E n \in NetIds : Uncontract(n)
  \/ Reset

Spec == Init /\ [][Next]_vars

-----------------------------------------------------------------------------
Edges == [pins : SUBSET Vertices, pin_count : [Vertices -> Nat]]

(* Every net has pins among the vertices and, for each vertex, a count that *)
(* no uncontraction drives below zero.                                      *)
TypeOK ==
  /\ nets \in [NetIds -> Edges]
  /\ merged \in Edges
  /\ held \in [NetIds -> SUBSET Vertices]

Holders(v) == {n \in NetIds : v \in held[n]}

(* The merged net's pins are the union of what its contracted nets put in:  *)
(* no uncontraction drops a pin another net still holds, and none keeps one *)
(* that nobody holds (nets_uncontraction erases only at pin_count == 1).    *)
PinsAreUnion == merged.pins = UNION {held[n] : n \in NetIds}

(* pin_count[v] is the number of contracted nets holding v, so that the     *)
(* test pin_count == 1 means "the last holder", and no count is negative.   *)
CountsAreMultiplicities ==
  \A v \in Vertices : merged.pin_count[v] = Cardinality(Holders(v))

=============================================================================
