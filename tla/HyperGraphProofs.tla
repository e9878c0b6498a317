-------------------------- MODULE HyperGraphProofs --------------------------
(***************************************************************************)
(* The invariants of HyperGraph, proved for every number of vertices and   *)
(* every finite set of nets.                                               *)
(***************************************************************************)
EXTENDS HyperGraph, FiniteSetTheorems, TLAPS

(* The types that are inductive on their own: a count may be any integer,   *)
(* since only the multiplicity of the pins keeps an uncontraction from       *)
(* making it negative.                                                      *)
RawEdges == [pins : SUBSET Vertices, pin_count : [Vertices -> Int]]

RawTypeOK ==
  /\ nets \in [NetIds -> Edges]
  /\ merged \in RawEdges
  /\ held \in [NetIds -> SUBSET Vertices]

(* Inserting pins yields an edge again.                                     *)
LEMMA InsertPinsType ==
  ASSUME NEW a \in RawEdges, NEW S \in SUBSET Vertices
  PROVE  InsertPins(a, S) \in RawEdges
  BY DEF InsertPins, RawEdges

LEMMA EmptyEdgeType == EmptyEdge \in RawEdges
  BY DEF EmptyEdge, RawEdges

(* A fresh net counts each of its pins once.                                *)
LEMMA FreshEdgeType ==
  ASSUME NEW S \in SUBSET Vertices
  PROVE  InsertPins(EmptyEdge, S) \in Edges
  BY DEF InsertPins, EmptyEdge, Edges

LEMMA UncontractionType ==
  ASSUME NEW a \in RawEdges, NEW b \in Edges
  PROVE  NetsUncontraction(a, b) \in RawEdges
  BY DEF NetsUncontraction, RawEdges, Edges

(* Every state reached has well-typed nets, whatever the order of the       *)
(* contractions, uncontractions and resets.                                *)
LEMMA RawTypeCorrect == Spec => []RawTypeOK
<1>1. Init => RawTypeOK
  <2> SUFFICES ASSUME Init PROVE RawTypeOK
    OBVIOUS
  <2>1. PICK pinsOf \in [NetIds -> SUBSET Vertices] :
          nets = [n \in NetIds |-> InsertPins(EmptyEdge, pinsOf[n])]
    BY DEF Init
  <2>2. \A n \in NetIds : InsertPins(EmptyEdge, pinsOf[n]) \in Edges
    BY <2>1, FreshEdgeType
  <2> QED
    BY <2>1, <2>2, EmptyEdgeType DEF Init, RawTypeOK
<1>2. RawTypeOK /\ [Next]_vars => RawTypeOK'
  <2> SUFFICES ASSUME RawTypeOK, [Next]_vars PROVE RawTypeOK'
    OBVIOUS
  <2>1. ASSUME NEW n \in NetIds, NEW S \in SUBSET Vertices,
               merged' = InsertPins(merged, S), held' = [held EXCEPT ![n] = S],
               nets' = nets
        PROVE  RawTypeOK'
    <3>1. InsertPins(merged, S) \in RawEdges
      BY InsertPinsType DEF RawTypeOK
    <3> QED
      BY <2>1, <3>1 DEF RawTypeOK
  <2>2. CASE \E n \in NetIds, lower, upper \in Vertices :
               Contract(n, lower, upper)
    <3>1. PICK n \in NetIds, lower \in Vertices, upper \in Vertices :
            Contract(n, lower, upper)
      BY <2>2
    <3>2. Clip(nets[n], lower, upper) \in SUBSET Vertices
      BY DEF Clip, RawTypeOK, Edges
    <3> QED
      BY <2>1, <3>1, <3>2 DEF Contract, MergeNets
  <2>3. CASE \E n \in NetIds, accessed \in SUBSET Vertices :
               ContractAccessed(n, accessed)
    <3>1. PICK n \in NetIds, accessed \in SUBSET Vertices :
            ContractAccessed(n, accessed)
      BY <2>3
    <3>2. nets[n].pins \cap accessed \in SUBSET Vertices
      BY <3>1
    <3> QED
      BY <2>1, <3>1, <3>2 DEF ContractAccessed, MergeAccessedNets
  <2>4. CASE \E n \in NetIds : Uncontract(n)
    <3>1. PICK n \in NetIds : Uncontract(n)
      BY <2>4
    <3>2. NetsUncontraction(merged, nets[n]) \in RawEdges
      BY UncontractionType DEF RawTypeOK
    <3> QED
      BY <3>1, <3>2 DEF Uncontract, RawTypeOK
  <2>5. CASE Reset
    BY <2>5, EmptyEdgeType DEF Reset, RawTypeOK
  <2>6. CASE UNCHANGED vars
    BY <2>6 DEF vars, RawTypeOK
  <2> QED
    BY <2>2, <2>3, <2>4, <2>5, <2>6 DEF Next
<1> QED
  BY <1>1, <1>2, PTL DEF Spec

-----------------------------------------------------------------------------
(* One more net holds v exactly when the net's new contribution has v.      *)
LEMMA HoldersAdd ==
  ASSUME RawTypeOK, NEW n \in NetIds, NEW S \in SUBSET Vertices,
         held[n] = {}, held' = [held EXCEPT ![n] = S], NEW v \in Vertices
  PROVE  /\ IsFiniteSet(Holders(v))
         /\ Cardinality(Holders(v)') =
              IF v \in S THEN Cardinality(Holders(v)) + 1
                         ELSE Cardinality(Holders(v))
<1>1. IsFiniteSet(Holders(v))
  BY NetIdsAssumption, FS_Subset DEF Holders
<1>2. n \notin Holders(v)
  BY DEF Holders
<1>3. CASE v \in S
  <2>1. Holders(v)' = Holders(v) \cup {n}
    BY <1>3 DEF Holders, RawTypeOK
  <2> QED
    BY <1>1, <1>2, <1>3, <2>1, FS_AddElement
<1>4. CASE v \notin S
  <2>1. Holders(v)' = Holders(v)
    BY <1>4 DEF Holders, RawTypeOK
  <2> QED
    BY <1>1, <1>4, <2>1
<1> QED
  BY <1>1, <1>3, <1>4

(* One net fewer holds v when the net held v.                               *)
LEMMA HoldersRemove ==
  ASSUME RawTypeOK, NEW n \in NetIds, held' = [held EXCEPT ![n] = {}],
         NEW v \in Vertices
  PROVE  /\ IsFiniteSet(Holders(v))
         /\ Holders(v)' = Holders(v) \ {n}
         /\ Cardinality(Holders(v)') =
              IF v \in held[n] THEN Cardinality(Holders(v)) - 1
                               ELSE Cardinality(Holders(v))
<1>1. IsFiniteSet(Holders(v))
  BY NetIdsAssumption, FS_Subset DEF Holders
<1>2. Holders(v)' = Holders(v) \ {n}
  BY DEF Holders, RawTypeOK
<1>3. n \in Holders(v) <=> v \in held[n]
  BY DEF Holders
<1> QED
  BY <1>1, <1>2, <1>3, FS_RemoveElement

(* The strengthening that is inductive: whether the pins are the union after *)
(* an uncontraction is decided by the counts, so the counts have to be right *)
(* before it, and both rest on the types.                                   *)
IInv == RawTypeOK /\ PinsAreUnion /\ CountsAreMultiplicities

LEMMA InitIInv == Init => PinsAreUnion /\ CountsAreMultiplicities
<1> SUFFICES ASSUME Init PROVE PinsAreUnion /\ CountsAreMultiplicities
  OBVIOUS
<1>1. \A v \in Vertices : Cardinality(Holders(v)) = 0
  <2>1. \A v \in Vertices : Holders(v) = {}
    BY DEF Init, Holders
  <2> QED
    BY <2>1, FS_EmptySet
<1>2. PinsAreUnion
  BY DEF Init, PinsAreUnion, EmptyEdge
<1> QED
  BY <1>1, <1>2 DEF Init, CountsAreMultiplicities, EmptyEdge

(* Contracting any pins of a net that is not yet contracted.                *)
LEMMA InsertIInv ==
  ASSUME IInv, NEW n \in NetIds, NEW S \in SUBSET Vertices, held[n] = {},
         merged' = InsertPins(merged, S), held' = [held EXCEPT ![n] = S]
  PROVE  PinsAreUnion' /\ CountsAreMultiplicities'
<1>1. PinsAreUnion'
  <2>1. (UNION {held[m] : m \in NetIds})' = (UNION {held[m] : m \in NetIds}) \cup S
    <3>1. \A m \in NetIds : held'[m] = IF m = n THEN S ELSE held[m]
      BY DEF IInv, RawTypeOK
    <3> QED
      BY <3>1
  <2> QED
    BY <2>1 DEF IInv, PinsAreUnion, InsertPins
<1>2. CountsAreMultiplicities'
  <2> SUFFICES ASSUME NEW v \in Vertices
               PROVE  merged'.pin_count[v] = Cardinality(Holders(v)')
    BY DEF CountsAreMultiplicities
  <2>1. merged'.pin_count[v] =
          IF v \in S THEN merged.pin_count[v] + 1 ELSE merged.pin_count[v]
    BY DEF InsertPins
  <2> QED
    BY <2>1, HoldersAdd DEF IInv, CountsAreMultiplicities
<1> QED
  BY <1>1, <1>2

(* Taking out a net whose contraction was complete.                         *)
LEMMA UncontractIInv ==
  ASSUME IInv, NEW n \in NetIds, Uncontract(n)
  PROVE  PinsAreUnion' /\ CountsAreMultiplicities'
<1> USE DEF Uncontract
<1>1. ASSUME NEW v \in Vertices
      PROVE  merged'.pin_count[v] = Cardinality(Holders(v)')
  <2>1. merged'.pin_count[v] =
          IF v \in held[n] THEN merged.pin_count[v] - 1
                           ELSE merged.pin_count[v]
    BY DEF NetsUncontraction
  <2> QED
    BY <2>1, HoldersRemove DEF IInv, CountsAreMultiplicities
<1>2. ASSUME NEW v \in Vertices
      PROVE  v \in merged'.pins <=> Holders(v)' # {}
  <2>1. v \in merged'.pins <=>
          v \in merged.pins /\ ~ (v \in held[n] /\ merged.pin_count[v] = 1)
    BY DEF NetsUncontraction
  <2>2. v \in merged.pins <=> Holders(v) # {}
    BY DEF IInv, PinsAreUnion, Holders
  <2>3. /\ IsFiniteSet(Holders(v))
        /\ Holders(v)' = Holders(v) \ {n}
        /\ n \in Holders(v) <=> v \in held[n]
    BY HoldersRemove DEF IInv, Holders
  <2>4. merged.pin_count[v] = Cardinality(Holders(v))
    BY DEF IInv, CountsAreMultiplicities
  <2>5. Cardinality(Holders(v)) = 1 /\ n \in Holders(v) <=> Holders(v) = {n}
    BY <2>3, FS_Singleton
  <2> QED
    BY <2>1, <2>2, <2>3, <2>4, <2>5
<1>3. merged'.pins \subseteq Vertices
  BY DEF IInv, RawTypeOK, RawEdges, NetsUncontraction
<1>4. held' \in [NetIds -> SUBSET Vertices]
  BY DEF IInv, RawTypeOK
<1>5. PinsAreUnion'
  BY <1>2, <1>3, <1>4 DEF PinsAreUnion, Holders
<1> QED
  BY <1>1, <1>5 DEF CountsAreMultiplicities

LEMMA NextIInv == IInv /\ [Next]_vars => PinsAreUnion' /\ CountsAreMultiplicities'
<1> SUFFICES ASSUME IInv, [Next]_vars
             PROVE  PinsAreUnion' /\ CountsAreMultiplicities'
  OBVIOUS
<1>1. CASE \E n \in NetIds, lower, upper \in Vertices :
             Contract(n, lower, upper)
  <2>1. PICK n \in NetIds, lower \in Vertices, upper \in Vertices :
          Contract(n, lower, upper)
    BY <1>1
  <2>2. Clip(nets[n], lower, upper) \in SUBSET Vertices
    BY DEF Clip, IInv, RawTypeOK, Edges
  <2> QED
    BY <2>1, <2>2, InsertIInv DEF Contract, MergeNets
<1>2. CASE \E n \in NetIds, accessed \in SUBSET Vertices :
             ContractAccessed(n, accessed)
  <2>1. PICK n \in NetIds, accessed \in SUBSET Vertices :
          ContractAccessed(n, accessed)
    BY <1>2
  <2>2. nets[n].pins \cap accessed \in SUBSET Vertices
    BY <2>1
  <2> QED
    BY <2>1, <2>2, InsertIInv DEF ContractAccessed, MergeAccessedNets
<1>3. CASE \E n \in NetIds : Uncontract(n)
  BY <1>3, UncontractIInv
<1>4. CASE Reset
  <2>1. \A v \in Vertices : Cardinality(Holders(v)') = 0
    <3>1. \A v \in Vertices : Holders(v)' = {}
      BY <1>4 DEF Reset, Holders
    <3> QED
      BY <3>1, FS_EmptySet
  <2> QED
    BY <1>4, <2>1 DEF Reset, PinsAreUnion, CountsAreMultiplicities, EmptyEdge
<1>5. CASE UNCHANGED vars
  BY <1>5 DEF vars, IInv, PinsAreUnion, CountsAreMultiplicities, Holders
<1> QED
  BY <1>1, <1>2, <1>3, <1>4, <1>5 DEF Next

(* In every reachable state the merged net's pins are the union of what its *)
(* contracted nets put in, and each count is its pin's number of holders:   *)
(* nets_uncontraction is the exact inverse of merge_nets.                   *)
THEOREM ContractionCorrect == Spec => [](PinsAreUnion /\ CountsAreMultiplicities)
<1>1. Init /\ RawTypeOK => IInv
  BY InitIInv DEF IInv
<1>2. IInv /\ RawTypeOK' /\ [Next]_vars => IInv'
  BY NextIInv DEF IInv
<1>3. IInv => PinsAreUnion /\ CountsAreMultiplicities
  BY DEF IInv
<1> QED
  BY <1>1, <1>2, <1>3, RawTypeCorrect, PTL DEF Spec

(* In every reachable state pin_count is the number of contracted nets that *)
(* hold the pin, so that a count of 1 means the last holder.                *)
THEOREM CountsCorrect == Spec => []CountsAreMultiplicities
  BY ContractionCorrect, PTL

(* Every reachable state has well-typed nets and no negative pin count,     *)
(* whatever the order of the contractions, uncontractions and resets.      *)
THEOREM TypeCorrect == Spec => []TypeOK
<1>1. RawTypeOK /\ CountsAreMultiplicities => TypeOK
  <2> SUFFICES ASSUME RawTypeOK, CountsAreMultiplicities PROVE TypeOK
    OBVIOUS
  <2>1. \A v \in Vertices : merged.pin_count[v] \in Nat
    <3>1. \A v \in Vertices : IsFiniteSet(Holders(v))
      BY NetIdsAssumption, FS_Subset DEF Holders
    <3> QED
      BY <3>1, FS_CardinalityType DEF CountsAreMultiplicities
  <2>2. merged \in Edges
    BY <2>1 DEF RawTypeOK, RawEdges, Edges
  <2> QED
    BY <2>2 DEF RawTypeOK, TypeOK
<1> QED
  BY <1>1, RawTypeCorrect, ContractionCorrect, PTL
=============================================================================
