--------------------------- MODULE Subhypergraph ---------------------------
(***************************************************************************)
(* Hypergraphs built from others (the free functions after class           *)
(* GenericHypergraph in datastructure/hypergraph.h).  A hypergraph is a    *)
(* record: its nodes, their weight and block, the block a node is fixed    *)
(* to, and a sequence of nets, each a record of pins and weight.  A built  *)
(* hypergraph has the nodes 0 .. n-1 and comes with the sequence that maps *)
(* node i back to mapping[i + 1].                                          *)
(***************************************************************************)
EXTENDS Integers, FiniteSets, Sequences, SequencesExt, FiniteSetsExt

kUnassigned == -1

totalWeight(hg) == MapThenSumSet(LAMBDA u : hg.weight[u], hg.nodes)
partWeight(hg, p) == MapThenSumSet(LAMBDA u : hg.weight[u], {u \in hg.nodes : hg.part[u] = p})
isFixed(hg, u) == hg.fixed[u] # kUnassigned
containsFixedVertices(hg) == \E u \in hg.nodes : isFixed(hg, u)
connectivitySet(hg, e) == {hg.part[u] : u \in e.pins} \ {kUnassigned}

objective(hg, o) ==
  FoldLeft(LAMBDA sum, e : LET c == Cardinality(connectivitySet(hg, e))
                           IN sum + e.weight * (IF o = "km1" THEN c - 1 ELSE IF c > 1 THEN 1 ELSE 0),
           0, hg.nets)

(* The hypergraph on the kept nodes with these nets, cut down to them.     *)
Renumbered(hg, kept, nets) ==
  LET mapping == SetToSortSeq(kept, <)
      index == [u \in kept |-> Cardinality({v \in kept : v < u})]
      nodes == 0 .. Cardinality(kept) - 1
  IN [hypergraph |->
        [nodes |-> nodes,
         weight |-> [i \in nodes |-> hg.weight[mapping[i + 1]]],
         nets |-> [n \in DOMAIN nets |->
                     [pins |-> {index[u] : u \in nets[n].pins \cap kept},
                      weight |-> nets[n].weight]],
         part |-> [i \in nodes |-> kUnassigned],
         fixed |-> [i \in nodes |-> kUnassigned]],
      mapping |-> mapping]

(* The coarse hypergraph without its disabled nodes; fixed vertices stay.  *)
reindex(hg) ==
  LET r == Renumbered(hg, hg.nodes, hg.nets)
  IN [r EXCEPT !.hypergraph.fixed = [i \in r.hypergraph.nodes |-> hg.fixed[r.mapping[i + 1]]]]

(* Cut-net splitting for km1: a cut net goes on in each part in which it   *)
(* has several pins.  For the cut it has been paid for.                    *)
extractPartAsUnpartitionedHypergraphForBisection(hg, part, o) ==
  LET in_part == {u \in hg.nodes : hg.part[u] = part}
  IN Renumbered(hg, in_part,
       SelectSeq(hg.nets, LAMBDA e : IF o = "km1" THEN Cardinality(e.pins \cap in_part) > 1
                                     ELSE connectivitySet(hg, e) = {part}))

removeFixedVertices(hg) ==
  LET free == {u \in hg.nodes : ~isFixed(hg, u)}
  IN Renumbered(hg, free, SelectSeq(hg.nets, LAMBDA e : Cardinality(e.pins \cap free) > 1))
=============================================================================
