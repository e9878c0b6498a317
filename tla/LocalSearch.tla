---------------------------- MODULE LocalSearch ----------------------------
(***************************************************************************)
(* What local search promises of the partition of the input hypergraph:    *)
(* fixed vertices stay, and the partition is only ever replaced by one     *)
(* that is cheaper and in balance, or no more expensive and less out of    *)
(* balance.  The multilevel scheme is not visible here: an uncontraction   *)
(* is a stutter, and so is every move until a search accepts it.           *)
(***************************************************************************)
EXTENDS Integers, FiniteSets, FiniteSetsExt

CONSTANTS
  Nodes, Nets, Blocks,
  Pins, Weight, EdgeWeight,  (* The input hypergraph.                      *)
  MaxPartWeight,             (* The bound on the weight of a block.        *)
  Objective                  (* "km1" or "cut"                             *)

VARIABLES
  fixed,                     (* The fixed vertices.                        *)
  partition                  (* The block of each node.                    *)

Connectivity(p, e) == Cardinality({p[u] : u \in Pins[e]})
Cost(p) ==
  MapThenSumSet(
    LAMBDA e : IF Objective = "km1" THEN (Connectivity(p, e) - 1) * EdgeWeight[e]
               ELSE IF Connectivity(p, e) > 1 THEN EdgeWeight[e] ELSE 0, Nets)
BlockWeight(p, b) == MapThenSumSet(LAMBDA u : Weight[u], {u \in Nodes : p[u] = b})
Heaviest(p) == Max({BlockWeight(p, b) : b \in Blocks})

Improves(p, q) ==
  \/ Cost(q) < Cost(p) /\ Heaviest(q) <= MaxPartWeight
  \/ Cost(q) <= Cost(p) /\ Heaviest(q) < Heaviest(p)

Init == fixed \subseteq Nodes /\ partition \in [Nodes -> Blocks]
Improve ==
  /\ partition' \in [Nodes -> Blocks]
  /\ UNCHANGED fixed
  /\ \A u \in fixed : partition'[u] = partition[u]
  /\ Improves(partition, partition')
Spec == Init /\ [][Improve]_<<fixed, partition>>
=============================================================================
