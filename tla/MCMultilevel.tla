---------------------------- MODULE MCMultilevel ----------------------------
(***************************************************************************)
(* Five hypernodes and five nets: two nets become parallel by one          *)
(* contraction, one is a pair, one is heavy.  Hash has collisions between  *)
(* sums of different pin sets (1 + 4 = 2 + 3).                             *)
(***************************************************************************)
EXTENDS Multilevel

MCNodes == 0 .. 4
MCNets == 0 .. 4
MCHash == [u \in MCNodes |-> u]

MCPins == 0 :> <<0, 1, 2>> @@ 1 :> <<1, 2>> @@ 2 :> <<2, 3, 4>> @@ 3 :> <<3, 0>> @@ 4 :> <<4, 1>>
MCWeights == [u \in MCNodes |-> IF u = 3 THEN 2 ELSE 1]
MCEdgeWeights == [e \in MCNets |-> IF e = 2 THEN 2 ELSE 1]
MCHypergraph == NewHypergraph(MCPins, MCWeights, MCEdgeWeights)

(* Node 0 is fixed to block 0 and node 4 to block 1.                       *)
MCFixed == setFixedVertex(setFixedVertex(MCHypergraph, 0, 0), 4, 1)

MCOneCommunity == [u \in MCNodes |-> 0]
MCTwoCommunities == [u \in MCNodes |-> IF u < 3 THEN 0 ELSE 1]

(* A partition as the set of nodes of block 1.                             *)
InBlock1(S) == [u \in MCNodes |-> IF u \in S THEN 1 ELSE 0]

(* Two blocks, km1, a V-cycle.                                             *)
MCPlain ==
  [hypergraph |-> MCHypergraph, communities |-> MCTwoCommunities, k |-> 2,
   contraction_limit |-> 3, max_allowed_node_weight |-> 4, hyperedge_size_threshold |-> 3,
   epsilon_percent |-> 100, max_part_weight |-> 5, objective |-> "km1", vcycles |-> 1,
   from_input_partition |-> FALSE, time_limit |-> FALSE,
   partitions |-> {}, action |-> "none", parents |-> <<>>]
(* Three blocks, two communities, a vertex fixed to the last block, a time *)
(* limit that may strike.                                                  *)
MCTimeLimit ==
  [MCPlain EXCEPT !.hypergraph = setFixedVertex(MCHypergraph, 0, 2), !.k = 3,
                  !.contraction_limit = 2, !.vcycles = 0, !.time_limit = TRUE]
(* Fixed vertices and a V-cycle over an input partition, for the cut.      *)
MCFixedVertices ==
  [MCPlain EXCEPT !.communities = MCOneCommunity, !.hypergraph = MCFixed, !.contraction_limit = 1, !.objective = "cut",
                  !.from_input_partition = TRUE,
                  !.partitions = {InBlock1(S \cup {4}) : S \in SUBSET {1, 2, 3}}]
(* The calls of the evolutionary algorithm.                                *)
MCMutations ==
  {[MCPlain EXCEPT !.communities = MCOneCommunity, !.vcycles = 0, !.action = a,
                   !.partitions = {InBlock1({3, 4}), InBlock1({0, 2})}] :
     a \in {"normal", "new_initial_partitioning", "vcycle"}}
MCCombines ==
  {[MCPlain EXCEPT !.communities = MCOneCommunity, !.vcycles = 0, !.action = "combine",
                   !.parents = <<InBlock1({4}), InBlock1(S)>>] : S \in {{2}, {2, 3}}}

MCContexts == {MCPlain, MCTimeLimit, MCFixedVertices} \cup MCMutations \cup MCCombines
=============================================================================
