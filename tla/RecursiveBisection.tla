------------------------- MODULE RecursiveBisection -------------------------
(***************************************************************************)
(* A k-way partition by bisections: initial::partition (initial_           *)
(* partition.h), which works on a renumbered copy of the coarse            *)
(* hypergraph, recursive_bisection.h, and the repeated bisections with     *)
(* prepacked nodes of multilevel.h.                                        *)
(*                                                                         *)
(* The bottom of the stack is the hypergraph whose partition is built: its *)
(* blocks are 0 and 1 at first, and the leaves of the recursion move its   *)
(* nodes to the blocks they are to end in while part 0 is still to be      *)
(* extracted.  multilevel::partition is any bipartition that leaves fixed  *)
(* vertices where they are (KHypergraph, Multilevel and the searches model *)
(* what it does).                                                          *)
(***************************************************************************)
EXTENDS FixedVertices, BinPacking

CONSTANT Instances  (* Coarse hypergraphs with the options of a context.   *)

VARIABLES
  coarse, input_to_coarse,  (* The coarse hypergraph and the renumbering.  *)
  free, free_to_input,      (* The input hypergraph without fixed vertices. *)
  stack,                    (* hypergraph_stack.                           *)
  mapping_stack,
  attempt,                  (* The loop of partitionRepeatedOnInfeasible.  *)
  cuts                      (* What each bisection cost (an auxiliary variable). *)

bisection_vars == <<coarse, input_to_coarse, free, free_to_input, stack, mapping_stack, attempt, cuts>>
all_vars == <<fixed_vars, bisection_vars>>

Pow(x, n) == FoldLeft(LAMBDA r, i : r * x, 1, [i \in 1 .. n |-> i])
Log2Ceil(k) == Min({l \in 0 .. k : Pow(2, l) >= k})

(* p * (num / den)^(1 / ceil(log2 k)), rounded down, and at least p and at *)
(* most 1.99 p: a weight with the epsilon that is the share of one of the  *)
(* bisections still to come.                                               *)
Relaxed(p, num, den, k) ==
  LET l == Log2Ceil(k)
  IN Max({x \in p .. (199 * p) \div 100 : Pow(x, l) * den <= Pow(p, l) * num} \cup {p})

WithEpsilon(ctx, w) == (w * (100 + ctx.epsilon)) \div 100

BinsPerPart(k) == [i \in 0 .. 1 |-> IF i = 0 THEN k \div 2 ELSE k - k \div 2]

(* A bisection of hg towards k blocks.                                     *)
createCurrentBisectionContext(hg, k) ==
  LET bins == BinsPerPart(k)
      all == totalWeight(free)
      current == totalWeight(hg)
      perfect == [i \in 0 .. 1 |-> CeilDiv(bins[i] * current, k)]
      bin_weight == CeilDiv(current, k)
      current_max_bin ==
        bin_weight + currentBinImbalance(context.bp_algo, hg, bin_weight, k)
  IN [num_bins_per_part |-> bins,
      perfect_balance_part_weights |-> perfect,
      max_part_weights |->
        [i \in 0 .. 1 |-> Relaxed(perfect[i], CeilDiv(all, context.k) * (100 + context.epsilon),
                                  Max({bin_weight, 1}) * 100, k)],
      current_max_bin_weight |-> current_max_bin,
      max_allowed_bin_weight |->
        Relaxed(current_max_bin, WithEpsilon(context, CeilDiv(all, context.k)),
                Max({current_max_bin, 1}), k)]

Top == Last(stack)
Width(entry) == entry.upper_k - entry.lower_k + 1
Below(entry) == Width(entry) \div 2
(* The bottom entry has no hypergraph of its own, it points to free.       *)
HypergraphOf(i) == IF i = 1 THEN free ELSE stack[i].hypergraph
Current == HypergraphOf(Len(stack))
MaxBinWeight == context.max_part_weights[0]
WithTop(entry) == [stack EXCEPT ![Len(stack)] = entry]

Entry(hg, lower, upper) ==
  [hypergraph |-> hg, state |-> "unpartitioned", level |-> "none", is_feasible |-> TRUE,
   lower_k |-> lower, upper_k |-> upper, bisection |-> {}]

(* The current hypergraph gets the partition p (free has no copy).         *)
SetPartition(p) ==
  IF Len(stack) = 1 THEN free' = [free EXCEPT !.part = p] /\ UNCHANGED stack
  ELSE stack' = WithTop([Top EXCEPT !.hypergraph.part = p]) /\ UNCHANGED free

setupPartWeights(ctx, w) == [i \in 0 .. ctx.k - 1 |-> WithEpsilon(ctx, CeilDiv(w, ctx.k))]

-----------------------------------------------------------------------------
BisectionInit ==
  /\ \E i \in Instances :
       LET r == reindex(i.hypergraph)
       IN /\ coarse = i.hypergraph
          /\ input = r.hypergraph /\ input_to_coarse = r.mapping
          /\ context = [k |-> i.context.k, objective |-> i.context.objective,
                        epsilon |-> i.context.epsilon, bp_algo |-> i.context.bp_algo,
                        early |-> i.context.early, late |-> i.context.late,
                        heuristic |-> i.context.heuristic,
                        max_part_weights |-> setupPartWeights(i.context, totalWeight(i.hypergraph))]
  /\ phase = "start" /\ FixedIdle
  /\ free = <<>> /\ free_to_input = <<>> /\ stack = <<>> /\ mapping_stack = <<>>
  /\ attempt = <<>> /\ cuts = <<>>

(* With one block there is nothing to bisect.                              *)
OneBlock ==
  /\ phase = "start" /\ context.k = 1
  /\ input' = [input EXCEPT !.part = [n \in input.nodes |-> 0]]
  /\ phase' = "permuted"
  /\ UNCHANGED <<context, graph, u, v, residual, bisection_vars>>

Start ==
  /\ phase = "start" /\ context.k > 1
  /\ LET r == removeFixedVertices(input)
     IN IF containsFixedVertices(input)
        THEN free' = r.hypergraph /\ free_to_input' = r.mapping
        ELSE free' = input /\ UNCHANGED free_to_input
  /\ stack' = <<Entry(<<>>, 0, context.k - 1)>>
  /\ phase' = "loop"
  /\ UNCHANGED <<context, input, graph, u, v, residual, coarse, input_to_coarse, mapping_stack,
                 attempt, cuts>>

AtState(state) ==
  /\ phase = "loop" /\ stack # <<>>
  /\ Top.lower_k < Top.upper_k /\ Top.state = state

MayRestart == (context.early \/ context.late) /\ Width(Top) > 2

(* A bisection that is not repeated; an empty hypergraph has none.         *)
BisectOnce ==
  /\ AtState("unpartitioned") /\ (Current.nodes = {} \/ ~MayRestart)
  /\ \E p \in [Current.nodes -> 0 .. 1] : SetPartition(p)
  /\ phase' = "extract"
  /\ UNCHANGED <<context, input, graph, u, v, residual, coarse, input_to_coarse, free_to_input,
                 mapping_stack, attempt, cuts>>

BeginRepeated ==
  /\ AtState("unpartitioned") /\ Current.nodes # {} /\ MayRestart
  /\ LET feasible == currentBinImbalance(context.bp_algo, Current, MaxBinWeight, Width(Top)) <= 0
     IN /\ stack' = WithTop([Top EXCEPT !.is_feasible = feasible])
        /\ attempt' = [level |-> Top.level, used |-> "none", repeat |-> feasible /\ context.early]
  /\ phase' = "attempt"
  /\ UNCHANGED <<context, input, graph, u, v, residual, coarse, input_to_coarse, free,
                 free_to_input, mapping_stack, cuts>>

(* One round of the loop: prepack, partition around the prepacked nodes,   *)
(* unfix them, and stop if the result will do or nothing stricter is left. *)
Attempt ==
  /\ phase = "attempt"
  /\ LET ctx == createCurrentBisectionContext(Current, Width(Top))
         nodes == nodesInDescendingWeightOrder(Current)
         next == increaseBalancingRestrictions(attempt.level, context.heuristic)
     IN \E prepacked \in prepacking(context.bp_algo, Current, ctx, attempt.level) :
        \E p \in {p \in [Current.nodes -> 0 .. 1] :
                    \A i \in DOMAIN prepacked : p[nodes[i]] = prepacked[i]} :
          /\ SetPartition(p)
          /\ phase' = IF /\ attempt.repeat /\ next # "STOP"
                         /\ ~partitionIsDeeplyBalanced(context.bp_algo, [Current EXCEPT !.part = p],
                                                       ctx.num_bins_per_part, MaxBinWeight)
                      THEN "attempt" ELSE "extract"
          /\ attempt' = [attempt EXCEPT !.level = next, !.used = attempt.level]
  /\ UNCHANGED <<context, input, graph, u, v, residual, coarse, input_to_coarse, free_to_input,
                 mapping_stack, cuts>>

Extract(part, state, lower, upper) ==
  LET r == extractPartAsUnpartitionedHypergraphForBisection(Current, part, context.objective)
  IN /\ stack' = Append(WithTop([Top EXCEPT !.state = state,
                                            !.bisection = {n \in Current.nodes : Current.part[n] = 0}]),
                        Entry(r.hypergraph, lower, upper))
     /\ mapping_stack' = Append(mapping_stack, r.mapping)
     /\ phase' = "loop"
     /\ UNCHANGED <<context, input, graph, u, v, residual, coarse, input_to_coarse, free,
                    free_to_input>>

(* Mutant: part 0 comes first.                                             *)
ExtractLowerFirst ==
  /\ phase = "extract"
  /\ Extract(0, "part1_extracted", Top.lower_k, Top.lower_k + Below(Top) - 1)
  /\ cuts' = [r \in DOMAIN cuts \cup {<<Top.lower_k, Top.upper_k>>} |->
                IF r = <<Top.lower_k, Top.upper_k>> THEN objective(Current, context.objective)
                ELSE cuts[r]]
  /\ attempt' = <<>>

ExtractPart1 ==
  /\ phase = "extract"
  /\ Extract(1, "part1_extracted", Top.lower_k + Below(Top), Top.upper_k)
  /\ cuts' = [r \in DOMAIN cuts \cup {<<Top.lower_k, Top.upper_k>>} |->
                IF r = <<Top.lower_k, Top.upper_k>> THEN objective(Current, context.objective)
                ELSE cuts[r]]
  /\ attempt' = <<>>

ExtractPart0 ==
  /\ AtState("part1_extracted")
  /\ Extract(0, "finished", Top.lower_k, Top.lower_k + Below(Top) - 1)
  /\ UNCHANGED <<attempt, cuts>>

originalHypernode(n) ==
  FoldRight(LAMBDA mapping, node : mapping[node + 1], mapping_stack, n)

(* One block is left: its nodes get their number in the whole.             *)
Leaf ==
  /\ phase = "loop" /\ stack # <<>> /\ Top.lower_k = Top.upper_k
  /\ LET moved == {originalHypernode(n) : n \in Current.nodes}
     IN free' = [free EXCEPT !.part = [n \in free.nodes |-> IF n \in moved THEN Top.lower_k ELSE @[n]]]
  /\ stack' = Front(stack) /\ mapping_stack' = Front(mapping_stack)
  /\ UNCHANGED <<context, input, phase, graph, u, v, residual, coarse, input_to_coarse,
                 free_to_input, attempt, cuts>>

(* input_hypergraph: it is another one than free, and not partitioned yet, *)
(* if there are fixed vertices.                                            *)
InputHypergraph == IF containsFixedVertices(input) THEN input ELSE free

Finish ==
  /\ AtState("finished")
  /\ LET late == context.late /\ Width(Top) > 2
         level == IF late THEN increaseBalancingRestrictions(Top.level, context.heuristic)
                  ELSE Top.level
         balanced == \A i \in Top.lower_k .. Top.upper_k :
                       partWeight(InputHypergraph, i) <= context.max_part_weights[i]
     IN IF late /\ ~balanced /\ Top.is_feasible /\ level # "STOP"
        THEN LET none == [n \in Current.nodes |-> kUnassigned]
                 again == [Top EXCEPT !.state = "unpartitioned", !.level = level]
             IN IF Len(stack) = 1
                THEN /\ free' = [free EXCEPT !.part = none]
                     /\ stack' = <<again>> /\ UNCHANGED mapping_stack
                ELSE /\ stack' = WithTop([again EXCEPT !.hypergraph.part = none])
                     /\ UNCHANGED <<free, mapping_stack>>
        ELSE /\ stack' = Front(stack)
             /\ mapping_stack' = IF mapping_stack = <<>> THEN <<>> ELSE Front(mapping_stack)
             /\ UNCHANGED free
  /\ UNCHANGED <<context, input, phase, graph, u, v, residual, coarse, input_to_coarse,
                 free_to_input, attempt, cuts>>

(* The free nodes go back to the input hypergraph.                         *)
EndOfBisection ==
  /\ phase = "loop" /\ stack = <<>>
  /\ IF containsFixedVertices(input)
     THEN /\ input' = [input EXCEPT !.part =
                         [n \in input.nodes |->
                            IF isFixed(input, n) THEN kUnassigned
                            ELSE free.part[(CHOOSE i \in DOMAIN free_to_input : free_to_input[i] = n) - 1]]]
          /\ phase' = "fixed"
     ELSE input' = free /\ phase' = "permuted"
  /\ UNCHANGED <<context, graph, u, v, residual, bisection_vars>>

(* Apply the partition to the original hypergraph.                         *)
ApplyToCoarse ==
  /\ phase = "permuted"
  /\ coarse' = [coarse EXCEPT !.part =
                  [n \in DOMAIN coarse.part |->
                     IF n \in coarse.nodes
                     THEN input.part[(CHOOSE i \in DOMAIN input_to_coarse : input_to_coarse[i] = n) - 1]
                     ELSE @[n]]]
  /\ phase' = "done"
  /\ UNCHANGED <<context, input, graph, u, v, residual, input_to_coarse, free, free_to_input, stack,
                 mapping_stack, attempt, cuts>>

BisectionNext ==
  \/ OneBlock \/ Start \/ BisectOnce \/ BeginRepeated \/ Attempt
  \/ ExtractPart1 \/ ExtractPart0 \/ Leaf \/ Finish \/ EndOfBisection
  \/ FixedNext /\ UNCHANGED bisection_vars
  \/ ApplyToCoarse

-----------------------------------------------------------------------------
(* The objective of the partition is what the bisections cost together:    *)
(* nets are split, or dropped, so that each level pays for its own cut.    *)
ObjectivesAddUp ==
  (phase \in {"loop", "permuted", "done"} /\ stack = <<>> /\ free # <<>>) =>
    objective(free, context.objective)
      = MapThenSumSet(LAMBDA r : cuts[r], DOMAIN cuts)

(* The leaves below part 1 have left part 0 of each bisection on the stack *)
(* alone until it is extracted.                                            *)
Part0IsIntact ==
  phase = "loop" =>
    \A i \in DOMAIN stack : stack[i].state = "part1_extracted" =>
      stack[i].bisection = {n \in HypergraphOf(i).nodes : HypergraphOf(i).part[n] = 0}

(* Every extracted hypergraph has its mapping, into the one below it.      *)
MappingsMatch ==
  stack # <<>> =>
    /\ Len(mapping_stack) = Len(stack) - 1
    /\ \A i \in DOMAIN mapping_stack :
         LET below == HypergraphOf(i)
             above == HypergraphOf(i + 1)
         IN /\ above.nodes = 0 .. Len(mapping_stack[i]) - 1
            /\ IsInjective(mapping_stack[i]) /\ ToSet(mapping_stack[i]) \subseteq below.nodes
            /\ \A n \in above.nodes : above.weight[n] = below.weight[mapping_stack[i][n + 1]]

(* With the guaranteed prepacking, every bisection within its weights can  *)
(* be divided into blocks within theirs (BalancingLevel::guaranteed).      *)
PrepackingIsSafe ==
  (phase \in {"attempt", "extract"} /\ attempt # <<>> /\ attempt.used = "guaranteed"
     /\ Top.is_feasible) =>
    LET ctx == createCurrentBisectionContext(Current, Width(Top))
    IN (\A i \in 0 .. 1 : partWeight(Current, i) <= ctx.max_part_weights[i]) =>
         partitionIsDeeplyBalanced(context.bp_algo, Current, ctx.num_bins_per_part, MaxBinWeight)

(* A side of a deeply balanced bisection can be packed into the blocks it  *)
(* is then divided into.                                                   *)
DeepBalanceIsKept ==
  (phase = "loop" /\ Len(stack) > 1 /\ Top.state = "unpartitioned" /\ Top.level = "none") =>
    LET below == stack[Len(stack) - 1]
        side == IF below.state = "part1_extracted" THEN 1 ELSE 0
    IN PartFits(context.bp_algo, HypergraphOf(Len(stack) - 1), side, BinsPerPart(Width(below))[side],
                MaxBinWeight)
         => currentBinImbalance(context.bp_algo, Current, MaxBinWeight, Width(Top)) = 0

(* The coarse hypergraph has got the partition, block by block.            *)
PartitionIsApplied ==
  phase = "done" =>
    /\ objective(coarse, context.objective) = objective(input, context.objective)
    /\ \A n \in coarse.nodes : coarse.part[n] \in Blocks
                                 /\ (isFixed(coarse, n) => coarse.part[n] = coarse.fixed[n])
=============================================================================
