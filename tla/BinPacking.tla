----------------------------- MODULE BinPacking -----------------------------
(***************************************************************************)
(* KaHyPar's bin packing (partition/bin_packing): nodes go into bins, one  *)
(* per block of the final partition, and the bins go into the two sides of *)
(* a bisection.  A packer is a record: the weight of each bin, the locked  *)
(* bins, and max_bin_weight, which only first fit looks at.                *)
(*                                                                         *)
(* Individual part weights are not modelled (HyperMR does not set them).   *)
(***************************************************************************)
EXTENDS Subhypergraph

NewPacker(num_bins, max) ==
  [max |-> max, weight |-> [b \in 0 .. num_bins - 1 |-> 0], locked |-> {}]
addWeight(p, bin, w) == [p EXCEPT !.weight[bin] = @ + w]
lockBin(p, bin) == [p EXCEPT !.locked = @ \cup {bin}]
OpenBins(p) == DOMAIN p.weight \ p.locked

LightestBins(p) == {b \in OpenBins(p) : \A c \in OpenBins(p) : p.weight[b] <= p.weight[c]}

(* Where insertElement may put weight w: the top of a heap is any of the   *)
(* lightest; first fit falls back to the first of them.                    *)
WorstFit(p, w) == LightestBins(p)
FirstFit(p, w) ==
  LET fitting == {b \in OpenBins(p) : p.weight[b] + w <= p.max}
  IN {Min(IF fitting # {} THEN fitting ELSE LightestBins(p))}
Bins(algorithm, p, w) == IF algorithm = "worst_fit" THEN WorstFit(p, w) ELSE FirstFit(p, w)

(* One of them; which of the lightest does not change the weights.         *)
InsertOne(algorithm, p, w) == addWeight(p, Min(Bins(algorithm, p, w)), w)
PackWeights(algorithm, p, weights) ==
  FoldLeft(LAMBDA q, w : InsertOne(algorithm, q, w), p, weights)

(* std::sort leaves open which of equal elements comes first; here it is   *)
(* the smaller one, which changes no weight.                               *)
Descending(S, weight) ==
  SetToSortSeq(S, LAMBDA u, v : weight[u] > weight[v] \/ (weight[u] = weight[v] /\ u < v))
nodesInDescendingWeightOrder(hg) == Descending(hg.nodes, hg.weight)
WeightsOf(hg, nodes) == [i \in DOMAIN nodes |-> hg.weight[nodes[i]]]

CeilDiv(a, b) == (a + b - 1) \div b
SumTo(weights, n) == FoldLeft(+, 0, SubSeq(weights, 1, n))

-----------------------------------------------------------------------------
(* The second level.  A mapping takes bins to parts, unmapped ones to -1.  *)

NoMapping(num_bins) == [b \in 0 .. num_bins - 1 |-> kUnassigned]

(* All results of packing the bins that are not fixed, heaviest first,     *)
(* into parts that take num_bins of them.  As in the code, bins that are   *)
(* fixed to a part do not count towards its num_bins.                      *)
applySecondLevel(algorithm, p, mapping, upper, num_bins) ==
  LET parts == DOMAIN upper
      max_part_weight == Max({upper[i] : i \in parts})
      fixed(i) == {b \in DOMAIN mapping : mapping[b] = i}
      start == [packer |->
                  [max |-> max_part_weight, locked |-> {},
                   weight |-> [i \in parts |-> max_part_weight - upper[i]
                                 + MapThenSumSet(LAMBDA b : p.weight[b], fixed(i))]],
                count |-> [i \in parts |-> 0],
                mapping |-> mapping]
      open == {b \in DOMAIN mapping : mapping[b] = kUnassigned}
      insert(s, b, i) ==
        LET added == addWeight(s.packer, i, p.weight[b])
        IN [packer |-> IF s.count[i] + 1 >= num_bins[i] THEN lockBin(added, i) ELSE added,
            count |-> [s.count EXCEPT ![i] = @ + 1],
            mapping |-> [c \in DOMAIN mapping |-> IF c = b THEN i ELSE s.mapping[c]]]
      order == Descending(open, p.weight)
      packed[n \in 0 .. Len(order)] ==
        IF n = 0 THEN {start}
        ELSE UNION {{insert(s, order[n], i) : i \in Bins(algorithm, s.packer, p.weight[order[n]])} :
                    s \in packed[n - 1]}
  IN {[mapping |-> s.mapping,
       weight |-> [i \in parts |-> s.packer.weight[i] + upper[i] - max_part_weight]] :
        s \in packed[Len(order)]}

(* The bins in their order: the first num_bins[0] are of part 0, and so on.*)
secondLevelWithFixedBins(p, num_bins) ==
  LET mapping == [b \in DOMAIN p.weight |-> IF b < num_bins[0] THEN 0 ELSE 1]
  IN [mapping |-> mapping,
      weight |-> [i \in DOMAIN num_bins |->
                    MapThenSumSet(LAMBDA b : p.weight[b],
                                  {b \in DOMAIN mapping : mapping[b] = i})]]

-----------------------------------------------------------------------------
(* What a hypergraph and a partition of it need.                           *)

currentBinImbalance(algorithm, hg, bin_weight, num_bins) ==
  LET p == PackWeights(algorithm, NewPacker(num_bins, bin_weight),
                       WeightsOf(hg, nodesInDescendingWeightOrder(hg)))
  IN Max({p.weight[b] - bin_weight : b \in DOMAIN p.weight} \cup {0})

(* The part, packed for itself, fits into its bins.                        *)
PartFits(algorithm, hg, i, num_bins, bin_weight) ==
  LET inside == {u \in hg.nodes : hg.part[u] = i}
      p == PackWeights(algorithm, NewPacker(num_bins, bin_weight),
                       WeightsOf(hg, Descending(inside, hg.weight)))
  IN \A b \in DOMAIN p.weight : p.weight[b] <= bin_weight

partitionIsDeeplyBalanced(algorithm, hg, num_bins, bin_weight) ==
  \A i \in DOMAIN num_bins : PartFits(algorithm, hg, i, num_bins[i], bin_weight)

-----------------------------------------------------------------------------
(* Prepacking: fix so many of the heaviest nodes that whatever happens to  *)
(* the others, the parts can be divided into their bins.                   *)

(* The part with the least room, without those that are full for good.     *)
getMaxPartIndex(upper, weight, num_bins, next, max_bin_weight) ==
  LET remaining(i) == upper[i] - weight[i]
      allowed(i) == num_bins[i] * max_bin_weight - upper[i]
      relevant == {i \in DOMAIN upper :
                     ~(next > remaining(i) /\ (num_bins[i] - 1) * remaining(i) <= allowed(i))}
  IN IF relevant = {} THEN 0
     ELSE Min({i \in relevant : \A j \in relevant : remaining(i) <= remaining(j)})

(* seg_tree.query(i, j - 1): the largest max_k * w_t + sum of the weights  *)
(* before t, for i <= t < j.                                               *)
BalanceQuery(weights, max_k, i, j) ==
  Max({max_k * weights[t] + SumTo(weights, t - 1) : t \in i .. j - 1})

(* Mutant: the bound is not checked once something has been packed.        *)
StopEarly(weights, i, result, upper, num_bins, max_bin_weight) == i > 1

(* Are the first i - 1 nodes enough?  weights ends with a zero.            *)
Suffices(weights, i, result, upper, num_bins, max_bin_weight) ==
  LET part == getMaxPartIndex(upper, result.weight, num_bins, weights[i], max_bin_weight)
      before == SumTo(weights, i - 1)
      searched == before + upper[part] - result.weight[part]
      j == Min({t \in i .. Len(weights) : SumTo(weights, t - 1) >= searched}
                 \cup {Len(weights) + 1})
      max_k == Max({num_bins[p] : p \in DOMAIN num_bins})
  IN /\ j > i
     /\ result.weight[part] + BalanceQuery(weights, max_k, i, j) - before
          <= num_bins[part] * max_bin_weight

(* The parts of the prepacked nodes, a prefix of the nodes in descending   *)
(* order.                                                                  *)
calculateExactPrepacking(algorithm, hg, upper, num_bins, max_bin_weight) ==
  LET start == NewPacker(num_bins[0] + num_bins[1], max_bin_weight)
      weights == Append(WeightsOf(hg, nodesInDescendingWeightOrder(hg)), 0)
      stops(s) == \/ Len(s.bins) + 1 = Len(weights)
                  \/ Suffices(weights, Len(s.bins) + 1, s.result, upper, num_bins, max_bin_weight)
      packs(s, bin, w) ==
        LET q == addWeight(s.packer, bin, w)
        IN {[packer |-> q, bins |-> Append(s.bins, bin), result |-> r] :
              r \in applySecondLevel(algorithm, q, NoMapping(num_bins[0] + num_bins[1]),
                                     upper, num_bins)}
      next(s) == packs(s, Min(Bins(algorithm, s.packer, weights[Len(s.bins) + 1])),
                       weights[Len(s.bins) + 1])
      round[t \in 0 .. Len(weights)] ==
        IF t = 0 THEN {[packer |-> start, bins |-> <<>>,
                        result |-> secondLevelWithFixedBins(start, num_bins)]}
        ELSE UNION {IF stops(s) THEN {s} ELSE next(s) : s \in round[t - 1]}
  IN {[t \in DOMAIN s.bins |-> s.result.mapping[s.bins[t]]] : s \in round[Len(weights)]}

(* All nodes up to the lightest one that outweighs the mean of what        *)
(* follows it by more than the imbalance allowed.                          *)
calculateHeuristicPrepacking(algorithm, hg, upper, num_bins, max_bin_weight, current_max_bin) ==
  LET weights == WeightsOf(hg, nodesInDescendingWeightOrder(hg))
      range_k == num_bins[0] + num_bins[1]
      n == Len(weights)
      imbalance(i) == weights[i] - (SumTo(weights, n) - SumTo(weights, i - 1)) \div range_k
      threshold == Max({i \in 1 .. n : imbalance(i) > max_bin_weight - current_max_bin} \cup {0})
      put(s, w) == LET bin == Min(Bins(algorithm, s.packer, w))
                   IN [packer |-> addWeight(s.packer, bin, w), bins |-> Append(s.bins, bin)]
      packed[t \in 0 .. threshold] ==
        IF t = 0 THEN [packer |-> NewPacker(range_k, max_bin_weight), bins |-> <<>>]
        ELSE put(packed[t - 1], weights[t])
      heavy == packed[threshold]
  IN {[t \in DOMAIN heavy.bins |-> r.mapping[heavy.bins[t]]] :
        r \in applySecondLevel(algorithm, heavy.packer, NoMapping(range_k), upper, num_bins)}

(* The allowed weight, halfway back to the perfect one when it is close to *)
(* what the bins can take.                                                 *)
Border(lower, allowed, upper) ==
  IF upper - allowed < (allowed - lower) \div 10 THEN (lower + upper) \div 2 ELSE allowed

prepacking(algorithm, hg, ctx, level) ==
  CASE level = "none" -> {<<>>}
    [] level = "heuristic" ->
         calculateHeuristicPrepacking(algorithm, hg, ctx.max_part_weights, ctx.num_bins_per_part,
                                      ctx.max_allowed_bin_weight, ctx.current_max_bin_weight)
    [] level = "guaranteed" ->
         calculateExactPrepacking(algorithm, hg,
           [i \in 0 .. 1 |-> Border(ctx.perfect_balance_part_weights[i], ctx.max_part_weights[i],
                                    ctx.num_bins_per_part[i] * ctx.max_allowed_bin_weight)],
           ctx.num_bins_per_part, ctx.max_allowed_bin_weight)

increaseBalancingRestrictions(previous, use_heuristic_prepacking) ==
  CASE previous = "none" -> IF use_heuristic_prepacking THEN "heuristic" ELSE "guaranteed"
    [] previous = "heuristic" -> "guaranteed"
    [] previous = "guaranteed" -> "STOP"

-----------------------------------------------------------------------------
(* The initial partitioner.  Fixed vertices go first, by first fit into    *)
(* the bins of their block; the others in the order of nodes.              *)

PreassignFixed(hg, nodes, p, range_k) ==
  LET average == CeilDiv(totalWeight(hg), range_k)
      bins_per_part == CeilDiv(range_k, 2)
      own(part) == part * bins_per_part .. Min({(part + 1) * bins_per_part, range_k}) - 1
      choose(q, part, w) ==
        LET fitting == {b \in own(part) : q.weight[b] + w <= average}
        IN Min(IF fitting # {} THEN fitting
               ELSE {b \in own(part) : \A c \in own(part) : q.weight[b] <= q.weight[c]})
      put(s, u) ==
        LET bin == choose(s.packer, hg.fixed[u], hg.weight[u])
        IN [packer |-> addWeight(s.packer, bin, hg.weight[u]),
            mapping |-> [s.mapping EXCEPT ![bin] = hg.fixed[u]],
            bin |-> [s.bin EXCEPT ![u] = bin]]
  IN FoldLeft(put, [packer |-> p, mapping |-> NoMapping(range_k),
                    bin |-> [u \in hg.nodes |-> kUnassigned]],
              SelectSeq(nodes, LAMBDA u : isFixed(hg, u)))

(* The parts of all nodes.                                                 *)
twoLevelPacking(algorithm, hg, nodes, upper, num_bins, bin_weight) ==
  LET range_k == num_bins[0] + num_bins[1]
      start == PreassignFixed(hg, nodes, NewPacker(range_k, bin_weight), range_k)
      put(s, u, bin) == [s EXCEPT !.packer = addWeight(@, bin, hg.weight[u]), !.bin[u] = bin]
      order == SelectSeq(nodes, LAMBDA u : ~isFixed(hg, u))
      packed[n \in 0 .. Len(order)] ==
        IF n = 0 THEN {start}
        ELSE UNION {{put(s, order[n], bin) : bin \in Bins(algorithm, s.packer, hg.weight[order[n]])} :
                    s \in packed[n - 1]}
  IN UNION {{[u \in hg.nodes |-> r.mapping[s.bin[u]]] :
               r \in applySecondLevel(algorithm, s.packer, s.mapping, upper, num_bins)} :
            s \in packed[Len(order)]}
=============================================================================
