------------------------------ MODULE IdBlocks ------------------------------
(***************************************************************************)
(* Partitions of the ids 0 .. n-1 into k blocks, as HyperMR.cpp gets them  *)
(* from the partitioner, and the order of the ids that results when the    *)
(* blocks are written one after the other.                                 *)
(***************************************************************************)
EXTENDS Integers, FiniteSets

Contiguous(n, unit) ==
  [b \in 0 .. (n \div unit) - 1 |-> b * unit .. (b + 1) * unit - 1]

(* Mutant: a block may be one vertex too heavy (a positive imbalance).      *)
LoosePartitions(n, k) ==
  {f \in [0 .. n - 1 -> 0 .. k - 1] :
     \A b \in 0 .. k - 1 :
       Cardinality({v \in 0 .. n - 1 : f[v] = b}) <= (n + k - 1) \div k + 1}

(* The contract of kahypar_partition with imbalance 0: every vertex gets a   *)
(* block in 0 .. k-1, and no block is heavier than n/k rounded up.          *)
Partitions(n, k) ==
  {f \in [0 .. n - 1 -> 0 .. k - 1] :
     \A b \in 0 .. k - 1 :
       Cardinality({v \in 0 .. n - 1 : f[v] = b}) <= (n + k - 1) \div k}

(* Vertices are pushed in increasing order, so a block is a set of ids.     *)
Blocks(partition, n, k) ==
  [b \in 0 .. k - 1 |-> {v \in 0 .. n - 1 : partition[v] = b}]

BlockPartitions(n, k) == {Blocks(f, n, k) : f \in Partitions(n, k)}

Items(blocks) == UNION {blocks[b] : b \in DOMAIN blocks}

(* Mutant: the blocks are forgotten and the ids stay in increasing order.   *)
PrecedesById(blocks, v, w) == v < w

(* v is pushed before w when the blocks are written one after the other.    *)
Precedes(blocks, v, w) ==
  \E b, c \in DOMAIN blocks :
    v \in blocks[b] /\ w \in blocks[c] /\ (b < c \/ (b = c /\ v < w))

Rank(blocks, v) == Cardinality({w \in Items(blocks) : Precedes(blocks, w, v)})

(* The order that results: the id of rank i-1 at place i.                   *)
Flatten(blocks) ==
  [i \in 1 .. Cardinality(Items(blocks)) |->
     CHOOSE v \in Items(blocks) : Rank(blocks, v) = i - 1]

(* Each id in exactly one block, and every block as large as its unit.      *)
ExactBlocks(blocks, n, unit) ==
  /\ \A v \in 0 .. n - 1 : \E b \in DOMAIN blocks : v \in blocks[b]
  /\ \A b, c \in DOMAIN blocks : b # c => blocks[b] \cap blocks[c] = {}
  /\ \A b \in DOMAIN blocks : Cardinality(blocks[b]) = unit

=============================================================================
