--------------------------- MODULE TwoPhaseProofs ---------------------------
(***************************************************************************)
(* What IdBlocks computes, for every number of blocks k and every unit u:  *)
(* a balanced partition of k * u ids fills its blocks exactly, and         *)
(* flattening it is a permutation that puts block b on places b*u up to    *)
(* (b+1)*u - 1.  From it the invariants of TwoPhasePartitioning, and that  *)
(* it implements Reordering, for all dimensions, matrices and workloads.   *)
(***************************************************************************)
EXTENDS TwoPhasePartitioning, SumsProofs

(* What the partitioner's contract says of the blocks, over n = k * u ids:  *)
(* it bounds the size of a block from above only.                           *)
BalancedBlocks(P, n, k, u) ==
  /\ P \in [0 .. k - 1 -> SUBSET (0 .. n - 1)]
  /\ \A v \in 0 .. n - 1 : \E b \in 0 .. k - 1 : v \in P[b]
  /\ \A b, c \in 0 .. k - 1 : b # c => P[b] \cap P[c] = {}
  /\ \A b \in 0 .. k - 1 : Cardinality(P[b]) <= u

(* The block of an id, how many ids of the block are before it, and the     *)
(* place that gives it if every block before its own is full.               *)
BlockOf(P, v) == CHOOSE b \in DOMAIN P : v \in P[b]
Inner(P, v) == Cardinality({w \in P[BlockOf(P, v)] : w < v})
Slot(P, u, v) == BlockOf(P, v) * u + Inner(P, v)

-----------------------------------------------------------------------------
(* Places b*u + i are counted block by block.                               *)
LEMMA SlotArithmetic ==
  ASSUME NEW k \in Nat, NEW u \in Nat \ {0},
         NEW b \in 0 .. k - 1, NEW c \in 0 .. k - 1,
         NEW i \in 0 .. u - 1, NEW j \in 0 .. u - 1
  PROVE  /\ b * u + i \in 0 .. k * u - 1
         /\ (b * u + i) \div u = b
         /\ b < c => b * u + i < c * u + j
         /\ b * u + i = c * u + j => b = c /\ i = j
<1>1. ASSUME NEW x \in 0 .. k - 1, NEW y \in Nat, x < y, NEW h \in 0 .. u - 1
      PROVE  x * u + h < y * u
  <2>1. PICK d \in Nat : y = x + 1 + d
    <3>1. y - x - 1 \in Nat /\ y = x + 1 + (y - x - 1)
      BY <1>1
    <3> QED
      BY <3>1
  <2>2. y * u = x * u + u + d * u /\ d * u >= 0 /\ x * u \in Nat
    BY <1>1, <2>1
  <2> QED
    BY <1>1, <2>2
<1>2. b * u \in Nat /\ c * u \in Nat
  OBVIOUS
<1>3. b * u + i < k * u
  BY <1>1
<1>4. b < c => b * u + i < c * u
  BY <1>1
<1>5. c < b => c * u + j < b * u
  BY <1>1
<1>6. (b * u + i) \div u = b
  OBVIOUS
<1> QED
  BY <1>2, <1>3, <1>4, <1>5, <1>6

(* In a finite set of integers, fewer elements are below a smaller element, *)
(* and those below an element are fewer than all.                           *)
LEMMA CountBelow ==
  ASSUME NEW W \in SUBSET Int, IsFiniteSet(W), NEW v \in W
  PROVE  /\ Cardinality({x \in W : x < v}) \in Nat
         /\ Cardinality({x \in W : x < v}) < Cardinality(W)
         /\ \A w \in W : v < w => Cardinality({x \in W : x < v})
                                    < Cardinality({x \in W : x < w})
<1> DEFINE Below(w) == {x \in W : x < w}
<1>1. IsFiniteSet(Below(v)) /\ Cardinality(Below(v)) \in Nat
  BY FS_Subset, FS_CardinalityType
<1>2. Cardinality(W) \in Nat
  BY FS_CardinalityType
<1>3. Cardinality(Below(v)) < Cardinality(W)
  <2>1. Cardinality(Below(v)) <= Cardinality(W)
    BY FS_Subset
  <2>2. Cardinality(Below(v)) # Cardinality(W)
    <3>1. Below(v) # W
      OBVIOUS
    <3> QED
      BY <3>1, FS_Subset
  <2> QED
    BY <1>1, <1>2, <2>1, <2>2
<1>4. ASSUME NEW w \in W, v < w
      PROVE  Cardinality(Below(v)) < Cardinality(Below(w))
  <2>1. IsFiniteSet(Below(w)) /\ Cardinality(Below(w)) \in Nat
    BY FS_Subset, FS_CardinalityType
  <2>2. Below(v) \in SUBSET Below(w) /\ v \in Below(w) /\ v \notin Below(v)
    <3>1. \A x \in W : x < v => x < w
      <4> SUFFICES ASSUME NEW x \in W, x < v PROVE x < w
        OBVIOUS
      <4>1. x \in Int /\ v \in Int /\ w \in Int
        OBVIOUS
      <4> QED
        BY <1>4, <4>1
    <3>2. v \in Int /\ v < w
      BY <1>4
    <3>3. ~ (v < v)
      BY <3>2
    <3> QED
      BY <3>1, <3>2, <3>3
  <2> HIDE DEF Below
  <2>3. Cardinality(Below(v)) <= Cardinality(Below(w))
    BY <2>1, <2>2, FS_Subset
  <2>4. Cardinality(Below(v)) # Cardinality(Below(w))
    BY <2>1, <2>2, FS_Subset
  <2> QED
    BY <1>1, <2>1, <2>3, <2>4
<1> QED
  BY <1>1, <1>3, <1>4

(* There are n ids from 0 up to n-1.                                        *)
LEMMA CountIds ==
  ASSUME NEW n \in Nat
  PROVE  IsFiniteSet(0 .. n - 1) /\ Cardinality(0 .. n - 1) = n
  BY FS_Interval

-----------------------------------------------------------------------------
(* Balanced blocks are full, and flattening keeps them together.            *)

LEMMA BlockOfIs ==
  ASSUME NEW n \in Nat, NEW k \in Nat, NEW u \in Nat \ {0}, NEW P,
         BalancedBlocks(P, n, k, u), NEW v \in 0 .. n - 1
  PROVE  /\ BlockOf(P, v) \in 0 .. k - 1
         /\ v \in P[BlockOf(P, v)]
         /\ \A b \in 0 .. k - 1 : v \in P[b] => b = BlockOf(P, v)
<1>1. DOMAIN P = 0 .. k - 1
  BY DEF BalancedBlocks
<1>2. \E b \in DOMAIN P : v \in P[b]
  BY <1>1 DEF BalancedBlocks
<1>3. BlockOf(P, v) \in DOMAIN P /\ v \in P[BlockOf(P, v)]
  BY <1>2 DEF BlockOf
<1> QED
  BY <1>1, <1>3 DEF BalancedBlocks

LEMMA BlocksFinite ==
  ASSUME NEW n \in Nat, NEW k \in Nat, NEW u \in Nat \ {0}, NEW P,
         BalancedBlocks(P, n, k, u), NEW b \in 0 .. k - 1
  PROVE  /\ P[b] \in SUBSET Int
         /\ IsFiniteSet(P[b])
         /\ Cardinality(P[b]) \in Nat
         /\ Cardinality(P[b]) <= u
<1>1. P[b] \in SUBSET (0 .. n - 1)
  BY DEF BalancedBlocks
<1>2. IsFiniteSet(0 .. n - 1)
  BY FS_Interval
<1>3. IsFiniteSet(P[b])
  BY <1>1, <1>2, FS_Subset
<1> QED
  BY <1>1, <1>3, FS_CardinalityType DEF BalancedBlocks

LEMMA InnerIs ==
  ASSUME NEW n \in Nat, NEW k \in Nat, NEW u \in Nat \ {0}, NEW P,
         BalancedBlocks(P, n, k, u), NEW v \in 0 .. n - 1
  PROVE  /\ Inner(P, v) \in 0 .. u - 1
         /\ \A w \in P[BlockOf(P, v)] :
              /\ w \in 0 .. n - 1 /\ BlockOf(P, w) = BlockOf(P, v)
              /\ v < w => Inner(P, v) < Inner(P, w)
<1> DEFINE W == P[BlockOf(P, v)]
<1>1. BlockOf(P, v) \in 0 .. k - 1 /\ v \in W
  BY BlockOfIs
<1>2. W \in SUBSET Int /\ IsFiniteSet(W) /\ Cardinality(W) \in Nat /\ Cardinality(W) <= u
  BY <1>1, BlocksFinite
<1>3. Inner(P, v) = Cardinality({x \in W : x < v})
  BY DEF Inner
<1>4. \A w \in W : w \in 0 .. n - 1
  BY <1>1 DEF BalancedBlocks
<1>5. \A w \in W : BlockOf(P, w) = BlockOf(P, v)
  BY <1>1, <1>4, BlockOfIs
<1>6. \A w \in W : Inner(P, w) = Cardinality({x \in W : x < w})
  BY <1>5 DEF Inner
<1> HIDE DEF W
<1>7. /\ Cardinality({x \in W : x < v}) \in Nat
      /\ Cardinality({x \in W : x < v}) < Cardinality(W)
      /\ \A w \in W : v < w => Cardinality({x \in W : x < v})
                                 < Cardinality({x \in W : x < w})
  BY <1>1, <1>2, CountBelow
<1>8. Inner(P, v) \in 0 .. u - 1
  BY <1>2, <1>3, <1>7
<1>9. \A w \in W : v < w => Inner(P, v) < Inner(P, w)
  BY <1>3, <1>6, <1>7
<1> QED
  BY <1>4, <1>5, <1>8, <1>9 DEF W

(* Slots are counted block by block.                                        *)
LEMMA SlotIs ==
  ASSUME NEW n \in Nat, NEW k \in Nat, NEW u \in Nat \ {0}, n = k * u,
         NEW P, BalancedBlocks(P, n, k, u), NEW v \in 0 .. n - 1
  PROVE  /\ Slot(P, u, v) \in 0 .. n - 1
         /\ Slot(P, u, v) \div u = BlockOf(P, v)
         /\ \A b \in 0 .. k - 1, i \in 0 .. u - 1 :
              /\ BlockOf(P, v) < b => Slot(P, u, v) < b * u + i
              /\ b < BlockOf(P, v) => b * u + i < Slot(P, u, v)
              /\ Slot(P, u, v) = b * u + i => BlockOf(P, v) = b /\ Inner(P, v) = i
<1> DEFINE c == BlockOf(P, v)
           j == Inner(P, v)
<1>1. c \in 0 .. k - 1 /\ j \in 0 .. u - 1
  BY BlockOfIs, InnerIs
<1>2. Slot(P, u, v) = c * u + j
  BY DEF Slot
<1> HIDE DEF c, j
<1>3. c * u + j \in 0 .. k * u - 1 /\ (c * u + j) \div u = c
  BY <1>1, SlotArithmetic
<1>4. ASSUME NEW b \in 0 .. k - 1, NEW i \in 0 .. u - 1
      PROVE  /\ c < b => c * u + j < b * u + i
             /\ b < c => b * u + i < c * u + j
             /\ c * u + j = b * u + i => c = b /\ j = i
  BY <1>1, SlotArithmetic
<1>5. Slot(P, u, v) \in 0 .. n - 1
  BY <1>2, <1>3
<1> QED
  BY <1>2, <1>3, <1>4, <1>5 DEF c, j

(* No two ids share a slot, and every slot is an id's: the n slots of n ids *)
(* are 0 .. n-1, so no block can be less than full.                         *)
LEMMA SlotsArePlaces ==
  ASSUME NEW n \in Nat, NEW k \in Nat, NEW u \in Nat \ {0}, n = k * u,
         NEW P, BalancedBlocks(P, n, k, u)
  PROVE  /\ \A v \in 0 .. n - 1 : Slot(P, u, v) \in 0 .. n - 1
         /\ \A v, w \in 0 .. n - 1 : Slot(P, u, v) = Slot(P, u, w) => v = w
         /\ \A i \in 0 .. n - 1 : \E v \in 0 .. n - 1 : Slot(P, u, v) = i
<1> DEFINE Ids == 0 .. n - 1
           f == [v \in Ids |-> Slot(P, u, v)]
<1>1. ASSUME NEW v \in Ids PROVE Slot(P, u, v) \in Ids
  BY SlotIs
<1>2. ASSUME NEW v \in Ids, NEW w \in Ids, Slot(P, u, v) = Slot(P, u, w)
      PROVE  v = w
  <2>1. /\ BlockOf(P, v) \in 0 .. k - 1 /\ v \in P[BlockOf(P, v)]
        /\ BlockOf(P, w) \in 0 .. k - 1 /\ w \in P[BlockOf(P, w)]
    BY BlockOfIs
  <2>2. Inner(P, v) \in 0 .. u - 1 /\ Inner(P, w) \in 0 .. u - 1
    BY InnerIs
  <2>3. BlockOf(P, v) = BlockOf(P, w) /\ Inner(P, v) = Inner(P, w)
    <3>1. Slot(P, u, v) = BlockOf(P, w) * u + Inner(P, w)
      BY <1>2 DEF Slot
    <3> QED
      BY <2>1, <2>2, <3>1, SlotIs
  <2>4. v < w => Inner(P, v) < Inner(P, w)
    BY <2>1, <2>3, InnerIs
  <2>5. w < v => Inner(P, w) < Inner(P, v)
    BY <2>1, <2>3, InnerIs
  <2> QED
    BY <2>2, <2>3, <2>4, <2>5
<1>3. f \in Injection(Ids, Ids)
  BY <1>1, <1>2 DEF Injection, IsInjective
<1>4. IsFiniteSet(Ids)
  BY FS_Interval
<1>5. f \in Surjection(Ids, Ids)
  BY <1>3, <1>4, FS_Injection
<1>6. \A i \in Ids : \E v \in Ids : f[v] = i
  BY <1>5 DEF Surjection
<1> QED
  BY <1>1, <1>2, <1>6

(* Balanced blocks over whole units are exact.                              *)
LEMMA BalancedBlocksAreExact ==
  ASSUME NEW n \in Nat, NEW k \in Nat, NEW u \in Nat \ {0}, n = k * u,
         NEW P, BalancedBlocks(P, n, k, u)
  PROVE  ExactBlocks(P, n, u)
<1>1. DOMAIN P = 0 .. k - 1
  BY DEF BalancedBlocks
<1>2. ASSUME NEW b \in 0 .. k - 1 PROVE Cardinality(P[b]) = u
  <2> DEFINE g == [v \in P[b] |-> Inner(P, v)]
  <2>1. P[b] \in SUBSET (0 .. n - 1) /\ \A v \in P[b] : BlockOf(P, v) = b
    BY BlockOfIs DEF BalancedBlocks
  <2>2. ASSUME NEW v \in P[b] PROVE g[v] \in 0 .. u - 1
    BY <2>1, InnerIs
  <2>3. ASSUME NEW i \in 0 .. u - 1 PROVE \E v \in P[b] : g[v] = i
    <3>1. b * u + i \in 0 .. n - 1
      BY SlotArithmetic
    <3>2. PICK v \in 0 .. n - 1 : Slot(P, u, v) = b * u + i
      BY <3>1, SlotsArePlaces
    <3>3. v \in P[BlockOf(P, v)]
      BY BlockOfIs
    <3>4. BlockOf(P, v) \in 0 .. k - 1 /\ Inner(P, v) \in 0 .. u - 1
      BY BlockOfIs, InnerIs
    <3> DEFINE c == BlockOf(P, v)
               j == Inner(P, v)
    <3>5. c * u + j = b * u + i
      BY <3>2 DEF Slot
    <3> HIDE DEF c, j, g
    <3>6. c \in 0 .. k - 1 /\ j \in 0 .. u - 1
      BY <3>4 DEF c, j
    <3>7. c = b /\ j = i
      BY <3>5, <3>6, SlotArithmetic
    <3> QED
      BY <3>3, <3>7 DEF c, g, j
  <2>4. g \in Surjection(P[b], 0 .. u - 1)
    BY <2>2, <2>3 DEF Surjection
  <2>5. /\ IsFiniteSet(P[b]) /\ Cardinality(P[b]) \in Nat
        /\ Cardinality(P[b]) <= u
    BY BlocksFinite
  <2> HIDE DEF g
  <2>6. Cardinality(0 .. u - 1) <= Cardinality(P[b])
    BY <2>4, <2>5, FS_Surjection
  <2>7. Cardinality(0 .. u - 1) = u
    BY FS_Interval
  <2> QED
    BY <2>5, <2>6, <2>7
<1> QED
  BY <1>1, <1>2 DEF ExactBlocks, BalancedBlocks

(* The rank of an id is its slot.                                           *)
LEMMA RankIsSlot ==
  ASSUME NEW n \in Nat, NEW k \in Nat, NEW u \in Nat \ {0}, n = k * u,
         NEW P, BalancedBlocks(P, n, k, u)
  PROVE  /\ Items(P) = 0 .. n - 1
         /\ \A v \in 0 .. n - 1 : Rank(P, v) = Slot(P, u, v)
<1> DEFINE Ids == 0 .. n - 1
<1>1. DOMAIN P = 0 .. k - 1
  BY DEF BalancedBlocks
<1>2. Items(P) = Ids
  BY <1>1 DEF Items, BalancedBlocks
<1>3. ASSUME NEW v \in Ids PROVE Rank(P, v) = Slot(P, u, v)
  <2> DEFINE S == {w \in Ids : Precedes(P, w, v)}
             h == [w \in S |-> Slot(P, u, w)]
             last == Slot(P, u, v)
  <2>1. ASSUME NEW w \in Ids
        PROVE  Precedes(P, w, v) <=> Slot(P, u, w) < Slot(P, u, v)
    <3>1. /\ BlockOf(P, v) \in 0 .. k - 1 /\ v \in P[BlockOf(P, v)]
          /\ BlockOf(P, w) \in 0 .. k - 1 /\ w \in P[BlockOf(P, w)]
          /\ \A b \in 0 .. k - 1 : v \in P[b] => b = BlockOf(P, v)
          /\ \A b \in 0 .. k - 1 : w \in P[b] => b = BlockOf(P, w)
      BY BlockOfIs
    <3>2. Inner(P, v) \in 0 .. u - 1 /\ Inner(P, w) \in 0 .. u - 1
      BY InnerIs
    <3>3. Precedes(P, w, v) <=>
            BlockOf(P, w) < BlockOf(P, v)
              \/ (BlockOf(P, w) = BlockOf(P, v) /\ w < v)
      BY <1>1, <3>1 DEF Precedes
    <3> DEFINE slotV == BlockOf(P, v) * u + Inner(P, v)
               slotW == BlockOf(P, w) * u + Inner(P, w)
    <3>4. Slot(P, u, v) = slotV /\ Slot(P, u, w) = slotW
      BY DEF Slot
    <3>5. CASE BlockOf(P, w) < BlockOf(P, v)
      <4>1. Slot(P, u, w) < slotV
        BY <3>1, <3>2, <3>5, SlotIs
      <4> QED
        BY <3>3, <3>5, <3>4, <4>1
    <3>6. CASE BlockOf(P, v) < BlockOf(P, w)
      <4>1. Slot(P, u, v) < slotW
        BY <3>1, <3>2, <3>6, SlotIs
      <4>2. Slot(P, u, v) \in Int /\ Slot(P, u, w) \in Int
        BY SlotsArePlaces
      <4> QED
        BY <3>1, <3>3, <3>6, <3>4, <4>1, <4>2
    <3>7. CASE BlockOf(P, v) = BlockOf(P, w)
      <4>1. Slot(P, u, w) < Slot(P, u, v) <=> Inner(P, w) < Inner(P, v)
        <5> DEFINE base == BlockOf(P, v) * u
        <5>1. base \in Int
          BY <3>1
        <5>2. Slot(P, u, v) = base + Inner(P, v) /\ Slot(P, u, w) = base + Inner(P, w)
          BY <3>7 DEF Slot
        <5> HIDE DEF base
        <5> QED
          BY <3>2, <5>1, <5>2
      <4>2. w < v => Inner(P, w) < Inner(P, v)
        BY <3>1, <3>7, InnerIs
      <4>3. v < w => Inner(P, v) < Inner(P, w)
        BY <3>1, <3>7, InnerIs
      <4> QED
        BY <3>1, <3>2, <3>3, <3>7, <4>1, <4>2, <4>3
    <3> QED
      BY <3>1, <3>5, <3>6, <3>7
  <2>2. last \in 0 .. n - 1
    BY SlotsArePlaces
  <2>3. ASSUME NEW w \in S PROVE h[w] \in 0 .. last - 1
    <3>1. Slot(P, u, w) \in 0 .. n - 1 /\ Slot(P, u, w) < last
      BY <2>1, SlotsArePlaces
    <3> QED
      BY <2>2, <3>1
  <2>4. ASSUME NEW i \in 0 .. last - 1 PROVE \E w \in S : h[w] = i
    <3>1. i \in 0 .. n - 1 /\ i < last
      BY <2>2
    <3>2. PICK w \in Ids : Slot(P, u, w) = i
      BY <3>1, SlotsArePlaces
    <3>3. w \in S
      BY <2>1, <3>1, <3>2
    <3> QED
      BY <3>2, <3>3
  <2>5. \A w, x \in S : h[w] = h[x] => w = x
    BY SlotsArePlaces
  <2>6. h \in [S -> 0 .. last - 1]
    BY <2>3
  <2>7. h \in Surjection(S, 0 .. last - 1) /\ h \in Injection(S, 0 .. last - 1)
    <3> HIDE DEF h, S
    <3> QED
      BY <2>4, <2>5, <2>6 DEF Surjection, Injection, IsInjective
  <2>8. IsFiniteSet(0 .. last - 1) /\ Cardinality(0 .. last - 1) = last
    BY <2>2, CountIds
  <2>9. IsFiniteSet(S) /\ Cardinality(S) = last
    <3> HIDE DEF h, S, last
    <3> QED
      BY <2>7, <2>8, FS_Injection
  <2> QED
    BY <1>2, <2>9 DEF Rank
<1> QED
  BY <1>2, <1>3

(* Flattening yields an order of the ids, and b's ids stand on unit b.      *)
THEOREM FlattenIsOrder ==
  ASSUME NEW n \in Nat, NEW k \in Nat, NEW u \in Nat \ {0}, n = k * u,
         NEW P, BalancedBlocks(P, n, k, u)
  PROVE  /\ IsOrder(Flatten(P), n)
         /\ \A v \in 0 .. n - 1 : Place(Flatten(P), v) \div u = BlockOf(P, v)
<1> DEFINE Ids == 0 .. n - 1
           F == Flatten(P)
<1>1. Items(P) = Ids /\ Cardinality(Items(P)) = n
  BY RankIsSlot, CountIds
<1>2. \A v \in Ids : Rank(P, v) = Slot(P, u, v)
  BY RankIsSlot
<1>3. F = [i \in 1 .. n |-> CHOOSE v \in Ids : Rank(P, v) = i - 1]
  BY <1>1 DEF Flatten
<1>4. ASSUME NEW i \in 1 .. n PROVE F[i] \in Ids /\ Rank(P, F[i]) = i - 1
  <2>1. i - 1 \in 0 .. n - 1
    OBVIOUS
  <2>2. \E v \in Ids : Rank(P, v) = i - 1
    BY <1>2, <2>1, SlotsArePlaces
  <2>3. F[i] = CHOOSE v \in Ids : Rank(P, v) = i - 1
    BY <1>3
  <2> QED
    BY <2>2, <2>3
<1>5. DOMAIN F = 1 .. n
  BY <1>3
<1>6. F \in [1 .. n -> Ids]
  BY <1>3, <1>4
<1> HIDE DEF F
<1>7. IsOrder(F, n)
  <2>1. ASSUME NEW i \in 1 .. n, NEW j \in 1 .. n, F[i] = F[j] PROVE i = j
    <3>1. i - 1 = j - 1
      BY <1>4, <2>1
    <3> QED
      BY <3>1
  <2> QED
    BY <1>6, <2>1 DEF IsOrder
<1>8. ASSUME NEW v \in Ids PROVE Place(F, v) \div u = BlockOf(P, v)
  <2>1. Rank(P, v) \in 0 .. n - 1
    BY <1>2, SlotsArePlaces
  <2>2. Rank(P, v) + 1 \in 1 .. n
    BY <2>1
  <2>3. F[Rank(P, v) + 1] = v
    <3>1. F[Rank(P, v) + 1] \in Ids /\ Rank(P, F[Rank(P, v) + 1]) = Rank(P, v)
      BY <1>4, <2>1, <2>2
    <3> QED
      BY <1>2, <3>1, SlotsArePlaces
  <2>4. \A i \in DOMAIN F : F[i] = v => i = Rank(P, v) + 1
    BY <1>4, <1>5, <2>1
  <2>5. (CHOOSE i \in DOMAIN F : F[i] = v) = Rank(P, v) + 1
    BY <1>5, <2>2, <2>3, <2>4
  <2>6. Place(F, v) = (Rank(P, v) + 1) - 1
    BY <2>5 DEF Place
  <2>7. Place(F, v) = Slot(P, u, v)
    BY <1>2, <2>1, <2>6
  <2> QED
    BY <2>7, SlotIs
<1> QED
  BY <1>7, <1>8 DEF F

-----------------------------------------------------------------------------
(* The two ways the program gets blocks are balanced.                       *)

LEMMA ContiguousIsBalanced ==
  ASSUME NEW n \in Nat, NEW k \in Nat \ {0}, NEW u \in Nat \ {0},
         n = k * u, n \div u = k
  PROVE  BalancedBlocks(Contiguous(n, u), n, k, u)
<1> DEFINE P == Contiguous(n, u)
<1>1. P = [b \in 0 .. k - 1 |-> b * u .. (b + 1) * u - 1]
  BY DEF Contiguous
<1>2. ASSUME NEW b \in 0 .. k - 1
      PROVE  /\ P[b] = b * u .. (b + 1) * u - 1
             /\ b * u \in Nat /\ (b + 1) * u = b * u + u
  BY <1>1
<1>3. ASSUME NEW b \in 0 .. k - 1, NEW v \in P[b]
      PROVE  v \in 0 .. n - 1 /\ v \div u = b
  <2>1. v - b * u \in 0 .. u - 1
    BY <1>2, <1>3
  <2>2. v = b * u + (v - b * u)
    BY <1>2, <1>3
  <2> QED
    BY <2>1, <2>2, SlotArithmetic
<1>4. ASSUME NEW v \in 0 .. n - 1 PROVE \E b \in 0 .. k - 1 : v \in P[b]
  <2>1. v \div u \in Nat /\ v % u \in 0 .. u - 1 /\ v = (v \div u) * u + (v % u)
    <3>1. v \in Nat
      OBVIOUS
    <3> QED
      BY <3>1, DivMod
  <2> DEFINE q == v \div u
             r == v % u
  <2> HIDE DEF q, r
  <2>2. q \in Nat /\ r \in 0 .. u - 1 /\ v = q * u + r
    BY <2>1 DEF q, r
  <2>3. q \in 0 .. k - 1
    <3>1. SUFFICES ASSUME k <= q PROVE FALSE
      BY <2>2
    <3>2. k * u <= q * u
      BY <2>2, <3>1
    <3> QED
      BY <2>2, <3>2
  <2>4. v \in P[q]
    <3>1. P[q] = q * u .. (q + 1) * u - 1 /\ q * u \in Nat /\ (q + 1) * u = q * u + u
      BY <1>2, <2>3
    <3> HIDE DEF P
    <3> QED
      BY <2>2, <3>1
  <2> QED
    BY <2>3, <2>4
<1>5. ASSUME NEW b \in 0 .. k - 1 PROVE Cardinality(P[b]) <= u
  <2>1. Cardinality(b * u .. b * u + u - 1) = u
    <3> DEFINE l == b * u
    <3>1. l \in Int
      OBVIOUS
    <3> HIDE DEF l
    <3>2. Cardinality(l .. l + u - 1) = u
      BY <3>1, FS_Interval
    <3> QED
      BY <3>2 DEF l
  <2> QED
    BY <1>2, <2>1
<1>6. P \in [0 .. k - 1 -> SUBSET (0 .. n - 1)]
  <2> SUFFICES ASSUME NEW b \in 0 .. k - 1 PROVE P[b] \subseteq 0 .. n - 1
    BY <1>1
  <2> QED
    BY <1>3
<1> HIDE DEF P
<1>7. \A b, c \in 0 .. k - 1 : b # c => P[b] \cap P[c] = {}
  BY <1>3
<1> QED
  BY <1>4, <1>5, <1>6, <1>7 DEF BalancedBlocks, P

LEMMA PartitionsAreBalanced ==
  ASSUME NEW n \in Nat, NEW k \in Nat \ {0}, NEW u \in Nat \ {0}, n = k * u,
         NEW P \in BlockPartitions(n, k)
  PROVE  BalancedBlocks(P, n, k, u)
<1>1. PICK f \in Partitions(n, k) : P = Blocks(f, n, k)
  BY DEF BlockPartitions
<1>2. f \in [0 .. n - 1 -> 0 .. k - 1]
  BY DEF Partitions
<1>3. (n + k - 1) \div k = u
  BY CeilMul
<1>4. \A b \in 0 .. k - 1 : P[b] = {v \in 0 .. n - 1 : f[v] = b}
  BY <1>1 DEF Blocks
<1>5. \A b \in 0 .. k - 1 : Cardinality(P[b]) <= u
  BY <1>3, <1>4 DEF Partitions
<1>6. P \in [0 .. k - 1 -> SUBSET (0 .. n - 1)]
  BY <1>1 DEF Blocks
<1> QED
  BY <1>2, <1>4, <1>5, <1>6 DEF BalancedBlocks

-----------------------------------------------------------------------------
(* The two phases.                                                          *)

(* Padded dimensions are whole units, and hold the matrix.                  *)
LEMMA PaddedDimensions ==
  /\ Rows \in Nat \ {0} /\ row_k \in Nat \ {0} /\ Rows = row_k * UnitRows
  /\ Columns \in Nat \ {0} /\ column_k \in Nat \ {0}
  /\ Columns = column_k * UnitColumns
  /\ MatrixRows <= Rows /\ MatrixColumns <= Columns
  /\ UnitRows \in Nat \ {0} /\ UnitColumns \in Nat \ {0}
<1>1. PICK r, c : r = Rows /\ c = Columns
  OBVIOUS
<1>2. r \in Nat \ {0} /\ r \div UnitRows \in Nat \ {0} /\ r = (r \div UnitRows) * UnitRows /\ MatrixRows <= r
  BY <1>1, PaddedMultiple, DimensionsAssumption DEF Rows, Expanded
<1>3. /\ c \in Nat \ {0} /\ c \div UnitColumns \in Nat \ {0} /\ c = (c \div UnitColumns) * UnitColumns
      /\ MatrixColumns <= c
  BY <1>1, PaddedMultiple, DimensionsAssumption DEF Columns, Expanded
<1> QED
  BY <1>1, <1>2, <1>3, DimensionsAssumption DEF row_k, column_k

RowsBalanced(P) == BalancedBlocks(P, Rows, row_k, UnitRows)
ColumnsBalanced(P) == BalancedBlocks(P, Columns, column_k, UnitColumns)

(* The blocks of the initial contraction, and whatever the partitioner      *)
(* returns later, are balanced.                                             *)
LEMMA ContiguousBlocks ==
  /\ RowsBalanced(Contiguous(Rows, UnitRows))
  /\ ColumnsBalanced(Contiguous(Columns, UnitColumns))
  BY PaddedDimensions, ContiguousIsBalanced
  DEF RowsBalanced, ColumnsBalanced, row_k, column_k

LEMMA PartitionedBlocks ==
  /\ \A P \in BlockPartitions(Rows, row_k) : RowsBalanced(P)
  /\ \A P \in BlockPartitions(Columns, column_k) : ColumnsBalanced(P)
  BY PaddedDimensions, PartitionsAreBalanced DEF RowsBalanced, ColumnsBalanced

LEMMA BalancedTypes ==
  /\ \A P : RowsBalanced(P) => P \in RowBlocks
  /\ \A P : ColumnsBalanced(P) => P \in ColumnBlocks
  BY DEF RowsBalanced, ColumnsBalanced, BalancedBlocks, RowBlocks, ColumnBlocks

(* The nets of a matrix have their pins among its ids.                      *)
LEMMA NetTypes ==
  /\ RowNets(mat) \in [RowIds -> SUBSET ColumnIds]
  /\ ColumnNets(mat) \in [ColumnIds -> SUBSET RowIds]
  BY DEF RowNets, ColumnNets

LEMMA MergedNetTypes ==
  ASSUME NEW nets \in [ColumnIds -> SUBSET RowIds], NEW P \in ColumnBlocks
  PROVE  MergeColumnNets(nets, P) \in [0 .. column_k - 1 -> SUBSET RowIds]
  BY DEF MergeColumnNets, ColumnBlocks

(* The nets generated for a workload.                                       *)
QueryNets(rowHG, ps) ==
  JoinNets(PatternNets(rowHG, ps), UnaccessedNets(rowHG, PatternNets(rowHG, ps)))

LEMMA QueryNetTypes ==
  ASSUME NEW rowHG \in [RowIds -> SUBSET ColumnIds], NEW ps \in Seq(Patterns)
  PROVE  \A k \in DOMAIN QueryNets(rowHG, ps) :
           QueryNets(rowHG, ps)[k] \subseteq ColumnIds
<1> DEFINE p == PatternNets(rowHG, ps)
           u == UnaccessedNets(rowHG, p)
<1>1. ASSUME NEW k \in DOMAIN p PROVE p[k] \subseteq ColumnIds
  <2>1. k[2] \in RowIds /\ p[k] = Accessed(ps[k[1]], rowHG[k[2]])
    BY DEF PatternNets
  <2> QED
    BY <2>1 DEF Accessed
<1>2. ASSUME NEW k \in DOMAIN u PROVE u[k] \subseteq ColumnIds
  BY DEF UnaccessedNets
<1> HIDE DEF p, u
<1> QED
  BY <1>1, <1>2 DEF QueryNets, JoinNets, p, u

-----------------------------------------------------------------------------
(* What the call has established when it is at pc.                          *)
BuiltOK ==
  Built => /\ RowHG = RowNets(mat) /\ ColumnHG = ColumnNets(mat)
           /\ RowsBalanced(row_partitions)
           /\ ColumnsBalanced(column_partitions)
MergedOK == Merged => MergedColumnHG = MergeColumnNets(ColumnHG, column_partitions)
QueriesOK ==
  /\ pc = "generate" => query_aware
  /\ QueryRowNetHG = IF query_aware /\ pc \notin {"idle", "called", "generate"}
                     THEN QueryNets(RowHG, patterns) ELSE <<>>
ImprintsOK ==
  /\ row_imprint = IF pc = "done" THEN Flatten(row_partitions)
                                  ELSE Identity(MatrixRows)
  /\ col_imprint = IF pc = "done" THEN Flatten(column_partitions)
                                  ELSE Identity(MatrixColumns)

(* The inductive invariant: none of the properties below is inductive, as   *)
(* each needs what the earlier phases left in the locals.                   *)
IInv == TypeOK /\ BuiltOK /\ MergedOK /\ QueriesOK /\ ImprintsOK

LEMMA InitIInv == Init => IInv
<1> SUFFICES ASSUME Init PROVE IInv
  OBVIOUS
<1> USE DEF Init
<1>1. mat \subseteq RowIds \X ColumnIds
  BY MatricesAssumption
<1>2. patterns \in Seq(Patterns) /\ pc = "idle"
  OBVIOUS
<1>3. \A k \in DOMAIN QueryRowNetHG : QueryRowNetHG[k] \subseteq ColumnIds
  BY DEF NoLocals
<1>4. ~ Built /\ ~ Merged
  BY <1>2 DEF Built, Merged
<1>5. TypeOK
  BY <1>1, <1>2, <1>3, <1>4 DEF TypeOK, NoLocals
<1> QED
  BY <1>5 DEF IInv, BuiltOK, MergedOK, QueriesOK, ImprintsOK, NoLocals, Built, Merged

LEMMA NextIInv == IInv /\ [Next]_vars => IInv'
<1> SUFFICES ASSUME IInv, [Next]_vars PROVE IInv'
  OBVIOUS
<1> USE DEF IInv, locals, args, imprints
<1>1. ASSUME NEW aware \in BOOLEAN, NEW optimized \in BOOLEAN,
             NEW workload \in Seq(Patterns), Call(aware, optimized, workload)
      PROVE  IInv'
  BY <1>1 DEF Call, TypeOK, BuiltOK, MergedOK, QueriesOK, ImprintsOK,
              NoLocals, Built, Merged
<1>2. CASE BuildHypergraphs
  <2> USE DEF BuildHypergraphs
  <2>1. pc = "called" /\ pc' \in {"generate", "merge", "columns"}
    BY <1>2
  <2>2. BuiltOK'
    BY <1>2, ContiguousBlocks DEF BuiltOK, RowNets, ColumnNets, RowsBalanced,
                                  ColumnsBalanced
  <2>3. QueriesOK' /\ QueryRowNetHG = <<>> /\ MergedColumnHG = <<>>
    BY <1>2, <2>1 DEF QueriesOK, TypeOK, NoLocals, Built
  <2>4. TypeOK'
    BY <1>2, <2>1, <2>3, ContiguousBlocks, BalancedTypes, NetTypes
    DEF TypeOK, Built, Merged
  <2>5. MergedOK' /\ ImprintsOK'
    BY <1>2, <2>1 DEF MergedOK, ImprintsOK, Merged
  <2> QED
    BY <2>2, <2>3, <2>4, <2>5
<1>3. CASE QueryAwareGeneration
  <2> USE DEF QueryAwareGeneration
  <2>1. QueryRowNetHG' = QueryNets(RowHG, patterns)
    BY <1>3 DEF QueryNets
  <2>2. RowHG \in [RowIds -> SUBSET ColumnIds] /\ patterns \in Seq(Patterns)
    BY <1>3 DEF TypeOK, Built
  <2>3. \A k \in DOMAIN QueryRowNetHG' : QueryRowNetHG'[k] \subseteq ColumnIds
    BY <2>1, <2>2, QueryNetTypes
  <2>4. TypeOK'
    BY <1>3, <2>3 DEF TypeOK, Built, Merged
  <2>5. QueriesOK'
    BY <1>3, <2>1 DEF QueriesOK, QueryNets, PatternNets, UnaccessedNets, JoinNets
  <2>6. BuiltOK' /\ MergedOK' /\ ImprintsOK'
    BY <1>3 DEF BuiltOK, MergedOK, ImprintsOK, Built, Merged, RowNets, ColumnNets
  <2> QED
    BY <2>4, <2>5, <2>6
<1>4. CASE PartitionColumns
  <2> USE DEF PartitionColumns
  <2>1. ColumnsBalanced(column_partitions') /\ column_partitions' \in ColumnBlocks
    BY <1>4, PartitionedBlocks, BalancedTypes
  <2>2. TypeOK'
    BY <1>4, <2>1 DEF TypeOK, Built, Merged
  <2>3. BuiltOK'
    BY <1>4, <2>1 DEF BuiltOK, Built, RowNets, ColumnNets
  <2>4. MergedOK' /\ QueriesOK' /\ ImprintsOK'
    BY <1>4 DEF MergedOK, QueriesOK, ImprintsOK, Merged
  <2> QED
    BY <2>2, <2>3, <2>4
<1>5. CASE MergeColumns
  <2> USE DEF MergeColumns
  <2>1. MergeColumnNets(ColumnHG, column_partitions)
          \in [0 .. column_k - 1 -> SUBSET RowIds]
    BY <1>5, MergedNetTypes DEF TypeOK, Built
  <2>2. TypeOK'
    BY <1>5, <2>1 DEF TypeOK, Built, Merged
  <2>3. BuiltOK' /\ MergedOK' /\ QueriesOK' /\ ImprintsOK'
    BY <1>5 DEF BuiltOK, MergedOK, QueriesOK, ImprintsOK, Built, Merged,
                RowNets, ColumnNets
  <2> QED
    BY <2>2, <2>3
<1>6. CASE PartitionRows
  <2> USE DEF PartitionRows
  <2>1. RowsBalanced(row_partitions') /\ row_partitions' \in RowBlocks
    BY <1>6, PartitionedBlocks, BalancedTypes
  <2>2. TypeOK'
    BY <1>6, <2>1 DEF TypeOK, Built, Merged
  <2>3. BuiltOK'
    BY <1>6, <2>1 DEF BuiltOK, Built, RowNets, ColumnNets
  <2>4. MergedOK' /\ QueriesOK' /\ ImprintsOK'
    BY <1>6 DEF MergedOK, QueriesOK, ImprintsOK, Merged
  <2> QED
    BY <2>2, <2>3, <2>4
<1>7. CASE WriteImprints
  <2> USE DEF WriteImprints
  <2>1. TypeOK'
    BY <1>7 DEF TypeOK, Built, Merged
  <2>2. BuiltOK' /\ MergedOK' /\ QueriesOK' /\ ImprintsOK'
    BY <1>7 DEF BuiltOK, MergedOK, QueriesOK, ImprintsOK, Built, Merged,
                RowNets, ColumnNets
  <2> QED
    BY <2>1, <2>2
<1>8. CASE Return
  <2> USE DEF Return
  <2>1. patterns' \in Seq(Patterns) /\ ~ Built' /\ ~ Merged'
    BY <1>8 DEF Built, Merged
  <2>2. \A k \in DOMAIN QueryRowNetHG' : QueryRowNetHG'[k] \subseteq ColumnIds
    BY <1>8
  <2>3. TypeOK'
    BY <1>8, <2>1, <2>2 DEF TypeOK, NoLocals
  <2>4. BuiltOK' /\ MergedOK' /\ QueriesOK' /\ ImprintsOK'
    BY <1>8, <2>1 DEF BuiltOK, MergedOK, QueriesOK, ImprintsOK
  <2> QED
    BY <2>3, <2>4
<1>9. CASE UNCHANGED vars
  BY <1>9 DEF vars, TypeOK, BuiltOK, MergedOK, QueriesOK, ImprintsOK,
              NoLocals, Built, Merged, RowNets, ColumnNets
<1> QED
  <2>1. \A workload \in Workloads : workload \in Seq(Patterns)
    BY WorkloadsAssumption
  <2>2. <<>> \in Seq(Patterns)
    OBVIOUS
  <2>3. CASE \E optimized \in BOOLEAN, workload \in Workloads :
               Call(TRUE, optimized, workload)
    BY <1>1, <2>1, <2>3
  <2>4. CASE \E optimized \in BOOLEAN : Call(FALSE, optimized, <<>>)
    BY <1>1, <2>2, <2>4
  <2> QED
    BY <1>2, <1>3, <1>4, <1>5, <1>6, <1>7, <1>8, <1>9, <2>3, <2>4 DEF Next

LEMMA IInvCorrect == Spec => []IInv
  BY InitIInv, NextIInv, PTL DEF Spec

-----------------------------------------------------------------------------
(* The nets, blocks and arguments of a call are well typed in every state.  *)
THEOREM TypeCorrect == Spec => []TypeOK
<1>1. IInv => TypeOK
  BY DEF IInv
<1> QED
  BY <1>1, IInvCorrect, PTL

LEMMA BalancedAreExact ==
  /\ \A P : RowsBalanced(P) => ExactBlocks(P, Rows, UnitRows)
  /\ \A P : ColumnsBalanced(P) => ExactBlocks(P, Columns, UnitColumns)
  BY PaddedDimensions, BalancedBlocksAreExact DEF RowsBalanced, ColumnsBalanced

(* Whatever balanced partition the partitioner returns, every block fills   *)
(* its storage unit, so the number of ids the call recomputes from block 0  *)
(* is right and block b stands on unit b.                                   *)
THEOREM BlocksFillUnitsCorrect == Spec => []BlocksFillUnits
<1>1. IInv => BlocksFillUnits
  BY BalancedAreExact DEF IInv, BuiltOK, BlocksFillUnits
<1> QED
  BY <1>1, IInvCorrect, PTL

LEMMA MergedNets ==
  ASSUME IInv, Merged
  PROVE  /\ DOMAIN column_partitions = 0 .. column_k - 1
         /\ DOMAIN row_partitions = 0 .. row_k - 1
         /\ \A b \in 0 .. column_k - 1 :
              MergedColumnHG[b] =
                {r \in RowIds : \E c \in column_partitions[b] : <<r, c>> \in mat}
<1>1. Built
  BY DEF Built, Merged
<1>2. ColumnHG = ColumnNets(mat) /\ mat \subseteq RowIds \X ColumnIds
  BY <1>1 DEF IInv, BuiltOK, TypeOK
<1>3. DOMAIN column_partitions = 0 .. column_k - 1
      /\ DOMAIN row_partitions = 0 .. row_k - 1
  BY <1>1 DEF IInv, TypeOK, ColumnBlocks, RowBlocks
<1>4. ASSUME NEW b \in 0 .. column_k - 1
      PROVE  MergedColumnHG[b] =
               {r \in RowIds : \E c \in column_partitions[b] : <<r, c>> \in mat}
  <2>1. MergedColumnHG[b] =
          UNION {ColumnHG[c] : c \in column_partitions[b] \cap ColumnIds}
    BY <1>3 DEF IInv, MergedOK, MergeColumnNets
  <2>2. \A c \in ColumnIds : ColumnHG[c] = {r \in RowIds : <<r, c>> \in mat}
    BY <1>2 DEF ColumnNets
  <2>3. \A r \in RowIds :
          r \in MergedColumnHG[b] <=> \E c \in column_partitions[b] : <<r, c>> \in mat
    <3>1. \A r, c : <<r, c>> \in mat => r \in RowIds /\ c \in ColumnIds
      BY <1>2
    <3> QED
      BY <2>1, <2>2, <3>1
  <2>4. MergedColumnHG[b] \subseteq RowIds
    BY <2>1, <2>2
  <2> QED
    BY <2>3, <2>4
<1> QED
  BY <1>3, <1>4

(* The rows are partitioned by nets that have exactly the rows with a       *)
(* nonzero in a column block of the first phase.                            *)
THEOREM MergedNetsCorrect == Spec => []MergedNetsAreBlockRows
<1>1. IInv => MergedNetsAreBlockRows
  BY MergedNets DEF MergedNetsAreBlockRows
<1> QED
  BY <1>1, IInvCorrect, PTL

(* The unit an id stands on is the block it was put in.                     *)
LEMMA UnitsAreBlocks ==
  ASSUME IInv, pc = "done"
  PROVE  /\ \A r \in RowIds : /\ RowUnit(r) \in 0 .. row_k - 1
                              /\ r \in row_partitions[RowUnit(r)]
                              /\ \A b \in 0 .. row_k - 1 :
                                   r \in row_partitions[b] => b = RowUnit(r)
         /\ \A c \in ColumnIds : /\ ColumnUnit(c) \in 0 .. column_k - 1
                                 /\ c \in column_partitions[ColumnUnit(c)]
                                 /\ \A b \in 0 .. column_k - 1 :
                                      c \in column_partitions[b] => b = ColumnUnit(c)
<1>1. /\ BalancedBlocks(row_partitions, Rows, row_k, UnitRows)
      /\ BalancedBlocks(column_partitions, Columns, column_k, UnitColumns)
      /\ row_imprint = Flatten(row_partitions)
      /\ col_imprint = Flatten(column_partitions)
  BY DEF IInv, BuiltOK, ImprintsOK, Built, RowsBalanced, ColumnsBalanced
<1>2. ASSUME NEW r \in RowIds
      PROVE  /\ RowUnit(r) \in 0 .. row_k - 1
             /\ r \in row_partitions[RowUnit(r)]
             /\ \A b \in 0 .. row_k - 1 :
                  r \in row_partitions[b] => b = RowUnit(r)
  <2>1. r \in 0 .. Rows - 1
    BY PaddedDimensions, DimensionsAssumption DEF RowIds
  <2>2. RowUnit(r) = BlockOf(row_partitions, r)
    BY <1>1, <2>1, PaddedDimensions, FlattenIsOrder DEF RowUnit
  <2> QED
    BY <1>1, <2>1, <2>2, PaddedDimensions, BlockOfIs
<1>3. ASSUME NEW c \in ColumnIds
      PROVE  /\ ColumnUnit(c) \in 0 .. column_k - 1
             /\ c \in column_partitions[ColumnUnit(c)]
             /\ \A b \in 0 .. column_k - 1 :
                  c \in column_partitions[b] => b = ColumnUnit(c)
  <2>1. c \in 0 .. Columns - 1
    BY PaddedDimensions, DimensionsAssumption DEF ColumnIds
  <2>2. ColumnUnit(c) = BlockOf(column_partitions, c)
    BY <1>1, <2>1, PaddedDimensions, FlattenIsOrder DEF ColumnUnit
  <2> QED
    BY <1>1, <2>1, <2>2, PaddedDimensions, BlockOfIs
<1> QED
  BY <1>2, <1>3

(* The objective of the second phase is the storage cost: merged net b      *)
(* connects row block a exactly when unit <<a, b>> holds a nonzero.         *)
THEOREM ConnectivityIsStorageCorrect == Spec => []ConnectivityIsStorage
<1>1. ASSUME IInv, pc = "done" PROVE ConnectivityIsStorage
  <2>1. Merged /\ mat \subseteq RowIds \X ColumnIds
    BY <1>1 DEF Merged, IInv, TypeOK
  <2> DEFINE Connects(u) == MergedColumnHG[u[2]] \cap row_partitions[u[1]] # {}
             Units == (0 .. row_k - 1) \X (0 .. column_k - 1)
  <2>2. ASSUME NEW u \in NonzeroUnits PROVE u \in Units /\ Connects(u)
    <3>1. PICK e \in mat : u = <<RowUnit(e[1]), ColumnUnit(e[2])>>
      BY DEF NonzeroUnits
    <3>2. PICK r \in RowIds, c \in ColumnIds : e = <<r, c>>
      BY <2>1
    <3>3. u = <<RowUnit(r), ColumnUnit(c)>> /\ <<r, c>> \in mat
      BY <3>1, <3>2
    <3>4. /\ RowUnit(r) \in 0 .. row_k - 1 /\ r \in row_partitions[RowUnit(r)]
          /\ ColumnUnit(c) \in 0 .. column_k - 1
          /\ c \in column_partitions[ColumnUnit(c)]
      BY <1>1, UnitsAreBlocks
    <3>5. r \in MergedColumnHG[ColumnUnit(c)]
      BY <1>1, <2>1, <3>3, <3>4, MergedNets
    <3> QED
      BY <3>3, <3>4, <3>5
  <2>3. ASSUME NEW u \in Units, Connects(u) PROVE u \in NonzeroUnits
    <3>1. PICK a \in 0 .. row_k - 1, b \in 0 .. column_k - 1 : u = <<a, b>>
      OBVIOUS
    <3>2. PICK r \in MergedColumnHG[b] : r \in row_partitions[a]
      BY <2>3, <3>1
    <3>3. r \in RowIds /\ \E c \in column_partitions[b] : <<r, c>> \in mat
      BY <1>1, <2>1, <3>2, MergedNets
    <3>4. PICK c \in column_partitions[b] : <<r, c>> \in mat
      BY <3>3
    <3>5. c \in ColumnIds
      BY <2>1, <3>4
    <3>6. a = RowUnit(r) /\ b = ColumnUnit(c)
      BY <1>1, <3>2, <3>3, <3>4, <3>5, UnitsAreBlocks
    <3> QED
      BY <3>1, <3>4, <3>6 DEF NonzeroUnits
  <2>4. DOMAIN row_partitions = 0 .. row_k - 1
        /\ DOMAIN column_partitions = 0 .. column_k - 1
    BY <1>1, <2>1, MergedNets
  <2> QED
    BY <2>2, <2>3, <2>4 DEF ConnectivityIsStorage
<1>2. IInv => ConnectivityIsStorage
  BY <1>1 DEF ConnectivityIsStorage
<1> QED
  BY <1>2, IInvCorrect, PTL

-----------------------------------------------------------------------------
(* Pattern i's net for row r exists when the pattern accesses the row, and  *)
(* has the nonzero columns of the row that the pattern reads.               *)
LEMMA PatternNetIs ==
  ASSUME NEW rowHG \in [RowIds -> SUBSET ColumnIds], NEW ps \in Seq(Patterns),
         NEW i \in DOMAIN ps, NEW r \in RowIds
  PROVE  /\ <<i, r>> \in DOMAIN QueryNets(rowHG, ps) <=> r \in AccessedRows(ps[i])
         /\ r \in AccessedRows(ps[i]) =>
              QueryNets(rowHG, ps)[<<i, r>>] = Accessed(ps[i], rowHG[r])
<1> DEFINE p == PatternNets(rowHG, ps)
           u == UnaccessedNets(rowHG, p)
<1>1. i \in 1 .. Len(ps) /\ i # 0
  OBVIOUS
<1>2. <<i, r>> \in DOMAIN p <=> r \in AccessedRows(ps[i])
  BY <1>1 DEF PatternNets
<1>3. r \in AccessedRows(ps[i]) => p[<<i, r>>] = Accessed(ps[i], rowHG[r])
  BY <1>1 DEF PatternNets
<1>4. <<i, r>> \notin DOMAIN u
  BY <1>1 DEF UnaccessedNets
<1> HIDE DEF p, u
<1>5. QueryNets(rowHG, ps) = JoinNets(p, u)
  BY DEF QueryNets, p, u
<1> QED
  BY <1>2, <1>3, <1>4, <1>5 DEF JoinNets

LEMMA ReadsIs ==
  ASSUME NEW p \in Patterns, NEW m \in SUBSET (RowIds \X ColumnIds),
         NEW r \in RowIds, NEW c \in ColumnIds
  PROVE  <<r, c>> \in m /\ Reads(p, r, c) <=>
           r \in AccessedRows(p) /\ c \in Accessed(p, RowNets(m)[r])
  BY DEF Reads, AccessedRows, Accessed, RowNets

(* The objective of the query-aware first phase is what a query             *)
(* communicates: the columns of units its nets connect are those that hold  *)
(* the nonzeros it reads of each row.                                       *)
THEOREM ConnectivityIsCommunicationCorrect == Spec => []ConnectivityIsCommunication
<1>1. ASSUME IInv, pc = "done", query_aware, NEW i \in DOMAIN patterns, NEW r \in RowIds
      PROVE  {ColumnUnit(e[2]) : e \in {e \in mat : e[1] = r /\ Reads(patterns[i], r, e[2])}}
             = {b \in DOMAIN column_partitions :
                  /\ <<i, r>> \in DOMAIN QueryRowNetHG
                  /\ QueryRowNetHG[<<i, r>>] \cap column_partitions[b] # {}}
  <2> DEFINE L == {ColumnUnit(e[2]) : e \in {e \in mat : e[1] = r /\ Reads(patterns[i], r, e[2])}}
             R == {b \in DOMAIN column_partitions :
                     /\ <<i, r>> \in DOMAIN QueryRowNetHG
                     /\ QueryRowNetHG[<<i, r>>] \cap column_partitions[b] # {}}
             p == patterns[i]
             net == Accessed(p, RowNets(mat)[r])
  <2>1. /\ mat \in SUBSET (RowIds \X ColumnIds) /\ p \in Patterns
        /\ patterns \in Seq(Patterns)
        /\ RowHG \in [RowIds -> SUBSET ColumnIds] /\ RowHG = RowNets(mat)
        /\ QueryRowNetHG = QueryNets(RowHG, patterns)
    BY <1>1 DEF IInv, TypeOK, BuiltOK, QueriesOK, Built
  <2>2. /\ <<i, r>> \in DOMAIN QueryRowNetHG <=> r \in AccessedRows(p)
        /\ r \in AccessedRows(p) => QueryRowNetHG[<<i, r>>] = net
    BY <2>1, PatternNetIs
  <2>3. DOMAIN column_partitions = 0 .. column_k - 1
    BY <1>1, MergedNets DEF Merged
  <2>4. ASSUME NEW c \in ColumnIds
        PROVE  <<r, c>> \in mat /\ Reads(p, r, c) <=> r \in AccessedRows(p) /\ c \in net
    BY <2>1, ReadsIs
  <2>5. net \subseteq ColumnIds
    BY <2>1 DEF Accessed, RowNets
  <2> HIDE DEF net, p
  <2>6. ASSUME NEW b \in L PROVE b \in R
    <3>1. PICK e \in mat : e[1] = r /\ Reads(p, r, e[2]) /\ b = ColumnUnit(e[2])
      BY DEF p
    <3>2. PICK c \in ColumnIds : e = <<r, c>>
      BY <2>1, <3>1
    <3>3. r \in AccessedRows(p) /\ c \in net /\ b = ColumnUnit(c)
      BY <2>4, <3>1, <3>2
    <3>4. b \in 0 .. column_k - 1 /\ c \in column_partitions[b]
      BY <1>1, <3>3, UnitsAreBlocks
    <3> QED
      BY <2>2, <2>3, <3>3, <3>4
  <2>7. ASSUME NEW b \in R PROVE b \in L
    <3>1. b \in 0 .. column_k - 1 /\ r \in AccessedRows(p)
          /\ net \cap column_partitions[b] # {}
      BY <2>2, <2>3
    <3>2. PICK c \in net : c \in column_partitions[b]
      BY <3>1
    <3>3. c \in ColumnIds /\ <<r, c>> \in mat /\ Reads(p, r, c)
      BY <2>4, <2>5, <3>1
    <3>4. b = ColumnUnit(c)
      BY <1>1, <3>1, <3>2, <3>3, UnitsAreBlocks
    <3> QED
      BY <3>3, <3>4 DEF p
  <2> QED
    BY <2>6, <2>7
<1>2. IInv => ConnectivityIsCommunication
  BY <1>1 DEF ConnectivityIsCommunication
<1> QED
  BY <1>2, IInvCorrect, PTL

(* Generation of a workload's nets keeps read columns and columns left over *)
(* apart and loses no column that has a nonzero.                            *)
LEMMA QueryNetsCover ==
  ASSUME NEW m \in SUBSET (RowIds \X ColumnIds), NEW ps \in Seq(Patterns)
  PROVE  LET hg == QueryNets(RowNets(m), ps)
             pinsOf(keys) == UNION {hg[k] : k \in keys}
             unaccessed == {k \in DOMAIN hg : k[1] = 0}
             queried == DOMAIN hg \ unaccessed
         IN  /\ pinsOf(unaccessed) \cap pinsOf(queried) = {}
             /\ pinsOf(unaccessed) \cup pinsOf(queried) = {e[2] : e \in m}
<1> DEFINE rowHG == RowNets(m)
           p == PatternNets(rowHG, ps)
           u == UnaccessedNets(rowHG, p)
           hg == QueryNets(rowHG, ps)
           pinsOf(keys) == UNION {hg[k] : k \in keys}
           accessed == UNION {p[k] : k \in DOMAIN p}
           unaccessed == {k \in DOMAIN hg : k[1] = 0}
<1>1. /\ rowHG \in [RowIds -> SUBSET ColumnIds]
      /\ \A r \in RowIds : rowHG[r] = {c \in ColumnIds : <<r, c>> \in m}
  BY DEF RowNets
<1>2. \A k \in DOMAIN p : /\ k[1] # 0 /\ k[2] \in RowIds
                          /\ p[k] \subseteq rowHG[k[2]]
  <2> SUFFICES ASSUME NEW k \in DOMAIN p
               PROVE  k[1] # 0 /\ k[2] \in RowIds /\ p[k] \subseteq rowHG[k[2]]
    OBVIOUS
  <2>1. k \in (1 .. Len(ps)) \X RowIds /\ p[k] = Accessed(ps[k[1]], rowHG[k[2]])
    BY DEF PatternNets
  <2>2. p[k] \subseteq rowHG[k[2]]
    BY <2>1 DEF Accessed
  <2> QED
    BY <2>1, <2>2
<1>3. \A k \in DOMAIN u : /\ k[1] = 0 /\ k[2] \in RowIds
                          /\ u[k] = rowHG[k[2]] \ accessed
  BY DEF UnaccessedNets
<1>4. \A r \in RowIds : rowHG[r] \ accessed # {} =>
        <<0, r>> \in DOMAIN u /\ u[<<0, r>>] = rowHG[r] \ accessed
  BY DEF UnaccessedNets
<1>5. hg = JoinNets(p, u)
  BY DEF QueryNets
<1> HIDE DEF p, u, rowHG
<1>6. /\ DOMAIN hg = DOMAIN p \cup DOMAIN u
      /\ \A k \in DOMAIN p : hg[k] = p[k]
      /\ \A k \in DOMAIN u : hg[k] = u[k]
  BY <1>2, <1>3, <1>5 DEF JoinNets
<1> HIDE DEF hg
<1>7. unaccessed = DOMAIN u /\ DOMAIN hg \ unaccessed = DOMAIN p
  BY <1>2, <1>3, <1>6
<1>8. pinsOf(DOMAIN p) = accessed
  BY <1>6
<1>9. pinsOf(DOMAIN u) \cap accessed = {}
  BY <1>3, <1>6
<1>10. accessed \cup pinsOf(DOMAIN u) = {e[2] : e \in m}
  <2>1. ASSUME NEW e \in m PROVE e[2] \in accessed \cup pinsOf(DOMAIN u)
    <3>1. PICK r \in RowIds, c \in ColumnIds : e = <<r, c>>
      OBVIOUS
    <3>2. c \in rowHG[r]
      BY <1>1, <3>1
    <3>3. CASE c \in accessed
      BY <3>1, <3>3
    <3>4. CASE c \notin accessed
      <4>1. <<0, r>> \in DOMAIN u /\ c \in u[<<0, r>>]
        BY <1>4, <3>2, <3>4
      <4>2. c \in hg[<<0, r>>]
        BY <1>6, <4>1
      <4> QED
        BY <3>1, <4>1, <4>2
    <3> QED
      BY <3>3, <3>4
  <2>2. \A r \in RowIds : rowHG[r] \subseteq {e[2] : e \in m}
    <3> SUFFICES ASSUME NEW r \in RowIds, NEW c \in rowHG[r]
                 PROVE  \E e \in m : c = e[2]
      OBVIOUS
    <3>1. <<r, c>> \in m
      BY <1>1
    <3> QED
      BY <3>1
  <2>3. accessed \subseteq {e[2] : e \in m}
    BY <1>2, <2>2
  <2>4. pinsOf(DOMAIN u) \subseteq {e[2] : e \in m}
    BY <1>3, <1>6, <2>2
  <2> QED
    BY <2>1, <2>3, <2>4
<1> QED
  BY <1>7, <1>8, <1>9, <1>10 DEF hg, rowHG

(* No column with a nonzero is invisible to the query-aware first phase.    *)
THEOREM QueryNetsCoverCorrect == Spec => []QueryNetsCoverColumns
<1>1. ASSUME IInv, QueryRowNetHG # <<>> PROVE QueryNetsCoverColumns
  <2>1. /\ mat \in SUBSET (RowIds \X ColumnIds) /\ patterns \in Seq(Patterns)
        /\ QueryRowNetHG = QueryNets(RowNets(mat), patterns)
    BY <1>1 DEF IInv, TypeOK, BuiltOK, QueriesOK, Built
  <2> QED
    BY <2>1, QueryNetsCover DEF QueryNetsCoverColumns
<1>2. IInv => QueryNetsCoverColumns
  BY <1>1 DEF QueryNetsCoverColumns
<1> QED
  BY <1>2, IInvCorrect, PTL

-----------------------------------------------------------------------------
(* Storage::HyperMR implements a storage scheme: each step either leaves    *)
(* the imprints alone, or writes a permutation of the padded ids into both, *)
(* or resets both.                                                          *)
THEOREM ReorderingCorrect == Spec => ImplementsReordering
<1>0. /\ \A n : Abstract!Identity(n) = Identity(n)
      /\ \A s, n : Abstract!IsOrder(s, n) <=> IsOrder(s, n)
      /\ Abstract!Rows = Rows /\ Abstract!Columns = Columns
  BY DEF Abstract!Identity, Identity, Abstract!IsOrder, IsOrder, Abstract!Rows,
         Rows, Abstract!Columns, Columns, Abstract!Expanded, Expanded
<1>1. Init => Abstract!Init
  BY <1>0 DEF Init, Abstract!Init
<1>2. ASSUME IInv, [Next]_vars PROVE [Abstract!Next]_(Abstract!imprints)
  <2> USE DEF Abstract!imprints, imprints
  <2>1. CASE WriteImprints
    <3>1. RowsBalanced(row_partitions) /\ ColumnsBalanced(column_partitions)
      BY <1>2, <2>1 DEF WriteImprints, IInv, BuiltOK, Built
    <3>2. /\ IsOrder(Flatten(row_partitions), Rows)
          /\ IsOrder(Flatten(column_partitions), Columns)
      BY <3>1, PaddedDimensions, FlattenIsOrder DEF RowsBalanced, ColumnsBalanced
    <3>3. Abstract!Reorder
      BY <1>0, <2>1, <3>2 DEF WriteImprints, Abstract!Reorder
    <3> QED
      BY <3>3 DEF Abstract!Next
  <2>2. CASE Return
    BY <1>0, <2>2 DEF Return, Abstract!Next, Abstract!ResetImprints
  <2>3. CASE UNCHANGED imprints
    BY <2>3
  <2>4. UNCHANGED vars => UNCHANGED imprints
    BY DEF vars
  <2>5. Next => WriteImprints \/ Return \/ UNCHANGED imprints
    BY DEF Next, Call, BuildHypergraphs, QueryAwareGeneration, PartitionColumns,
           MergeColumns, PartitionRows
  <2> QED
    BY <1>2, <2>1, <2>2, <2>3, <2>4, <2>5
<1>3. IInv /\ [Next]_vars => [Abstract!Next]_(Abstract!imprints)
  BY <1>2
<1> QED
  BY <1>1, <1>3, IInvCorrect, PTL DEF Spec, ImplementsReordering, Abstract!Spec

=============================================================================
