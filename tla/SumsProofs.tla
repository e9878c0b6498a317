------------------------------ MODULE SumsProofs ------------------------------
(***************************************************************************)
(* What the sums of the model are: the fold that adds the values of a      *)
(* function over a finite set takes the elements in an order that CHOOSE   *)
(* picks, and no order changes its result.  The induction is that among    *)
(* the finite sets a statement fails for there is a smallest one.  And     *)
(* what is needed of division.                                             *)
(***************************************************************************)
EXTENDS Integers, FiniteSetsExt, FiniteSetTheorems, SequenceTheorems, WellFoundedInduction, TLAPS

(* Among finite subsets of a set, some is minimal *)
LEMMA MinimalSet ==
  ASSUME NEW S, IsFiniteSet(S), NEW T \in SUBSET (SUBSET S), T # {}
  PROVE \E X \in T : \A Y \in T : Y \subseteq X => Y = X
<1>1. IsWellFoundedOn(StrictSubsetOrdering(S), SUBSET S)
  BY FS_StrictSubsetOrderingWellFounded, FS_FiniteSubsetsOfFinite
<1>2. \E X \in T : \A Y \in T : ~ (<<Y, X>> \in StrictSubsetOrdering(S))
  BY <1>1, WFMin
<1> QED
  BY <1>2 DEF StrictSubsetOrdering

SumOver(f, S) == MapThenSumSet(LAMBDA x : f[x], S)

Some(s) == CHOOSE x \in s : TRUE
SumsOver(f, S, g) ==
  g = [s \in SUBSET S |-> IF s = {} THEN 0 ELSE f[Some(s)] + g[s \ {Some(s)}]]

LEMMA SumIs == ASSUME NEW f, NEW S PROVE SumOver(f, S) = (CHOOSE g : SumsOver(f, S, g))[S]
BY Zenon DEF SumOver, MapThenSumSet, MapThenFoldSet, SumsOver, Some

LEMMA SumsAgree ==
  ASSUME NEW f, NEW A, IsFiniteSet(A), NEW B, NEW g, NEW h, SumsOver(f, A, g), SumsOver(f, B, h),
         NEW w \in SUBSET A, w \subseteq B
  PROVE  g[w] = h[w]
<1> SUFFICES ASSUME g[w] # h[w] PROVE FALSE
  OBVIOUS
<1>1. PICK T : T = {v \in SUBSET A : v \subseteq B /\ g[v] # h[v]}
  OBVIOUS
<1>2. T \in SUBSET SUBSET A /\ T # {}
  BY <1>1
<1>3. PICK X \in T : \A Y \in T : Y \subseteq X => Y = X
  BY <1>2, MinimalSet
<1>4. X \in SUBSET A /\ X \in SUBSET B /\ g[X] # h[X]
  BY <1>1
<1>5. /\ g[X] = IF X = {} THEN 0 ELSE f[Some(X)] + g[X \ {Some(X)}]
      /\ h[X] = IF X = {} THEN 0 ELSE f[Some(X)] + h[X \ {Some(X)}]
  BY <1>4 DEF SumsOver
<1>6. X # {}
  BY <1>4, <1>5
<1>7. Some(X) \in X
  BY <1>6 DEF Some
<1>8. PICK Y : Y = X \ {Some(X)}
  OBVIOUS
<1>9. Y \subseteq X /\ Y # X /\ Y \in SUBSET A /\ Y \subseteq B
  BY <1>4, <1>7, <1>8
<1>10. g[Y] = h[Y]
  BY <1>1, <1>3, <1>9
<1> QED
  BY <1>4, <1>5, <1>6, <1>8, <1>10

LEMMA SumsExist ==
  ASSUME NEW f, NEW S, IsFiniteSet(S)
  PROVE  \E g : SumsOver(f, S, g)
<1> SUFFICES ASSUME ~ \E g : SumsOver(f, S, g) PROVE FALSE
  OBVIOUS
<1>1. PICK T : T = {X \in SUBSET S : ~ \E g : SumsOver(f, X, g)}
  OBVIOUS
<1>2. T \in SUBSET SUBSET S /\ T # {}
  BY <1>1
<1>3. PICK X \in T : \A Y \in T : Y \subseteq X => Y = X
  BY <1>2, MinimalSet
<1>4. X \in SUBSET S /\ IsFiniteSet(X) /\ ~ \E g : SumsOver(f, X, g)
  BY <1>1, FS_Subset
<1> DEFINE sum(s) == (CHOOSE g : SumsOver(f, s, g))
<1>5. ASSUME NEW Y, Y \subseteq X, Y # X
      PROVE  SumsOver(f, Y, sum(Y)) /\ IsFiniteSet(Y)
  <2>1. Y \in SUBSET S /\ Y \notin T
    BY <1>3, <1>4, <1>5
  <2>2. \E g : SumsOver(f, Y, g)
    BY <1>1, <2>1
  <2> QED
    BY <1>5, <1>4, <2>2, FS_Subset
<1> HIDE DEF sum
<1>6. PICK g : g = [s \in SUBSET X |-> IF s = {} THEN 0 ELSE f[Some(s)] + sum(s \ {Some(s)})[s \ {Some(s)}]]
  OBVIOUS
<1>7. ASSUME NEW u, u \subseteq X, u # X PROVE g[u] = sum(u)[u]
  <2>0. SumsOver(f, u, sum(u)) /\ IsFiniteSet(u)
    BY <1>5, <1>7
  <2>1. sum(u)[u] = IF u = {} THEN 0 ELSE f[Some(u)] + sum(u)[u \ {Some(u)}]
    BY <2>0 DEF SumsOver
  <2>2. g[u] = IF u = {} THEN 0 ELSE f[Some(u)] + sum(u \ {Some(u)})[u \ {Some(u)}]
    BY <1>6, <1>7
  <2>3. ASSUME u # {} PROVE sum(u)[u \ {Some(u)}] = sum(u \ {Some(u)})[u \ {Some(u)}]
    <3>1. PICK v : v = u \ {Some(u)}
      OBVIOUS
    <3>2. v \subseteq u /\ v \subseteq X /\ v # X
      BY <3>1, <1>7
    <3>3. SumsOver(f, v, sum(v))
      BY <1>5, <3>2
    <3>4. sum(u)[v] = sum(v)[v]
      BY <2>0, <3>2, <3>3, SumsAgree
    <3> QED
      BY <3>1, <3>4
  <2> QED
    BY <2>1, <2>2, <2>3
<1>8. ASSUME NEW s \in SUBSET X, s # {} PROVE sum(s \ {Some(s)})[s \ {Some(s)}] = g[s \ {Some(s)}]
  <2>1. Some(s) \in s
    BY <1>8 DEF Some
  <2>2. s \ {Some(s)} \subseteq X /\ s \ {Some(s)} # X
    BY <2>1
  <2> QED
    BY <1>7, <2>2
<1>9. g = [s \in SUBSET X |-> IF s = {} THEN 0 ELSE f[Some(s)] + g[s \ {Some(s)}]]
  BY <1>6, <1>8
<1> QED
  BY <1>4, <1>9 DEF SumsOver

LEMMA SumEmpty ==
  ASSUME NEW f
  PROVE  SumOver(f, {}) = 0
  BY DEF SumOver, MapThenSumSet, MapThenFoldSet

LEMMA SumFirst ==
  ASSUME NEW f, NEW S, IsFiniteSet(S), S # {}
  PROVE  SumOver(f, S) = f[Some(S)] + SumOver(f, S \ {Some(S)})
<1> PICK T : T = S \ {Some(S)}
  OBVIOUS
<1>1. IsFiniteSet(T) /\ T \in SUBSET S /\ T \subseteq T
  BY FS_RemoveElement
<1> PICK g, h : g = (CHOOSE e : SumsOver(f, S, e)) /\ h = (CHOOSE e : SumsOver(f, T, e))
  OBVIOUS
<1>2. SumsOver(f, S, g)
  BY SumsExist
<1>3. SumsOver(f, T, h)
  BY <1>1, SumsExist
<1>4. g[T] = h[T]
  BY <1>1, <1>2, <1>3, SumsAgree
<1>5. g[S] = f[Some(S)] + g[T]
  BY <1>2 DEF SumsOver
<1> QED
  BY <1>4, <1>5, SumIs

LEMMA SumType ==
  ASSUME NEW f, NEW S, IsFiniteSet(S), \A x \in S : f[x] \in Int
  PROVE  SumOver(f, S) \in Int
<1> SUFFICES ASSUME SumOver(f, S) \notin Int PROVE FALSE
  OBVIOUS
<1>1. PICK T : T = {X \in SUBSET S : SumOver(f, X) \notin Int}
  OBVIOUS
<1>2. T \in SUBSET SUBSET S /\ T # {}
  BY <1>1
<1>3. PICK X \in T : \A Y \in T : Y \subseteq X => Y = X
  BY <1>2, MinimalSet
<1>4. X \in SUBSET S /\ IsFiniteSet(X) /\ SumOver(f, X) \notin Int
  BY <1>1, FS_Subset
<1>5. X # {}
  BY <1>4, SumEmpty
<1>6. Some(X) \in X
  BY <1>5 DEF Some
<1>7. SumOver(f, X) = f[Some(X)] + SumOver(f, X \ {Some(X)})
  BY <1>4, <1>5, SumFirst
<1>8. X \ {Some(X)} \notin T /\ X \ {Some(X)} \in SUBSET S
  BY <1>3, <1>4, <1>6
<1> QED
  BY <1>1, <1>4, <1>6, <1>7, <1>8

LEMMA SumAny ==
  ASSUME NEW f, NEW S, IsFiniteSet(S), \A y \in S : f[y] \in Int, NEW x \in S
  PROVE  SumOver(f, S) = f[x] + SumOver(f, S \ {x})
<1> DEFINE Splits(X, y) == SumOver(f, X) = f[y] + SumOver(f, X \ {y})
<1> SUFFICES ASSUME ~ Splits(S, x) PROVE FALSE
  OBVIOUS
<1>1. PICK T : T = {X \in SUBSET S : \E y \in X : ~ Splits(X, y)}
  OBVIOUS
<1>2. T \in SUBSET SUBSET S /\ T # {}
  BY <1>1
<1>3. PICK X \in T : \A Y \in T : Y \subseteq X => Y = X
  BY <1>2, MinimalSet
<1>4. X \in SUBSET S /\ IsFiniteSet(X)
  BY <1>1, FS_Subset
<1>5. PICK y \in X : ~ Splits(X, y)
  BY <1>1
<1>6. PICK a \in X : a = Some(X)
  BY <1>5 DEF Some
<1>7. Splits(X, a)
  BY <1>4, <1>5, <1>6, SumFirst
<1>8. a # y
  BY <1>5, <1>7
<1>9. Splits(X \ {a}, y) /\ Splits(X \ {y}, a)
  <2>1. X \ {a} \in SUBSET S /\ X \ {a} \notin T /\ y \in X \ {a}
    BY <1>3, <1>4, <1>5, <1>6, <1>8
  <2>2. X \ {y} \in SUBSET S /\ X \ {y} \notin T /\ a \in X \ {y}
    BY <1>3, <1>4, <1>5, <1>6, <1>8
  <2> HIDE DEF Splits
  <2> QED
    BY <1>1, <2>1, <2>2
<1>10. PICK Z : Z = (X \ {a}) \ {y} /\ Z = (X \ {y}) \ {a}
  OBVIOUS
<1>11. SumOver(f, Z) \in Int /\ f[a] \in Int /\ f[y] \in Int
  <2>1. IsFiniteSet(Z) /\ Z \subseteq S
    BY <1>4, <1>10, FS_Subset
  <2> QED
    BY <1>4, <2>1, SumType
<1>12. /\ SumOver(f, X) = f[a] + SumOver(f, X \ {a})
       /\ SumOver(f, X \ {a}) = f[y] + SumOver(f, Z)
       /\ SumOver(f, X \ {y}) = f[a] + SumOver(f, Z)
  BY <1>7, <1>9, <1>10, Zenon
<1> QED
  BY <1>5, <1>11, <1>12

LEMMA SumAdd ==
  ASSUME NEW f, NEW S, IsFiniteSet(S), \A y \in S : f[y] \in Int, NEW x, x \notin S, f[x] \in Int
  PROVE  SumOver(f, S \cup {x}) = f[x] + SumOver(f, S)
<1>1. PICK T : T = S \cup {x}
  OBVIOUS
<1>2. IsFiniteSet(T) /\ x \in T /\ T \ {x} = S /\ \A y \in T : f[y] \in Int
  BY <1>1, FS_AddElement
<1> QED
  BY <1>1, <1>2, SumAny

LEMMA SumSame ==
  ASSUME NEW f, NEW g, NEW S, IsFiniteSet(S), \A x \in S : f[x] = g[x]
  PROVE  SumOver(f, S) = SumOver(g, S)
<1> SUFFICES ASSUME SumOver(f, S) # SumOver(g, S) PROVE FALSE
  OBVIOUS
<1>1. PICK T : T = {X \in SUBSET S : SumOver(f, X) # SumOver(g, X)}
  OBVIOUS
<1>2. T \in SUBSET SUBSET S /\ T # {}
  BY <1>1
<1>3. PICK X \in T : \A Y \in T : Y \subseteq X => Y = X
  BY <1>2, MinimalSet
<1>4. X \in SUBSET S /\ IsFiniteSet(X) /\ SumOver(f, X) # SumOver(g, X)
  BY <1>1, FS_Subset
<1>5. X # {}
  BY <1>4, SumEmpty
<1>6. Some(X) \in X
  BY <1>5 DEF Some
<1>7. PICK Y : Y = X \ {Some(X)}
  OBVIOUS
<1>8. SumOver(f, X) = f[Some(X)] + SumOver(f, Y) /\ SumOver(g, X) = g[Some(X)] + SumOver(g, Y)
  BY <1>4, <1>5, <1>7, SumFirst
<1>9. SumOver(f, Y) = SumOver(g, Y)
  BY <1>1, <1>3, <1>4, <1>6, <1>7
<1> QED
  BY <1>4, <1>6, <1>8, <1>9

LEMMA SumChanged ==
  ASSUME NEW f, NEW g, NEW S, IsFiniteSet(S), \A y \in S : f[y] \in Int, NEW x \in S, NEW d \in Int,
         g[x] = f[x] + d, \A y \in S \ {x} : g[y] = f[y]
  PROVE  SumOver(g, S) = SumOver(f, S) + d
<1>1. IsFiniteSet(S \ {x}) /\ \A y \in S : g[y] \in Int
  BY FS_RemoveElement
<1>2. SumOver(g, S \ {x}) = SumOver(f, S \ {x}) /\ SumOver(f, S \ {x}) \in Int
  BY <1>1, SumSame, SumType
<1>3. SumOver(g, S) = g[x] + SumOver(g, S \ {x}) /\ SumOver(f, S) = f[x] + SumOver(f, S \ {x})
  BY <1>1, SumAny
<1> QED
  BY <1>2, <1>3

LEMMA SumBound ==
  ASSUME NEW f, NEW S, IsFiniteSet(S), \A y \in S : f[y] \in Nat
  PROVE  SumOver(f, S) \in Nat
<1> SUFFICES ASSUME SumOver(f, S) \notin Nat PROVE FALSE
  OBVIOUS
<1>1. PICK T : T = {X \in SUBSET S : SumOver(f, X) \notin Nat}
  OBVIOUS
<1>2. T \in SUBSET SUBSET S /\ T # {}
  BY <1>1
<1>3. PICK X \in T : \A Y \in T : Y \subseteq X => Y = X
  BY <1>2, MinimalSet
<1>4. X \in SUBSET S /\ IsFiniteSet(X) /\ SumOver(f, X) \notin Nat
  BY <1>1, FS_Subset
<1>5. X # {}
  BY <1>4, SumEmpty
<1>6. Some(X) \in X
  BY <1>5 DEF Some
<1>7. SumOver(f, X) = f[Some(X)] + SumOver(f, X \ {Some(X)})
  BY <1>4, <1>5, SumFirst
<1>8. X \ {Some(X)} \notin T /\ X \ {Some(X)} \in SUBSET S
  BY <1>3, <1>4, <1>6
<1> QED
  BY <1>1, <1>4, <1>6, <1>7, <1>8

-----------------------------------------------------------------------------
(* Sums of cardinalities count pairs; they are no less than the number of   *)
(* elements of a union.                                                     *)
Pairs(A, S) == UNION {{<<x, y>> : y \in A[x]} : x \in S}

LEMMA PairsOfOne ==
  ASSUME NEW A, NEW x, IsFiniteSet(A[x])
  PROVE  IsFiniteSet({<<x, y>> : y \in A[x]}) /\ Cardinality({<<x, y>> : y \in A[x]}) = Cardinality(A[x])
<1> PICK T, f : T = {<<x, y>> : y \in A[x]} /\ f = [y \in A[x] |-> <<x, y>>]
  OBVIOUS
<1>1. f \in Bijection(A[x], T)
  BY DEF Bijection, Injection, Surjection, IsInjective
<1> QED
  BY <1>1, FS_Bijection DEF ExistsBijection

Counted(f, A, S) ==
  IsFiniteSet(S) /\ \A x \in S : IsFiniteSet(A[x]) /\ f[x] = Cardinality(A[x])

LEMMA SumOfCardinalities ==
  ASSUME NEW A, NEW S, NEW f, Counted(f, A, S)
  PROVE  /\ IsFiniteSet(Pairs(A, S)) /\ Cardinality(Pairs(A, S)) = SumOver(f, S)
         /\ IsFiniteSet(UNION {A[x] : x \in S})
         /\ Cardinality(UNION {A[x] : x \in S}) <= SumOver(f, S)
<1> USE DEF Counted
<1> DEFINE U(X) == UNION {A[x] : x \in X}
           Counts(X) == /\ IsFiniteSet(Pairs(A, X)) /\ Cardinality(Pairs(A, X)) = SumOver(f, X)
                        /\ IsFiniteSet(U(X)) /\ Cardinality(U(X)) <= SumOver(f, X)
<1> SUFFICES ASSUME ~ Counts(S) PROVE FALSE
  OBVIOUS
<1>1. PICK T : T = {X \in SUBSET S : ~ Counts(X)}
  OBVIOUS
<1>2. T \in SUBSET SUBSET S /\ T # {}
  BY <1>1
<1>3. PICK X \in T : \A Y \in T : Y \subseteq X => Y = X
  BY <1>2, MinimalSet
<1>4. X \in SUBSET S /\ IsFiniteSet(X) /\ ~ Counts(X)
  BY <1>1, FS_Subset
<1>5. Counts({})
  <2>1. Pairs(A, {}) = {} /\ U({}) = {}
    BY DEF Pairs
  <2>2. IsFiniteSet({}) /\ Cardinality({}) = 0 /\ SumOver(f, {}) = 0
    BY SumEmpty, FS_EmptySet
  <2> HIDE DEF U
  <2> QED
    BY <2>1, <2>2
<1>6. PICK x \in X : TRUE
  <2>1. X # {}
    BY <1>4, <1>5
  <2> QED
    BY <2>1
<1>7. PICK Y : Y = X \ {x}
  OBVIOUS
<1>8. Counts(Y) /\ IsFiniteSet(Y)
  <2>1. Y \in SUBSET S /\ Y \notin T
    BY <1>3, <1>4, <1>7
  <2> HIDE DEF Counts
  <2> QED
    BY <1>1, <1>4, <1>7, <2>1, FS_Subset
<1>9. \A y \in X : f[y] \in Int
  BY <1>4, FS_CardinalityType
<1>10. SumOver(f, X) = Cardinality(A[x]) + SumOver(f, Y) /\ SumOver(f, Y) \in Int
  BY <1>4, <1>7, <1>8, <1>9, SumAny, SumType
<1>11. PICK P : P = {<<x, y>> : y \in A[x]}
  OBVIOUS
<1>12. IsFiniteSet(A[x]) /\ IsFiniteSet(P) /\ Cardinality(P) = Cardinality(A[x])
  BY <1>4, <1>11, PairsOfOne
<1>13. Pairs(A, X) = Pairs(A, Y) \cup P /\ Pairs(A, Y) \cap P = {}
  BY <1>7, <1>11 DEF Pairs
<1>14. U(X) = U(Y) \cup A[x]
  BY <1>7
<1>15. /\ Cardinality(Pairs(A, Y)) \in Nat /\ Cardinality(P) \in Nat /\ Cardinality(U(Y)) \in Nat
       /\ Cardinality(A[x]) \in Nat /\ Cardinality(U(Y) \cap A[x]) \in Nat
  BY <1>8, <1>12, FS_CardinalityType, FS_Intersection
<1>16. IsFiniteSet(Pairs(A, X)) /\ Cardinality(Pairs(A, X)) = Cardinality(Pairs(A, Y)) + Cardinality(P)
  <2>1. /\ IsFiniteSet(Pairs(A, Y) \cup P)
        /\ Cardinality(Pairs(A, Y) \cup P)
              = Cardinality(Pairs(A, Y)) + Cardinality(P) - Cardinality(Pairs(A, Y) \cap P)
    BY <1>8, <1>12, FS_Union
  <2>2. Cardinality(Pairs(A, Y) \cap P) = 0
    BY <1>13, FS_EmptySet
  <2>3. PICK i \in Nat, j \in Nat : i = Cardinality(Pairs(A, Y)) /\ j = Cardinality(P)
    BY <1>15
  <2>4. Cardinality(Pairs(A, Y) \cup P) = i + j - 0
    BY <2>1, <2>2, <2>3
  <2> QED
    BY <1>13, <2>1, <2>3, <2>4
<1>17. IsFiniteSet(U(X)) /\ Cardinality(U(X)) <= Cardinality(U(Y)) + Cardinality(A[x])
  <2>1. /\ IsFiniteSet(U(Y) \cup A[x])
        /\ Cardinality(U(Y) \cup A[x])
              = Cardinality(U(Y)) + Cardinality(A[x]) - Cardinality(U(Y) \cap A[x])
    BY <1>8, <1>12, FS_Union
  <2> HIDE DEF U
  <2>2. PICK i \in Nat, j \in Nat, c \in Nat :
          i = Cardinality(U(Y)) /\ j = Cardinality(A[x]) /\ c = Cardinality(U(Y) \cap A[x])
    BY <1>15
  <2>3. Cardinality(U(Y) \cup A[x]) = i + j - c
    BY <2>1, <2>2
  <2> QED
    BY <1>14, <2>1, <2>2, <2>3
<1>18. Cardinality(U(X)) \in Nat
  BY <1>17, FS_CardinalityType
<1>19. Cardinality(Pairs(A, Y)) = SumOver(f, Y) /\ Cardinality(U(Y)) <= SumOver(f, Y)
  BY <1>8
<1> HIDE DEF U
<1> QED
  BY <1>4, <1>10, <1>12, <1>15, <1>16, <1>17, <1>18, <1>19

LEMMA ImageIsFinite ==
  ASSUME NEW f, NEW S, IsFiniteSet(S)
  PROVE  IsFiniteSet({f[x] : x \in S})
<1> PICK T, g : T = {f[x] : x \in S} /\ g = [x \in S |-> f[x]]
  OBVIOUS
<1>1. g \in Surjection(S, T)
  BY DEF Surjection
<1> QED
  BY <1>1, FS_Surjection

(* Elements marked with a value stay as many.                               *)
Marked(q, S) == {<<q, x[1], x[2]>> : x \in S}

LEMMA MarkedAreAsMany ==
  ASSUME NEW q, NEW S, IsFiniteSet(S)
  PROVE  /\ IsFiniteSet(Marked(q, S))
         /\ (\A x \in S : x = <<x[1], x[2]>>) => Cardinality(Marked(q, S)) = Cardinality(S)
<1> USE DEF Marked
<1> PICK T, f : T = {<<q, x[1], x[2]>> : x \in S} /\ f = [x \in S |-> <<q, x[1], x[2]>>]
  OBVIOUS
<1>1. f \in Surjection(S, T)
  BY DEF Surjection
<1>2. (\A x \in S : x = <<x[1], x[2]>>) => f \in Injection(S, T)
  <2> SUFFICES ASSUME \A x \in S : x = <<x[1], x[2]>>, NEW a \in S, NEW b \in S, f[a] = f[b] PROVE a = b
    BY DEF Injection, IsInjective
  <2>1. a[1] = b[1] /\ a[2] = b[2]
    OBVIOUS
  <2>2. a = <<a[1], a[2]>> /\ b = <<b[1], b[2]>>
    OBVIOUS
  <2> QED
    BY <2>1, <2>2
<1> QED
  BY <1>1, <1>2, FS_Surjection

-----------------------------------------------------------------------------
(* Sums over lists.                                                         *)
LEMMA SumAppended ==
  ASSUME NEW m \in Nat, NEW f, NEW g, \A i \in 1 .. m : f[i] \in Int /\ g[i] = f[i], g[m + 1] \in Int
  PROVE  /\ SumOver(g, 1 .. m + 1) = SumOver(f, 1 .. m) + g[m + 1]
         /\ SumOver(f, 1 .. m) \in Int
<1>0. IsFiniteSet(1 .. m)
  BY FS_Interval
<1>1. IsFiniteSet(1 .. m) /\ (1 .. m) \cup {m + 1} = 1 .. m + 1 /\ m + 1 \notin 1 .. m
  BY <1>0
<1>2. SumOver(g, (1 .. m) \cup {m + 1}) = g[m + 1] + SumOver(g, 1 .. m)
  BY <1>1, SumAdd, Zenon
<1>3. SumOver(g, 1 .. m) = SumOver(f, 1 .. m) /\ SumOver(f, 1 .. m) \in Int
  BY <1>1, SumSame, SumType
<1>4. SumOver(g, 1 .. m + 1) = g[m + 1] + SumOver(f, 1 .. m)
  BY <1>1, <1>2, <1>3, Zenon
<1>5. PICK x \in Int, y \in Int : x = SumOver(f, 1 .. m) /\ y = g[m + 1]
  BY <1>3
<1>6. SumOver(g, 1 .. m + 1) = x + y
  BY <1>4, <1>5
<1> QED
  BY <1>3, <1>5, <1>6

(* SumChanged for an element and a difference that are known by facts.       *)
LEMMA SumChangedBy ==
  ASSUME NEW t, NEW a, NEW D, NEW i, NEW d, IsFiniteSet(D), i \in D, d \in Int,
         t[i] = a[i] + d, \A j \in D \ {i} : t[j] = a[j], \A j \in D : a[j] \in Int
  PROVE  SumOver(t, D) = SumOver(a, D) + d
  BY SumChanged

(* A list that got another entry, and where one was raised.                 *)
Raised(t, s, m, i, d) ==
  /\ m \in Nat /\ i \in 1 .. m + 1 /\ d \in Int /\ \A j \in 1 .. m : s[j] \in Int
  /\ \A j \in 1 .. m + 1 : t[j] = (IF j = m + 1 THEN 0 ELSE s[j]) + (IF j = i THEN d ELSE 0)

SumsDiffer(t, s, m, d) == SumOver(t, 1 .. m + 1) = SumOver(s, 1 .. m) + d

LEMMA SumExtended ==
  ASSUME NEW m, NEW s, NEW i, NEW d, NEW t, Raised(t, s, m, i, d)
  PROVE  SumsDiffer(t, s, m, d)
<1> USE DEF Raised, SumsDiffer
<1> PICK a : a = [j \in 1 .. m + 1 |-> IF j = m + 1 THEN 0 ELSE s[j]]
  OBVIOUS
<1>1. /\ a[m + 1] = 0 /\ \A j \in 1 .. m : a[j] = s[j]
      /\ \A j \in 1 .. m + 1 : a[j] \in Int
      /\ \A j \in 1 .. m + 1 : t[j] = a[j] + (IF j = i THEN d ELSE 0)
  OBVIOUS
<1> PICK D : D = 1 .. m + 1
  OBVIOUS
<1>2. /\ i \in D /\ \A j \in D : a[j] \in Int
      /\ t[i] = a[i] + d /\ \A j \in D \ {i} : t[j] = a[j]
  BY <1>1
<1>3. IsFiniteSet(D)
  <2>1. IsFiniteSet(1 .. m + 1)
    BY FS_Interval
  <2> QED
    BY <2>1
<1>4. SumOver(t, D) = SumOver(a, D) + d
  BY <1>2, <1>3, SumChangedBy
<1>5. a[m + 1] \in Int /\ \A j \in 1 .. m : s[j] \in Int /\ a[j] = s[j]
  BY <1>1
<1>6. SumOver(a, 1 .. m + 1) = SumOver(s, 1 .. m) + a[m + 1] /\ SumOver(s, 1 .. m) \in Int
  BY <1>5, SumAppended
<1> QED
  BY <1>1, <1>4, <1>6

GrownAt(t, s, i, d) ==
  /\ t \in Seq(Int) /\ Len(t) = Len(s) + 1
  /\ SumOver(t, DOMAIN t) = SumOver(s, DOMAIN s) + d
  /\ SumOver(s, DOMAIN s) \in Int
  /\ \A j \in 1 .. Len(s) + 1 :
       t[j] = (IF j = Len(s) + 1 THEN 0 ELSE s[j]) + (IF j = i THEN d ELSE 0)

LEMMA SumRaised ==
  ASSUME NEW s, NEW i, NEW d, NEW t, s \in Seq(Int), i \in 1 .. Len(s) + 1, d \in Int,
         t = [Append(s, 0) EXCEPT ![i] = @ + d]
  PROVE  GrownAt(t, s, i, d)
<1> USE DEF GrownAt
<1>a. PICK m : m \in Nat /\ m = Len(s)
  OBVIOUS
<1>b. PICK a : a = Append(s, 0)
  OBVIOUS
<1>1. /\ DOMAIN a = 1 .. m + 1 /\ DOMAIN s = 1 .. m
      /\ a[m + 1] = 0 /\ \A j \in 1 .. m : s[j] \in Int /\ a[j] = s[j]
      /\ a \in Seq(Int) /\ Len(a) = m + 1
  BY <1>a, <1>b
<1>2. i \in 1 .. m + 1 /\ t = [a EXCEPT ![i] = a[i] + d]
  BY <1>a, <1>b
<1>3. \A j \in 1 .. m + 1 : t[j] = (IF j = i THEN a[j] + d ELSE a[j])
  BY <1>1, <1>2, Zenon
<1>4. \A j \in 1 .. m + 1 : t[j] = (IF j = m + 1 THEN 0 ELSE s[j]) + (IF j = i THEN d ELSE 0)
  <2> SUFFICES ASSUME NEW j \in 1 .. m + 1
               PROVE  t[j] = (IF j = m + 1 THEN 0 ELSE s[j]) + (IF j = i THEN d ELSE 0)
    OBVIOUS
  <2>1. t[j] = (IF j = i THEN a[j] + d ELSE a[j])
    BY <1>3
  <2>2. j \notin 1 .. m => j = m + 1
    BY <1>a
  <2>3. a[j] = (IF j = m + 1 THEN 0 ELSE s[j]) /\ a[j] \in Int
    BY <1>a, <1>1, <2>2
  <2> QED
    BY <2>1, <2>3
<1>6. t \in Seq(Int) /\ Len(t) = m + 1 /\ DOMAIN t = 1 .. m + 1
  BY <1>a, <1>1, <1>2
<1>7. SumOver(t, 1 .. m + 1) = SumOver(s, 1 .. m) + d
  <2>1. m \in Nat /\ i \in 1 .. m + 1 /\ d \in Int /\ \A j \in 1 .. m : s[j] \in Int
    BY <1>a, <1>1, <1>2
  <2> QED
    <3>1. Raised(t, s, m, i, d)
      BY <1>4, <2>1 DEF Raised
    <3>2. SumsDiffer(t, s, m, d)
      BY <3>1, SumExtended, Zenon
    <3> QED
      BY <3>2 DEF SumsDiffer
<1>8. SumOver(s, 1 .. m) \in Int
  <2>1. IsFiniteSet(1 .. m)
    BY <1>a, FS_Interval
  <2> QED
    BY <1>a, <1>1, <2>1, SumType
<1> QED
  BY <1>a, <1>1, <1>4, <1>6, <1>7, <1>8

LEMMA ZeroAppended ==
  ASSUME NEW s \in Seq(Int)
  PROVE  /\ Append(s, 0) \in Seq(Int) /\ Len(Append(s, 0)) = Len(s) + 1
         /\ SumOver(Append(s, 0), DOMAIN Append(s, 0)) = SumOver(s, DOMAIN s)
<1>a. PICK m : m \in Nat /\ m = Len(s)
  OBVIOUS
<1>b. PICK t : t = Append(s, 0)
  OBVIOUS
<1>1. /\ t \in Seq(Int) /\ Len(t) = m + 1 /\ DOMAIN t = 1 .. m + 1 /\ DOMAIN s = 1 .. m
      /\ t[m + 1] = 0 /\ \A j \in 1 .. m : s[j] \in Int /\ t[j] = s[j]
  BY <1>a, <1>b
<1>2. t[m + 1] \in Int
  BY <1>1
<1>3. SumOver(t, 1 .. m + 1) = SumOver(s, 1 .. m) + t[m + 1] /\ SumOver(s, 1 .. m) \in Int
  BY <1>a, <1>1, <1>2, SumAppended
<1> QED
  BY <1>a, <1>b, <1>1, <1>3

-----------------------------------------------------------------------------
(* Sums of disjoint sets, of an injection, of zeros, and of 0 .. n - 1.     *)
LEMMA SumOfUnion ==
  ASSUME NEW f, NEW A, IsFiniteSet(A), NEW B, IsFiniteSet(B), A \cap B = {},
         \A x \in A \cup B : f[x] \in Int
  PROVE  SumOver(f, A \cup B) = SumOver(f, A) + SumOver(f, B)
<1> DEFINE Adds(X) == SumOver(f, A \cup X) = SumOver(f, A) + SumOver(f, X)
<1> SUFFICES ASSUME ~ Adds(B) PROVE FALSE
  OBVIOUS
<1>1. PICK T : T = {X \in SUBSET B : ~ Adds(X)}
  OBVIOUS
<1>2. T \in SUBSET SUBSET B /\ T # {}
  BY <1>1
<1>3. PICK X \in T : \A Y \in T : Y \subseteq X => Y = X
  BY <1>2, MinimalSet
<1>4. X \in SUBSET B /\ IsFiniteSet(X) /\ ~ Adds(X)
  BY <1>1, FS_Subset
<1>5. SumOver(f, A) \in Int
  BY SumType
<1>6. X # {}
  <2> SUFFICES ASSUME X = {} PROVE FALSE
    OBVIOUS
  <2>1. A \cup X = A /\ SumOver(f, X) = 0
    BY SumEmpty
  <2> QED
    BY <1>4, <1>5, <2>1
<1>7. PICK x : x \in X
  BY <1>6
<1>8. PICK Y : Y = X \ {x}
  OBVIOUS
<1>9. Y \subseteq X /\ Y # X /\ Y \in SUBSET B /\ IsFiniteSet(Y) /\ IsFiniteSet(A \cup Y)
  BY <1>4, <1>7, <1>8, FS_Subset, FS_Union
<1>10. Adds(Y)
  BY <1>1, <1>3, <1>9
<1>11. x \notin Y /\ x \notin A \cup Y /\ f[x] \in Int /\ X = Y \cup {x} /\ A \cup X = (A \cup Y) \cup {x}
  BY <1>4, <1>7, <1>8
<1>12. SumOver(f, Y \cup {x}) = f[x] + SumOver(f, Y) /\ SumOver(f, Y) \in Int
  BY <1>9, <1>11, SumAdd, SumType
<1>13. SumOver(f, (A \cup Y) \cup {x}) = f[x] + SumOver(f, A \cup Y)
  <2>1. \A y \in A \cup Y : f[y] \in Int
    BY <1>9
  <2> QED
    BY <1>9, <1>11, <2>1, SumAdd
<1>14. SumOver(f, X) = f[x] + SumOver(f, Y) /\ SumOver(f, A \cup X) = f[x] + SumOver(f, A \cup Y)
  BY <1>11, <1>12, <1>13, Zenon
<1> QED
  BY <1>4, <1>5, <1>10, <1>11, <1>12, <1>14

LEMMA SumOfImages ==
  ASSUME NEW f, NEW g, NEW S, IsFiniteSet(S), \A x \in S : f[x] \in Int /\ g[f[x]] = f[x],
         \A x, y \in S : f[x] = f[y] => x = y
  PROVE  SumOver(f, S) = SumOver(g, {f[x] : x \in S})
<1> DEFINE Image(X) == {f[x] : x \in X}
           Same(X) == SumOver(f, X) = SumOver(g, Image(X))
<1> SUFFICES ASSUME ~ Same(S) PROVE FALSE
  OBVIOUS
<1>1. PICK T : T = {X \in SUBSET S : ~ Same(X)}
  OBVIOUS
<1>2. T \in SUBSET SUBSET S /\ T # {}
  BY <1>1
<1>3. PICK X \in T : \A Y \in T : Y \subseteq X => Y = X
  BY <1>2, MinimalSet
<1>4. X \in SUBSET S /\ IsFiniteSet(X) /\ ~ Same(X)
  BY <1>1, FS_Subset
<1>5. X # {}
  <2> SUFFICES ASSUME X = {} PROVE FALSE
    OBVIOUS
  <2>1. Image(X) = {}
    OBVIOUS
  <2>2. SumOver(f, X) = 0 /\ SumOver(g, Image(X)) = 0
    BY <2>1, SumEmpty
  <2> QED
    BY <1>4, <2>2
<1>6. PICK x : x \in X
  BY <1>5
<1>7. PICK Y : Y = X \ {x}
  OBVIOUS
<1>8. Y \subseteq X /\ Y # X /\ Y \in SUBSET S /\ IsFiniteSet(Y)
  BY <1>4, <1>6, <1>7, FS_Subset
<1>9. Same(Y)
  BY <1>1, <1>3, <1>8
<1>10. x \notin Y /\ f[x] \in Int /\ X = Y \cup {x}
  BY <1>4, <1>6, <1>7
<1>11. SumOver(f, X) = f[x] + SumOver(f, Y)
  BY <1>8, <1>10, SumAdd
<1>12. f[x] \notin Image(Y) /\ Image(X) = Image(Y) \cup {f[x]} /\ g[f[x]] = f[x]
  BY <1>4, <1>6, <1>7, <1>8, <1>10
<1>13. IsFiniteSet(Image(Y)) /\ \A v \in Image(Y) : g[v] \in Int
  BY <1>8, ImageIsFinite
<1>14. SumOver(g, Image(Y) \cup {f[x]}) = g[f[x]] + SumOver(g, Image(Y))
  BY <1>10, <1>12, <1>13, SumAdd
<1> QED
  BY <1>4, <1>9, <1>11, <1>12, <1>14, Zenon

LEMMA SumOfZeros ==
  ASSUME NEW f, NEW S, IsFiniteSet(S), \A x \in S : f[x] \in Nat
  PROVE  SumOver(f, S) = 0 <=> \A x \in S : f[x] = 0
<1>1. ASSUME NEW x \in S, SumOver(f, S) = 0 PROVE f[x] = 0
  <2>1. SumOver(f, S) = f[x] + SumOver(f, S \ {x})
    BY SumAny
  <2>2. SumOver(f, S \ {x}) \in Nat
    BY FS_RemoveElement, SumBound
  <2> QED
    BY <1>1, <2>1, <2>2
<1>2. ASSUME \A x \in S : f[x] = 0, SumOver(f, S) # 0 PROVE FALSE
  <2>1. PICK T : T = {X \in SUBSET S : SumOver(f, X) # 0}
    OBVIOUS
  <2>2. T \in SUBSET SUBSET S /\ T # {}
    BY <1>2, <2>1
  <2>3. PICK X \in T : \A Y \in T : Y \subseteq X => Y = X
    BY <2>2, MinimalSet
  <2>4. X \in SUBSET S /\ IsFiniteSet(X) /\ SumOver(f, X) # 0
    BY <2>1, FS_Subset
  <2>5. PICK x : x \in X
    BY <2>4, SumEmpty
  <2>6. PICK Y : Y = X \ {x}
    OBVIOUS
  <2>7. SumOver(f, Y) = 0
    BY <2>1, <2>3, <2>4, <2>5, <2>6
  <2>8. SumOver(f, X) = f[x] + SumOver(f, Y) /\ f[x] = 0
    BY <1>2, <2>4, <2>5, <2>6, SumAny
  <2> QED
    BY <2>4, <2>7, <2>8
<1> QED
  BY <1>1, <1>2

Numbers == [v \in Nat |-> v]

LEMMA SumOfNumbers ==
  ASSUME NEW n \in Nat
  PROVE  SumOver(Numbers, 0 .. n - 1) + SumOver(Numbers, 0 .. n - 1) = n * (n - 1)
<1> DEFINE Sum(m) == SumOver(Numbers, 0 .. m - 1)
           Fails(m) == Sum(m) + Sum(m) # m * (m - 1)
<1> SUFFICES ASSUME Fails(n) PROVE FALSE
  OBVIOUS
<1>1. PICK T : T = {0 .. m - 1 : m \in {m \in 0 .. n : Fails(m)}}
  OBVIOUS
<1>2. IsFiniteSet(0 .. n) /\ T \in SUBSET SUBSET (0 .. n) /\ T # {}
  <2>1. IsFiniteSet(0 .. n)
    BY FS_Interval
  <2>2. \A m \in 0 .. n : 0 .. m - 1 \subseteq 0 .. n
    OBVIOUS
  <2>3. n \in 0 .. n
    OBVIOUS
  <2> HIDE DEF Fails
  <2> QED
    BY <1>1, <2>1, <2>2, <2>3
<1>3. PICK X \in T : \A Y \in T : Y \subseteq X => Y = X
  <2>1. PICK N : N = 0 .. n
    OBVIOUS
  <2>2. IsFiniteSet(N) /\ T \in SUBSET SUBSET N /\ T # {}
    BY <1>2, <2>1
  <2> QED
    BY <2>2, MinimalSet
<1>4. PICK m \in 0 .. n : X = 0 .. m - 1 /\ Fails(m)
  BY <1>1 DEF Fails
<1>5. m # 0
  <2> SUFFICES ASSUME m = 0 PROVE FALSE
    OBVIOUS
  <2>1. 0 .. m - 1 = {}
    OBVIOUS
  <2>2. Sum(m) = 0
    BY <2>1, SumEmpty
  <2> QED
    BY <1>4, <2>2
<1>6. PICK k \in 0 .. n : m = k + 1
  BY <1>4, <1>5
<1>7. 0 .. k - 1 \subseteq X /\ 0 .. k - 1 # X
  <2>1. k \in X /\ k \notin 0 .. k - 1
    BY <1>4, <1>6
  <2>2. 0 .. k - 1 \subseteq X
    BY <1>4, <1>6
  <2> QED
    BY <2>1, <2>2
<1>8. ~ Fails(k)
  <2> HIDE DEF Fails
  <2> QED
    BY <1>1, <1>3, <1>6, <1>7
<1>9. Sum(k + 1) = k + Sum(k) /\ Sum(k) \in Int
  <2>1. IsFiniteSet(0 .. k - 1)
    BY <1>6, FS_Interval
  <2>2. \A v \in 0 .. k - 1 : Numbers[v] \in Int
    BY DEF Numbers
  <2>3. Numbers[k] = k /\ k \notin 0 .. k - 1 /\ 0 .. (k + 1) - 1 = (0 .. k - 1) \cup {k}
    BY <1>6 DEF Numbers
  <2>4. SumOver(Numbers, (0 .. k - 1) \cup {k}) = Numbers[k] + SumOver(Numbers, 0 .. k - 1)
    <3>1. PICK S : S = 0 .. k - 1
      OBVIOUS
    <3>2. IsFiniteSet(S) /\ (\A v \in S : Numbers[v] \in Int) /\ k \notin S /\ Numbers[k] \in Int
      BY <1>6, <2>1, <2>2, <2>3, <3>1
    <3>3. SumOver(Numbers, S \cup {k}) = Numbers[k] + SumOver(Numbers, S)
      BY <3>2, SumAdd
    <3> QED
      BY <3>1, <3>3
  <2>5. SumOver(Numbers, 0 .. k - 1) \in Int
    BY <2>1, <2>2, SumType
  <2> QED
    BY <2>3, <2>4, <2>5
<1>10. Sum(k) + Sum(k) = k * (k - 1)
  BY <1>8
<1>11. (k + 1) * ((k + 1) - 1) = k * (k - 1) + k + k
  BY <1>6
<1>12. Sum(m) + Sum(m) = m * (m - 1)
  <2>1. PICK s \in Int : s = Sum(k)
    BY <1>9
  <2>2. Sum(m) = k + s /\ s + s = k * (k - 1)
    BY <1>6, <1>9, <1>10, <2>1
  <2>3. PICK p \in Int : p = k * (k - 1)
    BY <1>6
  <2>4. m * (m - 1) = p + k + k
    BY <1>6, <1>11, <2>3
  <2> QED
    BY <1>6, <2>2, <2>3, <2>4
<1> QED
  BY <1>4, <1>12

(* The numbers below n of a list in which only the one at m may stand a     *)
(* second time add up to n (n - 1) / 2 exactly when those of 1 .. n - 1     *)
(* that are not in it add up to those that are in it twice.                 *)
DistinctBut(s, D, m) ==
  /\ IsFiniteSet(D) /\ \A i \in D : s[i] \in Nat
  /\ \A i, j \in D \ {m} : s[i] = s[j] => i = j
Unlisted(s, D, n) == {v \in 1 .. n - 1 : \A i \in D : s[i] # v}
ListedTwice(s, D, n) ==
  {v \in 0 .. n - 1 : \E i, j \in D : i # j /\ s[i] = v /\ s[j] = v}

Listing(s, D, n, B, V, T) ==
  B = {i \in D : s[i] < n} /\ V = {s[i] : i \in B} /\ T = ListedTwice(s, D, n)

LEMMA SumOfTwice ==
  ASSUME NEW s, NEW D, NEW m, DistinctBut(s, D, m), NEW n \in Nat, n # 0,
         NEW B, NEW V, NEW T, Listing(s, D, n, B, V, T)
  PROVE  /\ SumOver(s, B) = SumOver(Numbers, V) + SumOver(Numbers, T)
         /\ SumOver(Numbers, T) \in Nat
<1>0. B = {i \in D : s[i] < n} /\ V = {s[i] : i \in B} /\ T = ListedTwice(s, D, n)
  BY DEF Listing
<1> USE <1>0
<1>a. /\ IsFiniteSet(D) /\ \A i \in D : s[i] \in Nat
      /\ \A i, j \in D \ {m} : s[i] = s[j] => i = j
  BY DEF DistinctBut
<1>b. V \subseteq 0 .. n - 1 /\ IsFiniteSet(B) /\ B \subseteq D
  <2>1. \A i \in B : s[i] \in 0 .. n - 1
    BY <1>a
  <2> QED
    BY <1>a, <2>1, FS_Subset
<1>c. IsFiniteSet(0 .. n - 1) /\ IsFiniteSet(V)
  <2>0. 0 \in Int /\ n - 1 \in Int
    OBVIOUS
  <2>1. IsFiniteSet(0 .. n - 1)
    BY Zenon, <2>0, FS_Interval
  <2> QED
    BY <1>b, <2>1, FS_Subset
<1>d. \A v \in 0 .. n - 1 : Numbers[v] \in Int /\ Numbers[v] \in Nat /\ Numbers[v] = v
  BY DEF Numbers
<1>e. \A i \in B : s[i] \in Int /\ Numbers[s[i]] = s[i]
  BY <1>a DEF Numbers
<1>f. SumOver(Numbers, V) \in Int
  BY <1>b, <1>c, <1>d, SumType
<1>1. CASE T = {}
  <2>1. ASSUME NEW i \in B, NEW j \in B, s[i] = s[j] PROVE i = j
    <3>1. s[i] \in 0 .. n - 1
      BY <1>a
    <3> QED
      BY <1>1, <1>b, <2>1, <3>1 DEF ListedTwice
  <2>2. SumOver(s, B) = SumOver(Numbers, V)
    BY <1>b, <1>e, <2>1, SumOfImages
  <2>3. SumOver(Numbers, T) = 0
    BY <1>1, SumEmpty
  <2> QED
    BY <1>f, <2>2, <2>3
<1>2. CASE T # {}
  <2>1. \A v \in T : m \in D /\ s[m] = v /\ \E i \in D : i # m /\ s[i] = v
    BY <1>a DEF ListedTwice
  <2>2. m \in D /\ T = {s[m]} /\ s[m] \in 0 .. n - 1 /\ \E i \in D : i # m /\ s[i] = s[m]
    BY <1>2, <2>1 DEF ListedTwice
  <2>3. PICK C : C = B \ {m}
    OBVIOUS
  <2>a. IsFiniteSet(C)
    BY Zenon, <1>b, <2>3, FS_RemoveElement
  <2>4. m \in B /\ IsFiniteSet(C)
    BY <2>2, <2>a
  <2>5. SumOver(s, B) = s[m] + SumOver(s, C)
    BY <1>b, <1>e, <2>3, <2>4, SumAny
  <2>6. \A i, j \in C : s[i] = s[j] => i = j
    BY <1>a, <1>b, <2>3
  <2>7. {s[i] : i \in C} = V
    BY <2>2, <2>3
  <2>8. SumOver(s, C) = SumOver(Numbers, V)
    <3>1. \A i \in C : s[i] \in Int /\ Numbers[s[i]] = s[i]
      BY <1>e, <2>3
    <3>2. SumOver(s, C) = SumOver(Numbers, {s[i] : i \in C})
      BY <2>4, <2>6, <3>1, SumOfImages
    <3> QED
      BY <2>7, <3>2
  <2>9. SumOver(Numbers, T) = s[m] /\ s[m] \in Nat
    <3>0. IsFiniteSet({s[m]})
      BY FS_Singleton
    <3>1. IsFiniteSet(T) /\ s[m] \in T /\ \A v \in T : Numbers[v] \in Int /\ Numbers[v] = v
      BY <1>d, <2>2, <3>0
    <3>2. SumOver(Numbers, T) = Numbers[s[m]] + SumOver(Numbers, T \ {s[m]})
      BY <3>1, SumAny
    <3>3. T \ {s[m]} = {} /\ SumOver(Numbers, {}) = 0
      BY <2>2, SumEmpty
    <3>4. SumOver(Numbers, T \ {s[m]}) = 0
      BY <3>3
    <3>5. SumOver(Numbers, T) = s[m] + 0
      BY <3>1, <3>2, <3>4
    <3> QED
      BY <2>2, <3>5
  <2> QED
    BY <1>f, <2>5, <2>8, <2>9
<1> QED
  BY <1>1, <1>2

LEMMA SumTellsLoss ==
  ASSUME NEW s, NEW D, NEW m, DistinctBut(s, D, m),
         NEW n \in Nat \ {0}, NEW B, B = {i \in D : s[i] < n}
  PROVE  /\ SumOver(s, B) = (n * (n - 1)) \div 2
              <=> SumOver(Numbers, Unlisted(s, D, n)) = SumOver(Numbers, ListedTwice(s, D, n))
         /\ SumOver(Numbers, Unlisted(s, D, n)) = 0 <=> Unlisted(s, D, n) = {}
<1>a. /\ IsFiniteSet(D) /\ \A i \in D : s[i] \in Nat
  BY DEF DistinctBut
<1>1. PICK V : V = {s[i] : i \in B}
  OBVIOUS
<1>2. V \subseteq 0 .. n - 1 /\ IsFiniteSet(B)
  <2>1. \A i \in B : s[i] \in 0 .. n - 1
    BY <1>a
  <2> QED
    BY <1>1, <1>a, <2>1, FS_Subset
<1>3. PICK W : W = (0 .. n - 1) \ V
  OBVIOUS
<1>b. PICK U : U = Unlisted(s, D, n)
  OBVIOUS
<1>c. U = W \ {0}
  <2>1. \A v \in 0 .. n - 1 : v \in V <=> \E i \in D : s[i] = v
    BY <1>1, <1>a
  <2> QED
    BY <1>3, <1>b, <2>1 DEF Unlisted
<1>4. IsFiniteSet(0 .. n - 1) /\ IsFiniteSet(V) /\ IsFiniteSet(W) /\ IsFiniteSet(U)
  <2>0. 0 \in Int /\ n - 1 \in Int
    OBVIOUS
  <2>1. IsFiniteSet(0 .. n - 1)
    BY Zenon, <2>0, FS_Interval
  <2>2. IsFiniteSet(V) /\ IsFiniteSet(W)
    BY <1>2, <1>3, <2>1, FS_Subset
  <2> QED
    BY <1>c, <2>1, <2>2, FS_Subset
<1>d. PICK t : t = SumOver(Numbers, ListedTwice(s, D, n))
  OBVIOUS
<1>5. SumOver(s, B) = SumOver(Numbers, V) + t /\ t \in Nat
  <2>1. PICK T : T = ListedTwice(s, D, n)
    OBVIOUS
  <2>2. /\ SumOver(s, B) = SumOver(Numbers, V) + SumOver(Numbers, T)
        /\ SumOver(Numbers, T) \in Nat
    <3>1. Listing(s, D, n, B, V, T) /\ n \in Nat /\ n # 0
      BY <1>1, <2>1 DEF Listing
    <3> QED
      BY <3>1, SumOfTwice
  <2> QED
    BY <1>d, <2>1, <2>2
<1>6. \A v \in 0 .. n - 1 : Numbers[v] \in Int /\ Numbers[v] \in Nat /\ Numbers[v] = v
  BY DEF Numbers
<1>7. SumOver(Numbers, 0 .. n - 1) = SumOver(Numbers, V) + SumOver(Numbers, W)
  <2>1. V \cap W = {} /\ V \cup W = 0 .. n - 1
    BY <1>2, <1>3
  <2>2. SumOver(Numbers, V \cup W) = SumOver(Numbers, V) + SumOver(Numbers, W)
    BY <1>4, <1>6, <2>1, SumOfUnion
  <2> QED
    BY <2>1, <2>2
<1>8. SumOver(Numbers, V) \in Int /\ SumOver(Numbers, W) \in Int
  <2>1. V \subseteq 0 .. n - 1 /\ W \subseteq 0 .. n - 1
    BY <1>2, <1>3
  <2> QED
    BY <1>4, <1>6, <2>1, SumType
<1>9. SumOver(Numbers, 0 .. n - 1) = (n * (n - 1)) \div 2
  <2>1. PICK a \in Int : a = SumOver(Numbers, 0 .. n - 1)
    BY <1>7, <1>8
  <2>2. PICK p \in Int : p = n * (n - 1)
    OBVIOUS
  <2>3. a + a = p
    BY <2>1, <2>2, SumOfNumbers
  <2>4. p \div 2 = a
    BY <2>3
  <2> QED
    BY <2>1, <2>2, <2>4
<1>10. SumOver(s, B) = (n * (n - 1)) \div 2 <=> SumOver(Numbers, W) = t
  BY <1>5, <1>7, <1>8, <1>9
<1>11. SumOver(Numbers, W) = SumOver(Numbers, U)
  <2>1. CASE 0 \in W
    <3>1. \A v \in W : Numbers[v] \in Int /\ Numbers[v] = v
      BY <1>3, <1>6
    <3>2. SumOver(Numbers, W) = Numbers[0] + SumOver(Numbers, W \ {0})
      BY <1>4, <2>1, <3>1, SumAny
    <3> QED
      BY <1>8, <1>c, <2>1, <3>1, <3>2, SumType, <1>4
  <2>2. CASE 0 \notin W
    <3>1. W = U
      BY <1>c, <2>2
    <3> QED
      BY <3>1
  <2> QED
    BY <2>1, <2>2
<1>12. SumOver(Numbers, U) = 0 <=> U = {}
  <2>1. \A v \in U : Numbers[v] \in Nat /\ Numbers[v] = v /\ v # 0
    BY <1>3, <1>6, <1>c
  <2>2. SumOver(Numbers, U) = 0 <=> \A v \in U : Numbers[v] = 0
    BY <1>4, <2>1, SumOfZeros
  <2> QED
    BY <2>1, <2>2
<1>13. SumOver(s, B) = (n * (n - 1)) \div 2 <=> SumOver(Numbers, U) = t
  BY <1>10, <1>11
<1> QED
  BY <1>12, <1>13, <1>b, <1>d

(* One more for each element of C.                                          *)
RaisedOn(f, S, C) == [x \in S |-> IF x \in C THEN f[x] + 1 ELSE f[x]]

(* Raising the summands of C by one raises the sum by the size of C.        *)
LEMMA SumOfRaised ==
  ASSUME NEW f, NEW S, IsFiniteSet(S), \A x \in S : f[x] \in Int, NEW C \in SUBSET S
  PROVE  SumOver(RaisedOn(f, S, C), S) = SumOver(f, S) + Cardinality(C)
<1> DEFINE Adds(X) == SumOver(RaisedOn(f, S, X), S) = SumOver(f, S) + Cardinality(X)
<1> SUFFICES ASSUME ~ Adds(C) PROVE FALSE
  OBVIOUS
<1>1. PICK T : T = {X \in SUBSET C : ~ Adds(X)}
  OBVIOUS
<1>2. IsFiniteSet(C) /\ T \in SUBSET SUBSET C /\ T # {}
  BY <1>1, FS_Subset
<1>3. PICK X \in T : \A Y \in T : Y \subseteq X => Y = X
  BY <1>2, MinimalSet
<1>4. X \in SUBSET C /\ IsFiniteSet(X) /\ ~ Adds(X)
  BY <1>1, <1>2, FS_Subset
<1>5. SumOver(f, S) \in Int
  BY SumType
<1>6. X # {}
  <2> SUFFICES ASSUME X = {} PROVE FALSE
    OBVIOUS
  <2>1. PICK g : g = RaisedOn(f, S, {})
    OBVIOUS
  <2>2. \A x \in S : f[x] = g[x]
    BY <2>1 DEF RaisedOn
  <2>3. SumOver(f, S) = SumOver(g, S)
    BY <2>2, SumSame
  <2>4. Cardinality({}) = 0
    BY FS_EmptySet
  <2> QED
    BY <1>4, <1>5, <2>1, <2>3, <2>4
<1>7. PICK x : x \in X
  BY <1>6
<1>8. PICK Y : Y = X \ {x}
  OBVIOUS
<1>9. Y \subseteq X /\ Y # X /\ Y \in SUBSET C /\ IsFiniteSet(Y)
  BY <1>4, <1>7, <1>8, FS_Subset
<1>10. Adds(Y)
  BY <1>1, <1>3, <1>9
<1>11. Cardinality(Y) = Cardinality(X) - 1 /\ Cardinality(X) \in Nat
  BY <1>4, <1>7, <1>8, FS_RemoveElement, FS_CardinalityType
<1>12. PICK g : g = RaisedOn(f, S, Y)
  OBVIOUS
<1>13. PICK h : h = RaisedOn(f, S, X)
  OBVIOUS
<1>14. x \in S /\ (\A y \in S : g[y] \in Int) /\ h[x] = g[x] + 1 /\ \A y \in S \ {x} : h[y] = g[y]
  BY <1>4, <1>7, <1>8, <1>12, <1>13 DEF RaisedOn
<1>15. SumOver(h, S) = SumOver(g, S) + 1
  BY <1>14, SumChanged
<1> QED
  BY <1>4, <1>5, <1>10, <1>11, <1>12, <1>13, <1>15

-----------------------------------------------------------------------------
(* Division.                                                                *)

(* Quotient and remainder.                                                  *)
LEMMA DivMod ==
  ASSUME NEW n \in Nat, NEW u \in Nat \ {0}
  PROVE  /\ n \div u \in Nat /\ n % u \in 0 .. u - 1
         /\ n = (n \div u) * u + (n % u)
  OBVIOUS

(* Whole units divide.                                                      *)
LEMMA MulDiv ==
  ASSUME NEW k \in Nat, NEW u \in Nat \ {0}
  PROVE  (k * u) \div u = k
  OBVIOUS

(* Rounding up a whole number of units.                                     *)
LEMMA CeilMul ==
  ASSUME NEW k \in Nat \ {0}, NEW u \in Nat \ {0}
  PROVE  (k * u + k - 1) \div k = u
  OBVIOUS

(* A number rounded up to whole units is a positive number of them.         *)
LEMMA PaddedMultiple ==
  ASSUME NEW n \in Nat \ {0}, NEW u \in Nat \ {0}, NEW e,
         n % u = 0 => e = n, n % u # 0 => e = n + (u - (n % u))
  PROVE  /\ e \in Nat \ {0}
         /\ e \div u \in Nat \ {0}
         /\ e = (e \div u) * u
         /\ n <= e
<1> DEFINE q == n \div u
<1>1. q \in Nat /\ n % u \in 0 .. u - 1 /\ n = q * u + (n % u)
  BY DivMod
<1>2. CASE n % u = 0
  <2>1. e = q * u /\ e = n
    BY <1>1, <1>2
  <2>2. q # 0
    BY <1>1, <1>2
  <2> HIDE DEF q
  <2> QED
    BY <1>1, <2>1, <2>2, MulDiv
<1>3. CASE n % u # 0
  <2>1. e = n + (u - (n % u))
    BY <1>3
  <2> HIDE DEF q
  <2>2. e = q * u + u
    BY <1>1, <2>1
  <2>3. q * u + u = (q + 1) * u /\ q + 1 \in Nat \ {0}
    BY <1>1
  <2>4. ((q + 1) * u) \div u = q + 1
    BY <2>3, MulDiv
  <2>5. e = (q + 1) * u
    BY <2>2, <2>3
  <2>6. e \div u = q + 1
    BY <2>4, <2>5
  <2>7. e \in Nat /\ n <= e
    BY <1>1, <2>1
  <2>8. e # 0
    BY <2>7
  <2> QED
    BY <2>3, <2>5, <2>6, <2>7, <2>8
<1> QED
  BY <1>2, <1>3
=============================================================================
