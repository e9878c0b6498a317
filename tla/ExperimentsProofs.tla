--------------------------- MODULE ExperimentsProofs ---------------------------
(***************************************************************************)
(* The safety properties of Experiments, proved for all dimensions,        *)
(* datasets, orders, configurations and numbers of runs: what killed runs  *)
(* leave in the order files, the lines a run appends, and which of the     *)
(* orders that have lost an id the result check finds.                     *)
(***************************************************************************)
EXTENDS Experiments, SumsProofs

(* The orders a process writes to disk.                                     *)
Known == Orders \cup {Original}

Distinct(s) == \A i, j \in DOMAIN s : s[i] = s[j] => i = j
DistinctIds(o) == o \in Ids /\ Distinct(o.rows) /\ Distinct(o.columns)

LEMMA PaddedIsLonger ==
  ASSUME NEW n \in Nat \ {0}, NEW unit \in Nat \ {0}
  PROVE  Expanded(n, unit) \in Nat \ {0}
<1>1. PICK r \in Nat : r = n % unit /\ r < unit
  OBVIOUS
<1> QED
  BY <1>1 DEF Expanded

LEMMA OrdersAreSequences ==
  ASSUME NEW s, NEW n \in Nat \ {0}, IsOrder(s, n)
  PROVE  s \in Seq(Nat) /\ Len(s) = n /\ Distinct(s)
<1>1. s \in [1 .. n -> Nat]
  BY DEF IsOrder
<1>2. s \in Seq(Nat) /\ Len(s) = n
  BY <1>1
<1> QED
  BY <1>1, <1>2 DEF IsOrder, Distinct

LEMMA IdentityIsSequence ==
  ASSUME NEW n \in Nat \ {0}
  PROVE  Identity(n) \in Seq(Nat) /\ Len(Identity(n)) = n /\ Distinct(Identity(n))
<1>1. Identity(n) \in [1 .. n -> Nat] /\ \A i \in 1 .. n : Identity(n)[i] = i - 1
  BY DEF Identity
<1>2. Identity(n) \in Seq(Nat) /\ Len(Identity(n)) = n
  BY <1>1
<1> QED
  BY <1>1, <1>2 DEF Distinct

LEMMA KnownAreDistinct ==
  ASSUME NEW o \in Known
  PROVE  /\ DistinctIds(o) /\ Tokens(o) \in Nat \ {0} /\ Cut(o, Tokens(o)) = o
         /\ o.columns # <<>>
<1>1. DistinctIds(o) /\ Len(o.rows) \in Nat \ {0} /\ Len(o.columns) \in Nat \ {0}
  <2>1. CASE o \in Orders
    <3>1. Rows \in Nat \ {0} /\ Columns \in Nat \ {0}
      BY DimensionsAssumption, PaddedIsLonger DEF Rows, Columns
    <3> QED
      BY <2>1, <3>1, OrdersAssumption, OrdersAreSequences DEF DistinctIds
  <2>2. CASE o = Original
    BY <2>2, DimensionsAssumption, IdentityIsSequence DEF Original, DistinctIds, Ids
  <2> QED
    BY <2>1, <2>2 DEF Known
<1>a. PICK a : a = Len(o.rows)
  OBVIOUS
<1>b. PICK b : b = Len(o.columns)
  OBVIOUS
<1>2. Tokens(o) \in Nat \ {0}
  <2>1. a \in Nat \ {0} /\ b \in Nat \ {0} /\ Tokens(o) = a + b
    BY <1>1, <1>a, <1>b DEF Tokens
  <2> QED
    BY <2>1
<1>3. Start(o.rows, Tokens(o)) = o.rows /\ Start(o.columns, Tokens(o) - Len(o.rows)) = o.columns
  <2>1. ASSUME NEW s \in Seq(Nat), NEW k \in Int, k >= Len(s) PROVE Start(s, k) = s
    BY <2>1 DEF Start
  <2>2. o.rows \in Seq(Nat) /\ o.columns \in Seq(Nat)
    BY <1>1 DEF DistinctIds, Ids
  <2>3. PICK r \in Seq(Nat) : r = o.rows
    BY <2>2
  <2>4. PICK c \in Seq(Nat) : c = o.columns
    BY <2>2
  <2>5. Len(r) + Len(c) >= Len(r) /\ (Len(r) + Len(c)) - Len(r) >= Len(c)
    OBVIOUS
  <2>6. Start(r, Len(r) + Len(c)) = r /\ Start(c, (Len(r) + Len(c)) - Len(r)) = c
    BY <2>1, <2>5
  <2> QED
    BY <2>3, <2>4, <2>6 DEF Tokens
<1>4. o = [rows |-> o.rows, columns |-> o.columns]
  BY <1>1 DEF DistinctIds, Ids
<1> QED
  BY <1>1, <1>2, <1>3, <1>4 DEF Cut

(* What is read of a cut order: only the last id may stand there twice.     *)
AlmostDistinct(s) == \A i, j \in 1 .. Len(s) - 1 : s[i] = s[j] => i = j
ReadIds(o) == o \in Ids /\ AlmostDistinct(o.rows) /\ AlmostDistinct(o.columns)

LEMMA DistinctIsAlmost ==
  ASSUME NEW s \in Seq(Nat), Distinct(s)
  PROVE  AlmostDistinct(s)
BY DEF Distinct, AlmostDistinct

LEMMA DistinctIsRead ==
  ASSUME NEW o, DistinctIds(o)
  PROVE  ReadIds(o)
<1>1. o.rows \in Seq(Nat) /\ o.columns \in Seq(Nat) /\ Distinct(o.rows) /\ Distinct(o.columns)
  BY DEF DistinctIds, Ids
<1> QED
  BY <1>1, DistinctIsAlmost DEF DistinctIds, ReadIds

LEMMA StartsAreDistinct ==
  ASSUME NEW s \in Seq(Nat), Distinct(s), NEW k \in Int
  PROVE  /\ Start(s, k) \in Seq(Nat) /\ Distinct(Start(s, k))
         /\ Len(Start(s, k)) = IF k < 0 THEN 0 ELSE IF k < Len(s) THEN k ELSE Len(s)
<1>1. PICK m \in Int : m = IF k < Len(s) THEN k ELSE Len(s)
  OBVIOUS
<1>2. m <= Len(s) /\ Start(s, k) = SubSeq(s, 1, m)
  BY <1>1 DEF Start
<1>3. /\ SubSeq(s, 1, m) \in Seq(Nat) /\ DOMAIN SubSeq(s, 1, m) \subseteq DOMAIN s
      /\ \A i \in DOMAIN SubSeq(s, 1, m) : SubSeq(s, 1, m)[i] = s[i]
      /\ Len(SubSeq(s, 1, m)) = IF m < 0 THEN 0 ELSE m
  BY <1>2
<1>4. Len(Start(s, k)) = IF k < 0 THEN 0 ELSE IF k < Len(s) THEN k ELSE Len(s)
  BY <1>1, <1>2, <1>3
<1> QED
  BY <1>2, <1>3, <1>4 DEF Distinct

LEMMA EndsAreAlmost ==
  ASSUME NEW s \in Seq(Nat), Distinct(s), NEW t \in Ends(s)
  PROVE  t \in Seq(Nat) /\ Len(t) = Len(s) /\ AlmostDistinct(t)
<1>1. CASE s = <<>>
  <2>1. t = s
    BY <1>1 DEF Ends
  <2> QED
    BY <2>1, DistinctIsAlmost
<1>2. CASE s # <<>>
  <2>1. PICK f \in Beginnings(s[Len(s)]) : t = [s EXCEPT ![Len(s)] = f]
    BY <1>2 DEF Ends
  <2>2. f \in 0 .. s[Len(s)]
    BY <2>1, Zenon DEF Beginnings
  <2>3. s[Len(s)] \in Nat /\ f \in Nat
    BY <1>2, <2>2
  <2>4. PICK n \in Nat : n = Len(s) /\ n \in 1 .. n /\ s \in [1 .. n -> Nat]
    BY <1>2
  <2>5. t = [s EXCEPT ![n] = f]
    BY <2>1, <2>4
  <2>6. t \in [1 .. n -> Nat] /\ \A i \in 1 .. n - 1 : t[i] = s[i]
    <3>1. PICK g \in [1 .. n -> Nat] : g = s
      BY <2>4
    <3>2. t = [g EXCEPT ![n] = f]
      BY <2>5, <3>1
    <3>3. \A i \in 1 .. n - 1 : i \in 1 .. n /\ i # n
      <4>1. \A x \in Nat : \A i \in 1 .. x - 1 : i \in 1 .. x /\ i # x
        OBVIOUS
      <4>2. n \in Nat
        BY <2>4
      <4> QED
        BY <4>1, <4>2, Zenon
    <3>4. t \in [1 .. n -> Nat]
      BY <2>3, <3>2, Zenon
    <3>5. \A i \in 1 .. n : i # n => t[i] = g[i]
      BY <3>2, Zenon
    <3> QED
      BY <3>1, <3>3, <3>4, <3>5, Zenon
  <2>7. t \in Seq(Nat) /\ Len(t) = n
    BY <2>6
  <2>8. \A i, j \in 1 .. n - 1 : s[i] = s[j] => i = j
    BY <2>4 DEF Distinct
  <2>9. AlmostDistinct(t)
    BY <2>6, <2>7, <2>8 DEF AlmostDistinct
  <2> QED
    BY <2>4, <2>7, <2>9
<1> QED
  BY <1>1, <1>2

LEMMA CutsAreRead ==
  ASSUME NEW o, DistinctIds(o), NEW k \in 1 .. Tokens(o), NEW ids \in CutsAt(o, k)
  PROVE  ReadIds(ids) /\ Tokens(ids) = k
<1>1. o.rows \in Seq(Nat) /\ o.columns \in Seq(Nat) /\ Distinct(o.rows) /\ Distinct(o.columns)
  BY DEF DistinctIds, Ids
<1>2. PICK m \in Nat : m = Len(o.rows)
  BY <1>1
<1>3. PICK n \in Nat : n = Len(o.columns)
  BY <1>1
<1>4. k \in Nat \ {0} /\ k <= m + n
  <2>1. Tokens(o) = m + n
    BY <1>2, <1>3 DEF Tokens
  <2>2. k \in 1 .. m + n
    BY <2>1
  <2> QED
    BY <2>2
<1>5. PICK r : r = Start(o.rows, k)
  OBVIOUS
<1>6. PICK c : c = Start(o.columns, k - m)
  OBVIOUS
<1>7. r \in Seq(Nat) /\ Distinct(r) /\ Len(r) = IF k < m THEN k ELSE m
  BY <1>1, <1>2, <1>4, <1>5, StartsAreDistinct
<1>8. c \in Seq(Nat) /\ Distinct(c) /\ Len(c) = IF k - m < 0 THEN 0 ELSE k - m
  <2>1. PICK d \in Int : d = k - m
    BY <1>4
  <2>2. d <= n
    BY <1>4, <2>1
  <2>3. /\ Start(o.columns, d) \in Seq(Nat) /\ Distinct(Start(o.columns, d))
        /\ Len(Start(o.columns, d)) = IF d < 0 THEN 0 ELSE IF d < n THEN d ELSE n
    BY <1>1, <1>3, StartsAreDistinct
  <2>4. Len(c) = IF d < 0 THEN 0 ELSE d
    BY <1>6, <2>1, <2>2, <2>3
  <2> QED
    BY <1>6, <2>1, <2>3, <2>4
<1>9. Cut(o, k) = [rows |-> r, columns |-> c]
  BY <1>2, <1>5, <1>6 DEF Cut
<1>10. Len(r) + Len(c) = k
  BY <1>4, <1>7, <1>8
<1>11. CASE c = <<>>
  <2>1. PICK s \in Ends(r) : ids = [rows |-> s, columns |-> <<>>]
    BY <1>9, <1>11 DEF CutsAt
  <2>2. s \in Seq(Nat) /\ Len(s) = Len(r) /\ AlmostDistinct(s)
    BY <1>7, <2>1, EndsAreAlmost
  <2>3. <<>> \in Seq(Nat) /\ AlmostDistinct(<<>>) /\ Len(<<>>) = 0
    BY DEF AlmostDistinct
  <2>4. Len(c) = 0
    BY <1>11
  <2>5. ids.rows = s /\ ids.columns = <<>> /\ ids \in Ids
    BY <2>1, <2>2, <2>3 DEF Ids
  <2>6. Tokens(ids) = k
    BY <1>10, <2>2, <2>3, <2>4, <2>5 DEF Tokens
  <2> QED
    BY <2>2, <2>3, <2>5, <2>6 DEF ReadIds
<1>12. CASE c # <<>>
  <2>1. PICK s \in Ends(c) : ids = [rows |-> r, columns |-> s]
    BY <1>9, <1>12 DEF CutsAt
  <2>2. s \in Seq(Nat) /\ Len(s) = Len(c) /\ AlmostDistinct(s)
    BY <1>8, <2>1, EndsAreAlmost
  <2>3. ids.rows = r /\ ids.columns = s /\ ids \in Ids
    BY <1>7, <2>1, <2>2 DEF Ids
  <2>4. Tokens(ids) = k
    BY <1>10, <2>2, <2>3 DEF Tokens
  <2> QED
    BY <1>7, <2>2, <2>3, <2>4, DistinctIsAlmost DEF ReadIds
<1> QED
  BY <1>11, <1>12

LEMMA NothingIsDistinct == DistinctIds(NoIds) /\ ReadIds(NoIds)
<1>1. DistinctIds(NoIds)
  BY DEF DistinctIds, NoIds, Ids, Distinct
<1> QED
  BY <1>1, DistinctIsRead

LEMMA SumBelowTells ==
  ASSUME NEW s \in Seq(Nat), AlmostDistinct(s), NEW n \in Nat \ {0}
  PROVE  /\ SumBelow(s, n) = (n * (n - 1)) \div 2
              <=> SumOfIds(Missing(s, n)) = SumOfIds(Twice(s, n))
         /\ Twice(s, n) = {} =>
              (SumOfIds(Missing(s, n)) = SumOfIds(Twice(s, n)) <=> Missing(s, n) = {})
<1>1. PICK D : D = DOMAIN s
  OBVIOUS
<1>2. PICK m : m = Len(s)
  OBVIOUS
<1>3. DistinctBut(s, D, m)
  <2>1. D = 1 .. m /\ m \in Nat
    BY <1>1, <1>2
  <2>a. IsFiniteSet(1 .. m)
    BY <2>1, FS_Interval
  <2>b. \A i \in D : s[i] \in Nat
    BY <1>1
  <2>2. IsFiniteSet(D) /\ \A i \in D : s[i] \in Nat
    BY <2>1, <2>a, <2>b
  <2>3. \A i \in D \ {m} : i \in 1 .. m - 1
    BY <2>1
  <2> QED
    BY <1>2, <2>2, <2>3 DEF DistinctBut, AlmostDistinct
<1>4. PICK B : B = {i \in D : s[i] < n}
  OBVIOUS
<1>5. SumBelow(s, n) = SumOver(s, B)
  BY <1>1, <1>4, Zenon DEF SumBelow, SumAt, SumOver
<1>6. Missing(s, n) = Unlisted(s, D, n) /\ Twice(s, n) = ListedTwice(s, D, n)
  BY <1>1, Zenon DEF Missing, Unlisted, Twice, ListedTwice
<1>7. ASSUME NEW S \in SUBSET (0 .. n - 1)
      PROVE  SumOfIds(S) = SumOver(Numbers, S)
  <2>1. PICK f : f = [v \in S |-> v]
    OBVIOUS
  <2>a. SumOfIds(S) = SumOver([v \in S |-> v], S)
    BY Zenon DEF SumOfIds, SumAt, SumOver
  <2>2. SumOfIds(S) = SumOver(f, S)
    BY <2>1, <2>a
  <2>3. IsFiniteSet(S)
    <3>1. IsFiniteSet(0 .. n - 1)
      BY FS_Interval
    <3> QED
      BY <3>1, FS_Subset
  <2>4. \A v \in S : f[v] = Numbers[v]
    BY <2>1 DEF Numbers
  <2> QED
    BY <2>2, <2>3, <2>4, SumSame
<1>8. Missing(s, n) \in SUBSET (0 .. n - 1) /\ Twice(s, n) \in SUBSET (0 .. n - 1)
  BY DEF Missing, Twice
<1>9. /\ SumOfIds(Missing(s, n)) = SumOver(Numbers, Missing(s, n))
      /\ SumOfIds(Twice(s, n)) = SumOver(Numbers, Twice(s, n))
  BY <1>7, <1>8
<1>10. /\ SumOver(s, B) = (n * (n - 1)) \div 2
             <=> SumOver(Numbers, Unlisted(s, D, n)) = SumOver(Numbers, ListedTwice(s, D, n))
       /\ SumOver(Numbers, Unlisted(s, D, n)) = 0 <=> Unlisted(s, D, n) = {}
  BY <1>3, <1>4, SumTellsLoss
<1>11. SumOver(Numbers, {}) = 0
  BY SumEmpty
<1>12. Twice(s, n) = {} => SumOfIds(Twice(s, n)) = 0
  BY <1>9, <1>11
<1> QED
  BY <1>5, <1>6, <1>9, <1>10, <1>12

(* What the result check, which compares two sums, says of the lost ids.    *)
CheckTells(o) ==
  /\ Twice(o.rows, MatrixRows) = {} /\ Twice(o.columns, MatrixColumns) = {} =>
       (CheckSum(o) <=> /\ Missing(o.rows, MatrixRows) = {}
                        /\ Missing(o.columns, MatrixColumns) = {})
  /\ CheckSum(o) <=>
       /\ SumOfIds(Missing(o.rows, MatrixRows)) = SumOfIds(Twice(o.rows, MatrixRows))
       /\ SumOfIds(Missing(o.columns, MatrixColumns)) = SumOfIds(Twice(o.columns, MatrixColumns))

LEMMA CheckSumTells ==
  ASSUME NEW o, ReadIds(o)
  PROVE  CheckTells(o)
<1>1. /\ o.rows \in Seq(Nat) /\ o.columns \in Seq(Nat)
      /\ AlmostDistinct(o.rows) /\ AlmostDistinct(o.columns)
  BY DEF ReadIds, Ids
<1>2. /\ SumBelow(o.rows, MatrixRows) = (MatrixRows * (MatrixRows - 1)) \div 2
           <=> SumOfIds(Missing(o.rows, MatrixRows)) = SumOfIds(Twice(o.rows, MatrixRows))
      /\ Twice(o.rows, MatrixRows) = {} =>
           (SumOfIds(Missing(o.rows, MatrixRows)) = SumOfIds(Twice(o.rows, MatrixRows))
              <=> Missing(o.rows, MatrixRows) = {})
  BY <1>1, DimensionsAssumption, SumBelowTells
<1>3. /\ SumBelow(o.columns, MatrixColumns) = (MatrixColumns * (MatrixColumns - 1)) \div 2
           <=> SumOfIds(Missing(o.columns, MatrixColumns)) = SumOfIds(Twice(o.columns, MatrixColumns))
      /\ Twice(o.columns, MatrixColumns) = {} =>
           (SumOfIds(Missing(o.columns, MatrixColumns)) = SumOfIds(Twice(o.columns, MatrixColumns))
              <=> Missing(o.columns, MatrixColumns) = {})
  BY <1>1, DimensionsAssumption, SumBelowTells
<1> QED
  BY <1>2, <1>3, Zenon DEF CheckTells, CheckSum

-----------------------------------------------------------------------------
(* The type invariant as the steps need it: every order file, not only      *)
(* those looked at, and the whole report.                                   *)
Reports ==
  [exp : 0 .. 4, dataset : DatasetNames \cup {""}, scheme : {"", "HyperMR", "Other"},
   aware : BOOLEAN, order : Ids, figures : Ids, checked : {"none", "true", "false"}]

Typed ==
  /\ TypeOK
  /\ files \in [OrderDirs -> [DatasetNames -> [tiles : Ids, ids : Ids]]]
  /\ report \in Reports

(* The imprints hold the original order between schemes, and while a file   *)
(* is written an order that has just been scanned.                          *)
ImprintOK ==
  /\ pc = "schemes" => imprint = Original
  /\ pc = "writing" => /\ imprint \in Known /\ scanned = imprint
                       /\ Head(schemes) = "Other" => imprint = Original

ReportOK ==
  /\ ReadIds(report.order)
  /\ FiguresAreRight /\ CheckFindsLostIds

(* An order file is empty or a cut of an order the process wrote.           *)
IsCutOf(file) ==
  \/ file = EmptyFile
  \/ /\ file.tiles \in Known
     /\ Tokens(file.ids) \in 1 .. Tokens(file.tiles)
     /\ file.ids \in CutsAt(file.tiles, Tokens(file.ids))

FilesOK == \A dir \in OrderDirs, d \in DatasetNames : IsCutOf(files[dir][d])

(* How far the run has come: the datasets left are the last of the list,    *)
(* and, but in experiment 4, all before them were readable.                 *)
Position == Len(Datasets) - Len(queue)
Prefix(i) == \A j \in 1 .. i : Datasets[j] \in readable

ProgressOK ==
  pc # "idle" =>
    /\ round \in 1 .. Rounds
    /\ Len(queue) <= Len(Datasets)
    /\ \A j \in 1 .. Len(queue) : queue[j] = Datasets[Position + j]
    /\ pc # "datasets" => queue # <<>>
    /\ cfg.exp # 4 /\ queue # <<>> => Prefix(Position)
    /\ cfg.exp # 4 /\ pc = "schemes" => Prefix(Position + 1)
    /\ pc = "writing" => cfg.exp = 4

SchemesOK ==
  pc \in {"schemes", "writing"} =>
    /\ Len(schemes) <= Len(Chosen(cfg))
    /\ \A j \in DOMAIN schemes : schemes[j] \in cfg.schemes
    /\ \A i, j \in DOMAIN schemes : schemes[i] = schemes[j] => i = j

(* The lines appended to a directory for dataset i so far.                  *)
Wants(dir) ==
  /\ cfg.output /\ cfg.exp # 4
  /\ IF dir = "Uncompression" THEN cfg.schemes = {} /\ ~ cfg.show
                              ELSE \E s \in cfg.schemes : dir = Dir(s)
Waits(dir) == \E j \in DOMAIN schemes : dir = Dir(schemes[j])
Served(dir, i) ==
  \/ i <= Position
  \/ pc = "schemes" /\ i = Position + 1 /\ dir # "Uncompression" /\ ~ Waits(dir)
LinesOf(dir, i) ==
  IF Wants(dir) /\ Prefix(i) THEN IF Served(dir, i) THEN round ELSE round - 1
                             ELSE 0

LinesOK ==
  pc # "idle" => \A dir \in ResultDirs, i \in DOMAIN Datasets :
                   saved[dir][Datasets[i]] = LinesOf(dir, i)

Logged(i) ==
  /\ Prefix(i)
  /\ \/ round > 1 \/ i <= Position
     \/ pc = "schemes" /\ i = Position + 1 /\ schemes # Chosen(cfg)

LoggedOK ==
  pc # "idle" /\ cfg.exp # 4 =>
    \A i \in DOMAIN Datasets : Datasets[i] \in reported <=> Logged(i)

(* The inductive invariant.                                                 *)
IInv ==
  /\ Typed /\ ImprintOK /\ ReportOK /\ FilesOK
  /\ ProgressOK /\ SchemesOK /\ LinesOK /\ LoggedOK /\ LinesAreComplete

-----------------------------------------------------------------------------
LEMMA ChosenSchemes ==
  ASSUME NEW c \in Configs
  PROVE  /\ c.schemes \subseteq {"HyperMR", "Other"}
         /\ Chosen(c) \in Seq({"HyperMR", "Other"})
         /\ \A j \in DOMAIN Chosen(c) : Chosen(c)[j] \in c.schemes
         /\ \A s \in c.schemes : \E j \in DOMAIN Chosen(c) : Chosen(c)[j] = s
         /\ \A i, j \in DOMAIN Chosen(c) : Chosen(c)[i] = Chosen(c)[j] => i = j
<1>1. c.schemes \subseteq {"HyperMR", "Other"}
  BY ConfigsAssumption DEF Keywords
<1>2. PICK a : a = IF "HyperMR" \in c.schemes THEN <<"HyperMR">> ELSE <<>>
  OBVIOUS
<1>3. PICK b : b = IF "Other" \in c.schemes THEN <<"Other">> ELSE <<>>
  OBVIOUS
<1>4. Chosen(c) = a \o b
  BY <1>2, <1>3 DEF Chosen
<1>5. CASE "HyperMR" \in c.schemes /\ "Other" \in c.schemes
  <2>1. a = <<"HyperMR">> /\ b = <<"Other">>
    BY <1>2, <1>3, <1>5
  <2>2. /\ a \in Seq({"HyperMR", "Other"}) /\ b \in Seq({"HyperMR", "Other"})
        /\ Len(a) = 1 /\ Len(b) = 1 /\ a[1] = "HyperMR" /\ b[1] = "Other"
    BY <2>1
  <2>3. /\ Chosen(c) \in Seq({"HyperMR", "Other"}) /\ DOMAIN Chosen(c) = {1, 2}
        /\ Chosen(c)[1] = "HyperMR" /\ Chosen(c)[2] = "Other"
    <3>1. /\ a \o b \in Seq({"HyperMR", "Other"}) /\ Len(a \o b) = 2
          /\ (a \o b)[1] = a[1] /\ (a \o b)[2] = b[1]
      <4>1. /\ \A i \in 1 .. Len(a) : (a \o b)[i] = a[i]
            /\ \A i \in 1 .. Len(b) : (a \o b)[Len(a) + i] = b[i]
        BY <2>2, ConcatProperties
      <4>2. a \o b \in Seq({"HyperMR", "Other"}) /\ Len(a \o b) = 2
        BY <2>2, ConcatProperties
      <4> QED
        BY <2>2, <4>1, <4>2
    <3>2. DOMAIN (a \o b) = 1 .. 2
      BY <3>1
    <3>3. 1 .. 2 = {1, 2}
      OBVIOUS
    <3> QED
      BY <1>4, <2>2, <3>1, <3>2, <3>3
  <2> QED
    BY <1>1, <1>5, <2>3
<1>6. CASE "HyperMR" \in c.schemes /\ "Other" \notin c.schemes
  <2>1. Chosen(c) = <<"HyperMR">>
    BY <1>2, <1>3, <1>4, <1>6
  <2> QED
    BY <1>1, <1>6, <2>1
<1>7. CASE "HyperMR" \notin c.schemes /\ "Other" \in c.schemes
  <2>1. Chosen(c) = <<"Other">>
    BY <1>2, <1>3, <1>4, <1>7
  <2> QED
    BY <1>1, <1>7, <2>1
<1>8. CASE "HyperMR" \notin c.schemes /\ "Other" \notin c.schemes
  <2>1. Chosen(c) = <<>>
    BY <1>2, <1>3, <1>4, <1>8
  <2> QED
    BY <1>1, <1>8, <2>1
<1> QED
  BY <1>5, <1>6, <1>7, <1>8

(* The directories of two schemes differ.                                   *)
LEMMA SchemeDirs ==
  ASSUME NEW s \in {"HyperMR", "Other"}, NEW t \in {"HyperMR", "Other"}
  PROVE  /\ Dir(s) \in OrderDirs /\ Dir(s) \in ResultDirs /\ Dir(s) # "Uncompression"
         /\ Dir(s) = Dir(t) => s = t
BY DEF Dir, OrderDirs, ResultDirs

LEMMA KnownAreIds == ASSUME NEW o \in Known PROVE o \in Ids
BY KnownAreDistinct DEF DistinctIds

LEMMA EmptyIsCut == IsCutOf(EmptyFile) /\ EmptyFile.ids = NoIds
BY DEF IsCutOf, EmptyFile, File

LEMMA WholeIsCut ==
  ASSUME NEW o \in Known
  PROVE  IsCutOf(File(o, o))
<1>1. Tokens(o) \in 1 .. Tokens(o) /\ Cut(o, Tokens(o)) = o /\ o.columns \in Seq(Nat)
  BY KnownAreDistinct DEF DistinctIds, Ids
<1>2. o.columns # <<>>
  BY KnownAreDistinct
<1>3. o.columns \in Ends(o.columns)
  <2>1. PICK c \in Seq(Nat) : c = o.columns
    BY <1>1
  <2>2. c # <<>> /\ c[Len(c)] \in Nat
    BY <1>2, <2>1
  <2>3. PICK v \in Nat : v = c[Len(c)]
    BY <2>2
  <2>4. v \in 0 .. v
    BY <2>3
  <2>5. v \in Beginnings(v)
    BY <2>4, Zenon DEF Beginnings
  <2>6. c = [c EXCEPT ![Len(c)] = v]
    BY <2>2, <2>3
  <2>7. Ends(c) = {[c EXCEPT ![Len(c)] = f] : f \in Beginnings(v)}
    BY <2>2, <2>3, Zenon DEF Ends
  <2> QED
    BY <2>1, <2>5, <2>6, <2>7
<1>4. o = [rows |-> o.rows, columns |-> o.columns]
  BY KnownAreDistinct DEF DistinctIds, Ids
<1>5. o \in CutsAt(o, Tokens(o))
  BY <1>1, <1>2, <1>3, <1>4 DEF CutsAt
<1> QED
  BY <1>1, <1>5 DEF IsCutOf, File

(* What is read back from an order file, written whole or not.              *)
LEMMA LoadedIsRead ==
  ASSUME NEW file, IsCutOf(file)
  PROVE  ReadIds(file.ids)
<1>1. CASE file = EmptyFile
  BY <1>1, EmptyIsCut, NothingIsDistinct
<1>2. CASE /\ file.tiles \in Known
           /\ Tokens(file.ids) \in 1 .. Tokens(file.tiles)
           /\ file.ids \in CutsAt(file.tiles, Tokens(file.ids))
  <2>1. DistinctIds(file.tiles)
    BY <1>2, KnownAreDistinct
  <2> QED
    BY <1>2, <2>1, CutsAreRead
<1> QED
  BY <1>1, <1>2 DEF IsCutOf

(* The order a scheme of execution_test leaves.                             *)
LEMMA SchemeOrder ==
  ASSUME IInv, pc = "schemes", queue # <<>>, NEW s, NEW o \in Reordered(s)
  PROVE  ReadIds(o) /\ (s # "HyperMR" => o = Original)
<1>1. imprint = Original /\ Original \in Known
  BY DEF IInv, ImprintOK, Known
<1>2. CASE s # "HyperMR"
  BY <1>1, <1>2, KnownAreDistinct, DistinctIsRead DEF Reordered
<1>3. CASE s = "HyperMR"
  <2>1. o \in Orders \/ o = LoadMat(Head(queue))
    BY <1>3 DEF Reordered
  <2>2. CASE o \in Orders
    BY <1>3, <2>2, KnownAreDistinct, DistinctIsRead DEF Known
  <2>3. CASE o = LoadMat(Head(queue))
    <3>1. Head(queue) \in DatasetNames
      BY DEF IInv, Typed, TypeOK
    <3>2. IsCutOf(files["HyperMR"][Head(queue)])
      BY <3>1 DEF IInv, FilesOK, OrderDirs
    <3> QED
      BY <1>3, <2>3, <3>2, LoadedIsRead DEF LoadMat
  <2> QED
    BY <2>1, <2>2, <2>3
<1> QED
  BY <1>2, <1>3

(* The order that experiment 4 is about to write.                           *)
LEMMA BaselineOrder ==
  ASSUME IInv, RunBaseline
  PROVE  /\ imprint' \in Known /\ scanned' = imprint'
         /\ Head(schemes) = "Other" => imprint' = Original
BY DEF IInv, ImprintOK, RunBaseline, ScanBaseline, Known

-----------------------------------------------------------------------------
LEMMA InitIInv == Init => IInv
<1> SUFFICES ASSUME Init PROVE IInv
  OBVIOUS
<1>1. PICK o \in Orders : files = [dir \in OrderDirs |-> [d \in DatasetNames |->
                            IF dir = "HyperMR" THEN File(o, o) ELSE EmptyFile]]
  BY DEF Init
<1>2. o \in Known /\ o \in Ids /\ NoIds \in Ids
  BY OrdersAssumption, NothingIsDistinct DEF Known, DistinctIds
<1>3. \A dir \in OrderDirs, d \in DatasetNames :
        files[dir][d] \in [tiles : Ids, ids : Ids] /\ IsCutOf(files[dir][d])
  BY <1>1, <1>2, WholeIsCut, EmptyIsCut DEF EmptyFile, File
<1>4. files \in [OrderDirs -> [DatasetNames -> [tiles : Ids, ids : Ids]]]
  BY <1>1, <1>3
<1>5. cfg \in Configs
  BY ConfigsAssumption DEF Init
<1>6. saved \in [ResultDirs -> [DatasetNames -> Nat]]
  BY DEF Init, NothingSaved
<1>7. report \in Reports /\ report.checked = "none" /\ report.scheme = ""
      /\ report.order = NoIds /\ report.figures = NoIds
  <2>1. report = NoReport
    BY DEF Init
  <2>2. /\ NoReport.checked = "none" /\ NoReport.scheme = ""
        /\ NoReport.order = NoIds /\ NoReport.figures = NoIds
    BY DEF NoReport
  <2>3. NoReport \in Reports
    BY <1>2 DEF NoReport, Reports
  <2> QED
    BY <2>1, <2>2, <2>3
<1>8. Typed
  <2>1. /\ readable \subseteq DatasetNames /\ round \in Nat /\ pc = "idle"
        /\ queue \in Seq(DatasetNames) /\ schemes \in Seq({"HyperMR", "Other"})
        /\ imprint \in Ids /\ scanned \in Ids
        /\ reported \subseteq DatasetNames /\ killed \in BOOLEAN /\ runs \in 0 .. MaxRuns
    <3>1. /\ readable = {} /\ round = 0 /\ pc = "idle" /\ queue = <<>> /\ schemes = <<>>
          /\ imprint = NoIds /\ scanned = NoIds /\ reported = {} /\ killed = FALSE /\ runs = 0
      BY DEF Init
    <3>2. killed \in BOOLEAN /\ readable \subseteq DatasetNames /\ reported \subseteq DatasetNames
          /\ imprint \in Ids /\ scanned \in Ids
      BY <1>2, <3>1, Zenon
    <3>3. queue \in Seq(DatasetNames) /\ schemes \in Seq({"HyperMR", "Other"})
      BY <3>1
    <3>4. round \in Nat /\ runs \in 0 .. MaxRuns
      BY <3>1, RunsAssumption
    <3> QED
      BY <3>1, <3>2, <3>3, <3>4
  <2> QED
    BY <1>3, <1>4, <1>5, <1>6, <1>7, <2>1 DEF Typed, TypeOK
<1>9. ReportOK
  BY <1>7, NothingIsDistinct
  DEF ReportOK, FiguresAreRight, FiguresAreOfTheOrder, EmptySchemesReportTheOriginal,
      CheckFindsLostIds
<1> QED
  BY <1>3, <1>8, <1>9
  DEF IInv, Init, ImprintOK, FilesOK, ProgressOK, SchemesOK, LinesOK, LoggedOK, LinesAreComplete

(* Lines are numbers, wherever one is appended.                             *)
LEMMA AppendType ==
  ASSUME NEW dir \in ResultDirs, saved \in [ResultDirs -> [DatasetNames -> Nat]],
         Head(queue) \in DatasetNames, AppendLine(dir)
  PROVE  saved' \in [ResultDirs -> [DatasetNames -> Nat]]
<1>1. CASE ~ cfg.output
  BY <1>1 DEF AppendLine
<1>2. CASE cfg.output
  <2>1. saved' = [saved EXCEPT ![dir][Head(queue)] = @ + 1]
    BY <1>2 DEF AppendLine
  <2>2. saved[dir][Head(queue)] + 1 \in Nat
    OBVIOUS
  <2> QED
    BY <2>1, <2>2
<1> QED
  BY <1>1, <1>2

LEMMA QueueTypes ==
  ASSUME NEW S, NEW q \in Seq(S), q # <<>>
  PROVE  /\ Head(q) \in S /\ Tail(q) \in Seq(S) /\ Head(q) = q[1]
         /\ Len(Tail(q)) = Len(q) - 1 /\ Len(q) \in Nat \ {0}
         /\ \A j \in 1 .. Len(q) - 1 : Tail(q)[j] = q[j + 1]
OBVIOUS

LEMMA NextTyped == IInv /\ [Next]_vars => Typed'
<1> SUFFICES ASSUME IInv, [Next]_vars PROVE Typed'
  OBVIOUS
<1> USE DEF IInv, run
<1>1. CASE StartRun
  <2>1. NoReport \in Reports /\ NoReport.checked = "none"
    BY NothingIsDistinct DEF NoReport, Reports, DistinctIds
  <2>2. NothingSaved \in [ResultDirs -> [DatasetNames -> Nat]]
    BY DEF NothingSaved
  <2>3. /\ cfg' \in Configs /\ readable' \subseteq DatasetNames /\ round' \in Nat
        /\ pc' = "datasets" /\ queue' \in Seq(DatasetNames) /\ reported' = {}
        /\ killed' \in BOOLEAN /\ report' = NoReport /\ saved' = NothingSaved
    BY <1>1, DatasetsAssumption DEF StartRun
  <2>4. runs' \in 0 .. MaxRuns
    BY <1>1, RunsAssumption DEF StartRun, Typed, TypeOK
  <2>5. UNCHANGED <<files, schemes, imprint, scanned>>
    BY <1>1 DEF StartRun
  <2> QED
    BY <2>1, <2>2, <2>3, <2>4, <2>5 DEF Typed, TypeOK
<1>2. CASE ReadDataset
  <2>1. Original \in Ids
    BY KnownAreIds DEF Known
  <2>2. Chosen(cfg) \in Seq({"HyperMR", "Other"})
    BY ChosenSchemes DEF Typed, TypeOK
  <2> QED
    BY <1>2, <2>1, <2>2 DEF ReadDataset, Typed, TypeOK
<1>3. CASE ReadFail
  <2>1. queue' \in Seq(DatasetNames)
    BY <1>3, QueueTypes DEF ReadFail, AfterReadFail, Typed, TypeOK
  <2> QED
    BY <1>3, <2>1 DEF ReadFail, Typed, TypeOK
<1>4. CASE RunScheme
  <2>1. queue # <<>> /\ Head(queue) \in DatasetNames
    BY <1>4 DEF RunScheme, ProgressOK, Typed, TypeOK
  <2>2. Head(schemes) \in {"HyperMR", "Other"} /\ Tail(schemes) \in Seq({"HyperMR", "Other"})
    BY <1>4, QueueTypes DEF RunScheme, Typed, TypeOK
  <2>3. PICK o \in Reordered(Head(schemes)) :
          /\ scanned' = Scan(o) /\ report' = Report(Head(schemes), o, Scan(o))
          /\ AppendLine(Dir(Head(schemes))) /\ imprint' = Reset(o)
    BY <1>4 DEF RunScheme
  <2>4. o \in Ids
    BY <1>4, <2>1, <2>3, SchemeOrder DEF RunScheme, ReadIds
  <2>5. Original \in Ids /\ imprint' = Original /\ scanned' \in Ids
    BY <2>3, <2>4, KnownAreIds DEF Known, Reset, Scan, Typed, TypeOK
  <2>6. cfg.exp \in 0 .. 4 /\ cfg.aware \in BOOLEAN
    BY ConfigsAssumption DEF Typed, TypeOK, Keywords
  <2>7. report' \in Reports /\ report'.checked \in {"none", "true", "false"}
    BY <2>1, <2>2, <2>3, <2>4, <2>5, <2>6 DEF Report, Reports, CheckResult
  <2>8. saved' \in [ResultDirs -> [DatasetNames -> Nat]]
    BY <2>1, <2>2, <2>3, AppendType, SchemeDirs DEF Typed, TypeOK
  <2> QED
    BY <1>4, <2>1, <2>2, <2>5, <2>7, <2>8 DEF RunScheme, Typed, TypeOK
<1>5. CASE FinishDataset
  <2>1. queue # <<>> /\ Head(queue) \in DatasetNames /\ Tail(queue) \in Seq(DatasetNames)
    BY <1>5, QueueTypes DEF FinishDataset, ProgressOK, Typed, TypeOK
  <2>2. saved' \in [ResultDirs -> [DatasetNames -> Nat]]
    BY <1>5, <2>1, AppendType DEF FinishDataset, ResultDirs, Typed, TypeOK
  <2> QED
    BY <1>5, <2>1, <2>2 DEF FinishDataset, Typed, TypeOK
<1>6. CASE RunBaseline
  <2>1. queue # <<>> /\ Head(queue) \in DatasetNames
    BY <1>6 DEF RunBaseline, ProgressOK, Typed, TypeOK
  <2>2. Head(schemes) \in {"HyperMR", "Other"} /\ Dir(Head(schemes)) \in OrderDirs
    BY <1>6, QueueTypes, SchemeDirs DEF RunBaseline, Typed, TypeOK
  <2>3. imprint' \in Ids /\ scanned' \in Ids /\ EmptyFile \in [tiles : Ids, ids : Ids]
    BY <1>6, BaselineOrder, KnownAreIds, NothingIsDistinct DEF EmptyFile, File, DistinctIds
  <2>4. files' \in [OrderDirs -> [DatasetNames -> [tiles : Ids, ids : Ids]]]
    BY <1>6, <2>1, <2>2, <2>3 DEF RunBaseline, Typed
  <2>5. cfg.exp \in 0 .. 4 /\ cfg.aware \in BOOLEAN
    BY ConfigsAssumption DEF Typed, TypeOK, Keywords
  <2>6. report' \in Reports /\ report'.checked \in {"none", "true", "false"}
    BY <1>6, <2>1, <2>2, <2>3, <2>5 DEF RunBaseline, Report, Reports, CheckResult
  <2> QED
    BY <1>6, <2>1, <2>2, <2>3, <2>4, <2>6 DEF RunBaseline, Typed, TypeOK
<1>7. CASE FlushFile
  <2>1. schemes # <<>> /\ queue # <<>> /\ Head(queue) \in DatasetNames /\ DistinctIds(imprint)
    BY <1>7, KnownAreDistinct DEF FlushFile, ImprintOK, Typed, TypeOK
  <2>2. PICK k \in 1 .. Tokens(imprint) : \E ids \in CutsAt(imprint, k) :
          files' = [files EXCEPT ![Dir(Head(schemes))][Head(queue)] = File(scanned, ids)]
    BY <1>7 DEF FlushFile
  <2>2a. PICK ids \in CutsAt(imprint, k) :
          files' = [files EXCEPT ![Dir(Head(schemes))][Head(queue)] = File(scanned, ids)]
    BY <2>2
  <2>3. File(scanned, ids) \in [tiles : Ids, ids : Ids]
    BY <2>1, <2>2a, CutsAreRead DEF File, ReadIds, Typed, TypeOK
  <2>4. files' \in [OrderDirs -> [DatasetNames -> [tiles : Ids, ids : Ids]]]
    BY <2>2a, <2>3 DEF Typed
  <2> QED
    BY <1>7, <2>4 DEF FlushFile, Typed, TypeOK
<1>8. CASE CloseFile
  <2>1. schemes # <<>> /\ queue # <<>> /\ Tail(schemes) \in Seq({"HyperMR", "Other"})
    BY <1>8, QueueTypes DEF CloseFile, Typed, TypeOK
  <2>2. imprint' = Original /\ Original \in Ids
    BY <1>8, KnownAreIds DEF CloseFile, Reset, Known
  <2>3. files' \in [OrderDirs -> [DatasetNames -> [tiles : Ids, ids : Ids]]]
    BY <1>8 DEF CloseFile, Typed, TypeOK, File
  <2> QED
    BY <1>8, <2>1, <2>2, <2>3 DEF CloseFile, Typed, TypeOK
<1>9. CASE NextRound
  BY <1>9, DatasetsAssumption DEF NextRound, Typed, TypeOK
<1>10. CASE EndRun \/ Kill
  <2>1. NoIds \in Ids /\ imprint' = NoIds /\ scanned' = NoIds /\ queue' = <<>> /\ schemes' = <<>>
        /\ pc' = "idle" /\ killed' \in BOOLEAN
    BY <1>10, NothingIsDistinct DEF EndRun, Kill, Lost, DistinctIds, Typed, TypeOK
  <2> QED
    BY <1>10, <2>1 DEF EndRun, Kill, Typed, TypeOK
<1>11. CASE UNCHANGED vars
  BY <1>11 DEF vars, Typed, TypeOK
<1> QED
  BY <1>1, <1>2, <1>3, <1>4, <1>5, <1>6, <1>7, <1>8, <1>9, <1>10, <1>11 DEF Next, Step

LEMMA NextImprint == IInv /\ [Next]_vars => ImprintOK'
<1> SUFFICES ASSUME IInv, [Next]_vars PROVE ImprintOK'
  OBVIOUS
<1> USE DEF IInv, run, ImprintOK
<1>1. CASE StartRun \/ ReadFail \/ FinishDataset \/ NextRound \/ EndRun \/ Kill
  <2>1. pc' \in {"datasets", "idle"}
    BY <1>1 DEF StartRun, ReadFail, FinishDataset, NextRound, EndRun, Kill
  <2> QED
    BY <2>1
<1>2. CASE ReadDataset
  BY <1>2 DEF ReadDataset
<1>3. CASE RunScheme
  BY <1>3 DEF RunScheme, Reset
<1>4. CASE RunBaseline
  BY <1>4, BaselineOrder DEF RunBaseline
<1>5. CASE FlushFile
  BY <1>5 DEF FlushFile
<1>6. CASE CloseFile
  BY <1>6 DEF CloseFile, Reset
<1>7. CASE UNCHANGED vars
  BY <1>7 DEF vars
<1> QED
  BY <1>1, <1>2, <1>3, <1>4, <1>5, <1>6, <1>7 DEF Next, Step

(* A report is right as soon as its order is distinct and of its scheme.    *)
LEMMA ReportIsRight ==
  ASSUME NEW scheme, NEW o, NEW figures, ReadIds(o),
         scheme = "Other" => o = Original, cfg.ratio \/ cfg.exp = 4 => figures = o,
         report' = Report(scheme, o, figures), cfg' = cfg
  PROVE  ReportOK'
<1>1. /\ report'.order = o /\ report'.figures = figures /\ report'.scheme = scheme
      /\ report'.exp = cfg.exp /\ report'.checked = CheckResult(o)
  BY DEF Report
<1>2. CheckResult(o) # "none" => (CheckResult(o) = "true" <=> CheckSum(o))
  BY DEF CheckResult
<1>3. CheckTells(o)
  BY CheckSumTells
<1>4. CheckFindsLostIds'
  BY <1>1, <1>2, <1>3 DEF CheckFindsLostIds, CheckTells
<1> QED
  BY <1>1, <1>4
  DEF ReportOK, FiguresAreRight, FiguresAreOfTheOrder, EmptySchemesReportTheOriginal

LEMMA NextReport == IInv /\ [Next]_vars => ReportOK'
<1> SUFFICES ASSUME IInv, [Next]_vars PROVE ReportOK'
  OBVIOUS
<1> USE DEF IInv, run
<1>1. CASE StartRun
  <2>1. report' = NoReport
    BY <1>1 DEF StartRun
  <2>2. /\ NoReport.checked = "none" /\ NoReport.scheme = ""
        /\ NoReport.order = NoIds /\ NoReport.figures = NoIds
    BY DEF NoReport
  <2> QED
    BY <2>1, <2>2, NothingIsDistinct
    DEF ReportOK, FiguresAreRight, FiguresAreOfTheOrder, EmptySchemesReportTheOriginal,
        CheckFindsLostIds
<1>2. CASE RunScheme
  <2>1. PICK o \in Reordered(Head(schemes)) : report' = Report(Head(schemes), o, Scan(o))
    BY <1>2 DEF RunScheme
  <2>2. pc = "schemes" /\ queue # <<>> /\ cfg.exp # 4 /\ cfg' = cfg
    BY <1>2 DEF RunScheme, ProgressOK
  <2>3. ReadIds(o) /\ (Head(schemes) = "Other" => o = Original)
    BY <2>1, <2>2, SchemeOrder
  <2>4. cfg.ratio => Scan(o) = o
    BY DEF Scan
  <2> QED
    BY <2>1, <2>2, <2>3, <2>4, ReportIsRight
<1>3. CASE RunBaseline
  <2>1. report' = Report(Head(schemes), imprint', scanned') /\ cfg' = cfg
    BY <1>3 DEF RunBaseline
  <2>2. /\ imprint' \in Known /\ scanned' = imprint'
        /\ Head(schemes) = "Other" => imprint' = Original
    BY <1>3, BaselineOrder
  <2>3. ReadIds(imprint')
    BY <2>2, KnownAreDistinct, DistinctIsRead
  <2> QED
    BY <2>1, <2>2, <2>3, ReportIsRight
<1>4. CASE \/ ReadDataset \/ ReadFail \/ FinishDataset \/ FlushFile \/ CloseFile
           \/ NextRound \/ EndRun \/ Kill \/ UNCHANGED vars
  <2>1. report' = report /\ cfg' = cfg
    BY <1>4 DEF ReadDataset, ReadFail, FinishDataset, FlushFile, CloseFile, NextRound, EndRun, Kill, vars
  <2> QED
    BY <2>1
    DEF ReportOK, FiguresAreRight, FiguresAreOfTheOrder, EmptySchemesReportTheOriginal,
        CheckFindsLostIds
<1> QED
  BY <1>1, <1>2, <1>3, <1>4 DEF Next, Step

LEMMA NextFiles == IInv /\ [Next]_vars => FilesOK' /\ FilesAreCuts'
<1> SUFFICES ASSUME IInv, [Next]_vars, NEW dir \in OrderDirs, NEW d \in DatasetNames
             PROVE  IsCutOf(files'[dir][d])
  BY DEF FilesOK, FilesAreCuts, IsCutOf
<1> USE DEF IInv, run
<1>0. IsCutOf(files[dir][d]) /\ files \in [OrderDirs -> [DatasetNames -> [tiles : Ids, ids : Ids]]]
  BY DEF FilesOK, Typed
<1>1. ASSUME NEW e, NEW f, IsCutOf(f), files' = [files EXCEPT ![e][Head(queue)] = f]
      PROVE  IsCutOf(files'[dir][d])
  <2>1. files'[dir][d] = files[dir][d] \/ files'[dir][d] = f
    BY <1>0, <1>1
  <2> QED
    BY <1>0, <1>1, <2>1
<1>2. CASE RunBaseline
  BY <1>1, <1>2, EmptyIsCut DEF RunBaseline
<1>3. CASE FlushFile
  <2>1. PICK k \in 1 .. Tokens(imprint) : \E ids \in CutsAt(imprint, k) :
          files' = [files EXCEPT ![Dir(Head(schemes))][Head(queue)] = File(scanned, ids)]
    BY <1>3 DEF FlushFile
  <2>1a. PICK ids \in CutsAt(imprint, k) :
          files' = [files EXCEPT ![Dir(Head(schemes))][Head(queue)] = File(scanned, ids)]
    BY <2>1
  <2>2. imprint \in Known /\ scanned = imprint
    BY <1>3 DEF FlushFile, ImprintOK
  <2>3. DistinctIds(imprint)
    BY <2>2, KnownAreDistinct
  <2>4. Tokens(ids) = k
    BY <2>1a, <2>3, CutsAreRead
  <2>5. IsCutOf(File(scanned, ids))
    BY <2>1a, <2>2, <2>4 DEF IsCutOf, File
  <2> QED
    BY <1>1, <2>1a, <2>5
<1>4. CASE CloseFile
  <2>1. imprint \in Known /\ scanned = imprint
    BY <1>4 DEF CloseFile, ImprintOK
  <2>2. IsCutOf(File(scanned, imprint))
    BY <2>1, WholeIsCut
  <2> QED
    BY <1>1, <1>4, <2>2 DEF CloseFile
<1>5. CASE \/ StartRun \/ ReadDataset \/ ReadFail \/ RunScheme \/ FinishDataset
           \/ NextRound \/ EndRun \/ Kill \/ UNCHANGED vars
  <2>1. files' = files
    BY <1>5 DEF StartRun, ReadDataset, ReadFail, RunScheme, FinishDataset, NextRound, EndRun, Kill, vars
  <2> QED
    BY <1>0, <2>1
<1> QED
  BY <1>2, <1>3, <1>4, <1>5 DEF Next, Step

-----------------------------------------------------------------------------
LEMMA Lengths ==
  ASSUME IInv, pc # "idle"
  PROVE  /\ Len(Datasets) \in Nat /\ DOMAIN Datasets = 1 .. Len(Datasets)
         /\ Len(queue) \in Nat /\ Position \in Nat /\ Position <= Len(Datasets)
         /\ round \in Int /\ queue \in Seq(DatasetNames) /\ schemes \in Seq({"HyperMR", "Other"})
<1>1. Len(Datasets) \in Nat /\ DOMAIN Datasets = 1 .. Len(Datasets)
  BY DatasetsAssumption
<1>2. queue \in Seq(DatasetNames) /\ round \in Nat /\ schemes \in Seq({"HyperMR", "Other"})
  BY DEF IInv, Typed, TypeOK
<1>3. Len(queue) <= Len(Datasets) /\ Len(queue) \in Nat
  BY <1>2 DEF IInv, ProgressOK
<1> QED
  BY <1>1, <1>2, <1>3 DEF Position

(* The dataset at the head of the queue.                                    *)
LEMMA HeadOfQueue ==
  ASSUME IInv, pc # "idle", queue # <<>>
  PROVE  /\ Position + 1 \in DOMAIN Datasets /\ Head(queue) = Datasets[Position + 1]
         /\ Head(queue) \in DatasetNames /\ Tail(queue) \in Seq(DatasetNames)
         /\ Len(Tail(queue)) = Len(queue) - 1
         /\ \A j \in 1 .. Len(queue) - 1 : Tail(queue)[j] = Datasets[Position + 1 + j]
<1>1. /\ queue \in Seq(DatasetNames) /\ Len(queue) \in Nat \ {0}
      /\ Head(queue) = queue[1] /\ Head(queue) \in DatasetNames
      /\ Tail(queue) \in Seq(DatasetNames) /\ Len(Tail(queue)) = Len(queue) - 1
      /\ \A j \in 1 .. Len(queue) - 1 : Tail(queue)[j] = queue[j + 1]
  BY Lengths, QueueTypes
<1>2. \A j \in 1 .. Len(queue) : queue[j] = Datasets[Position + j]
  BY DEF IInv, ProgressOK
<1>3. PICK n \in Nat : n = Len(Datasets) /\ DOMAIN Datasets = 1 .. n
  BY Lengths
<1>4. PICK m \in Nat : m = Len(queue)
  BY <1>1
<1>5. Position = n - m /\ m \in 1 .. n
  BY <1>1, <1>3, <1>4, Lengths DEF Position
<1>6. Position + 1 \in DOMAIN Datasets /\ Head(queue) = Datasets[Position + 1]
  BY <1>1, <1>2, <1>3, <1>4, <1>5
<1>7. ASSUME NEW j \in 1 .. m - 1 PROVE Tail(queue)[j] = Datasets[Position + 1 + j]
  <2>1. j + 1 \in 1 .. m /\ Position + (j + 1) = Position + 1 + j
    BY <1>5
  <2> QED
    BY <1>1, <1>2, <1>4, <2>1
<1> QED
  BY <1>1, <1>4, <1>6, <1>7

LEMMA NextProgress == IInv /\ [Next]_vars => ProgressOK'
<1> SUFFICES ASSUME IInv, [Next]_vars, pc' # "idle" PROVE ProgressOK'
  BY DEF ProgressOK
<1> USE DEF IInv, run
<1>a. cfg \in Configs /\ cfg' \in Configs
  BY NextTyped DEF Typed, TypeOK
<1>b. \A c \in Configs : c.rounds \in Nat \ {0}
  BY ConfigsAssumption DEF Keywords
<1>1. CASE StartRun
  <2>1. /\ queue' = Datasets /\ round' = 1 /\ pc' = "datasets" /\ Rounds' \in Nat \ {0}
    BY <1>1, <1>a, <1>b DEF StartRun, Rounds
  <2>2. Position' = 0 /\ Len(Datasets) \in Nat
    BY <2>1, DatasetsAssumption DEF Position
  <2>3. Prefix(0)'
    BY DEF Prefix
  <2>4. \A j \in 1 .. Len(queue') : queue'[j] = Datasets[Position' + j]
    BY <2>1, <2>2
  <2> QED
    BY <2>1, <2>2, <2>3, <2>4 DEF ProgressOK
<1>2. CASE ReadDataset
  <2>1. /\ pc = "datasets" /\ queue # <<>> /\ Head(queue) \in readable /\ pc' = "schemes"
        /\ UNCHANGED <<queue, cfg, readable, round>>
    BY <1>2 DEF ReadDataset
  <2>2. Position' = Position /\ Rounds' = Rounds /\ \A i : Prefix(i)' = Prefix(i)
    BY <2>1 DEF Position, Rounds, Prefix
  <2>3. Position \in Nat /\ Head(queue) = Datasets[Position + 1]
    BY <2>1, Lengths, HeadOfQueue
  <2>4. ProgressOK
    OBVIOUS
  <2>5. Prefix(Position) => Prefix(Position + 1)
    BY <2>1, <2>3 DEF Prefix
  <2> QED
    BY <2>1, <2>2, <2>4, <2>5 DEF ProgressOK
<1>3. CASE ReadFail
  <2>1. /\ pc = "datasets" /\ queue # <<>> /\ queue' = AfterReadFail /\ pc' = "datasets"
        /\ UNCHANGED <<cfg, readable, round>>
    BY <1>3 DEF ReadFail
  <2>2. Rounds' = Rounds /\ ProgressOK
    BY <2>1 DEF Rounds
  <2>3. CASE cfg.exp = 4
    <3>1. queue' = Tail(queue) /\ cfg'.exp = 4
      BY <2>1, <2>3 DEF AfterReadFail
    <3>2. Position' = Position + 1 /\ Len(queue') <= Len(Datasets)
      BY <2>1, <3>1, HeadOfQueue, Lengths DEF Position
    <3>3. \A j \in 1 .. Len(queue') : queue'[j] = Datasets[Position' + j]
      BY <2>1, <3>1, <3>2, HeadOfQueue
    <3> QED
      BY <2>1, <2>2, <3>1, <3>2, <3>3 DEF ProgressOK
  <2>4. CASE cfg.exp # 4
    <3>1. queue' = <<>>
      BY <2>1, <2>4 DEF AfterReadFail
    <3>2. Len(queue') <= Len(Datasets) /\ \A j \in 1 .. Len(queue') : queue'[j] = Datasets[Position' + j]
      BY <2>1, <3>1, Lengths
    <3> QED
      BY <2>1, <2>2, <3>1, <3>2 DEF ProgressOK
  <2> QED
    BY <2>3, <2>4
<1>4. CASE RunScheme \/ RunBaseline \/ FlushFile \/ CloseFile \/ UNCHANGED vars
  <2>1. /\ UNCHANGED <<queue, cfg, readable, round>> /\ pc # "idle" /\ ProgressOK
        /\ pc' = "schemes" => pc = "schemes" \/ cfg.exp = 4
        /\ pc' # "datasets" => pc # "datasets"
        /\ pc' = "writing" => cfg.exp = 4
    BY <1>4 DEF RunScheme, RunBaseline, FlushFile, CloseFile, vars, ProgressOK
  <2>2. Position' = Position /\ Rounds' = Rounds /\ \A i : Prefix(i)' = Prefix(i)
    BY <2>1 DEF Position, Rounds, Prefix
  <2> QED
    BY <2>1, <2>2 DEF ProgressOK
<1>5. CASE FinishDataset
  <2>1. /\ pc = "schemes" /\ queue # <<>> /\ queue' = Tail(queue) /\ pc' = "datasets"
        /\ UNCHANGED <<cfg, readable, round>>
    BY <1>5 DEF FinishDataset, ProgressOK
  <2>2. /\ Rounds' = Rounds /\ ProgressOK /\ \A i : Prefix(i)' = Prefix(i)
    BY <2>1 DEF Rounds, Prefix
  <2>3. Position' = Position + 1 /\ Len(queue') <= Len(Datasets)
    BY <2>1, HeadOfQueue, Lengths DEF Position
  <2>4. \A j \in 1 .. Len(queue') : queue'[j] = Datasets[Position' + j]
    BY <2>1, <2>3, HeadOfQueue
  <2> QED
    BY <2>1, <2>2, <2>3, <2>4 DEF ProgressOK
<1>6. CASE NextRound
  <2>1. /\ pc = "datasets" /\ queue' = Datasets /\ round' = round + 1 /\ pc' = "datasets"
        /\ cfg' = cfg /\ cfg.exp \in {2, 3} /\ round < cfg.rounds
    BY <1>6 DEF NextRound
  <2>2. round' \in 1 .. Rounds'
    BY <1>a, <1>b, <2>1 DEF ProgressOK, Rounds
  <2>3. Position' = 0 /\ Len(Datasets) \in Nat
    BY <2>1, DatasetsAssumption DEF Position
  <2>4. Prefix(0)' /\ \A j \in 1 .. Len(queue') : queue'[j] = Datasets[Position' + j]
    BY <2>1, <2>3 DEF Prefix
  <2> QED
    BY <2>1, <2>2, <2>3, <2>4 DEF ProgressOK
<1>7. CASE EndRun \/ Kill
  BY <1>7 DEF EndRun, Kill
<1> QED
  BY <1>1, <1>2, <1>3, <1>4, <1>5, <1>6, <1>7 DEF Next, Step

LEMMA NextSchemes == IInv /\ [Next]_vars => SchemesOK'
<1> SUFFICES ASSUME IInv, [Next]_vars, pc' \in {"schemes", "writing"} PROVE SchemesOK'
  BY DEF SchemesOK
<1> USE DEF IInv, run
<1>a. cfg \in Configs /\ schemes \in Seq({"HyperMR", "Other"})
  BY DEF Typed, TypeOK
<1>1. CASE ReadDataset
  <2>1. schemes' = Chosen(cfg) /\ cfg' = cfg
    BY <1>1 DEF ReadDataset
  <2> QED
    BY <1>a, <2>1, ChosenSchemes DEF SchemesOK
<1>2. CASE RunScheme \/ CloseFile
  <2>1. /\ schemes # <<>> /\ schemes' = Tail(schemes) /\ cfg' = cfg
        /\ pc \in {"schemes", "writing"}
    BY <1>2 DEF RunScheme, CloseFile, Typed, TypeOK
  <2>2. /\ Len(Tail(schemes)) = Len(schemes) - 1 /\ Tail(schemes) \in Seq({"HyperMR", "Other"})
        /\ Len(schemes) \in Nat \ {0}
        /\ \A j \in 1 .. Len(schemes) - 1 : Tail(schemes)[j] = schemes[j + 1]
    BY <1>a, <2>1, QueueTypes
  <2>3. PICK m \in Nat \ {0} : m = Len(schemes)
    BY <2>2
  <2>4. DOMAIN schemes = 1 .. m /\ DOMAIN Tail(schemes) = 1 .. m - 1
    BY <1>a, <2>2, <2>3
  <2>5. SchemesOK /\ Len(Chosen(cfg)) \in Nat
    BY <1>a, ChosenSchemes
  <2> QED
    BY <2>1, <2>2, <2>3, <2>4, <2>5 DEF SchemesOK
<1>3. CASE UNCHANGED vars \/ FlushFile \/ RunBaseline
  BY <1>3 DEF vars, FlushFile, RunBaseline, SchemesOK
<1>4. CASE \/ StartRun \/ ReadFail \/ FinishDataset \/ NextRound \/ EndRun \/ Kill
  BY <1>4, <1>a DEF StartRun, ReadFail, FinishDataset, NextRound, EndRun, Kill
<1> QED
  BY <1>1, <1>2, <1>3, <1>4 DEF Next, Step

(* Which lines are wanted depends on the configuration, which prefix is     *)
(* readable on the run.                                                     *)
LEMMA SameRun ==
  ASSUME cfg' = cfg, readable' = readable
  PROVE  /\ \A dir : Wants(dir)' = Wants(dir)
         /\ \A i : Prefix(i)' = Prefix(i)
         /\ \A s : Dir(s)' = Dir(s)
BY DEF Wants, Prefix, Dir

LEMMA NextLines == IInv /\ [Next]_vars => LinesOK'
<1> SUFFICES ASSUME IInv, [Next]_vars, pc' # "idle", NEW dir \in ResultDirs, NEW i \in DOMAIN Datasets
             PROVE  saved'[dir][Datasets[i]] = LinesOf(dir, i)'
  BY DEF LinesOK
<1> USE DEF run
<1>a. i \in Nat \ {0} /\ i <= Len(Datasets) /\ Datasets[i] \in DatasetNames
  <2>1. Datasets \in Seq(DatasetNames)
    BY DatasetsAssumption
  <2> QED
    BY <2>1
<1>b. cfg \in Configs /\ saved \in [ResultDirs -> [DatasetNames -> Nat]]
  BY DEF IInv, Typed, TypeOK
<1>c. pc # "idle" => saved[dir][Datasets[i]] = LinesOf(dir, i)
  BY DEF IInv, LinesOK
<1>1. CASE StartRun
  <2>1. saved' = NothingSaved /\ pc' = "datasets" /\ round' = 1 /\ queue' = Datasets
    BY <1>1 DEF StartRun
  <2>2. Position' = 0
    BY <2>1, DatasetsAssumption DEF Position
  <2>3. ~ Served(dir, i)'
    BY <1>a, <2>1, <2>2 DEF Served
  <2>4. NothingSaved[dir][Datasets[i]] = 0
    BY <1>a DEF NothingSaved
  <2> QED
    BY <2>1, <2>3, <2>4 DEF LinesOf
<1>2. CASE ReadDataset
  <2>1. /\ pc = "datasets" /\ pc' = "schemes" /\ schemes' = Chosen(cfg)
        /\ UNCHANGED <<saved, cfg, readable, round, queue>>
    BY <1>2 DEF ReadDataset
  <2>2. Wants(dir)' = Wants(dir) /\ Prefix(i)' = Prefix(i) /\ \A s : Dir(s)' = Dir(s)
    BY <2>1, SameRun
  <2>3. Position' = Position /\ Position \in Nat
    BY <2>1, Lengths DEF Position
  <2>4. Wants(dir) /\ dir # "Uncompression" => Waits(dir)'
    <3> SUFFICES ASSUME Wants(dir), dir # "Uncompression" PROVE Waits(dir)'
      OBVIOUS
    <3>1. PICK s \in cfg.schemes : dir = Dir(s)
      BY DEF Wants
    <3>2. PICK j \in DOMAIN Chosen(cfg) : Chosen(cfg)[j] = s
      BY <1>b, ChosenSchemes
    <3> QED
      BY <2>1, <2>2, <3>1, <3>2 DEF Waits
  <2>5. Wants(dir) => (Served(dir, i)' <=> Served(dir, i))
    BY <1>a, <2>1, <2>3, <2>4 DEF Served
  <2> QED
    BY <1>c, <2>1, <2>2, <2>5 DEF LinesOf
<1>3. CASE ReadFail
  <2>1. /\ pc = "datasets" /\ pc' = "datasets" /\ queue # <<>> /\ queue' = AfterReadFail
        /\ Head(queue) \notin readable
        /\ UNCHANGED <<saved, cfg, readable, round>>
    BY <1>3 DEF ReadFail
  <2>2. Wants(dir)' = Wants(dir) /\ Prefix(i)' = Prefix(i)
    BY <2>1, SameRun
  <2>3. Wants(dir) /\ Prefix(i) => Served(dir, i)' /\ Served(dir, i)
    <3> SUFFICES ASSUME Wants(dir), Prefix(i) PROVE Served(dir, i)' /\ Served(dir, i)
      OBVIOUS
    <3>1. queue' = <<>>
      BY <2>1 DEF Wants, AfterReadFail
    <3>2. Position' = Len(Datasets) /\ Len(Datasets) \in Nat
      BY <2>1, <3>1, Lengths DEF Position
    <3>3. Position \in Nat /\ Datasets[Position + 1] \notin readable
      BY <2>1, Lengths, HeadOfQueue
    <3>4. i <= Position
      BY <1>a, <3>3 DEF Prefix
    <3> QED
      BY <1>a, <3>2, <3>4 DEF Served
  <2> QED
    BY <1>c, <2>1, <2>2, <2>3 DEF LinesOf
<1>4. CASE RunScheme
  <2>1. /\ pc = "schemes" /\ pc' = "schemes" /\ cfg.exp # 4 /\ schemes # <<>> /\ schemes' = Tail(schemes)
        /\ AppendLine(Dir(Head(schemes)))
        /\ UNCHANGED <<cfg, readable, round, queue>>
    BY <1>4 DEF RunScheme
  <2>2. /\ Wants(dir)' = Wants(dir) /\ Prefix(i)' = Prefix(i) /\ \A s : Dir(s)' = Dir(s)
        /\ Position' = Position
    BY <2>1, SameRun DEF Position
  <2>3. /\ Position \in Nat /\ queue # <<>> /\ Head(queue) = Datasets[Position + 1]
        /\ Position + 1 \in DOMAIN Datasets /\ Prefix(Position + 1)
    BY <2>1, Lengths, HeadOfQueue DEF IInv, ProgressOK
  <2>4. PICK s : s = Head(schemes) /\ s \in {"HyperMR", "Other"} /\ s \in cfg.schemes
    <3>1. schemes \in Seq({"HyperMR", "Other"}) /\ \A j \in DOMAIN schemes : schemes[j] \in cfg.schemes
      BY <2>1, Lengths DEF IInv, SchemesOK
    <3> QED
      BY <2>1, <3>1
  <2>5. Dir(s) # "Uncompression" /\ Dir(s) \in ResultDirs
    BY <2>4, SchemeDirs
  <2>6. /\ Waits(dir) <=> dir = Dir(s) \/ Waits(dir)'
        /\ dir = Dir(s) => ~ Waits(dir)'
    <3>1. /\ schemes \in Seq({"HyperMR", "Other"})
          /\ \A j, k \in DOMAIN schemes : schemes[j] = schemes[k] => j = k
      BY <2>1, Lengths DEF IInv, SchemesOK
    <3>2. /\ Tail(schemes) \in Seq({"HyperMR", "Other"}) /\ Len(schemes) \in Nat \ {0} /\ s = schemes[1]
          /\ \A j \in 1 .. Len(schemes) - 1 : Tail(schemes)[j] = schemes[j + 1]
          /\ Len(Tail(schemes)) = Len(schemes) - 1
      BY <2>1, <2>4, <3>1, QueueTypes
    <3>3. PICK m \in Nat \ {0} : m = Len(schemes)
      BY <3>2
    <3>4. DOMAIN schemes = 1 .. m /\ DOMAIN Tail(schemes) = 1 .. m - 1
      BY <3>1, <3>2, <3>3
    <3>5. /\ Waits(dir)' <=> \E j \in 1 .. m - 1 : dir = Dir(schemes[j + 1])
          /\ Waits(dir) <=> \E j \in 1 .. m : dir = Dir(schemes[j])
      BY <2>1, <2>2, <3>2, <3>3, <3>4 DEF Waits
    <3>6. ASSUME NEW j \in 1 .. m - 1 PROVE Dir(schemes[j + 1]) # Dir(s)
      <4>1. j + 1 \in 1 .. m /\ j + 1 # 1 /\ 1 \in 1 .. m
        OBVIOUS
      <4>a. PICK k \in DOMAIN schemes : k = j + 1 /\ k # 1
        BY <3>4, <4>1
      <4>b. 1 \in DOMAIN schemes
        BY <3>4, <4>1
      <4>c. schemes[k] # schemes[1] /\ schemes[k] \in {"HyperMR", "Other"}
        BY <3>1, <4>a, <4>b
      <4>2. schemes[j + 1] # s /\ schemes[j + 1] \in {"HyperMR", "Other"}
        BY <3>2, <4>a, <4>c
      <4> QED
        BY <2>4, <4>2, SchemeDirs
    <3>7. \A j \in 1 .. m : j = 1 \/ (j - 1 \in 1 .. m - 1 /\ (j - 1) + 1 = j)
      OBVIOUS
    <3>8. \A j \in 1 .. m - 1 : j + 1 \in 1 .. m
      OBVIOUS
    <3>9. ASSUME Waits(dir) PROVE dir = Dir(s) \/ Waits(dir)'
      <4>1. PICK j \in 1 .. m : dir = Dir(schemes[j])
        BY <3>5, <3>9
      <4>2. CASE j = 1
        BY <3>2, <4>1, <4>2
      <4>3. CASE j # 1
        <5>1. PICK k \in 1 .. m - 1 : k + 1 = j
          BY <4>3
        <5> QED
          BY <3>5, <4>1, <5>1
      <4> QED
        BY <4>2, <4>3
    <3>10. ASSUME dir = Dir(s) \/ Waits(dir)' PROVE Waits(dir)
      <4>1. 1 \in 1 .. m
        OBVIOUS
      <4> QED
        BY <3>2, <3>5, <3>8, <3>10, <4>1
    <3> QED
      BY <3>5, <3>6, <3>9, <3>10
  <2>7. CASE ~ Wants(dir)
    <3>1. cfg.output => dir # Dir(s)
      BY <2>1, <2>4, <2>5, <2>7 DEF Wants
    <3>2. saved'[dir][Datasets[i]] = saved[dir][Datasets[i]]
      BY <1>b, <2>1, <2>4, <3>1 DEF AppendLine
    <3> QED
      BY <1>c, <2>1, <2>2, <2>7, <3>2 DEF LinesOf
  <2>8. CASE Wants(dir) /\ (i # Position + 1 \/ dir # Dir(s))
    <3>1. Datasets[i] # Head(queue) \/ dir # Dir(s)
      BY <2>3, <2>8, DatasetsAssumption
    <3>2. saved'[dir][Datasets[i]] = saved[dir][Datasets[i]]
      BY <1>a, <1>b, <2>1, <2>4, <3>1 DEF AppendLine
    <3>3. Served(dir, i)' <=> Served(dir, i)
      BY <2>1, <2>2, <2>6, <2>8 DEF Served
    <3> QED
      BY <1>c, <2>1, <2>2, <3>2, <3>3 DEF LinesOf
  <2>9. CASE Wants(dir) /\ i = Position + 1 /\ dir = Dir(s)
    <3>1. ~ Served(dir, i) /\ Served(dir, i)'
      BY <2>1, <2>2, <2>3, <2>5, <2>6, <2>9 DEF Served
    <3>2. saved'[dir][Datasets[i]] = saved[dir][Datasets[i]] + 1
      <4>1. cfg.output
        BY <2>9 DEF Wants
      <4>2. saved' = [saved EXCEPT ![dir][Datasets[i]] = @ + 1]
        BY <2>1, <2>3, <2>4, <2>9, <4>1 DEF AppendLine
      <4> QED
        BY <1>a, <1>b, <4>2
    <3>3. saved[dir][Datasets[i]] = round - 1 /\ LinesOf(dir, i)' = round
      BY <1>c, <2>1, <2>2, <2>3, <2>9, <3>1 DEF LinesOf
    <3>4. round \in Int
      BY <2>1, Lengths
    <3> QED
      BY <3>2, <3>3, <3>4
  <2> QED
    BY <2>7, <2>8, <2>9
<1>5. CASE FinishDataset
  <2>1. /\ pc = "schemes" /\ pc' = "datasets" /\ schemes = <<>> /\ queue' = Tail(queue) /\ queue # <<>>
        /\ UNCHANGED <<cfg, readable, round>>
        /\ IF cfg.exp # 4 /\ Uncompressed THEN AppendLine("Uncompression") ELSE UNCHANGED saved
    BY <1>5 DEF FinishDataset, IInv, ProgressOK
  <2>2. Wants(dir)' = Wants(dir) /\ Prefix(i)' = Prefix(i)
    BY <2>1, SameRun
  <2>3. /\ Position \in Nat /\ Head(queue) = Datasets[Position + 1] /\ Position + 1 \in DOMAIN Datasets
        /\ cfg.exp # 4 => Prefix(Position + 1)
    BY <2>1, Lengths, HeadOfQueue DEF IInv, ProgressOK
  <2>4. Position' = Position + 1
    BY <2>1, Lengths, HeadOfQueue DEF Position
  <2>5. ~ Waits(dir)
    BY <2>1 DEF Waits
  <2>6. /\ Served(dir, i)' <=> i <= Position + 1
        /\ Served(dir, i) <=> i <= Position \/ (i = Position + 1 /\ dir # "Uncompression")
    BY <2>1, <2>4, <2>5 DEF Served
  <2>7. CASE Wants(dir) /\ i = Position + 1 /\ dir = "Uncompression"
    <3>1. cfg.output /\ cfg.exp # 4 /\ Uncompressed
      BY <2>7 DEF Wants, Uncompressed
    <3>2. saved' = [saved EXCEPT ![dir][Datasets[i]] = @ + 1]
      BY <2>1, <2>3, <2>7, <3>1 DEF AppendLine
    <3>3. saved'[dir][Datasets[i]] = saved[dir][Datasets[i]] + 1
      BY <1>a, <1>b, <3>2
    <3>4. saved[dir][Datasets[i]] = round - 1 /\ LinesOf(dir, i)' = round /\ round \in Int
      <4>1. ~ Served(dir, i) /\ Served(dir, i)'
        BY <2>3, <2>6, <2>7
      <4> QED
        BY <1>c, <2>1, <2>2, <2>3, <2>7, <3>1, <4>1, Lengths DEF LinesOf
    <3> QED
      BY <3>3, <3>4
  <2>8. CASE ~ (Wants(dir) /\ i = Position + 1 /\ dir = "Uncompression")
    <3>1. saved'[dir][Datasets[i]] = saved[dir][Datasets[i]]
      <4>1. CASE ~ (cfg.exp # 4 /\ Uncompressed /\ cfg.output)
        BY <2>1, <4>1 DEF AppendLine
      <4>2. CASE cfg.exp # 4 /\ Uncompressed /\ cfg.output
        <5>1. saved' = [saved EXCEPT !["Uncompression"][Datasets[Position + 1]] = @ + 1]
          BY <2>1, <2>3, <4>2 DEF AppendLine
        <5>2. dir = "Uncompression" => i # Position + 1
          BY <2>8, <4>2 DEF Wants, Uncompressed
        <5>3. dir = "Uncompression" => Datasets[i] # Datasets[Position + 1]
          BY <2>3, <5>2, DatasetsAssumption
        <5> QED
          BY <1>a, <1>b, <5>1, <5>3
      <4> QED
        BY <4>1, <4>2
    <3>2. Wants(dir) => (Served(dir, i)' <=> Served(dir, i))
      BY <1>a, <2>3, <2>6, <2>8
    <3> QED
      BY <1>c, <2>1, <2>2, <3>1, <3>2 DEF LinesOf
  <2> QED
    BY <2>7, <2>8
<1>6. CASE RunBaseline \/ FlushFile \/ CloseFile
  <2>1. /\ pc # "idle" /\ cfg.exp = 4
        /\ UNCHANGED <<saved, cfg, readable>>
    BY <1>6 DEF RunBaseline, FlushFile, CloseFile, IInv, ProgressOK
  <2>2. ~ Wants(dir) /\ ~ Wants(dir)'
    BY <2>1 DEF Wants
  <2> QED
    BY <1>c, <2>1, <2>2 DEF LinesOf
<1>7. CASE NextRound
  <2>1. /\ pc = "datasets" /\ pc' = "datasets" /\ queue = <<>> /\ queue' = Datasets /\ round' = round + 1
        /\ UNCHANGED <<saved, cfg, readable>>
    BY <1>7 DEF NextRound
  <2>2. Wants(dir)' = Wants(dir) /\ Prefix(i)' = Prefix(i)
    BY <2>1, SameRun
  <2>3. Position = Len(Datasets) /\ Position' = 0 /\ round \in Int
    BY <2>1, Lengths DEF Position
  <2>4. Served(dir, i) /\ ~ Served(dir, i)'
    BY <1>a, <2>1, <2>3 DEF Served
  <2> QED
    BY <1>c, <2>1, <2>2, <2>3, <2>4 DEF LinesOf
<1>8. CASE EndRun \/ Kill
  BY <1>8 DEF EndRun, Kill
<1>9. CASE UNCHANGED vars
  BY <1>9, <1>c DEF vars, LinesOf, Wants, Prefix, Served, Waits, Dir, Position
<1> QED
  BY <1>1, <1>2, <1>3, <1>4, <1>5, <1>6, <1>7, <1>8, <1>9 DEF Next, Step

LEMMA NextLogged == IInv /\ [Next]_vars => LoggedOK'
<1> SUFFICES ASSUME IInv, [Next]_vars, pc' # "idle", cfg'.exp # 4, NEW i \in DOMAIN Datasets
             PROVE  Datasets[i] \in reported' <=> Logged(i)'
  BY DEF LoggedOK
<1> USE DEF run
<1>a. i \in Nat \ {0} /\ i <= Len(Datasets) /\ Datasets[i] \in DatasetNames
  <2>1. Datasets \in Seq(DatasetNames)
    BY DatasetsAssumption
  <2> QED
    BY <2>1
<1>b. pc # "idle" /\ cfg.exp # 4 => (Datasets[i] \in reported <=> Logged(i))
  BY DEF IInv, LoggedOK
<1>c. \A j \in DOMAIN Datasets : Datasets[i] = Datasets[j] => i = j
  BY DatasetsAssumption
<1>1. CASE StartRun
  <2>1. reported' = {} /\ pc' = "datasets" /\ round' = 1 /\ queue' = Datasets
    BY <1>1 DEF StartRun
  <2>2. Position' = 0
    BY <2>1, DatasetsAssumption DEF Position
  <2> QED
    BY <1>a, <2>1, <2>2 DEF Logged
<1>2. CASE ReadDataset
  <2>1. /\ pc = "datasets" /\ pc' = "schemes" /\ schemes' = Chosen(cfg)
        /\ UNCHANGED <<cfg, readable, round, queue, reported>>
    BY <1>2 DEF ReadDataset
  <2>2. Position' = Position /\ Prefix(i)' = Prefix(i)
    BY <2>1, SameRun DEF Position
  <2> QED
    BY <1>b, <2>1, <2>2 DEF Logged
<1>3. CASE ReadFail
  <2>1. /\ pc = "datasets" /\ pc' = "datasets" /\ queue # <<>> /\ queue' = AfterReadFail
        /\ Head(queue) \notin readable /\ cfg.exp # 4
        /\ UNCHANGED <<cfg, readable, round, reported>>
    BY <1>3 DEF ReadFail
  <2>2. Prefix(i)' = Prefix(i) /\ queue' = <<>>
    BY <2>1, SameRun DEF AfterReadFail
  <2>3. Position' = Len(Datasets) /\ Len(Datasets) \in Nat
    BY <2>1, <2>2, Lengths DEF Position
  <2>4. Position \in Nat /\ Datasets[Position + 1] \notin readable
    BY <2>1, Lengths, HeadOfQueue
  <2>5. Prefix(i) => i <= Position
    BY <1>a, <2>4 DEF Prefix
  <2> QED
    BY <1>a, <1>b, <2>1, <2>2, <2>3, <2>5 DEF Logged
<1>4. CASE RunScheme \/ FinishDataset
  <2>1. /\ pc = "schemes" /\ queue # <<>> /\ reported' = reported \cup {Head(queue)} /\ cfg.exp # 4
        /\ UNCHANGED <<cfg, readable, round>>
    BY <1>4 DEF RunScheme, FinishDataset, IInv, ProgressOK
  <2>2. /\ Position \in Nat /\ Head(queue) = Datasets[Position + 1]
        /\ Position + 1 \in DOMAIN Datasets /\ Prefix(Position + 1)
    BY <2>1, Lengths, HeadOfQueue DEF IInv, ProgressOK
  <2>3. Prefix(i)' = Prefix(i)
    BY <2>1, SameRun
  <2>4. Datasets[i] \in reported' <=> Datasets[i] \in reported \/ i = Position + 1
    BY <1>c, <2>1, <2>2
  <2>5. Logged(i)' <=> Prefix(i) /\ (round > 1 \/ i <= Position \/ i = Position + 1)
    <3>1. CASE RunScheme
      <4>1. pc' = "schemes" /\ schemes # <<>> /\ schemes' = Tail(schemes) /\ queue' = queue
        BY <3>1 DEF RunScheme
      <4>2. schemes' # Chosen(cfg')
        <5>1. Len(schemes) <= Len(Chosen(cfg)) /\ schemes \in Seq({"HyperMR", "Other"}) /\ cfg \in Configs
          BY <2>1, Lengths DEF IInv, SchemesOK, Typed, TypeOK
        <5>2. Len(Tail(schemes)) = Len(schemes) - 1 /\ Len(schemes) \in Nat /\ Len(Chosen(cfg)) \in Nat
          BY <4>1, <5>1, QueueTypes, ChosenSchemes
        <5>3. Tail(schemes) # Chosen(cfg)
          <6>1. PICK m \in Nat : m = Len(schemes)
            BY <5>2
          <6>2. PICK n \in Nat : n = Len(Chosen(cfg))
            BY <5>2
          <6>3. Len(Tail(schemes)) = m - 1 /\ m - 1 # n
            BY <5>1, <5>2, <6>1, <6>2
          <6> QED
            BY <6>2, <6>3
        <5> QED
          BY <2>1, <4>1, <5>3
      <4>3. Position' = Position
        BY <4>1 DEF Position
      <4> QED
        BY <2>1, <2>3, <4>1, <4>2, <4>3 DEF Logged
    <3>2. CASE FinishDataset
      <4>1. queue' = Tail(queue) /\ pc' = "datasets"
        BY <3>2 DEF FinishDataset
      <4>2. Position' = Position + 1
        BY <2>1, <4>1, Lengths, HeadOfQueue DEF Position
      <4>3. i <= Position + 1 <=> i <= Position \/ i = Position + 1
        BY <1>a, <2>2
      <4> QED
        BY <2>1, <2>3, <4>1, <4>2, <4>3 DEF Logged
    <3> QED
      BY <1>4, <3>1, <3>2
  <2>6. i = Position + 1 => Prefix(i)
    BY <2>2
  <2>7. Datasets[i] \in reported <=> Logged(i)
    BY <1>b, <2>1
  <2> QED
    BY <2>4, <2>5, <2>6, <2>7 DEF Logged
<1>5. CASE RunBaseline \/ FlushFile \/ CloseFile
  BY <1>5 DEF RunBaseline, FlushFile, CloseFile, IInv, ProgressOK
<1>6. CASE NextRound
  <2>1. /\ pc = "datasets" /\ queue = <<>> /\ round' = round + 1
        /\ UNCHANGED <<cfg, readable, reported>>
    BY <1>6 DEF NextRound
  <2>2. Prefix(i)' = Prefix(i)
    BY <2>1, SameRun
  <2>3. Position = Len(Datasets) /\ round \in Nat \ {0}
    BY <2>1, Lengths DEF Position, IInv, ProgressOK
  <2>4. round' > 1
    BY <2>1, <2>3
  <2> QED
    BY <1>a, <1>b, <2>1, <2>2, <2>3, <2>4 DEF Logged
<1>7. CASE EndRun \/ Kill
  BY <1>7 DEF EndRun, Kill
<1>8. CASE UNCHANGED vars
  BY <1>8, <1>b DEF vars, Logged, Prefix, Position
<1> QED
  BY <1>1, <1>2, <1>3, <1>4, <1>5, <1>6, <1>7, <1>8 DEF Next, Step

(* What a run has appended when it ends.                                    *)
LEMMA NextComplete == IInv /\ [Next]_vars => LinesAreComplete'
<1> SUFFICES ASSUME IInv, [Next]_vars PROVE LinesAreComplete'
  OBVIOUS
<1> USE DEF run
<1>1. CASE EndRun
  <2>1. /\ pc = "datasets" /\ queue = <<>> /\ pc' = "idle"
        /\ cfg.exp \in {2, 3} => round = cfg.rounds
        /\ UNCHANGED <<saved, cfg, readable, round, reported>>
    BY <1>1 DEF EndRun
  <2>2. round = Rounds /\ Rounds' = Rounds /\ round \in Nat \ {0}
    BY <2>1, Lengths DEF Rounds, IInv, ProgressOK
  <2>3. Position = Len(Datasets) /\ Len(Datasets) \in Nat
    BY <2>1, Lengths DEF Position
  <2>4. SUFFICES ASSUME NEW dir \in ResultDirs, NEW d \in DatasetNames
                 PROVE  saved[dir][d] = IF Wants(dir) /\ d \in reported THEN Rounds ELSE 0
    BY <2>1, <2>2, SameRun DEF LinesAreComplete, Wants, Dir
  <2>5. PICK i \in DOMAIN Datasets : d = Datasets[i]
    BY DEF DatasetNames
  <2>6. i \in Nat \ {0} /\ i <= Len(Datasets)
    BY <2>3, <2>5, DatasetsAssumption
  <2>7. saved[dir][d] = LinesOf(dir, i) /\ Served(dir, i)
    BY <2>1, <2>3, <2>5, <2>6 DEF IInv, LinesOK, Served
  <2>8. cfg.exp # 4 => (d \in reported <=> Prefix(i))
    BY <2>1, <2>3, <2>5, <2>6 DEF IInv, LoggedOK, Logged
  <2> QED
    BY <2>2, <2>7, <2>8 DEF LinesOf, Wants
<1>2. CASE \/ StartRun \/ ReadDataset \/ ReadFail \/ RunScheme \/ FinishDataset \/ RunBaseline
           \/ FlushFile \/ CloseFile \/ NextRound \/ Kill
  <2>1. pc' # "idle" \/ killed'
    BY <1>2
    DEF StartRun, ReadDataset, ReadFail, RunScheme, FinishDataset, RunBaseline, FlushFile,
        CloseFile, NextRound, Kill
  <2> QED
    BY <2>1 DEF LinesAreComplete
<1>3. CASE UNCHANGED vars
  <2>1. LinesAreComplete
    BY DEF IInv
  <2> QED
    BY <1>3, <2>1 DEF vars, LinesAreComplete, Rounds, Dir
<1> QED
  BY <1>1, <1>2, <1>3 DEF Next, Step

-----------------------------------------------------------------------------
LEMMA IInvAlways == Spec => []IInv
<1>1. IInv /\ [Next]_vars => IInv'
  BY NextTyped, NextImprint, NextReport, NextFiles, NextProgress, NextSchemes, NextLines,
     NextLogged, NextComplete DEF IInv
<1> QED
  BY <1>1, InitIInv, PTL DEF Spec

(* Whatever runs were killed, every order file is a cut of the order its    *)
(* tile count was made from, and a run that ended has appended its lines:   *)
(* for any number of runs, datasets, configurations and orders.             *)
THEOREM FilesCorrect == Spec => []FilesAreRight
<1>1. IInv => FilesAreRight
  BY DEF IInv, Typed, FilesOK, FilesAreCuts, IsCutOf, FilesAreRight
<1> QED
  BY <1>1, IInvAlways, PTL

(* What the two sums of the result check find in whole, cut and padded      *)
(* orders of matrices of any size: they miss no lost id but id 0, unless a  *)
(* cut inside an id has made it one that stands there twice, and then only  *)
(* ids that sum to that one.                                                *)
THEOREM CheckCorrect == Spec => []CheckFindsLostIds
<1>1. IInv => CheckFindsLostIds
  BY DEF IInv, ReportOK
<1> QED
  BY <1>1, IInvAlways, PTL

(* The figures reported are those of the order reported.                    *)
THEOREM FiguresCorrect == Spec => []FiguresAreRight
<1>1. IInv => FiguresAreRight
  BY DEF IInv, ReportOK
<1> QED
  BY <1>1, IInvAlways, PTL

================================================================================
