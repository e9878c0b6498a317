------------------------- MODULE StorageModelProofs -------------------------
(***************************************************************************)
(* That a scan leaves a storage model: each nonzero in one PE, PEs where   *)
(* their locations say, and the number of tiles, for every matrix, every   *)
(* order and every size of PEs and tiles.                                  *)
(***************************************************************************)
EXTENDS StorageModel, SumsProofs

-----------------------------------------------------------------------------
(* Arithmetic of windows: the places of window a of width u are those whose *)
(* quotient is a.                                                           *)
LEMMA DivWindow ==
  ASSUME NEW x \in Nat, NEW a \in Nat, NEW u \in Nat \ {0}
  PROVE  /\ x \div u < a <=> x < a * u
         /\ x \div u = a <=> a * u <= x /\ x < a * u + u
         /\ x \div u <= a <=> x < a * u + u
<1> DEFINE q == x \div u
           r == x % u
<1>1. q \in Nat /\ r \in 0 .. u - 1 /\ x = q * u + r
  BY DivMod
<1>2. ASSUME NEW y \in Nat, NEW z \in Nat, y < z PROVE y * u + u <= z * u
  <2>1. PICK d \in Nat : z = y + 1 + d
    <3>1. z - y - 1 \in Nat /\ z = y + 1 + (z - y - 1)
      BY <1>2
    <3> QED
      BY <3>1
  <2>2. z * u = y * u + u + d * u /\ d * u >= 0 /\ y * u \in Nat /\ d * u \in Nat
    BY <2>1
  <2> QED
    BY <2>2
<1>3. q * u \in Nat /\ a * u \in Nat
  BY <1>1
<1>4. CASE q < a
  BY <1>1, <1>2, <1>3, <1>4
<1>5. CASE q = a
  BY <1>1, <1>3, <1>5
<1>6. CASE q > a
  BY <1>1, <1>2, <1>3, <1>6
<1> QED
  BY <1>1, <1>4, <1>5, <1>6

LEMMA Regroup ==
  ASSUME NEW b \in Nat, NEW n \in Nat, NEW u \in Nat
  PROVE  /\ b * (u * n) = (b * n) * u
         /\ b * (u * n) + u * n = (b * n + n) * u
<1>1. b * (u * n) = (b * n) * u
  OBVIOUS
<1>2. (b * n + n) * u = (b * n) * u + n * u
  OBVIOUS
<1> QED
  BY <1>1, <1>2

(* Dividing by the width of a PE and then by the PEs of a tile is dividing  *)
(* by the width of a tile.                                                  *)
LEMMA DivDiv ==
  ASSUME NEW x \in Nat, NEW u \in Nat \ {0}, NEW n \in Nat \ {0}
  PROVE  /\ u * n \in Nat \ {0}
         /\ x \div (u * n) = (x \div u) \div n
<1> DEFINE a == x \div u
           b == a \div n
           w == u * n
<1>1. a \in Nat /\ b \in Nat
  BY DivMod
<1>2. w \in Nat \ {0}
  OBVIOUS
<1>3. b * n <= a /\ a < b * n + n /\ b * n \in Nat
  BY <1>1, DivWindow
<1>4. a * u <= x /\ x < a * u + u /\ a * u \in Nat
  BY <1>1, DivWindow
<1>5. b * w = (b * n) * u /\ b * w + w = (b * n + n) * u
  BY <1>1, Regroup
<1>6. (b * n) * u <= a * u
  <2>1. PICK d \in Nat : a = b * n + d
    <3>1. a - b * n \in Nat /\ a = b * n + (a - b * n)
      BY <1>1, <1>3
    <3> QED
      BY <3>1
  <2>2. a * u = (b * n) * u + d * u /\ d * u \in Nat /\ (b * n) * u \in Nat
    BY <1>3, <2>1
  <2> QED
    BY <2>2
<1>7. a * u + u <= (b * n + n) * u
  <2>1. PICK d \in Nat : b * n + n = a + 1 + d
    <3>1. b * n + n - a - 1 \in Nat /\ b * n + n = a + 1 + (b * n + n - a - 1)
      BY <1>1, <1>3
    <3> QED
      BY <3>1
  <2>2. (b * n + n) * u = a * u + u + d * u /\ d * u \in Nat /\ a * u \in Nat
    BY <1>4, <2>1
  <2> QED
    BY <2>2
<1>8. b * w <= x /\ x < b * w + w
  BY <1>3, <1>4, <1>5, <1>6, <1>7
<1> QED
  BY <1>1, <1>2, <1>8, DivWindow

LEMMA DivSum ==
  ASSUME NEW a \in Nat, NEW u \in Nat \ {0}, NEW b \in Nat, b < u
  PROVE  (a * u + b) \div u = a /\ a * u + b \in Nat
<1>1. a * u \in Nat
  OBVIOUS
<1> QED
  BY <1>1, DivWindow

(* Rounding a number of places up gives enough windows.                     *)
LEMMA CeilDivCovers ==
  ASSUME NEW x \in Nat, NEW n \in Nat, NEW u \in Nat \ {0}, x < n
  PROVE  /\ CeilDiv(n, u) \in Nat
         /\ x \div u < CeilDiv(n, u)
<1> DEFINE m == n + u - 1
           c == m \div u
<1>1. m \in Nat /\ c \in Nat /\ c * u \in Nat
  BY DivMod
<1>2. m < c * u + u
  BY <1>1, DivWindow
<1>3. x < c * u
  BY <1>1, <1>2
<1>4. x \div u < c
  BY <1>1, <1>3, DivWindow
<1> QED
  BY <1>1, <1>4 DEF CeilDiv

LEMMA Divided ==
  ASSUME NEW x \in Nat, NEW u \in Nat \ {0}
  PROVE  /\ x \div u \in Nat /\ x % u \in Nat /\ x % u < u
         /\ x = (x \div u) * u + (x % u)
  BY DivMod

LEMMA Multiple ==
  ASSUME NEW x \in Nat, NEW u \in Nat \ {0}, x % u = 0
  PROVE  x \div u \in Nat /\ x = (x \div u) * u
<1>1. x \div u \in Nat /\ x = (x \div u) * u + (x % u)
  BY DivMod
<1>2. (x \div u) * u \in Nat
  BY <1>1
<1> QED
  BY <1>1, <1>2

LEMMA OfMultiple ==
  ASSUME NEW n \in Nat, NEW u \in Nat \ {0}
  PROVE  n * u \in Nat /\ (n * u) \div u = n /\ (n * u) % u = 0
<1> DEFINE x == n * u
<1>1. x \in Nat
  OBVIOUS
<1>2. x + 0 = x
  BY <1>1
<1>3. x \div u = n
  BY <1>2, DivSum
<1>4. x = (x \div u) * u + (x % u) /\ x % u \in 0 .. u - 1
  BY <1>1, DivMod
<1>5. x = x + (x % u)
  BY <1>3, <1>4
<1> QED
  BY <1>1, <1>3, <1>4, <1>5

LEMMA CeilDivPositive ==
  ASSUME NEW n \in Nat \ {0}, NEW u \in Nat \ {0}
  PROVE  CeilDiv(n, u) \in Nat \ {0}
<1>1. 0 \in Nat /\ 0 < n
  OBVIOUS
<1>2. 0 \div u = 0
  OBVIOUS
<1>3. CeilDiv(n, u) \in Nat /\ 0 \div u < CeilDiv(n, u)
  BY <1>1, CeilDivCovers
<1> QED
  BY <1>2, <1>3

-----------------------------------------------------------------------------
(* Orders.  An order of n ids has each of them at one place.                *)
LEMMA OrderIsSeq ==
  ASSUME NEW n \in Nat, NEW s \in [1 .. n -> 0 .. n - 1]
  PROVE  Len(s) = n /\ DOMAIN s = 1 .. n
  OBVIOUS

LEMMA PlaceIs ==
  ASSUME NEW n \in Nat, NEW s, IsOrder(s, n), NEW v \in 0 .. n - 1
  PROVE  /\ Place(s, v) \in 0 .. n - 1
         /\ \A k \in 1 .. n : s[k] = v <=> k - 1 = Place(s, v)
<1>1. s \in [1 .. n -> 0 .. n - 1] /\ \A i, j \in 1 .. n : s[i] = s[j] => i = j
  BY DEF IsOrder
<1>2. s \in Injection(1 .. n, 0 .. n - 1)
  BY <1>1 DEF Injection, IsInjective
<1>3. /\ IsFiniteSet(0 .. n - 1) /\ Cardinality(0 .. n - 1) = n
      /\ Cardinality(1 .. n) = n
  BY FS_Interval
<1>4. s \in Surjection(1 .. n, 0 .. n - 1)
  BY <1>2, <1>3, FS_Injection
<1>5. \E k \in 1 .. n : s[k] = v
  BY <1>4 DEF Surjection
<1>6. DOMAIN s = 1 .. n
  BY <1>1
<1>7. PICK k \in 1 .. n : s[k] = v /\ k = (CHOOSE i \in DOMAIN s : s[i] = v)
  BY <1>5, <1>6
<1> QED
  BY <1>1, <1>7 DEF Place

-----------------------------------------------------------------------------
(* The inductive invariant.  Windows are counted instead of measured: a     *)
(* nonzero is in the window of these numbers, and so is a PE.               *)
RowWindow(e) == RowPlace(e[1]) \div PE_unit_height
ColumnWindow(e) == ColumnPlace(e[2]) \div PE_unit_width
RowOf(location) == location[1] * num_row_PE_per_Tile + location[3]
ColumnOf(location) == location[2] * num_column_PE_per_Tile + location[4]
PERow(pe) == RowOf(PE_to_location[pe - 1])
PEColumn(pe) == ColumnOf(PE_to_location[pe - 1])
Members(i, j) == {e \in mat : RowWindow(e) = i /\ ColumnWindow(e) = j}

(* The windows before the one the scan is at.                               *)
ReachedAt(w, i, j) ==
  \/ w = <<>>
  \/ i < w[1] \div PE_unit_height
  \/ i = w[1] \div PE_unit_height /\ j < w[2] \div PE_unit_width
Reached(i, j) == ReachedAt(window, i, j)

ImprintsOK(r, c) ==
  /\ IsOrder(r, Len(r)) /\ Len(r) \in {MatrixRows, Rows}
  /\ IsOrder(c, Len(c)) /\ Len(c) \in {MatrixColumns, Columns}

(* While the scan runs the order stays, and the scan stands at a window     *)
(* whose first column exists.                                               *)
WindowOK ==
  ~ Idle =>
    /\ scanned = imprints
    /\ window[1] % PE_unit_height = 0 /\ window[2] % PE_unit_width = 0
    /\ window[2] < Len(col_imprint)

(* A PE holds the rows and columns of the nonzeros of its window, which the *)
(* scan has passed.                                                         *)
UnitOK(pe) ==
  /\ PE_to_location[pe - 1] \in Nat \X Nat \X Nat \X Nat \X Nat
  /\ PE_to_location[pe - 1][3] < num_row_PE_per_Tile
  /\ PE_to_location[pe - 1][4] < num_column_PE_per_Tile
  /\ PE_to_location[pe - 1][5] = pe - 1 /\ storage_units[pe].id = pe - 1
  /\ Members(PERow(pe), PEColumn(pe)) # {}
  /\ storage_units[pe].row_imprint = {e[1] : e \in Members(PERow(pe), PEColumn(pe))}
  /\ storage_units[pe].col_imprint = {e[2] : e \in Members(PERow(pe), PEColumn(pe))}
  /\ Reached(PERow(pe), PEColumn(pe))

UnitsOK ==
  /\ \A pe \in PEs : UnitOK(pe)
  /\ \A pe, other \in PEs :
       PERow(pe) = PERow(other) /\ PEColumn(pe) = PEColumn(other) => pe = other
  /\ \A e \in mat : Reached(RowWindow(e), ColumnWindow(e)) =>
       \E pe \in PEs : PERow(pe) = RowWindow(e) /\ PEColumn(pe) = ColumnWindow(e)

TileNumber(pe) == PE_to_location[pe - 1][1] * TileColumns + PE_to_location[pe - 1][2]
TilesOK ==
  /\ TileColumns = TileColumnsOf(Len(scanned[2]))
  /\ allocatedTiles = {TileNumber(pe) : pe \in PEs}
  /\ Idle => numTiles = Cardinality(allocatedTiles)

ScanOK ==
  IF HasScanned
  THEN ImprintsOK(scanned[1], scanned[2]) /\ WindowOK /\ UnitsOK /\ TilesOK
  ELSE Idle /\ storage_units = <<>>

IInv ==
  /\ TypeOK
  /\ ImprintsOK(row_imprint, col_imprint)
  /\ ScanOK

-----------------------------------------------------------------------------
(* What the invariant says of places, windows and PEs.                      *)
LEMMA PaddedIsLarger ==
  /\ MatrixRows \in Nat \ {0} /\ Rows \in Nat /\ MatrixRows <= Rows
  /\ MatrixColumns \in Nat \ {0} /\ Columns \in Nat /\ MatrixColumns <= Columns
<1>1. PICK r, c : r = Rows /\ c = Columns
  OBVIOUS
<1>2. r \in Nat \ {0} /\ MatrixRows <= r
  BY <1>1, PaddedMultiple, DimensionsAssumption DEF Rows, Expanded
<1>3. c \in Nat \ {0} /\ MatrixColumns <= c
  BY <1>1, PaddedMultiple, DimensionsAssumption DEF Columns, Expanded
<1> QED
  BY <1>1, <1>2, <1>3, DimensionsAssumption

LEMMA PlacesOfImprints ==
  ASSUME NEW r, NEW c, ImprintsOK(r, c), NEW e \in RowIds \X ColumnIds
  PROVE  /\ Place(r, e[1]) \in 0 .. Len(r) - 1
         /\ Place(c, e[2]) \in 0 .. Len(c) - 1
         /\ \A k \in 1 .. Len(r) : r[k] = e[1] <=> k - 1 = Place(r, e[1])
         /\ \A k \in 1 .. Len(c) : c[k] = e[2] <=> k - 1 = Place(c, e[2])
<1>1. /\ Len(r) \in Nat /\ IsOrder(r, Len(r)) /\ e[1] \in 0 .. Len(r) - 1
      /\ Len(c) \in Nat /\ IsOrder(c, Len(c)) /\ e[2] \in 0 .. Len(c) - 1
  BY PaddedIsLarger DEF ImprintsOK, RowIds, ColumnIds
<1>2. /\ Place(r, e[1]) \in 0 .. Len(r) - 1
      /\ \A k \in 1 .. Len(r) : r[k] = e[1] <=> k - 1 = Place(r, e[1])
  BY <1>1, PlaceIs
<1>3. /\ Place(c, e[2]) \in 0 .. Len(c) - 1
      /\ \A k \in 1 .. Len(c) : c[k] = e[2] <=> k - 1 = Place(c, e[2])
  BY <1>1, PlaceIs
<1> QED
  BY <1>2, <1>3

LEMMA WindowsAreNumbers ==
  ASSUME ImprintsOK(scanned[1], scanned[2]), NEW e \in RowIds \X ColumnIds
  PROVE  /\ RowPlace(e[1]) \in 0 .. Len(scanned[1]) - 1
         /\ ColumnPlace(e[2]) \in 0 .. Len(scanned[2]) - 1
         /\ Len(scanned[1]) \in Nat /\ Len(scanned[2]) \in Nat
         /\ RowPlace(e[1]) \in Nat /\ ColumnPlace(e[2]) \in Nat
         /\ RowWindow(e) \in Nat /\ ColumnWindow(e) \in Nat
<1>1. Len(scanned[1]) \in Nat /\ Len(scanned[2]) \in Nat
  BY PaddedIsLarger DEF ImprintsOK
<1>2. RowPlace(e[1]) \in 0 .. Len(scanned[1]) - 1 /\ ColumnPlace(e[2]) \in 0 .. Len(scanned[2]) - 1
  BY PlacesOfImprints DEF RowPlace, ColumnPlace
<1>3. RowPlace(e[1]) \in Nat /\ ColumnPlace(e[2]) \in Nat
  BY <1>1, <1>2
<1>4. RowWindow(e) \in Nat
  BY <1>3, DivMod, HardwareAssumption DEF RowWindow
<1>5. ColumnWindow(e) \in Nat
  BY <1>3, DivMod, HardwareAssumption DEF ColumnWindow
<1> QED
  BY <1>1, <1>2, <1>3, <1>4, <1>5

LEMMA HoldsIs ==
  ASSUME NEW pe \in PEs, UnitOK(pe), NEW e \in mat
  PROVE  Holds(pe, e) <=> PERow(pe) = RowWindow(e) /\ PEColumn(pe) = ColumnWindow(e)
  BY DEF UnitOK, Holds, Members, RowWindow, ColumnWindow

LEMMA PassedIs ==
  ASSUME TypeOK, HasScanned, ImprintsOK(scanned[1], scanned[2]), WindowOK, NEW e \in mat
  PROVE  Passed(e) <=> Reached(RowWindow(e), ColumnWindow(e))
<1>1. CASE Idle
  BY <1>1 DEF Passed, Reached, ReachedAt, Idle
<1>2. CASE ~ Idle
  <2> DEFINE a == window[1] \div PE_unit_height
             b == window[2] \div PE_unit_width
  <2>1. window[1] \in Nat /\ window[2] \in Nat
    BY <1>2 DEF TypeOK, Idle
  <2>2. a \in Nat /\ b \in Nat /\ window[1] = a * PE_unit_height /\ window[2] = b * PE_unit_width
    <3>1. window[1] % PE_unit_height = 0 /\ window[2] % PE_unit_width = 0
      BY <1>2 DEF WindowOK
    <3>2. a \in Nat /\ window[1] = a * PE_unit_height + 0
      BY <2>1, <3>1, DivMod, HardwareAssumption
    <3>3. b \in Nat /\ window[2] = b * PE_unit_width + 0
      BY <2>1, <3>1, DivMod, HardwareAssumption
    <3> QED
      BY <3>2, <3>3, HardwareAssumption
  <2>3. /\ RowPlace(e[1]) \in Nat /\ ColumnPlace(e[2]) \in Nat
        /\ RowWindow(e) \in Nat /\ ColumnWindow(e) \in Nat
    BY WindowsAreNumbers DEF TypeOK
  <2>4. /\ RowWindow(e) < a <=> RowPlace(e[1]) < window[1]
        /\ RowWindow(e) <= a <=> RowPlace(e[1]) < window[1] + PE_unit_height
    BY <2>2, <2>3, DivWindow, HardwareAssumption DEF RowWindow
  <2>5. ColumnWindow(e) < b <=> ColumnPlace(e[2]) < window[2]
    BY <2>2, <2>3, DivWindow, HardwareAssumption DEF ColumnWindow
  <2> QED
    BY <1>2, <2>2, <2>3, <2>4, <2>5 DEF Passed, Reached, ReachedAt, Idle
<1> QED
  BY <1>1, <1>2

-----------------------------------------------------------------------------
(* The properties follow from the invariant.                                *)
LEMMA InOnePE == IInv => NonzerosInOnePE
<1> SUFFICES ASSUME IInv, HasScanned, NEW e \in mat
             PROVE  Cardinality({pe \in PEs : Holds(pe, e)}) = IF Passed(e) THEN 1 ELSE 0
  BY DEF NonzerosInOnePE
<1>1. TypeOK /\ ImprintsOK(scanned[1], scanned[2]) /\ WindowOK /\ UnitsOK
  BY DEF IInv, ScanOK
<1>2. Passed(e) <=> Reached(RowWindow(e), ColumnWindow(e))
  BY <1>1, PassedIs
<1>3. \A pe \in PEs : UnitOK(pe) /\
        (Holds(pe, e) <=> PERow(pe) = RowWindow(e) /\ PEColumn(pe) = ColumnWindow(e))
  BY <1>1, HoldsIs DEF UnitsOK
<1>4. CASE Passed(e)
  <2>1. PICK pe \in PEs : Holds(pe, e)
    BY <1>1, <1>2, <1>3, <1>4 DEF UnitsOK
  <2>2. {other \in PEs : Holds(other, e)} = {pe}
    BY <1>1, <1>3, <2>1 DEF UnitsOK
  <2> QED
    BY <1>4, <2>2, FS_Singleton
<1>5. CASE ~ Passed(e)
  <2>1. {pe \in PEs : Holds(pe, e)} = {}
    BY <1>2, <1>3, <1>5 DEF UnitOK
  <2> QED
    BY <1>5, <2>1, FS_EmptySet
<1> QED
  BY <1>4, <1>5

LEMMA Geometric == IInv => LocationsAreGeometric
<1> SUFFICES ASSUME IInv, NEW pe \in PEs, NEW e \in mat, Holds(pe, e)
             PROVE  LET location == PE_to_location[pe - 1]
                        row == location[1] * num_row_PE_per_Tile + location[3]
                        column == location[2] * num_column_PE_per_Tile + location[4]
                    IN  /\ row = RowPlace(e[1]) \div PE_unit_height
                        /\ column = ColumnPlace(e[2]) \div PE_unit_width
                        /\ location[3] < num_row_PE_per_Tile
                        /\ location[4] < num_column_PE_per_Tile
                        /\ location[5] = storage_units[pe].id /\ storage_units[pe].id = pe - 1
  BY DEF LocationsAreGeometric
<1>1. HasScanned
  BY DEF IInv, ScanOK, PEs
<1>2. UnitOK(pe)
  BY <1>1 DEF IInv, ScanOK, UnitsOK
<1>3. PERow(pe) = RowWindow(e) /\ PEColumn(pe) = ColumnWindow(e)
  BY <1>2, HoldsIs
<1> QED
  BY <1>2, <1>3 DEF UnitOK, PERow, PEColumn, RowOf, ColumnOf, RowWindow, ColumnWindow

(* The number of a tile tells which tile it is, because the columns of      *)
(* tiles are rounded up.                                                    *)
LEMMA TileOfIs ==
  ASSUME ImprintsOK(scanned[1], scanned[2]), TilesOK, NEW e \in RowIds \X ColumnIds
  PROVE  /\ TileOf(e) = <<RowWindow(e) \div num_row_PE_per_Tile,
                          ColumnWindow(e) \div num_column_PE_per_Tile>>
         /\ TileOf(e) \in Nat \X Nat /\ TileColumns \in Nat /\ TileOf(e)[2] < TileColumns
<1>1. /\ RowPlace(e[1]) \in Nat /\ ColumnPlace(e[2]) \in Nat
      /\ RowWindow(e) \in Nat /\ ColumnWindow(e) \in Nat
      /\ Len(scanned[2]) \in Nat /\ ColumnPlace(e[2]) < Len(scanned[2])
  BY WindowsAreNumbers
<1>2. /\ RowPlace(e[1]) \div (PE_unit_height * num_row_PE_per_Tile)
           = RowWindow(e) \div num_row_PE_per_Tile
      /\ ColumnPlace(e[2]) \div (PE_unit_width * num_column_PE_per_Tile)
           = ColumnWindow(e) \div num_column_PE_per_Tile
  <2>1. ASSUME NEW x \in Nat, NEW u \in Nat \ {0}, NEW n \in Nat \ {0}
        PROVE  x \div (u * n) = (x \div u) \div n
    BY DivDiv
  <2> QED
    BY <1>1, <2>1, HardwareAssumption DEF RowWindow, ColumnWindow
<1>3. /\ RowWindow(e) \div num_row_PE_per_Tile \in Nat
      /\ ColumnWindow(e) \div num_column_PE_per_Tile \in Nat
  BY <1>1, DivMod, HardwareAssumption
<1> DEFINE windows == CeilDiv(Len(scanned[2]), PE_unit_width)
<1>4. windows \in Nat /\ ColumnWindow(e) < windows
  BY <1>1, CeilDivCovers, HardwareAssumption DEF ColumnWindow
<1>5. /\ CeilDiv(windows, num_column_PE_per_Tile) \in Nat
      /\ ColumnWindow(e) \div num_column_PE_per_Tile < CeilDiv(windows, num_column_PE_per_Tile)
  BY <1>1, <1>4, CeilDivCovers, HardwareAssumption
<1>6. TileColumns = CeilDiv(windows, num_column_PE_per_Tile)
  BY DEF TilesOK, TileColumnsOf
<1> QED
  BY <1>2, <1>3, <1>5, <1>6 DEF TileOf

(* A PE's location names the tile of its nonzeros.                          *)
LEMMA UnitTile ==
  ASSUME ImprintsOK(scanned[1], scanned[2]), TilesOK, NEW pe \in PEs, UnitOK(pe),
         NEW e \in mat, mat \subseteq RowIds \X ColumnIds,
         PERow(pe) = RowWindow(e), PEColumn(pe) = ColumnWindow(e)
  PROVE  TileNumber(pe) = TileOf(e)[1] * TileColumns + TileOf(e)[2]
<1> DEFINE l == PE_to_location[pe - 1]
<1>1. /\ l[1] \in Nat /\ l[2] \in Nat /\ l[3] \in Nat /\ l[4] \in Nat
      /\ l[3] < num_row_PE_per_Tile /\ l[4] < num_column_PE_per_Tile
  BY DEF UnitOK
<1>2. /\ RowWindow(e) = l[1] * num_row_PE_per_Tile + l[3]
      /\ ColumnWindow(e) = l[2] * num_column_PE_per_Tile + l[4]
  BY DEF PERow, PEColumn, RowOf, ColumnOf
<1>3. RowWindow(e) \in Nat /\ ColumnWindow(e) \in Nat
  BY WindowsAreNumbers
<1>4. RowWindow(e) \div num_row_PE_per_Tile = l[1]
  BY <1>1, <1>2, DivSum, HardwareAssumption
<1>5. ColumnWindow(e) \div num_column_PE_per_Tile = l[2]
  BY <1>1, <1>2, DivSum, HardwareAssumption
<1>6. TileOf(e)[1] = l[1] /\ TileOf(e)[2] = l[2]
  BY <1>4, <1>5, TileOfIs
<1> QED
  BY <1>6 DEF TileNumber

LEMMA TilesGetCounted == IInv => TilesAreCounted
<1> SUFFICES ASSUME IInv, Idle, HasScanned
             PROVE  numTiles = Cardinality({TileOf(e) : e \in mat})
  BY DEF TilesAreCounted
<1>1. /\ ImprintsOK(scanned[1], scanned[2]) /\ UnitsOK /\ TilesOK
      /\ mat \subseteq RowIds \X ColumnIds
  BY DEF IInv, ScanOK, TypeOK
<1> DEFINE T == {TileOf(e) : e \in mat}
           number == [t \in T |-> t[1] * TileColumns + t[2]]
           tile == [e \in mat |-> TileOf(e)]
<1>2. \A e \in mat : TileOf(e) \in Nat \X Nat /\ TileColumns \in Nat /\ TileOf(e)[2] < TileColumns
  BY <1>1, TileOfIs
<1>3. IsFiniteSet(T)
  <2>1. IsFiniteSet(RowIds) /\ IsFiniteSet(ColumnIds)
    BY FS_Interval, DimensionsAssumption DEF RowIds, ColumnIds
  <2>2. IsFiniteSet(RowIds \X ColumnIds)
    BY <2>1, FS_Product
  <2>3. IsFiniteSet(mat)
    BY <1>1, <2>2, FS_Subset
  <2>4. tile \in Surjection(mat, T)
    BY DEF Surjection
  <2> QED
    BY <2>3, <2>4, FS_Surjection
<1>4. \A t \in T : number[t] \in allocatedTiles
  <2> SUFFICES ASSUME NEW e \in mat PROVE number[TileOf(e)] \in allocatedTiles
    OBVIOUS
  <2>1. PICK pe \in PEs : PERow(pe) = RowWindow(e) /\ PEColumn(pe) = ColumnWindow(e)
    BY <1>1 DEF UnitsOK, Reached, ReachedAt, Idle
  <2>2. UnitOK(pe)
    BY <1>1 DEF UnitsOK
  <2>3. TileNumber(pe) = number[TileOf(e)]
    BY <1>1, <2>1, <2>2, UnitTile
  <2> QED
    BY <1>1, <2>3 DEF TilesOK
<1>5. \A n \in allocatedTiles : \E t \in T : number[t] = n
  <2> SUFFICES ASSUME NEW pe \in PEs PROVE \E t \in T : number[t] = TileNumber(pe)
    BY <1>1 DEF TilesOK
  <2>1. UnitOK(pe)
    BY <1>1 DEF UnitsOK
  <2>2. PICK e \in mat : PERow(pe) = RowWindow(e) /\ PEColumn(pe) = ColumnWindow(e)
    BY <2>1 DEF UnitOK, Members
  <2>3. TileNumber(pe) = number[TileOf(e)]
    BY <1>1, <2>1, <2>2, UnitTile
  <2> QED
    BY <2>3
<1>6. \A s, t \in T : number[s] = number[t] => s = t
  <2> SUFFICES ASSUME NEW s \in T, NEW t \in T, number[s] = number[t] PROVE s = t
    OBVIOUS
  <2>1. /\ s \in Nat \X Nat /\ t \in Nat \X Nat /\ TileColumns \in Nat \ {0}
        /\ s[2] \in 0 .. TileColumns - 1 /\ t[2] \in 0 .. TileColumns - 1
    BY <1>2
  <2>2. s[1] * TileColumns + s[2] = t[1] * TileColumns + t[2]
    OBVIOUS
  <2>3. (s[1] * TileColumns + s[2]) \div TileColumns = s[1]
    BY <2>1, DivSum
  <2>4. (t[1] * TileColumns + t[2]) \div TileColumns = t[1]
    BY <2>1, DivSum
  <2>5. s[1] = t[1] /\ s[2] = t[2]
    <3>1. s[1] = t[1]
      BY <2>2, <2>3, <2>4
    <3>2. PICK m \in Nat : s[1] * TileColumns = m /\ t[1] * TileColumns = m
      BY <2>1, <3>1
    <3>3. m + s[2] = m + t[2]
      BY <2>2, <3>2
    <3> QED
      BY <2>1, <3>1, <3>3
  <2> QED
    BY <2>1, <2>5
<1>7. number \in Bijection(T, allocatedTiles)
  BY <1>4, <1>5, <1>6 DEF Bijection, Injection, Surjection, IsInjective
<1>8. Cardinality(allocatedTiles) = Cardinality(T)
  BY <1>3, <1>7, FS_Bijection DEF ExistsBijection
<1> QED
  BY <1>1, <1>8 DEF TilesOK

LEMMA OfTheScan == IInv => PEsAreOfTheScan
<1> SUFFICES ASSUME IInv, HasScanned
             PROVE  /\ \A pe \in PEs :
                         /\ Located(pe) # {}
                         /\ \A e \in Located(pe) : Passed(e)
                         /\ storage_units[pe].row_imprint = {e[1] : e \in Located(pe)}
                         /\ storage_units[pe].col_imprint = {e[2] : e \in Located(pe)}
                         /\ \A other \in PEs : Located(other) = Located(pe) => other = pe
                    /\ allocatedTiles
                         = {TileOf(e)[1] * TileColumnsOf(Len(scanned[2])) + TileOf(e)[2] :
                              e \in {x \in mat : Passed(x)}}
  BY DEF PEsAreOfTheScan
<1>1. /\ TypeOK /\ ImprintsOK(scanned[1], scanned[2]) /\ WindowOK /\ UnitsOK /\ TilesOK
      /\ mat \subseteq RowIds \X ColumnIds
  BY DEF IInv, ScanOK, TypeOK
<1>2. \A e \in mat : Passed(e) <=> Reached(RowWindow(e), ColumnWindow(e))
  BY <1>1, PassedIs
<1>3. \A pe \in PEs : Located(pe) = Members(PERow(pe), PEColumn(pe))
  BY DEF Located, Members, PERow, PEColumn, RowOf, ColumnOf, RowWindow, ColumnWindow
<1>4. ASSUME NEW pe \in PEs
      PROVE  /\ Located(pe) # {}
             /\ \A e \in Located(pe) : Passed(e)
             /\ storage_units[pe].row_imprint = {e[1] : e \in Located(pe)}
             /\ storage_units[pe].col_imprint = {e[2] : e \in Located(pe)}
             /\ \A other \in PEs : Located(other) = Located(pe) => other = pe
  <2>1. UnitOK(pe) /\ Located(pe) = Members(PERow(pe), PEColumn(pe))
    BY <1>1, <1>3 DEF UnitsOK
  <2>2. \A e \in Located(pe) : /\ e \in mat
                              /\ RowWindow(e) = PERow(pe) /\ ColumnWindow(e) = PEColumn(pe)
    BY <2>1 DEF Members
  <2>3. PICK e : e \in Located(pe)
    BY <2>1 DEF UnitOK
  <2>4. \A x \in Located(pe) : Passed(x)
    BY <1>2, <2>1, <2>2 DEF UnitOK
  <2>5. ASSUME NEW other \in PEs, Located(other) = Located(pe) PROVE other = pe
    <3>1. e \in Members(PERow(other), PEColumn(other))
      BY <1>3, <2>3, <2>5
    <3>2. PERow(other) = PERow(pe) /\ PEColumn(other) = PEColumn(pe)
      BY <2>2, <2>3, <3>1 DEF Members
    <3> QED
      BY <1>1, <3>2 DEF UnitsOK
  <2> QED
    BY <2>1, <2>3, <2>4, <2>5 DEF UnitOK
<1>5. /\ TileColumns = TileColumnsOf(Len(scanned[2]))
      /\ allocatedTiles = {TileNumber(pe) : pe \in PEs}
  BY <1>1 DEF TilesOK
<1>6. ASSUME NEW pe \in PEs
      PROVE  \E e \in mat : /\ Passed(e)
                            /\ TileNumber(pe) = TileOf(e)[1] * TileColumns + TileOf(e)[2]
  <2>1. UnitOK(pe)
    BY <1>1 DEF UnitsOK
  <2>2. PICK e \in mat : PERow(pe) = RowWindow(e) /\ PEColumn(pe) = ColumnWindow(e)
    BY <2>1 DEF UnitOK, Members
  <2>3. Passed(e)
    BY <1>2, <2>1, <2>2 DEF UnitOK
  <2> QED
    BY <1>1, <2>1, <2>2, <2>3, UnitTile
<1>7. ASSUME NEW e \in mat, Passed(e)
      PROVE  \E pe \in PEs : TileNumber(pe) = TileOf(e)[1] * TileColumns + TileOf(e)[2]
  <2>1. PICK pe \in PEs : PERow(pe) = RowWindow(e) /\ PEColumn(pe) = ColumnWindow(e)
    BY <1>1, <1>2, <1>7 DEF UnitsOK
  <2>2. UnitOK(pe)
    BY <1>1 DEF UnitsOK
  <2> QED
    BY <1>1, <2>1, <2>2, UnitTile
<1>8. allocatedTiles = {TileOf(e)[1] * TileColumns + TileOf(e)[2] :
                          e \in {x \in mat : Passed(x)}}
  BY <1>5, <1>6, <1>7
<1>9. allocatedTiles = {TileOf(e)[1] * TileColumnsOf(Len(scanned[2])) + TileOf(e)[2] :
                          e \in {x \in mat : Passed(x)}}
  BY <1>5, <1>8
<1>10. \A pe \in PEs :
         /\ Located(pe) # {}
         /\ \A e \in Located(pe) : Passed(e)
         /\ storage_units[pe].row_imprint = {e[1] : e \in Located(pe)}
         /\ storage_units[pe].col_imprint = {e[2] : e \in Located(pe)}
         /\ \A other \in PEs : Located(other) = Located(pe) => other = pe
  BY <1>4
<1> QED
  BY <1>9, <1>10

-----------------------------------------------------------------------------
(* The invariant is inductive.                                              *)
LEMMA IdentityIsOrder ==
  ASSUME NEW n \in Nat
  PROVE  IsOrder(Identity(n), n) /\ Len(Identity(n)) = n /\ Identity(n) \in [1 .. n -> 0 .. n - 1]
  BY DEF IsOrder, Identity

LEMMA InitIsOK == Init => IInv
<1> SUFFICES ASSUME Init PROVE IInv
  OBVIOUS
<1>1. /\ IsOrder(row_imprint, MatrixRows) /\ Len(row_imprint) = MatrixRows
      /\ IsOrder(col_imprint, MatrixColumns) /\ Len(col_imprint) = MatrixColumns
  BY IdentityIsOrder, DimensionsAssumption DEF Init
<1>2. ImprintsOK(row_imprint, col_imprint)
  BY <1>1 DEF ImprintsOK
<1>3. TypeOK
  BY <1>1, MatricesAssumption DEF Init, TypeOK
<1>4. ScanOK
  BY DEF Init, ScanOK, HasScanned, Idle
<1> QED
  BY <1>2, <1>3, <1>4 DEF IInv

(* The imprints may change when no scan runs.                               *)
LEMMA ImprintsMayChange ==
  ASSUME ScanOK, Idle, UNCHANGED <<mat, units, window, scanned>>
  PROVE  ScanOK'
<1>1. CASE ~ HasScanned
  BY <1>1 DEF ScanOK, HasScanned, Idle, units
<1>2. CASE HasScanned
  <2>1. ImprintsOK(scanned[1], scanned[2])' /\ WindowOK' /\ HasScanned'
    BY <1>2 DEF ScanOK, HasScanned, Idle, WindowOK, ImprintsOK
  <2>2. UnitsOK'
    BY <1>2 DEF ScanOK, UnitsOK, UnitOK, PEs, PERow, PEColumn, Members, RowWindow, ColumnWindow,
                RowPlace, ColumnPlace, Reached, units
  <2>3. TilesOK'
    BY <1>2 DEF ScanOK, TilesOK, TileNumber, PEs, Idle, units
  <2> QED
    BY <2>1, <2>2, <2>3 DEF ScanOK
<1> QED
  BY <1>1, <1>2

LEMMA ReorderKeeps == IInv /\ Reorder => IInv'
<1> SUFFICES ASSUME IInv, Reorder PROVE IInv'
  OBVIOUS
<1>1. IsOrder(row_imprint', Rows) /\ IsOrder(col_imprint', Columns)
  BY DEF Reorder
<1>2. Len(row_imprint') = Rows /\ Len(col_imprint') = Columns
  BY <1>1, OrderIsSeq, PaddedIsLarger DEF IsOrder
<1>3. ImprintsOK(row_imprint, col_imprint)'
  BY <1>1, <1>2 DEF ImprintsOK
<1>4. TypeOK'
  BY <1>1, <1>2 DEF Reorder, IInv, TypeOK, units
<1>5. ScanOK'
  BY ImprintsMayChange DEF Reorder, IInv
<1> QED
  BY <1>3, <1>4, <1>5 DEF IInv

LEMMA ResetKeeps == IInv /\ ResetImprints => IInv'
<1> SUFFICES ASSUME IInv, ResetImprints PROVE IInv'
  OBVIOUS
<1>1. /\ IsOrder(row_imprint', MatrixRows) /\ Len(row_imprint') = MatrixRows
      /\ IsOrder(col_imprint', MatrixColumns) /\ Len(col_imprint') = MatrixColumns
  BY IdentityIsOrder, DimensionsAssumption DEF ResetImprints
<1>2. ImprintsOK(row_imprint, col_imprint)'
  BY <1>1 DEF ImprintsOK
<1>3. TypeOK'
  BY <1>1 DEF ResetImprints, IInv, TypeOK, units
<1>4. ScanOK'
  BY ImprintsMayChange DEF ResetImprints, IInv
<1> QED
  BY <1>2, <1>3, <1>4 DEF IInv

LEMMA StartKeeps == IInv /\ StartStorageModel => IInv'
<1> SUFFICES ASSUME IInv, StartStorageModel PROVE IInv'
  OBVIOUS
<1> USE DEF StartStorageModel
<1>1. /\ ImprintsOK(row_imprint, col_imprint) /\ TypeOK
      /\ Len(row_imprint) \in Nat \ {0} /\ Len(col_imprint) \in Nat \ {0}
  BY PaddedIsLarger DEF IInv, ImprintsOK
<1>2. scanned' = <<row_imprint, col_imprint>> /\ row_imprint' = row_imprint /\ col_imprint' = col_imprint
  BY DEF imprints
<1>3. HasScanned'
  BY <1>1, <1>2 DEF HasScanned
<1>4. ImprintsOK(scanned[1], scanned[2])' /\ ImprintsOK(row_imprint, col_imprint)'
  BY <1>1, <1>2 DEF ImprintsOK
<1>5. ~ Idle' /\ window'[1] = 0 /\ window'[2] = 0
  BY DEF Idle
<1>6. WindowOK'
  <2>1. 0 % PE_unit_height = 0 /\ 0 % PE_unit_width = 0
    BY HardwareAssumption
  <2> QED
    BY <1>1, <1>2, <1>5, <2>1 DEF WindowOK, imprints
<1>7. UnitsOK'
  <2>1. PEs' = {}
    BY DEF PEs
  <2>2. \A i, j \in Nat : ~ Reached(i, j)'
    <3>1. 0 \div PE_unit_height = 0 /\ 0 \div PE_unit_width = 0
      BY HardwareAssumption
    <3> QED
      BY <3>1 DEF Reached, ReachedAt
  <2>3. \A e \in mat' : RowWindow(e)' \in Nat /\ ColumnWindow(e)' \in Nat
    <3> SUFFICES ASSUME NEW e \in mat' PROVE RowWindow(e)' \in Nat /\ ColumnWindow(e)' \in Nat
      OBVIOUS
    <3>1. e \in RowIds \X ColumnIds
      BY <1>1 DEF TypeOK
    <3>2. /\ Place(row_imprint, e[1]) \in 0 .. Len(row_imprint) - 1
          /\ Place(col_imprint, e[2]) \in 0 .. Len(col_imprint) - 1
      BY <1>1, <3>1, PlacesOfImprints
    <3>3. Place(row_imprint, e[1]) \in Nat /\ Place(col_imprint, e[2]) \in Nat
      BY <1>1, <3>2
    <3>4. /\ Place(row_imprint, e[1]) \div PE_unit_height \in Nat
          /\ Place(col_imprint, e[2]) \div PE_unit_width \in Nat
      BY <3>3, DivMod, HardwareAssumption
    <3> QED
      BY <1>2, <3>4 DEF RowWindow, ColumnWindow, RowPlace, ColumnPlace
  <2> QED
    BY <2>1, <2>2, <2>3 DEF UnitsOK
<1>8. TilesOK'
  BY <1>2, <1>5 DEF TilesOK, PEs
<1>9. TypeOK'
  <2>1. TileColumns' \in Nat
    <3>1. CeilDiv(Len(col_imprint), PE_unit_width) \in Nat \ {0}
      BY <1>1, CeilDivPositive, HardwareAssumption
    <3> QED
      BY <3>1, CeilDivPositive, HardwareAssumption DEF TileColumnsOf
  <2> QED
    BY <1>1, <1>2, <2>1 DEF TypeOK, imprints
<1> QED
  BY <1>3, <1>4, <1>6, <1>7, <1>8, <1>9 DEF IInv, ScanOK

LEMMA FinishKeeps == IInv /\ FinishStorageModel => IInv'
<1> SUFFICES ASSUME IInv, FinishStorageModel PROVE IInv'
  OBVIOUS
<1> USE DEF FinishStorageModel
<1>1. /\ TypeOK /\ HasScanned /\ ImprintsOK(scanned[1], scanned[2])
      /\ WindowOK /\ UnitsOK /\ TilesOK
  BY DEF IInv, ScanOK
<1>2. Idle' /\ HasScanned' /\ ImprintsOK(row_imprint, col_imprint)'
      /\ ImprintsOK(scanned[1], scanned[2])' /\ WindowOK'
  BY <1>1 DEF Idle, HasScanned, WindowOK, IInv, ImprintsOK, imprints
<1>3. \A e \in mat : Reached(RowWindow(e), ColumnWindow(e))
  <2> SUFFICES ASSUME NEW e \in mat PROVE Passed(e)
    BY <1>1, PassedIs
  <2>1. RowPlace(e[1]) \in 0 .. Len(scanned[1]) - 1 /\ Len(scanned[1]) \in Nat
    BY <1>1, WindowsAreNumbers DEF TypeOK
  <2>2. window[1] >= Len(scanned[1]) /\ window[1] \in Nat
    BY <1>1 DEF WindowOK, TypeOK, Idle, imprints
  <2> QED
    BY <2>1, <2>2 DEF Passed
<1>4. UnitsOK'
  <2>1. \A i, j : Reached(i, j)'
    BY DEF Reached, ReachedAt
  <2>2. /\ PEs' = PEs /\ mat' = mat
        /\ \A e : RowWindow(e)' = RowWindow(e) /\ ColumnWindow(e)' = ColumnWindow(e)
        /\ \A pe : PERow(pe)' = PERow(pe) /\ PEColumn(pe)' = PEColumn(pe)
        /\ \A i, j : Members(i, j)' = Members(i, j)
    BY DEF PEs, RowWindow, ColumnWindow, RowPlace, ColumnPlace, PERow, PEColumn, Members
  <2>3. \A pe \in PEs : UnitOK(pe)'
    BY <1>1, <2>1, <2>2 DEF UnitsOK, UnitOK
  <2> QED
    BY <1>1, <1>3, <2>2, <2>3 DEF UnitsOK
<1>5. TilesOK'
  BY <1>1 DEF TilesOK, TileNumber, PEs
<1>6. TypeOK'
  <2>1. IsFiniteSet(PEs)
    BY <1>1, FS_Interval DEF TypeOK, PEs
  <2>2. [pe \in PEs |-> TileNumber(pe)] \in Surjection(PEs, allocatedTiles)
    BY <1>1 DEF Surjection, TilesOK
  <2>3. Cardinality(allocatedTiles) \in Nat
    BY <2>1, <2>2, FS_Surjection, FS_CardinalityType
  <2>4. numTiles' = Cardinality(allocatedTiles) /\ window' = <<>>
    OBVIOUS
  <2>5. UNCHANGED <<mat, imprints, storage_units, PE_to_location, TileColumns, allocatedTiles>>
    OBVIOUS
  <2> QED
    BY <1>1, <2>3, <2>4, <2>5 DEF TypeOK, imprints
<1> QED
  BY <1>2, <1>4, <1>5, <1>6 DEF IInv, ScanOK

(* The window the scan is at, by its numbers: what it holds.                *)
LEMMA WindowHolds ==
  ASSUME TypeOK, HasScanned, ~ Idle, WindowOK, ImprintsOK(scanned[1], scanned[2]),
         NEW a, a = window[1] \div PE_unit_height,
         NEW b, b = window[2] \div PE_unit_width
  PROVE  /\ a \in Nat /\ b \in Nat
         /\ window = <<a * PE_unit_height, b * PE_unit_width>>
         /\ Nonzeros(window) = Members(a, b)
<1>1. window \in Nat \X Nat /\ window[1] % PE_unit_height = 0 /\ window[2] % PE_unit_width = 0
  BY DEF TypeOK, Idle, WindowOK
<1>2. a \in Nat /\ window[1] = a * PE_unit_height
  BY <1>1, Multiple, HardwareAssumption
<1>3. b \in Nat /\ window[2] = b * PE_unit_width
  BY <1>1, Multiple, HardwareAssumption
<1>4. scanned[1] = row_imprint /\ scanned[2] = col_imprint
  BY DEF WindowOK, imprints
<1>5. /\ Len(row_imprint) \in Nat /\ DOMAIN row_imprint = 1 .. Len(row_imprint)
      /\ Len(col_imprint) \in Nat /\ DOMAIN col_imprint = 1 .. Len(col_imprint)
  BY <1>4, PaddedIsLarger DEF ImprintsOK, IsOrder
<1>6. ASSUME NEW e \in mat PROVE e \in Nonzeros(window) <=> e \in Members(a, b)
  <2>1. e \in RowIds \X ColumnIds /\ e = <<e[1], e[2]>>
    BY DEF TypeOK
  <2>2. /\ RowPlace(e[1]) \in 0 .. Len(row_imprint) - 1
        /\ \A k \in 1 .. Len(row_imprint) : row_imprint[k] = e[1] <=> k - 1 = RowPlace(e[1])
        /\ ColumnPlace(e[2]) \in 0 .. Len(col_imprint) - 1
        /\ \A k \in 1 .. Len(col_imprint) : col_imprint[k] = e[2] <=> k - 1 = ColumnPlace(e[2])
    BY <1>4, <2>1, PlacesOfImprints DEF RowPlace, ColumnPlace
  <2>3. (\E k \in RowPlaces(window) : row_imprint[k] = e[1])
          <=> window[1] <= RowPlace(e[1]) /\ RowPlace(e[1]) < window[1] + PE_unit_height
    <3>1. window[1] \in Nat /\ PE_unit_height \in Nat \ {0}
      BY <1>1, HardwareAssumption
    <3>2. RowPlace(e[1]) + 1 \in DOMAIN row_imprint /\ row_imprint[RowPlace(e[1]) + 1] = e[1]
      BY <1>5, <2>2
    <3>3. ASSUME NEW k \in RowPlaces(window), row_imprint[k] = e[1]
          PROVE  window[1] <= RowPlace(e[1]) /\ RowPlace(e[1]) < window[1] + PE_unit_height
      <4>1. k \in 1 .. Len(row_imprint) /\ window[1] < k /\ k <= window[1] + PE_unit_height
        BY <1>5 DEF RowPlaces
      <4>2. k - 1 = RowPlace(e[1])
        BY <2>2, <3>3, <4>1
      <4> QED
        BY <1>5, <3>1, <4>1, <4>2
    <3>4. ASSUME window[1] <= RowPlace(e[1]), RowPlace(e[1]) < window[1] + PE_unit_height
          PROVE  RowPlace(e[1]) + 1 \in RowPlaces(window)
      <4>1. RowPlace(e[1]) \in Nat
        BY <1>5, <2>2
      <4>2. window[1] < RowPlace(e[1]) + 1 /\ RowPlace(e[1]) + 1 <= window[1] + PE_unit_height
        BY <3>1, <3>4, <4>1
      <4> QED
        BY <3>2, <4>2 DEF RowPlaces
    <3> QED
      BY <3>2, <3>3, <3>4
  <2>4. (\E k \in ColumnPlaces(window) : col_imprint[k] = e[2])
          <=> window[2] <= ColumnPlace(e[2]) /\ ColumnPlace(e[2]) < window[2] + PE_unit_width
    <3>1. window[2] \in Nat /\ PE_unit_width \in Nat \ {0}
      BY <1>1, HardwareAssumption
    <3>2. ColumnPlace(e[2]) + 1 \in DOMAIN col_imprint /\ col_imprint[ColumnPlace(e[2]) + 1] = e[2]
      BY <1>5, <2>2
    <3>3. ASSUME NEW k \in ColumnPlaces(window), col_imprint[k] = e[2]
          PROVE  window[2] <= ColumnPlace(e[2]) /\ ColumnPlace(e[2]) < window[2] + PE_unit_width
      <4>1. k \in 1 .. Len(col_imprint) /\ window[2] < k /\ k <= window[2] + PE_unit_width
        BY <1>5 DEF ColumnPlaces
      <4>2. k - 1 = ColumnPlace(e[2])
        BY <2>2, <3>3, <4>1
      <4> QED
        BY <1>5, <3>1, <4>1, <4>2
    <3>4. ASSUME window[2] <= ColumnPlace(e[2]), ColumnPlace(e[2]) < window[2] + PE_unit_width
          PROVE  ColumnPlace(e[2]) + 1 \in ColumnPlaces(window)
      <4>1. ColumnPlace(e[2]) \in Nat
        BY <1>5, <2>2
      <4>2. window[2] < ColumnPlace(e[2]) + 1 /\ ColumnPlace(e[2]) + 1 <= window[2] + PE_unit_width
        BY <3>1, <3>4, <4>1
      <4> QED
        BY <3>2, <4>2 DEF ColumnPlaces
    <3> QED
      BY <3>2, <3>3, <3>4
  <2>5. e \in Nonzeros(window) <=> /\ \E k \in RowPlaces(window) : row_imprint[k] = e[1]
                                  /\ \E k \in ColumnPlaces(window) : col_imprint[k] = e[2]
    BY <2>1 DEF Nonzeros
  <2>6. RowPlace(e[1]) \in Nat /\ ColumnPlace(e[2]) \in Nat
    BY <1>5, <2>2
  <2>7. RowWindow(e) = a <=> window[1] <= RowPlace(e[1]) /\ RowPlace(e[1]) < window[1] + PE_unit_height
    BY <1>2, <2>6, DivWindow, HardwareAssumption DEF RowWindow
  <2>8. ColumnWindow(e) = b
          <=> window[2] <= ColumnPlace(e[2]) /\ ColumnPlace(e[2]) < window[2] + PE_unit_width
    BY <1>3, <2>6, DivWindow, HardwareAssumption DEF ColumnWindow
  <2> QED
    BY <2>3, <2>4, <2>5, <2>7, <2>8 DEF Members
<1>7. Nonzeros(window) = Members(a, b)
  BY <1>6 DEF Nonzeros, Members
<1>8. window = <<window[1], window[2]>>
  BY <1>1
<1> QED
  BY <1>2, <1>3, <1>7, <1>8

(* The next window is reached from this one: of the windows with nonzeros,  *)
(* the scan then has passed this one more.                                  *)
LEMMA NextWindow ==
  ASSUME TypeOK, HasScanned, ~ Idle, WindowOK, ImprintsOK(scanned[1], scanned[2]),
         NEW a, a = window[1] \div PE_unit_height,
         NEW b, b = window[2] \div PE_unit_width,
         NEW w, w = Advance(window)
  PROVE  /\ w \in Nat \X Nat
         /\ w[1] % PE_unit_height = 0 /\ w[2] % PE_unit_width = 0 /\ w[2] < Len(col_imprint)
         /\ \A e \in mat : ReachedAt(w, RowWindow(e), ColumnWindow(e))
              <=> Reached(RowWindow(e), ColumnWindow(e)) \/ (RowWindow(e) = a /\ ColumnWindow(e) = b)
<1>1. a \in Nat /\ b \in Nat /\ window = <<a * PE_unit_height, b * PE_unit_width>>
  BY WindowHolds
<1>2. Len(col_imprint) \in Nat \ {0} /\ scanned[2] = col_imprint
  BY PaddedIsLarger DEF ImprintsOK, WindowOK, imprints
<1>4. \A e \in mat : /\ RowWindow(e) \in Nat /\ ColumnWindow(e) \in Nat
                      /\ ColumnPlace(e[2]) \in Nat /\ ColumnPlace(e[2]) < Len(col_imprint)
  <2> SUFFICES ASSUME NEW e \in mat
               PROVE  /\ RowWindow(e) \in Nat /\ ColumnWindow(e) \in Nat
                      /\ ColumnPlace(e[2]) \in Nat /\ ColumnPlace(e[2]) < Len(col_imprint)
    OBVIOUS
  <2>1. e \in RowIds \X ColumnIds
    BY DEF TypeOK
  <2> QED
    BY <1>2, <2>1, WindowsAreNumbers
<1>5. \A i, j \in Nat : Reached(i, j) <=> i < a \/ (i = a /\ j < b)
  BY <1>1 DEF Reached, ReachedAt, Idle
<1>6. CASE window[2] + PE_unit_width < Len(col_imprint)
  <2>1. w = <<a * PE_unit_height, b * PE_unit_width + PE_unit_width>>
    BY <1>1, <1>6 DEF Advance
  <2>2. b * PE_unit_width + PE_unit_width = (b + 1) * PE_unit_width
    BY <1>1, HardwareAssumption
  <2>3. /\ w[1] \div PE_unit_height = a /\ w[1] % PE_unit_height = 0 /\ w[1] \in Nat
        /\ w[2] \div PE_unit_width = b + 1 /\ w[2] % PE_unit_width = 0 /\ w[2] \in Nat
    <3>1. b + 1 \in Nat
      BY <1>1
    <3>2. w[1] = a * PE_unit_height /\ w[2] = (b + 1) * PE_unit_width
      BY <2>1, <2>2
    <3>3. /\ (a * PE_unit_height) \div PE_unit_height = a
          /\ (a * PE_unit_height) % PE_unit_height = 0 /\ a * PE_unit_height \in Nat
      BY <1>1, OfMultiple, HardwareAssumption
    <3>4. /\ ((b + 1) * PE_unit_width) \div PE_unit_width = b + 1
          /\ ((b + 1) * PE_unit_width) % PE_unit_width = 0 /\ (b + 1) * PE_unit_width \in Nat
      BY <3>1, OfMultiple, HardwareAssumption
    <3> QED
      BY <3>2, <3>3, <3>4
  <2>4. w # <<>> /\ w \in Nat \X Nat
    BY <2>1, <2>3
  <2>5. \A i, j \in Nat : ReachedAt(w, i, j) <=> i < a \/ (i = a /\ j < b + 1)
    BY <2>3, <2>4 DEF ReachedAt
  <2>6. w[2] < Len(col_imprint)
    <3>1. w[2] = b * PE_unit_width + PE_unit_width
      BY <2>1
    <3>2. window[2] = b * PE_unit_width
      BY <1>1
    <3> QED
      BY <1>6, <3>1, <3>2
  <2> QED
    BY <1>1, <1>4, <1>5, <2>3, <2>4, <2>5, <2>6
<1>7. CASE ~ (window[2] + PE_unit_width < Len(col_imprint))
  <2>1. w = <<a * PE_unit_height + PE_unit_height, 0>>
    BY <1>1, <1>7 DEF Advance
  <2>2. a * PE_unit_height + PE_unit_height = (a + 1) * PE_unit_height
    BY <1>1, HardwareAssumption
  <2>3. /\ w[1] \div PE_unit_height = a + 1 /\ w[1] % PE_unit_height = 0 /\ w[1] \in Nat
        /\ w[2] \div PE_unit_width = 0 /\ w[2] % PE_unit_width = 0 /\ w[2] = 0
    <3>1. a + 1 \in Nat
      BY <1>1
    <3>2. w[1] = (a + 1) * PE_unit_height /\ w[2] = 0
      BY <2>1, <2>2
    <3>3. /\ ((a + 1) * PE_unit_height) \div PE_unit_height = a + 1
          /\ ((a + 1) * PE_unit_height) % PE_unit_height = 0 /\ (a + 1) * PE_unit_height \in Nat
      BY <3>1, OfMultiple, HardwareAssumption
    <3>4. 0 \div PE_unit_width = 0 /\ 0 % PE_unit_width = 0
      BY HardwareAssumption
    <3> QED
      BY <3>2, <3>3, <3>4
  <2>4. w # <<>> /\ w \in Nat \X Nat
    BY <2>1, <2>3
  <2>5. \A i, j \in Nat : ReachedAt(w, i, j) <=> i < a + 1
    BY <1>1, <2>3, <2>4 DEF ReachedAt
  <2>6. \A e \in mat : ColumnWindow(e) <= b
    <3> SUFFICES ASSUME NEW e \in mat PROVE ColumnWindow(e) <= b
      OBVIOUS
    <3>1. ColumnPlace(e[2]) < b * PE_unit_width + PE_unit_width /\ ColumnPlace(e[2]) \in Nat
      BY <1>1, <1>2, <1>4, <1>7, HardwareAssumption
    <3> QED
      BY <1>1, <3>1, DivWindow, HardwareAssumption DEF ColumnWindow
  <2> QED
    BY <1>1, <1>2, <1>4, <1>5, <2>3, <2>4, <2>5, <2>6
<1> QED
  BY <1>6, <1>7

(* A window with nonzeros gets a PE, whose location is that of the window.  *)
LEMMA EnabledPE ==
  ASSUME IInv, HasScanned, ~ Idle, ScanWindow, Nonzeros(window) # {},
         NEW a, a = window[1] \div PE_unit_height,
         NEW b, b = window[2] \div PE_unit_width,
         NEW n, n = Len(storage_units)
  PROVE  /\ n \in Nat /\ PEs = 1 .. n /\ PEs' = 1 .. n + 1
         /\ \A pe \in PEs : storage_units'[pe] = storage_units[pe]
                            /\ PE_to_location'[pe - 1] = PE_to_location[pe - 1]
         /\ storage_units'[n + 1] = [id |-> n, row_imprint |-> {e[1] : e \in Members(a, b)},
                                              col_imprint |-> {e[2] : e \in Members(a, b)}]
         /\ PE_to_location'[n] = Location(window, n)
         /\ DOMAIN PE_to_location' = 0 .. n
         /\ allocatedTiles' = allocatedTiles \cup {TileNumber(n + 1)'}
<1>1. TypeOK /\ WindowOK /\ ImprintsOK(scanned[1], scanned[2])
  BY DEF IInv, ScanOK
<1>2. /\ n \in Nat /\ PEs = 1 .. n /\ DOMAIN PE_to_location = 0 .. n - 1
      /\ storage_units \in Seq([id : Nat, row_imprint : SUBSET RowIds, col_imprint : SUBSET ColumnIds])
  BY <1>1 DEF TypeOK, PEs
<1>3. Nonzeros(window) = Members(a, b)
  BY <1>1, WindowHolds
<1>4. /\ storage_units' = Append(storage_units, Xbar(window))
      /\ PE_to_location' = [id \in DOMAIN PE_to_location \cup {n} |->
                              IF id = n THEN Location(window, n) ELSE PE_to_location[id]]
      /\ allocatedTiles' = allocatedTiles
           \cup {Location(window, n)[1] * TileColumns + Location(window, n)[2]}
      /\ TileColumns' = TileColumns
  BY DEF ScanWindow, EnablePE, Xbar
<1>5. /\ PEs' = 1 .. n + 1 /\ storage_units'[n + 1] = Xbar(window)
      /\ \A pe \in PEs : storage_units'[pe] = storage_units[pe]
  BY <1>2, <1>4 DEF PEs
<1>6. DOMAIN PE_to_location' = 0 .. n /\ PE_to_location'[n] = Location(window, n)
  BY <1>2, <1>4
<1>7. \A pe \in PEs : PE_to_location'[pe - 1] = PE_to_location[pe - 1]
  BY <1>2, <1>4
<1>8. TileNumber(n + 1)' = Location(window, n)[1] * TileColumns + Location(window, n)[2]
  <2>1. (n + 1) - 1 = n
    BY <1>2
  <2> QED
    BY <1>4, <1>6, <2>1 DEF TileNumber
<1> QED
  BY <1>2, <1>3, <1>4, <1>5, <1>6, <1>7, <1>8 DEF Xbar

LEMMA LocationIs ==
  ASSUME NEW w, NEW n \in Nat,
         NEW a \in Nat, a = w[1] \div PE_unit_height,
         NEW b \in Nat, b = w[2] \div PE_unit_width
  PROVE  LET l == Location(w, n)
         IN  /\ l \in Nat \X Nat \X Nat \X Nat \X Nat
             /\ l[3] < num_row_PE_per_Tile /\ l[4] < num_column_PE_per_Tile /\ l[5] = n
             /\ RowOf(l) = a /\ ColumnOf(l) = b
<1>1. /\ a \div num_row_PE_per_Tile \in Nat
      /\ a % num_row_PE_per_Tile \in Nat /\ a % num_row_PE_per_Tile < num_row_PE_per_Tile
      /\ a = (a \div num_row_PE_per_Tile) * num_row_PE_per_Tile + (a % num_row_PE_per_Tile)
  BY Divided, HardwareAssumption
<1>2. /\ b \div num_column_PE_per_Tile \in Nat
      /\ b % num_column_PE_per_Tile \in Nat /\ b % num_column_PE_per_Tile < num_column_PE_per_Tile
      /\ b = (b \div num_column_PE_per_Tile) * num_column_PE_per_Tile + (b % num_column_PE_per_Tile)
  BY Divided, HardwareAssumption
<1>3. Location(w, n) = <<a \div num_row_PE_per_Tile, b \div num_column_PE_per_Tile,
                        a % num_row_PE_per_Tile, b % num_column_PE_per_Tile, n>>
  BY DEF Location
<1> QED
  BY <1>1, <1>2, <1>3 DEF RowOf, ColumnOf

LEMMA ScanKeeps == IInv /\ ScanWindow => IInv'
<1> SUFFICES ASSUME IInv, ScanWindow PROVE IInv'
  OBVIOUS
<1>1. /\ TypeOK /\ HasScanned /\ ~ Idle /\ ImprintsOK(scanned[1], scanned[2])
      /\ WindowOK /\ UnitsOK /\ TilesOK
  BY DEF IInv, ScanOK, ScanWindow
<1>2. /\ window' = Advance(window) /\ mat' = mat /\ row_imprint' = row_imprint
      /\ col_imprint' = col_imprint /\ scanned' = scanned /\ TileColumns' = TileColumns
      /\ numTiles' = numTiles
  BY DEF ScanWindow, imprints
<1>3. PICK a \in Nat, b \in Nat, n \in Nat :
        /\ a = window[1] \div PE_unit_height /\ b = window[2] \div PE_unit_width
        /\ n = Len(storage_units) /\ Nonzeros(window) = Members(a, b)
  <2>1. Len(storage_units) \in Nat
    BY <1>1 DEF TypeOK
  <2> QED
    BY <1>1, <2>1, WindowHolds
<1>4. /\ window' \in Nat \X Nat
      /\ window'[1] % PE_unit_height = 0 /\ window'[2] % PE_unit_width = 0
      /\ window'[2] < Len(col_imprint)
      /\ \A e \in mat : Reached(RowWindow(e), ColumnWindow(e))'
           <=> Reached(RowWindow(e), ColumnWindow(e)) \/ (RowWindow(e) = a /\ ColumnWindow(e) = b)
  <2>1. \A e : RowWindow(e)' = RowWindow(e) /\ ColumnWindow(e)' = ColumnWindow(e)
    BY <1>2 DEF RowWindow, ColumnWindow, RowPlace, ColumnPlace
  <2> QED
    BY <1>1, <1>2, <1>3, <2>1, NextWindow DEF Reached
<1>5. ~ Idle' /\ HasScanned' /\ WindowOK' /\ ImprintsOK(scanned[1], scanned[2])'
      /\ ImprintsOK(row_imprint, col_imprint)'
  BY <1>1, <1>2, <1>4 DEF Idle, HasScanned, WindowOK, ImprintsOK, IInv, imprints
<1>6. \A i, j : Members(i, j)' = Members(i, j)
  BY <1>2 DEF Members, RowWindow, ColumnWindow, RowPlace, ColumnPlace
<1>7. \A e : RowWindow(e)' = RowWindow(e) /\ ColumnWindow(e)' = ColumnWindow(e)
  BY <1>2 DEF RowWindow, ColumnWindow, RowPlace, ColumnPlace
(* A PE of the windows passed before keeps what it has. *)
<1>8. ASSUME NEW pe \in PEs,
             storage_units'[pe] = storage_units[pe], PE_to_location'[pe - 1] = PE_to_location[pe - 1]
      PROVE  UnitOK(pe)' /\ PERow(pe)' = PERow(pe) /\ PEColumn(pe)' = PEColumn(pe)
  <2>1. PERow(pe)' = PERow(pe) /\ PEColumn(pe)' = PEColumn(pe)
    BY <1>8 DEF PERow, PEColumn
  <2>2. UnitOK(pe)
    BY <1>1 DEF UnitsOK
  <2>3. PICK e \in mat : PERow(pe) = RowWindow(e) /\ PEColumn(pe) = ColumnWindow(e)
    BY <2>2 DEF UnitOK, Members
  <2>4. Reached(PERow(pe), PEColumn(pe))'
    BY <1>4, <1>7, <2>1, <2>2, <2>3 DEF UnitOK, Reached
  <2> QED
    BY <1>6, <1>8, <2>1, <2>2, <2>4 DEF UnitOK
<1>9. CASE Nonzeros(window) = {}
  <2>1. UNCHANGED <<storage_units, PE_to_location, allocatedTiles>>
    BY <1>9 DEF ScanWindow
  <2>2. \A pe \in PEs : UnitOK(pe)' /\ PERow(pe)' = PERow(pe) /\ PEColumn(pe)' = PEColumn(pe)
    BY <1>8, <2>1
  <2>3. PEs' = PEs
    BY <2>1 DEF PEs
  <2>4. ASSUME NEW e \in mat, Reached(RowWindow(e), ColumnWindow(e))'
        PROVE  Reached(RowWindow(e), ColumnWindow(e))
    BY <1>3, <1>4, <1>9, <2>4 DEF Members
  <2>5. UnitsOK'
    BY <1>1, <1>2, <1>7, <2>2, <2>3, <2>4 DEF UnitsOK
  <2>6. TilesOK'
    BY <1>1, <1>2, <1>5, <2>1, <2>3 DEF TilesOK, TileNumber
  <2>7. TypeOK'
    BY <1>1, <1>2, <1>4, <2>1 DEF TypeOK
  <2> QED
    BY <1>5, <2>5, <2>6, <2>7 DEF IInv, ScanOK
<1>10. CASE Nonzeros(window) # {}
  <2>1. /\ n \in Nat /\ PEs = 1 .. n /\ PEs' = 1 .. n + 1
        /\ \A pe \in PEs : storage_units'[pe] = storage_units[pe]
                           /\ PE_to_location'[pe - 1] = PE_to_location[pe - 1]
        /\ storage_units'[n + 1] = [id |-> n, row_imprint |-> {e[1] : e \in Members(a, b)},
                                             col_imprint |-> {e[2] : e \in Members(a, b)}]
        /\ PE_to_location'[n] = Location(window, n)
        /\ DOMAIN PE_to_location' = 0 .. n
        /\ allocatedTiles' = allocatedTiles \cup {TileNumber(n + 1)'}
    BY <1>1, <1>3, <1>10, EnabledPE
  <2>2. \A pe \in PEs : UnitOK(pe)' /\ PERow(pe)' = PERow(pe) /\ PEColumn(pe)' = PEColumn(pe)
    BY <1>8, <2>1
  <2> DEFINE l == Location(window, n)
  <2>3. /\ l \in Nat \X Nat \X Nat \X Nat \X Nat
        /\ l[3] < num_row_PE_per_Tile /\ l[4] < num_column_PE_per_Tile /\ l[5] = n
        /\ RowOf(l) = a /\ ColumnOf(l) = b
    BY <1>3, LocationIs
  <2>4. (n + 1) - 1 = n /\ PEs' = PEs \cup {n + 1} /\ n + 1 \notin PEs
    BY <2>1
  <2>5. PERow(n + 1)' = a /\ PEColumn(n + 1)' = b
    BY <2>1, <2>3, <2>4 DEF PERow, PEColumn
  <2>6. UnitOK(n + 1)'
    <3>1. Members(a, b) # {}
      BY <1>3, <1>10
    <3>2. PICK e \in mat : RowWindow(e) = a /\ ColumnWindow(e) = b
      BY <3>1 DEF Members
    <3>3. Reached(a, b)'
      BY <1>4, <1>7, <3>2 DEF Reached
    <3>4. Members(PERow(n + 1), PEColumn(n + 1))' = Members(a, b)
      BY <1>6, <2>5
    <3> QED
      BY <2>1, <2>3, <2>4, <2>5, <3>1, <3>3, <3>4 DEF UnitOK, Reached
  <2>7. \A pe \in PEs : ~ (PERow(pe) = a /\ PEColumn(pe) = b)
    <3>1. ~ Reached(a, b)
      BY <1>1, <1>3 DEF Reached, ReachedAt, Idle
    <3> QED
      BY <1>1, <3>1 DEF UnitsOK, UnitOK
  <2>8. UnitsOK'
    <3>1. \A pe \in PEs' : UnitOK(pe)'
      BY <2>2, <2>4, <2>6
    <3>2. ASSUME NEW pe \in PEs', NEW other \in PEs',
                 PERow(pe)' = PERow(other)', PEColumn(pe)' = PEColumn(other)'
          PROVE  pe = other
      BY <1>1, <2>2, <2>4, <2>5, <2>7, <3>2 DEF UnitsOK
    <3>3. ASSUME NEW e \in mat, Reached(RowWindow(e), ColumnWindow(e))'
          PROVE  \E pe \in PEs' : PERow(pe)' = RowWindow(e) /\ PEColumn(pe)' = ColumnWindow(e)
      <4>1. CASE RowWindow(e) = a /\ ColumnWindow(e) = b
        BY <2>4, <2>5, <4>1
      <4>2. CASE Reached(RowWindow(e), ColumnWindow(e))
        BY <1>1, <2>2, <2>4, <4>2 DEF UnitsOK
      <4> QED
        BY <1>4, <3>3, <4>1, <4>2
    <3> QED
      BY <1>2, <1>7, <3>1, <3>2, <3>3 DEF UnitsOK
  <2>9. TilesOK'
    <3>1. \A pe \in PEs : TileNumber(pe)' = TileNumber(pe)
      BY <1>2, <2>1 DEF TileNumber
    <3>2. allocatedTiles' = {TileNumber(pe)' : pe \in PEs'}
      <4>1. allocatedTiles = {TileNumber(pe) : pe \in PEs}
        BY <1>1 DEF TilesOK
      <4>2. \A t \in allocatedTiles' : \E pe \in PEs' : t = TileNumber(pe)'
        BY <2>1, <2>4, <3>1, <4>1
      <4>3. \A pe \in PEs' : TileNumber(pe)' \in allocatedTiles'
        BY <2>1, <2>4, <3>1, <4>1
      <4> QED
        BY <4>2, <4>3
    <3> QED
      BY <1>1, <1>2, <1>5, <3>2 DEF TilesOK
  <2>10. TypeOK'
    <3>1. storage_units' \in Seq([id : Nat, row_imprint : SUBSET RowIds, col_imprint : SUBSET ColumnIds])
          /\ Len(storage_units') = n + 1
      <4>1. Members(a, b) \subseteq RowIds \X ColumnIds
        BY <1>1 DEF TypeOK, Members
      <4>2. Xbar(window) \in [id : Nat, row_imprint : SUBSET RowIds, col_imprint : SUBSET ColumnIds]
        BY <1>3, <4>1 DEF Xbar
      <4>3. storage_units' = Append(storage_units, Xbar(window))
        BY <1>10 DEF ScanWindow, EnablePE
      <4> QED
        BY <1>1, <1>3, <4>2, <4>3 DEF TypeOK
    <3>2. DOMAIN PE_to_location' = 0 .. Len(storage_units') - 1
      BY <2>1, <3>1
    <3>3. allocatedTiles' \subseteq Nat
      <4>1. TileNumber(n + 1)' = l[1] * TileColumns + l[2]
        BY <1>2, <2>1, <2>4 DEF TileNumber
      <4>2. l[1] \in Nat /\ l[2] \in Nat /\ TileColumns \in Nat
        BY <1>1, <2>3 DEF TypeOK
      <4>3. TileNumber(n + 1)' \in Nat
        BY <4>1, <4>2
      <4> QED
        BY <1>1, <2>1, <4>3 DEF TypeOK
    <3> QED
      BY <1>1, <1>2, <1>4, <3>1, <3>2, <3>3 DEF TypeOK
  <2> QED
    BY <1>5, <2>8, <2>9, <2>10 DEF IInv, ScanOK
<1> QED
  BY <1>9, <1>10

-----------------------------------------------------------------------------
LEMMA IInvCorrect == Spec => []IInv
<1>1. Init => IInv
  BY InitIsOK
<1>2. IInv /\ [Next]_vars => IInv'
  <2> SUFFICES ASSUME IInv, [Next]_vars PROVE IInv'
    OBVIOUS
  <2>1. CASE Reorder
    BY <2>1, ReorderKeeps
  <2>2. CASE ResetImprints
    BY <2>2, ResetKeeps
  <2>3. CASE StartStorageModel
    BY <2>3, StartKeeps
  <2>4. CASE ScanWindow
    BY <2>4, ScanKeeps
  <2>5. CASE FinishStorageModel
    BY <2>5, FinishKeeps
  <2>6. CASE UNCHANGED vars
    <3>1. TypeOK' /\ ImprintsOK(row_imprint, col_imprint)' /\ (HasScanned' <=> HasScanned)
      <4>1. HasScanned' <=> HasScanned
        BY <2>6 DEF vars, HasScanned
      <4>2. ImprintsOK(row_imprint, col_imprint)'
        BY <2>6 DEF vars, imprints, IInv, ImprintsOK
      <4>3. TypeOK'
        <5>1. TypeOK
          BY DEF IInv
        <5> QED
          BY <2>6, <5>1 DEF vars, imprints, units, TypeOK
      <4> QED
        BY <4>1, <4>2, <4>3
    <3>2. /\ ImprintsOK(scanned[1], scanned[2])' = ImprintsOK(scanned[1], scanned[2])
          /\ WindowOK' = WindowOK /\ Idle' = Idle /\ storage_units' = storage_units
      BY <2>6 DEF vars, imprints, units, ImprintsOK, WindowOK, Idle
    <3>3. TilesOK' = TilesOK
      BY <2>6 DEF vars, units, TilesOK, TileNumber, PEs, Idle
    <3>4. \A pe : UnitOK(pe)' = UnitOK(pe)
      BY <2>6 DEF vars, units, UnitOK, PERow, PEColumn, Members, RowWindow, ColumnWindow,
                  RowPlace, ColumnPlace, Reached
    <3>5. UnitsOK' = UnitsOK
      BY <2>6, <3>4 DEF vars, units, UnitsOK, PEs, PERow, PEColumn, RowWindow, ColumnWindow,
                        RowPlace, ColumnPlace, Reached
    <3> QED
      BY <3>1, <3>2, <3>3, <3>5 DEF IInv, ScanOK
  <2> QED
    BY <2>1, <2>2, <2>3, <2>4, <2>5, <2>6 DEF Next
<1> QED
  BY <1>1, <1>2, PTL DEF Spec

(* What storage_model leaves is right for every matrix, every order the     *)
(* schemes may put it in and every size of PEs and tiles: each nonzero is   *)
(* in one PE, a PE is where its location says, and numTiles counts the      *)
(* tiles that hold a nonzero.                                               *)
THEOREM UnitsCorrect == Spec => []UnitsAreRight
<1>1. IInv => UnitsAreRight
  BY InOnePE, Geometric, TilesGetCounted DEF IInv, UnitsAreRight
<1> QED
  BY <1>1, IInvCorrect, PTL

(* Nothing of an earlier scan is left among the storage units, however     *)
(* often the matrix is reordered, reset and scanned: each PE holds what the *)
(* order of the last scan puts into the window at its location, and the     *)
(* tiles allocated are those of this scan's nonzeros.                       *)
THEOREM OfTheScanCorrect == Spec => []PEsAreOfTheScan
<1>1. IInv => PEsAreOfTheScan
  BY OfTheScan
<1> QED
  BY <1>1, IInvCorrect, PTL

=============================================================================
