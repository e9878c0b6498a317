---------------------------- MODULE StorageModel ----------------------------
(***************************************************************************)
(* Matrix::storage_model, from src/src/storage/Matrix.cpp: which processing *)
(* elements (PEs) and which tiles a matrix needs in the order its imprints *)
(* give.  The places of the matrix are cut into windows of one PE each,    *)
(* scanned row of windows by row of windows; a window gets a PE only if it *)
(* holds a nonzero, and a tile is allocated when one of its PEs is.        *)
(*                                                                         *)
(* The imprints change between two scans (a scheme reorders the matrix,    *)
(* reset_imprints undoes it) and the PEs of the last scan stay until the   *)
(* next one, so they are judged by the imprints they were made from.       *)
(***************************************************************************)
EXTENDS Dimensions, FiniteSets, Sequences

CONSTANTS
  PE_unit_height, PE_unit_width,       (* Places of one PE.                 *)
  num_row_PE_per_Tile, num_column_PE_per_Tile,  (* PEs of one tile.         *)
  Matrices,     (* The nonzero positions of the matrices considered.        *)
  MaxReorders   (* Bound: how often a scheme reorders the matrix.           *)

ASSUME HardwareAssumption ==
  /\ PE_unit_height \in Nat \ {0} /\ PE_unit_width \in Nat \ {0}
  /\ num_row_PE_per_Tile \in Nat \ {0} /\ num_column_PE_per_Tile \in Nat \ {0}

RowIds == 0 .. MatrixRows - 1
ColumnIds == 0 .. MatrixColumns - 1

ASSUME MatricesAssumption == Matrices \subseteq SUBSET (RowIds \X ColumnIds)

VARIABLES
  mat,                      (* valid_map: the positions that are nonzero.   *)
  row_imprint, col_imprint,
  storage_units,            (* The PEs, each with its rows and columns.     *)
  PE_to_location,           (* Where each PE is.                            *)
  TileColumns,              (* Tiles in a row of tiles.                     *)
  allocatedTiles, numTiles, (* The numbers of the tiles, and how many.      *)
  window,                   (* The loop: the place <<i, j>> of its window,  *)
                            (* or <<>> outside storage_model.               *)
  scanned,                  (* The imprints of the last scan; read by the   *)
                            (* properties only.                             *)
  reorders

imprints == <<row_imprint, col_imprint>>
units == <<storage_units, PE_to_location, TileColumns, allocatedTiles, numTiles>>
vars == <<mat, imprints, units, window, scanned, reorders>>

Idle == window = <<>>

-----------------------------------------------------------------------------
CeilDiv(a, b) == (a + b - 1) \div b

(* The places of window <<i, j>>; the last ones may stick out.              *)
RowPlaces(w) == {k \in DOMAIN row_imprint : w[1] < k /\ k <= w[1] + PE_unit_height}
ColumnPlaces(w) == {z \in DOMAIN col_imprint : w[2] < z /\ z <= w[2] + PE_unit_width}

(* The nonzeros of a window.  A padding id has no position in `mat'.        *)
Nonzeros(w) ==
  mat \cap ({row_imprint[k] : k \in RowPlaces(w)}
              \X {col_imprint[z] : z \in ColumnPlaces(w)})

Xbar(w) ==
  [id |-> Len(storage_units),
   row_imprint |-> {e[1] : e \in Nonzeros(w)},
   col_imprint |-> {e[2] : e \in Nonzeros(w)}]

(* <<tile row, tile column, row in the tile, column in the tile, PE>>.       *)
Location(w, id) ==
  LET rowIndex == w[1] \div PE_unit_height
      colIndex == w[2] \div PE_unit_width
  IN  <<rowIndex \div num_row_PE_per_Tile, colIndex \div num_column_PE_per_Tile,
        rowIndex % num_row_PE_per_Tile, colIndex % num_column_PE_per_Tile, id>>

(* Mutant: the columns of tiles are rounded down.                           *)
WholeTileColumns(columns) ==
  CeilDiv(columns, PE_unit_width) \div num_column_PE_per_Tile

TileColumnsOf(columns) ==
  CeilDiv(CeilDiv(columns, PE_unit_width), num_column_PE_per_Tile)

-----------------------------------------------------------------------------
Init ==
  /\ mat \in Matrices
  /\ row_imprint = Identity(MatrixRows)
  /\ col_imprint = Identity(MatrixColumns)
  /\ storage_units = <<>> /\ PE_to_location = <<>>
  /\ TileColumns = 0 /\ allocatedTiles = {} /\ numTiles = 0
  /\ window = <<>>
  /\ scanned = <<<<>>, <<>>>>
  /\ reorders = 0

(* A storage scheme writes both imprints.                                   *)
Reorder ==
  /\ Idle
  /\ reorders < MaxReorders
  /\ reorders' = reorders + 1
  /\ row_imprint' \in {s \in [1 .. Rows -> 0 .. Rows - 1] : IsOrder(s, Rows)}
  /\ col_imprint' \in {s \in [1 .. Columns -> 0 .. Columns - 1] : IsOrder(s, Columns)}
  /\ UNCHANGED <<mat, units, window, scanned>>

ResetImprints ==
  /\ Idle
  /\ row_imprint' = Identity(MatrixRows)
  /\ col_imprint' = Identity(MatrixColumns)
  /\ UNCHANGED <<mat, units, window, scanned, reorders>>

(* Mutant: the PEs of the last scan are kept.                               *)
StartUncleared ==
  /\ Idle
  /\ window' = <<0, 0>>
  /\ TileColumns' = TileColumnsOf(Len(col_imprint))
  /\ allocatedTiles' = {}
  /\ scanned' = imprints
  /\ UNCHANGED <<mat, imprints, storage_units, PE_to_location, numTiles, reorders>>

StartStorageModel ==
  /\ Idle
  /\ window' = <<0, 0>>
  /\ storage_units' = <<>>
  /\ PE_to_location' = <<>>
  /\ TileColumns' = TileColumnsOf(Len(col_imprint))
  /\ allocatedTiles' = {}
  /\ scanned' = imprints
  /\ UNCHANGED <<mat, imprints, numTiles, reorders>>

(* The next window: along the row of windows, then down.                    *)
Advance(w) ==
  IF w[2] + PE_unit_width < Len(col_imprint) THEN <<w[1], w[2] + PE_unit_width>>
                                            ELSE <<w[1] + PE_unit_height, 0>>

EnablePE(w) ==
  LET xbar == Xbar(w)
      location == Location(w, xbar.id)
  IN  /\ storage_units' = Append(storage_units, xbar)
      /\ PE_to_location' = [id \in DOMAIN PE_to_location \cup {xbar.id} |->
                              IF id = xbar.id THEN location ELSE PE_to_location[id]]
      /\ allocatedTiles' = allocatedTiles \cup {location[1] * TileColumns + location[2]}

(* One window: an all-zero window gets no PE.                               *)
ScanWindow ==
  /\ ~ Idle
  /\ window[1] < Len(row_imprint)
  /\ window' = Advance(window)
  /\ IF Nonzeros(window) # {}
       THEN EnablePE(window)
       ELSE UNCHANGED <<storage_units, PE_to_location, allocatedTiles>>
  /\ UNCHANGED <<mat, imprints, TileColumns, numTiles, scanned, reorders>>

FinishStorageModel ==
  /\ ~ Idle
  /\ window[1] >= Len(row_imprint)
  /\ window' = <<>>
  /\ numTiles' = Cardinality(allocatedTiles)
  /\ UNCHANGED <<mat, imprints, storage_units, PE_to_location, TileColumns,
                 allocatedTiles, scanned, reorders>>

Next ==
  \/ Reorder
  \/ ResetImprints
  \/ StartStorageModel
  \/ ScanWindow
  \/ FinishStorageModel

Spec == Init /\ [][Next]_vars

-----------------------------------------------------------------------------
PEs == DOMAIN storage_units
RowPlace(r) == Place(scanned[1], r)
ColumnPlace(c) == Place(scanned[2], c)
Holds(pe, e) == e[1] \in storage_units[pe].row_imprint
                /\ e[2] \in storage_units[pe].col_imprint

(* The places of the windows already scanned, and of all of them at the end. *)
Passed(e) ==
  \/ Idle
  \/ RowPlace(e[1]) < window[1]
  \/ /\ RowPlace(e[1]) < window[1] + PE_unit_height
     /\ ColumnPlace(e[2]) < window[2]

HasScanned == scanned # <<<<>>, <<>>>>

TypeOK ==
  /\ mat \subseteq RowIds \X ColumnIds
  /\ IsOrder(row_imprint, Len(row_imprint)) /\ Len(row_imprint) \in {MatrixRows, Rows}
  /\ IsOrder(col_imprint, Len(col_imprint)) /\ Len(col_imprint) \in {MatrixColumns, Columns}
  /\ storage_units \in Seq([id : Nat, row_imprint : SUBSET RowIds,
                            col_imprint : SUBSET ColumnIds])
  /\ DOMAIN PE_to_location = 0 .. Len(storage_units) - 1
  /\ TileColumns \in Nat /\ numTiles \in Nat
  /\ allocatedTiles \subseteq Nat
  /\ window \in {<<>>} \cup (Nat \X Nat)

(* Every nonzero the scan has passed is held by exactly one PE, whatever    *)
(* the order of the matrix and wherever its padding stands.                 *)
NonzerosInOnePE ==
  HasScanned =>
    \A e \in mat :
      Cardinality({pe \in PEs : Holds(pe, e)}) = IF Passed(e) THEN 1 ELSE 0

(* The executor finds a PE by its location, so the location of the PE that  *)
(* holds a nonzero is where the nonzero's place is: tile, and PE in the     *)
(* tile.  The PE's number is its index.                                     *)
LocationsAreGeometric ==
  \A pe \in PEs, e \in mat :
    Holds(pe, e) =>
      LET location == PE_to_location[pe - 1]
          row == location[1] * num_row_PE_per_Tile + location[3]
          column == location[2] * num_column_PE_per_Tile + location[4]
      IN  /\ row = RowPlace(e[1]) \div PE_unit_height
          /\ column = ColumnPlace(e[2]) \div PE_unit_width
          /\ location[3] < num_row_PE_per_Tile
          /\ location[4] < num_column_PE_per_Tile
          /\ location[5] = storage_units[pe].id /\ storage_units[pe].id = pe - 1

(* numTiles, the storage cost, counts the tiles with a nonzero: no two      *)
(* tiles share a number, also when the last column of tiles is incomplete.  *)
TileOf(e) ==
  <<RowPlace(e[1]) \div (PE_unit_height * num_row_PE_per_Tile),
    ColumnPlace(e[2]) \div (PE_unit_width * num_column_PE_per_Tile)>>

TilesAreCounted ==
  Idle /\ HasScanned => numTiles = Cardinality({TileOf(e) : e \in mat})

(* What a scan leaves is a storage model: each nonzero once, in a PE that  *)
(* is where its location says, in a tile that is counted.                   *)
UnitsAreRight == TypeOK /\ NonzerosInOnePE /\ LocationsAreGeometric /\ TilesAreCounted

(* The nonzeros of the window that the location of a PE names, in the order *)
(* that was scanned last.                                                   *)
Located(pe) ==
  {e \in mat :
     LET location == PE_to_location[pe - 1]
     IN  /\ RowPlace(e[1]) \div PE_unit_height
              = location[1] * num_row_PE_per_Tile + location[3]
         /\ ColumnPlace(e[2]) \div PE_unit_width
              = location[2] * num_column_PE_per_Tile + location[4]}

(* Nothing of an earlier scan is left: also when the order changed or was   *)
(* reset since that one, every PE is of the last scan.  It holds what that  *)
(* scan's order puts into the window at its location and nothing else, the  *)
(* scan has passed that window, no other PE is located there, and the tiles *)
(* allocated are those of the nonzeros this scan has passed.                *)
PEsAreOfTheScan ==
  HasScanned =>
    /\ \A pe \in PEs :
         /\ Located(pe) # {}
         /\ \A e \in Located(pe) : Passed(e)
         /\ storage_units[pe].row_imprint = {e[1] : e \in Located(pe)}
         /\ storage_units[pe].col_imprint = {e[2] : e \in Located(pe)}
         /\ \A other \in PEs : Located(other) = Located(pe) => other = pe
    /\ allocatedTiles = {TileOf(e)[1] * TileColumnsOf(Len(scanned[2])) + TileOf(e)[2] :
                           e \in {x \in mat : Passed(x)}}
=============================================================================
