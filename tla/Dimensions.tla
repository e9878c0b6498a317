----------------------------- MODULE Dimensions -----------------------------
(***************************************************************************)
(* The dimensions of a matrix and of its storage units, and the orders of  *)
(* row or column ids that imprints are.                                    *)
(***************************************************************************)
EXTENDS Integers

CONSTANTS
  MatrixRows,     (* matrix.rows                                            *)
  MatrixColumns,  (* matrix.columns                                         *)
  UnitRows,       (* storage_unit_rows: the height of a row block           *)
  UnitColumns     (* storage_unit_columns: the width of a column block      *)

ASSUME DimensionsAssumption ==
  /\ MatrixRows \in Nat \ {0}
  /\ MatrixColumns \in Nat \ {0}
  /\ UnitRows \in Nat \ {0}
  /\ UnitColumns \in Nat \ {0}

(* "expand rows & columns": n rounded up to a multiple of the unit.         *)
Expanded(n, unit) == IF n % unit = 0 THEN n ELSE n + (unit - (n % unit))

Rows == Expanded(MatrixRows, UnitRows)
Columns == Expanded(MatrixColumns, UnitColumns)

IsOrder(s, n) ==
  /\ s \in [1 .. n -> 0 .. n - 1]
  /\ \A i, j \in 1 .. n : s[i] = s[j] => i = j

Identity(n) == [i \in 1 .. n |-> i - 1]

(* The place of id v in an order, from 0.                                   *)
Place(s, v) == (CHOOSE i \in DOMAIN s : s[i] = v) - 1

=============================================================================
