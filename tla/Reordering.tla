----------------------------- MODULE Reordering -----------------------------
(***************************************************************************)
(* What a storage scheme promises of a matrix: its imprints are always a   *)
(* permutation of the row ids and one of the column ids.  A reordered      *)
(* matrix is padded to whole storage units, and the padding ids, which are *)
(* those from `rows' (`columns') up, may stand anywhere in an imprint.     *)
(* Storage::HyperMR implements it (module TwoPhasePartitioning), and the   *)
(* storage model (module StorageModel) works on any result of it.          *)
(***************************************************************************)
EXTENDS Dimensions

VARIABLES row_imprint, col_imprint

imprints == <<row_imprint, col_imprint>>

Init ==
  /\ row_imprint = Identity(MatrixRows)
  /\ col_imprint = Identity(MatrixColumns)

Reorder ==
  /\ IsOrder(row_imprint', Rows)
  /\ IsOrder(col_imprint', Columns)

ResetImprints ==
  /\ row_imprint' = Identity(MatrixRows)
  /\ col_imprint' = Identity(MatrixColumns)

Next == Reorder \/ ResetImprints

Spec == Init /\ [][Next]_imprints

=============================================================================
