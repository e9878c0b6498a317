--------------------------- MODULE MCStorageModel ---------------------------
(***************************************************************************)
(* A 3 x 3 matrix whose rows are padded to 4, PEs of 2 x 1 places, tiles   *)
(* of 1 x 2 PEs: two rows of tiles, and a second column of tiles that is   *)
(* only half filled.                                                       *)
(***************************************************************************)
EXTENDS StorageModel

CONSTANT MaxNonzeros  (* Matrices with at most so many nonzeros.            *)

MCMatrices ==
  {m \in SUBSET ((0 .. MatrixRows - 1) \X (0 .. MatrixColumns - 1)) :
     Cardinality(m) <= MaxNonzeros}
=============================================================================
