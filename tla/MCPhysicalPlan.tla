--------------------------- MODULE MCPhysicalPlan ---------------------------
(***************************************************************************)
(* A 3 x 3 matrix over 2 x 2 windows, in tiles of 1 x 2 PEs, so that a     *)
(* pattern reads one or several PEs of one or of two tiles.                *)
(***************************************************************************)
EXTENDS PhysicalPlan

CONSTANT MaxNonzeros  (* Matrices with at most so many nonzeros.            *)

MCMatrices ==
  {m \in SUBSET ((0 .. MatrixRows - 1) \X (0 .. MatrixColumns - 1)) :
     Cardinality(m) <= MaxNonzeros}

RangeQuery(l0, u0, l1, u1) ==
  [type |-> "Range", l0 |-> l0, u0 |-> u0, l1 |-> l1, u1 |-> u1]
SmoothingQuery(rows, columns) ==
  [type |-> "Smoothing", rows |-> rows, columns |-> columns]

(* A smoothing with a kernel of 2, simplified with stride 1 and whole with  *)
(* stride 2 (a pattern over zero rows comes before others), a range one     *)
(* past the matrix, and an empty range (the kernel is one wider than the    *)
(* matrix) followed by others.                                              *)
MCWorkloads ==
  {GaussianSmoothing(2, 1, TRUE),
   GaussianSmoothing(2, 2, FALSE),
   <<RangeQuery(0, 3, 0, 3)>>,
   <<RangeQuery(0, 2, 0, -1), RangeQuery(0, 0, 0, 2), SmoothingQuery({1, 2}, {0, 1, 2})>>}
=============================================================================
