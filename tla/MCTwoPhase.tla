----------------------------- MODULE MCTwoPhase -----------------------------
(***************************************************************************)
(* A 3 x 4 matrix in storage units of 2 x 3: one padding row and two       *)
(* padding columns, two blocks each way, every balanced partition of the   *)
(* four row ids (6) and of the six column ids (20).                        *)
(***************************************************************************)
EXTENDS TwoPhasePartitioning

CONSTANT MaxNonzeros  (* Matrices with at most so many nonzeros.            *)

MCMatrices ==
  {m \in SUBSET ((0 .. MatrixRows - 1) \X (0 .. MatrixColumns - 1)) :
     Cardinality(m) <= MaxNonzeros}

RangeQuery(l0, u0, l1, u1) ==
  [type |-> "Range", l0 |-> l0, u0 |-> u0, l1 |-> l1, u1 |-> u1]
SmoothingQuery(rows, columns) ==
  [type |-> "Smoothing", rows |-> rows, columns |-> columns]

(* No pattern (what experiment 1 passes), one range whose bounds lie past  *)
(* the matrix (what experiment 2 makes of 100 %), two ranges that overlap   *)
(* in rows and columns, and a smoothing pattern.                            *)
MCWorkloads ==
  {<<>>,
   <<RangeQuery(0, 3, 0, 4)>>,
   <<RangeQuery(0, 1, 0, 0), RangeQuery(1, 2, 0, 1)>>,
   <<SmoothingQuery({0, 1}, {0, 2})>>}
=============================================================================
