---------------------------- MODULE PhysicalPlan ----------------------------
(***************************************************************************)
(* Executor::physical_plan, from src/src/query/Executor.cpp: which PEs and *)
(* tiles each pattern of a workload accesses, and the sizes the cost model *)
(* and the simulation read afterwards.                                     *)
(*                                                                         *)
(* One step handles one pattern.  Three kinds of list grow at different    *)
(* moments: input_vector_size and output_vector_size for every pattern,    *)
(* range_query_size for every pattern that is not empty, and the plans     *)
(* (accessed_PEs_list and what goes with it) only for patterns that read a *)
(* nonzero; the readers index all of them by the number of the plan.       *)
(*                                                                         *)
(* The storage units come from Matrix::storage_model.  All that is read of *)
(* them is which nonzeros share a PE and which PEs share a tile, so a PE   *)
(* is the window of places its nonzeros lie in (module StorageModel).      *)
(***************************************************************************)
EXTENDS Integers, Sequences, FiniteSets, FiniteSetsExt

CONSTANTS
  MatrixRows, MatrixColumns,
  num_row_PE_per_Tile, num_column_PE_per_Tile,
  RowWindows, ColumnWindows,  (* Rows and columns of windows.               *)
  Matrices,                   (* The nonzero positions considered.          *)
  Workloads                   (* Sequences of patterns.                     *)

ASSUME DimensionsAssumption ==
  /\ MatrixRows \in Nat \ {0} /\ MatrixColumns \in Nat \ {0}
  /\ num_row_PE_per_Tile \in Nat \ {0} /\ num_column_PE_per_Tile \in Nat \ {0}
  /\ RowWindows \subseteq Nat /\ ColumnWindows \subseteq Nat

(* The smallest range is an empty one, which ends one before it begins.     *)
ASSUME WorkloadsAssumption ==
  \A w \in Workloads :
    /\ Len(w) \in Nat /\ DOMAIN w = 1 .. Len(w)
    /\ \A i \in DOMAIN w :
         IF w[i].type = "Range"
           THEN /\ w[i].l0 \in Nat /\ w[i].u0 \in Int /\ w[i].l0 <= w[i].u0 + 1
                /\ w[i].l1 \in Nat /\ w[i].u1 \in Int /\ w[i].l1 <= w[i].u1 + 1
           ELSE IsFiniteSet(w[i].rows) /\ IsFiniteSet(w[i].columns)

RowIds == 0 .. MatrixRows - 1
ColumnIds == 0 .. MatrixColumns - 1

ASSUME MatricesAssumption == Matrices \subseteq SUBSET (RowIds \X ColumnIds)

VARIABLES
  mat, rowWindow, columnWindow, (* The stored matrix: its nonzeros, and the *)
                                (* window of each row and of each column.   *)
  workload, cost_model,         (* The arguments.                           *)
  next,                         (* The next pattern of the workload.        *)
  n,                            (* The index the sizes are written at.      *)
  input_vector_size, output_vector_size, range_query_size,
  accessed_PEs_list, accessed_PE_size, query_tile_size_per_pattern,
  num_accessed_PEs, num_accessed_tiles, total_communication_data_size,
  planned                       (* The pattern of each plan; read by the    *)
                                (* properties only.                         *)

storage == <<mat, rowWindow, columnWindow>>
plans == <<accessed_PEs_list, accessed_PE_size, query_tile_size_per_pattern,
           num_accessed_PEs, num_accessed_tiles, planned>>
vars == <<storage, workload, cost_model, next, n, input_vector_size,
          output_vector_size, range_query_size, plans,
          total_communication_data_size>>

-----------------------------------------------------------------------------
(* Patterns.                                                               *)
RowInPattern(p, r) ==
  IF p.type = "Range" THEN p.l0 <= r /\ r <= p.u0 ELSE r \in p.rows
ColumnInPattern(p, c) ==
  IF p.type = "Range" THEN p.l1 <= c /\ c <= p.u1 ELSE c \in p.columns

PatternRows(p) ==
  IF p.type = "Range" THEN p.u0 - p.l0 + 1 ELSE Cardinality(p.rows)
PatternColumns(p) ==
  IF p.type = "Range" THEN p.u1 - p.l1 + 1 ELSE Cardinality(p.columns)

EmptyPattern(p) == PatternRows(p) = 0 \/ PatternColumns(p) = 0

(* The workload that gaussian_smoothing builds: the kernel is split into    *)
(* vectors, and each is moved over the matrix; with stride 1 the columns it *)
(* reads are a range, that ends before it begins when the kernel is wider   *)
(* than the matrix by one.                                                  *)
GaussianSmoothing(kernel_size, stride, simplification) ==
  LET num_vectors == IF simplification THEN 1 ELSE kernel_size
      positions == IF kernel_size > MatrixRows THEN 0
                   ELSE (MatrixRows - kernel_size) \div stride + 1
      query(i, j) ==
        IF stride = 1
          THEN [type |-> "Range", l0 |-> j, u0 |-> j + kernel_size - 1,
                l1 |-> i, u1 |-> MatrixColumns - kernel_size + i]
          ELSE [type |-> "Smoothing", rows |-> j .. j + kernel_size - 1,
                columns |-> {c \in ColumnIds : c >= i /\ (c - i) % stride = 0}]
  IN [q \in 1 .. num_vectors * positions |->
        query((q - 1) \div positions, stride * ((q - 1) % positions))]

(* What the cost model leaves out.  A Range pattern drops the columns of    *)
(* its range that are zero in the whole matrix, and every zero row of the   *)
(* matrix, in the range or not; a Smoothing pattern drops the rows and      *)
(* columns that are zero where it reads.                                    *)
ZeroRows(p) ==
  IF p.type = "Range"
    THEN {r \in RowIds : \A c \in ColumnIds : <<r, c>> \notin mat}
    ELSE {r \in p.rows : \A c \in p.columns : <<r, c>> \notin mat}
ZeroColumns(p) ==
  IF p.type = "Range"
    THEN {c \in ColumnIds : ColumnInPattern(p, c)
                            /\ \A r \in RowIds : <<r, c>> \notin mat}
    ELSE {c \in p.columns : \A r \in p.rows : <<r, c>> \notin mat}

(* The columns of a range that lie past the matrix are read past the end of *)
(* valid_map's rows: each may look zero or not.                             *)
OutsideColumns(p) ==
  IF p.type = "Range" /\ p.u1 >= MatrixColumns
    THEN p.u1 - (IF p.l1 > MatrixColumns THEN p.l1 ELSE MatrixColumns) + 1
    ELSE 0

-----------------------------------------------------------------------------
(* The storage units, and what a pattern accesses of them.                 *)
Total(f) == MapThenSumSet(LAMBDA x : f[x], DOMAIN f)

Window(e) == <<rowWindow[e[1]], columnWindow[e[2]]>>
StorageUnits == {Window(e) : e \in mat}
RowImprint(PE) == {e[1] : e \in {e \in mat : Window(e) = PE}}
ColImprint(PE) == {e[2] : e \in {e \in mat : Window(e) = PE}}
Tile(PE) == <<PE[1] \div num_row_PE_per_Tile, PE[2] \div num_column_PE_per_Tile>>

(* Mutant: a nonzero of the PE's rows and columns is not looked for.        *)
ImprintCells(p, PE) ==
  {e \in RowImprint(PE) \X ColImprint(PE) :
     RowInPattern(p, e[1]) /\ ColumnInPattern(p, e[2])}

AccessedCells(p, PE) ==
  {e \in RowImprint(PE) \X ColImprint(PE) :
     /\ RowInPattern(p, e[1])
     /\ ColumnInPattern(p, e[2])
     /\ e \in mat}

AccessedRows(p, PE) == {e[1] : e \in AccessedCells(p, PE)}
AccessedColumns(p, PE) == {e[2] : e \in AccessedCells(p, PE)}
AccessedPEs(p) == {PE \in StorageUnits : AccessedCells(p, PE) # {}}
AccessedTiles(p) == {Tile(PE) : PE \in AccessedPEs(p)}

PEQuerySize(p) ==
  [PE \in AccessedPEs(p) |-> <<Cardinality(AccessedRows(p, PE)),
                               Cardinality(AccessedColumns(p, PE))>>]

(* Mutant: the rows of a tile are those of its last PE.                     *)
LastPEQuerySize(p) ==
  [t \in AccessedTiles(p) |->
     LET PE == CHOOSE PE \in AccessedPEs(p) : Tile(PE) = t
     IN  [accessed_rows |-> AccessedRows(p, PE),
          accessed_columns |-> AccessedColumns(p, PE),
          input_vector_size |-> Cardinality(AccessedRows(p, PE))]]

(* A tile has the rows and columns of its PEs once each, and counts its     *)
(* input once for each PE.                                                  *)
TileQuerySize(p) ==
  [t \in AccessedTiles(p) |->
     LET PEs == {PE \in AccessedPEs(p) : Tile(PE) = t}
     IN  [accessed_rows |-> UNION {AccessedRows(p, PE) : PE \in PEs},
          accessed_columns |-> UNION {AccessedColumns(p, PE) : PE \in PEs},
          input_vector_size |-> Total([PE \in PEs |-> Cardinality(AccessedRows(p, PE))])]]

InputSize(tiles) == Total([t \in DOMAIN tiles |-> Cardinality(tiles[t].accessed_rows)])

-----------------------------------------------------------------------------
Init ==
  /\ mat \in Matrices
  /\ rowWindow \in [RowIds -> RowWindows]
  /\ columnWindow \in [ColumnIds -> ColumnWindows]
  /\ workload \in Workloads
  /\ cost_model \in BOOLEAN
  /\ next = 1 /\ n = 1
  /\ input_vector_size = <<>> /\ output_vector_size = <<>>
  /\ range_query_size = <<>>
  /\ accessed_PEs_list = <<>> /\ accessed_PE_size = <<>>
  /\ query_tile_size_per_pattern = <<>>
  /\ num_accessed_PEs = 0 /\ num_accessed_tiles = 0
  /\ total_communication_data_size = 0
  /\ planned = <<>>

(* The sizes are pushed before the pattern is looked at; n stays.           *)
SkipEmptyPattern ==
  /\ next <= Len(workload)
  /\ EmptyPattern(workload[next])
  /\ next' = next + 1
  /\ input_vector_size' = Append(input_vector_size, 0)
  /\ output_vector_size' = Append(output_vector_size, 0)
  /\ UNCHANGED <<storage, workload, cost_model, n, range_query_size, plans,
                 total_communication_data_size>>

(* The size of the query.  Of the columns outside the matrix, `zeros' look  *)
(* zero to the cost model.                                                  *)
QuerySize(p, zeros) ==
  IF cost_model
    THEN <<PatternRows(p) - Cardinality(ZeroRows(p)),
           PatternColumns(p) - Cardinality(ZeroColumns(p)) - zeros>>
    ELSE <<PatternRows(p), PatternColumns(p)>>

(* Mutant: rows and columns are swapped.                                    *)
RecordSwappedSize(size, columns) ==
  /\ range_query_size' = Append(range_query_size, <<size[2], size[1]>>)
  /\ output_vector_size' = [Append(output_vector_size, 0) EXCEPT ![n] = @ + columns]
  /\ next' = next + 1
  /\ n' = n + 1
  /\ UNCHANGED <<storage, workload, cost_model>>

(* The size of a pattern, whether it reads anything or not.  The columns    *)
(* are written at n, the pattern's index only while none was skipped.       *)
RecordSize(size, columns) ==
  /\ range_query_size' = Append(range_query_size, size)
  /\ output_vector_size' = [Append(output_vector_size, 0) EXCEPT ![n] = @ + columns]
  /\ next' = next + 1
  /\ n' = n + 1
  /\ UNCHANGED <<storage, workload, cost_model>>

AddCommunication(tiles, columns) ==
  total_communication_data_size' =
    total_communication_data_size + columns + InputSize(tiles)

(* Mutant: a tile is counted once for each of its PEs.                      *)
CountPEs(tiles, PEs) == Cardinality(PEs)

CountTiles(tiles, PEs) == Cardinality({Tile(PE) : PE \in PEs})

(* The plan of a pattern that reads a nonzero; every weight is 1.           *)
RecordPlan(p, tiles) ==
  /\ accessed_PEs_list' = Append(accessed_PEs_list, AccessedPEs(p))
  /\ accessed_PE_size' = Append(accessed_PE_size, PEQuerySize(p))
  /\ query_tile_size_per_pattern' = Append(query_tile_size_per_pattern, tiles)
  /\ num_accessed_PEs' = num_accessed_PEs + Cardinality(AccessedPEs(p))
  /\ num_accessed_tiles' = num_accessed_tiles + CountTiles(tiles, AccessedPEs(p))
  /\ planned' = Append(planned, next)

Sent(size) == IF cost_model THEN size[2] ELSE 0

PlanPattern(p, size) ==
  /\ AccessedPEs(p) # {}
  /\ LET tiles == TileQuerySize(p)
     IN  /\ RecordPlan(p, tiles)
         /\ input_vector_size' =
              [Append(input_vector_size, 0) EXCEPT ![n] = @ + InputSize(tiles)]
         /\ AddCommunication(tiles, Sent(size))
  /\ RecordSize(size, Sent(size))

(* An "invalid" pattern reads no nonzero: it has sizes but no plan.         *)
PassInvalidPattern(p, size) ==
  /\ AccessedPEs(p) = {}
  /\ input_vector_size' = Append(input_vector_size, 0)
  /\ total_communication_data_size' = total_communication_data_size + Sent(size)
  /\ UNCHANGED plans
  /\ RecordSize(size, Sent(size))

HandlePattern ==
  /\ next <= Len(workload)
  /\ ~ EmptyPattern(workload[next])
  /\ \E zeros \in 0 .. (IF cost_model THEN OutsideColumns(workload[next]) ELSE 0) :
       LET p == workload[next]
           size == QuerySize(p, zeros)
       IN  PlanPattern(p, size) \/ PassInvalidPattern(p, size)

Next == SkipEmptyPattern \/ HandlePattern

Spec == Init /\ [][Next]_vars

-----------------------------------------------------------------------------
Plans == DOMAIN accessed_PEs_list
PatternOf(q) == workload[planned[q]]
Read(p) == {e \in mat : RowInPattern(p, e[1]) /\ ColumnInPattern(p, e[2])}

TypeOK ==
  /\ mat \subseteq RowIds \X ColumnIds
  /\ next \in 1 .. Len(workload) + 1
  /\ n \in 1 .. next
  /\ Len(input_vector_size) = next - 1 /\ Len(output_vector_size) = next - 1
  /\ Len(range_query_size) = n - 1
  /\ input_vector_size \in Seq(Nat) /\ output_vector_size \in Seq(Int)
  /\ range_query_size \in Seq(Int \X Int)
  /\ planned \in Seq(1 .. Len(workload))
  /\ num_accessed_PEs \in Nat /\ num_accessed_tiles \in Nat
  /\ total_communication_data_size \in Int

(* The q-th entries of the three lists of a plan are of one pattern: its    *)
(* PEs are exactly those that hold a nonzero the pattern reads, with as     *)
(* many rows and columns as it reads there.                                 *)
PlansAreExact ==
  \A q \in Plans :
    LET read == Read(PatternOf(q))
        of(PE) == {e \in read : Window(e) = PE}
    IN  /\ read # {}
        /\ accessed_PEs_list[q] = {Window(e) : e \in read}
        /\ accessed_PE_size[q] =
             [PE \in {Window(e) : e \in read} |->
                <<Cardinality({e[1] : e \in of(PE)}),
                  Cardinality({e[2] : e \in of(PE)})>>]

(* Each tile of a plan has the rows and columns that the pattern reads in   *)
(* it, once each however many of its PEs they run through.                  *)
TilesAreExact ==
  \A q \in Plans :
    LET of(t) == {e \in Read(PatternOf(q)) : Tile(Window(e)) = t}
        tiles == query_tile_size_per_pattern[q]
    IN  /\ DOMAIN tiles = {Tile(PE) : PE \in accessed_PEs_list[q]}
        /\ \A t \in DOMAIN tiles :
             /\ tiles[t].accessed_rows = {e[1] : e \in of(t)}
             /\ tiles[t].accessed_columns = {e[2] : e \in of(t)}
             /\ tiles[t].input_vector_size >= Cardinality(tiles[t].accessed_rows)

(* The communication reported is the sum of the vectors' sizes: rows sent   *)
(* into tiles and, with the cost model, columns read out.  It holds also    *)
(* when skipped patterns have shifted the places the sizes are written at.  *)
CommunicationIsSum ==
  total_communication_data_size = Total(input_vector_size) + Total(output_vector_size)

(* What a plan costs is what its pattern reads and sends.                   *)
CostsAreExact == TypeOK /\ TilesAreExact /\ CommunicationIsSum

RowsSent(q) == {<<q, Tile(Window(e)), e[1]>> : e \in Read(PatternOf(q))}

(* The totals reported are those of the plans made: accessed PEs, accessed  *)
(* tiles, and one row sent per tile and row that a plan reads.              *)
TotalsMatchPlans ==
  /\ num_accessed_PEs = Total([q \in Plans |-> Cardinality(accessed_PEs_list[q])])
  /\ num_accessed_tiles = Total([q \in Plans |-> Cardinality(DOMAIN query_tile_size_per_pattern[q])])
  /\ Total(input_vector_size) = Cardinality(UNION {RowsSent(q) : q \in Plans})

(* A plan's number is its pattern's place in all the lists, as the cost     *)
(* model and the simulation assume, as long as every pattern so far reads a *)
(* nonzero.                                                                 *)
AllRead == \A i \in 1 .. next - 1 : Read(workload[i]) # {}

AlignedWhileAllRead ==
  AllRead =>
    /\ Len(planned) = next - 1
    /\ \A q \in Plans :
         /\ planned[q] = q
         /\ input_vector_size[q] = InputSize(query_tile_size_per_pattern[q])
         /\ ~ cost_model =>
              range_query_size[q] = <<PatternRows(workload[q]), PatternColumns(workload[q])>>

-----------------------------------------------------------------------------
(* What the comments say.                                                  *)

(* "statistical info which is used for simulation": the q-th simulation     *)
(* takes the size of its query from range_query_size[q].                    *)
SimulatedSizeIsThePlans ==
  \A q \in Plans :
    ~ cost_model =>
      range_query_size[q] = <<PatternRows(PatternOf(q)), PatternColumns(PatternOf(q))>>

(* "exclude the all-zero rows": what is left of a query's rows is a number  *)
(* of rows.                                                                 *)
RowsLeftAreRows == \A i \in DOMAIN range_query_size : range_query_size[i][1] >= 0
=============================================================================
