------------------------ MODULE TwoPhasePartitioning ------------------------
(***************************************************************************)
(* Storage::HyperMR and two-phase hypergraph partitioning (TPHP), from     *)
(* src/src/storage/HyperMR.cpp.                                            *)
(*                                                                         *)
(* A call reorders the rows and the columns of a sparse matrix so that its *)
(* nonzeros fall into few storage units.  It builds a net per row and a    *)
(* net per column, partitions the columns into blocks (first phase; the    *)
(* hypergraph is the row nets, or the nets of a query workload, and the    *)
(* storage-optimized scheme skips the phase), merges the column nets of    *)
(* each block, partitions the rows by the merged nets (second phase) and   *)
(* writes the blocks, one after the other, into the matrix's imprints.     *)
(*                                                                         *)
(* The partitioner itself (KaHyPar) is outside: it may return any balanced *)
(* partition.  Weights are left out, since every pattern and net the       *)
(* program makes has weight 1; pins are plain sets, since pin_count is     *)
(* read only by the uncontraction (module HyperGraph).                     *)
(***************************************************************************)
EXTENDS Dimensions, IdBlocks, Sequences

CONSTANTS
  Matrices,   (* The nonzero positions of the matrices considered.          *)
  Workloads   (* The query workloads: sequences of patterns.                *)

RowIds == 0 .. MatrixRows - 1
ColumnIds == 0 .. MatrixColumns - 1

(* A Range pattern reads rows l0 .. u0 and columns l1 .. u1 (bounds may lie  *)
(* outside the matrix); a Smoothing pattern reads a set of rows and a set   *)
(* of columns of the matrix.                                               *)
RangePatterns == [type : {"Range"}, l0 : Int, u0 : Int, l1 : Int, u1 : Int]
SmoothingPatterns ==
  [type : {"Smoothing"}, rows : SUBSET RowIds, columns : SUBSET ColumnIds]
Patterns == RangePatterns \cup SmoothingPatterns

ASSUME MatricesAssumption == Matrices \subseteq SUBSET (RowIds \X ColumnIds)
ASSUME WorkloadsAssumption == Workloads \subseteq Seq(Patterns)

row_k == Rows \div UnitRows
column_k == Columns \div UnitColumns

VARIABLES
  row_imprint, col_imprint,
                     (* matrix.row_imprint and matrix.col_imprint.          *)
  pc,                (* How far the call has come.                          *)
  query_aware,       (* The scheme the keywords select: query-aware, or     *)
  storage_optimized, (* storage-optimized, or else communication-optimized. *)
  mat,               (* matrix.valid_map: the positions that are nonzero.   *)
  patterns,          (* The workload given to the call.                     *)
  RowHG, ColumnHG,   (* The pins of each row net and of each column net.    *)
  QueryRowNetHG,     (* The query-aware nets; <<i, r>> is row r's net for   *)
                     (* pattern i, <<0, r>> its net of unaccessed columns.  *)
  MergedColumnHG,    (* The merged net of each column block.                *)
  row_partitions, column_partitions  (* The blocks of row and column ids.   *)

locals == <<RowHG, ColumnHG, QueryRowNetHG, MergedColumnHG,
            row_partitions, column_partitions>>
imprints == <<row_imprint, col_imprint>>
args == <<query_aware, storage_optimized, patterns>>
vars == <<pc, args, mat, locals, imprints>>

-----------------------------------------------------------------------------
(* Nets.                                                                   *)

RowNets(m) == [r \in RowIds |-> {c \in ColumnIds : <<r, c>> \in m}]

(* Mutant: the column net gets the column's own id as a pin.                *)
SelfPinnedNets(m) ==
  [c \in ColumnIds |-> {d \in ColumnIds : d = c /\ \E r \in RowIds : <<r, c>> \in m}]

ColumnNets(m) == [c \in ColumnIds |-> {r \in RowIds : <<r, c>> \in m}]

AccessedRows(p) ==
  IF p.type = "Range" THEN {r \in RowIds : p.l0 <= r /\ r <= p.u0} ELSE p.rows

(* Mutant: the upper bound is taken as exclusive.                           *)
AccessedBelow(p, pins) ==
  IF p.type = "Range" THEN {c \in pins : p.l1 <= c /\ c < p.u1}
                      ELSE pins \cap p.columns

Accessed(p, pins) ==
  IF p.type = "Range" THEN {c \in pins : p.l1 <= c /\ c <= p.u1}
                      ELSE pins \cap p.columns

(* One net for each row a pattern accesses, even when the net is empty.     *)
PatternNets(rowHG, ps) ==
  [k \in {k \in (1 .. Len(ps)) \X RowIds : k[2] \in AccessedRows(ps[k[1]])} |->
     Accessed(ps[k[1]], rowHG[k[2]])]

(* Mutant: a row gets no net of unaccessed columns once a query reads it.   *)
UnaccessedRowNets(rowHG, queryNets) ==
  LET left == {r \in RowIds : \A k \in DOMAIN queryNets : k[2] # r}
  IN  [k \in {0} \X left |-> rowHG[k[2]]]

(* What no pattern accesses goes into a second net of its row, if any.      *)
UnaccessedNets(rowHG, queryNets) ==
  LET accessed == UNION {queryNets[k] : k \in DOMAIN queryNets}
      left == {r \in RowIds : rowHG[r] \ accessed # {}}
  IN  [k \in {0} \X left |-> rowHG[k[2]] \ accessed]

JoinNets(f, g) ==
  [k \in DOMAIN f \cup DOMAIN g |-> IF k \in DOMAIN f THEN f[k] ELSE g[k]]

(* Mutant: the block itself is taken for the columns it stands for.         *)
MergeByPlace(columnHG, blocks) ==
  [b \in DOMAIN blocks |->
     UNION {columnHG[c] :
              c \in ColumnIds \cap (b * UnitColumns .. (b + 1) * UnitColumns - 1)}]

(* The merged net of each column block; padding columns have no net.        *)
MergeColumnNets(columnHG, blocks) ==
  [b \in DOMAIN blocks |-> UNION {columnHG[c] : c \in blocks[b] \cap ColumnIds}]

-----------------------------------------------------------------------------
NoLocals ==
  /\ RowHG = <<>> /\ ColumnHG = <<>>
  /\ QueryRowNetHG = <<>> /\ MergedColumnHG = <<>>
  /\ row_partitions = <<>> /\ column_partitions = <<>>

Init ==
  /\ pc = "idle"
  /\ mat \in Matrices
  /\ query_aware = FALSE /\ storage_optimized = FALSE /\ patterns = <<>>
  /\ NoLocals
  /\ row_imprint = Identity(MatrixRows)
  /\ col_imprint = Identity(MatrixColumns)

(* The driver passes its workload to the query-aware scheme only.           *)
Call(aware, optimized, workload) ==
  /\ pc = "idle"
  /\ pc' = "called"
  /\ query_aware' = aware
  /\ storage_optimized' = optimized
  /\ patterns' = workload
  /\ UNCHANGED <<mat, locals, imprints>>

(* Both hypergraph models, and the initial contiguous contraction.          *)
BuildHypergraphs ==
  /\ pc = "called"
  /\ pc' = CASE query_aware -> "generate"
             [] ~ query_aware /\ storage_optimized -> "merge"
             [] OTHER -> "columns"
  /\ RowHG' = RowNets(mat)
  /\ ColumnHG' = ColumnNets(mat)
  /\ row_partitions' = Contiguous(Rows, UnitRows)
  /\ column_partitions' = Contiguous(Columns, UnitColumns)
  /\ UNCHANGED <<args, mat, QueryRowNetHG, MergedColumnHG, imprints>>

QueryAwareGeneration ==
  /\ pc = "generate"
  /\ pc' = "columns"
  /\ LET queryNets == PatternNets(RowHG, patterns)
     IN  QueryRowNetHG' = JoinNets(queryNets, UnaccessedNets(RowHG, queryNets))
  /\ UNCHANGED <<args, mat, RowHG, ColumnHG, MergedColumnHG,
                 row_partitions, column_partitions, imprints>>

PartitionColumns ==
  /\ pc = "columns"
  /\ pc' = "merge"
  /\ column_partitions' \in BlockPartitions(Columns, column_k)
  /\ UNCHANGED <<args, mat, RowHG, ColumnHG, QueryRowNetHG, MergedColumnHG,
                 row_partitions, imprints>>

MergeColumns ==
  /\ pc = "merge"
  /\ pc' = "rows"
  /\ MergedColumnHG' = MergeColumnNets(ColumnHG, column_partitions)
  /\ UNCHANGED <<args, mat, RowHG, ColumnHG, QueryRowNetHG,
                 row_partitions, column_partitions, imprints>>

PartitionRows ==
  /\ pc = "rows"
  /\ pc' = "write"
  /\ row_partitions' \in BlockPartitions(Rows, row_k)
  /\ UNCHANGED <<args, mat, RowHG, ColumnHG, QueryRowNetHG, MergedColumnHG,
                 column_partitions, imprints>>

WriteImprints ==
  /\ pc = "write"
  /\ pc' = "done"
  /\ row_imprint' = Flatten(row_partitions)
  /\ col_imprint' = Flatten(column_partitions)
  /\ UNCHANGED <<args, mat, locals>>

(* Mutant: the column imprint is not reset.                                 *)
ReturnWithColumnImprint ==
  /\ pc = "done"
  /\ pc' = "idle"
  /\ RowHG' = <<>> /\ ColumnHG' = <<>>
  /\ QueryRowNetHG' = <<>> /\ MergedColumnHG' = <<>>
  /\ row_partitions' = <<>> /\ column_partitions' = <<>>
  /\ query_aware' = FALSE /\ storage_optimized' = FALSE /\ patterns' = <<>>
  /\ row_imprint' = Identity(MatrixRows)
  /\ UNCHANGED <<mat, col_imprint>>

(* The call returns; the driver undoes the reordering before the next one.  *)
Return ==
  /\ pc = "done"
  /\ pc' = "idle"
  /\ RowHG' = <<>> /\ ColumnHG' = <<>>
  /\ QueryRowNetHG' = <<>> /\ MergedColumnHG' = <<>>
  /\ row_partitions' = <<>> /\ column_partitions' = <<>>
  /\ query_aware' = FALSE /\ storage_optimized' = FALSE /\ patterns' = <<>>
  /\ row_imprint' = Identity(MatrixRows)
  /\ col_imprint' = Identity(MatrixColumns)
  /\ UNCHANGED mat

Next ==
  \/ \E optimized \in BOOLEAN, workload \in Workloads :
       Call(TRUE, optimized, workload)
  \/ \E optimized \in BOOLEAN : Call(FALSE, optimized, <<>>)
  \/ BuildHypergraphs
  \/ QueryAwareGeneration
  \/ PartitionColumns
  \/ MergeColumns
  \/ PartitionRows
  \/ WriteImprints
  \/ Return

Spec == Init /\ [][Next]_vars

-----------------------------------------------------------------------------
RowBlocks == [0 .. row_k - 1 -> SUBSET (0 .. Rows - 1)]
ColumnBlocks == [0 .. column_k - 1 -> SUBSET (0 .. Columns - 1)]
Built == pc \notin {"idle", "called"}
Merged == pc \in {"rows", "write", "done"}

(* Nets have pins among the matrix's ids, blocks have ids of the padded     *)
(* matrix, and what a phase has not produced yet is empty.                  *)
TypeOK ==
  /\ pc \in {"idle", "called", "generate", "columns", "merge", "rows",
             "write", "done"}
  /\ query_aware \in BOOLEAN /\ storage_optimized \in BOOLEAN
  /\ mat \subseteq RowIds \X ColumnIds
  /\ patterns \in Seq(Patterns)
  /\ IF Built THEN /\ RowHG \in [RowIds -> SUBSET ColumnIds]
                   /\ ColumnHG \in [ColumnIds -> SUBSET RowIds]
                   /\ row_partitions \in RowBlocks
                   /\ column_partitions \in ColumnBlocks
              ELSE NoLocals
  /\ MergedColumnHG \in IF Merged THEN [0 .. column_k - 1 -> SUBSET RowIds]
                                  ELSE {<<>>}
  /\ \A k \in DOMAIN QueryRowNetHG : QueryRowNetHG[k] \subseteq ColumnIds

(* Each id lies in exactly one block, and every block fills its storage     *)
(* unit.  two_phase_hypergraph_partitioning recomputes the number of ids as *)
(* the number of blocks times the size of block 0, and the imprints put     *)
(* block b on storage unit b, only because of this.                         *)
BlocksFillUnits ==
  Built => /\ ExactBlocks(row_partitions, Rows, UnitRows)
           /\ ExactBlocks(column_partitions, Columns, UnitColumns)

(* The merged net the rows are partitioned by has, for each column block    *)
(* chosen in the first phase, exactly the rows with a nonzero in the block. *)
MergedNetsAreBlockRows ==
  Merged => \A b \in DOMAIN column_partitions :
              MergedColumnHG[b] =
                {r \in RowIds : \E c \in column_partitions[b] : <<r, c>> \in mat}

(* Once a workload's nets are made, the columns read by a pattern and the   *)
(* columns left over are apart, and every column with a nonzero is a pin of *)
(* some net: no column is invisible to the first phase.                     *)
QueryNetsCoverColumns ==
  QueryRowNetHG # <<>> =>
    LET pinsOf(keys) == UNION {QueryRowNetHG[k] : k \in keys}
        unaccessed == {k \in DOMAIN QueryRowNetHG : k[1] = 0}
        queried == DOMAIN QueryRowNetHG \ unaccessed
    IN  /\ pinsOf(unaccessed) \cap pinsOf(queried) = {}
        /\ pinsOf(unaccessed) \cup pinsOf(queried) = {e[2] : e \in mat}

(* The storage units of the reordered matrix that hold a nonzero.           *)
RowUnit(r) == Place(row_imprint, r) \div UnitRows
ColumnUnit(c) == Place(col_imprint, c) \div UnitColumns
NonzeroUnits == {<<RowUnit(e[1]), ColumnUnit(e[2])>> : e \in mat}

(* What the second phase minimises is what storage costs: the row blocks    *)
(* that merged net b connects are the storage units with a nonzero in the   *)
(* b-th column of units, once the imprints are written.                     *)
ConnectivityIsStorage ==
  pc = "done" =>
    NonzeroUnits = {u \in (DOMAIN row_partitions) \X (DOMAIN column_partitions) :
                      MergedColumnHG[u[2]] \cap row_partitions[u[1]] # {}}

(* What the query-aware first phase minimises is what a query communicates: *)
(* the column blocks that row r's net for pattern i connects are the        *)
(* columns of units holding a nonzero of row r that the pattern reads.      *)
Reads(p, r, c) ==
  IF p.type = "Range" THEN p.l0 <= r /\ r <= p.u0 /\ p.l1 <= c /\ c <= p.u1
                      ELSE r \in p.rows /\ c \in p.columns

ConnectivityIsCommunication ==
  pc = "done" /\ query_aware =>
    \A i \in DOMAIN patterns, r \in RowIds :
      {ColumnUnit(e[2]) : e \in {e \in mat : e[1] = r /\ Reads(patterns[i], r, e[2])}}
      = {b \in DOMAIN column_partitions :
           /\ <<i, r>> \in DOMAIN QueryRowNetHG
           /\ QueryRowNetHG[<<i, r>>] \cap column_partitions[b] # {}}

(* A call is a reordering of the matrix: it writes both imprints at once,   *)
(* each a permutation of the padded ids.                                    *)
Abstract == INSTANCE Reordering
              WITH row_imprint <- row_imprint, col_imprint <- col_imprint
ImplementsReordering == Abstract!Spec
=============================================================================
