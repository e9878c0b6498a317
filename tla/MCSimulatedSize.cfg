SPECIFICATION Spec
CONSTANTS
  MatrixRows = 3
  MatrixColumns = 3
  num_row_PE_per_Tile = 1
  num_column_PE_per_Tile = 2
  RowWindows = {0, 1}
  ColumnWindows = {0, 1}
  MaxNonzeros = 3
  Matrices <- MCMatrices
  Workloads <- MCWorkloads
CHECK_DEADLOCK FALSE
INVARIANTS
  SimulatedSizeIsThePlans
