SPECIFICATION Spec
CONSTANTS
  MatrixRows = 3
  MatrixColumns = 3
  UnitRows = 2
  UnitColumns = 3
  PE_unit_height = 2
  PE_unit_width = 1
  num_row_PE_per_Tile = 1
  num_column_PE_per_Tile = 2
  MaxNonzeros = 3
  MaxReorders = 1
  Matrices <- MCMatrices
INVARIANTS
  UnitsAreRight
  PEsAreOfTheScan
