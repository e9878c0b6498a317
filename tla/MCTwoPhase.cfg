SPECIFICATION Spec
CONSTANTS
  MatrixRows = 3
  MatrixColumns = 4
  UnitRows = 2
  UnitColumns = 3
  MaxNonzeros = 3
  Matrices <- MCMatrices
  Workloads <- MCWorkloads
INVARIANTS
  BlocksFillUnits
  MergedNetsAreBlockRows
  QueryNetsCoverColumns
  ConnectivityIsStorage
  ConnectivityIsCommunication
PROPERTIES
  ImplementsReordering
