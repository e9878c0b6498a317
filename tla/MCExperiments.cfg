SPECIFICATION Spec
CONSTANTS
  MatrixRows = 3
  MatrixColumns = 4
  UnitRows = 2
  UnitColumns = 7
  Base = 2
  MaxRuns = 2
  CutPlaces = {3, 6, 10}
  Datasets <- MCDatasets
  Orders <- MCOrders
  Configs <- MCConfigs
CHECK_DEADLOCK FALSE
INVARIANTS
  FilesAreRight
  CheckFindsLostIds
  FiguresAreRight
PROPERTIES
  ReachedIsReported
