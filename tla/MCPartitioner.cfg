SPECIFICATION Spec
INVARIANTS
  GainsAreRight
  NeighboursAreActive
  QueuesAndLocksAreRight
  ObjectiveIsTracked
  BisectionsAddUp
  PackingsAreSafe
  FixedVerticesFitBest
  InitialPartitionsAreRight
  PreprocessingIsRight
PROPERTIES
  ImplementsSpecification
  Terminates
