SPECIFICATION Spec
CONSTANTS
  Nodes <- MCNodes
  Nets <- MCNets
  Hash <- MCHash
  K = 3
  Contexts <- MCContexts
INVARIANTS
  LevelsAreRestored
  ParallelNetsAreFound
  PartitionInfoIsRight
  SlackCoversHeaviestNode
  ObjectiveProjects
  FixedVerticesAreKept
  ChildIsNoWorse
PROPERTY
  Finishes
CHECK_DEADLOCK FALSE
