SPECIFICATION Spec
CONSTANTS
  NumVertices = 3
  NetIds = {n1, n2, n3}
SYMMETRY NetSymmetry
INVARIANTS
  PinsAreUnion
  CountsAreMultiplicities
