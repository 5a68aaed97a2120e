SPECIFICATION Spec
CONSTANTS
  Leaf = {a, b}
  W = 4
  MaxLeaves = 3
  MaxSize = 15
INVARIANTS
  ProofChecksTotal
