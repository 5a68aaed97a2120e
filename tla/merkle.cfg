SPECIFICATION Spec
CONSTANTS
  Leaf = {a, b}
  W = 4
  MaxLeaves = 7
  MaxSize = 15
INVARIANTS
  ProofsComplete
  InclusionSound
PROPERTIES
  AuditedLogGrows
