SPECIFICATION Spec
CONSTANTS
  ZeroHash = ZeroHash
  NoHash = NoHash
  Genesis = Genesis
  NoKey = NoKey
  Refused = Refused
  NoProc = NoProc
  Seed0 = Seed0
  Piece = Piece
  KeysEol = TRUE
  p1 = p1
  p2 = p2
  p3 = p3
  slicks = slicks
  d1 = d1
  d2 = d2
  d3 = d3
  Procs = {p1, p2}
  Commands <- RotateAll
  Sources <- OneSource
  ImportExclusive = FALSE
  MaxKills = 1
INVARIANT
  RingInOrder
CHECK_DEADLOCK FALSE
