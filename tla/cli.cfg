SPECIFICATION Spec
CONSTANTS
  ZeroHash = ZeroHash
  NoHash = NoHash
  Genesis = Genesis
  NoKey = NoKey
  Refused = Refused
  NoProc = NoProc
  Seed0 = Seed0
  Piece = Piece
  KeysEol = TRUE
  p1 = p1
  p2 = p2
  p3 = p3
  slicks = slicks
  d1 = d1
  d2 = d2
  d3 = d3
  Procs = {p1, p2, p3}
  Commands <- MCCommands
  Sources <- MCSources
  ImportExclusive = TRUE
  MaxKills = 2
INVARIANTS
  ImportComplete
  ImportOpens
  IntactSourceAccepted
  TypeOK
  
  RingInStep
  SeedsKept
  TailNeverRepeats
PROPERTIES
  SerialLog
  LockTurn
CHECK_DEADLOCK FALSE
