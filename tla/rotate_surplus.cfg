SPECIFICATION Spec
CONSTANTS
  ZeroHash = ZeroHash
  NoHash = NoHash
  s1 = s1
  s2 = s2
  s3 = s3
  Seeds <- MCSeeds
  Rings <- MCRings
  EventTypes = {"data"}
  Payloads = {p}
  Signers <- MCSigners
  MAX_SEQ = 4
  MAX_EPOCH = 1
  MaxLines = 4
  MaxLegacy = 0
  WriteFaults = {}
  CrashTails = {}
PROPERTIES
  RotationUnderNewKey
