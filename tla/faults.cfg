SPECIFICATION Spec
CONSTANTS
  ZeroHash = ZeroHash
  NoHash = NoHash
  s1 = s1
  s2 = s2
  s3 = s3
  Seeds <- MCSeeds
  Rings <- MCRings
  EventTypes = {"data", "seal"}
  Payloads = {p}
  Signers <- MCSigners
  MAX_SEQ = 3
  MAX_EPOCH = 1
  MaxLines = 3
  MaxLegacy = 0
  WriteFaults = {"none","torn","noeol","nosync"}
  CrashTails = {"torn","noeol"}
INVARIANTS
  LossIsDetected
  ForeignRingRejected
  NoRevealedKeyReuse
