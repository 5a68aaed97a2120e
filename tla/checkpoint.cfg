SPECIFICATION Spec
CONSTANTS
  Maker = maker
  Other = other
  Procs = {maker, other}
  Options <- MCOptions
  Absent = Absent
  Empty = Empty
  Garbled = Garbled
  MaxLen = 1
  MaxKeys = 1
  MaxKills = 1
INVARIANTS TypeOK PublishedWhole PublishedVerifies ForgeryRefused
PROPERTY CommandsEnd
