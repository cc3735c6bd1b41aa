CONSTANTS
  i1 = i1
  i2 = i2
  s1 = s1
  s2 = s2
  NoName = NoName
  NoSlice = NoSlice
  Slices = {0, 1}
  Statuses <- TheStatuses
  FullStatus <- Full
  KnownModes = {"USB", "CW"}
  KnownAgc = {"fast"}
  MeterIds = {i1, i2}
  MeterNames = {s1, s2}
  MaxChanges = 4
SPECIFICATION Spec
INVARIANTS TypeOK MetersInverse EventsTell Mirrors
SYMMETRY Symmetry
CHECK_DEADLOCK FALSE
