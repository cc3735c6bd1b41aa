CONSTANTS
  c1 = c1
  c2 = c2
  d1 = d1
  d2 = d2
  i1 = i1
  i2 = i2
  NoId = NoId
  Starts = {c1, c2}
  Stops = {d1, d2}
  Ids = {i1, i2}
  Capacity = 1
  MayAbandon = TRUE
  MaxPackets = 2
SYMMETRY Symmetry
SPECIFICATION Spec
INVARIANTS TypeOK Routing StopCovers
CHECK_DEADLOCK FALSE
