CONSTANTS
  Starts = {c1, c2}
  NoStart = NoStart
  Hosts <- MCHosts
  NoName = NoName
  Heard <- MCHeard
  Spoken <- MCSpoken
  Wanted = {1, 2, 3}
  Capacity = 1
  MaxBuffers = 2
SPECIFICATION Spec
INVARIANTS TypeOK InOrder
PROPERTY StopEnds
CHECK_DEADLOCK FALSE
