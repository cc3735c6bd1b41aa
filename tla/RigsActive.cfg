SPECIFICATION Spec
CONSTANTS
  Tasks = {"a"}
  Rigs <- OneVfoIcoms
  RigOperation <- OperationOf
  Calls <- TheFrequencyCalls
  Turns <- NoTurns
  MaxCalls = 2
  MaxMishaps = 0
  MAX_BUFFER_RETRIES = 2
  KEYER_ROOM = 1
INVARIANT VfoAIsActive
CHECK_DEADLOCK FALSE
