SPECIFICATION Spec
CONSTANTS
  Tasks = {"a", "b"}
  Rigs <- AllRigs
  RigOperation <- OperationOf
  Calls <- TheCalls
  Turns <- TheTurns
  MaxCalls = 1
  MaxMishaps = 1
  MAX_BUFFER_RETRIES = 2
  KEYER_ROOM = 1
INVARIANTS TypeOK Honest SetHolds NothingElseChanges CwWhole EventsTrue
PROPERTY OnlyPttTransmits
CHECK_DEADLOCK FALSE
