SPECIFICATION Spec
CONSTANTS
  Tasks = {1, 2}
  Setups <- TheSetups
  Starts = {0, 1, 2}
  Told = {TRUE}
  Calls <- TheCalls
  Turns <- TheTurns
  MaxCalls = 1
  MaxMishaps = 1
INVARIANTS TypeOK Honest SetHolds NothingElseChanges
CHECK_DEADLOCK FALSE
