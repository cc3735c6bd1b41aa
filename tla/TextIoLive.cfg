CONSTANTS
  r1 = r1
  r2 = r2
  r3 = r3
  Requests = {r1, r2}
  NoOne = NoOne
  Ai0 = Ai0
  Ops <- LiveOps
  Prefixes <- ThePrefixes
  AiPrefixes <- TheAi
  Error = "?"
  Capacity = 1
  Retries = 1
  AiEnabled = TRUE
  HasShutdownCmd = TRUE
  LateAnswers = TRUE
  Lossy = TRUE
  MaxVersion = 0
SPECIFICATION FairSpec
PROPERTY NobodyHangs
CHECK_DEADLOCK FALSE
