CONSTANTS
  r1 = r1
  r2 = r2
  r3 = r3
  Requests = {r1, r2}
  NoOne = NoOne
  Ai0 = Ai0
  Ops <- AllOps
  Prefixes <- ThePrefixes
  AiPrefixes <- TheAi
  Error = "?"
  Capacity = 1
  Retries = 1
  AiEnabled = TRUE
  HasShutdownCmd = TRUE
  LateAnswers = TRUE
  Lossy = TRUE
  MaxVersion = 0
SYMMETRY Symmetry
SPECIFICATION Spec
INVARIANTS TypeOK Accounted ShutdownQuiets RtFirst
PROPERTY ImplementsLink
CHECK_DEADLOCK FALSE
