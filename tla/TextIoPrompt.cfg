CONSTANTS
  r1 = r1
  r2 = r2
  r3 = r3
  Requests = {r1, r2}
  NoOne = NoOne
  Ai0 = Ai0
  Ops <- QueryOps
  Prefixes <- ThePrefixes
  AiPrefixes <- TheAi
  Error = "?"
  Capacity = 1
  Retries = 2
  AiEnabled = FALSE
  HasShutdownCmd = TRUE
  LateAnswers = FALSE
  Lossy = TRUE
  MaxVersion = 2
SYMMETRY Symmetry
SPECIFICATION Spec
INVARIANT AnswersRight
CHECK_DEADLOCK FALSE
