SPECIFICATION Spec
CONSTANTS
  Requests = {r1, r2}
  NoOne = NoOne
  Loads <- ThePairs
  r1 = r1
  r2 = r2
  Habits <- TheHabits
  Capacity = 1
  Retries = 1
  AiEnabled = TRUE
  CollisionRecovery = TRUE
  MaxMishaps = 2
INVARIANTS TypeOK AnswersTrue
PROPERTIES ImplementsLink NobodyHangs
CHECK_DEADLOCK FALSE
