CONSTANTS
  c1 = c1
  c2 = c2
  d1 = d1
  Calls = {c1, c2}
  Closers = {d1}
  Window = 3
  Greetings <- MCGreetings
  Subscriptions = 1
SPECIFICATION FairSpec
INVARIANTS TypeOK PendingAgrees EndIsKnown
PROPERTIES ImplementsRemote NobodyHangs
CHECK_DEADLOCK FALSE
