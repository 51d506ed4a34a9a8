SPECIFICATION FairSpec
CONSTANTS
  Events = {e1, e2}
  NoEvent = NoEvent
  Passes = {p1, p2}
  MaxRetries = 1
  BatchSize = 2
  MaxFailures = 1
INVARIANTS TypeOK
PROPERTIES ImplementsRelay EveryRowSettles
CHECK_DEADLOCK FALSE
