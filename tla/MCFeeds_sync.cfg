SPECIFICATION FairSpec
CONSTANTS
  Feeds = {f1}
  Address <- OneUrl
  Documents <- OneDocument
  Callers = {c1, c2}
  Cycles = {y1}
  NoTask = NoTask
  RetryLimit = 2
  FailedAt = 2
  BatchSize = 1
  MaxRequests = 3
  MaxFailures = 1
INVARIANTS TypeOK ReportedOnce
PROPERTIES NoLostCount DeadLettersDeserved EveryCallEnds RetryServed
CHECK_DEADLOCK FALSE
