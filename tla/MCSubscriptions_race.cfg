SPECIFICATION FairSpec
CONSTANTS
  Subs = {s1}
  NoSub = none
  Clients = {c1, c2}
  Period = 1
  Grace = 1
  Extensions = {1}
  MaxTime = 2
  MaxRequests = 4
INVARIANTS TypeOK PendingIsNotBilled InvoicesAreBacked GraceIsBounded ServiceIsBounded
PROPERTY EveryCallEnds
CHECK_DEADLOCK FALSE
