SPECIFICATION PaymentsFairSpec
CONSTANTS
  Intents = {i1}
  Checkouts = {s1}
  Workers = {w1, w2}
  MaxPurchases = 1
  MaxFailures = 1
INVARIANTS PaymentsTypeOK EventsOnRecord CreditsMatchEvents
PROPERTY EveryEventAcked
CHECK_DEADLOCK FALSE
