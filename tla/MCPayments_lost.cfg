SPECIFICATION PaymentsFairSpec
CONSTANTS
  Intents = {i1}
  Checkouts = {}
  Workers = {w1, w2}
  MaxPurchases = 1
  MaxFailures = 1
PROPERTY PaidIsCredited
CHECK_DEADLOCK FALSE
