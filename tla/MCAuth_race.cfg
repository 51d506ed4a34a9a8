SPECIFICATION Spec
CONSTANTS
  Users = {u1, u2}
  SessionIds = {s1, s2, s3}
  ResetIds = {r1}
  AttemptIds = {a1, a2}
  None = None
  Callers = {c1, c2}
  MaxAttempts = 2
  MaxRequests = 5
  MaxFailures = 1
INVARIANTS TypeOK ExchangedIsDead ResetRevokes BlockedIsDeserved
SYMMETRY Symmetry
CHECK_DEADLOCK FALSE
