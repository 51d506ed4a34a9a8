SPECIFICATION Spec
CONSTANTS
  Users = {u1}
  Clients = {c1, c2}
  Keys = {k1}
  NoKey = NoKey
  Amounts = {1, 2}
  MaxLedger = 3
  MaxOutbox = 1
SYMMETRY Symmetry
INVARIANTS TypeOK LedgerExplainsRow NeverOverdrawn BonusDebtOnlyByAdmin
PROPERTY ImplementsLedger
CHECK_DEADLOCK FALSE
