SPECIFICATION Spec
CONSTANTS
  Users = {u1}
  Kinds = {k1}
  NoKey = NoKey
  Owner <- OneOwner
  Campaigns = {i1, i2}
  NoCampaign = NoCampaign
  Clients = {c1}
  Budgets = {1}
  PageSize = 1
  Grant = 2
  MaxRequests = 2
  MaxFailures = 0
INVARIANT EveryCampaignCharged
CHECK_DEADLOCK FALSE
