SPECIFICATION Spec
CONSTANTS
  Users = {u1}
  Kinds = {k1, k2}
  NoKey = NoKey
  Owner <- OneOwner
  Campaigns = {i1, i2}
  NoCampaign = NoCampaign
  Clients = {c1, c2}
  Budgets = {1, 2}
  PageSize = 1
  Grant = 2
  MaxRequests = 5
  MaxFailures = 1
INVARIANTS TypeOK CampaignsPaid SpentMatchesViews
SYMMETRY Symmetry
CHECK_DEADLOCK FALSE
