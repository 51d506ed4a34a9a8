SPECIFICATION Spec
CONSTANTS
  Users = {u1, u2}
  NoUser = NoUser
  Blogs = {b1}
  NoBlog = NoBlog
  Methods = {m1, m2}
  Clients = {c1, c2}
  AdminStatuses = {"verified", "suspended"}
  AdminTrusts = {"verified"}
  MaxRequests = 6
  MaxFailures = 1
PROPERTY RestoreHonoured
CHECK_DEADLOCK FALSE
