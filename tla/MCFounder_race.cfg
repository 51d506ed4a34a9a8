SPECIFICATION FairSpec
CONSTANTS
  Users = {u1, u2}
  Clients = {c1, c2}
  Pro = Pro
  Master = Master
  Programs <- MCPrograms
  NoProgram = NoProgram
  Price <- MCPrice
  Total <- MCTotal
INVARIANTS TypeOK SeatBook AnnouncedIsTrue
PROPERTIES SeatNeverLost ImplementsSale EveryCallEnds
CHECK_DEADLOCK FALSE
