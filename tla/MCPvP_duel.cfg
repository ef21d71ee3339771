SPECIFICATION FairSpec
CONSTANTS
  Users = {u1, u2}
  Procs = {p1, p2}
  None = None
  Offers = {1, 2}
  Welcome = 1
  MaxAmount = 1
  Multiplier = 190
  ScanLimit = 2
  Bets = {1}
  Games = {"dice"}
  Flows = {1}
  MaxFlow = 1
INVARIANTS BooksAgree StakesFollowTheOffer
PROPERTIES SettledOnce PoisonBlocksNobody PotPaysForItself
CHECK_DEADLOCK FALSE
