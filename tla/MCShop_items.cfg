SPECIFICATION FairSpec
CONSTANTS
  Procs = {p1, p2}
  None = None
  Items = {"gift", "buster", "unwarn"}
  Kind <- MCKind
  Price <- MCPrice
  Stock <- MCStock
  Cards = {"c1"}
  Shows <- MCShows
  Entries = {1, 2, 3}
  Owned = {"unwarn", "gift"}
  Warnings = {1, 2}
  Welcome = 3
  MaxAmount = 3
  Payouts = {1, 3}
  Reward = 1
  Fines = {2}
  MaxFines = 1
  MaxFaults = 1
INVARIANTS BooksAgree TearsAreFaults
PROPERTIES HandlersEnd
CHECK_DEADLOCK FALSE
