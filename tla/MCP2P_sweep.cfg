SPECIFICATION FairSpec
CONSTANTS
  Users = {u1, u2}
  Procs = {p1, p2}
  None = None
  Orders = {1}
  Trades = {1, 2}
  Sweeper = p1
  PriceFiat = 1
  PriceCoins = 1
  Welcome = 4
  MaxAmount = 4
  MaxOrders = 1
  MaxOpen = 3
  ScanLimit = 1
  Amounts = {4}
  Asked = {1, 2}
  Budgets = {}
  Limits <- MCAny
  Legacy <- MCAny
  Flows = {2}
  MaxFlow = 2
PROPERTIES StaleIsFreed
CHECK_DEADLOCK FALSE
