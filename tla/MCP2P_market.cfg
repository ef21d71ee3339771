SPECIFICATION Spec
CONSTANTS
  Users = {u1, u2}
  Procs = {p1, p2}
  None = None
  Orders = {1, 2}
  Trades = {1, 2}
  Sweeper = p1
  PriceFiat = 2
  PriceCoins = 3
  Welcome = 3
  MaxAmount = 3
  MaxOrders = 1
  MaxOpen = 1
  ScanLimit = 2
  Amounts = {2, 3}
  Asked = {1, 2}
  Budgets = {4, 6}
  Limits <- MCTails
  Legacy <- MCLegacy
  Flows = {1}
  MaxFlow = 1
SYMMETRY Symmetry
INVARIANTS BooksAgree NoTailIsStranded
PROPERTIES MarketCapsHold PaidIsNeverTimedOut SettledOnce
CHECK_DEADLOCK FALSE
