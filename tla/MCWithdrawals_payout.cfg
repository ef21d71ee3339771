SPECIFICATION Spec
CONSTANTS
  Users = {u1}
  Requests = {r1, r2}
  Procs = {p1, p2}
  None = None
  MaxAmount = 3
  Welcome = 2
  MinCoins = 1
  MaxCoins = 2
  DailyLimit = 2
  MonthlyLimit = 3
  PayoutRatio = 2
  RequireDeposit = TRUE
  AutoPayout = TRUE
  Amounts = {1, 2}
  LastDay = 1
  DaysPerMonth = 2
  MaxFlow = 2
INVARIANTS BooksAgree CreateIsExclusive QuotasHold PaidIsNeverRefunded
PROPERTIES PayoutCapAtGrant SettledOnce
SYMMETRY Symmetry
CHECK_DEADLOCK FALSE
