SPECIFICATION Spec
CONSTANTS
  p1 = p1
  p2 = p2
  p3 = p3
  buyer = buyer
  owner = owner
  Users = {buyer, owner}
  Payments = {p1, p2, p3}
  Handlers = {h1, h2}
  None = None
  ProviderOf <- MCMixed
  Payer <- MCPayer
  Coins <- MCCoins
  Inviter <- MCInviter
  Developer = owner
  ReferralPercent = 10
  DeveloperPercent = 5
  MaxAmount = 3
  Welcome = 1
  MaxSpent = 0
  MaxFaults = 0
SYMMETRY Symmetry
INVARIANTS BooksAgree CreditedOnce
PROPERTY CreditedOrBarred
CHECK_DEADLOCK FALSE
