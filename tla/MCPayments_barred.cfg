SPECIFICATION Spec
CONSTANTS
  p1 = p1
  p2 = p2
  p3 = p3
  buyer = buyer
  owner = owner
  Users = {buyer, owner}
  Payments = {p1}
  Handlers = {h1, h2}
  None = None
  ProviderOf <- MCRolly
  Payer <- MCPayer
  Coins <- MCCoins
  Inviter <- MCInviter
  Developer = owner
  ReferralPercent = 10
  DeveloperPercent = 5
  MaxAmount = 3
  Welcome = 1
  MaxSpent = 0
  MaxFaults = 1
SYMMETRY Symmetry
INVARIANT BarredPaymentIsAnnounced
CHECK_DEADLOCK FALSE
