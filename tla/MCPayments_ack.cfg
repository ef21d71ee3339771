SPECIFICATION FairSpec
CONSTANTS
  p1 = p1
  p2 = p2
  p3 = p3
  buyer = buyer
  owner = owner
  Users = {buyer, owner}
  Payments = {p1}
  Handlers = {h1, h2}
  None = None
  ProviderOf <- MCRolly
  Payer <- MCPayer
  Coins <- MCCoins
  Inviter <- MCInviter
  Developer = owner
  ReferralPercent = 10
  DeveloperPercent = 5
  MaxAmount = 3
  Welcome = 2
  MaxSpent = 1
  MaxFaults = 1
INVARIANTS ReturnedIsMarked AcknowledgedIsAnswered
PROPERTY DueIsAcknowledged
CHECK_DEADLOCK FALSE
