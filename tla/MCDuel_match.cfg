SPECIFICATION FairDuelSpec
CONSTANTS
  DuelUsers = {u1, u2}
  Challengers = {u1}
  Handlers = {h1, h2}
  Nobody = Nobody
  Stuck = {f1}
  Rounds = {1, 2}
  DuelWelcome = 2
  DuelMaxAmount = 3
  DuelBet = 1
  DuelPayout = 2
  Budget = 1
  MaxStrikes = 1
  MaxMatch = 1
  MaxFaults = 1
INVARIANT MatchesPayOnce
PROPERTIES OnlyLiveMatchesPay NothingHangs
CHECK_DEADLOCK FALSE
