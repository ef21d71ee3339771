SPECIFICATION FairSpec
CONSTANTS
  Keys = {u1}
  Tasks = {1, 2, 3}
  Slots = {s1, s2}
  None = None
  Welcome = 1
  MaxAmount = 2
  Cooldown = 2
  Hour = 0
  Day = 2
  HourCap = 1
  DayCap = 2
  Retention = 3
  Bet = 1
  Payout = 2
  MaxTime = 4
  MaxFlow = 1
INVARIANTS BooksAgree CapsHold CooldownHolds LocksAreSound
PROPERTY TapIsAnswered
CHECK_DEADLOCK FALSE
