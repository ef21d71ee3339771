SPECIFICATION GiftsSpec
CONSTANTS
  boss = boss
  g = g
  s = s
  Users = {u1, boss}
  Procs = {p1, p2}
  None = None
  Ids = {1}
  Welcome = 2
  MaxAmount = 3
  Specs <- MCSpecs
  Groups = {g, s}
  Codes = {c1}
  OwnerOf <- MCOwnerOf
  Admin = boss
  Offers <- MCOffers
  PromoBudget = 1
  TaxPercent = 50
  Discounts = {0, 100}
  DeveloperPercent = 50
  SlicePercent = 50
  Amounts = {2}
  Prices = {2}
  OldGroups = {g}
  Residue = 2
  Upgrades <- MCUpgrades
  MaxGifts = 2
SYMMETRY Symmetry
INVARIANTS BooksAgree OpenHasCoins
PROPERTY ClosedForGood
CHECK_DEADLOCK FALSE
