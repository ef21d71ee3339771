SPECIFICATION AccessSpec
CONSTANTS
  Readers = {r1, r2}
  Admins = {a1, a2}
  Nothing = Nothing
  MaxVersion = 3
  MaxMishaps = 2
SYMMETRY Symmetry
INVARIANTS CacheIsCurrent FileFollowsCopy
PROPERTY StoresAreCurrent
CHECK_DEADLOCK FALSE
