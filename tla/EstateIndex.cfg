SPECIFICATION Spec
CONSTANTS
  Types = {villa, flat}
  Cities = {a, b}
  Dates <- MCDates
  NoCity = NoCity
  MaxLoads = 4
INVARIANTS
  TypeOK
  DatesSorted
  CountsMatch
  NothingLeaks
\* Loading ends at the bound.
CHECK_DEADLOCK FALSE
