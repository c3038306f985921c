\* The answer to a query about the type that was loaded last.
SPECIFICATION Spec
CONSTANTS
  Types = {villa, flat}
  Cities = {a, b}
  Dates <- MCDates
  NoCity = NoCity
  MaxLoads = 4
\* Loading ends at the bound.
CHECK_DEADLOCK FALSE
INVARIANT
  EveryTypeCounted
