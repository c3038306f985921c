SPECIFICATION FairSpec
CONSTANTS
  Servants = {s1, s2}
  Cities <- MCCities
  Transactions <- MCTransactions
  Ranges <- MCRanges
  EndsWithType <- MCEndsWithType
  Queries <- MCQueries
  NoCity = NoCity
  CityCapacity = 3
  MaxStarts = 2
  Hole = Hole
  Nobody = Nobody
INVARIANTS
  TypeOK
  AnswerIsCount
PROPERTIES
  FaultsExplained
  BindFailsOnlyOnOverlap
  QuerySettles
\* The model ends when the servants have been started as often as they may be.
CHECK_DEADLOCK FALSE
