SPECIFICATION FairSpec
CONSTANTS
  s1 = s1
  s2 = s2
  ankara = ankara
  bursa = bursa
  Servants <- MCServants
  Cities = {ankara, bursa}
  CitiesOf <- MCCitiesOf
  Queries = {ankara, NoCity}
  NoCity = NoCity
  Workers = {w1, w2}
  CacheSize = 1
  FdLimit = 7
  Mortal = {s1}
  Serialised = TRUE
  Garbled = Garbled
  Hole = Hole
INVARIANTS
  TypeOK
  ServantsManaged
  RepliesComplete
  FaultsExplained
  StaleOnlyByGrowth
PROPERTIES
  RegistryAppendOnly
  QueriesAnswered
\* The model ends when every servant and every query has been handled.
CHECK_DEADLOCK FALSE
