\* Two servants register at once, as script.sh starts them.
SPECIFICATION FairSpec
CONSTANTS
  s1 = s1
  s2 = s2
  ankara = ankara
  bursa = bursa
  Servants <- MCServants
  Cities = {ankara, bursa}
  CitiesOf <- MCCitiesOf
  Queries = {}
  NoCity = NoCity
  Workers = {w1, w2}
  CacheSize = 4
  FdLimit = 64
  Mortal = {}
  Serialised = FALSE
  Garbled = Garbled
  Hole = Hole
INVARIANT
  ServantsManaged
\* The model ends when every servant has been handled.
CHECK_DEADLOCK FALSE
