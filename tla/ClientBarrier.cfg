SPECIFICATION FairSpec
CONSTANTS
  requestSize = 3
  Nobody = Nobody
  MaxSpurious = 2
  MaxSignals = 1
INVARIANTS
  TypeOK
  EarlyOnlyBySpuriousWake
  RequestsOutliveThreads
PROPERTY
  ClientTerminates
\* The process ends.
CHECK_DEADLOCK FALSE
