\* The barrier against the README's "simultaneously".
SPECIFICATION FairSpec
CONSTANTS
  requestSize = 3
  Nobody = Nobody
  MaxSpurious = 1
  MaxSignals = 0
INVARIANT
  SendTogether
\* The process ends.
CHECK_DEADLOCK FALSE
