SPECIFICATION FairSpec
CONSTANTS
  Conns = {q1, q2, q3}
  MaxOpen = 1
  Capacity = 1
  FdLimit = 4
  Empty = Empty
  Text = Text
INVARIANTS
  TypeOK
  ThreadsRecorded
  CountedBeforeAnswered
  FaultsExplained
PROPERTIES
  SigintTerminates
  QuestionAnswered
\* The process stops: it exits, or it waits for a connection nobody makes.
CHECK_DEADLOCK FALSE
