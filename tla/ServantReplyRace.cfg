SPECIFICATION FairSpec
CONSTANTS
  Conns = {q1, q2}
  MaxOpen = 2
  Capacity = 1
  FdLimit = 4
  Empty = Empty
  Text = Text
\* The process stops: it exits, or it waits for a connection nobody makes.
CHECK_DEADLOCK FALSE
INVARIANT
  RepliesAreOwn
