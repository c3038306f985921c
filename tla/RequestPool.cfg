SPECIFICATION FairSpec
CONSTANTS
  Servants = {s1}
  Clients = {c1, c2}
  Workers = {w1, w2}
  Main = Main
  Nobody = Nobody
  FdLimit = 4
  MaxSpurious = 1
INVARIANTS
  TypeOK
  MutexOK
  DequeueFindsRequest
  ExactlyOnce
  NoLostWakeup
  JoinBeforeFree
PROPERTIES
  NoWorkAfterSigint
  ImplementsDispatcher
  QueuedIsServed
  ShutdownCompletes
\* The server stops: it exits, or it waits for a connection nobody makes.
CHECK_DEADLOCK FALSE
