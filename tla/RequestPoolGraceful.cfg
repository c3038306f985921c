\* The SIGINT handler against the README's "terminates gracefully".
SPECIFICATION FairSpec
CONSTANTS
  Servants = {s1}
  Clients = {c1}
  Workers = {w1, w2}
  Main = Main
  Nobody = Nobody
  FdLimit = 8
  MaxSpurious = 0
PROPERTY
  GracefulTermination
\* The server stops: it exits, or it waits for a connection nobody makes.
CHECK_DEADLOCK FALSE
