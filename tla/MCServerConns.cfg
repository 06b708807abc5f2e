\* Two connections, of a server with a worker for both and of one with one worker.
CONSTANTS
  k1 = k1
  k2 = k2
  None = None
  Conns = {k1, k2}
  MaxConns = 2
SPECIFICATION FairSpec
INVARIANTS TypeOK Exclusive NoStaleConn
PROPERTIES HijackedUntouched ShutdownReturns
\* A server whose clients make no more connections may stop.
CHECK_DEADLOCK FALSE
