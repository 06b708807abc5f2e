\* Two clients of one address, of which one may close itself, one user; a client is used up after one call.
CONSTANTS
  c1 = c1
  c2 = c2
  u1 = u1
  raw = raw
  None = None
  Clients = {c1, c2}
  Users = {u1}
  Pools = {raw}
  Raw = {raw}
  PoolOf <- AllRaw
  Failing = {c1}
  MaClientConnUsed = 1
  MinClientInPool = 1
  CleanupMaxChecks = 2
SPECIFICATION Spec
INVARIANTS TypeOK PooledOnce RetiredOut
PROPERTIES DyingCloses IdleProbed GetReturns
\* Both goroutines stop when the context is done.
CHECK_DEADLOCK FALSE
