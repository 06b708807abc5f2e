\* Two interchangeable calls with a timeout, a DoCallback whose callback issues a request that
\* cannot be encoded.
CONSTANTS
  c1 = c1
  c2 = c2
  c3 = c3
  c4 = c4
  None = None
  Calls = {c1, c2, c3, c4}
  Callback = {c1}
  OneWay = {}
  Timed = {c2, c4}
  NotRequest = {}
  Malformed = {c3}
  RidSpace = 4
  AutoIncrement = TRUE
  UserRid <- AllSameRid
  HasDialer = FALSE
  UserCloses = FALSE
  MaxDials = 0
  AnswersOneWay = FALSE
  NestedIn <- C1NestsC3
  HandlerCalls = {}
SPECIFICATION Spec
SYMMETRY TimedSymmetry
INVARIANTS TypeOK OwnResult OkHasResponse CallbackOnce PoolSafe NoStaleEntry SendNeverBlocks
\* Callers may stop calling and a call without a timeout may wait forever.
CHECK_DEADLOCK FALSE
