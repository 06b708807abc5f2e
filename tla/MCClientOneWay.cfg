\* One-way requests that the peer answers nevertheless.
CONSTANTS
  c1 = c1
  c2 = c2
  c3 = c3
  c4 = c4
  None = None
  Calls = {c1, c2}
  Callback = {}
  OneWay = {c1}
  Timed = {}
  NotRequest = {}
  Malformed = {}
  RidSpace = 3
  AutoIncrement = TRUE
  UserRid <- AllSameRid
  HasDialer = FALSE
  UserCloses = FALSE
  MaxDials = 0
  AnswersOneWay = TRUE
  NestedIn <- NoNesting
  HandlerCalls = {}
SPECIFICATION Spec
INVARIANTS OwnResult
\* Callers may stop calling and a call without a timeout may wait forever.
CHECK_DEADLOCK FALSE
