\* Equal ids chosen by the callers: a timed call, an answered one-way request that can block the
\* reader, and a handler that issues a DoCallback whose callback issues a timed call.
CONSTANTS
  c1 = c1
  c2 = c2
  c3 = c3
  c4 = c4
  None = None
  Calls = {c1, c2, c3, c4}
  Callback = {c3}
  OneWay = {c4}
  Timed = {c1, c2}
  NotRequest = {}
  Malformed = {}
  RidSpace = 1
  AutoIncrement = FALSE
  UserRid <- AllSameRid
  HasDialer = FALSE
  UserCloses = FALSE
  MaxDials = 0
  AnswersOneWay = TRUE
  NestedIn <- C3NestsC2
  HandlerCalls = {c3}
SPECIFICATION FairSpec
PROPERTIES TimedReturn
\* Callers may stop calling and a call without a timeout may wait forever.
CHECK_DEADLOCK FALSE
