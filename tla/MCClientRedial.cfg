\* A timed and an untimed call; redial and Close.
CONSTANTS
  c1 = c1
  c2 = c2
  c3 = c3
  c4 = c4
  None = None
  Calls = {c1, c2}
  Callback = {}
  OneWay = {}
  Timed = {c1}
  NotRequest = {}
  Malformed = {}
  RidSpace = 3
  AutoIncrement = TRUE
  UserRid <- AllSameRid
  HasDialer = TRUE
  UserCloses = TRUE
  MaxDials = 1
  AnswersOneWay = FALSE
  NestedIn <- NoNesting
  HandlerCalls = {}
SPECIFICATION FairSpec
PROPERTIES CleanupWakes CloseStopsReader
\* Callers may stop calling and a call without a timeout may wait forever.
CHECK_DEADLOCK FALSE
