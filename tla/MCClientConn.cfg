\* A timed call, an untimed one, a DoCallback, perhaps of a one-way request; two request ids; a redial.
CONSTANTS
  c1 = c1
  c2 = c2
  c3 = c3
  None = None
  Garbage = Garbage
  Calls = {c1, c2, c3}
  Callback = {c3}
  OneWay = {c3}
  Timed = {c1}
  MaxRid = 2
  HasDialer = TRUE
  ReadTimeout = TRUE
  MaxDials = 1
SPECIFICATION Spec
INVARIANTS TypeOK OwnResponse CalledBackOnce UsedConnsClosed
PROPERTIES FailureWakesAll CloseShutsDown
\* Callers may stop calling and a call without a timeout may wait forever.
CHECK_DEADLOCK FALSE
