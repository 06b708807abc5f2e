\* Three frames of any kind, or two for an asynchronous server, all modes, a buffer for one response.
CONSTANTS
  MaxFrames = 3
  MaxAsync = 2
  BufCap = 1
  AsyncModes = {TRUE, FALSE}
  FlushModes = {TRUE, FALSE}
SPECIFICATION Spec
INVARIANTS TypeOK OwnAnswer OnceInOrder NotHeldBack
PROPERTIES AnswerArrives Ends
\* Everything may have ended.
CHECK_DEADLOCK FALSE
