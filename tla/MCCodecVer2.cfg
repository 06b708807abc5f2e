\* Commands of version 1 only.
CONSTANTS
  Base = 16
  Commands <- V1Commands
  MaxFrames = 1
SPECIFICATION Spec
INVARIANT Ver2RoundTrip
\* The writer may stop writing.
CHECK_DEADLOCK FALSE
