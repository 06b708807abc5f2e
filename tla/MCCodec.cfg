\* Commands of every format, one whose class name is too long, two that are refused.
CONSTANTS
  Base = 16
  Commands <- AllCommands
  MaxFrames = 2
SPECIFICATION Spec
INVARIANTS TypeOK InStep OnlyCutsFail CopyIsWhole
\* The writer may stop writing.
CHECK_DEADLOCK FALSE
