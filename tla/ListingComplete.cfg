CONSTANTS
  MaxTasks = 3
  MaxClock = 3
  MaxChanges = 1
  PageSize = 1
  MaxPages = 12
  Start = Start
  EXHAUSTED = EXHAUSTED
SPECIFICATION Spec
INVARIANTS
  CompleteIsWhole
CHECK_DEADLOCK FALSE
