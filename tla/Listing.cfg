CONSTANTS
  MaxTasks = 3
  MaxClock = 3
  MaxChanges = 3
  PageSize = 1
  MaxPages = 12
  Start = Start
  EXHAUSTED = EXHAUSTED
SPECIFICATION Spec
INVARIANTS
  ListingInv
  NothingSettledIsMissed
  QuietWalkIsExact
  RefusedOnlyForUnsettled
CHECK_DEADLOCK FALSE
