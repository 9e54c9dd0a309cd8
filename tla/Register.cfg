CONSTANTS
  s1 = s1
  s2 = s2
  c1 = c1
  c2 = c2
  Nothing = Nothing
  Projects = {p}
  Sessions <- MCSessions
  Calls <- MCCalls
  Roles = {"manager", "watch"}
  TOUCH_INTERVAL = 2
  REUSE_WINDOW = 3
  MANAGER_WINDOW = 5
  MaxRequests = 3
  MaxDelay = 1
  MaxTime = 5
SPECIFICATION Spec
SYMMETRY Symmetry
INVARIANTS
  RegisterInv
  QuietListingIsTrue
PROPERTIES
  ActiveManagerIsNoticed
  ReuseIsNoticed
  RetiredUntilIntroduced
CHECK_DEADLOCK FALSE
