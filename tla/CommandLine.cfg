CONSTANT MaxWords = 5
SPECIFICATION Spec
INVARIANTS
  MisspeltFlagNeverTravels
  OnlyNamedSessionsIntroduce
  SharedIdentityIsAnnounced
  SuccessMeansDone
CHECK_DEADLOCK FALSE
