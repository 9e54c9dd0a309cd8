CONSTANTS
  c = c
  d = d
  Changes = {c, d}
  ListLimit = 1
  Docs = {d}
  MaxImages = 3
  MaxReruns = 1
SPECIFICATION PruneSpec
INVARIANTS
  PruneInv
  RecordedIsValidated
PROPERTIES
  PromotedIsKept
CHECK_DEADLOCK FALSE
