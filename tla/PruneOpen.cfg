CONSTANTS
  c = c
  d = d
  Changes = {c, d}
  ListLimit = 2
  Docs = {d}
  MaxImages = 1
  MaxReruns = 0
SPECIFICATION PruneSpec
PROPERTIES
  OpenPullRequestKeepsItsImage
CHECK_DEADLOCK FALSE
