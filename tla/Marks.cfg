CONSTANTS
  alice = alice
  bob = bob
  alice1 = alice1
  alice2 = alice2
  bob1 = bob1
  ghost = ghost
  Principals <- MCPrincipals
  Callers <- MCCallers
  agentOf <- MCAgentOf
  Known <- MCPrincipals
  Misaddressed <- MCMisaddressed
  NoOne = NoOne
  Tasks = {t1}
  MaxCrashes = 1
  MaxPending = 2
SPECIFICATION Spec
INVARIANTS
  MarksInv
  DeliveredMarksAreTheRecipients
  MarksReadByPartiesOnly
  SentByIsOwnSends
  SenderSeesEveryMark
PROPERTIES
  OnlyOwnMarkDischarges
CHECK_DEADLOCK FALSE
