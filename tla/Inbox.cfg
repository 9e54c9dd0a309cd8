CONSTANTS
  alice = alice
  alice1 = alice1
  alice2 = alice2
  Principals <- MCPrincipals
  Callers <- MCCallers
  agentOf <- MCAgentOf
  Known <- MCPrincipals
  Misaddressed = {}
  NoOne = NoOne
  Tasks = {t1}
  MaxCrashes = 0
  MaxPending = 1
  Reader = alice1
  Stamps <- MCStamps
  Cutoff = 1
SPECIFICATION InboxSpec
PROPERTIES
  NothingOwedIsHidden
  IntroductionTakes
  WarningFitsTheRegister
CHECK_DEADLOCK FALSE
