CONSTANTS
  alice = alice
  bob = bob
  alice1 = alice1
  alice2 = alice2
  bob1 = bob1
  ghost = ghost
  Principals <- MCPrincipals
  Callers <- MCCallers
  agentOf <- MCAgentOf
  Known <- MCPrincipals
  Misaddressed <- MCMisaddressed
  NoOne = NoOne
  Tasks = {t1}
  MaxCrashes = 2
SPECIFICATION DeliveryFairSpec
INVARIANTS
  DeliveryInv
  ReceiptMeansDelivered
  Isolation
  RefusedStaysWithSender
  SenderRereadsWithoutListing
PROPERTIES
  SendIsAnswered
  ImplementsMailbox
  SettledIsForever
  ContentStaysPut
CHECK_DEADLOCK FALSE
