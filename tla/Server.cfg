CONSTANTS
  r1 = r1
  r2 = r2
  Boot = Boot
  NoCall = NoCall
  Requests <- MCRequests
  Calls <- MCCalls
  columns <- MCColumns
  Undefaulted = {"required"}
  Tokens = {k1}
  Agents = {x, y}
  NoAgent = NoAgent
SPECIFICATION Spec
INVARIANTS
  ServerInv
  QueriesFindTheirColumns
  RegisterNeverClashes
  LifespanSettlesTheSchema
PROPERTIES
  PresenceNeverBreaksTheRequest
CHECK_DEADLOCK FALSE
