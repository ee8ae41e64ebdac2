CONSTANTS
  c1 = c1
  c2 = c2
  r1 = r1
  h1 = h1
  Calls = {c1, c2}
  Refs = {r1}
  Customers = {c1}
  Hooks = {h1}
  Timeout = 1
  Margin = 2
  Lives = {3}
  Default = 4
  Malformed = Malformed
  MaxNow = 3
  None = None
SPECIFICATION Spec
INVARIANTS TokenLive MutexMeansFetch AuditTrail
PROPERTIES FetchedOnce PushesEnd PaymentsLogged
CHECK_DEADLOCK FALSE
