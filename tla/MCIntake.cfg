CONSTANTS
  o1 = o1
  p1 = p1
  p2 = p2
  v = v
  a = a
  i1 = i1
  i2 = i2
  c1 = c1
  c2 = c2
  Orgs = {o1}
  Projects = {p1, p2}
  Users = {v, a}
  Plans = {"tier_pro"}
  PlanIds = {"tier_pro", "tier_unknown"}
  Kinds = {"GEOTIFF"}
  Ids = {i1, i2}
  MaxFaults = 2
  MaxCalls = 5
  Calls = {c1, c2}
  Role <- MCRole
  None = None
SPECIFICATION Spec
INVARIANTS ConfirmedIsKept ProcessingHasJob
PROPERTIES WritesAreEntitled
SYMMETRY Symmetry
