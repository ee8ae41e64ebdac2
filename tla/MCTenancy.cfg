CONSTANTS
  o1 = o1
  a = a
  b = b
  c1 = c1
  c2 = c2
  Orgs = {o1}
  Users = {a, b}
  Calls = {c1, c2}
  Joins = {"viewer", "geologist"}
  MaxProjects = 1
  None = None
SPECIFICATION Spec
INVARIANTS NeverOwnerless ProjectsByGeologists
PROPERTIES OwnersGrowByStaleRole TablesChangeAtOnce CallsEnd
