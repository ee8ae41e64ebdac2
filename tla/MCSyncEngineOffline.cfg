CONSTANTS
  d1 = d1
  d2 = d2
  s1 = s1
  s2 = s2
  r1 = r1
  k = k
  m = m
  n = n
  Devices = {d1, d2}
  Entities = {s1, r1}
  Table <- MCTableOne
  Codes = {k, n}
  NoCode = NoCode
  CodesOf <- MCCodesOfOne
  NoStation = NoStation
  Overlap = 1
  MaxTime = 3
  MaxEdits = 2
  MaxAhead = 0
  CursorFromPush = FALSE
SPECIFICATION Spec
INVARIANT NothingMissed
