CONSTANTS
  b1 = b1
  b2 = b2
  i1 = i1
  i2 = i2
  pA = pA
  pB = pB
  Boreholes = {b1, b2}
  Intervals = {i1, i2}
  Projects = {pA, pB}
  Versions <- MCVersions
  Pushers = {u1, u2}
  Pullers = {r1}
  Cursors = {0, 1, 2}
  None = None
SPECIFICATION Spec
INVARIANTS LogMatchesHeader WholeOrSuperseded
PROPERTIES VerdictsAreSafe HeadersAreRegisters
