CONSTANTS
  p1 = p1
  u1 = u1
  u2 = u2
  x = x
  s1 = s1
  s2 = s2
  Projects = {p1}
  Users = {u1, u2}
  Places = {x}
  Streams = {s1, s2}
  Wedged = {s2}
  Buffer = 1
  Sends <- MCSends
  Fading = {u1}
  None = None
  Reading = Reading
  Closed = Closed
  Gone = Gone
SPECIFICATION Spec
INVARIANTS UpToDate
PROPERTIES SilentForgotten SilentGreyed PointsGetThrough ReceiversEnd
