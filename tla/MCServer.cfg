CONSTANTS
  old = old
  new = new
  r1 = r1
  r2 = r2
  Instances = {old, new}
  Known <- KnownFiles
  Deployments <- Choices
  Requests = {r1, r2}
  None = None
SPECIFICATION Spec
INVARIANTS ServesMigrated AppliedAlone
PROPERTIES UpgradesRoll NoWorkCut StallsNeedOneConn DrainEnds RequestsEnd
