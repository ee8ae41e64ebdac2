CONSTANTS
  u1 = u1
  u2 = u2
  b1 = b1
  Users = {u1, u2}
  Browsers = {b1}
  Gate = "combined"
  Lifetime = 2
  WebLifetime = 1
  Skew = 1
  WebSkew = 1
  SudoTTL = 2
  SessionLife = 1
  Drift = 1
  MaxNow = 7
  MaxTokens = 1
  MaxRequests = 5
  Live = TRUE
  Service = Service
  None = None
SYMMETRY Symmetry
SPECIFICATION Spec
INVARIANTS RevocationWindow FreshAdmitted SudoIsRecent SudoViewsAgree
