CONSTANTS
  Names = {"n1", "n2"}
  Emails = {"e1", "e2"}
  Scenarios <- TwoResets
  Admins = {3}
  Handlers = {h1, h2}
  TokenTTL = 2
  SessionTTL = 1
  RequestCooldown = 1
  ChangeCooldown = 1
  BanTime = 1
  AllowTempBannedLogin = TRUE
  MaxFaults = 1
SPECIFICATION Spec
INVARIANT OneLiveToken
SYMMETRY Symmetric
CHECK_DEADLOCK FALSE
