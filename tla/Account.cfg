CONSTANTS
  Names = {"n1", "n2"}
  Emails = {"e1", "e2"}
  Scenarios <- Both
  Admins = {3}
  Handlers = {h1, h2}
  TokenTTL = 2
  SessionTTL = 2
  RequestCooldown = 1
  ChangeCooldown = 1
  BanTime = 1
  AllowTempBannedLogin = TRUE
  MaxFaults = 1
SPECIFICATION Spec
INVARIANTS TokensAndLocks UniqueIdentity EmailProven RevokedStayOut
PROPERTIES SupersededUnusable BanSticks
SYMMETRY Symmetric
CHECK_DEADLOCK FALSE
