SPECIFICATION Spec
CONSTANTS
  Accounts = {a1}
  InitBalance = 1
  MaxPerTx = 1
  Cooldown = 1
  ReapAfter = 0
  Batch = 1
  PollMax = 1
  MaxReq = 1
  MaxClock = 0
  MaxFaults = 0
  MaxGameFaults = 1
INVARIANT DeliveredReachesGame
