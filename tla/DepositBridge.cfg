SPECIFICATION FairSpec
CONSTANTS
  Accounts = {a1, a2}
  InitBalance = 2
  MaxDeposit = 1
  MaxBalance = 3
  Cooldown = 2
  GameCooldown = 1
  Batch = 2
  MaxDep = 2
  MaxWithdraws = 1
  MaxStray = 1
  MaxFaults = 1
INVARIANTS Consistent BalanceAccounted
PROPERTIES EveryDepositProcessed DeletedMeansProcessed
