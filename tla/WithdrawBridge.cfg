SPECIFICATION FairSpec
CONSTANTS
  Accounts = {a1}
  InitBalance = 2
  MaxPerTx = 1
  Cooldown = 1
  ReapAfter = 1
  Batch = 1
  PollMax = 2
  MaxReq = 2
  MaxClock = 2
  MaxFaults = 1
  MaxGameFaults = 1
INVARIANTS NoOverpay DeliveredMeansPaid SentHasRow
PROPERTIES EveryWithdrawDelivered NoResurrection RowsOnlyDrain
