CONSTANTS
  Accounts = {1, 2}
  Deposits = {"dep"}
  Purchases = {"pur"}
  Sells = {"sell", "sell2"}
  Orders = {"order"}
  OwnerOf <- Owners
  Amount = 1
  FlatFee = 1
  FeeBps = 5000
  Price = 1
  Quantity = 2
  InitBalance = 2
  MaxBalance = 3
  Txs = {t1, t2, t3}
  MaxTx = 4
SPECIFICATION Spec
INVARIANT NoWaitCycle
PROPERTY ImplementsLedger
SYMMETRY Symmetric
CHECK_DEADLOCK FALSE
