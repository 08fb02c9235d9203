SPECIFICATION FairSpec
CONSTANTS
  Accounts = {a1}
  Admins = {}
  Providers = {"stripe", "paypal", "crypto"}
  Handlers = {h1, h2}
  CashPoints = 1
  MaxPoints = 2
  MaxPurchases = 1
  MaxResends = 1
  MaxFaults = 1
INVARIANT Consistent
INVARIANT PointsPaidFor
INVARIANT DisputedMeansBanned
INVARIANT MoneyBackApplied
PROPERTY PaidSettles
CHECK_DEADLOCK FALSE
