SPECIFICATION FairSpec
CONSTANTS
  Accounts = {a1, a2}
  Handlers = {h1, h2}
  Offers <- BuyOne
  InitStash <- Stash
  Price = 2
  FeeBps = 5000
  FlatFee = 1
  InitBalance = 4
  MaxBalance = 7
  Slots = 4
  Batch = 2
  MaxRef = 2
  MaxLegs = 2
  MaxUnlocks = 1
  MaxFaults = 1
PROPERTY EscrowSettles
CHECK_DEADLOCK FALSE
