SPECIFICATION PairSpec
CONSTANTS
  Accounts = {a1, a2}
  Handlers = {h1, h2}
  Offers <- PairOffers
  InitStash <- Stash
  Price = 1
  FeeBps = 5000
  FlatFee = 0
  InitBalance = 3
  MaxBalance = 6
  Slots = 2
  Batch = 2
  MaxRef = 2
  MaxLegs = 3
  MaxUnlocks = 1
  MaxFaults = 1
SYMMETRY Symmetry
INVARIANTS ItemsConserved NeverOversold Consistent
PROPERTY PanelNeedsLock
CHECK_DEADLOCK FALSE
