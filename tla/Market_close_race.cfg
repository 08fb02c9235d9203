SPECIFICATION Spec
CONSTANTS
  Accounts = {a1, a2}
  Handlers = {h1, h2}
  Offers <- SellOffers
  InitStash <- Stash
  Price = 2
  FeeBps = 5000
  FlatFee = 1
  InitBalance = 4
  MaxBalance = 7
  Slots = 2
  Batch = 2
  MaxRef = 1
  MaxLegs = 3
  MaxUnlocks = 0
  MaxFaults = 0
SYMMETRY Symmetry
INVARIANT ReturnsUnsoldRemainder
CHECK_DEADLOCK FALSE
