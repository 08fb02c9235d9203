SPECIFICATION Spec
CONSTANTS
  Accounts = {a1, a2}
  Handlers = {h1, h2}
  Offers <- BuyOffers
  InitStash <- Stash
  Price = 2
  FeeBps = 5000
  FlatFee = 1
  InitBalance = 4
  MaxBalance = 5
  Slots = 2
  Batch = 2
  MaxRef = 3
  MaxLegs = 3
  MaxUnlocks = 0
  MaxFaults = 1
SYMMETRY Symmetry
INVARIANT MoneyConserved
INVARIANT HoldBacksOrder
INVARIANT WantLegBacked
CHECK_DEADLOCK FALSE
