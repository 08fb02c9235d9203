------------------------------ MODULE MCMarket ------------------------------
(* Small instances of Market for TLC.                                        *)
EXTENDS Market, TLC

Sell == [kind |-> "sell", give |-> "stack", want |-> "gear", qty |-> 2]
SellGear == [kind |-> "sell", give |-> "gear", want |-> "gear", qty |-> 1]
Buy  == [kind |-> "buy", give |-> "stack", want |-> "stack", qty |-> 2]

SellOffers == {Sell, SellGear}
BuyOffers  == {Buy}
BuyOne     == {[Buy EXCEPT !.qty = 1]}
Stash      == [stack |-> 2, gear |-> 1]

Symmetry == Permutations(Accounts) \cup Permutations(Handlers)

=============================================================================
