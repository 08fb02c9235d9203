---------------------------- MODULE MCMarketPair ----------------------------
(* Two markets in one run: one where pieces are sold, and one with barters, *)
(* where a take also escrows an item and draws a reference.  Which of them  *)
(* a behaviour is about is chosen at the start.                             *)
EXTENDS MCMarket

VARIABLE market

Barter     == [kind |-> "barter", give |-> "stack", want |-> "gear", qty |-> 1]
PairOffers == SellOffers \cup {Barter}

\* A market has one kind of offers, and bounds of its own: one listing at a
\* time to sell from, or two legs of barters.
Within ==
  /\ \A p \in Handlers : pc'[p] = "give" => op'[p].snap.kind = market
  /\ market = "sell" => nextRef' <= 2
  /\ market = "barter" => Len(legs') <= 2 /\ unlocks' = 0

PairInit == Init /\ market \in {"sell", "barter"}
PairNext == Next /\ Within /\ UNCHANGED market
PairSpec == PairInit /\ [][PairNext]_<<market, vars>>
=============================================================================
