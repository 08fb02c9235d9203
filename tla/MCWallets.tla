----------------------------- MODULE MCWallets -----------------------------
(* A small instance of Wallets for TLC: account 1 sells and account 2 buys, *)
(* and each of them has a deposit or a purchase coming.                     *)
EXTENDS Wallets, TLC

Owners == [dep |-> 1, pur |-> 2, sell |-> 1, sell2 |-> 2, order |-> 2]

Symmetric == Permutations(Txs)
=============================================================================
