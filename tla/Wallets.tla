------------------------------- MODULE Wallets -------------------------------
(***************************************************************************)
(* The Postgres transactions that change currency: CreditDeposit and       *)
(* RequestWithdraw of the bridges, Complete of billing, and Hold, Burn,    *)
(* Take and closing a listing of the market.  Every one of them locks rows *)
(* one after another (SELECT ... FOR UPDATE, or the UPDATE or INSERT that  *)
(* a second writer has to wait for), decides on what it has read under     *)
(* those locks, and becomes visible when it commits.                       *)
(*                                                                         *)
(* A transaction is its LockOrder.  What it read of a row is kept in read, *)
(* since the code computes with it and not with the row.                   *)
(***************************************************************************)
EXTENDS Integers, Sequences, FiniteSets

CONSTANTS
  Accounts, Deposits, Purchases, Sells, Orders, OwnerOf,
  Amount, FlatFee, FeeBps, Price, Quantity, InitBalance, MaxBalance,
  Txs,       \* connections
  MaxTx      \* bound: transactions that are begun

Listings == Sells \cup Orders

ASSUME WalletAssumption ==
  /\ Accounts \subseteq Nat
  /\ OwnerOf \in [Deposits \cup Purchases \cup Listings -> Accounts]
  /\ {Amount, FlatFee, Price, InitBalance, MaxBalance, MaxTx} \subseteq Nat
  /\ FeeBps \in 0..10000 /\ Quantity \in Nat \ {0} /\ InitBalance <= MaxBalance
  /\ Deposits \cap Purchases = {}  \* two tables
  /\ Sells \cap Orders = {}        \* a listing sells or buys
  /\ IsFiniteSet(Txs)              \* a connection pool

VARIABLES
  wallet,         \* cp_currency: [balance, cooling]
  hold,           \* cp_currency_hold, 0 if there is no row
  listing,        \* cp_listing: [status, left]
  credited,       \* cp_deposit_processed; purchases whose status is not 1
  tx,             \* what the connection does: [kind, id, acct, n]
  pc,             \* rows it has locked
  read,           \* what they held
  begun

dbVars == <<wallet, hold, listing, credited>>
vars == <<dbVars, tx, pc, read, begun>>

Cost == Price * Quantity
NoTx == [kind |-> "none"]

Init ==
  /\ wallet = [a \in Accounts |-> [balance |-> InitBalance, cooling |-> FALSE]]
  /\ \E placed \in SUBSET Orders :
       /\ hold = [o \in Orders |-> IF o \in placed THEN Cost ELSE 0]
       /\ listing = [l \in Listings |->
            IF l \in Sells \cup placed THEN [status |-> "active", left |-> Quantity]
            ELSE [status |-> "none", left |-> 0]]
  /\ credited = {}
  /\ tx = [t \in Txs |-> NoTx] /\ pc = [t \in Txs |-> 0] /\ read = [t \in Txs |-> <<>>]
  /\ begun = 0

-----------------------------------------------------------------------------
(* Rows and locks                                                          *)

Wallet(a)    == <<"cp_currency", a>>
HoldRow(o)   == <<"cp_currency_hold", o>>
Listing(l)   == <<"cp_listing", l>>
Credited(i)  == <<"credited", i>>

\* What a statement that locks the row reads of it
Row(r) ==
  CASE r[1] = "cp_currency"      -> wallet[r[2]]
    [] r[1] = "cp_currency_hold" -> hold[r[2]]
    [] r[1] = "cp_listing"       -> listing[r[2]]
    [] r[1] = "credited"         -> r[2] \in credited

\* lockPair: the lower account id first
PayerFirst(payer, payee) == <<Wallet(payer), Wallet(payee)>>  \* mutant
LockPair(payer, payee) ==
  IF payee < payer THEN <<Wallet(payee), Wallet(payer)>> ELSE <<Wallet(payer), Wallet(payee)>>

\* The rows in the order in which the transaction locks them
LockOrder(x) ==
  CASE x.kind \in {"withdraw", "hold", "burn"} -> <<Wallet(x.acct)>>
    [] x.kind = "deposit"  -> <<Wallet(x.acct), Credited(x.id)>>
    [] x.kind = "purchase" -> <<Credited(x.id), Wallet(x.acct)>>
    [] x.kind = "charge"   -> <<Listing(x.id)>> \o LockPair(x.acct, OwnerOf[x.id])
    [] x.kind = "settle"   -> <<Listing(x.id), HoldRow(x.id), Wallet(x.acct)>>
    [] x.kind = "release"  -> <<Listing(x.id), HoldRow(x.id), Wallet(x.acct)>>
    [] x.kind = "close"    -> <<Listing(x.id)>>
    [] OTHER               -> <<>>

Locked(t) == {LockOrder(tx[t])[i] : i \in 1..pc[t]}

\* The row that a transaction asks for next; it waits while another has it.
Wants(t, r) == tx[t] # NoTx /\ pc[t] < Len(LockOrder(tx[t])) /\ r = LockOrder(tx[t])[pc[t] + 1]
WaitsFor(t, u) == u # t /\ \E r \in Locked(u) : Wants(t, r)

GrantedReads(t) == TRUE  \* mutant: a SELECT without FOR UPDATE
Granted(t) == \A u \in Txs : ~WaitsFor(t, u)

-----------------------------------------------------------------------------
(* What the transactions decide and write                                  *)

Net(gross) == gross - (gross * FeeBps) \div 10000
Gross(x) == Price * x.n
Capped(n) == IF n > MaxBalance THEN MaxBalance ELSE n
Fits(n) == n <= MaxBalance

\* validateTake's and TakeUnitsTx's conditions on the listing
Takeable(l, n) == l.status = "active" /\ n <= l.left

\* The code goes on after its i-th lock, having read r.
Passes(x, r, i) ==
  LET mine == r[Wallet(x.acct)]
      theirs == r[Wallet(OwnerOf[x.id])]
  IN CASE x.kind = "deposit"  -> IF i = 1 THEN ~mine.cooling ELSE ~r[Credited(x.id)]
       [] x.kind = "withdraw" -> ~mine.cooling /\ Amount <= mine.balance
       [] x.kind = "purchase" -> IF i = 1 THEN ~r[Credited(x.id)] ELSE Fits(mine.balance + Amount)
       [] x.kind = "hold"     -> Cost <= mine.balance
       [] x.kind = "burn"     -> FlatFee <= mine.balance
       [] x.kind = "charge"   -> /\ i = 1 => Takeable(r[Listing(x.id)], x.n)
                                 /\ i = 3 => Gross(x) <= mine.balance /\ Fits(theirs.balance + Net(Gross(x)))
       [] x.kind = "settle"   -> /\ i = 1 => Takeable(r[Listing(x.id)], x.n)
                                 /\ i = 2 => Gross(x) <= r[HoldRow(x.id)]
                                 /\ i = 3 => Fits(mine.balance + Net(Gross(x)))
       [] x.kind = "release"  -> /\ i = 2 => r[HoldRow(x.id)] > 0
                                 /\ i = 3 => Fits(mine.balance + r[HoldRow(x.id)])
       [] x.kind = "close"    -> TRUE

\* applyDebit and Complete write relative to the row, everything else writes
\* what it has computed from its reading.
Balances(x, r) ==
  LET b == [a \in Accounts |-> wallet[a].balance]
      mine == r[Wallet(x.acct)].balance
      theirs == r[Wallet(OwnerOf[x.id])].balance
  IN CASE x.kind = "deposit"  -> [b EXCEPT ![x.acct] = Capped(mine + Amount)]
       [] x.kind = "withdraw" -> [b EXCEPT ![x.acct] = mine - Amount]
       [] x.kind = "purchase" -> [b EXCEPT ![x.acct] = @ + Amount]
       [] x.kind = "hold"     -> [b EXCEPT ![x.acct] = @ - Cost]
       [] x.kind = "burn"     -> [b EXCEPT ![x.acct] = @ - FlatFee]
       [] x.kind = "charge"   -> [b EXCEPT ![x.acct] = @ - Gross(x),
                                           ![OwnerOf[x.id]] = theirs + Net(Gross(x))]
       [] x.kind = "settle"   -> [b EXCEPT ![x.acct] = mine + Net(Gross(x))]
       [] x.kind = "release"  -> [b EXCEPT ![x.acct] = mine + r[HoldRow(x.id)]]
       [] x.kind = "close"    -> b

\* locked_until
Cooled(x, a) == wallet[a].cooling \/ (x.kind \in {"deposit", "withdraw"} /\ a = x.acct)

\* INSERT of Hold, reduceHold, DELETE of ReleaseTx
Holds(x, r) ==
  CASE x.kind = "hold"    -> [hold EXCEPT ![x.id] = Cost]
    [] x.kind = "settle"  -> [hold EXCEPT ![x.id] = r[HoldRow(x.id)] - Gross(x)]
    [] x.kind = "release" -> [hold EXCEPT ![x.id] = 0]
    [] OTHER -> hold

\* TakeUnitsTx; SetStatusTx writes the status whatever the row has become.
Listed(x, r) ==
  LET rest == r[Listing(x.id)].left - x.n
  IN CASE x.kind \in {"charge", "settle"} ->
            [listing EXCEPT ![x.id] = [status |-> IF rest = 0 THEN "taken" ELSE "active", left |-> rest]]
       [] x.kind \in {"release", "close"} -> [listing EXCEPT ![x.id].status = "closed"]
       [] OTHER -> listing

-----------------------------------------------------------------------------
(* The steps of a transaction                                              *)

End(t) == tx' = [tx EXCEPT ![t] = NoTx] /\ pc' = [pc EXCEPT ![t] = 0] /\ read' = [read EXCEPT ![t] = <<>>]

\* Take, Cancel and Expire have looked at the listing before they begin.
Worthwhile(x) ==
  CASE x.kind \in {"charge", "settle"} -> x.acct # OwnerOf[x.id] /\ Takeable(listing[x.id], x.n)
    [] x.kind \in {"release", "close"} -> listing[x.id].status = "active"
    [] x.kind = "hold"                 -> hold[x.id] = 0 /\ listing[x.id].status = "none"
    [] OTHER                           -> TRUE

\* A hold is for a new order: two requests never hold for the same one.
Begin(t, x) ==
  /\ tx[t] = NoTx /\ begun < MaxTx
  /\ Worthwhile(x)
  /\ x.kind = "hold" => \A u \in Txs : tx[u] # x
  /\ tx' = [tx EXCEPT ![t] = x] /\ begun' = begun + 1
  /\ UNCHANGED <<dbVars, pc, read>>

\* The next row is locked and read; a condition that fails rolls back.
Lock(t) ==
  /\ tx[t] # NoTx /\ pc[t] < Len(LockOrder(tx[t])) /\ Granted(t)
  /\ LET row == LockOrder(tx[t])[pc[t] + 1]
         seen == [r \in DOMAIN read[t] \cup {row} |-> IF r = row THEN Row(row) ELSE read[t][r]]
     IN IF Passes(tx[t], seen, pc[t] + 1)
        THEN pc' = [pc EXCEPT ![t] = @ + 1] /\ read' = [read EXCEPT ![t] = seen] /\ UNCHANGED tx
        ELSE End(t)
  /\ UNCHANGED <<dbVars, begun>>

Commit(t) ==
  LET x == tx[t]
      r == read[t]
      balances == Balances(x, r)
  IN /\ x # NoTx /\ pc[t] = Len(LockOrder(x))
     /\ wallet' = [a \in Accounts |-> [balance |-> balances[a], cooling |-> Cooled(x, a)]]
     /\ hold' = Holds(x, r)
     /\ listing' = Listed(x, r)
     /\ credited' = IF x.kind \in {"deposit", "purchase"} THEN credited \cup {x.id} ELSE credited
     /\ End(t) /\ UNCHANGED begun

\* The connection or the panel is lost: nothing was written, nothing stays locked.
Rollback(t) ==
  /\ tx[t] # NoTx
  /\ End(t) /\ UNCHANGED <<dbVars, begun>>

\* listings.Create, a single INSERT after Hold has committed
CreateListing(o) ==
  /\ hold[o] > 0 /\ listing[o].status = "none"
  /\ listing' = [listing EXCEPT ![o] = [status |-> "active", left |-> Quantity]]
  /\ UNCHANGED <<wallet, hold, credited, tx, pc, read, begun>>

Cool(a) ==
  /\ wallet[a].cooling
  /\ wallet' = [wallet EXCEPT ![a].cooling = FALSE]
  /\ UNCHANGED <<hold, listing, credited, tx, pc, read, begun>>

Tx(kind, id, a, n) == [kind |-> kind, id |-> id, acct |-> a, n |-> n]
Requests ==
  {Tx("deposit", d, OwnerOf[d], 0) : d \in Deposits}
  \cup {Tx("purchase", p, OwnerOf[p], 0) : p \in Purchases}
  \cup {Tx("hold", o, OwnerOf[o], 0) : o \in Orders}
  \cup {Tx("release", o, OwnerOf[o], 0) : o \in Orders}
  \cup {Tx("close", l, OwnerOf[l], 0) : l \in Sells}
  \cup {Tx(kind, "none", a, 0) : kind \in {"withdraw", "burn"}, a \in Accounts}
  \cup {Tx("charge", l, a, n) : l \in Sells, a \in Accounts, n \in 1..Quantity}
  \cup {Tx("settle", o, a, n) : o \in Orders, a \in Accounts, n \in 1..Quantity}

Next ==
  \/ \E t \in Txs : Lock(t) \/ Commit(t) \/ Rollback(t) \/ \E x \in Requests : Begin(t, x)
  \/ \E o \in Orders : CreateListing(o)
  \/ \E a \in Accounts : Cool(a)

Spec == Init /\ [][Next]_vars

-----------------------------------------------------------------------------
(* Properties                                                              *)

\* Every transaction takes effect in one step, on the amounts that are there
\* when it commits, and not at all if it does not: no update of a balance, a
\* hold or a listing is lost although the code writes values it has read.
Abstract == INSTANCE Ledger WITH
  balance <- [a \in Accounts |-> wallet[a].balance],
  cooling <- [a \in Accounts |-> wallet[a].cooling],
  held    <- hold,
  left    <- [l \in Listings |-> IF listing[l].status = "active" THEN listing[l].left ELSE 0]

ImplementsLedger == Abstract!Spec

\* No group of transactions waits for each other, whichever accounts trade
\* with each other at the same time: somebody in it waits for none of them.
NoWaitCycle ==
  \A S \in SUBSET Txs : S # {} => \E t \in S : \A u \in S : ~WaitsFor(t, u)
=============================================================================
