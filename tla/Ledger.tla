------------------------------- MODULE Ledger -------------------------------
(***************************************************************************)
(* What the currency tables promise: balances, holds, the units of a       *)
(* listing and the credited deposits and purchases change only by the      *)
(* operations below, each of them in one step and on the amounts there     *)
(* are.  The two bridges, the market and billing rely on it whenever they  *)
(* treat a transaction as one step; Wallets shows that the transactions    *)
(* keep it.                                                                *)
(***************************************************************************)
EXTENDS Integers

CONSTANTS
  Accounts,
  Deposits, Purchases,   \* rows of cp_deposit, rows of cp_purchases
  Sells, Orders,         \* sell listings; buy orders, each with the hold of its id
  OwnerOf,               \* the account of each of these
  Amount,                \* deposited, withdrawn or bought at a time
  FlatFee, FeeBps,       \* FeePolicy
  Price, Quantity,       \* of a listing: currency per unit, units
  InitBalance,
  MaxBalance             \* math.MaxInt64 or math.MaxInt32

VARIABLES
  balance,    \* cp_currency.zeny, cashpoint
  cooling,    \* locked_until is in the future
  held,       \* cp_currency_hold
  left,       \* units an active listing still has
  credited    \* cp_deposit_processed, and purchases that are not pending

vars == <<balance, cooling, held, left, credited>>

Listings == Sells \cup Orders
Cost == Price * Quantity
Capped(n) == IF n > MaxBalance THEN MaxBalance ELSE n
Net(gross) == gross - (gross * FeeBps) \div 10000

\* A buy order may be there from the start, with the hold that backs it.
Init ==
  /\ balance = [a \in Accounts |-> InitBalance]
  /\ cooling = [a \in Accounts |-> FALSE]
  /\ \E placed \in SUBSET Orders :
       /\ held = [o \in Orders |-> IF o \in placed THEN Cost ELSE 0]
       /\ left = [l \in Listings |-> IF l \in Sells \cup placed THEN Quantity ELSE 0]
  /\ credited = {}

\* The amount is added, up to the largest balance, and the cooldown starts.
Deposit(d) ==
  LET a == OwnerOf[d]
  IN /\ d \notin credited /\ ~cooling[a]
     /\ balance' = [balance EXCEPT ![a] = Capped(@ + Amount)]
     /\ cooling' = [cooling EXCEPT ![a] = TRUE]
     /\ credited' = credited \cup {d}
     /\ UNCHANGED <<held, left>>

Withdraw(a) ==
  /\ ~cooling[a] /\ Amount <= balance[a]
  /\ balance' = [balance EXCEPT ![a] = @ - Amount]
  /\ cooling' = [cooling EXCEPT ![a] = TRUE]
  /\ UNCHANGED <<held, left, credited>>

Purchase(p) ==
  LET a == OwnerOf[p]
  IN /\ p \notin credited /\ balance[a] + Amount <= MaxBalance
     /\ balance' = [balance EXCEPT ![a] = @ + Amount]
     /\ credited' = credited \cup {p}
     /\ UNCHANGED <<cooling, held, left>>

\* An account puts aside what an order costs; the order is listed afterwards.
Hold(o) ==
  LET a == OwnerOf[o]
  IN /\ held[o] = 0 /\ Cost <= balance[a]
     /\ balance' = [balance EXCEPT ![a] = @ - Cost]
     /\ held' = [held EXCEPT ![o] = Cost]
     /\ UNCHANGED <<cooling, left, credited>>

List(o) ==
  /\ held[o] > 0 /\ left[o] = 0
  /\ left' = [left EXCEPT ![o] = Quantity]
  /\ UNCHANGED <<balance, cooling, held, credited>>

Burn(a) ==
  /\ FlatFee <= balance[a]
  /\ balance' = [balance EXCEPT ![a] = @ - FlatFee]
  /\ UNCHANGED <<cooling, held, left, credited>>

\* A taker pays the seller, who receives it without the fee.
Charge(l, taker, n) ==
  LET gross == Price * n
      seller == OwnerOf[l]
  IN /\ taker # seller /\ n <= left[l] /\ gross <= balance[taker]
     /\ balance[seller] + Net(gross) <= MaxBalance
     /\ balance' = [balance EXCEPT ![taker] = @ - gross, ![seller] = @ + Net(gross)]
     /\ left' = [left EXCEPT ![l] = @ - n]
     /\ UNCHANGED <<cooling, held, credited>>

\* A taker who delivers to a buy order is paid from its hold.
Settle(o, taker, n) ==
  LET gross == Price * n
  IN /\ taker # OwnerOf[o] /\ n <= left[o] /\ gross <= held[o]
     /\ balance[taker] + Net(gross) <= MaxBalance
     /\ balance' = [balance EXCEPT ![taker] = @ + Net(gross)]
     /\ held' = [held EXCEPT ![o] = @ - gross]
     /\ left' = [left EXCEPT ![o] = @ - n]
     /\ UNCHANGED <<cooling, credited>>

\* A listing is closed, and what a buy order still holds goes back.
Close(l) ==
  /\ left' = [left EXCEPT ![l] = 0]
  /\ \/ l \in Sells /\ UNCHANGED <<balance, held>>
     \/ /\ l \in Orders /\ held[l] > 0
        /\ balance[OwnerOf[l]] + held[l] <= MaxBalance
        /\ balance' = [balance EXCEPT ![OwnerOf[l]] = @ + held[l]]
        /\ held' = [held EXCEPT ![l] = 0]
  /\ UNCHANGED <<cooling, credited>>

\* The cooldown passes.
Cool(a) ==
  /\ cooling[a]
  /\ cooling' = [cooling EXCEPT ![a] = FALSE]
  /\ UNCHANGED <<balance, held, left, credited>>

Next ==
  \/ \E d \in Deposits : Deposit(d)
  \/ \E p \in Purchases : Purchase(p)
  \/ \E o \in Orders : Hold(o) \/ List(o)
  \/ \E l \in Listings : Close(l)
  \/ \E a \in Accounts :
       \/ Withdraw(a) \/ Burn(a) \/ Cool(a)
       \/ \E n \in 1..Quantity :
            \/ \E l \in Sells : Charge(l, a, n)
            \/ \E o \in Orders : Settle(o, a, n)

Spec == Init /\ [][Next]_vars
=============================================================================
