---------------------------- MODULE WalletsProofs ----------------------------
(***************************************************************************)
(* The currency transactions never deadlock, and each of them takes effect *)
(* in one step of Ledger, which overdraws nothing; for every number of     *)
(* connections, accounts and listings, every price and fee.                *)
(***************************************************************************)
EXTENDS Wallets, TLAPS, FiniteSetTheorems, SequenceTheorems,
        WellFoundedInduction

-----------------------------------------------------------------------------
(* The requests and the rows they lock.                                    *)

\* What each kind of request says.
LEMMA RequestShape ==
  ASSUME NEW x \in Requests
  PROVE  /\ x.acct \in Accounts
         /\ \/ x.kind = "deposit"  /\ x.id \in Deposits /\ x.acct = OwnerOf[x.id]
            \/ x.kind = "purchase" /\ x.id \in Purchases /\ x.acct = OwnerOf[x.id]
            \/ x.kind \in {"hold", "release"} /\ x.id \in Orders /\ x.acct = OwnerOf[x.id]
            \/ x.kind = "close"    /\ x.id \in Sells /\ x.acct = OwnerOf[x.id]
            \/ x.kind \in {"withdraw", "burn"}
            \/ x.kind = "charge"   /\ x.id \in Sells /\ x.n \in 1..Quantity
            \/ x.kind = "settle"   /\ x.id \in Orders /\ x.n \in 1..Quantity
BY WalletAssumption DEF Requests, Tx, Listings

LEMMA NoTxIsNoRequest == NoTx \notin Requests
BY RequestShape DEF NoTx

\* The rows a request locks, in their order.
LEMMA LockOrderShape ==
  ASSUME NEW x \in Requests
  PROVE  /\ x.kind \in {"withdraw", "hold", "burn"} => LockOrder(x) = <<Wallet(x.acct)>>
         /\ x.kind = "deposit"  => LockOrder(x) = <<Wallet(x.acct), Credited(x.id)>>
         /\ x.kind = "purchase" => LockOrder(x) = <<Credited(x.id), Wallet(x.acct)>>
         /\ x.kind \in {"settle", "release"} =>
              LockOrder(x) = <<Listing(x.id), HoldRow(x.id), Wallet(x.acct)>>
         /\ x.kind = "close" => LockOrder(x) = <<Listing(x.id)>>
         /\ x.kind = "charge" =>
              \/ /\ OwnerOf[x.id] < x.acct
                 /\ LockOrder(x) = <<Listing(x.id), Wallet(OwnerOf[x.id]), Wallet(x.acct)>>
              \/ /\ ~(OwnerOf[x.id] < x.acct)
                 /\ LockOrder(x) = <<Listing(x.id), Wallet(x.acct), Wallet(OwnerOf[x.id])>>
<1>1. ASSUME NEW a, NEW b, NEW c
      PROVE  <<a>> \o <<b, c>> = <<a, b, c>>
  <2> DEFINE S == {a, b, c}
             s == <<a>>
             t == <<b, c>>
             u == <<a, b, c>>
  <2>1. s \in Seq(S) /\ t \in Seq(S) /\ u \in Seq(S)
    OBVIOUS
  <2>2. Len(s) = 1 /\ Len(t) = 2 /\ Len(u) = 3 /\ s[1] = a /\ t[1] = b /\ t[2] = c
        /\ u[1] = a /\ u[2] = b /\ u[3] = c
    OBVIOUS
  <2> HIDE DEF S, s, t, u
  <2>3. /\ s \o t \in Seq(S) /\ Len(s \o t) = Len(s) + Len(t)
        /\ \A i \in 1..Len(s) + Len(t) :
             (s \o t)[i] = IF i <= Len(s) THEN s[i] ELSE t[i - Len(s)]
    BY <2>1, ConcatProperties, Zenon
  <2>4. Len(s \o t) = Len(u) /\ \A i \in 1..Len(s \o t) : (s \o t)[i] = u[i]
    BY <2>2, <2>3
  <2>5. s \o t = u
    BY <2>1, <2>3, <2>4, SeqEqual, Zenon
  <2> QED
    BY <2>5 DEF s, t, u
<1>2. x.kind = "charge" => LockOrder(x) = <<Listing(x.id)>> \o LockPair(x.acct, OwnerOf[x.id])
  BY DEF LockOrder
<1>3. x.kind = "charge" =>
        \/ /\ OwnerOf[x.id] < x.acct
           /\ LockOrder(x) = <<Listing(x.id), Wallet(OwnerOf[x.id]), Wallet(x.acct)>>
        \/ /\ ~(OwnerOf[x.id] < x.acct)
           /\ LockOrder(x) = <<Listing(x.id), Wallet(x.acct), Wallet(OwnerOf[x.id])>>
  <2> DEFINE mine == Wallet(x.acct)
             theirs == Wallet(OwnerOf[x.id])
  <2>1. /\ <<Listing(x.id)>> \o <<mine, theirs>> = <<Listing(x.id), mine, theirs>>
        /\ <<Listing(x.id)>> \o <<theirs, mine>> = <<Listing(x.id), theirs, mine>>
    BY <1>1
  <2>2. LockPair(x.acct, OwnerOf[x.id]) = IF OwnerOf[x.id] < x.acct THEN <<theirs, mine>> ELSE <<mine, theirs>>
    BY DEF LockPair
  <2> HIDE DEF mine, theirs
  <2>3. x.kind = "charge" =>
        \/ /\ OwnerOf[x.id] < x.acct
           /\ LockOrder(x) = <<Listing(x.id), theirs, mine>>
        \/ /\ ~(OwnerOf[x.id] < x.acct)
           /\ LockOrder(x) = <<Listing(x.id), mine, theirs>>
    BY <1>2, <2>1, <2>2
  <2> QED
    BY <2>3 DEF mine, theirs
<1>4. /\ x.kind \in {"withdraw", "hold", "burn"} => LockOrder(x) = <<Wallet(x.acct)>>
      /\ x.kind = "deposit"  => LockOrder(x) = <<Wallet(x.acct), Credited(x.id)>>
      /\ x.kind = "purchase" => LockOrder(x) = <<Credited(x.id), Wallet(x.acct)>>
      /\ x.kind = "close" => LockOrder(x) = <<Listing(x.id)>>
  BY DEF LockOrder
<1>5. x.kind \in {"settle", "release"} =>
        LockOrder(x) = <<Listing(x.id), HoldRow(x.id), Wallet(x.acct)>>
  BY DEF LockOrder
<1> QED
  BY <1>3, <1>4, <1>5
LEMMA LockCount ==
  ASSUME NEW x \in Requests
  PROVE  /\ x.kind \in {"withdraw", "hold", "burn", "close"} => Len(LockOrder(x)) = 1
         /\ x.kind \in {"deposit", "purchase"} => Len(LockOrder(x)) = 2
         /\ x.kind \in {"charge", "settle", "release"} => Len(LockOrder(x)) = 3
<1>1. CASE x.kind \in {"withdraw", "hold", "burn"}
  BY <1>1, LockOrderShape
<1>2. CASE x.kind = "close"
  BY <1>2, LockOrderShape
<1>3. CASE x.kind \in {"deposit", "purchase"}
  BY <1>3, LockOrderShape
<1>4. CASE x.kind \in {"settle", "release"}
  BY <1>4, LockOrderShape
<1>5. CASE x.kind = "charge"
  BY <1>5, LockOrderShape
<1> QED
  BY <1>1, <1>2, <1>3, <1>4, <1>5, RequestShape

-----------------------------------------------------------------------------
(* What each connection is doing.                                          *)

Order(t) == LockOrder(tx[t])
Rows == {Wallet(a) : a \in Accounts}
  \cup {Listing(l) : l \in Listings} \cup {HoldRow(o) : o \in Orders}
  \cup {Credited(i) : i \in Deposits \cup Purchases}

LEMMA LockOrderRows ==
  ASSUME NEW x \in Requests
  PROVE  /\ Len(LockOrder(x)) \in 1..3
         /\ \A i \in 1..Len(LockOrder(x)) : LockOrder(x)[i] \in Rows
<1>1. x.acct \in Accounts
  BY RequestShape
<1>2. CASE x.kind \in {"withdraw", "hold", "burn"}
  BY <1>1, <1>2, LockOrderShape DEF Rows
<1>3. CASE x.kind \in {"deposit", "purchase"}
  BY <1>1, <1>3, LockOrderShape, RequestShape DEF Rows
<1>4. CASE x.kind \in {"settle", "release"}
  BY <1>1, <1>4, LockOrderShape, RequestShape DEF Rows, Listings
<1>5. CASE x.kind = "close"
  BY <1>1, <1>5, LockOrderShape, RequestShape DEF Rows, Listings
<1>6. CASE x.kind = "charge"
  <2>1. OwnerOf[x.id] \in Accounts /\ x.id \in Listings
    BY <1>6, RequestShape, WalletAssumption DEF Listings
  <2> QED
    BY <1>1, <1>6, <2>1, LockOrderShape DEF Rows
<1> QED
  BY <1>2, <1>3, <1>4, <1>5, <1>6, RequestShape

OwnListing(x) == x.kind \in {"charge", "settle"} /\ x.acct = OwnerOf[x.id]

\* A connection without a transaction has locked nothing, no transaction has
\* locked more rows than it wants, and nobody takes his own listing.
Connections ==
  /\ tx \in [Txs -> Requests \cup {NoTx}]
  /\ pc \in [Txs -> Nat]
  /\ \A t \in Txs : pc[t] <= Len(Order(t)) /\ ~OwnListing(tx[t])

LEMMA NoTxOrder == LockOrder(NoTx) = <<>> /\ Len(LockOrder(NoTx)) = 0
BY DEF LockOrder, NoTx

LEMMA LockedRows ==
  ASSUME Connections, NEW t \in Txs
  PROVE  Locked(t) \subseteq Rows
<1>1. pc[t] \in Nat /\ pc[t] <= Len(LockOrder(tx[t])) /\ tx[t] \in Requests \cup {NoTx}
  BY DEF Connections, Order
<1>2. CASE tx[t] = NoTx
  BY <1>1, <1>2, NoTxOrder DEF Locked
<1>3. CASE tx[t] \in Requests
  <2>1. \A i \in 1..pc[t] : LockOrder(tx[t])[i] \in Rows
    BY <1>1, <1>3, LockOrderRows
  <2> QED
    BY <2>1 DEF Locked
<1> QED
  BY <1>1, <1>2, <1>3

LEMMA ConnectionsStep ==
  ASSUME Connections, [Next]_vars
  PROVE  Connections'
<1> USE NoTxOrder DEF Connections, Order
<1>0. ~OwnListing(NoTx)
  BY DEF OwnListing, NoTx
<1>1. ASSUME NEW t \in Txs, Lock(t)
      PROVE  Connections'
  <2>1. pc[t] < Len(Order(t))
    BY <1>1 DEF Lock
  <2>2. CASE pc' = [pc EXCEPT ![t] = @ + 1] /\ UNCHANGED tx
    <3>1. Len(Order(t)) \in Nat
      BY LockOrderRows
    <3> QED
      BY <2>1, <2>2, <3>1
  <2>3. CASE End(t)
    BY <1>0, <2>3 DEF End
  <2> QED
    BY <1>1, <2>2, <2>3 DEF Lock
<1>2. ASSUME NEW t \in Txs, End(t)
      PROVE  Connections'
  BY <1>0, <1>2 DEF End
<1>3. ASSUME NEW t \in Txs, NEW x \in Requests, Begin(t, x)
      PROVE  Connections'
  BY <1>3, LockOrderRows DEF Begin, Worthwhile, OwnListing
<1>4. CASE UNCHANGED <<tx, pc>>
  BY <1>4
<1> QED
  BY <1>1, <1>2, <1>3, <1>4 DEF Next, Commit, Rollback, CreateListing, Cool, vars

LEMMA InitConnections == Init => Connections
BY NoTxOrder DEF Init, Connections, Order, OwnListing, NoTx

-----------------------------------------------------------------------------
(* Nobody waits in a circle.                                               *)

\* A relation on a finite set that is transitive and irreflexive has a maximal
\* element in it.
LEMMA FiniteMaximal ==
  ASSUME NEW S, IsFiniteSet(S), S # {}, NEW E,
         \A t \in S : <<t, t>> \notin E,
         \A t, u, v \in S : <<t, u>> \in E /\ <<u, v>> \in E => <<t, v>> \in E
  PROVE  \E t \in S : \A u \in S : <<t, u>> \notin E
<1> DEFINE Above(t) == {u \in S : <<t, u>> \in E}
           C == {Above(t) : t \in S}
           R == StrictSubsetOrdering(S)
<1>1. IsWellFoundedOn(R, FiniteSubsetsOf(S))
  BY FS_StrictSubsetOrderingWellFounded
<1>2. FiniteSubsetsOf(S) = SUBSET S
  BY FS_FiniteSubsetsOfFinite DEF FiniteSubsetsOf
<1>3. C \subseteq SUBSET S /\ C # {}
  <2>1. \A t \in S : Above(t) \in SUBSET S
    OBVIOUS
  <2>2. \A t \in S : Above(t) \in C
    OBVIOUS
  <2> HIDE DEF Above
  <2> QED
    BY <2>1, <2>2
<1>4. \E A \in C : \A B \in C : <<B, A>> \notin R
  <2>1. IsWellFoundedOn(R, SUBSET S)
    BY <1>1, <1>2
  <2> HIDE DEF C, R
  <2> QED
    BY <2>1, <1>3, WFMin, Zenon
<1>5. PICK t \in S : \A B \in C : <<B, Above(t)>> \notin R
  BY <1>4
<1>6. ASSUME NEW u \in S, <<t, u>> \in E
      PROVE  FALSE
  <2>1. u \in Above(t) /\ u \notin Above(u) /\ Above(u) \subseteq Above(t)
    BY <1>6
  <2>2. <<Above(u), Above(t)>> \in R
    BY <2>1 DEF StrictSubsetOrdering
  <2> QED
    BY <1>5, <2>2
<1> QED
  BY <1>6

\* The order of the rows: purchases, listings, holds, then the wallets by
\* account id, then deposits.
Level(r) ==
  CASE r[1] = "cp_listing"       -> 1
    [] r[1] = "cp_currency_hold" -> 2
    [] r[1] = "cp_currency"      -> 3
    [] r[1] = "credited"         -> IF r[2] \in Purchases THEN 0 ELSE 4

Before(r, s) ==
  \/ Level(r) < Level(s)
  \/ r[1] = "cp_currency" /\ s[1] = "cp_currency" /\ r[2] < s[2]

LEMMA BeforeIsOrder ==
  ASSUME NEW r \in Rows, NEW s \in Rows, NEW q \in Rows
  PROVE  /\ ~Before(r, r)
         /\ Before(r, s) /\ Before(s, q) => Before(r, q)
<1>1. \A p \in Rows :
        /\ Level(p) \in 0..4
        /\ p[1] = "cp_currency" <=> Level(p) = 3
        /\ p[1] = "cp_currency" => p[2] \in Int
  <2>1. \A a \in Accounts : a \in Int
    BY WalletAssumption
  <2> QED
    BY <2>1 DEF Level, Rows, Wallet, Listing, HoldRow, Credited
<1> HIDE DEF Level
<1> QED
  BY <1>1 DEF Before

\* Every transaction locks its rows along that order.
LEMMA LocksUpwards ==
  ASSUME NEW x \in Requests, ~OwnListing(x),
         NEW i \in 1..Len(LockOrder(x)), NEW j \in 1..Len(LockOrder(x)),
         i < j
  PROVE  Before(LockOrder(x)[i], LockOrder(x)[j])
<1> USE DEF Before, Level, Wallet, Listing, HoldRow, Credited
<1>1. CASE x.kind \in {"withdraw", "hold", "burn", "close"}
  BY <1>1, LockOrderShape
<1>2. CASE x.kind = "deposit"
  <2>1. x.id \notin Purchases
    BY <1>2, RequestShape, WalletAssumption
  <2> QED
    BY <1>2, <2>1, LockOrderShape
<1>3. CASE x.kind = "purchase"
  BY <1>3, LockOrderShape, RequestShape
<1>4. CASE x.kind \in {"settle", "release"}
  BY <1>4, LockOrderShape
<1>5. CASE x.kind = "charge"
  <2>1. x.acct \in Int /\ OwnerOf[x.id] \in Int /\ x.acct # OwnerOf[x.id]
    <3> HIDE DEF Before, Level, Wallet, Listing, HoldRow, Credited
    <3>1. x.acct \in Accounts /\ x.id \in Sells
      BY <1>5, RequestShape
    <3>2. OwnerOf[x.id] \in Accounts
      BY <3>1, WalletAssumption DEF Listings
    <3>3. Accounts \subseteq Int
      BY WalletAssumption
    <3>4. x.acct # OwnerOf[x.id]
      BY <1>5 DEF OwnListing
    <3> QED
      BY <3>1, <3>2, <3>3, <3>4
  <2>2. CASE LockOrder(x) = <<Listing(x.id), Wallet(OwnerOf[x.id]), Wallet(x.acct)>>
             /\ OwnerOf[x.id] < x.acct
    BY <2>1, <2>2
  <2>3. CASE LockOrder(x) = <<Listing(x.id), Wallet(x.acct), Wallet(OwnerOf[x.id])>>
             /\ ~(OwnerOf[x.id] < x.acct)
    <3>1. x.acct < OwnerOf[x.id]
      BY <2>1, <2>3
    <3> QED
      BY <2>1, <2>3, <3>1
  <2> QED
    BY <1>5, <2>2, <2>3, LockOrderShape
<1> QED
  BY <1>1, <1>2, <1>3, <1>4, <1>5, RequestShape

\* The row a transaction waits for comes before the one its holder waits for.
LEMMA WaitersClimb ==
  ASSUME Connections, NEW t \in Txs, NEW u \in Txs, WaitsFor(t, u), tx[u] # NoTx, pc[u] < Len(Order(u))
  PROVE  Before(Order(t)[pc[t] + 1], Order(u)[pc[u] + 1])
<1>1. PICK i \in 1..pc[u] : Order(t)[pc[t] + 1] = Order(u)[i]
  BY DEF WaitsFor, Wants, Locked, Order
<1>2. tx[u] \in Requests /\ pc[u] \in Nat /\ ~OwnListing(tx[u])
  BY DEF Connections
<1>3. i \in 1..Len(Order(u)) /\ pc[u] + 1 \in 1..Len(Order(u)) /\ i < pc[u] + 1
  BY <1>2, LockOrderRows DEF Order
<1> QED
  BY <1>1, <1>2, <1>3, LocksUpwards DEF Order

\* No group of transactions waits for each other: accounts that trade with
\* each other at the same time, whoever pays whom, deposits, withdrawals and
\* purchases included, never deadlock on the rows of lockPair and its callers.
THEOREM NeverDeadlocked == Spec => []NoWaitCycle
<1>1. Connections => NoWaitCycle
  <2> SUFFICES ASSUME Connections, NEW S \in SUBSET Txs, S # {},
                      \A t \in S : \E u \in S : WaitsFor(t, u)
               PROVE  FALSE
    BY DEF NoWaitCycle
  <2> DEFINE wants(t) == Order(t)[pc[t] + 1]
             E == {p \in S \X S : Before(wants(p[1]), wants(p[2]))}
  <2>1. \A t \in S : tx[t] \in Requests /\ pc[t] < Len(Order(t)) /\ wants(t) \in Rows
    <3> TAKE t \in S
    <3>1. tx[t] # NoTx /\ pc[t] < Len(Order(t))
      BY DEF WaitsFor, Wants, Order
    <3>2. tx[t] \in Requests /\ pc[t] \in Nat
      BY <3>1 DEF Connections
    <3>3. pc[t] + 1 \in 1..Len(Order(t))
      BY <3>1, <3>2, LockOrderRows DEF Order
    <3> QED
      BY <3>1, <3>2, <3>3, LockOrderRows DEF Order
  <2>2. IsFiniteSet(S)
    BY WalletAssumption, FS_Subset
  <2>3. \A t \in S : <<t, t>> \notin E
    BY <2>1, BeforeIsOrder
  <2>4. \A t, u, v \in S : <<t, u>> \in E /\ <<u, v>> \in E => <<t, v>> \in E
    BY <2>1, BeforeIsOrder
  <2>5. PICK t \in S : \A u \in S : <<t, u>> \notin E
    <3> HIDE DEF E
    <3> QED
      BY <2>2, <2>3, <2>4, FiniteMaximal
  <2>6. PICK u \in S : WaitsFor(t, u)
    OBVIOUS
  <2>7. Before(wants(t), wants(u))
    BY <2>1, <2>6, WaitersClimb, NoTxIsNoRequest
  <2> QED
    BY <2>5, <2>7
<1>2. Init => Connections
  BY InitConnections
<1>3. Connections /\ [Next]_vars => Connections'
  BY ConnectionsStep
<1> QED
  BY <1>1, <1>2, <1>3, PTL DEF Spec

-----------------------------------------------------------------------------
(* What a transaction has read stays what it will overwrite.               *)

\* The rows are there, whatever is in them.
TypeInv ==
  /\ wallet = [a \in Accounts |-> [balance |-> wallet[a].balance, cooling |-> wallet[a].cooling]]
  /\ \A a \in Accounts : wallet[a].cooling \in BOOLEAN
  /\ hold = [o \in Orders |-> hold[o]]
  /\ listing = [l \in Listings |-> [status |-> listing[l].status, left |-> listing[l].left]]
  /\ read = [t \in Txs |-> read[t]]

\* v is what the row r holds.  Only a cooldown may have passed since it was
\* read: time needs no lock.
Current(v, r) ==
  IF r[1] = "cp_currency"
  THEN v.balance = wallet[r[2]].balance /\ (wallet[r[2]].cooling => v.cooling)
  ELSE v = Row(r)

Readings(t) == DOMAIN read[t] = Locked(t) /\ \A r \in Locked(t) : Current(read[t][r], r)
Passed(t)   == \A i \in 1..pc[t] : Passes(tx[t], read[t], i)

\* Nobody else touches an order before it is listed.
Fresh(t) ==
  /\ tx[t].kind \in {"charge", "settle", "release", "close"} => listing[tx[t].id].status # "none"
  /\ tx[t].kind = "hold" =>
       /\ hold[tx[t].id] = 0 /\ listing[tx[t].id].status = "none"
       /\ \A u \in Txs \ {t} : tx[u] # tx[t]

\* A row is locked by one transaction at a time.
Exclusive == \A t, u \in Txs : t # u => Locked(t) \cap Locked(u) = {}

WalletsInv ==
  /\ Connections /\ TypeInv /\ Exclusive
  /\ \A t \in Txs : Readings(t) /\ Passed(t) /\ Fresh(t)

LEMMA DistinctRows ==
  ASSUME NEW x \in Requests, ~OwnListing(x),
         NEW i \in 1..Len(LockOrder(x)), NEW j \in 1..Len(LockOrder(x)), i # j
  PROVE  LockOrder(x)[i] # LockOrder(x)[j]
<1>1. /\ i < j => Before(LockOrder(x)[i], LockOrder(x)[j])
      /\ j < i => Before(LockOrder(x)[j], LockOrder(x)[i])
  BY LocksUpwards
<1>2. \A r \in Rows : ~Before(r, r)
  BY BeforeIsOrder
<1>3. LockOrder(x)[i] \in Rows /\ (i < j \/ j < i)
  BY LockOrderRows
<1> QED
  BY <1>1, <1>2, <1>3, LockOrderRows

\* A condition looks at no row that is not locked yet.
LEMMA PassesLocal ==
  ASSUME NEW x \in Requests, NEW i \in 1..Len(LockOrder(x)), NEW f, NEW g,
         \A j \in 1..i : f[LockOrder(x)[j]] = g[LockOrder(x)[j]], Passes(x, f, i)
  PROVE  Passes(x, g, i)
<1>1. CASE x.kind = "withdraw"
  BY <1>1, LockOrderShape DEF Passes
<1>7. CASE x.kind = "hold"
  BY <1>7, LockOrderShape DEF Passes
<1>8. CASE x.kind = "burn"
  BY <1>8, LockOrderShape DEF Passes
<1>9. CASE x.kind = "close"
  BY <1>9 DEF Passes
<1>2. CASE x.kind = "deposit"
  BY <1>2, LockOrderShape DEF Passes
<1>3. CASE x.kind = "purchase"
  BY <1>3, LockOrderShape DEF Passes
<1>4. CASE x.kind = "settle"
  BY <1>4, LockOrderShape DEF Passes
<1>5. CASE x.kind = "release"
  BY <1>5, LockOrderShape DEF Passes
<1>6. CASE x.kind = "charge"
  BY <1>6, LockOrderShape DEF Passes
<1> QED
  BY <1>1, <1>2, <1>3, <1>4, <1>5, <1>6, <1>7, <1>8, <1>9, RequestShape

\* What Current says of each kind of row, before and after a step.
LEMMA CurrentWallet ==
  ASSUME NEW v, NEW a
  PROVE  /\ Current(v, Wallet(a)) <=>
              v.balance = wallet[a].balance /\ (wallet[a].cooling => v.cooling)
         /\ Current(v, Wallet(a))' <=>
              v.balance = wallet'[a].balance /\ (wallet'[a].cooling => v.cooling)
BY DEF Current, Wallet

LEMMA CurrentMarket ==
  ASSUME NEW v, NEW l
  PROVE  /\ Current(v, Listing(l)) <=> v = listing[l]
         /\ Current(v, Listing(l))' <=> v = listing'[l]
         /\ Current(v, HoldRow(l)) <=> v = hold[l]
         /\ Current(v, HoldRow(l))' <=> v = hold'[l]
BY DEF Current, Row, HoldRow, Listing

LEMMA CurrentCredited ==
  ASSUME NEW v, NEW i
  PROVE  /\ Current(v, Credited(i)) <=> v = (i \in credited)
         /\ Current(v, Credited(i))' <=> v = (i \in credited')
         /\ Current(v, Credited(i)) /\ i \in credited => v = TRUE
<1>1. /\ Current(v, Credited(i)) <=> v = (i \in credited)
      /\ Current(v, Credited(i))' <=> v = (i \in credited')
  BY DEF Current, Row, Credited
<1>2. ASSUME Current(v, Credited(i)), i \in credited
      PROVE  v = TRUE
  <2>1. (i \in credited) = TRUE
    BY <1>2
  <2> QED
    BY <1>1, <1>2, <2>1
<1> QED
  BY <1>1, <1>2

-----------------------------------------------------------------------------
(* A commit is an operation of the ledger.                                 *)

Balance  == [a \in Accounts |-> wallet[a].balance]
Cooling == [a \in Accounts |-> wallet[a].cooling]
UnitsLeft == [l \in Listings |-> IF listing[l].status = "active" THEN listing[l].left ELSE 0]

\* What a commit does to the balances and the cooldowns.
LEMMA CommitWallets ==
  ASSUME WalletsInv, NEW t \in Txs, Commit(t), NEW x, x = tx[t], NEW r, r = read[t]
  PROVE  /\ \A a \in Accounts : Balance'[a] = Balances(x, r)[a]
         /\ \A a \in Accounts : Cooling'[a] = Cooled(x, a)
         /\ hold' = Holds(x, r) /\ listing' = Listed(x, r)
         /\ credited' = IF x.kind \in {"deposit", "purchase"} THEN credited \cup {x.id} ELSE credited
         /\ x # NoTx /\ pc[t] = Len(Order(t))
BY DEF Commit, Balance, Cooling, Order

LEMMA CommitCooling ==
  ASSUME WalletsInv, NEW t \in Txs, Commit(t), NEW x, x = tx[t]
  PROVE  Cooling' = IF x.kind \in {"deposit", "withdraw"} THEN [Cooling EXCEPT ![x.acct] = TRUE] ELSE Cooling
<1>1. \A a \in Accounts : Cooling[a] \in BOOLEAN /\ Cooling[a] = wallet[a].cooling
  BY DEF WalletsInv, TypeInv, Cooling
<1>2. \A a \in Accounts : Cooling'[a] = (Cooling[a] \/ (x.kind \in {"deposit", "withdraw"} /\ a = x.acct))
  BY <1>1, CommitWallets DEF Cooled
<1>3. CASE x.kind \in {"deposit", "withdraw"}
  <2>1. \A a \in Accounts : Cooling'[a] = IF a = x.acct THEN TRUE ELSE Cooling[a]
    BY <1>1, <1>2, <1>3
  <2> QED
    BY <1>3, <2>1 DEF Cooling
<1>4. CASE x.kind \notin {"deposit", "withdraw"}
  <2>1. \A a \in Accounts : Cooling'[a] = Cooling[a]
    BY <1>1, <1>2, <1>4
  <2> QED
    BY <1>4, <2>1 DEF Cooling
<1> QED
  BY <1>3, <1>4

LEMMA CommitRequest ==
  ASSUME WalletsInv, NEW t \in Txs, Commit(t), NEW x, x = tx[t]
  PROVE  x \in Requests /\ ~OwnListing(x)
BY DEF WalletsInv, Connections, Commit

\* Every condition was true.
LEMMA CommitPasses ==
  ASSUME WalletsInv, NEW t \in Txs, Commit(t), NEW x, x = tx[t], NEW r, r = read[t],
         NEW i \in 1..Len(LockOrder(x))
  PROVE  Passes(x, r, i)
BY DEF WalletsInv, Commit, Passed

\* Every reading is still current.
LEMMA CommitCurrent ==
  ASSUME WalletsInv, NEW t \in Txs, Commit(t), NEW x, x = tx[t], NEW r, r = read[t],
         NEW i \in 1..Len(LockOrder(x))
  PROVE  /\ LockOrder(x)[i] \in Locked(t)
         /\ Current(r[LockOrder(x)[i]], LockOrder(x)[i])
BY DEF WalletsInv, Commit, Readings, Locked

LEMMA CommitReadsWallet ==
  ASSUME WalletsInv, NEW t \in Txs, Commit(t), NEW x, x = tx[t], NEW r, r = read[t],
         x.kind # "close"
  PROVE  /\ Wallet(x.acct) \in Locked(t)
         /\ r[Wallet(x.acct)].balance = wallet[x.acct].balance
         /\ wallet[x.acct].cooling => r[Wallet(x.acct)].cooling
<1>1. \E i \in 1..Len(LockOrder(x)) : LockOrder(x)[i] = Wallet(x.acct)
  <2>1. x \in Requests
    BY CommitRequest
  <2>2. CASE x.kind \in {"withdraw", "hold", "burn"}
    BY <2>1, <2>2, LockOrderShape
  <2>3. CASE x.kind \in {"deposit", "purchase"}
    BY <2>1, <2>3, LockOrderShape
  <2>4. CASE x.kind \in {"settle", "release"}
    BY <2>1, <2>4, LockOrderShape
  <2>5. CASE x.kind = "charge"
    BY <2>1, <2>5, LockOrderShape
  <2> QED
    BY <2>1, <2>2, <2>3, <2>4, <2>5, RequestShape
<1>2. Wallet(x.acct) \in Locked(t) /\ Current(r[Wallet(x.acct)], Wallet(x.acct))
  BY <1>1, CommitCurrent
<1> QED
  BY <1>2, CurrentWallet

LEMMA CommitReadsTheirs ==
  ASSUME WalletsInv, NEW t \in Txs, Commit(t), NEW x, x = tx[t], NEW r, r = read[t],
         x.kind = "charge"
  PROVE  /\ Wallet(OwnerOf[x.id]) \in Locked(t)
         /\ r[Wallet(OwnerOf[x.id])].balance = wallet[OwnerOf[x.id]].balance
<1>1. \E i \in 1..Len(LockOrder(x)) : LockOrder(x)[i] = Wallet(OwnerOf[x.id])
  BY CommitRequest, LockOrderShape
<1>2. /\ Wallet(OwnerOf[x.id]) \in Locked(t)
      /\ Current(r[Wallet(OwnerOf[x.id])], Wallet(OwnerOf[x.id]))
  BY <1>1, CommitCurrent
<1> QED
  BY <1>2, CurrentWallet

LEMMA CommitReadsListing ==
  ASSUME WalletsInv, NEW t \in Txs, Commit(t), NEW x, x = tx[t], NEW r, r = read[t],
         x.kind \in {"charge", "settle", "release", "close"}
  PROVE  Listing(x.id) \in Locked(t) /\ r[Listing(x.id)] = listing[x.id]
<1>1. 1 \in 1..Len(LockOrder(x)) /\ LockOrder(x)[1] = Listing(x.id)
  BY CommitRequest, LockOrderShape
<1>2. Listing(x.id) \in Locked(t) /\ Current(r[Listing(x.id)], Listing(x.id))
  BY <1>1, CommitCurrent
<1> QED
  BY <1>2, CurrentMarket

LEMMA CommitReadsHold ==
  ASSUME WalletsInv, NEW t \in Txs, Commit(t), NEW x, x = tx[t], NEW r, r = read[t],
         x.kind \in {"settle", "release"}
  PROVE  HoldRow(x.id) \in Locked(t) /\ r[HoldRow(x.id)] = hold[x.id]
<1>1. 2 \in 1..Len(LockOrder(x)) /\ LockOrder(x)[2] = HoldRow(x.id)
  BY CommitRequest, LockOrderShape
<1>2. HoldRow(x.id) \in Locked(t) /\ Current(r[HoldRow(x.id)], HoldRow(x.id))
  BY <1>1, CommitCurrent
<1> QED
  BY <1>2, CurrentMarket

LEMMA CommitReadsCredited ==
  ASSUME WalletsInv, NEW t \in Txs, Commit(t), NEW x, x = tx[t], NEW r, r = read[t],
         x.kind \in {"deposit", "purchase"}
  PROVE  /\ Credited(x.id) \in Locked(t)
         /\ x.id \in credited => r[Credited(x.id)] = TRUE
<1>1. \E i \in 1..Len(LockOrder(x)) : LockOrder(x)[i] = Credited(x.id)
  BY CommitRequest, LockOrderShape
<1>2. Credited(x.id) \in Locked(t) /\ Current(r[Credited(x.id)], Credited(x.id))
  BY <1>1, CommitCurrent
<1> QED
  BY <1>2, CurrentCredited

LEMMA DepositLedger ==
  ASSUME WalletsInv, NEW t \in Txs, Commit(t), NEW x, x = tx[t], x.kind = "deposit", NEW r, r = read[t]
  PROVE  Abstract!Deposit(x.id)
<1>1. x \in Requests /\ x.id \in Deposits /\ x.acct = OwnerOf[x.id] /\ x.acct \in Accounts
  BY CommitRequest, RequestShape
<1>2. /\ r[Wallet(x.acct)].balance = wallet[x.acct].balance
      /\ wallet[x.acct].cooling => r[Wallet(x.acct)].cooling
  BY CommitReadsWallet
<1>3. Passes(x, r, 1) /\ Passes(x, r, 2)
  <2>1. Len(LockOrder(x)) = 2
    BY <1>1, LockCount
  <2>2. \A i \in 1..Len(LockOrder(x)) : Passes(x, r, i)
    BY CommitPasses
  <2> QED
    BY <2>1, <2>2
<1>4. x.id \notin credited /\ ~wallet[x.acct].cooling
  <2>1. ~r[Wallet(x.acct)].cooling
    BY <1>3 DEF Passes
  <2>2. ~r[Credited(x.id)]
    BY <1>3 DEF Passes
  <2>3. x.id \notin credited
    BY <2>2, CommitReadsCredited
  <2> QED
    BY <1>2, <2>1, <2>3
<1>5. Balances(x, r) = [Balance EXCEPT ![x.acct] = Capped(Balance[x.acct] + Amount)]
  BY <1>1, <1>2 DEF Balances, Balance
<1>6. Balance' = [Balance EXCEPT ![x.acct] = Capped(@ + Amount)]
  BY <1>5, CommitWallets DEF Balance
<1>7. Cooling' = [Cooling EXCEPT ![x.acct] = TRUE]
  BY <1>1, CommitCooling
<1>8. UNCHANGED <<hold, UnitsLeft>> /\ credited' = credited \cup {x.id}
  BY CommitWallets DEF Holds, Listed, UnitsLeft
<1> QED
  BY <1>1, <1>4, <1>6, <1>7, <1>8
  DEF Abstract!Deposit, Balance, Cooling, UnitsLeft, Capped, Abstract!Capped, Listings, Abstract!Listings

LEMMA WithdrawLedger ==
  ASSUME WalletsInv, NEW t \in Txs, Commit(t), NEW x, x = tx[t], x.kind = "withdraw", NEW r, r = read[t]
  PROVE  Abstract!Withdraw(x.acct)
<1>1. x \in Requests /\ x.acct \in Accounts
  BY CommitRequest, RequestShape
<1>2. /\ r[Wallet(x.acct)].balance = wallet[x.acct].balance
      /\ wallet[x.acct].cooling => r[Wallet(x.acct)].cooling
  BY CommitReadsWallet
<1>3. ~r[Wallet(x.acct)].cooling /\ Amount <= r[Wallet(x.acct)].balance
  <2>1. Len(LockOrder(x)) = 1
    BY <1>1, LockCount
  <2>2. \A i \in 1..Len(LockOrder(x)) : Passes(x, r, i)
    BY CommitPasses
  <2>3. Passes(x, r, 1)
    BY <2>1, <2>2
  <2> QED
    BY <2>3 DEF Passes
<1>4. ~wallet[x.acct].cooling /\ Amount <= wallet[x.acct].balance
  BY <1>2, <1>3
<1>5. Balances(x, r) = [Balance EXCEPT ![x.acct] = @ - Amount]
  BY <1>1, <1>2 DEF Balances, Balance
<1>6. Balance' = [Balance EXCEPT ![x.acct] = @ - Amount]
  BY <1>5, CommitWallets DEF Balance
<1>7. Cooling' = [Cooling EXCEPT ![x.acct] = TRUE]
  BY <1>1, CommitCooling
<1>8. UNCHANGED <<hold, UnitsLeft, credited>>
  BY CommitWallets DEF Holds, Listed, UnitsLeft
<1> QED
  BY <1>1, <1>4, <1>6, <1>7, <1>8
  DEF Abstract!Withdraw, Balance, Cooling, UnitsLeft, Listings, Abstract!Listings

LEMMA PurchaseLedger ==
  ASSUME WalletsInv, NEW t \in Txs, Commit(t), NEW x, x = tx[t], x.kind = "purchase", NEW r, r = read[t]
  PROVE  Abstract!Purchase(x.id)
<1>1. x \in Requests /\ x.id \in Purchases /\ x.acct = OwnerOf[x.id] /\ x.acct \in Accounts
  BY CommitRequest, RequestShape
<1>2. r[Wallet(x.acct)].balance = wallet[x.acct].balance
  BY CommitReadsWallet
<1>3. Passes(x, r, 1) /\ Passes(x, r, 2)
  <2>1. Len(LockOrder(x)) = 2
    BY <1>1, LockCount
  <2>2. \A i \in 1..Len(LockOrder(x)) : Passes(x, r, i)
    BY CommitPasses
  <2> QED
    BY <2>1, <2>2
<1>4. x.id \notin credited
  <2>1. ~r[Credited(x.id)]
    BY <1>3 DEF Passes
  <2> QED
    BY <2>1, CommitReadsCredited
<1>5. wallet[x.acct].balance + Amount <= MaxBalance
  BY <1>2, <1>3 DEF Passes, Fits
<1>6. Balances(x, r) = [Balance EXCEPT ![x.acct] = @ + Amount]
  BY <1>1 DEF Balances, Balance
<1>7. Balance' = [Balance EXCEPT ![x.acct] = @ + Amount]
  BY <1>6, CommitWallets DEF Balance
<1>8. Cooling' = Cooling
  BY <1>1, CommitCooling
<1>9. UNCHANGED <<hold, UnitsLeft>> /\ credited' = credited \cup {x.id}
  BY CommitWallets DEF Holds, Listed, UnitsLeft
<1> QED
  BY <1>1, <1>4, <1>5, <1>7, <1>8, <1>9
  DEF Abstract!Purchase, Balance, Cooling, UnitsLeft, Listings, Abstract!Listings

LEMMA HoldLedger ==
  ASSUME WalletsInv, NEW t \in Txs, Commit(t), NEW x, x = tx[t], x.kind = "hold", NEW r, r = read[t]
  PROVE  Abstract!Hold(x.id)
<1>1. x \in Requests /\ x.id \in Orders /\ x.acct = OwnerOf[x.id] /\ x.acct \in Accounts
  BY CommitRequest, RequestShape
<1>2. r[Wallet(x.acct)].balance = wallet[x.acct].balance
  BY CommitReadsWallet
<1>3. Passes(x, r, 1)
  <2>1. Len(LockOrder(x)) = 1
    BY <1>1, LockCount
  <2>2. \A i \in 1..Len(LockOrder(x)) : Passes(x, r, i)
    BY CommitPasses
  <2> QED
    BY <2>1, <2>2
<1>4. Cost <= wallet[x.acct].balance
  BY <1>2, <1>3 DEF Passes
<1>5. hold[x.id] = 0
  BY DEF WalletsInv, Fresh
<1>6. Balances(x, r) = [Balance EXCEPT ![x.acct] = @ - Cost]
  BY <1>1 DEF Balances, Balance
<1>7. Balance' = [Balance EXCEPT ![x.acct] = @ - Cost]
  BY <1>6, CommitWallets DEF Balance
<1>8. Cooling' = Cooling
  BY <1>1, CommitCooling
<1>9. UNCHANGED <<UnitsLeft, credited>> /\ hold' = [hold EXCEPT ![x.id] = Cost]
  BY CommitWallets DEF Holds, Listed, UnitsLeft
<1> QED
  BY <1>1, <1>4, <1>5, <1>7, <1>8, <1>9
  DEF Abstract!Hold, Balance, Cooling, UnitsLeft, Listings, Abstract!Listings, Cost, Abstract!Cost

LEMMA BurnLedger ==
  ASSUME WalletsInv, NEW t \in Txs, Commit(t), NEW x, x = tx[t], x.kind = "burn", NEW r, r = read[t]
  PROVE  Abstract!Burn(x.acct)
<1>1. x \in Requests /\ x.acct \in Accounts
  BY CommitRequest, RequestShape
<1>2. r[Wallet(x.acct)].balance = wallet[x.acct].balance
  BY CommitReadsWallet
<1>3. Passes(x, r, 1)
  <2>1. Len(LockOrder(x)) = 1
    BY <1>1, LockCount
  <2>2. \A i \in 1..Len(LockOrder(x)) : Passes(x, r, i)
    BY CommitPasses
  <2> QED
    BY <2>1, <2>2
<1>4. FlatFee <= wallet[x.acct].balance
  BY <1>2, <1>3 DEF Passes
<1>5. Balances(x, r) = [Balance EXCEPT ![x.acct] = @ - FlatFee]
  BY <1>1 DEF Balances, Balance
<1>6. Balance' = [Balance EXCEPT ![x.acct] = @ - FlatFee]
  BY <1>5, CommitWallets DEF Balance
<1>7. Cooling' = Cooling
  BY <1>1, CommitCooling
<1>8. UNCHANGED <<hold, UnitsLeft, credited>>
  BY CommitWallets DEF Holds, Listed, UnitsLeft
<1> QED
  BY <1>1, <1>4, <1>6, <1>7, <1>8
  DEF Abstract!Burn, Balance, Cooling, UnitsLeft, Listings, Abstract!Listings

\* What a take does to the units of a listing.
LEMMA TakenUnits ==
  ASSUME WalletsInv, NEW t \in Txs, Commit(t), NEW x, x = tx[t], NEW r, r = read[t],
         x.kind \in {"charge", "settle"}, Takeable(listing[x.id], x.n)
  PROVE  /\ UnitsLeft[x.id] = listing[x.id].left
         /\ UnitsLeft' = [UnitsLeft EXCEPT ![x.id] = @ - x.n]
<1> DEFINE rest == listing[x.id].left - x.n
<1>1. x.id \in Listings
  BY CommitRequest, RequestShape DEF Listings
<1>2. /\ listing = [l \in Listings |-> listing[l]]
      /\ \A l \in Listings : listing[l] = [status |-> listing[l].status, left |-> listing[l].left]
  BY DEF WalletsInv, TypeInv
<1>3. r[Listing(x.id)] = listing[x.id]
  BY CommitReadsListing
<1>4. listing' = [listing EXCEPT ![x.id] =
                    [status |-> IF rest = 0 THEN "taken" ELSE "active", left |-> rest]]
  <2>1. listing' = Listed(x, r)
    BY CommitWallets
  <2> QED
    BY <1>3, <2>1 DEF Listed
<1>5. UnitsLeft[x.id] = listing[x.id].left
  BY <1>1 DEF UnitsLeft, Takeable
<1>6. \A l \in Listings : UnitsLeft'[l] = IF l = x.id THEN rest ELSE UnitsLeft[l]
  BY <1>1, <1>2, <1>4 DEF UnitsLeft
<1> QED
  BY <1>1, <1>5, <1>6 DEF UnitsLeft

LEMMA ClosedUnits ==
  ASSUME WalletsInv, NEW t \in Txs, Commit(t), NEW x, x = tx[t], NEW r, r = read[t],
         x.kind \in {"release", "close"}
  PROVE  UnitsLeft' = [UnitsLeft EXCEPT ![x.id] = 0]
<1>1. x.id \in Listings
  BY CommitRequest, RequestShape DEF Listings
<1>2. /\ listing = [l \in Listings |-> listing[l]]
      /\ \A l \in Listings : listing[l] = [status |-> listing[l].status, left |-> listing[l].left]
  BY DEF WalletsInv, TypeInv
<1>3. listing' = [listing EXCEPT ![x.id].status = "closed"]
  BY CommitWallets DEF Listed
<1>4. \A l \in Listings : UnitsLeft'[l] = IF l = x.id THEN 0 ELSE UnitsLeft[l]
  BY <1>1, <1>2, <1>3 DEF UnitsLeft
<1> QED
  BY <1>1, <1>4 DEF UnitsLeft

LEMMA CloseLedger ==
  ASSUME WalletsInv, NEW t \in Txs, Commit(t), NEW x, x = tx[t], x.kind = "close", NEW r, r = read[t]
  PROVE  Abstract!Close(x.id) /\ x.id \in Listings
<1>1. x \in Requests /\ x.id \in Sells
  BY CommitRequest, RequestShape
<1>2. Balance' = Balance
  <2>1. Balances(x, r) = Balance
    BY DEF Balances, Balance
  <2> QED
    BY <2>1, CommitWallets DEF Balance
<1>3. Cooling' = Cooling
  BY <1>1, CommitCooling
<1>4. UNCHANGED <<hold, credited>> /\ UnitsLeft' = [UnitsLeft EXCEPT ![x.id] = 0]
  BY CommitWallets, ClosedUnits DEF Holds
<1> QED
  BY <1>1, <1>2, <1>3, <1>4
  DEF Abstract!Close, Balance, Cooling, UnitsLeft, Listings, Abstract!Listings

LEMMA ReleaseLedger ==
  ASSUME WalletsInv, NEW t \in Txs, Commit(t), NEW x, x = tx[t], x.kind = "release", NEW r, r = read[t]
  PROVE  Abstract!Close(x.id) /\ x.id \in Listings
<1>1. x \in Requests /\ x.id \in Orders /\ x.acct = OwnerOf[x.id] /\ x.acct \in Accounts
  BY CommitRequest, RequestShape
<1>2. r[Wallet(x.acct)].balance = wallet[x.acct].balance /\ r[HoldRow(x.id)] = hold[x.id]
  BY CommitReadsWallet, CommitReadsHold
<1>3. Passes(x, r, 2) /\ Passes(x, r, 3)
  <2>1. Len(LockOrder(x)) = 3
    BY <1>1, LockCount
  <2>2. \A i \in 1..Len(LockOrder(x)) : Passes(x, r, i)
    BY CommitPasses
  <2> QED
    BY <2>1, <2>2
<1>4. hold[x.id] > 0 /\ wallet[x.acct].balance + hold[x.id] <= MaxBalance
  BY <1>2, <1>3 DEF Passes, Fits
<1>5. Balances(x, r) = [Balance EXCEPT ![x.acct] = @ + hold[x.id]]
  BY <1>1, <1>2 DEF Balances, Balance
<1>6. Balance' = [Balance EXCEPT ![x.acct] = @ + hold[x.id]]
  BY <1>5, CommitWallets DEF Balance
<1>7. Cooling' = Cooling
  BY <1>1, CommitCooling
<1>8. /\ UNCHANGED credited /\ hold' = [hold EXCEPT ![x.id] = 0]
      /\ UnitsLeft' = [UnitsLeft EXCEPT ![x.id] = 0]
  BY CommitWallets, ClosedUnits DEF Holds
<1> QED
  BY <1>1, <1>4, <1>6, <1>7, <1>8
  DEF Abstract!Close, Balance, Cooling, UnitsLeft, Listings, Abstract!Listings

LEMMA SettleLedger ==
  ASSUME WalletsInv, NEW t \in Txs, Commit(t), NEW x, x = tx[t], x.kind = "settle", NEW r, r = read[t]
  PROVE  /\ Abstract!Settle(x.id, x.acct, x.n)
         /\ x.id \in Orders /\ x.acct \in Accounts /\ x.n \in 1..Quantity
<1>1. x \in Requests /\ x.id \in Orders /\ x.acct \in Accounts /\ x.n \in 1..Quantity
  BY CommitRequest, RequestShape
<1>2. /\ r[Wallet(x.acct)].balance = wallet[x.acct].balance
      /\ r[HoldRow(x.id)] = hold[x.id] /\ r[Listing(x.id)] = listing[x.id]
  BY CommitReadsWallet, CommitReadsHold, CommitReadsListing
<1>3. Passes(x, r, 1) /\ Passes(x, r, 2) /\ Passes(x, r, 3)
  <2>1. Len(LockOrder(x)) = 3
    BY <1>1, LockCount
  <2>2. \A i \in 1..Len(LockOrder(x)) : Passes(x, r, i)
    BY CommitPasses
  <2> QED
    BY <2>1, <2>2
<1>4. Takeable(listing[x.id], x.n)
  BY <1>2, <1>3 DEF Passes
<1>5. Gross(x) <= hold[x.id]
  BY <1>2, <1>3 DEF Passes
<1>6. wallet[x.acct].balance + Net(Gross(x)) <= MaxBalance
  BY <1>2, <1>3 DEF Passes, Fits
<1>7. x.acct # OwnerOf[x.id]
  BY CommitRequest DEF OwnListing
<1>8. Balances(x, r) = [Balance EXCEPT ![x.acct] = @ + Net(Gross(x))]
  BY <1>1, <1>2 DEF Balances, Balance
<1>9. Balance' = [Balance EXCEPT ![x.acct] = @ + Net(Gross(x))]
  BY <1>8, CommitWallets DEF Balance
<1>10. Cooling' = Cooling
  BY <1>1, CommitCooling
<1>11. UNCHANGED credited /\ hold' = [hold EXCEPT ![x.id] = @ - Gross(x)]
  BY <1>2, CommitWallets DEF Holds
<1>12. UnitsLeft[x.id] = listing[x.id].left /\ UnitsLeft' = [UnitsLeft EXCEPT ![x.id] = @ - x.n]
  BY <1>4, TakenUnits
<1>13. x.n <= UnitsLeft[x.id]
  BY <1>4, <1>12 DEF Takeable
<1>14. Abstract!Net(Gross(x)) = Net(Gross(x)) /\ Gross(x) = Price * x.n
  BY DEF Net, Abstract!Net, Gross
<1> QED
  BY <1>1, <1>5, <1>6, <1>7, <1>9, <1>10, <1>11, <1>12, <1>13, <1>14
  DEF Abstract!Settle, Balance, Cooling, UnitsLeft, Listings, Abstract!Listings

LEMMA ChargeLedger ==
  ASSUME WalletsInv, NEW t \in Txs, Commit(t), NEW x, x = tx[t], x.kind = "charge", NEW r, r = read[t]
  PROVE  /\ Abstract!Charge(x.id, x.acct, x.n)
         /\ x.id \in Sells /\ x.acct \in Accounts /\ x.n \in 1..Quantity
<1> DEFINE seller == OwnerOf[x.id]
<1>1. x \in Requests /\ x.id \in Sells /\ x.acct \in Accounts /\ x.n \in 1..Quantity
  BY CommitRequest, RequestShape
<1>2. /\ r[Wallet(x.acct)].balance = wallet[x.acct].balance
      /\ r[Wallet(seller)].balance = wallet[seller].balance /\ r[Listing(x.id)] = listing[x.id]
  BY CommitReadsWallet, CommitReadsTheirs, CommitReadsListing
<1>3. Passes(x, r, 1) /\ Passes(x, r, 3)
  <2>1. Len(LockOrder(x)) = 3
    BY <1>1, LockCount
  <2>2. \A i \in 1..Len(LockOrder(x)) : Passes(x, r, i)
    BY CommitPasses
  <2> QED
    BY <2>1, <2>2
<1>4. Takeable(listing[x.id], x.n)
  BY <1>2, <1>3 DEF Passes
<1>5. Gross(x) <= wallet[x.acct].balance /\ wallet[seller].balance + Net(Gross(x)) <= MaxBalance
  BY <1>2, <1>3 DEF Passes, Fits
<1>6. x.acct # seller
  BY CommitRequest DEF OwnListing
<1>7. seller \in Accounts
  BY <1>1, WalletAssumption DEF Listings
<1>8. Balances(x, r) = [Balance EXCEPT ![x.acct] = @ - Gross(x), ![seller] = @ + Net(Gross(x))]
  BY <1>1, <1>2, <1>6, <1>7 DEF Balances, Balance
<1>9. Balance' = [Balance EXCEPT ![x.acct] = @ - Gross(x), ![seller] = @ + Net(Gross(x))]
  BY <1>8, CommitWallets DEF Balance
<1>10. Cooling' = Cooling
  BY <1>1, CommitCooling
<1>11. UNCHANGED <<hold, credited>>
  BY CommitWallets DEF Holds
<1>12. UnitsLeft[x.id] = listing[x.id].left /\ UnitsLeft' = [UnitsLeft EXCEPT ![x.id] = @ - x.n]
  BY <1>4, TakenUnits
<1>13. x.n <= UnitsLeft[x.id]
  BY <1>4, <1>12 DEF Takeable
<1>14. Abstract!Net(Gross(x)) = Net(Gross(x)) /\ Gross(x) = Price * x.n
  BY DEF Net, Abstract!Net, Gross
<1> QED
  BY <1>1, <1>5, <1>6, <1>7, <1>9, <1>10, <1>11, <1>12, <1>13, <1>14
  DEF Abstract!Charge, Balance, Cooling, UnitsLeft, Listings, Abstract!Listings

\* A commit is an operation of the ledger.
LEMMA CommitLedger ==
  ASSUME WalletsInv, NEW t \in Txs, Commit(t)
  PROVE  Abstract!Next
<1> DEFINE x == tx[t]
<1>1. x \in Requests
  BY CommitRequest
<1> USE DEF Abstract!Next, Abstract!Listings, Listings
<1>2. CASE x.kind = "deposit"
  BY <1>1, <1>2, DepositLedger, RequestShape
<1>3. CASE x.kind = "purchase"
  BY <1>1, <1>3, PurchaseLedger, RequestShape
<1>4. CASE x.kind = "hold"
  BY <1>1, <1>4, HoldLedger, RequestShape
<1>5. CASE x.kind = "withdraw"
  BY <1>1, <1>5, WithdrawLedger, RequestShape
<1>6. CASE x.kind = "burn"
  BY <1>1, <1>6, BurnLedger, RequestShape
<1>7. CASE x.kind = "close"
  BY <1>7, CloseLedger
<1>8. CASE x.kind = "release"
  BY <1>8, ReleaseLedger
<1>9. CASE x.kind = "settle"
  BY <1>9, SettleLedger
<1>10. CASE x.kind = "charge"
  BY <1>10, ChargeLedger
<1> QED
  BY <1>1, <1>2, <1>3, <1>4, <1>5, <1>6, <1>7, <1>8, <1>9, <1>10, RequestShape

-----------------------------------------------------------------------------
(* A commit leaves every row alone that it has not locked, but for the hold *)
(* it inserts.                                                             *)

LEMMA UntouchedWallet ==
  ASSUME WalletsInv, NEW t \in Txs, Commit(t), NEW a \in Accounts, Wallet(a) \notin Locked(t)
  PROVE  wallet'[a].balance = wallet[a].balance /\ wallet'[a].cooling = wallet[a].cooling
<1> DEFINE x == tx[t]
           r == read[t]
<1>1. x \in Requests /\ x.acct \in Accounts
  BY CommitRequest, RequestShape
<1>2. x.kind # "close" => a # x.acct
  BY CommitReadsWallet
<1>3. x.kind = "charge" => a # OwnerOf[x.id]
  BY CommitReadsTheirs
<1>4. Balances(x, r)[a] = wallet[a].balance
  <2> HIDE DEF x, r
  <2> USE DEF Balances
  <2>1. CASE x.kind \in {"deposit", "withdraw", "purchase"}
    BY <1>2, <2>1
  <2>2. CASE x.kind \in {"hold", "burn", "close"}
    BY <1>2, <2>2
  <2>3. CASE x.kind \in {"settle", "release"}
    BY <1>2, <2>3
  <2>4. CASE x.kind = "charge"
    BY <1>2, <1>3, <2>4
  <2> QED
    BY <1>1, <2>1, <2>2, <2>3, <2>4, RequestShape
<1>5. Cooling'[a] = Cooling[a]
  <2>1. Cooling' = IF x.kind \in {"deposit", "withdraw"} THEN [Cooling EXCEPT ![x.acct] = TRUE] ELSE Cooling
    BY CommitCooling
  <2> HIDE DEF x
  <2>2. CASE x.kind \in {"deposit", "withdraw"}
    BY <1>2, <2>1, <2>2 DEF Cooling
  <2>3. CASE x.kind \notin {"deposit", "withdraw"}
    BY <2>1, <2>3
  <2> QED
    BY <2>2, <2>3
<1> QED
  BY <1>4, <1>5, CommitWallets DEF Balance, Cooling

LEMMA UntouchedHold ==
  ASSUME WalletsInv, NEW t \in Txs, Commit(t), NEW o \in Orders, HoldRow(o) \notin Locked(t),
         tx[t].kind = "hold" => tx[t].id # o
  PROVE  hold'[o] = hold[o]
<1> DEFINE x == tx[t]
           r == read[t]
<1>1. x.kind \in {"settle", "release"} => o # x.id
  BY CommitReadsHold
<1>2. hold' = Holds(x, r)
  BY CommitWallets
<1> QED
  BY <1>1, <1>2 DEF Holds

LEMMA UntouchedListing ==
  ASSUME WalletsInv, NEW t \in Txs, Commit(t), NEW l \in Listings, Listing(l) \notin Locked(t)
  PROVE  listing'[l] = listing[l]
<1> DEFINE x == tx[t]
           r == read[t]
<1>1. x.kind \in {"charge", "settle", "release", "close"} => l # x.id
  BY CommitReadsListing
<1>2. listing' = Listed(x, r)
  BY CommitWallets
<1> QED
  BY <1>1, <1>2 DEF Listed

LEMMA UntouchedCredited ==
  ASSUME WalletsInv, NEW t \in Txs, Commit(t), NEW i, Credited(i) \notin Locked(t)
  PROVE  (i \in credited') = (i \in credited)
<1> DEFINE x == tx[t]
<1>1. x.kind \in {"deposit", "purchase"} => i # x.id
  BY CommitReadsCredited
<1>2. credited' = IF x.kind \in {"deposit", "purchase"} THEN credited \cup {x.id} ELSE credited
  BY CommitWallets
<1> QED
  BY <1>1, <1>2

\* A listing that is there stays there.
LEMMA CommitStatus ==
  ASSUME WalletsInv, NEW t \in Txs, Commit(t), NEW l \in Listings, listing[l].status # "none"
  PROVE  listing'[l].status # "none"
<1> DEFINE x == tx[t]
           r == read[t]
<1>1. listing' = Listed(x, r)
  BY CommitWallets
<1>2. listing = [m \in Listings |-> listing[m]]
      /\ listing[l] = [status |-> listing[l].status, left |-> listing[l].left]
  BY DEF WalletsInv, TypeInv
<1> QED
  BY <1>1, <1>2 DEF Listed

LEMMA SameHold ==
  ASSUME NEW x \in Requests, NEW y \in Requests,
         x.kind = "hold", y.kind = "hold", x.id = y.id
  PROVE  x = y
BY DEF Requests, Tx

\* Only the transactions that move its money lock the hold of an order.
LEMMA HoldLocker ==
  ASSUME WalletsInv, NEW u \in Txs, NEW o, HoldRow(o) \in Locked(u)
  PROVE  tx[u].kind \in {"settle", "release"} /\ tx[u].id = o
<1> DEFINE x == tx[u]
<1>1. PICK i \in 1..pc[u] : LockOrder(x)[i] = HoldRow(o)
  BY DEF Locked
<1>2. pc[u] \in Nat /\ pc[u] <= Len(LockOrder(x)) /\ x \in Requests \cup {NoTx}
  BY DEF WalletsInv, Connections, Order
<1>3. x \in Requests
  BY <1>1, <1>2, NoTxOrder
<1>4. i \in 1..Len(LockOrder(x))
  BY <1>1, <1>2, <1>3, LockOrderRows
<1> HIDE DEF x
<1> USE DEF HoldRow, Wallet, Listing, Credited
<1>5. CASE x.kind \in {"withdraw", "hold", "burn"}
  BY <1>1, <1>3, <1>4, <1>5, LockOrderShape
<1>6. CASE x.kind \in {"deposit", "purchase"}
  BY <1>1, <1>3, <1>4, <1>6, LockOrderShape
<1>7. CASE x.kind \in {"settle", "release"}
  BY <1>1, <1>3, <1>4, <1>7, LockOrderShape DEF x
<1>8. CASE x.kind = "close"
  BY <1>1, <1>3, <1>4, <1>8, LockOrderShape
<1>9. CASE x.kind = "charge"
  <2>1. \/ LockOrder(x) = <<Listing(x.id), Wallet(OwnerOf[x.id]), Wallet(x.acct)>>
        \/ LockOrder(x) = <<Listing(x.id), Wallet(x.acct), Wallet(OwnerOf[x.id])>>
    BY <1>3, <1>9, LockOrderShape
  <2>2. i \in 1..3 /\ LockOrder(x)[i] \in
          {Listing(x.id), Wallet(OwnerOf[x.id]), Wallet(x.acct)}
    <3> HIDE DEF HoldRow, Wallet, Listing, Credited
    <3> QED
      BY <1>4, <2>1
  <2> QED
    BY <1>1, <2>2
<1> QED
  BY <1>3, <1>5, <1>6, <1>7, <1>8, <1>9, RequestShape

\* Only the transactions of a listing lock it.
LEMMA ListingLocker ==
  ASSUME WalletsInv, NEW u \in Txs, NEW o, Listing(o) \in Locked(u)
  PROVE  tx[u].kind \in {"charge", "settle", "release", "close"} /\ tx[u].id = o
<1> DEFINE x == tx[u]
<1>1. PICK i \in 1..pc[u] : LockOrder(x)[i] = Listing(o)
  BY DEF Locked
<1>2. pc[u] \in Nat /\ pc[u] <= Len(LockOrder(x)) /\ x \in Requests \cup {NoTx}
  BY DEF WalletsInv, Connections, Order
<1>3. x \in Requests
  BY <1>1, <1>2, NoTxOrder
<1>4. i \in 1..Len(LockOrder(x))
  BY <1>1, <1>2, <1>3, LockOrderRows
<1> HIDE DEF x
<1> USE DEF HoldRow, Wallet, Listing, Credited
<1>5. CASE x.kind \in {"withdraw", "hold", "burn"}
  BY <1>1, <1>3, <1>4, <1>5, LockOrderShape
<1>6. CASE x.kind \in {"deposit", "purchase"}
  BY <1>1, <1>3, <1>4, <1>6, LockOrderShape
<1>7. CASE x.kind \in {"settle", "release"}
  BY <1>1, <1>3, <1>4, <1>7, LockOrderShape DEF x
<1>8. CASE x.kind = "close"
  BY <1>1, <1>3, <1>4, <1>8, LockOrderShape DEF x
<1>9. CASE x.kind = "charge"
  <2>1. \/ LockOrder(x) = <<Listing(x.id), Wallet(OwnerOf[x.id]), Wallet(x.acct)>>
        \/ LockOrder(x) = <<Listing(x.id), Wallet(x.acct), Wallet(OwnerOf[x.id])>>
    BY <1>3, <1>9, LockOrderShape
  <2>2. LockOrder(x)[i] \in {Listing(x.id), Wallet(OwnerOf[x.id]), Wallet(x.acct)}
    <3> HIDE DEF HoldRow, Wallet, Listing, Credited
    <3> QED
      BY <1>4, <2>1
  <2> QED
    BY <1>1, <1>9, <2>2 DEF x
<1> QED
  BY <1>3, <1>5, <1>6, <1>7, <1>8, <1>9, RequestShape

\* What a transaction has read is current after the commit of another.
LEMMA CommitKeepsReadings ==
  ASSUME WalletsInv, NEW t \in Txs, Commit(t), NEW u \in Txs, u # t, NEW r \in Locked(u),
         NEW v, v = read[u][r]
  PROVE  Current(v, r)'
<1>1. r \notin Locked(t)
  BY DEF WalletsInv, Exclusive
<1>2. Current(v, r)
  BY DEF WalletsInv, Readings
<1>3. r \in Rows
  BY LockedRows DEF WalletsInv
<1>4. ASSUME NEW a \in Accounts, r = Wallet(a)
      PROVE  Current(v, r)'
  BY <1>1, <1>2, <1>4, UntouchedWallet, CurrentWallet
<1>5. ASSUME NEW l \in Listings, r = Listing(l)
      PROVE  Current(v, r)'
  BY <1>1, <1>2, <1>5, UntouchedListing, CurrentMarket
<1>6. ASSUME NEW i, r = Credited(i)
      PROVE  Current(v, r)'
  BY <1>1, <1>2, <1>6, UntouchedCredited, CurrentCredited
<1>7. ASSUME NEW o \in Orders, r = HoldRow(o)
      PROVE  Current(v, r)'
  <2>1. tx[u].kind \in {"settle", "release"} /\ tx[u].id = o
    BY <1>7, HoldLocker
  <2>2. tx[t].kind = "hold" => tx[t].id # o
    BY <2>1 DEF WalletsInv, Fresh
  <2> QED
    BY <1>1, <1>2, <1>7, <2>2, UntouchedHold, CurrentMarket
<1> QED
  BY <1>3, <1>4, <1>5, <1>6, <1>7 DEF Rows

-----------------------------------------------------------------------------
(* The invariant is inductive.                                             *)

LEMMA LockedUnchanged ==
  ASSUME NEW u, tx'[u] = tx[u], pc'[u] = pc[u]
  PROVE  Locked(u)' = Locked(u)
BY DEF Locked

\* What a transaction knows is not touched by the steps of others, if they
\* leave what it has read.
LEMMA OthersStep ==
  ASSUME WalletsInv, NEW u \in Txs, tx'[u] = tx[u], pc'[u] = pc[u], read'[u] = read[u],
         \A v : \A r \in Locked(u) : v = read[u][r] => Current(v, r)'
  PROVE  Readings(u)' /\ Passed(u)'
<1>1. Locked(u)' = Locked(u)
  BY LockedUnchanged
<1>2. Readings(u) /\ Passed(u)
  BY DEF WalletsInv
<1>3. Readings(u)'
  BY <1>1, <1>2 DEF Readings, Current, Row
<1>4. Passed(u)'
  BY <1>2 DEF Passed
<1> QED
  BY <1>3, <1>4

\* The end of a transaction, whatever it has written
LEMMA EndStep ==
  ASSUME WalletsInv, Connections', TypeInv', NEW t \in Txs, End(t),
         \A u \in Txs \ {t} : Fresh(u)',
         \A u \in Txs \ {t} : \A v : \A r \in Locked(u) : v = read[u][r] => Current(v, r)'
  PROVE  WalletsInv'
<1>1. /\ tx' = [tx EXCEPT ![t] = NoTx] /\ pc' = [pc EXCEPT ![t] = 0]
      /\ read' = [read EXCEPT ![t] = <<>>]
  BY DEF End
<1>2. /\ tx'[t] = NoTx /\ pc'[t] = 0 /\ read'[t] = <<>>
      /\ \A u \in Txs \ {t} : tx'[u] = tx[u] /\ pc'[u] = pc[u] /\ read'[u] = read[u]
  BY <1>1 DEF WalletsInv, Connections, TypeInv
<1>3. Locked(t)' = {}
  BY <1>2 DEF Locked
<1>4. \A u \in Txs \ {t} : Locked(u)' = Locked(u)
  BY <1>2, LockedUnchanged
<1>5. Exclusive'
  BY <1>3, <1>4 DEF WalletsInv, Exclusive
<1>6. Readings(t)' /\ Passed(t)' /\ Fresh(t)'
  BY <1>2, <1>3 DEF Readings, Passed, Fresh, NoTx
<1>7. \A u \in Txs \ {t} : Readings(u)' /\ Passed(u)' /\ Fresh(u)'
  BY <1>2, OthersStep
<1> QED
  BY <1>5, <1>6, <1>7 DEF WalletsInv

LEMMA CurrentStays ==
  ASSUME UNCHANGED dbVars
  PROVE  \A v, r : Current(v, r) => Current(v, r)'
BY DEF Current, Row, dbVars

\* A step that writes no row leaves what is known of the rows.
LEMMA SameRows ==
  ASSUME WalletsInv, UNCHANGED dbVars, NEW u \in Txs
  PROVE  \A v : \A r \in Locked(u) : v = read[u][r] => Current(v, r)'
<1>1. \A v, r : Current(v, r) => Current(v, r)'
  BY CurrentStays
<1>2. \A r \in Locked(u) : Current(read[u][r], r)
  BY DEF WalletsInv, Readings
<1> QED
  BY <1>1, <1>2

LEMMA RollbackInv ==
  ASSUME WalletsInv, Connections', NEW t \in Txs, End(t), UNCHANGED dbVars
  PROVE  WalletsInv'
<1>1. TypeInv'
  BY DEF WalletsInv, TypeInv, End, dbVars
<1>2. \A u \in Txs \ {t} : Fresh(u)'
  BY DEF WalletsInv, Fresh, End, dbVars, Connections, NoTx
<1> QED
  BY <1>1, <1>2, SameRows, EndStep

LEMMA BeginInv ==
  ASSUME WalletsInv, Connections', NEW t \in Txs, NEW x \in Requests, Begin(t, x)
  PROVE  WalletsInv'
<1>1. /\ tx[t] = NoTx /\ tx' = [tx EXCEPT ![t] = x] /\ UNCHANGED <<dbVars, pc, read>>
      /\ Worthwhile(x)
      /\ x.kind = "hold" => \A u \in Txs : tx[u] # x
  BY DEF Begin
<1>2. tx'[t] = x /\ \A u \in Txs \ {t} : tx'[u] = tx[u]
  BY <1>1 DEF WalletsInv, Connections
<1>3. TypeInv'
  BY <1>1 DEF WalletsInv, TypeInv, dbVars
<1>4. pc[t] = 0
  BY <1>1, NoTxOrder DEF WalletsInv, Connections, Order
<1>5. Locked(t) = {} /\ Locked(t)' = {}
  BY <1>1, <1>4 DEF Locked
<1>6. \A u \in Txs \ {t} : Locked(u)' = Locked(u)
  BY <1>1, <1>2, LockedUnchanged
<1>7. Exclusive'
  BY <1>5, <1>6 DEF WalletsInv, Exclusive
<1>8. Readings(t)' /\ Passed(t)'
  <2>1. DOMAIN read[t] = {}
    BY <1>5 DEF WalletsInv, Readings
  <2> QED
    BY <1>1, <1>4, <1>5, <2>1 DEF Readings, Passed
<1>9. Fresh(t)'
  <2>1. /\ x.kind \in {"charge", "settle", "release", "close"} => listing[x.id].status # "none"
        /\ x.kind = "hold" => hold[x.id] = 0 /\ listing[x.id].status = "none"
    BY <1>1 DEF Worthwhile, Takeable
  <2> QED
    BY <1>1, <1>2, <2>1 DEF Fresh, dbVars
<1>10. \A u \in Txs \ {t} : Fresh(u)'
  <2> TAKE u \in Txs \ {t}
  <2>1. Fresh(u)
    BY DEF WalletsInv
  <2>2. tx[u].kind = "hold" => x # tx[u]
    BY <1>1
  <2> QED
    BY <1>1, <1>2, <2>1, <2>2 DEF Fresh, dbVars
<1>11. \A u \in Txs \ {t} : Readings(u)' /\ Passed(u)'
  BY <1>1, <1>2, SameRows, OthersStep
<1> QED
  BY <1>3, <1>7, <1>8, <1>9, <1>10, <1>11 DEF WalletsInv

LEMMA LockInv ==
  ASSUME WalletsInv, Connections', NEW t \in Txs, Lock(t)
  PROVE  WalletsInv'
<1> DEFINE x == tx[t]
           row == LockOrder(x)[pc[t] + 1]
           seen == [r \in DOMAIN read[t] \cup {row} |-> IF r = row THEN Row(row) ELSE read[t][r]]
<1>1. x # NoTx /\ pc[t] < Len(LockOrder(x)) /\ Granted(t) /\ UNCHANGED dbVars
  BY DEF Lock
<1>2. x \in Requests /\ pc[t] \in Nat /\ ~OwnListing(x)
  BY <1>1 DEF WalletsInv, Connections
<1>3. CASE End(t)
  BY <1>1, <1>3, RollbackInv
<1>4. CASE /\ Passes(x, seen, pc[t] + 1)
           /\ pc' = [pc EXCEPT ![t] = @ + 1] /\ read' = [read EXCEPT ![t] = seen] /\ UNCHANGED tx
  <2>1. /\ pc'[t] = pc[t] + 1 /\ read'[t] = seen /\ tx' = tx
        /\ \A u \in Txs \ {t} : pc'[u] = pc[u] /\ read'[u] = read[u]
    BY <1>4 DEF WalletsInv, Connections, TypeInv
  <2>2. pc[t] + 1 \in 1..Len(LockOrder(x)) /\ row \in Rows
    BY <1>1, <1>2, LockOrderRows
  <2>3. Locked(t)' = Locked(t) \cup {row}
    <3>1. 1..pc[t] + 1 = 1..pc[t] \cup {pc[t] + 1}
      BY <1>2
    <3> QED
      BY <2>1, <3>1 DEF Locked
  <2>4. \A u \in Txs \ {t} : Locked(u)' = Locked(u)
    BY <2>1, LockedUnchanged
  <2>5. \A u \in Txs \ {t} : row \notin Locked(u)
    BY <1>1 DEF Granted, WaitsFor, Wants
  <2>6. Exclusive'
    BY <2>3, <2>4, <2>5 DEF WalletsInv, Exclusive
  <2>7. TypeInv'
    BY <1>1, <1>4 DEF WalletsInv, TypeInv, dbVars
  <2>8. \A u \in Txs : Fresh(u)'
    BY <1>1, <2>1 DEF WalletsInv, Fresh, dbVars
  <2>9. \A u \in Txs \ {t} : Readings(u)' /\ Passed(u)'
    BY <1>1, <2>1, SameRows, OthersStep
  <2>10. DOMAIN read[t] = Locked(t)
    BY DEF WalletsInv, Readings
  <2>11. Readings(t)'
    <3>1. DOMAIN seen = Locked(t)'
      BY <2>3, <2>10
    <3>2. \A v, q : v = seen[row] /\ q = row => Current(v, q)'
      <4>1. seen[row] = Row(row)
        OBVIOUS
      <4>2. Current(Row(row), row)
        <5> HIDE DEF row
        <5> QED
          BY DEF Current, Row
      <4>3. \A v, q : v = seen[row] /\ q = row => Current(v, q)
        BY <4>1, <4>2
      <4> HIDE DEF row, seen
      <4> QED
        BY <1>1, <4>3, CurrentStays
    <3>3. \A r \in Locked(t) \ {row} : seen[r] = read[t][r]
      BY <2>10
    <3>4. \A v : \A r \in Locked(t) : v = read[t][r] => Current(v, r)'
      BY <1>1, SameRows
    <3>5. \A v : \A r \in Locked(t)' : v = seen[r] => Current(v, r)'
      <4> SUFFICES ASSUME NEW v, NEW r \in Locked(t)', v = seen[r]
                   PROVE  Current(v, r)'
        OBVIOUS
      <4> HIDE DEF seen, row
      <4>1. CASE r = row
        BY <3>2, <4>1
      <4>2. CASE r # row
        BY <2>3, <3>3, <3>4, <4>2
      <4> QED
        BY <4>1, <4>2
    <3> HIDE DEF seen, row
    <3> QED
      BY <2>1, <3>1, <3>5 DEF Readings, Current, Row
  <2>12. Passed(t)'
    <3> SUFFICES ASSUME NEW i \in 1..pc[t] + 1
                 PROVE  Passes(x, seen, i)
      BY <2>1 DEF Passed
    <3>1. CASE i = pc[t] + 1
      BY <1>4, <3>1
    <3>2. CASE i \in 1..pc[t]
      <4>1. Passes(x, read[t], i)
        BY <3>2 DEF WalletsInv, Passed
      <4>2. \A j \in 1..i : read[t][LockOrder(x)[j]] = seen[LockOrder(x)[j]]
        <5> TAKE j \in 1..i
        <5>1. j \in 1..pc[t] /\ j # pc[t] + 1 /\ j \in 1..Len(LockOrder(x))
          BY <1>2, <2>2, <3>2, LockOrderRows
        <5>2. LockOrder(x)[j] # row
          BY <1>2, <2>2, <5>1, DistinctRows
        <5>3. LockOrder(x)[j] \in DOMAIN read[t]
          BY <2>10, <5>1 DEF Locked
        <5> QED
          BY <5>2, <5>3
      <4>3. i \in 1..Len(LockOrder(x))
        BY <1>2, <2>2, <3>2, LockOrderRows
      <4> HIDE DEF x, row, seen
      <4> QED
        BY <1>2, <4>1, <4>2, <4>3, PassesLocal
    <3> QED
      BY <1>2, <3>1, <3>2
  <2> HIDE DEF x, row, seen
  <2> QED
    BY <2>6, <2>7, <2>8, <2>9, <2>11, <2>12 DEF WalletsInv
<1> QED
  BY <1>3, <1>4 DEF Lock

LEMMA CommitInv ==
  ASSUME WalletsInv, Connections', NEW t \in Txs, Commit(t)
  PROVE  WalletsInv'
<1> DEFINE x == tx[t]
           r == read[t]
<1>1. End(t) /\ x \in Requests
  BY CommitRequest DEF Commit
<1>2. TypeInv'
  <2>1. wallet' = [a \in Accounts |-> [balance |-> Balances(x, r)[a], cooling |-> Cooled(x, a)]]
    BY DEF Commit
  <2>2. \A a \in Accounts : Cooled(x, a) \in BOOLEAN
    BY DEF WalletsInv, TypeInv, Cooled
  <2>3. hold' = Holds(x, r) /\ listing' = Listed(x, r)
    BY CommitWallets
  <2>4. hold' = [o \in Orders |-> hold'[o]]
    BY <2>3 DEF WalletsInv, TypeInv, Holds
  <2>5. listing' = [l \in Listings |-> [status |-> listing'[l].status, left |-> listing'[l].left]]
    <3>1. listing = [l \in Listings |-> [status |-> listing[l].status, left |-> listing[l].left]]
      BY DEF WalletsInv, TypeInv
    <3>2. CASE x.kind \in {"charge", "settle"}
      BY <2>3, <3>1, <3>2 DEF Listed
    <3>3. CASE x.kind \in {"release", "close"}
      <4>1. listing' = [l \in Listings |-> IF l = x.id THEN [listing[l] EXCEPT !.status = "closed"] ELSE listing[l]]
        BY <2>3, <3>1, <3>3 DEF Listed
      <4>2. \A l \in Listings : listing[l] = [status |-> listing[l].status, left |-> listing[l].left]
        BY <3>1
      <4>3. \A l \in Listings : listing'[l] = [status |-> listing'[l].status, left |-> listing'[l].left]
        BY <4>1, <4>2
      <4> QED
        BY <4>1, <4>3
    <3>4. CASE x.kind \notin {"charge", "settle", "release", "close"}
      BY <2>3, <3>1, <3>4 DEF Listed
    <3> QED
      BY <3>2, <3>3, <3>4
  <2>6. read' = [u \in Txs |-> read'[u]]
    BY <1>1 DEF WalletsInv, TypeInv, End
  <2> QED
    BY <2>1, <2>2, <2>4, <2>5, <2>6 DEF TypeInv
<1>3. ASSUME NEW u \in Txs \ {t}
      PROVE  Fresh(u)'
  <2> DEFINE y == tx[u]
  <2>1. /\ tx' = [tx EXCEPT ![t] = NoTx] /\ tx'[u] = y /\ y \in Requests \cup {NoTx}
    BY <1>1 DEF End, WalletsInv, Connections
  <2>2. Fresh(u) /\ Fresh(t)
    BY DEF WalletsInv
  <2>3. CASE y.kind \in {"charge", "settle", "release", "close"}
    <3>1. y.id \in Listings
      BY <2>1, <2>3, RequestShape DEF Listings, NoTx
    <3> QED
      BY <2>1, <2>2, <2>3, <3>1, CommitStatus DEF Fresh
  <2>4. CASE y.kind = "hold"
    <3>1. y \in Requests /\ y.id \in Orders /\ y.id \in Listings
      BY <2>1, <2>4, RequestShape DEF Listings, NoTx
    <3>2. hold[y.id] = 0 /\ listing[y.id].status = "none" /\ x # y
      BY <2>2, <2>4 DEF Fresh
    <3>3. x.kind = "hold" => x.id # y.id
      BY <1>1, <2>4, <3>1, <3>2, SameHold
    <3>4. x.kind \in {"charge", "settle", "release", "close"} => x.id # y.id
      BY <2>2, <3>2 DEF Fresh
    <3>5. hold' = Holds(x, r) /\ listing' = Listed(x, r)
      BY CommitWallets
    <3>6. hold'[y.id] = 0
      BY <3>2, <3>3, <3>4, <3>5 DEF Holds
    <3>7. listing'[y.id].status = "none"
      BY <3>2, <3>4, <3>5 DEF Listed
    <3>8. \A v \in Txs \ {u} : tx'[v] # y
      BY <2>1, <2>2, <2>4 DEF Fresh, NoTx, WalletsInv, Connections
    <3> QED
      BY <2>1, <2>4, <3>6, <3>7, <3>8 DEF Fresh
  <2> QED
    BY <2>1, <2>3, <2>4 DEF Fresh
<1>4. \A u \in Txs \ {t} : \A v : \A q \in Locked(u) : v = read[u][q] => Current(v, q)'
  BY CommitKeepsReadings
<1> QED
  BY <1>1, <1>2, <1>3, <1>4, EndStep

LEMMA CreateInv ==
  ASSUME WalletsInv, Connections', NEW o \in Orders, CreateListing(o)
  PROVE  WalletsInv'
<1>1. /\ hold[o] > 0 /\ listing[o].status = "none"
      /\ listing' = [listing EXCEPT ![o] = [status |-> "active", left |-> Quantity]]
      /\ UNCHANGED <<wallet, hold, credited, tx, pc, read>>
  BY DEF CreateListing
<1>2. TypeInv'
  <2>1. \A l \in Listings : listing'[l] = [status |-> listing'[l].status, left |-> listing'[l].left]
    BY <1>1 DEF WalletsInv, TypeInv
  <2>2. listing' = [l \in Listings |-> listing'[l]]
    BY <1>1 DEF WalletsInv, TypeInv
  <2>3. listing' = [l \in Listings |-> [status |-> listing'[l].status, left |-> listing'[l].left]]
    BY <2>1, <2>2
  <2> QED
    BY <1>1, <2>3 DEF WalletsInv, TypeInv
<1>3. \A u \in Txs : Locked(u)' = Locked(u)
  BY <1>1, LockedUnchanged
<1>4. ASSUME NEW u \in Txs
      PROVE  Fresh(u)'
  <2>1. Fresh(u)
    BY DEF WalletsInv
  <2>2. tx[u] \in Requests \cup {NoTx}
    BY DEF WalletsInv, Connections
  <2>3. CASE tx[u].kind \in {"charge", "settle", "release", "close"}
    <3>1. tx[u].id \in Listings
      BY <2>2, <2>3, RequestShape DEF Listings, NoTx
    <3> QED
      BY <1>1, <2>1, <2>3, <3>1 DEF Fresh, WalletsInv, TypeInv
  <2>4. CASE tx[u].kind = "hold"
    <3>1. tx[u].id # o
      BY <1>1, <2>1, <2>4 DEF Fresh
    <3> QED
      BY <1>1, <2>1, <2>4, <3>1 DEF Fresh
  <2> QED
    BY <1>1, <2>3, <2>4 DEF Fresh
<1>5. ASSUME NEW u \in Txs
      PROVE  Readings(u)' /\ Passed(u)'
  <2>1. \A v : \A r \in Locked(u) : v = read[u][r] => Current(v, r)'
    <3> SUFFICES ASSUME NEW v, NEW r \in Locked(u), v = read[u][r]
                 PROVE  Current(v, r)'
      OBVIOUS
    <3>1. Current(v, r) /\ r \in Rows
      BY LockedRows DEF WalletsInv, Readings
    <3>2. r # Listing(o)
      <4>1. SUFFICES ASSUME Listing(o) \in Locked(u)
                     PROVE  FALSE
        OBVIOUS
      <4>2. tx[u].kind \in {"charge", "settle", "release", "close"} /\ tx[u].id = o
        BY <4>1, ListingLocker
      <4> QED
        BY <1>1, <4>2 DEF WalletsInv, Fresh
    <3>3. ASSUME NEW l \in Listings, r = Listing(l)
          PROVE  Current(v, r)'
      <4>1. l # o
        BY <3>2, <3>3
      <4>2. listing'[l] = listing[l]
        BY <1>1, <4>1
      <4> QED
        BY <3>1, <3>3, <4>2, CurrentMarket
    <3>4. ASSUME NEW a \in Accounts, r = Wallet(a)
          PROVE  Current(v, r)'
      BY <1>1, <3>1, <3>4, CurrentWallet
    <3>5. ASSUME NEW p \in Orders, r = HoldRow(p)
          PROVE  Current(v, r)'
      BY <1>1, <3>1, <3>5, CurrentMarket
    <3>6. ASSUME NEW i, r = Credited(i)
          PROVE  Current(v, r)'
      BY <1>1, <3>1, <3>6, CurrentCredited
    <3> QED
      BY <3>1, <3>3, <3>4, <3>5, <3>6 DEF Rows
  <2> QED
    BY <1>1, <2>1, OthersStep
<1>6. Exclusive'
  BY <1>3 DEF WalletsInv, Exclusive
<1> QED
  BY <1>2, <1>4, <1>5, <1>6 DEF WalletsInv

\* The end of a cooldown may make a reading older than its row, never wrong.
LEMMA CoolInv ==
  ASSUME WalletsInv, Connections', NEW a \in Accounts, Cool(a)
  PROVE  WalletsInv'
<1>1. /\ wallet' = [wallet EXCEPT ![a].cooling = FALSE]
      /\ UNCHANGED <<hold, listing, credited, tx, pc, read>>
  BY DEF Cool
<1>2. \A b \in Accounts : /\ wallet'[b].balance = wallet[b].balance
                          /\ wallet'[b].cooling = IF b = a THEN FALSE ELSE wallet[b].cooling
                          /\ wallet'[b] = [balance |-> wallet'[b].balance, cooling |-> wallet'[b].cooling]
  <2>1. wallet = [b \in Accounts |-> [balance |-> wallet[b].balance, cooling |-> wallet[b].cooling]]
    BY DEF WalletsInv, TypeInv
  <2>2. wallet' = [b \in Accounts |-> IF b = a THEN [wallet[b] EXCEPT !.cooling = FALSE] ELSE wallet[b]]
    BY <1>1, <2>1
  <2>3. \A b \in Accounts : wallet[b] = [balance |-> wallet[b].balance, cooling |-> wallet[b].cooling]
    BY <2>1
  <2>4. \A b \in Accounts \ {a} : wallet'[b] = wallet[b]
    BY <2>2
  <2>5. wallet'[a] = [wallet[a] EXCEPT !.cooling = FALSE]
    BY <2>2
  <2>6. wallet'[a] = [balance |-> wallet[a].balance, cooling |-> FALSE]
    BY <2>3, <2>5
  <2>7. /\ wallet'[a].balance = wallet[a].balance /\ wallet'[a].cooling = FALSE
        /\ wallet'[a] = [balance |-> wallet'[a].balance, cooling |-> wallet'[a].cooling]
    BY <2>6
  <2>8. \A b \in Accounts \ {a} :
          /\ wallet'[b].balance = wallet[b].balance /\ wallet'[b].cooling = wallet[b].cooling
          /\ wallet'[b] = [balance |-> wallet'[b].balance, cooling |-> wallet'[b].cooling]
    BY <2>3, <2>4
  <2> QED
    BY <2>7, <2>8
<1>3. TypeInv'
  <2>1. wallet' = [b \in Accounts |-> wallet'[b]]
    BY <1>1 DEF WalletsInv, TypeInv
  <2>2. wallet' = [b \in Accounts |-> [balance |-> wallet'[b].balance, cooling |-> wallet'[b].cooling]]
    BY <1>2, <2>1
  <2> QED
    BY <1>1, <1>2, <2>2 DEF WalletsInv, TypeInv
<1>4. \A u \in Txs : Fresh(u)'
  BY <1>1 DEF WalletsInv, Fresh
<1>5. ASSUME NEW u \in Txs
      PROVE  Readings(u)' /\ Passed(u)'
  <2>1. \A v : \A r \in Locked(u) : v = read[u][r] => Current(v, r)'
    <3> SUFFICES ASSUME NEW v, NEW r \in Locked(u), v = read[u][r]
                 PROVE  Current(v, r)'
      OBVIOUS
    <3>1. Current(v, r) /\ r \in Rows
      BY LockedRows DEF WalletsInv, Readings
    <3>2. ASSUME NEW b \in Accounts, r = Wallet(b)
          PROVE  Current(v, r)'
      <4>1. v.balance = wallet[b].balance /\ (wallet[b].cooling => v.cooling)
        BY <3>1, <3>2, CurrentWallet
      <4>2. v.balance = wallet'[b].balance /\ (wallet'[b].cooling => v.cooling)
        BY <1>2, <4>1
      <4> QED
        BY <3>2, <4>2, CurrentWallet
    <3>3. ASSUME NEW l, r \in {Listing(l), HoldRow(l)}
          PROVE  Current(v, r)'
      BY <1>1, <3>1, <3>3, CurrentMarket
    <3>4. ASSUME NEW i, r = Credited(i)
          PROVE  Current(v, r)'
      BY <1>1, <3>1, <3>4, CurrentCredited
    <3> QED
      BY <3>1, <3>2, <3>3, <3>4 DEF Rows
  <2> QED
    BY <1>1, <2>1, OthersStep
<1>6. Exclusive'
  BY <1>1, LockedUnchanged DEF WalletsInv, Exclusive
<1> QED
  BY <1>3, <1>4, <1>5, <1>6 DEF WalletsInv

LEMMA InitWalletsInv == Init => WalletsInv
<1> SUFFICES ASSUME Init
             PROVE  WalletsInv
  OBVIOUS
<1>1. /\ tx = [t \in Txs |-> NoTx] /\ pc = [t \in Txs |-> 0] /\ read = [t \in Txs |-> <<>>]
  BY DEF Init
<1>2. TypeInv
  <2>1. wallet = [a \in Accounts |-> [balance |-> InitBalance, cooling |-> FALSE]]
    BY DEF Init
  <2>2. PICK placed \in SUBSET Orders :
          /\ hold = [o \in Orders |-> IF o \in placed THEN Cost ELSE 0]
          /\ listing = [l \in Listings |->
               IF l \in Sells \cup placed THEN [status |-> "active", left |-> Quantity]
               ELSE [status |-> "none", left |-> 0]]
    BY DEF Init
  <2>3. \A l \in Listings : listing[l] = [status |-> listing[l].status, left |-> listing[l].left]
    BY <2>2
  <2>4. listing = [l \in Listings |-> [status |-> listing[l].status, left |-> listing[l].left]]
    BY <2>2, <2>3
  <2> QED
    BY <1>1, <2>1, <2>2, <2>4 DEF TypeInv
<1>3. \A t \in Txs : tx[t] = NoTx /\ pc[t] = 0 /\ read[t] = <<>> /\ Locked(t) = {}
  BY <1>1 DEF Locked
<1>4. \A t \in Txs : Readings(t) /\ Passed(t) /\ Fresh(t)
  <2> SUFFICES ASSUME NEW t \in Txs
               PROVE  Readings(t) /\ Passed(t) /\ Fresh(t)
    OBVIOUS
  <2>1. Readings(t) /\ Passed(t)
    BY <1>3 DEF Readings, Passed
  <2>2. Fresh(t)
    BY <1>3 DEF Fresh, NoTx
  <2> QED
    BY <2>1, <2>2
<1>5. Exclusive
  BY <1>3 DEF Exclusive
<1> QED
  BY <1>2, <1>4, <1>5, InitConnections DEF WalletsInv

LEMMA WalletsInvStep ==
  ASSUME WalletsInv, [Next]_vars
  PROVE  WalletsInv'
<1>1. Connections'
  BY ConnectionsStep DEF WalletsInv
<1>2. CASE \E t \in Txs : Lock(t)
  BY <1>1, <1>2, LockInv
<1>3. CASE \E t \in Txs : Commit(t)
  BY <1>1, <1>3, CommitInv
<1>4. CASE \E t \in Txs : Rollback(t)
  BY <1>1, <1>4, RollbackInv DEF Rollback
<1>5. CASE \E t \in Txs, x \in Requests : Begin(t, x)
  BY <1>1, <1>5, BeginInv
<1>6. CASE \E o \in Orders : CreateListing(o)
  BY <1>1, <1>6, CreateInv
<1>7. CASE \E a \in Accounts : Cool(a)
  BY <1>1, <1>7, CoolInv
<1>8. CASE UNCHANGED vars
  <2>1. UNCHANGED <<dbVars, tx, pc, read>>
    BY <1>8 DEF vars
  <2>2. \A u \in Txs : Readings(u)' /\ Passed(u)'
    BY <2>1, SameRows, OthersStep
  <2>3. \A u \in Txs : Locked(u)' = Locked(u)
    BY <2>1, LockedUnchanged
  <2> QED
    BY <1>1, <2>1, <2>2, <2>3 DEF WalletsInv, TypeInv, Exclusive, Fresh, dbVars
<1> QED
  BY <1>2, <1>3, <1>4, <1>5, <1>6, <1>7, <1>8 DEF Next

LEMMA InitLedger ==
  ASSUME Init
  PROVE  Abstract!Init
<1>1. PICK placed \in SUBSET Orders :
        /\ hold = [o \in Orders |-> IF o \in placed THEN Cost ELSE 0]
        /\ listing = [l \in Listings |->
             IF l \in Sells \cup placed THEN [status |-> "active", left |-> Quantity]
             ELSE [status |-> "none", left |-> 0]]
  BY DEF Init
<1>2. UnitsLeft = [l \in Listings |-> IF l \in Sells \cup placed THEN Quantity ELSE 0]
  BY <1>1 DEF UnitsLeft
<1>3. Balance = [a \in Accounts |-> InitBalance] /\ Cooling = [a \in Accounts |-> FALSE]
  BY DEF Init, Balance, Cooling
<1>4. credited = {}
  BY DEF Init
<1> QED
  BY <1>1, <1>2, <1>3, <1>4
  DEF Abstract!Init, UnitsLeft, Balance, Cooling, Cost, Abstract!Cost, Listings, Abstract!Listings

LEMMA LedgerRefined ==
  ASSUME WalletsInv, [Next]_vars
  PROVE  Abstract!Next \/ UNCHANGED Abstract!vars
<1>1. CASE \E t \in Txs : Commit(t)
  BY <1>1, CommitLedger
<1>2. CASE UNCHANGED dbVars
  BY <1>2 DEF dbVars, Abstract!vars
<1>3. ASSUME NEW o \in Orders, CreateListing(o)
      PROVE  Abstract!List(o)
  <2>1. /\ hold[o] > 0 /\ listing[o].status = "none" /\ o \in Listings
        /\ listing' = [listing EXCEPT ![o] = [status |-> "active", left |-> Quantity]]
        /\ UNCHANGED <<wallet, hold, credited>>
    BY <1>3 DEF CreateListing, Listings
  <2>2. listing = [l \in Listings |-> listing[l]]
    BY DEF WalletsInv, TypeInv
  <2>3. UnitsLeft[o] = 0 /\ UnitsLeft' = [UnitsLeft EXCEPT ![o] = Quantity]
    BY <2>1, <2>2 DEF UnitsLeft
  <2> QED
    BY <2>1, <2>3 DEF Abstract!List, UnitsLeft
<1>4. ASSUME NEW a \in Accounts, Cool(a)
      PROVE  Abstract!Cool(a)
  <2>1. /\ wallet[a].cooling /\ wallet' = [wallet EXCEPT ![a].cooling = FALSE]
        /\ UNCHANGED <<hold, listing, credited>>
    BY <1>4 DEF Cool
  <2>2. wallet = [b \in Accounts |-> [balance |-> wallet[b].balance, cooling |-> wallet[b].cooling]]
    BY DEF WalletsInv, TypeInv
  <2>3. \A b \in Accounts : wallet'[b] = IF b = a THEN [wallet[b] EXCEPT !.cooling = FALSE] ELSE wallet[b]
    BY <2>1, <2>2
  <2>4. \A b \in Accounts : wallet[b] = [balance |-> wallet[b].balance, cooling |-> wallet[b].cooling]
    BY <2>2
  <2>5. \A b \in Accounts : /\ wallet'[b].balance = wallet[b].balance
                            /\ wallet'[b].cooling = IF b = a THEN FALSE ELSE wallet[b].cooling
    BY <2>3, <2>4
  <2>6. Balance' = Balance /\ Cooling' = [Cooling EXCEPT ![a] = FALSE]
    BY <2>5 DEF Balance, Cooling
  <2> QED
    BY <2>1, <2>6 DEF Abstract!Cool, Balance, Cooling
<1>5. CASE \E t \in Txs : Lock(t) \/ Rollback(t) \/ \E x \in Requests : Begin(t, x)
  BY <1>2, <1>5 DEF Lock, Rollback, Begin
<1> QED
  BY <1>1, <1>2, <1>3, <1>4, <1>5 DEF Next, Abstract!Next, vars

\* The transactions keep the promise of the ledger: whatever is read and
\* written, and whoever waits, fails or is lost in between, each of them is
\* one step on the amounts there are when it commits.  No write of a value
\* that was computed from a reading (CreditDeposit, RequestWithdraw, Take,
\* ReleaseTx) overwrites the update of another.
THEOREM TransactionsKeepLedger == Spec => ImplementsLedger
<1>1. Init => WalletsInv
  BY InitWalletsInv
<1>2. WalletsInv /\ [Next]_vars => WalletsInv'
  BY WalletsInvStep
<1>3. Init => Abstract!Init
  BY InitLedger
<1>4. WalletsInv /\ [Next]_vars => [Abstract!Next]_Abstract!vars
  BY LedgerRefined
<1> QED
  BY <1>1, <1>2, <1>3, <1>4, PTL DEF Spec, ImplementsLedger, Abstract!Spec

-----------------------------------------------------------------------------
(* What the ledger keeps, whoever does its operations and in whichever     *)
(* order, the transactions keep: no balance goes below zero or past the    *)
(* largest one a column holds, and a buy order that is listed is backed by *)
(* its hold.                                                               *)

LEMMA Amounts ==
  /\ OwnerOf \in [Deposits \cup Purchases \cup Listings -> Accounts]
  /\ Amount \in Nat /\ FlatFee \in Nat /\ Price \in Nat
  /\ InitBalance \in Nat /\ MaxBalance \in Nat /\ InitBalance <= MaxBalance
  /\ FeeBps \in 0..10000 /\ Quantity \in Nat \ {0}
  /\ Sells \cap Orders = {}
BY WalletAssumption

\* The hold of a listed order is what its open units cost.  An order that is
\* not listed has its whole price in its hold (it is about to be) or nothing.
Backed(o) ==
  \/ UnitsLeft[o] > 0 /\ hold[o] = Price * UnitsLeft[o]
  \/ UnitsLeft[o] = 0 /\ hold[o] \in {0, Cost}

Covered ==
  /\ Balance \in [Accounts -> 0..MaxBalance]
  /\ hold \in [Orders -> Nat]
  /\ UnitsLeft \in [Listings -> 0..Quantity]
  /\ \A o \in Orders : Backed(o)

-----------------------------------------------------------------------------
LEMMA ProductNat ==
  ASSUME NEW m \in Nat, NEW n \in Nat
  PROVE  m * n \in Nat
OBVIOUS

LEMMA ProductZero ==
  ASSUME NEW m \in Nat, NEW n \in Nat \ {0}, m * n = 0
  PROVE  m = 0
OBVIOUS

LEMMA ProductMinus ==
  ASSUME NEW p \in Nat, NEW m \in Nat, NEW n \in Nat
  PROVE  p * m - p * n = p * (m - n)
OBVIOUS

LEMMA CostNat == Cost \in Nat
BY ProductNat, Amounts DEF Cost

\* The fee is no more than what is paid.
LEMMA NetBound ==
  ASSUME NEW gross \in Nat
  PROVE  Net(gross) \in 0..gross
<1>1. FeeBps \in 0..10000
  BY Amounts
<1>2. gross * FeeBps \in Nat /\ gross * FeeBps <= gross * 10000
  BY <1>1
<1>3. (gross * FeeBps) \div 10000 \in 0..gross
  <2> DEFINE p == gross * FeeBps
  <2> HIDE DEF p
  <2>1. p \in Nat /\ p <= gross * 10000
    BY <1>2 DEF p
  <2>2. p \div 10000 \in 0..gross
    BY <2>1
  <2> QED
    BY <2>2 DEF p
<1> QED
  BY <1>3 DEF Net

LEMMA InitCovered ==
  ASSUME Abstract!Init
  PROVE  Covered
<1>1. PICK placed \in SUBSET Orders :
        /\ hold = [o \in Orders |-> IF o \in placed THEN Cost ELSE 0]
        /\ UnitsLeft = [l \in Listings |-> IF l \in Sells \cup placed THEN Quantity ELSE 0]
  BY DEF Abstract!Init, Abstract!Cost, Abstract!Listings, Listings, Balance, UnitsLeft, Cost
<1>2. Balance \in [Accounts -> 0..MaxBalance]
  BY Amounts DEF Abstract!Init, Abstract!Cost, Abstract!Listings, Listings, Balance, UnitsLeft, Cost
<1>3. hold \in [Orders -> Nat]
  BY <1>1, CostNat
<1>4. UnitsLeft \in [Listings -> 0..Quantity]
  BY <1>1, Amounts
<1>5. ASSUME NEW o \in Orders
      PROVE  Backed(o)
  <2>1. o \in Listings /\ o \notin Sells /\ Quantity \in Nat \ {0}
    BY Amounts DEF Listings
  <2>2. CASE o \in placed
    BY <1>1, <2>1, <2>2 DEF Backed, Cost
  <2>3. CASE o \notin placed
    BY <1>1, <2>1, <2>3 DEF Backed
  <2> QED
    BY <2>2, <2>3
<1> QED
  BY <1>2, <1>3, <1>4, <1>5 DEF Covered

-----------------------------------------------------------------------------
\* The hold and the units of the other orders stay.
LEMMA StillBacked ==
  ASSUME Covered, NEW o \in Orders, hold'[o] = hold[o], UnitsLeft'[o] = UnitsLeft[o]
  PROVE  Backed(o)'
BY DEF Covered, Backed

LEMMA Types ==
  ASSUME Covered
  PROVE  /\ \A a \in Accounts : Balance[a] \in 0..MaxBalance
         /\ \A o \in Orders : hold[o] \in Nat /\ UnitsLeft[o] \in 0..Quantity
         /\ \A l \in Listings : UnitsLeft[l] \in 0..Quantity
         /\ Balance \in [Accounts -> 0..MaxBalance] /\ hold \in [Orders -> Nat]
         /\ UnitsLeft \in [Listings -> 0..Quantity]
         /\ Orders \subseteq Listings /\ Sells \subseteq Listings
         /\ \A l \in Listings : OwnerOf[l] \in Accounts
BY Amounts DEF Covered, Listings

\* An operation that only changes balances, within their column.
LEMMA BalanceStep ==
  ASSUME Covered, NEW a \in Accounts, NEW v \in 0..MaxBalance,
         Balance' = [Balance EXCEPT ![a] = v], UNCHANGED <<hold, UnitsLeft>>
  PROVE  Covered'
<1>1. Balance' \in [Accounts -> 0..MaxBalance]
  BY DEF Covered
<1>2. \A o \in Orders : Backed(o)'
  BY StillBacked
<1> QED
  BY <1>1, <1>2 DEF Covered

LEMMA HoldStep ==
  ASSUME Covered, NEW o \in Orders, Abstract!Hold(o)
  PROVE  Covered'
<1>1. /\ hold[o] = 0 /\ Cost <= Balance[OwnerOf[o]] /\ UNCHANGED UnitsLeft
      /\ Balance' = [Balance EXCEPT ![OwnerOf[o]] = Balance[OwnerOf[o]] - Cost]
      /\ hold' = [hold EXCEPT ![o] = Cost]
  BY DEF Abstract!Hold, Balance, UnitsLeft, Cost, Abstract!Cost
<1>2. Cost \in Nat
  BY CostNat
<1>3. UnitsLeft[o] \in 0..Quantity /\ OwnerOf[o] \in Accounts /\ Quantity \in Nat
  BY Types, Amounts
<1>4. Balance' \in [Accounts -> 0..MaxBalance] /\ hold' \in [Orders -> Nat]
  BY <1>1, <1>2, <1>3, Types, Amounts
<1>5. UnitsLeft[o] > 0 => Cost = Price * UnitsLeft[o]
  <2> SUFFICES ASSUME UnitsLeft[o] > 0
               PROVE  Cost = Price * UnitsLeft[o]
    OBVIOUS
  <2>1. Price * UnitsLeft[o] = 0
    BY <1>1, <1>3 DEF Covered, Backed
  <2>2. Price = 0
    BY <1>3, <2>1, ProductZero, Amounts
  <2> QED
    BY <1>3, <2>2 DEF Cost
<1>6. hold'[o] = Cost /\ UnitsLeft'[o] = UnitsLeft[o]
  BY <1>1, Types
<1>7. Backed(o)'
  BY <1>3, <1>5, <1>6 DEF Backed
<1>8. ASSUME NEW q \in Orders, q # o
      PROVE  Backed(q)'
  <2>1. hold'[q] = hold[q] /\ UnitsLeft'[q] = UnitsLeft[q]
    BY <1>1, <1>8, Types
  <2> QED
    BY <2>1, StillBacked
<1> QED
  BY <1>1, <1>4, <1>7, <1>8, Types DEF Covered

LEMMA ListStep ==
  ASSUME Covered, NEW o \in Orders, Abstract!List(o)
  PROVE  Covered'
<1>1. /\ hold[o] > 0 /\ UnitsLeft[o] = 0 /\ UNCHANGED <<Balance, hold>>
      /\ UnitsLeft' = [UnitsLeft EXCEPT ![o] = Quantity]
  BY DEF Abstract!List, Balance, UnitsLeft
<1>2. hold[o] = Cost
  BY <1>1 DEF Covered, Backed
<1>3. UnitsLeft' \in [Listings -> 0..Quantity] /\ UnitsLeft'[o] = Quantity
  BY <1>1, Types, Amounts
<1>4. Backed(o)'
  BY <1>1, <1>2, <1>3, Amounts DEF Backed, Cost
<1>5. ASSUME NEW q \in Orders, q # o
      PROVE  Backed(q)'
  <2>1. hold'[q] = hold[q] /\ UnitsLeft'[q] = UnitsLeft[q]
    BY <1>1, <1>5, Types
  <2> QED
    BY <2>1, StillBacked
<1> QED
  BY <1>1, <1>3, <1>4, <1>5, Types DEF Covered

LEMMA CloseStep ==
  ASSUME Covered, NEW l \in Listings, Abstract!Close(l)
  PROVE  Covered'
<1>1. UnitsLeft' = [UnitsLeft EXCEPT ![l] = 0]
  BY DEF Abstract!Close, Balance, UnitsLeft
<1>2. UnitsLeft' \in [Listings -> 0..Quantity]
  BY <1>1, Types, Amounts
<1>3. CASE l \in Sells /\ UNCHANGED <<Balance, hold>>
  <2>1. l \notin Orders
    BY <1>3, Amounts
  <2>2. \A o \in Orders : hold'[o] = hold[o] /\ UnitsLeft'[o] = UnitsLeft[o]
    BY <1>1, <1>3, <2>1, Types
  <2>3. \A o \in Orders : Backed(o)'
    BY <2>2, StillBacked
  <2> QED
    BY <1>2, <1>3, <2>3, Types DEF Covered
<1>4. CASE /\ l \in Orders /\ Balance[OwnerOf[l]] + hold[l] <= MaxBalance
           /\ Balance' = [Balance EXCEPT ![OwnerOf[l]] = Balance[OwnerOf[l]] + hold[l]]
           /\ hold' = [hold EXCEPT ![l] = 0]
  <2>1. Balance' \in [Accounts -> 0..MaxBalance] /\ hold' \in [Orders -> Nat]
    BY <1>4, Types, Amounts
  <2>2. hold'[l] = 0 /\ UnitsLeft'[l] = 0
    BY <1>1, <1>4, Types
  <2>3. ASSUME NEW o \in Orders, o # l
        PROVE  Backed(o)'
    <3>1. hold'[o] = hold[o] /\ UnitsLeft'[o] = UnitsLeft[o]
      BY <1>1, <1>4, <2>3, Types
    <3> QED
      BY <3>1, StillBacked
  <2>4. Backed(l)'
    BY <2>2 DEF Backed
  <2> QED
    BY <1>2, <2>1, <2>3, <2>4 DEF Covered
<1> QED
  BY <1>3, <1>4 DEF Abstract!Close, Balance, UnitsLeft

LEMMA ChargeStep ==
  ASSUME Covered, NEW l \in Sells, NEW a \in Accounts, NEW n \in 1..Quantity,
         Abstract!Charge(l, a, n)
  PROVE  Covered'
<1> DEFINE gross == Price * n
           net == Net(gross)
           s == OwnerOf[l]
<1>1. gross \in Nat /\ net \in 0..gross
  <2>1. gross \in Nat
    BY ProductNat, Amounts
  <2> QED
    BY <2>1, NetBound
<1>2. /\ a # s /\ n <= UnitsLeft[l] /\ gross <= Balance[a] /\ Balance[s] + net <= MaxBalance
      /\ Balance' = [Balance EXCEPT ![a] = @ - gross, ![s] = @ + net]
      /\ UnitsLeft' = [UnitsLeft EXCEPT ![l] = @ - n] /\ UNCHANGED hold
  BY DEF Abstract!Charge, Balance, UnitsLeft, Net, Abstract!Net
<1>3. s \in Accounts /\ l \in Listings /\ l \notin Orders
  BY Types, Amounts
<1> HIDE DEF gross, net, s
<1>4. Balance' \in [Accounts -> 0..MaxBalance]
  BY <1>1, <1>2, <1>3, Types, Amounts
<1>5. UnitsLeft' \in [Listings -> 0..Quantity]
  BY <1>2, <1>3, Types, Amounts
<1>6. \A o \in Orders : hold'[o] = hold[o] /\ UnitsLeft'[o] = UnitsLeft[o]
  BY <1>2, <1>3, Types
<1>7. \A o \in Orders : Backed(o)'
  BY <1>6, StillBacked
<1> QED
  BY <1>2, <1>4, <1>5, <1>7, Types DEF Covered

LEMMA SettleStep ==
  ASSUME Covered, NEW o \in Orders, NEW a \in Accounts, NEW n \in 1..Quantity,
         Abstract!Settle(o, a, n)
  PROVE  Covered'
<1> DEFINE gross == Price * n
           net == Net(gross)
<1>1. gross \in Nat /\ net \in 0..gross
  <2>1. gross \in Nat
    BY ProductNat, Amounts
  <2> QED
    BY <2>1, NetBound
<1>2. /\ n <= UnitsLeft[o] /\ gross <= hold[o] /\ Balance[a] + net <= MaxBalance
      /\ Balance' = [Balance EXCEPT ![a] = Balance[a] + net]
      /\ hold' = [hold EXCEPT ![o] = hold[o] - gross]
      /\ UnitsLeft' = [UnitsLeft EXCEPT ![o] = UnitsLeft[o] - n]
  BY DEF Abstract!Settle, Balance, UnitsLeft, Net, Abstract!Net
<1>3. UnitsLeft[o] \in 0..Quantity /\ UnitsLeft[o] > 0 /\ Price \in Nat /\ Quantity \in Nat
  BY <1>2, Types, Amounts
<1>4. hold[o] = Price * UnitsLeft[o]
  BY <1>3 DEF Covered, Backed
<1>5. hold[o] - gross = Price * (UnitsLeft[o] - n)
  BY <1>3, <1>4, ProductMinus
<1> HIDE DEF gross, net
<1>6. Balance' \in [Accounts -> 0..MaxBalance]
  BY <1>1, <1>2, Types, Amounts
<1>7. hold' \in [Orders -> Nat] /\ UnitsLeft' \in [Listings -> 0..Quantity]
  BY <1>1, <1>2, <1>3, Types
<1>8. hold'[o] = Price * UnitsLeft'[o] /\ UnitsLeft'[o] \in 0..Quantity
  BY <1>2, <1>3, <1>5, <1>7, Types
<1>9. Backed(o)'
  BY <1>3, <1>8 DEF Backed
<1>10. ASSUME NEW q \in Orders, q # o
       PROVE  Backed(q)'
  <2>1. hold'[q] = hold[q] /\ UnitsLeft'[q] = UnitsLeft[q]
    BY <1>2, <1>10, Types
  <2> QED
    BY <2>1, StillBacked
<1> QED
  BY <1>6, <1>7, <1>9, <1>10 DEF Covered

LEMMA LedgerStep ==
  ASSUME Covered, Abstract!Next \/ UNCHANGED Abstract!vars
  PROVE  Covered'
<1> USE Types
<1>1. ASSUME NEW d \in Deposits, Abstract!Deposit(d)
      PROVE  Covered'
  <2>1. OwnerOf[d] \in Accounts /\ Balance[OwnerOf[d]] + Amount \in Nat /\ MaxBalance \in Nat
    BY Amounts
  <2>2. Capped(Balance[OwnerOf[d]] + Amount) \in 0..MaxBalance
    BY <2>1 DEF Capped
  <2> QED
    BY <1>1, <2>1, <2>2, BalanceStep DEF Abstract!Deposit, Balance, UnitsLeft, Capped, Abstract!Capped
<1>2. ASSUME NEW p \in Purchases, Abstract!Purchase(p)
      PROVE  Covered'
  <2>1. OwnerOf[p] \in Accounts /\ Balance[OwnerOf[p]] + Amount \in Nat /\ MaxBalance \in Nat
    BY Amounts
  <2>2. Balance[OwnerOf[p]] + Amount \in 0..MaxBalance
    BY <1>2, <2>1 DEF Abstract!Purchase, Balance, UnitsLeft
  <2> QED
    BY <1>2, <2>1, <2>2, BalanceStep DEF Abstract!Purchase, Balance, UnitsLeft
<1>3. ASSUME NEW a \in Accounts, Abstract!Withdraw(a)
      PROVE  Covered'
  <2>1. Amount <= Balance[a]
    BY <1>3 DEF Abstract!Withdraw, Balance
  <2>2. Balance[a] - Amount \in 0..MaxBalance
    BY <2>1, Amounts
  <2> QED
    BY <1>3, <2>2, BalanceStep DEF Abstract!Withdraw, Balance, UnitsLeft
<1>4. ASSUME NEW a \in Accounts, Abstract!Burn(a)
      PROVE  Covered'
  <2>1. FlatFee <= Balance[a]
    BY <1>4 DEF Abstract!Burn, Balance
  <2>2. Balance[a] - FlatFee \in 0..MaxBalance
    BY <2>1, Amounts
  <2> QED
    BY <1>4, <2>2, BalanceStep DEF Abstract!Burn, Balance, UnitsLeft
<1>5. CASE UNCHANGED <<Balance, hold, UnitsLeft>>
  BY <1>5, StillBacked DEF Covered
<1> QED
  BY <1>1, <1>2, <1>3, <1>4, <1>5, HoldStep, ListStep, CloseStep, ChargeStep, SettleStep
  DEF Abstract!Next, Abstract!Cool, Balance, UnitsLeft, Abstract!vars, Listings, Abstract!Listings

\* No operation of the currency tables overdraws a balance or takes it past
\* what its column holds, and the hold of a listed buy order always covers the
\* units that are still open, so that Settle and the refund of Close find the
\* money they pay out.
THEOREM NothingOverdrawn == Abstract!Spec => []Covered
<1>1. Abstract!Init => Covered
  BY InitCovered
<1>2. Covered /\ [Abstract!Next]_Abstract!vars => Covered'
  BY LedgerStep
<1> QED
  BY <1>1, <1>2, PTL DEF Abstract!Spec

\* Between any steps of any transactions no balance is overdrawn or too large
\* for its column, and the hold of a listed order is what its open units cost:
\* Settle and ReleaseTx, which pay out of the hold, always find that money.
THEOREM NeverOverdrawn == Spec => []Covered
BY TransactionsKeepLedger, NothingOverdrawn, PTL DEF ImplementsLedger
=============================================================================
