---------------------------- MODULE MarketProofs ----------------------------
(***************************************************************************)
(* What the market keeps, for every number of players, offers, references, *)
(* legs and requests: the hold of a buy order is what its open units cost, *)
(* what a taker gave for an offer stays in escrow until its leg delivers   *)
(* it, a leg is delivered once and dropped never, and a storage that the   *)
(* game has open is not touched.  No currency and no item appears or       *)
(* vanishes, and nobody buys more of a listing than there is.              *)
(***************************************************************************)
EXTENDS Market, SequenceTheorems, Sums

SameOffer(l, m) ==
  l.seller = m.seller /\ l.kind = m.kind /\ l.give = m.give /\ l.want = m.want /\ l.total = m.total

ListingRows ==
  {l \in [seller : Accounts, kind : Kinds, give : Goods, want : Goods, total : Nat \ {0}, remaining : Nat,
          status : Closed \cup {"active"}] :
     l.remaining <= l.total /\ (l.status = "active" => l.remaining > 0)}
EscrowRows == [owner : Accounts, good : Goods, amt : Nat \ {0}]
LegRows    == [ref : Refs, to : Accounts, amt : Nat, whole : BOOLEAN]
Calls      == [actor : Accounts, ref : Refs \cup {0}, wref : Refs \cup {0}, units : Nat, snap : ListingRows]
Snapshots  == [ref : Refs, snap : ListingRows]
Labels     == {"idle", "give", "persist", "burn", "prepare", "wants", "settle", "close"}

MoneyTypes == balance \in [Accounts -> 0..MaxBalance] /\ hold \in [Refs -> Nat] /\ burned \in Nat

ItemTypes ==
  /\ stash \in [Accounts -> [Goods -> Nat]]
  /\ escrow \in [Refs -> EscrowRows \cup {NoEscrow}] /\ aged \subseteq Refs

LegTypes ==
  /\ legs \in Seq(LegRows) /\ Len(legs) <= MaxLegs
  /\ received \in [LegIds -> Nat]
  /\ legDone \subseteq applied /\ applied \subseteq 1..Len(legs) /\ dtodo \subseteq 1..Len(legs)

RowTypes ==
  /\ listing \in [Refs -> ListingRows \cup {NoListing}] /\ nextRef \in 1..MaxRef + 1
  /\ etodo \subseteq Snapshots /\ orphans \subseteq Refs

CallTypes == pc \in [Handlers -> Labels] /\ op \in [Handlers -> Calls \cup {NoOp}]

MarketTypes == MoneyTypes /\ ItemTypes /\ LegTypes /\ RowTypes /\ CallTypes

\* What a handler or a job has read of a listing, and what cannot change of it.
ReadOf(snap, r) ==
  /\ r \in Refs /\ listing[r] # NoListing
  /\ snap.status = "active" /\ SameOffer(snap, listing[r])

Knows(p) ==
  /\ pc[p] # "idle" => op[p] \in Calls
  /\ pc[p] \in {"give", "persist"} => op[p].snap.status = "active" /\ op[p].snap.remaining = op[p].snap.total
  /\ pc[p] \in {"prepare", "wants", "settle", "close"} => ReadOf(op[p].snap, op[p].ref)
  /\ pc[p] \in {"prepare", "wants", "settle"} => op[p].units > 0
  /\ pc[p] \in {"prepare", "wants"} => op[p].wref = 0

\* The reference under which a handler has put something away that no listing
\* and no leg stands for yet; 0 if there is none.
Drawn(p) ==
  IF pc[p] = "persist" THEN op[p].ref ELSE IF pc[p] = "settle" THEN op[p].wref ELSE 0

\* It is the handler's alone: no other handler, listing, leg or job has it.
Private(p) ==
  /\ pc[p] = "persist" => Drawn(p) # 0
  /\ pc[p] = "settle" /\ WantsItem(op[p].snap) => Drawn(p) # 0 /\ escrow[Drawn(p)].amt > 0
  /\ Drawn(p) # 0 =>
       /\ Drawn(p) < nextRef /\ listing[Drawn(p)] = NoListing
       /\ Drawn(p) \notin aged \cup orphans
       /\ \A l \in 1..Len(legs) : legs[l].ref # Drawn(p)
       /\ \A q \in Handlers \ {p} : Drawn(q) # Drawn(p)

\* References that were not drawn yet stand for nothing.
Undrawn ==
  \A r \in Refs : r >= nextRef =>
    listing[r] = NoListing /\ hold[r] = 0 /\ escrow[r] = NoEscrow /\ r \notin aged \cup orphans

\* What a listing costs is in its hold as long as it can be taken.
Backing(l) == IF l.kind = "buy" /\ l.status = "active" THEN Price * l.remaining ELSE 0
HoldsBack ==
  /\ \A r \in Refs : listing[r] # NoListing => hold[r] = Backing(listing[r])
  /\ \A p \in Handlers : pc[p] = "persist" => hold[op[p].ref] = Backing(op[p].snap)

\* A leg moves the units of a listing, or all that a taker has put in escrow
\* under a reference that only this leg has.
LegOrigins ==
  \A l \in 1..Len(legs) :
    /\ legs[l].ref < nextRef
    /\ legs[l].amt = 0 <=> listing[legs[l].ref] = NoListing
    /\ legs[l].amt = 0 => legs[l].whole /\ \A k \in 1..Len(legs) \ {l} : legs[k].ref # legs[l].ref

\* The reconciler drops the references of pending legs before it returns any.
WantsBacked ==
  \A l \in 1..Len(legs) : legs[l].amt = 0 =>
    IF l \in applied THEN received[l] > 0
    ELSE escrow[legs[l].ref].amt > 0 /\ (rpc = "return" => legs[l].ref \notin orphans)

Deliveries ==
  /\ dpc = "mark" => dtodo # {} /\ Min(dtodo) \in applied
  /\ \A l \in LegIds : l \notin applied => received[l] = 0
  /\ DeliveredOnce

MarketInv ==
  /\ MarketTypes
  /\ \A p \in Handlers : Knows(p) /\ Private(p)
  /\ \A e \in etodo : ReadOf(e.snap, e.ref)
  /\ Undrawn /\ HoldsBack /\ LegOrigins /\ WantsBacked /\ Deliveries

-----------------------------------------------------------------------------
(* Arithmetic                                                              *)

LEMMA ProductNat ==
  ASSUME NEW m \in Nat, NEW n \in Nat
  PROVE  m * n \in Nat
OBVIOUS

LEMMA ProductMinus ==
  ASSUME NEW m \in Nat, NEW n \in Nat, NEW k \in Nat
  PROVE  m * n - m * k = m * (n - k)
OBVIOUS

\* The fee is no more than what is paid.
LEMMA NetBound ==
  ASSUME NEW gross \in Nat
  PROVE  Net(gross) \in 0..gross
<1>1. FeeBps \in 0..10000
  BY MarketBounds
<1>2. gross * FeeBps \in Nat /\ gross * FeeBps <= gross * 10000
  BY <1>1
<1>3. (gross * FeeBps) \div 10000 \in 0..gross
  <2> DEFINE p == gross * FeeBps
  <2> HIDE DEF p
  <2>1. p \in Nat /\ p <= gross * 10000
    BY <1>2 DEF p
  <2>2. p \div 10000 \in 0..gross
    BY <2>1
  <2> QED
    BY <2>2 DEF p
<1> QED
  BY <1>3 DEF Net

LEMMA MinIn ==
  ASSUME NEW S, S \subseteq Nat, S # {}
  PROVE  Min(S) \in S
<1> DEFINE R == {p \in Nat \X Nat : p[1] < p[2]}
<1>1. PICK x \in S : \A y \in S : <<y, x>> \notin R
  <2>1. IsWellFoundedOn(R, Nat)
    BY NatLessThanWellFounded, Zenon DEF OpToRel
  <2> HIDE DEF R
  <2> QED
    BY <2>1, WFMin, Zenon
<1>2. ASSUME NEW y \in S
      PROVE  x <= y
  <2>1. x \in Nat /\ y \in Nat /\ <<y, x>> \notin R
    BY <1>1
  <2> QED
    BY <2>1
<1> QED
  BY <1>2 DEF Min

-----------------------------------------------------------------------------
(* Handlers                                                                *)

\* What is in escrow is a row with an amount, or nothing.
LEMMA EscrowIs ==
  ASSUME ItemTypes, NEW r \in Refs
  PROVE  escrow[r].amt \in Nat /\ (escrow[r].amt > 0 => escrow[r] \in EscrowRows)
BY DEF ItemTypes, EscrowRows, NoEscrow

LEMMA ListingIs ==
  ASSUME RowTypes, NEW r \in Refs, listing[r] # NoListing
  PROVE  /\ listing[r] \in ListingRows
         /\ listing[r].seller \in Accounts /\ listing[r].kind \in Kinds
         /\ listing[r].give \in Goods /\ listing[r].want \in Goods
         /\ listing[r].total \in Nat \ {0} /\ listing[r].remaining \in 0..listing[r].total
         /\ listing[r].status \in Closed \cup {"active"}
         /\ listing[r].status = "active" => listing[r].remaining > 0
BY DEF RowTypes, ListingRows

LEMMA LegIs ==
  ASSUME LegTypes, NEW l \in 1..Len(legs)
  PROVE  /\ legs[l] \in LegRows /\ legs[l].ref \in Refs /\ legs[l].to \in Accounts
         /\ legs[l].amt \in Nat /\ legs[l].whole \in BOOLEAN /\ l \in LegIds
<1>1. legs \in Seq(LegRows) /\ Len(legs) \in Nat /\ Len(legs) <= MaxLegs /\ MaxLegs \in Nat
  BY MarketBounds DEF LegTypes
<1>2. legs[l] \in LegRows
  BY <1>1
<1>3. l \in LegIds
  BY <1>1 DEF LegIds
<1> QED
  BY <1>2, <1>3 DEF LegRows

LEMMA NoListingHas ==
  ASSUME NEW l \in ListingRows
  PROVE  l # NoListing /\ l.status # "none"
BY DEF ListingRows, NoListing, Closed

\* A handler goes on, and the others stay where they are.
LEMMA Moves ==
  ASSUME CallTypes, NEW p \in Handlers, NEW label \in Labels, NEW o \in Calls \cup {NoOp},
         Goto(p, label, o)
  PROVE  /\ CallTypes' /\ pc'[p] = label /\ op'[p] = o
         /\ \A q \in Handlers \ {p} : pc'[q] = pc[q] /\ op'[q] = op[q] /\ Drawn(q)' = Drawn(q)
<1>1. CallTypes' /\ pc'[p] = label /\ op'[p] = o
  BY DEF Goto, CallTypes
<1>2. \A q \in Handlers \ {p} : pc'[q] = pc[q] /\ op'[q] = op[q]
  BY DEF Goto, CallTypes
<1> QED
  BY <1>1, <1>2 DEF Drawn

LEMMA Returns ==
  ASSUME CallTypes, NEW p \in Handlers, Return(p)
  PROVE  /\ CallTypes' /\ pc'[p] = "idle" /\ op'[p] = NoOp /\ Drawn(p)' = 0
         /\ \A q \in Handlers \ {p} : pc'[q] = pc[q] /\ op'[q] = op[q] /\ Drawn(q)' = Drawn(q)
<1>1. Goto(p, "idle", NoOp) /\ "idle" \in Labels /\ NoOp \in Calls \cup {NoOp}
  BY DEF Return, Labels
<1>2. /\ CallTypes' /\ pc'[p] = "idle" /\ op'[p] = NoOp
      /\ \A q \in Handlers \ {p} : pc'[q] = pc[q] /\ op'[q] = op[q] /\ Drawn(q)' = Drawn(q)
  BY <1>1, Moves
<1> QED
  BY <1>2 DEF Drawn

LEMMA HandlersStay ==
  ASSUME UNCHANGED <<pc, op>>
  PROVE  \A q \in Handlers : pc'[q] = pc[q] /\ op'[q] = op[q] /\ Drawn(q)' = Drawn(q)
BY DEF Drawn

LEMMA IdleKnows ==
  ASSUME NEW p \in Handlers, pc'[p] = "idle"
  PROVE  Knows(p)' /\ Private(p)' /\ Drawn(p)' = 0
BY DEF Knows, Private, Drawn

\* Listings come to be and change, but they never go and stay the same offers.
OffersStay ==
  \A r \in Refs : listing[r] # NoListing => listing'[r] # NoListing /\ SameOffer(listing[r], listing'[r])

LEMMA SameOffers ==
  ASSUME UNCHANGED listing
  PROVE  OffersStay
BY DEF OffersStay, SameOffer

LEMMA ReadStays ==
  ASSUME OffersStay, NEW snap, NEW r, ReadOf(snap, r)
  PROVE  /\ r \in Refs /\ listing'[r] # NoListing
         /\ snap.status = "active" /\ SameOffer(snap, listing'[r])
BY DEF OffersStay, ReadOf, SameOffer

LEMMA KnowsStays ==
  ASSUME OffersStay, NEW q \in Handlers, Knows(q), pc'[q] = pc[q], op'[q] = op[q]
  PROVE  Knows(q)'
<1>1. pc[q] \in {"prepare", "wants", "settle", "close"} =>
        /\ op[q].ref \in Refs /\ listing'[op[q].ref] # NoListing
        /\ op[q].snap.status = "active" /\ SameOffer(op[q].snap, listing'[op[q].ref])
  BY ReadStays DEF Knows
<1> QED
  BY <1>1 DEF Knows, ReadOf, SameOffer

\* What a handler has drawn stays its own.
LEMMA PrivateStays ==
  ASSUME NEW q \in Handlers, Private(q), pc'[q] = pc[q], op'[q] = op[q],
         Drawn(q) # 0 =>
           /\ Drawn(q) < nextRef' /\ listing'[Drawn(q)] = NoListing
           /\ Drawn(q) \notin aged' \cup orphans'
           /\ \A l \in 1..Len(legs') : legs'[l].ref # Drawn(q)
           /\ \A s \in Handlers \ {q} : Drawn(s)' # Drawn(q)
           /\ escrow'[Drawn(q)] = escrow[Drawn(q)]
  PROVE  Private(q)'
<1>1. Drawn(q)' = Drawn(q)
  BY DEF Drawn
<1> QED
  BY <1>1 DEF Private, WantsItem

-----------------------------------------------------------------------------
(* The start                                                               *)

LEMMA InitMarketInv == Init => MarketInv
<1> SUFFICES ASSUME Init
             PROVE  MarketInv
  OBVIOUS
<1>1. /\ Len(legs) = 0 /\ 1..Len(legs) = {} /\ legs \in Seq(LegRows)
      /\ legDone = {} /\ applied = {} /\ dtodo = {} /\ etodo = {} /\ orphans = {} /\ aged = {}
  BY DEF Init
<1>2. MoneyTypes
  BY MarketBounds DEF Init, MoneyTypes
<1>3. ItemTypes
  BY <1>1, MarketBounds DEF Init, ItemTypes
<1>4. LegTypes
  BY <1>1, MarketBounds DEF Init, LegTypes
<1>5. RowTypes
  BY <1>1, MarketBounds DEF Init, RowTypes
<1>6. CallTypes
  BY DEF Init, CallTypes, Labels
<1>7. \A p \in Handlers : pc[p] = "idle"
  BY DEF Init
<1>8. \A p \in Handlers : Knows(p) /\ Private(p)
  BY <1>7 DEF Knows, Private, Drawn
<1>9. Undrawn
  BY <1>1 DEF Init, Undrawn
<1>10. HoldsBack
  BY <1>7 DEF Init, HoldsBack
<1>11. LegOrigins /\ WantsBacked
  BY <1>1 DEF LegOrigins, WantsBacked
<1>12. Deliveries
  BY <1>1 DEF Init, Deliveries, DeliveredOnce
<1> QED
  BY <1>1, <1>2, <1>3, <1>4, <1>5, <1>6, <1>8, <1>9, <1>10, <1>11, <1>12 DEF MarketInv, MarketTypes

-----------------------------------------------------------------------------
(* Steps that leave the tables alone                                       *)

Rows   == <<hold, listing, legs, legDone, nextRef, gameVars, deliverVars, etodo, reconVars>>
Tables == <<balance, burned, Rows>>

\* A handler that only reads, or gives up, or pays a fee.
LEMMA ReadsKeep ==
  ASSUME MarketInv, UNCHANGED Rows, MoneyTypes', NEW p \in Handlers, CallTypes', Knows(p)',
         Drawn(p)' = 0, pc'[p] # "persist", pc'[p] = "settle" => ~WantsItem(op'[p].snap),
         \A q \in Handlers \ {p} : pc'[q] = pc[q] /\ op'[q] = op[q] /\ Drawn(q)' = Drawn(q)
  PROVE  MarketInv'
<1> USE DEF MarketInv
<1>1. UNCHANGED <<hold, listing, legs, legDone, nextRef, stash, escrow, aged, applied,
                  received, dpc, dtodo, etodo, rpc, orphans>>
  BY DEF Rows, gameVars, deliverVars, reconVars
<1>2. ItemTypes'
  BY <1>1 DEF MarketTypes, ItemTypes
<1>3. LegTypes' /\ RowTypes'
  BY <1>1 DEF MarketTypes, LegTypes, RowTypes
<1>4. OffersStay
  BY <1>1, SameOffers
<1>5. ASSUME NEW q \in Handlers
      PROVE  Knows(q)' /\ Private(q)'
  <2>1. CASE q = p
    BY <2>1 DEF Private
  <2>2. CASE q # p
    <3>1. Knows(q)'
      BY <1>4, <2>2, KnowsStays
    <3>2. Private(q)'
      BY <1>1, <2>2, PrivateStays DEF Private
    <3> QED
      BY <3>1, <3>2
  <2> QED
    BY <2>1, <2>2
<1>6. \A e \in etodo' : ReadOf(e.snap, e.ref)'
  BY <1>1 DEF ReadOf, SameOffer
<1>7. Undrawn'
  BY <1>1 DEF Undrawn
<1>8. HoldsBack'
  <2>1. \A r \in Refs : listing'[r] # NoListing => hold'[r] = Backing(listing'[r])
    BY <1>1 DEF HoldsBack
  <2>2. ASSUME NEW q \in Handlers, pc'[q] = "persist"
        PROVE  hold'[op'[q].ref] = Backing(op'[q].snap)
    BY <1>1, <2>2 DEF HoldsBack
  <2> QED
    BY <2>1, <2>2 DEF HoldsBack, Backing
<1>9. LegOrigins' /\ WantsBacked'
  BY <1>1 DEF LegOrigins, WantsBacked
<1>10. Deliveries'
  BY <1>1 DEF Deliveries, DeliveredOnce
<1> QED
  BY <1>2, <1>3, <1>5, <1>6, <1>7, <1>8, <1>9, <1>10 DEF MarketTypes

LEMMA TablesKeep ==
  ASSUME MarketInv, UNCHANGED Tables
  PROVE  MoneyTypes' /\ UNCHANGED Rows
<1>1. UNCHANGED <<balance, burned, hold>> /\ UNCHANGED Rows
  BY DEF Tables, Rows
<1> QED
  BY <1>1 DEF MarketInv, MarketTypes, MoneyTypes

\* It gives up.
LEMMA ReturnKeeps ==
  ASSUME MarketInv, UNCHANGED Tables, NEW p \in Handlers, Return(p)
  PROVE  MarketInv'
<1>1. CallTypes
  BY DEF MarketInv, MarketTypes
<1>2. /\ CallTypes' /\ pc'[p] = "idle" /\ Drawn(p)' = 0
      /\ \A q \in Handlers \ {p} : pc'[q] = pc[q] /\ op'[q] = op[q] /\ Drawn(q)' = Drawn(q)
  BY <1>1, Returns
<1>3. Knows(p)'
  BY <1>2, IdleKnows
<1> QED
  BY <1>2, <1>3, TablesKeep, ReadsKeep

\* It goes on with a snapshot of the listing, or of the offer that was made.
LEMMA GotoKeeps ==
  ASSUME MarketInv, UNCHANGED Tables, NEW p \in Handlers, NEW o \in Calls,
         NEW label \in {"give", "prepare", "wants", "settle", "close"}, Goto(p, label, o),
         label = "give" => o.snap.status = "active" /\ o.snap.remaining = o.snap.total,
         label # "give" => ReadOf(o.snap, o.ref),
         label \in {"prepare", "wants", "settle"} => o.units > 0 /\ o.wref = 0,
         label = "settle" => ~WantsItem(o.snap)
  PROVE  MarketInv'
<1>1. CallTypes /\ label \in Labels
  BY DEF MarketInv, MarketTypes, Labels
<1>2. /\ CallTypes' /\ pc'[p] = label /\ op'[p] = o
      /\ \A q \in Handlers \ {p} : pc'[q] = pc[q] /\ op'[q] = op[q] /\ Drawn(q)' = Drawn(q)
  BY <1>1, Moves
<1>3. Drawn(p)' = 0
  BY <1>2 DEF Drawn
<1>4. UNCHANGED listing
  BY DEF Tables, Rows
<1>5. label # "give" => op'[p].ref \in Refs /\ listing'[op'[p].ref] # NoListing
                        /\ op'[p].snap.status = "active" /\ SameOffer(op'[p].snap, listing'[op'[p].ref])
  BY <1>2, <1>4 DEF ReadOf
<1>6. Knows(p)'
  BY <1>2, <1>5 DEF Knows, ReadOf, SameOffer
<1>7. pc'[p] # "persist" /\ (pc'[p] = "settle" => ~WantsItem(op'[p].snap))
  BY <1>2 DEF WantsItem
<1> QED
  BY <1>2, <1>3, <1>6, <1>7, TablesKeep, ReadsKeep

LEMMA FrameTables ==
  ASSUME HandlerFrame, UNCHANGED <<pgVars, nextRef, stash, escrow>>
  PROVE  UNCHANGED Tables
BY DEF HandlerFrame, Tables, Rows, pgVars, gameVars

LEMMA CallIs ==
  ASSUME MarketInv, NEW p \in Handlers, pc[p] # "idle"
  PROVE  /\ op[p] \in Calls /\ op[p].actor \in Accounts /\ op[p].ref \in Refs \cup {0}
         /\ op[p].wref \in Refs \cup {0} /\ op[p].units \in Nat /\ op[p].snap \in ListingRows
         /\ Knows(p) /\ Private(p)
BY DEF MarketInv, Knows, Calls

LEMMA CreateKeeps ==
  ASSUME MarketInv, NEW p \in Handlers, NEW a \in Accounts, NEW o \in Offers, Create(p, a, o)
  PROVE  MarketInv'
<1> DEFINE call == [actor |-> a, ref |-> 0, wref |-> 0, units |-> 0, snap |-> NewListing(a, o)]
<1>1. UNCHANGED Tables
  BY FrameTables DEF Create
<1>2. NewListing(a, o) \in ListingRows
  BY OffersAssumption DEF NewListing, ListingRows
<1>3. call \in Calls
  BY <1>2 DEF Calls
<1>4. call.snap.status = "active" /\ call.snap.remaining = call.snap.total
  BY DEF NewListing
<1>5. Goto(p, "give", call)
  BY DEF Create
<1> HIDE DEF call
<1> QED
  BY <1>1, <1>3, <1>4, <1>5, GotoKeeps

LEMMA TakeKeeps ==
  ASSUME MarketInv, NEW p \in Handlers, NEW a \in Accounts, NEW r \in Refs, NEW n \in Units, Take(p, a, r, n)
  PROVE  MarketInv'
<1> DEFINE call == [actor |-> a, ref |-> r, wref |-> 0, units |-> n, snap |-> listing[r]]
<1>1. UNCHANGED Tables /\ Goto(p, "prepare", call)
  BY FrameTables DEF Take
<1>2. listing[r].status = "active" /\ n \in 1..listing[r].remaining
  BY DEF Take
<1>3. listing[r] # NoListing
  BY <1>2 DEF NoListing
<1>4. listing[r] \in ListingRows /\ listing[r].remaining \in Nat
  BY <1>3, ListingIs DEF MarketInv, MarketTypes
<1>5. n \in Nat /\ n > 0
  BY <1>2, <1>4
<1>6. call \in Calls /\ call.units > 0 /\ call.wref = 0 /\ call.ref = r /\ call.snap = listing[r]
  BY <1>4, <1>5 DEF Calls
<1>7. ReadOf(listing[r], r)
  BY <1>2, <1>3 DEF ReadOf, SameOffer
<1> HIDE DEF call
<1> QED
  BY <1>1, <1>6, <1>7, GotoKeeps

LEMMA CancelKeeps ==
  ASSUME MarketInv, NEW p \in Handlers, NEW a \in Accounts, NEW r \in Refs, Cancel(p, a, r)
  PROVE  MarketInv'
<1> DEFINE call == [actor |-> a, ref |-> r, wref |-> 0, units |-> 0, snap |-> listing[r]]
<1>1. UNCHANGED Tables /\ Goto(p, "close", call)
  BY FrameTables DEF Cancel
<1>2. listing[r].status = "active"
  BY DEF Cancel
<1>3. listing[r] # NoListing
  BY <1>2 DEF NoListing
<1>4. listing[r] \in ListingRows
  BY <1>3, ListingIs DEF MarketInv, MarketTypes
<1>5. call \in Calls /\ call.ref = r /\ call.snap = listing[r]
  BY <1>4 DEF Calls
<1>6. ReadOf(listing[r], r)
  BY <1>2, <1>3 DEF ReadOf, SameOffer
<1> HIDE DEF call
<1> QED
  BY <1>1, <1>5, <1>6, GotoKeeps

LEMMA PrepareKeeps ==
  ASSUME MarketInv, NEW p \in Handlers, PrepareTake(p)
  PROVE  MarketInv'
<1>1. UNCHANGED Tables /\ pc[p] = "prepare"
  BY FrameTables DEF PrepareTake
<1>2. op[p] \in Calls /\ ReadOf(op[p].snap, op[p].ref) /\ op[p].units > 0 /\ op[p].wref = 0
  BY <1>1, CallIs DEF Knows
<1>3. CASE Return(p)
  BY <1>1, <1>3, ReturnKeeps
<1>4. CASE Goto(p, "wants", op[p])
  BY <1>1, <1>2, <1>4, GotoKeeps
<1>5. CASE Goto(p, "settle", op[p]) /\ ~WantsItem(op[p].snap)
  BY <1>1, <1>2, <1>5, GotoKeeps
<1> QED
  BY <1>3, <1>4, <1>5 DEF PrepareTake

LEMMA GivesUpKeeps ==
  ASSUME MarketInv, NEW p \in Handlers,
         \/ ApplyGiveSideRejected(p) \/ EscrowTakerWantRejected(p) \/ TakeRolledBack(p) \/ HandlerFails(p)
  PROVE  MarketInv'
<1>1. Return(p) /\ HandlerFrame /\ UNCHANGED <<pgVars, nextRef, stash, escrow>>
  BY DEF ApplyGiveSideRejected, EscrowTakerWantRejected, TakeRolledBack, HandlerFails
<1> QED
  BY <1>1, FrameTables, ReturnKeeps

-----------------------------------------------------------------------------
(* What an offer gives, and what a taker gives                             *)

LEMMA FrameIs ==
  ASSUME HandlerFrame
  PROVE  UNCHANGED <<aged, applied, received, dpc, dtodo, etodo, rpc, orphans>>
BY DEF HandlerFrame, deliverVars, reconVars

\* A handler draws the next reference and puts something away under it.
LEMMA DrawKeeps ==
  ASSUME MarketInv, NEW p \in Handlers, NEW label \in {"persist", "settle"}, NEW o \in Calls,
         nextRef \in Refs, nextRef' = nextRef + 1, Goto(p, label, o), HandlerFrame,
         UNCHANGED <<burned, listing, legs, legDone>>,
         MoneyTypes', ItemTypes',
         \A r \in Refs \ {nextRef} : hold'[r] = hold[r] /\ escrow'[r] = escrow[r],
         label = "persist" =>
           /\ o.ref = nextRef /\ o.snap.status = "active" /\ o.snap.remaining = o.snap.total
           /\ hold'[nextRef] = Backing(o.snap),
         label = "settle" =>
           o.wref = nextRef /\ ReadOf(o.snap, o.ref) /\ o.units > 0 /\ escrow'[nextRef].amt > 0
  PROVE  MarketInv'
<1> USE DEF MarketInv
<1>1. UNCHANGED <<aged, applied, received, dpc, dtodo, etodo, rpc, orphans>>
  BY FrameIs
<1>2. CallTypes /\ label \in Labels /\ nextRef \in Nat /\ \A r \in Refs : r \in Nat
  BY MarketBounds DEF MarketTypes, Labels, Refs
<1>3. /\ CallTypes' /\ pc'[p] = label /\ op'[p] = o
      /\ \A q \in Handlers \ {p} : pc'[q] = pc[q] /\ op'[q] = op[q] /\ Drawn(q)' = Drawn(q)
  BY <1>2, Moves
<1>4. Drawn(p)' = nextRef
  BY <1>3 DEF Drawn
<1>5. /\ nextRef # 0 /\ listing[nextRef] = NoListing /\ nextRef \notin aged \cup orphans
      /\ \A l \in 1..Len(legs) : legs[l].ref # nextRef
      /\ \A q \in Handlers : Drawn(q) # nextRef
  <2>1. \A l \in 1..Len(legs) : legs[l].ref # nextRef
    BY <1>2 DEF LegOrigins
  <2>2. \A q \in Handlers : Drawn(q) # nextRef
    BY <1>2 DEF Private, Refs
  <2> QED
    BY <1>2, <2>1, <2>2 DEF Undrawn, Refs
<1>6. LegTypes' /\ RowTypes'
  <2>1. nextRef' \in 1..MaxRef + 1
    BY <1>2, MarketBounds DEF Refs
  <2> QED
    BY <1>1, <2>1 DEF MarketTypes, LegTypes, RowTypes
<1>7. OffersStay
  BY SameOffers
<1>8. Knows(p)'
  <2>1. CASE label = "persist"
    BY <1>3, <2>1 DEF Knows
  <2>2. CASE label = "settle"
    BY <1>3, <2>2 DEF Knows, ReadOf, SameOffer
  <2> QED
    BY <2>1, <2>2
<1>9. Private(p)'
  BY <1>1, <1>2, <1>3, <1>4, <1>5 DEF Private
<1>10. ASSUME NEW q \in Handlers \ {p}
       PROVE  Knows(q)' /\ Private(q)'
  <2>1. Knows(q)'
    BY <1>3, <1>7, KnowsStays
  <2>2. ASSUME Drawn(q) # 0
        PROVE  /\ Drawn(q) < nextRef' /\ listing'[Drawn(q)] = NoListing
               /\ Drawn(q) \notin aged' \cup orphans'
               /\ \A l \in 1..Len(legs') : legs'[l].ref # Drawn(q)
               /\ \A s \in Handlers \ {q} : Drawn(s)' # Drawn(q)
               /\ escrow'[Drawn(q)] = escrow[Drawn(q)]
    <3>1. Private(q) /\ Drawn(q) # nextRef
      BY <1>5
    <3>2. Drawn(q) \in Refs
      BY <2>2 DEF Drawn, MarketTypes, CallTypes, Calls, Knows
    <3>3. \A s \in Handlers \ {q} : Drawn(s)' # Drawn(q)
      BY <1>3, <1>4, <2>2, <3>1 DEF Private
    <3>4. Drawn(q) < nextRef' /\ escrow'[Drawn(q)] = escrow[Drawn(q)]
      <4>1. Drawn(q) < nextRef /\ Drawn(q) \in Nat /\ Drawn(q) \in Refs \ {nextRef}
        BY <1>2, <2>2, <3>1, <3>2 DEF Private
      <4> HIDE DEF Drawn
      <4> QED
        BY <1>2, <4>1
    <3> QED
      BY <1>1, <2>2, <3>1, <3>3, <3>4 DEF Private
  <2>3. Private(q)'
    BY <1>3, <2>2, PrivateStays
  <2> QED
    BY <2>1, <2>3
<1>11. \A e \in etodo' : ReadOf(e.snap, e.ref)'
  BY <1>1 DEF ReadOf, SameOffer
<1>12. Undrawn'
  <2> SUFFICES ASSUME NEW r \in Refs, r >= nextRef + 1
               PROVE  listing[r] = NoListing /\ hold'[r] = 0 /\ escrow'[r] = NoEscrow /\ r \notin aged \cup orphans
    BY <1>1 DEF Undrawn
  <2>1. r # nextRef /\ r >= nextRef
    BY <1>2
  <2> QED
    BY <2>1 DEF Undrawn
<1>13. HoldsBack'
  <2>1. \A r \in Refs : listing'[r] # NoListing => hold'[r] = Backing(listing'[r])
    BY <1>5 DEF HoldsBack
  <2>2. ASSUME NEW q \in Handlers, pc'[q] = "persist"
        PROVE  hold'[op'[q].ref] = Backing(op'[q].snap)
    <3>1. CASE q = p
      BY <1>3, <2>2, <3>1
    <3>2. CASE q # p
      <4>1. pc[q] = "persist" /\ op'[q] = op[q]
        BY <1>3, <2>2, <3>2
      <4>2. op[q].ref = Drawn(q) /\ op[q].ref # 0 /\ op[q] \in Calls
        BY <4>1 DEF Drawn, Private, Knows
      <4>3. op[q].ref \in Refs \ {nextRef}
        BY <1>5, <4>2 DEF Calls
      <4> QED
        BY <4>1, <4>3 DEF HoldsBack
    <3> QED
      BY <3>1, <3>2
  <2> QED
    BY <2>1, <2>2 DEF HoldsBack, Backing
<1>14. LegOrigins'
  <2>1. \A l \in 1..Len(legs) : legs[l].ref < nextRef'
    <3> SUFFICES ASSUME NEW l \in 1..Len(legs)
                 PROVE  legs[l].ref < nextRef'
      OBVIOUS
    <3>1. legs[l].ref \in Nat
      BY <1>2, LegIs DEF MarketTypes
    <3>2. legs[l].ref < nextRef
      BY DEF LegOrigins
    <3> QED
      BY <1>2, <3>1, <3>2
  <2> QED
    BY <2>1 DEF LegOrigins
<1>15. WantsBacked'
  <2>1. \A l \in 1..Len(legs) : legs[l].ref \in Refs \ {nextRef}
    BY <1>5, LegIs DEF MarketTypes
  <2> QED
    BY <1>1, <2>1 DEF WantsBacked
<1>16. Deliveries'
  BY <1>1 DEF Deliveries, DeliveredOnce
<1> QED
  BY <1>3, <1>6, <1>8, <1>9, <1>10, <1>11, <1>12, <1>13, <1>14, <1>15, <1>16 DEF MarketTypes

LEMMA EscrowMoves ==
  ASSUME ItemTypes, NEW a \in Accounts, NEW r \in Refs, NEW g \in Goods, NEW n \in Nat \ {0},
         MoveToEscrow(a, r, g, n), UNCHANGED aged
  PROVE  /\ ItemTypes' /\ escrow'[r].amt > 0
         /\ \A s \in Refs \ {r} : escrow'[s] = escrow[s]
<1> DEFINE row == [owner |-> a, good |-> g, amt |-> n]
<1>1. row \in EscrowRows /\ row.amt = n
  BY DEF EscrowRows
<1>2. escrow' = [escrow EXCEPT ![r] = row]
  BY DEF MoveToEscrow
<1> HIDE DEF row
<1>3. escrow' \in [Refs -> EscrowRows \cup {NoEscrow}]
  BY <1>1, <1>2 DEF ItemTypes
<1>4. escrow'[r] = row /\ \A s \in Refs \ {r} : escrow'[s] = escrow[s]
  BY <1>2 DEF ItemTypes
<1>5. stash' \in [Accounts -> [Goods -> Nat]]
  <2>1. stash' = [stash EXCEPT ![a][g] = @ - n] /\ n <= stash[a][g] /\ stash[a][g] \in Nat
    BY DEF MoveToEscrow, CanMove, ItemTypes
  <2>2. stash[a][g] - n \in Nat
    BY <2>1
  <2> QED
    BY <2>1, <2>2 DEF ItemTypes
<1> QED
  BY <1>1, <1>3, <1>4, <1>5 DEF ItemTypes

LEMMA GiveKeeps ==
  ASSUME MarketInv, NEW p \in Handlers, ApplyGiveSide(p)
  PROVE  MarketInv'
<1> DEFINE l == op[p].snap
           o == [op[p] EXCEPT !.ref = nextRef]
<1>1. pc[p] = "give" /\ nextRef \in Refs /\ nextRef' = nextRef + 1 /\ Goto(p, "persist", o) /\ HandlerFrame
      /\ UNCHANGED <<listing, legs, legDone, burned>>
  BY DEF ApplyGiveSide
<1>2. /\ op[p] \in Calls /\ l \in ListingRows /\ l.status = "active" /\ l.remaining = l.total
      /\ l.seller \in Accounts /\ l.give \in Goods /\ l.total \in Nat \ {0} /\ l.kind \in Kinds
  BY <1>1, CallIs DEF Knows, ListingRows
<1>3. o \in Calls /\ o.ref = nextRef /\ o.snap = l
  BY <1>1, <1>2 DEF Calls
<1>4. hold[nextRef] = 0 /\ MoneyTypes /\ ItemTypes
  BY <1>1, MarketBounds DEF MarketInv, MarketTypes, Undrawn, Refs
<1>5. UNCHANGED aged
  BY <1>1, FrameIs
<1> HIDE DEF o, l
<1>6. CASE GivesItem(l) /\ MoveToEscrow(l.seller, nextRef, l.give, l.total) /\ UNCHANGED <<balance, hold>>
  <2>1. ItemTypes' /\ \A s \in Refs \ {nextRef} : escrow'[s] = escrow[s]
    BY <1>1, <1>2, <1>4, <1>5, <1>6, EscrowMoves
  <2>2. MoneyTypes'
    BY <1>1, <1>4, <1>6 DEF MoneyTypes
  <2>3. Backing(l) = 0
    BY <1>6 DEF Backing, GivesItem
  <2> QED
    BY <1>1, <1>2, <1>3, <1>4, <1>6, <2>1, <2>2, <2>3, DrawKeeps
<1>7. CASE /\ ~GivesItem(l) /\ Price * l.total <= balance[l.seller]
           /\ balance' = [balance EXCEPT ![l.seller] = @ - Price * l.total]
           /\ hold' = [hold EXCEPT ![nextRef] = Price * l.total]
           /\ UNCHANGED <<stash, escrow>>
  <2> DEFINE cost == Price * l.total
  <2>1. cost \in Nat
    BY <1>2, ProductNat, MarketBounds
  <2>2. cost = Backing(l)
    BY <1>2, <1>7 DEF Backing, GivesItem, Kinds
  <2>3. /\ cost <= balance[l.seller] /\ balance' = [balance EXCEPT ![l.seller] = @ - cost]
        /\ hold' = [hold EXCEPT ![nextRef] = cost]
    BY <1>7
  <2> HIDE DEF cost
  <2>4. balance[l.seller] - cost \in 0..MaxBalance
    BY <1>2, <1>4, <2>1, <2>3, MarketBounds DEF MoneyTypes
  <2>5. MoneyTypes'
    BY <1>1, <1>4, <2>1, <2>3, <2>4 DEF MoneyTypes
  <2>6. hold'[nextRef] = Backing(l) /\ \A s \in Refs \ {nextRef} : hold'[s] = hold[s]
    BY <1>1, <1>4, <2>2, <2>3 DEF MoneyTypes
  <2>7. ItemTypes'
    BY <1>4, <1>5, <1>7 DEF ItemTypes
  <2> QED
    BY <1>1, <1>2, <1>3, <1>7, <2>5, <2>6, <2>7, DrawKeeps
<1> QED
  BY <1>6, <1>7 DEF ApplyGiveSide, l

LEMMA WantKeeps ==
  ASSUME MarketInv, NEW p \in Handlers, EscrowTakerWant(p)
  PROVE  MarketInv'
<1> DEFINE o == [op[p] EXCEPT !.wref = nextRef]
           g == op[p].snap.want
<1>1. pc[p] = "wants" /\ nextRef \in Refs /\ nextRef' = nextRef + 1 /\ Goto(p, "settle", o) /\ HandlerFrame
      /\ MoveToEscrow(op[p].actor, nextRef, g, op[p].units)
      /\ UNCHANGED <<balance, hold, listing, legs, legDone, burned>>
  BY DEF EscrowTakerWant, pgVars
<1>2. /\ op[p] \in Calls /\ op[p].actor \in Accounts /\ op[p].units \in Nat \ {0} /\ g \in Goods
      /\ ReadOf(op[p].snap, op[p].ref)
  BY <1>1, CallIs DEF Knows, ListingRows
<1>3. o \in Calls /\ o.wref = nextRef /\ o.ref = op[p].ref /\ o.snap = op[p].snap /\ o.units = op[p].units
  BY <1>1, <1>2 DEF Calls
<1>4. MoneyTypes /\ ItemTypes /\ UNCHANGED aged
  BY <1>1, FrameIs DEF MarketInv, MarketTypes
<1> HIDE DEF o, g
<1>5. ItemTypes' /\ escrow'[nextRef].amt > 0 /\ \A s \in Refs \ {nextRef} : escrow'[s] = escrow[s]
  BY <1>1, <1>2, <1>4, EscrowMoves
<1>6. MoneyTypes'
  BY <1>1, <1>4 DEF MoneyTypes
<1>7. ReadOf(o.snap, o.ref) /\ o.units > 0
  BY <1>2, <1>3
<1> QED
  BY <1>1, <1>3, <1>5, <1>6, <1>7, DrawKeeps

LEMMA BurnKeeps ==
  ASSUME MarketInv, NEW p \in Handlers, Burn(p)
  PROVE  MarketInv'
<1>1. pc[p] = "burn" /\ Return(p) /\ UNCHANGED Rows
  BY DEF Burn, HandlerFrame, Rows, gameVars
<1>2. op[p].actor \in Accounts /\ CallTypes /\ MoneyTypes
  BY <1>1, CallIs DEF MarketInv, MarketTypes
<1>3. MoneyTypes'
  <2>1. PICK fee \in {FlatFee, 0} :
          /\ balance' = [balance EXCEPT ![op[p].actor] = @ - fee] /\ burned' = burned + fee
          /\ fee <= balance[op[p].actor]
    <3>1. balance[op[p].actor] >= 0
      BY <1>2, MarketBounds DEF MoneyTypes
    <3> QED
      BY <3>1 DEF Burn
  <2>2. fee \in Nat /\ balance[op[p].actor] - fee \in 0..MaxBalance
    BY <1>2, <2>1, MarketBounds DEF MoneyTypes
  <2>3. UNCHANGED hold
    BY DEF Burn
  <2> QED
    BY <1>2, <2>1, <2>2, <2>3 DEF MoneyTypes
<1>4. /\ CallTypes' /\ pc'[p] = "idle" /\ Drawn(p)' = 0
      /\ \A q \in Handlers \ {p} : pc'[q] = pc[q] /\ op'[q] = op[q] /\ Drawn(q)' = Drawn(q)
  BY <1>1, <1>2, Returns
<1>5. Knows(p)'
  BY <1>4, IdleKnows
<1> QED
  BY <1>1, <1>3, <1>4, <1>5, ReadsKeep

LEMMA PersistKeeps ==
  ASSUME MarketInv, NEW p \in Handlers, PersistListing(p)
  PROVE  MarketInv'
<1> USE DEF MarketInv
<1> DEFINE r == op[p].ref
           l == op[p].snap
<1>1. /\ pc[p] = "persist" /\ listing' = [listing EXCEPT ![r] = l] /\ Goto(p, "burn", op[p])
      /\ HandlerFrame /\ UNCHANGED <<balance, hold, legs, legDone, burned, nextRef, stash, escrow>>
  BY DEF PersistListing
<1>2. UNCHANGED <<aged, applied, received, dpc, dtodo, etodo, rpc, orphans>>
  BY <1>1, FrameIs
<1>3. op[p] \in Calls /\ l \in ListingRows /\ l # NoListing /\ r \in Refs \cup {0}
  BY <1>1, CallIs, NoListingHas
<1>4. /\ r # 0 /\ Drawn(p) = r /\ r < nextRef /\ listing[r] = NoListing
      /\ \A k \in 1..Len(legs) : legs[k].ref # r
      /\ \A q \in Handlers \ {p} : Drawn(q) # r
  BY <1>1 DEF Private, Drawn
<1>5. r \in Refs
  BY <1>3, <1>4
<1>6. hold[r] = Backing(l)
  BY <1>1 DEF HoldsBack
<1>7. CallTypes /\ "burn" \in Labels
  BY DEF MarketTypes, Labels
<1>8. /\ CallTypes' /\ pc'[p] = "burn" /\ op'[p] = op[p]
      /\ \A q \in Handlers \ {p} : pc'[q] = pc[q] /\ op'[q] = op[q] /\ Drawn(q)' = Drawn(q)
  BY <1>1, <1>3, <1>7, Moves
<1>9. Drawn(p)' = 0
  BY <1>8 DEF Drawn
<1>10. listing'[r] = l /\ \A s \in Refs \ {r} : listing'[s] = listing[s]
  BY <1>1, <1>5 DEF MarketTypes, RowTypes
<1>11. MoneyTypes' /\ ItemTypes' /\ LegTypes'
  BY <1>1, <1>2 DEF MarketTypes, MoneyTypes, ItemTypes, LegTypes
<1>12. RowTypes'
  BY <1>1, <1>2, <1>3 DEF MarketTypes, RowTypes
<1> HIDE DEF r, l
<1>13. OffersStay
  BY <1>4, <1>10 DEF OffersStay, SameOffer
<1>14. Knows(p)' /\ Private(p)'
  BY <1>3, <1>8, <1>9 DEF Knows, Private
<1>15. ASSUME NEW q \in Handlers \ {p}
       PROVE  Knows(q)' /\ Private(q)'
  <2>1. Knows(q)'
    BY <1>8, <1>13, KnowsStays
  <2>2. ASSUME Drawn(q) # 0
        PROVE  listing'[Drawn(q)] = NoListing /\ \A s \in Handlers \ {q} : Drawn(s)' # Drawn(q)
    <3>1. Drawn(q) \in Refs /\ Private(q) /\ Drawn(q) # r
      BY <1>4, <2>2 DEF Drawn, MarketTypes, CallTypes, Calls, Knows
    <3> QED
      BY <1>8, <1>9, <1>10, <2>2, <3>1 DEF Private
  <2>3. Private(q)'
    BY <1>1, <1>2, <1>8, <2>2, PrivateStays DEF Private
  <2> QED
    BY <2>1, <2>3
<1>16. \A e \in etodo' : ReadOf(e.snap, e.ref)'
  <2> SUFFICES ASSUME NEW e \in etodo
               PROVE  ReadOf(e.snap, e.ref)'
    BY <1>2
  <2>1. /\ e.ref \in Refs /\ listing'[e.ref] # NoListing
        /\ e.snap.status = "active" /\ SameOffer(e.snap, listing'[e.ref])
    BY <1>13, ReadStays
  <2> QED
    BY <2>1 DEF ReadOf, SameOffer
<1>17. Undrawn'
  <2>1. \A s \in Refs : s >= nextRef => s # r
    BY <1>4, <1>5, MarketBounds DEF MarketTypes, RowTypes, Refs
  <2> QED
    BY <1>1, <1>2, <1>10, <2>1 DEF Undrawn
<1>18. HoldsBack'
  <2>1. \A s \in Refs : listing'[s] # NoListing => hold'[s] = Backing(listing'[s])
    BY <1>1, <1>6, <1>10 DEF HoldsBack
  <2>2. ASSUME NEW q \in Handlers, pc'[q] = "persist"
        PROVE  hold'[op'[q].ref] = Backing(op'[q].snap)
    BY <1>1, <1>8, <2>2 DEF HoldsBack
  <2> QED
    BY <2>1, <2>2 DEF HoldsBack, Backing
<1>19. LegOrigins'
  <2>1. \A k \in 1..Len(legs) : legs[k].ref \in Refs \ {r}
    BY <1>4, LegIs DEF MarketTypes
  <2> QED
    BY <1>1, <1>10, <2>1 DEF LegOrigins
<1>20. WantsBacked' /\ Deliveries'
  BY <1>1, <1>2 DEF WantsBacked, Deliveries, DeliveredOnce
<1> QED
  BY <1>8, <1>11, <1>12, <1>14, <1>15, <1>16, <1>17, <1>18, <1>19, <1>20 DEF MarketTypes

-----------------------------------------------------------------------------
(* Sales                                                                   *)

OffersKept == OffersStay /\ \A r \in Refs : listing[r] = NoListing => listing'[r] = NoListing

\* Legs for the units of a listing are added, and at most one for all that is
\* in escrow under d.
LegsGrow(d) ==
  /\ legs' \in Seq(LegRows) /\ Len(legs) <= Len(legs') /\ Len(legs') <= MaxLegs
  /\ \A i \in 1..Len(legs) : legs'[i] = legs[i]
  /\ \A i \in 1..Len(legs') : i > Len(legs) =>
       \/ legs'[i].amt # 0 /\ listing[legs'[i].ref] # NoListing
       \/ d # 0 /\ legs'[i].amt = 0 /\ legs'[i].whole /\ legs'[i].ref = d
  /\ \A i, j \in 1..Len(legs') :
       i > Len(legs) /\ j > Len(legs) /\ legs'[i].ref = d /\ legs'[j].ref = d => i = j

OnlyHis(d) ==
  /\ d < nextRef /\ listing[d] = NoListing /\ d \notin aged \cup orphans /\ escrow[d].amt > 0
  /\ \A l \in 1..Len(legs) : legs[l].ref # d

LEMMA GrownLegs ==
  ASSUME MarketInv, NEW d \in Refs \cup {0}, LegsGrow(d)
  PROVE  /\ Len(legs) \in Nat /\ Len(legs') \in Nat
         /\ \A i \in 1..Len(legs') :
              /\ legs'[i] \in LegRows /\ legs'[i].ref \in Refs /\ i \in LegIds
              /\ i \in 1..Len(legs) \/ i > Len(legs)
<1>1. legs' \in Seq(LegRows) /\ Len(legs') \in Nat /\ Len(legs') <= MaxLegs /\ MaxLegs \in Nat /\ Len(legs) \in Nat
  BY MarketBounds DEF LegsGrow, MarketInv, MarketTypes, LegTypes
<1>2. \A i \in 1..Len(legs') : legs'[i] \in LegRows
  BY <1>1
<1>3. \A i \in 1..Len(legs') : i \in LegIds /\ (i \in 1..Len(legs) \/ i > Len(legs))
  BY <1>1 DEF LegIds
<1> QED
  BY <1>1, <1>2, <1>3 DEF LegRows

LEMMA EnqueueKeeps ==
  ASSUME MarketInv, NEW d \in Refs \cup {0}, LegsGrow(d), OffersKept, d # 0 => OnlyHis(d),
         UNCHANGED <<legDone, nextRef, escrow, applied, received, dpc, dtodo, rpc, orphans>>
  PROVE  LegTypes' /\ LegOrigins' /\ WantsBacked' /\ Deliveries'
<1> USE DEF MarketInv
<1>1. /\ Len(legs) \in Nat /\ Len(legs') \in Nat
      /\ \A i \in 1..Len(legs') : /\ legs'[i] \in LegRows /\ legs'[i].ref \in Refs /\ i \in LegIds
                                  /\ i \in 1..Len(legs) \/ i > Len(legs)
  BY GrownLegs
<1>2. 1..Len(legs) \subseteq 1..Len(legs') /\ \A i \in 1..Len(legs) : legs'[i] = legs[i]
  BY <1>1 DEF LegsGrow
<1>3. LegTypes'
  BY <1>1, <1>2 DEF LegsGrow, LegTypes, MarketTypes
<1>4. \A r \in Refs : listing'[r] = NoListing <=> listing[r] = NoListing
  BY DEF OffersKept, OffersStay
<1>5. ASSUME NEW i \in 1..Len(legs'), i > Len(legs)
      PROVE  \/ legs'[i].amt # 0 /\ listing[legs'[i].ref] # NoListing /\ legs'[i].ref # d
             \/ d # 0 /\ legs'[i].amt = 0 /\ legs'[i].whole /\ legs'[i].ref = d
  <2>1. \/ legs'[i].amt # 0 /\ listing[legs'[i].ref] # NoListing
        \/ d # 0 /\ legs'[i].amt = 0 /\ legs'[i].whole /\ legs'[i].ref = d
    BY <1>5 DEF LegsGrow
  <2>2. listing[legs'[i].ref] # NoListing => legs'[i].ref # d
    <3>1. CASE d = 0
      BY <1>1, <3>1, MarketBounds DEF Refs
    <3>2. CASE d # 0
      BY <3>2 DEF OnlyHis
    <3> QED
      BY <3>1, <3>2
  <2> QED
    BY <2>1, <2>2
<1>6. LegOrigins'
  <2> SUFFICES ASSUME NEW i \in 1..Len(legs')
               PROVE  /\ legs'[i].ref < nextRef
                      /\ legs'[i].amt = 0 <=> listing'[legs'[i].ref] = NoListing
                      /\ legs'[i].amt = 0 =>
                           legs'[i].whole /\ \A k \in 1..Len(legs') \ {i} : legs'[k].ref # legs'[i].ref
    BY DEF LegOrigins
  <2>1. CASE i \in 1..Len(legs)
    <3>1. /\ legs[i].ref # d \/ d = 0
          /\ legs[i].amt = 0 <=> listing[legs[i].ref] = NoListing
          /\ legs[i].amt = 0 => legs[i].whole /\ \A k \in 1..Len(legs) \ {i} : legs[k].ref # legs[i].ref
      BY <2>1 DEF LegOrigins, OnlyHis
    <3>2. ASSUME legs[i].amt = 0, NEW k \in 1..Len(legs') \ {i}
          PROVE  legs'[k].ref # legs[i].ref
      <4>1. CASE k \in 1..Len(legs)
        BY <1>2, <3>1, <3>2, <4>1
      <4>2. CASE k > Len(legs)
        BY <1>5, <2>1, <3>1, <3>2, <4>2 DEF OnlyHis
      <4> QED
        BY <1>1, <4>1, <4>2
    <3>3. legs'[i] = legs[i] /\ legs[i].ref < nextRef
      BY <1>2, <2>1 DEF LegOrigins
    <3> QED
      BY <1>1, <1>4, <3>1, <3>2, <3>3
  <2>2. CASE i > Len(legs)
    <3>1. CASE legs'[i].amt # 0 /\ listing[legs'[i].ref] # NoListing
      <4>1. legs'[i].ref < nextRef
        <5>1. ~(legs'[i].ref >= nextRef)
          BY <1>1, <3>1 DEF Undrawn
        <5>2. legs'[i].ref \in Nat /\ nextRef \in Nat
          BY <1>1, MarketBounds DEF Refs, MarketTypes, RowTypes
        <5> QED
          BY <5>1, <5>2
      <4> QED
        BY <1>1, <1>4, <3>1, <4>1
    <3>2. CASE d # 0 /\ legs'[i].amt = 0 /\ legs'[i].whole /\ legs'[i].ref = d
      <4>1. d < nextRef /\ listing[d] = NoListing /\ listing'[d] = NoListing
        BY <1>1, <1>4, <3>2 DEF OnlyHis
      <4>2. ASSUME NEW k \in 1..Len(legs') \ {i}
            PROVE  legs'[k].ref # d
        <5>1. CASE k \in 1..Len(legs)
          BY <1>2, <3>2, <5>1 DEF OnlyHis
        <5>2. CASE k > Len(legs)
          BY <2>2, <3>2, <5>2 DEF LegsGrow
        <5> QED
          BY <1>1, <5>1, <5>2
      <4> QED
        BY <3>2, <4>1, <4>2
    <3> QED
      BY <1>5, <2>2, <3>1, <3>2
  <2> QED
    BY <1>1, <2>1, <2>2
<1>7. applied \subseteq 1..Len(legs)
  BY DEF MarketTypes, LegTypes
<1>8. WantsBacked'
  <2> SUFFICES ASSUME NEW i \in 1..Len(legs'), legs'[i].amt = 0
               PROVE  IF i \in applied THEN received[i] > 0
                      ELSE escrow[legs'[i].ref].amt > 0 /\ (rpc = "return" => legs'[i].ref \notin orphans)
    BY DEF WantsBacked
  <2>1. CASE i \in 1..Len(legs)
    BY <1>2, <2>1 DEF WantsBacked
  <2>2. CASE i > Len(legs)
    <3>1. i \notin applied
      BY <1>1, <1>7, <2>2
    <3>2. d # 0 /\ legs'[i].ref = d
      BY <1>5, <2>2
    <3> QED
      BY <3>1, <3>2 DEF OnlyHis
  <2> QED
    BY <1>1, <2>1, <2>2
<1>9. Deliveries'
  <2>1. DeliveredOnce'
    <3> SUFFICES ASSUME NEW i \in 1..Len(legs'), ~legs'[i].whole
                 PROVE  received[i] = IF i \in applied THEN legs'[i].amt ELSE 0
      BY DEF DeliveredOnce
    <3>1. CASE i \in 1..Len(legs)
      BY <1>2, <3>1 DEF Deliveries, DeliveredOnce
    <3>2. CASE i > Len(legs)
      BY <1>1, <1>7, <3>2 DEF Deliveries
    <3> QED
      BY <1>1, <3>1, <3>2
  <2> QED
    BY <2>1 DEF Deliveries
<1> QED
  BY <1>3, <1>6, <1>8, <1>9

\* A sale or a closing: at most one handler returns, the others stay.
LEMMA SaleKeeps ==
  ASSUME MarketInv, NEW d \in Refs \cup {0}, LegsGrow(d), OffersKept, d # 0 => OnlyHis(d),
         UNCHANGED <<legDone, nextRef, stash, escrow, aged, applied, received, dpc, dtodo, rpc, orphans>>,
         MoneyTypes', CallTypes', listing' \in [Refs -> ListingRows \cup {NoListing}], etodo' \subseteq etodo,
         \A r \in Refs : listing[r] = NoListing => hold'[r] = hold[r],
         \A r \in Refs : listing'[r] # NoListing => hold'[r] = Backing(listing'[r]),
         \A q \in Handlers :
           pc'[q] = "idle" \/ (pc'[q] = pc[q] /\ op'[q] = op[q] /\ (d # 0 => Drawn(q) # d))
  PROVE  MarketInv'
<1> USE DEF MarketInv
<1>1. LegTypes' /\ LegOrigins' /\ WantsBacked' /\ Deliveries'
  BY EnqueueKeeps
<1>2. ItemTypes' /\ RowTypes'
  BY DEF MarketTypes, ItemTypes, RowTypes
<1>3. OffersStay
  BY DEF OffersKept
<1>4. \A s \in Handlers : Drawn(s)' \in {0, Drawn(s)}
  BY DEF Drawn
<1>5. ASSUME NEW q \in Handlers
      PROVE  Knows(q)' /\ Private(q)'
  <2>1. CASE pc'[q] = "idle"
    BY <2>1, IdleKnows
  <2>2. CASE pc'[q] = pc[q] /\ op'[q] = op[q] /\ (d # 0 => Drawn(q) # d)
    <3>1. Knows(q)'
      BY <1>3, <2>2, KnowsStays
    <3>2. ASSUME Drawn(q) # 0
          PROVE  /\ Drawn(q) < nextRef' /\ listing'[Drawn(q)] = NoListing
                 /\ Drawn(q) \notin aged' \cup orphans'
                 /\ \A l \in 1..Len(legs') : legs'[l].ref # Drawn(q)
                 /\ \A s \in Handlers \ {q} : Drawn(s)' # Drawn(q)
                 /\ escrow'[Drawn(q)] = escrow[Drawn(q)]
      <4>1. /\ Drawn(q) < nextRef /\ listing[Drawn(q)] = NoListing
            /\ Drawn(q) \notin aged \cup orphans
            /\ \A l \in 1..Len(legs) : legs[l].ref # Drawn(q)
            /\ \A s \in Handlers \ {q} : Drawn(s) # Drawn(q)
        BY <3>2 DEF Private
      <4>2. Drawn(q) \in Refs
        BY <3>2 DEF Drawn, MarketTypes, CallTypes, Calls, Knows
      <4>3. ASSUME NEW l \in 1..Len(legs')
            PROVE  legs'[l].ref # Drawn(q)
        <5>1. CASE l \in 1..Len(legs)
          BY <4>1, <5>1 DEF LegsGrow
        <5>2. CASE l > Len(legs)
          BY <2>2, <4>1, <5>2 DEF LegsGrow
        <5> QED
          BY <5>1, <5>2, GrownLegs
      <4>4. \A s \in Handlers \ {q} : Drawn(s)' # Drawn(q)
        BY <1>4, <3>2, <4>1
      <4> QED
        BY <4>1, <4>2, <4>3, <4>4 DEF OffersKept
    <3>3. Private(q)'
      BY <2>2, <3>2, PrivateStays
    <3> QED
      BY <3>1, <3>3
  <2> QED
    BY <2>1, <2>2
<1>6. \A e \in etodo' : ReadOf(e.snap, e.ref)'
  <2> SUFFICES ASSUME NEW e \in etodo
               PROVE  ReadOf(e.snap, e.ref)'
    OBVIOUS
  <2>1. /\ e.ref \in Refs /\ listing'[e.ref] # NoListing
        /\ e.snap.status = "active" /\ SameOffer(e.snap, listing'[e.ref])
    BY <1>3, ReadStays
  <2> QED
    BY <2>1 DEF ReadOf, SameOffer
<1>7. Undrawn'
  BY DEF Undrawn, OffersKept
<1>8. HoldsBack'
  <2>1. ASSUME NEW q \in Handlers, pc'[q] = "persist"
        PROVE  hold'[op'[q].ref] = Backing(op'[q].snap)
    <3>1. pc[q] = "persist" /\ op'[q] = op[q]
      BY <2>1
    <3>2. op[q].ref = Drawn(q) /\ op[q].ref # 0 /\ op[q] \in Calls /\ listing[op[q].ref] = NoListing
      BY <3>1 DEF Drawn, Private, Knows
    <3>3. op[q].ref \in Refs
      BY <3>2 DEF Calls
    <3> QED
      BY <3>1, <3>2, <3>3 DEF HoldsBack
  <2> QED
    BY <2>1 DEF HoldsBack, Backing
<1> QED
  BY <1>1, <1>2, <1>5, <1>6, <1>7, <1>8 DEF MarketTypes

LEMMA ConcatGrows ==
  ASSUME LegTypes, NEW d \in Refs \cup {0}, NEW t \in Seq(LegRows), legs' = legs \o t, Len(legs') <= MaxLegs,
         \A k \in 1..Len(t) :
           \/ t[k].amt # 0 /\ listing[t[k].ref] # NoListing
           \/ d # 0 /\ t[k].amt = 0 /\ t[k].whole /\ t[k].ref = d,
         \A j, k \in 1..Len(t) : t[j].ref = d /\ t[k].ref = d => j = k
  PROVE  LegsGrow(d)
<1>1. legs \in Seq(LegRows) /\ Len(legs) \in Nat /\ Len(t) \in Nat
  BY LenProperties DEF LegTypes
<1>2. /\ legs' \in Seq(LegRows) /\ Len(legs') = Len(legs) + Len(t)
      /\ \A i \in 1..Len(legs) + Len(t) : legs'[i] = IF i <= Len(legs) THEN legs[i] ELSE t[i - Len(legs)]
  BY <1>1, ConcatProperties
<1>3. \A i \in 1..Len(legs) : legs'[i] = legs[i]
  BY <1>1, <1>2
<1>4. \A i \in 1..Len(legs') : i > Len(legs) =>
        i - Len(legs) \in 1..Len(t) /\ legs'[i] = t[i - Len(legs)]
  BY <1>1, <1>2
<1>5. ASSUME NEW i \in 1..Len(legs'), i > Len(legs)
      PROVE  \/ legs'[i].amt # 0 /\ listing[legs'[i].ref] # NoListing
             \/ d # 0 /\ legs'[i].amt = 0 /\ legs'[i].whole /\ legs'[i].ref = d
  BY <1>4, <1>5
<1>6. ASSUME NEW i \in 1..Len(legs'), NEW j \in 1..Len(legs'), i > Len(legs), j > Len(legs),
             legs'[i].ref = d, legs'[j].ref = d
      PROVE  i = j
  <2>1. i - Len(legs) = j - Len(legs)
    BY <1>4, <1>6
  <2>2. i \in Nat /\ j \in Nat
    BY <1>1, <1>2
  <2> QED
    BY <1>1, <2>1, <2>2
<1> QED
  BY <1>1, <1>2, <1>3, <1>5, <1>6 DEF LegsGrow

\* Of a listing, only what is left and the status ever change.
LEMMA RowChanges ==
  ASSUME RowTypes, NEW r \in Refs, listing[r] # NoListing, NEW row \in ListingRows, SameOffer(listing[r], row),
         listing' = [listing EXCEPT ![r] = row]
  PROVE  /\ listing' \in [Refs -> ListingRows \cup {NoListing}] /\ OffersKept
         /\ listing'[r] = row /\ \A s \in Refs \ {r} : listing'[s] = listing[s]
<1>1. listing' \in [Refs -> ListingRows \cup {NoListing}]
  BY DEF RowTypes
<1>2. listing'[r] = row /\ \A s \in Refs \ {r} : listing'[s] = listing[s]
  BY DEF RowTypes
<1>3. row # NoListing
  BY NoListingHas
<1>4. \A s \in Refs : listing[s] # NoListing => listing'[s] # NoListing /\ SameOffer(listing[s], listing'[s])
  BY <1>2, <1>3 DEF SameOffer
<1>5. \A s \in Refs : listing[s] = NoListing => listing'[s] = NoListing
  BY <1>2
<1> QED
  BY <1>1, <1>2, <1>4, <1>5 DEF OffersKept, OffersStay

\* Cancel and Expire, with the listing as it was read: the hold decides.
LEMMA CloseKeeps ==
  ASSUME MarketInv, NEW r, NEW l \in ListingRows, NEW status \in Closed, ReadOf(l, r),
         CanClose(r, l), CloseListing(r, l, status),
         UNCHANGED <<nextRef, gameVars, deliverVars, rpc, orphans>>, CallTypes', etodo' \subseteq etodo,
         \A q \in Handlers : pc'[q] = "idle" \/ (pc'[q] = pc[q] /\ op'[q] = op[q])
  PROVE  MarketInv'
<1>1. MoneyTypes /\ LegTypes /\ RowTypes /\ HoldsBack
  BY DEF MarketInv, MarketTypes
<1>2. r \in Refs /\ listing[r] # NoListing /\ l.status = "active" /\ SameOffer(l, listing[r])
  BY DEF ReadOf
<1>3. /\ listing[r] \in ListingRows /\ l.seller \in Accounts /\ l.remaining \in Nat \ {0}
      /\ GivesItem(l) <=> listing[r].kind # "buy"
  BY <1>1, <1>2, ListingIs DEF ListingRows, GivesItem, SameOffer
<1>4. hold[r] \in Nat /\ balance[l.seller] \in 0..MaxBalance /\ (GivesItem(l) => hold[r] = 0)
  BY <1>1, <1>2, <1>3 DEF MoneyTypes, HoldsBack, Backing
<1>5. UNCHANGED <<legDone, burned, stash, escrow, aged, applied, received, dpc, dtodo>>
  BY DEF CloseListing, gameVars, deliverVars
<1>6. MoneyTypes'
  <2>1. balance[l.seller] + hold[r] \in 0..MaxBalance
    <3>1. CASE GivesItem(l)
      BY <1>4, <3>1, MarketBounds
    <3>2. CASE ~GivesItem(l)
      BY <1>4, <3>2, MarketBounds DEF CanClose, Releasable
    <3> QED
      BY <3>1, <3>2
  <2>2. balance' = [balance EXCEPT ![l.seller] = @ + hold[r]] /\ hold' = [hold EXCEPT ![r] = 0]
    BY DEF CloseListing
  <2> QED
    BY <1>1, <1>5, <2>1, <2>2 DEF MoneyTypes
<1> DEFINE row == [listing[r] EXCEPT !.status = status]
<1>7. row \in ListingRows /\ SameOffer(listing[r], row) /\ row.status = status /\ row # NoListing
  BY <1>3, NoListingHas DEF ListingRows, SameOffer, Closed
<1>8. listing' = [listing EXCEPT ![r] = row]
  BY DEF CloseListing
<1> HIDE DEF row
<1>9. /\ listing' \in [Refs -> ListingRows \cup {NoListing}] /\ OffersKept
      /\ listing'[r] = row /\ \A s \in Refs \ {r} : listing'[s] = listing[s]
  BY <1>1, <1>2, <1>7, <1>8, RowChanges
<1>10. hold'[r] = 0 /\ \A s \in Refs \ {r} : hold'[s] = hold[s]
  BY <1>1, <1>2 DEF CloseListing, MoneyTypes
<1>11. Backing(row) = 0
  BY <1>7 DEF Backing, Closed
<1>12. \A s \in Refs : listing'[s] # NoListing => hold'[s] = Backing(listing'[s])
  BY <1>1, <1>9, <1>10, <1>11 DEF HoldsBack
<1>13. LegsGrow(0)
  <2>1. CASE GivesItem(l)
    <3> DEFINE leg == Leg(r, l.seller, l.remaining, ~Stackable(l.give))
    <3>1. leg \in LegRows /\ leg.amt # 0 /\ leg.ref = r
      BY <1>2, <1>3 DEF Leg, LegRows
    <3>2. legs' = Append(legs, leg) /\ Len(legs) < MaxLegs
      BY <2>1 DEF CloseListing, CanClose
    <3> HIDE DEF leg
    <3>3. legs' = legs \o <<leg>> /\ Len(legs') = Len(legs) + 1
      BY <1>1, <3>1, <3>2, AppendIsConcat, AppendProperties DEF LegTypes
    <3>4. Len(legs') <= MaxLegs
      BY <1>1, <3>2, <3>3, LenProperties, MarketBounds DEF LegTypes
    <3> DEFINE t == <<leg>>
    <3>5. t \in Seq(LegRows) /\ Len(t) = 1 /\ t[1] = leg
      BY <3>1
    <3>6. legs' = legs \o t
      BY <3>3
    <3> HIDE DEF t
    <3>7. \A k \in 1..Len(t) : t[k] = leg /\ k = 1
      BY <3>5
    <3>8. \A k \in 1..Len(t) : t[k].amt # 0 /\ listing[t[k].ref] # NoListing
      BY <1>2, <3>1, <3>7
    <3>9. \A j, k \in 1..Len(t) : j = k
      BY <3>7
    <3> QED
      BY <1>1, <3>4, <3>5, <3>6, <3>8, <3>9, ConcatGrows
  <2>2. CASE ~GivesItem(l)
    <3>1. legs' = legs /\ legs \in Seq(LegRows) /\ Len(legs) \in Nat /\ Len(legs) <= MaxLegs
      BY <1>1, <2>2 DEF CloseListing, LegTypes
    <3> QED
      BY <3>1 DEF LegsGrow
  <2> QED
    BY <2>1, <2>2
<1>14. \A s \in Refs : listing[s] = NoListing => hold'[s] = hold[s]
  BY <1>2, <1>10
<1> QED
  BY <1>5, <1>6, <1>9, <1>12, <1>13, <1>14, SaleKeeps

LEMMA CancelTxKeeps ==
  ASSUME MarketInv, NEW p \in Handlers, CancelTx(p)
  PROVE  MarketInv'
<1> DEFINE r == op[p].ref
           l == op[p].snap
<1>1. pc[p] = "close" /\ Return(p) /\ HandlerFrame /\ UNCHANGED <<nextRef, stash, escrow>>
  BY DEF CancelTx
<1>2. l \in ListingRows /\ ReadOf(l, r)
  BY <1>1, CallIs DEF Knows
<1>3. CASE CanClose(r, l) /\ CloseListing(r, l, "cancelled")
  <2>1. CallTypes
    BY DEF MarketInv, MarketTypes
  <2>2. CallTypes' /\ \A q \in Handlers : pc'[q] = "idle" \/ (pc'[q] = pc[q] /\ op'[q] = op[q])
    BY <1>1, <2>1, Returns
  <2>3. UNCHANGED <<nextRef, gameVars, deliverVars, etodo, rpc, orphans>>
    BY <1>1 DEF HandlerFrame, gameVars, deliverVars, reconVars
  <2>4. "cancelled" \in Closed
    BY DEF Closed
  <2> HIDE DEF r, l
  <2> QED
    BY <1>2, <1>3, <2>2, <2>3, <2>4, CloseKeeps
<1>4. CASE UNCHANGED pgVars
  BY <1>1, <1>4, FrameTables, ReturnKeeps
<1> QED
  BY <1>3, <1>4 DEF CancelTx

LEMMA SettledMoney ==
  ASSUME MoneyTypes, NEW r \in Refs, NEW taker \in Accounts, listing[r].seller \in Accounts, NEW gross \in Nat,
         Payable(r, taker, gross), Settled(r, taker, gross)
  PROVE  /\ MoneyTypes' /\ \A s \in Refs \ {r} : hold'[s] = hold[s]
         /\ hold'[r] = IF GivesItem(listing[r]) THEN hold[r] ELSE hold[r] - gross
<1> DEFINE net == Net(gross)
           payee == Payee(listing[r], taker)
           paid == IF GivesItem(listing[r]) THEN [balance EXCEPT ![taker] = @ - gross] ELSE balance
<1>1. net \in 0..gross /\ payee \in Accounts
  BY NetBound DEF Payee
<1>2. /\ gross <= (IF GivesItem(listing[r]) THEN balance[taker] ELSE hold[r])
      /\ balance[payee] + net <= MaxBalance
  BY DEF Payable
<1>3. /\ balance' = [paid EXCEPT ![payee] = @ + net]
      /\ hold' = IF GivesItem(listing[r]) THEN hold ELSE [hold EXCEPT ![r] = @ - gross]
      /\ burned' = burned + gross - net
  BY DEF Settled
<1>4. paid \in [Accounts -> 0..MaxBalance] /\ \A a \in Accounts : paid[a] <= balance[a]
  BY <1>2, MarketBounds DEF MoneyTypes
<1> HIDE DEF net, payee, paid
<1>5. paid[payee] + net \in 0..MaxBalance
  BY <1>1, <1>2, <1>4, MarketBounds DEF MoneyTypes
<1>6. balance' \in [Accounts -> 0..MaxBalance]
  BY <1>1, <1>3, <1>4, <1>5
<1>7. burned' \in Nat
  BY <1>1, <1>3 DEF MoneyTypes
<1>8. /\ hold' \in [Refs -> Nat] /\ \A s \in Refs \ {r} : hold'[s] = hold[s]
      /\ hold'[r] = IF GivesItem(listing[r]) THEN hold[r] ELSE hold[r] - gross
  <2>1. CASE GivesItem(listing[r])
    BY <1>3, <2>1 DEF MoneyTypes
  <2>2. CASE ~GivesItem(listing[r])
    <3>1. hold[r] - gross \in Nat
      BY <1>2, <2>2 DEF MoneyTypes
    <3>2. hold' = [hold EXCEPT ![r] = @ - gross]
      BY <1>3, <2>2
    <3> QED
      BY <2>2, <3>1, <3>2 DEF MoneyTypes
  <2> QED
    BY <2>1, <2>2
<1> QED
  BY <1>6, <1>7, <1>8 DEF MoneyTypes

LEMMA TakeLegsAre ==
  ASSUME NEW o \in Calls, o.ref \in Refs, WantsItem(o.snap) => o.wref \in Refs \ {o.ref}
  PROVE  /\ TakeLegs(o) \in Seq(LegRows)
         /\ \A k \in 1..Len(TakeLegs(o)) :
              \/ TakeLegs(o)[k].amt = o.units /\ TakeLegs(o)[k].ref = o.ref
              \/ /\ WantsItem(o.snap) /\ TakeLegs(o)[k].amt = 0 /\ TakeLegs(o)[k].whole
                 /\ TakeLegs(o)[k].ref = o.wref
         /\ WantsItem(o.snap) => \A j, k \in 1..Len(TakeLegs(o)) :
              TakeLegs(o)[j].ref = o.wref /\ TakeLegs(o)[k].ref = o.wref => j = k
<1> DEFINE g == Leg(o.ref, o.actor, o.units, ~Stackable(o.snap.give))
           w == Leg(o.wref, o.snap.seller, 0, TRUE)
           a == IF GivesItem(o.snap) THEN <<g>> ELSE <<>>
           b == IF WantsItem(o.snap) THEN <<w>> ELSE <<>>
           t == TakeLegs(o)
<1>1. g \in LegRows /\ g.amt = o.units /\ g.ref = o.ref
  BY DEF Leg, LegRows, Calls
<1>2. WantsItem(o.snap) => w \in LegRows
  BY DEF Leg, LegRows, Calls, ListingRows
<1>3. w.amt = 0 /\ w.whole /\ w.ref = o.wref
  BY DEF Leg
<1>4. t = a \o b
  BY DEF TakeLegs
<1> HIDE DEF g, w, t
<1>5. a \in Seq(LegRows) /\ Len(a) \in 0..1 /\ \A k \in 1..Len(a) : a[k] = g
  <2>1. CASE GivesItem(o.snap)
    <3>1. a = <<g>> /\ <<g>> \in Seq(LegRows) /\ Len(<<g>>) = 1 /\ <<g>>[1] = g
      BY <1>1, <2>1
    <3> QED
      BY <3>1
  <2>2. CASE ~GivesItem(o.snap)
    <3>1. a = <<>> /\ <<>> \in Seq(LegRows) /\ Len(<<>>) = 0
      BY <2>2
    <3> QED
      BY <3>1
  <2> QED
    BY <2>1, <2>2
<1>6. b \in Seq(LegRows) /\ Len(b) \in 0..1 /\ \A k \in 1..Len(b) : b[k] = w /\ WantsItem(o.snap)
  <2>1. CASE WantsItem(o.snap)
    <3>1. b = <<w>> /\ <<w>> \in Seq(LegRows) /\ Len(<<w>>) = 1 /\ <<w>>[1] = w
      BY <1>2, <2>1
    <3> QED
      BY <2>1, <3>1
  <2>2. CASE ~WantsItem(o.snap)
    <3>1. b = <<>> /\ <<>> \in Seq(LegRows) /\ Len(<<>>) = 0
      BY <2>2
    <3> QED
      BY <3>1
  <2> QED
    BY <2>1, <2>2
<1> HIDE DEF a, b
<1>7. /\ t \in Seq(LegRows) /\ Len(t) = Len(a) + Len(b)
      /\ \A i \in 1..Len(a) + Len(b) : t[i] = IF i <= Len(a) THEN a[i] ELSE b[i - Len(a)]
  BY <1>4, <1>5, <1>6, ConcatProperties
<1>8. \A k \in 1..Len(t) : t[k] = g \/ (k = Len(a) + 1 /\ t[k] = w /\ WantsItem(o.snap))
  <2> SUFFICES ASSUME NEW k \in 1..Len(t)
               PROVE  t[k] = g \/ (k = Len(a) + 1 /\ t[k] = w /\ WantsItem(o.snap))
    OBVIOUS
  <2>1. CASE k <= Len(a)
    <3>1. k \in 1..Len(a) /\ t[k] = a[k]
      BY <1>5, <1>6, <1>7, <2>1
    <3> QED
      BY <1>5, <3>1
  <2>2. CASE k > Len(a)
    <3>1. k - Len(a) \in 1..Len(b) /\ t[k] = b[k - Len(a)] /\ k = Len(a) + 1
      BY <1>5, <1>6, <1>7, <2>2
    <3> QED
      BY <1>6, <3>1
  <2> QED
    BY <1>5, <1>6, <1>7, <2>1, <2>2
<1>9. \A k \in 1..Len(t) :
        \/ t[k].amt = o.units /\ t[k].ref = o.ref
        \/ WantsItem(o.snap) /\ t[k].amt = 0 /\ t[k].whole /\ t[k].ref = o.wref
  BY <1>1, <1>3, <1>8
<1>10. WantsItem(o.snap) => \A j, k \in 1..Len(t) : t[j].ref = o.wref /\ t[k].ref = o.wref => j = k
  <2>1. WantsItem(o.snap) => g.ref # o.wref
    BY <1>1
  <2> QED
    BY <1>8, <2>1
<1> QED
  BY <1>7, <1>9, <1>10 DEF t

\* The transaction of Take: its guards are about the row it has locked.
LEMMA SettleKeeps ==
  ASSUME MarketInv, NEW p \in Handlers, SettleTake(p)
  PROVE  MarketInv'
<1> DEFINE o == op[p]
           r == o.ref
           n == o.units
           gross == Price * n
           d == IF WantsItem(o.snap) THEN o.wref ELSE 0
           row == [listing[r] EXCEPT !.remaining = @ - n,
                                     !.status = IF listing[r].remaining = n THEN "taken" ELSE "active"]
<1>1. /\ pc[p] = "settle" /\ Return(p) /\ HandlerFrame
      /\ listing[r].status = "active" /\ n <= listing[r].remaining
      /\ Payable(r, o.actor, gross) /\ Settled(r, o.actor, gross)
      /\ legs' = legs \o TakeLegs(o) /\ Len(legs') <= MaxLegs
      /\ UNCHANGED <<legDone, nextRef, stash, escrow>>
  BY DEF SettleTake, Takeable
<1>2. MoneyTypes /\ LegTypes /\ RowTypes /\ CallTypes /\ HoldsBack
  BY DEF MarketInv, MarketTypes
<1>3. /\ o \in Calls /\ o.actor \in Accounts /\ n \in Nat /\ n > 0 /\ o.wref \in Refs \cup {0}
      /\ Private(p) /\ r \in Refs /\ listing[r] # NoListing /\ SameOffer(o.snap, listing[r])
  BY <1>1, CallIs DEF Knows, ReadOf
<1>4. /\ listing[r] \in ListingRows /\ listing[r].seller \in Accounts
      /\ listing[r].remaining \in Nat /\ listing[r].kind \in Kinds
  BY <1>2, <1>3, ListingIs
<1>5. Price \in Nat /\ gross \in Nat
  BY <1>3, ProductNat, MarketBounds
<1>6. /\ row \in ListingRows /\ SameOffer(listing[r], row) /\ row.kind = listing[r].kind
      /\ row.remaining = listing[r].remaining - n
      /\ (row.status = "active" \/ (row.status = "taken" /\ listing[r].remaining = n))
  <2>1. listing[r].remaining - n \in Nat /\ listing[r].remaining - n <= listing[r].total
    <3> DEFINE open == listing[r].remaining
               total == listing[r].total
    <3>1. open \in Nat /\ n \in Nat /\ n <= open
      BY <1>1, <1>3, <1>4
    <3>2. total \in Nat /\ open <= total
      BY <1>4 DEF ListingRows
    <3> HIDE DEF open, total, n
    <3>3. open - n \in Nat /\ open - n <= total
      BY <3>1, <3>2
    <3> QED
      BY <3>3 DEF open, total
  <2>2. listing[r].remaining # n => listing[r].remaining - n > 0
    <3> DEFINE open == listing[r].remaining
    <3>1. open \in Nat /\ n \in Nat /\ n <= open
      BY <1>1, <1>3, <1>4
    <3> HIDE DEF open, n
    <3>2. open # n => open - n > 0
      BY <3>1
    <3> QED
      BY <3>2 DEF open
  <2>3. row \in [seller : Accounts, kind : Kinds, give : Goods, want : Goods, total : Nat \ {0}, remaining : Nat,
                 status : Closed \cup {"active"}]
    BY <1>4, <2>1 DEF ListingRows, Closed
  <2>4. row.remaining = listing[r].remaining - n /\ row.total = listing[r].total
        /\ row.status = IF listing[r].remaining = n THEN "taken" ELSE "active"
    BY <1>4 DEF ListingRows
  <2>5. row.kind = listing[r].kind /\ SameOffer(listing[r], row)
    BY <1>4 DEF ListingRows, SameOffer
  <2> HIDE DEF row
  <2> QED
    BY <2>1, <2>2, <2>3, <2>4, <2>5 DEF ListingRows
<1>7. listing' = [listing EXCEPT ![r] = row]
  <2>1. listing' = [listing EXCEPT ![r].remaining = @ - n,
                       ![r].status = IF listing[r].remaining = n THEN "taken" ELSE "active"]
    BY DEF SettleTake
  <2>2. listing \in [Refs -> ListingRows \cup {NoListing}]
    BY <1>2 DEF RowTypes
  <2> QED
    BY <1>3, <2>1, <2>2
<1>8. d \in Refs \cup {0} /\ (d # 0 => OnlyHis(d) /\ d = Drawn(p) /\ WantsItem(o.snap))
      /\ (WantsItem(o.snap) => d \in Refs \ {r})
  BY <1>1, <1>3 DEF Private, Drawn, OnlyHis
<1>9. UNCHANGED <<aged, applied, received, dpc, dtodo, etodo, rpc, orphans>>
  BY <1>1, FrameIs
<1>10. /\ CallTypes' /\ pc'[p] = "idle"
       /\ \A q \in Handlers \ {p} : pc'[q] = pc[q] /\ op'[q] = op[q]
  BY <1>1, <1>2, Returns
<1>11. \A q \in Handlers \ {p} : d # 0 => Drawn(q) # d
  BY <1>8 DEF MarketInv, Private
<1>12. LegsGrow(d)
  <2> DEFINE t == TakeLegs(o)
  <2>1. /\ t \in Seq(LegRows)
        /\ \A k \in 1..Len(t) :
             \/ t[k].amt = n /\ t[k].ref = r
             \/ WantsItem(o.snap) /\ t[k].amt = 0 /\ t[k].whole /\ t[k].ref = d
        /\ WantsItem(o.snap) => \A j, k \in 1..Len(t) : t[j].ref = d /\ t[k].ref = d => j = k
    BY <1>3, <1>8, TakeLegsAre
  <2>2. legs' = legs \o t
    BY <1>1
  <2>3. r # 0 /\ n # 0 /\ (WantsItem(o.snap) => d # 0)
    BY <1>3, <1>8, MarketBounds DEF Refs
  <2>4. ~WantsItem(o.snap) => d = 0
    OBVIOUS
  <2> HIDE DEF t, d, n, r
  <2>5. \A k \in 1..Len(t) :
          \/ t[k].amt # 0 /\ listing[t[k].ref] # NoListing
          \/ d # 0 /\ t[k].amt = 0 /\ t[k].whole /\ t[k].ref = d
    BY <1>3, <2>1, <2>3
  <2>6. \A j, k \in 1..Len(t) : t[j].ref = d /\ t[k].ref = d => j = k
    BY <2>1, <2>3, <2>4
  <2> QED
    BY <1>1, <1>2, <1>8, <2>1, <2>2, <2>5, <2>6, ConcatGrows
<1> HIDE DEF o, r, n, gross, d, row
<1>13. /\ listing' \in [Refs -> ListingRows \cup {NoListing}] /\ OffersKept
       /\ listing'[r] = row /\ \A s \in Refs \ {r} : listing'[s] = listing[s]
  BY <1>2, <1>3, <1>6, <1>7, RowChanges
<1>14. /\ MoneyTypes' /\ \A s \in Refs \ {r} : hold'[s] = hold[s]
       /\ hold'[r] = IF GivesItem(listing[r]) THEN hold[r] ELSE hold[r] - gross
  BY <1>1, <1>2, <1>3, <1>4, <1>5, SettledMoney
<1>15. hold'[r] = Backing(row)
  <2>1. hold[r] = Backing(listing[r])
    BY <1>2, <1>3 DEF HoldsBack
  <2>2. CASE GivesItem(listing[r])
    BY <1>6, <1>14, <2>1, <2>2 DEF Backing, GivesItem
  <2>3. CASE ~GivesItem(listing[r])
    <3>1. listing[r].kind = "buy" /\ hold[r] = Price * listing[r].remaining
      BY <1>1, <2>1, <2>3 DEF Backing, GivesItem
    <3>2. hold'[r] = Price * listing[r].remaining - Price * n
      BY <1>14, <2>3, <3>1 DEF gross
    <3>3. hold'[r] = Price * row.remaining
      BY <1>3, <1>4, <1>5, <1>6, <3>2, ProductMinus
    <3>4. row.status = "taken" => row.remaining = 0
      BY <1>3, <1>6
    <3>5. Price * 0 = 0
      BY <1>5
    <3> QED
      BY <1>6, <3>1, <3>3, <3>4, <3>5 DEF Backing
  <2> QED
    BY <2>2, <2>3
<1>16. \A s \in Refs : listing'[s] # NoListing => hold'[s] = Backing(listing'[s])
  BY <1>2, <1>13, <1>14, <1>15 DEF HoldsBack
<1>17. \A s \in Refs : listing[s] = NoListing => hold'[s] = hold[s]
  BY <1>3, <1>14
<1>18. \A q \in Handlers :
         pc'[q] = "idle" \/ (pc'[q] = pc[q] /\ op'[q] = op[q] /\ (d # 0 => Drawn(q) # d))
  BY <1>10, <1>11
<1> QED
  BY <1>1, <1>8, <1>9, <1>10, <1>12, <1>13, <1>14, <1>16, <1>17, <1>18, SaleKeeps

-----------------------------------------------------------------------------
(* The jobs                                                                *)

\* A job reads, marks or forgets, or the panel starts again: nothing moves.
LEMMA JobKeeps ==
  ASSUME MarketInv,
         UNCHANGED <<balance, burned, hold, listing, legs, nextRef, stash, escrow, applied, received>>,
         CallTypes', \A q \in Handlers : pc'[q] = "idle" \/ (pc'[q] = pc[q] /\ op'[q] = op[q]),
         legDone' \subseteq applied, dtodo' \subseteq 1..Len(legs),
         dpc' = "mark" => dtodo' # {} /\ Min(dtodo') \in applied,
         etodo' \subseteq Snapshots, \A e \in etodo' : ReadOf(e.snap, e.ref),
         orphans' \subseteq Refs, aged' \subseteq Refs,
         \A r \in aged' \cup orphans' :
           r \in aged \cup orphans \/ (r < nextRef /\ \A q \in Handlers : Drawn(q) # r),
         rpc' = "return" =>
           \A l \in 1..Len(legs) : legs[l].amt = 0 /\ l \notin applied => legs[l].ref \notin orphans'
  PROVE  MarketInv'
<1> USE DEF MarketInv
<1>1. MoneyTypes' /\ ItemTypes' /\ LegTypes' /\ RowTypes'
  BY DEF MarketTypes, MoneyTypes, ItemTypes, LegTypes, RowTypes
<1>2. OffersStay
  BY SameOffers
<1>3. ASSUME NEW q \in Handlers
      PROVE  Knows(q)' /\ Private(q)'
  <2>1. CASE pc'[q] = "idle"
    BY <2>1, IdleKnows
  <2>2. CASE pc'[q] = pc[q] /\ op'[q] = op[q]
    <3>1. Knows(q)'
      BY <1>2, <2>2, KnowsStays
    <3>2. ASSUME Drawn(q) # 0
          PROVE  /\ Drawn(q) < nextRef' /\ listing'[Drawn(q)] = NoListing
                 /\ Drawn(q) \notin aged' \cup orphans'
                 /\ \A l \in 1..Len(legs') : legs'[l].ref # Drawn(q)
                 /\ \A s \in Handlers \ {q} : Drawn(s)' # Drawn(q)
                 /\ escrow'[Drawn(q)] = escrow[Drawn(q)]
      <4>1. /\ Drawn(q) < nextRef /\ listing[Drawn(q)] = NoListing
            /\ Drawn(q) \notin aged \cup orphans
            /\ \A l \in 1..Len(legs) : legs[l].ref # Drawn(q)
            /\ \A s \in Handlers \ {q} : Drawn(s) # Drawn(q)
        BY <3>2 DEF Private
      <4>2. \A s \in Handlers : Drawn(s)' \in {0, Drawn(s)}
        BY DEF Drawn
      <4>3. \A s \in Handlers \ {q} : Drawn(s)' # Drawn(q)
        BY <3>2, <4>1, <4>2
      <4> QED
        BY <4>1, <4>3
    <3>3. Private(q)'
      BY <2>2, <3>2, PrivateStays
    <3> QED
      BY <3>1, <3>3
  <2> QED
    BY <2>1, <2>2
<1>4. \A e \in etodo' : ReadOf(e.snap, e.ref)'
  BY DEF ReadOf, SameOffer
<1>5. Undrawn'
  <2> SUFFICES ASSUME NEW r \in Refs, r >= nextRef
               PROVE  r \notin aged' \cup orphans'
    BY DEF Undrawn
  <2>1. ~(r < nextRef)
    BY MarketBounds DEF Refs, MarketTypes, RowTypes
  <2> QED
    BY <2>1 DEF Undrawn
<1>6. HoldsBack'
  <2>1. ASSUME NEW q \in Handlers, pc'[q] = "persist"
        PROVE  hold'[op'[q].ref] = Backing(op'[q].snap)
    BY <2>1 DEF HoldsBack
  <2> QED
    BY <2>1 DEF HoldsBack, Backing
<1>7. LegOrigins' /\ WantsBacked'
  BY DEF LegOrigins, WantsBacked
<1>8. Deliveries'
  BY DEF Deliveries, DeliveredOnce
<1> QED
  BY <1>1, <1>3, <1>4, <1>5, <1>6, <1>7, <1>8 DEF MarketTypes

LEMMA JobFacts ==
  ASSUME MarketInv
  PROVE  /\ CallTypes /\ legDone \subseteq applied /\ dtodo \subseteq 1..Len(legs) /\ dtodo \subseteq Nat
         /\ (dpc = "mark" => dtodo # {} /\ Min(dtodo) \in applied)
         /\ etodo \subseteq Snapshots /\ \A e \in etodo : ReadOf(e.snap, e.ref)
         /\ orphans \subseteq Refs /\ aged \subseteq Refs
         /\ rpc = "return" =>
              \A l \in 1..Len(legs) : legs[l].amt = 0 /\ l \notin applied => legs[l].ref \notin orphans
<1>1. Len(legs) \in Nat
  BY LenProperties DEF MarketInv, MarketTypes, LegTypes
<1> QED
  BY <1>1 DEF MarketInv, MarketTypes, ItemTypes, LegTypes, RowTypes, Deliveries, WantsBacked

\* The delivery worker goes on to the next leg, or has read a batch.
LEMMA DeliveryReadsKeep ==
  ASSUME MarketInv, UNCHANGED <<pgVars, nextRef, gameVars, handlerVars, etodo, rpc, orphans>>,
         dtodo' \subseteq 1..Len(legs), dpc' # "mark"
  PROVE  MarketInv'
<1>1. UNCHANGED <<balance, burned, hold, listing, legs, legDone, nextRef, stash, escrow, applied, received,
                  pc, op, aged, etodo, rpc, orphans>>
  BY DEF pgVars, gameVars, handlerVars
<1>2. CallTypes'
  BY <1>1, JobFacts DEF CallTypes
<1> QED
  BY <1>1, <1>2, JobFacts, JobKeeps

LEMMA LegStepsKeep ==
  ASSUME MarketInv, NEW l \in LegIds, LegRefused(l) \/ DeliverFails(l)
  PROVE  MarketInv'
<1>1. UNCHANGED <<pgVars, nextRef, gameVars, handlerVars, etodo, rpc, orphans>>
  BY DEF LegRefused, DeliverFails, WorkerFrame, reconVars
<1>2. dtodo' \subseteq 1..Len(legs) /\ dpc' # "mark"
  BY JobFacts DEF LegRefused, DeliverFails, LegSkipped, NextLeg
<1> QED
  BY <1>1, <1>2, DeliveryReadsKeep

LEMMA MarkKeeps ==
  ASSUME MarketInv, NEW l \in LegIds, MarkDone(l)
  PROVE  MarketInv'
<1>1. UNCHANGED <<balance, burned, hold, listing, legs, nextRef, stash, escrow, applied, received,
                  pc, op, aged, etodo, rpc, orphans>>
  BY DEF MarkDone, WorkerFrame, gameVars, handlerVars, reconVars
<1>2. CallTypes'
  BY <1>1, JobFacts DEF CallTypes
<1>3. legDone' \subseteq applied /\ dtodo' \subseteq 1..Len(legs) /\ dpc' # "mark"
  BY JobFacts DEF MarkDone, AtLeg, NextLeg
<1> QED
  BY <1>1, <1>2, <1>3, JobFacts, JobKeeps

LEMMA DueKeeps ==
  ASSUME MarketInv, NEW S \in SUBSET Refs, DueForExpiry(S)
  PROVE  MarketInv'
<1>1. UNCHANGED <<balance, burned, hold, listing, legs, legDone, nextRef, stash, escrow, applied, received,
                  pc, op, aged, dpc, dtodo, rpc, orphans>>
  BY DEF DueForExpiry, WorkerFrame, pgVars, gameVars, handlerVars, reconVars, deliverVars
<1>2. CallTypes'
  BY <1>1, JobFacts DEF CallTypes
<1>3. \A r \in S : listing[r].status = "active" /\ listing[r] # NoListing
  BY DEF DueForExpiry, NoListing
<1>4. etodo' = {[ref |-> r, snap |-> listing[r]] : r \in S}
  BY DEF DueForExpiry
<1>5. etodo' \subseteq Snapshots
  BY <1>3, <1>4, ListingIs DEF Snapshots, MarketInv, MarketTypes
<1>6. \A e \in etodo' : ReadOf(e.snap, e.ref)
  BY <1>3, <1>4 DEF ReadOf, SameOffer
<1> QED
  BY <1>1, <1>2, <1>5, <1>6, JobFacts, JobKeeps

LEMMA ExpireKeeps ==
  ASSUME MarketInv, NEW e \in etodo, ExpireListing(e)
  PROVE  MarketInv'
<1>1. UNCHANGED <<nextRef, gameVars, deliverVars, rpc, orphans, pc, op>>
  BY DEF ExpireListing, WorkerFrame, handlerVars, reconVars
<1>2. CallTypes' /\ etodo' \subseteq etodo
  BY <1>1, JobFacts DEF CallTypes, ExpireListing
<1>3. e.snap \in ListingRows /\ ReadOf(e.snap, e.ref)
  BY JobFacts DEF Snapshots
<1>4. CASE CanClose(e.ref, e.snap) /\ CloseListing(e.ref, e.snap, "expired")
  <2>1. "expired" \in Closed
    BY DEF Closed
  <2> QED
    BY <1>1, <1>2, <1>3, <1>4, <2>1, CloseKeeps
<1>5. CASE UNCHANGED pgVars
  <2>1. UNCHANGED <<balance, burned, hold, listing, legs, legDone, nextRef, stash, escrow, applied, received,
                    pc, op, aged, dpc, dtodo, rpc, orphans>>
    BY <1>1, <1>5 DEF pgVars, gameVars, deliverVars
  <2>2. etodo' \subseteq Snapshots /\ \A f \in etodo' : ReadOf(f.snap, f.ref)
    BY <1>2, JobFacts
  <2> QED
    BY <1>2, <2>1, <2>2, JobFacts, JobKeeps
<1> QED
  BY <1>4, <1>5 DEF ExpireListing

\* The reconciler reads: what is old in escrow, less what pending legs will move.
LEMMA OrphanStepsKeep ==
  ASSUME MarketInv, OrphanRefs \/ AllRefs \/ PendingRefs
  PROVE  MarketInv'
<1>1. UNCHANGED <<balance, burned, hold, listing, legs, legDone, nextRef, stash, escrow, applied, received,
                  pc, op, aged, dpc, dtodo, etodo>>
  BY DEF OrphanRefs, AllRefs, PendingRefs, WorkerFrame, pgVars, gameVars, handlerVars, deliverVars
<1>2. CallTypes'
  BY <1>1, JobFacts DEF CallTypes
<1>3. orphans' \subseteq aged \cup orphans /\ orphans' \subseteq Refs
  BY JobFacts DEF OrphanRefs, OldEscrow, AllRefs, PendingRefs, Remaining
<1>4. rpc' = "return" =>
        \A l \in 1..Len(legs) : legs[l].amt = 0 /\ l \notin applied => legs[l].ref \notin orphans'
  <2>1. CASE PendingRefs
    <3>1. orphans' = orphans \ (known \cup {legs[l].ref : l \in PendingLegs})
      BY <2>1 DEF PendingRefs, Remaining
    <3>2. \A l \in 1..Len(legs) : l \notin applied => l \in PendingLegs
      BY JobFacts DEF PendingLegs
    <3> QED
      BY <3>1, <3>2
  <2>2. CASE OrphanRefs \/ AllRefs
    BY <2>2 DEF OrphanRefs, AllRefs
  <2> QED
    BY <2>1, <2>2
<1> QED
  BY <1>1, <1>2, <1>3, <1>4, JobFacts, JobKeeps

\* No handler is on its way with what has outlived the grace.
LEMMA AgeKeeps ==
  ASSUME MarketInv, NEW r \in Refs, Age(r)
  PROVE  MarketInv'
<1>1. /\ UNCHANGED <<balance, burned, hold, listing, legs, legDone, nextRef, stash, escrow, applied, received,
                     pc, op, dpc, dtodo, etodo, rpc, orphans>>
      /\ aged' = aged \cup {r}
  BY DEF Age, pgVars, handlerVars, deliverVars, reconVars
<1>2. CallTypes'
  BY <1>1, JobFacts DEF CallTypes
<1>3. r # 0
  BY MarketBounds DEF Refs
<1>4. \A q \in Handlers : Drawn(q) # r
  BY <1>3 DEF Age, Drawn
<1>5. r < nextRef
  <2>1. ~(r >= nextRef)
    BY DEF Age, MarketInv, Undrawn, NoEscrow
  <2> QED
    BY <2>1, MarketBounds DEF Refs, MarketInv, MarketTypes, RowTypes
<1> QED
  BY <1>1, <1>2, <1>4, <1>5, JobFacts, JobKeeps

LEMMA GameKeeps ==
  ASSUME MarketInv, NEW a \in Accounts, GameLock(a) \/ GameUnlock(a)
  PROVE  MarketInv'
<1>1. UNCHANGED <<balance, burned, hold, listing, legs, legDone, nextRef, stash, escrow, applied, received,
                  pc, op, aged, dpc, dtodo, etodo, rpc, orphans>>
  BY DEF GameLock, GameUnlock, pgVars, gameVars, handlerVars, deliverVars, reconVars
<1>2. CallTypes'
  BY <1>1, JobFacts DEF CallTypes
<1> QED
  BY <1>1, <1>2, JobFacts, JobKeeps

LEMMA CrashKeeps ==
  ASSUME MarketInv, PanelCrash
  PROVE  MarketInv'
<1>1. UNCHANGED <<balance, burned, hold, listing, legs, legDone, nextRef, stash, escrow, applied, received, aged>>
  BY DEF PanelCrash, pgVars, gameVars
<1>2. CallTypes' /\ \A q \in Handlers : pc'[q] = "idle"
  BY DEF PanelCrash, CallTypes, Labels
<1>3. dpc' = "idle" /\ dtodo' = {} /\ etodo' = {} /\ rpc' = "idle" /\ orphans' = {}
  BY DEF PanelCrash
<1> QED
  BY <1>1, <1>2, <1>3, JobFacts, JobKeeps

-----------------------------------------------------------------------------
(* What leaves escrow                                                      *)

LEMMA HandsOver ==
  ASSUME ItemTypes, NEW r \in Refs, NEW a \in Accounts, NEW n \in 1..escrow[r].amt, HandOver(r, a, n)
  PROVE  ItemTypes' /\ aged' \subseteq aged /\ \A s \in Refs \ {r} : escrow'[s] = escrow[s]
<1> DEFINE good == escrow[r].good
           left == escrow[r].amt - n
<1>1. escrow[r].amt \in Nat /\ escrow[r].amt > 0 /\ escrow[r] \in EscrowRows
  BY EscrowIs
<1>2. good \in Goods
  BY <1>1 DEF EscrowRows
<1>3. n # escrow[r].amt => left \in Nat \ {0}
  BY <1>1
<1>4. /\ stash' = [stash EXCEPT ![a][good] = @ + n]
      /\ escrow' = IF n = escrow[r].amt THEN [escrow EXCEPT ![r] = NoEscrow] ELSE [escrow EXCEPT ![r].amt = left]
      /\ aged' = IF n = escrow[r].amt THEN aged \ {r} ELSE aged
  BY DEF HandOver
<1> HIDE DEF good, left
<1>5. stash' \in [Accounts -> [Goods -> Nat]]
  <2>1. stash[a][good] + n \in Nat
    BY <1>1, <1>2 DEF ItemTypes
  <2> QED
    BY <1>2, <1>4, <2>1 DEF ItemTypes
<1>6. escrow' \in [Refs -> EscrowRows \cup {NoEscrow}] /\ \A s \in Refs \ {r} : escrow'[s] = escrow[s]
  <2>1. CASE n = escrow[r].amt
    BY <1>4, <2>1 DEF ItemTypes
  <2>2. CASE n # escrow[r].amt
    <3> DEFINE row == [escrow[r] EXCEPT !.amt = left]
    <3>1. row \in EscrowRows
      BY <1>1, <1>3, <2>2 DEF EscrowRows
    <3>2. escrow' = [escrow EXCEPT ![r] = row]
      BY <1>4, <2>2 DEF ItemTypes
    <3> HIDE DEF row
    <3> QED
      BY <3>1, <3>2 DEF ItemTypes
  <2> QED
    BY <2>1, <2>2
<1> QED
  BY <1>4, <1>5, <1>6 DEF ItemTypes

\* What is handed over is nobody's any more.
LEMMA EscrowLeaves ==
  ASSUME MarketInv, NEW r \in Refs, r < nextRef, \A q \in Handlers : Drawn(q) # r,
         UNCHANGED <<balance, burned, hold, listing, legs, legDone, nextRef, pc, op, dtodo, etodo>>,
         ItemTypes', aged' \subseteq aged, orphans' \subseteq orphans,
         \A s \in Refs \ {r} : escrow'[s] = escrow[s],
         applied \subseteq applied', applied' \subseteq 1..Len(legs), received' \in [LegIds -> Nat],
         WantsBacked', Deliveries'
  PROVE  MarketInv'
<1> USE DEF MarketInv
<1>1. MoneyTypes' /\ LegTypes' /\ RowTypes' /\ CallTypes'
  BY DEF MarketTypes, MoneyTypes, LegTypes, RowTypes, CallTypes
<1>2. OffersStay
  BY SameOffers
<1>3. ASSUME NEW q \in Handlers
      PROVE  Knows(q)' /\ Private(q)'
  <2>1. pc'[q] = pc[q] /\ op'[q] = op[q] /\ \A s \in Handlers : Drawn(s)' = Drawn(s)
    BY HandlersStay
  <2>2. Knows(q)'
    BY <1>2, <2>1, KnowsStays
  <2>3. ASSUME Drawn(q) # 0
        PROVE  /\ Drawn(q) < nextRef' /\ listing'[Drawn(q)] = NoListing
               /\ Drawn(q) \notin aged' \cup orphans'
               /\ \A l \in 1..Len(legs') : legs'[l].ref # Drawn(q)
               /\ \A s \in Handlers \ {q} : Drawn(s)' # Drawn(q)
               /\ escrow'[Drawn(q)] = escrow[Drawn(q)]
    <3>1. Drawn(q) \in Refs
      BY <2>3 DEF Drawn, MarketTypes, CallTypes, Calls, Knows
    <3> QED
      BY <2>1, <2>3, <3>1 DEF Private
  <2>4. Private(q)'
    BY <2>1, <2>3, PrivateStays
  <2> QED
    BY <2>2, <2>4
<1>4. \A e \in etodo' : ReadOf(e.snap, e.ref)'
  BY DEF ReadOf, SameOffer
<1>5. Undrawn'
  <2>1. \A s \in Refs : s >= nextRef => s # r
    BY MarketBounds DEF MarketTypes, RowTypes, Refs
  <2> QED
    BY <2>1 DEF Undrawn
<1>6. HoldsBack'
  BY DEF HoldsBack, Backing
<1>7. LegOrigins'
  BY DEF LegOrigins
<1> QED
  BY <1>1, <1>3, <1>4, <1>5, <1>6, <1>7 DEF MarketTypes

LEMMA DeliverKeeps ==
  ASSUME MarketInv, NEW l \in LegIds, DeliverLeg(l)
  PROVE  MarketInv'
<1> DEFINE r == legs[l].ref
           n == LegUnits(l)
<1>1. /\ UNCHANGED <<balance, burned, hold, listing, legs, legDone, nextRef, pc, op, dtodo, etodo, rpc, orphans>>
      /\ l = Min(dtodo) /\ dtodo # {} /\ dpc' = "mark"
  BY DEF DeliverLeg, AtLeg, WorkerFrame, pgVars, handlerVars, reconVars
<1>2. l \in dtodo /\ l \in 1..Len(legs)
  BY <1>1, JobFacts, MinIn
<1>3. CallTypes'
  BY <1>1, JobFacts DEF CallTypes
<1>4. CASE ~Unclaimed(l) /\ UNCHANGED <<stash, escrow, aged, applied, received>>
  BY <1>1, <1>3, <1>4, JobFacts, JobKeeps DEF Unclaimed
<1>5. CASE /\ Unclaimed(l) /\ Deliverable(l) /\ DeliverEscrow(l)
           /\ applied' = applied \cup {l}
           /\ received' = [received EXCEPT ![l] = @ + LegUnits(l)]
  <2>1. ItemTypes /\ LegTypes /\ LegOrigins /\ WantsBacked /\ Deliveries /\ Undrawn
    BY DEF MarketInv, MarketTypes
  <2>2. /\ r \in Refs /\ legs[l].to \in Accounts /\ legs[l].amt \in Nat /\ legs[l].whole \in BOOLEAN
        /\ escrow[r].amt \in Nat
    BY <1>2, <2>1, LegIs, EscrowIs
  <2>3. n \in 0..escrow[r].amt /\ (legs[l].whole => n = escrow[r].amt) /\ (~legs[l].whole => n = legs[l].amt)
    BY <1>5, <2>2 DEF Deliverable, LegUnits
  <2>4. r < nextRef /\ \A q \in Handlers : Drawn(q) # r
    <3>1. \A q \in Handlers : Drawn(q) # r
      <4>1. r # 0
        BY <2>2, MarketBounds DEF Refs
      <4> QED
        BY <1>2, <4>1 DEF MarketInv, Private
    <3> QED
      BY <1>2, <2>1, <3>1 DEF LegOrigins
  <2> HIDE DEF n
  <2>5. ItemTypes' /\ aged' \subseteq aged /\ \A s \in Refs \ {r} : escrow'[s] = escrow[s]
    <3>1. CASE n = 0
      BY <1>5, <2>1, <3>1 DEF DeliverEscrow, ItemTypes, n
    <3>2. CASE n # 0
      <4>1. HandOver(r, legs[l].to, n) /\ n \in 1..escrow[r].amt
        BY <1>5, <2>2, <2>3, <3>2 DEF DeliverEscrow, n
      <4> HIDE DEF r
      <4> QED
        BY <2>1, <2>2, <4>1, HandsOver
    <3> QED
      BY <3>1, <3>2
  <2>6. /\ received' \in [LegIds -> Nat] /\ received'[l] = n
        /\ \A k \in LegIds \ {l} : received'[k] = received[k]
    <3>1. received[l] = 0 /\ received' = [received EXCEPT ![l] = @ + n] /\ n \in Nat
      BY <1>5, <2>1, <2>2, <2>3 DEF Deliveries, Unclaimed, n
    <3> QED
      BY <2>1, <3>1 DEF LegTypes
  <2>7. applied \subseteq applied' /\ applied' \subseteq 1..Len(legs) /\ l \in applied' /\ l \notin applied
        /\ \A k \in LegIds \ {l} : k \in applied' <=> k \in applied
    BY <1>2, <1>5, <2>1 DEF LegTypes, Unclaimed
  <2>8. \A k \in 1..Len(legs) : k \in LegIds /\ legs[k].ref \in Refs
    BY <2>1, LegIs
  <2>9. WantsBacked'
    <3> SUFFICES ASSUME NEW k \in 1..Len(legs), legs[k].amt = 0
                 PROVE  IF k \in applied' THEN received'[k] > 0
                        ELSE escrow'[legs[k].ref].amt > 0 /\ (rpc = "return" => legs[k].ref \notin orphans)
      BY <1>1 DEF WantsBacked
    <3>1. CASE k = l
      <4>1. legs[l].whole /\ escrow[r].amt > 0
        BY <1>2, <2>1, <2>7, <3>1 DEF LegOrigins, WantsBacked
      <4> QED
        BY <2>3, <2>6, <2>7, <3>1, <4>1
    <3>2. CASE k # l
      <4>1. legs[k].ref # r
        BY <1>2, <2>1, <3>2 DEF LegOrigins
      <4>2. escrow'[legs[k].ref] = escrow[legs[k].ref] /\ received'[k] = received[k] /\ (k \in applied' <=> k \in applied)
        BY <2>5, <2>6, <2>7, <2>8, <3>2, <4>1
      <4> QED
        BY <2>1, <4>2 DEF WantsBacked
    <3> QED
      BY <3>1, <3>2
  <2>10. Deliveries'
    <3>1. DeliveredOnce'
      <4> SUFFICES ASSUME NEW k \in 1..Len(legs), ~legs[k].whole
                   PROVE  received'[k] = IF k \in applied' THEN legs[k].amt ELSE 0
        BY <1>1 DEF DeliveredOnce
      <4>1. CASE k = l
        BY <2>3, <2>6, <2>7, <4>1
      <4>2. CASE k # l
        BY <2>1, <2>6, <2>7, <2>8, <4>2 DEF Deliveries, DeliveredOnce
      <4> QED
        BY <4>1, <4>2
    <3>2. \A k \in LegIds : k \notin applied' => received'[k] = 0
      BY <2>1, <2>6, <2>7 DEF Deliveries
    <3> QED
      BY <1>1, <2>7, <3>1, <3>2 DEF Deliveries
  <2> QED
    BY <1>1, <2>2, <2>4, <2>5, <2>6, <2>7, <2>9, <2>10, EscrowLeaves
<1> QED
  BY <1>4, <1>5 DEF DeliverLeg

LEMMA ReturnOrphanKeeps ==
  ASSUME MarketInv, NEW r \in Refs, ReturnOrphan(r)
  PROVE  MarketInv'
<1>1. /\ UNCHANGED <<balance, burned, hold, listing, legs, legDone, nextRef, pc, op, applied, received,
                     dpc, dtodo, etodo>>
      /\ rpc = "return" /\ r \in orphans /\ orphans' = orphans \ {r}
  BY DEF ReturnOrphan, Remaining, WorkerFrame, pgVars, handlerVars, deliverVars
<1>2. ItemTypes /\ LegTypes /\ LegOrigins /\ WantsBacked /\ Deliveries
  BY DEF MarketInv, MarketTypes
<1>3. r < nextRef /\ \A q \in Handlers : Drawn(q) # r
  <2>1. ~(r >= nextRef)
    BY <1>1 DEF MarketInv, Undrawn
  <2>2. r # 0 /\ r \in Nat /\ nextRef \in Nat
    BY MarketBounds DEF Refs, MarketInv, MarketTypes, RowTypes
  <2> QED
    BY <1>1, <2>1, <2>2 DEF MarketInv, Private
<1>4. ItemTypes' /\ aged' \subseteq aged /\ \A s \in Refs \ {r} : escrow'[s] = escrow[s]
  <2>1. CASE escrow[r].amt > 0 /\ HandOver(r, escrow[r].owner, escrow[r].amt)
    <3>1. escrow[r].owner \in Accounts /\ escrow[r].amt \in 1..escrow[r].amt
      BY <1>2, <2>1, EscrowIs DEF EscrowRows
    <3> QED
      BY <1>2, <2>1, <3>1, HandsOver
  <2>2. CASE UNCHANGED <<stash, escrow, aged>>
    BY <1>2, <2>2 DEF ItemTypes
  <2> QED
    BY <2>1, <2>2 DEF ReturnOrphan
<1>5. WantsBacked'
  <2> SUFFICES ASSUME NEW k \in 1..Len(legs), legs[k].amt = 0
               PROVE  IF k \in applied THEN received[k] > 0
                      ELSE escrow'[legs[k].ref].amt > 0 /\ legs[k].ref \notin orphans'
    BY <1>1 DEF WantsBacked
  <2>1. k \notin applied => legs[k].ref \in Refs /\ legs[k].ref # r
    BY <1>1, <1>2, LegIs DEF WantsBacked
  <2> QED
    BY <1>1, <1>2, <1>4, <2>1 DEF WantsBacked
<1>6. Deliveries'
  BY <1>1, <1>2 DEF Deliveries, DeliveredOnce
<1>7. applied \subseteq applied' /\ applied' \subseteq 1..Len(legs) /\ received' \in [LegIds -> Nat]
      /\ orphans' \subseteq orphans
  BY <1>1, <1>2 DEF LegTypes
<1> QED
  BY <1>1, <1>3, <1>4, <1>5, <1>6, <1>7, EscrowLeaves

-----------------------------------------------------------------------------
(* Every step                                                              *)

LEMMA HandlerStepsKeep ==
  ASSUME MarketInv, NEW p \in Handlers,
         \/ HandlerStep(p) \/ HandlerFails(p)
         \/ \E a \in Accounts :
              \/ \E o \in Offers : Create(p, a, o)
              \/ \E r \in Refs : Cancel(p, a, r)
              \/ \E r \in Refs, n \in Units : Take(p, a, r, n)
  PROVE  MarketInv'
<1>1. CASE \E a \in Accounts, o \in Offers : Create(p, a, o)
  BY <1>1, CreateKeeps
<1>2. CASE \E a \in Accounts, r \in Refs : Cancel(p, a, r)
  BY <1>2, CancelKeeps
<1>3. CASE \E a \in Accounts, r \in Refs, n \in Units : Take(p, a, r, n)
  BY <1>3, TakeKeeps
<1>4. CASE ApplyGiveSide(p)
  BY <1>4, GiveKeeps
<1>5. CASE ApplyGiveSideRejected(p) \/ EscrowTakerWantRejected(p) \/ TakeRolledBack(p) \/ HandlerFails(p)
  BY <1>5, GivesUpKeeps
<1>6. CASE PersistListing(p)
  BY <1>6, PersistKeeps
<1>7. CASE Burn(p)
  BY <1>7, BurnKeeps
<1>8. CASE PrepareTake(p)
  BY <1>8, PrepareKeeps
<1>9. CASE EscrowTakerWant(p)
  BY <1>9, WantKeeps
<1>10. CASE SettleTake(p)
  BY <1>10, SettleKeeps
<1>11. CASE CancelTx(p)
  BY <1>11, CancelTxKeeps
<1> QED
  BY <1>1, <1>2, <1>3, <1>4, <1>5, <1>6, <1>7, <1>8, <1>9, <1>10, <1>11 DEF HandlerStep

LEMMA MarketStep == MarketInv /\ [Next]_vars => MarketInv'
<1> SUFFICES ASSUME MarketInv, [Next]_vars
             PROVE  MarketInv'
  OBVIOUS
<1>1. CASE \E p \in Handlers :
             \/ HandlerStep(p) \/ HandlerFails(p)
             \/ \E a \in Accounts :
                  \/ \E o \in Offers : Create(p, a, o)
                  \/ \E r \in Refs : Cancel(p, a, r)
                  \/ \E r \in Refs, n \in Units : Take(p, a, r, n)
  BY <1>1, HandlerStepsKeep
<1>2. CASE \E S \in SUBSET Refs : DueForExpiry(S)
  BY <1>2, DueKeeps
<1>3. CASE \E e \in etodo : ExpireListing(e)
  BY <1>3, ExpireKeeps
<1>4. CASE \E l \in LegIds : DeliverLeg(l)
  BY <1>4, DeliverKeeps
<1>5. CASE \E l \in LegIds : LegRefused(l) \/ DeliverFails(l)
  BY <1>5, LegStepsKeep
<1>6. CASE ReadPending
  <2>1. UNCHANGED <<pgVars, nextRef, gameVars, handlerVars, etodo, rpc, orphans>>
    BY <1>6 DEF ReadPending, WorkerFrame, reconVars
  <2>2. dtodo' \subseteq 1..Len(legs) /\ dpc' # "mark"
    BY <1>6 DEF ReadPending, PendingLegs
  <2> QED
    BY <2>1, <2>2, DeliveryReadsKeep
<1>7. CASE \E l \in LegIds : MarkDone(l)
  BY <1>7, MarkKeeps
<1>8. CASE OrphanRefs \/ AllRefs \/ PendingRefs
  BY <1>8, OrphanStepsKeep
<1>9. CASE \E r \in Refs : ReturnOrphan(r)
  BY <1>9, ReturnOrphanKeeps
<1>10. CASE \E r \in Refs : Age(r)
  BY <1>10, AgeKeeps
<1>11. CASE \E a \in Accounts : GameLock(a) \/ GameUnlock(a)
  BY <1>11, GameKeeps
<1>12. CASE PanelCrash
  BY <1>12, CrashKeeps
<1>13. CASE UNCHANGED vars
  <2>1. UNCHANGED <<balance, burned, hold, listing, legs, legDone, nextRef, stash, escrow, applied, received,
                    pc, op, aged, dpc, dtodo, etodo, rpc, orphans>>
    BY <1>13 DEF vars, pgVars, gameVars, handlerVars, deliverVars, reconVars
  <2>2. CallTypes'
    BY <2>1, JobFacts DEF CallTypes
  <2> QED
    BY <2>1, <2>2, JobFacts, JobKeeps
<1> QED
  BY <1>1, <1>2, <1>3, <1>4, <1>5, <1>6, <1>7, <1>8, <1>9, <1>10, <1>11, <1>12, <1>13 DEF Next, Deliver, Reconcile

LEMMA MarketKeeps == Spec => []MarketInv
BY InitMarketInv, MarketStep, PTL DEF Spec

-----------------------------------------------------------------------------
(* The currency                                                            *)

Money == SumFunction(balance) + SumFunction(hold) + burned

LEMMA FiniteRows == IsFiniteSet(Accounts) /\ IsFiniteSet(Refs)
BY AccountsAssumption, FS_Interval, MarketBounds DEF Refs

LEMMA MoneyNumbers ==
  ASSUME MoneyTypes
  PROVE  /\ balance \in [Accounts -> Int] /\ hold \in [Refs -> Int] /\ burned \in Int
         /\ SumFunction(balance) \in Int /\ SumFunction(hold) \in Int
<1>1. balance \in [Accounts -> Int] /\ hold \in [Refs -> Int] /\ burned \in Int
  BY MarketBounds DEF MoneyTypes
<1> QED
  BY <1>1, FiniteRows, SumWholeInt

\* A step that changes one balance, one hold and the fees
LEMMA MoneyMoves ==
  ASSUME MoneyTypes, MoneyTypes', NEW a \in Accounts, NEW r \in Refs,
         \A b \in Accounts \ {a} : balance'[b] = balance[b],
         \A s \in Refs \ {r} : hold'[s] = hold[s],
         balance'[a] + hold'[r] + burned' = balance[a] + hold[r] + burned
  PROVE  Money' = Money
<1>1. /\ balance \in [Accounts -> Int] /\ hold \in [Refs -> Int] /\ burned \in Int
      /\ SumFunction(balance) \in Int /\ SumFunction(hold) \in Int
  BY MoneyNumbers
<1>2. balance' \in [Accounts -> Int] /\ hold' \in [Refs -> Int] /\ burned' \in Int
  BY MarketBounds DEF MoneyTypes
<1>3. SumFunction(balance') = SumFunction(balance) - balance[a] + balance'[a]
  BY <1>1, <1>2, FiniteRows, SumWholeChange
<1>4. SumFunction(hold') = SumFunction(hold) - hold[r] + hold'[r]
  BY <1>1, <1>2, FiniteRows, SumWholeChange
<1>5. /\ balance[a] \in Int /\ balance'[a] \in Int /\ hold[r] \in Int /\ hold'[r] \in Int
  BY <1>1, <1>2
<1>6. SumFunction(balance') + SumFunction(hold') + burned' = SumFunction(balance) + SumFunction(hold) + burned
  <2> DEFINE B == SumFunction(balance)
             H == SumFunction(hold)
             C == SumFunction(balance')
             I == SumFunction(hold')
  <2>1. B \in Int /\ H \in Int /\ C = B - balance[a] + balance'[a] /\ I = H - hold[r] + hold'[r]
    BY <1>1, <1>3, <1>4
  <2> HIDE DEF B, H, C, I
  <2>2. C + I + burned' = B + H + burned
    BY <1>1, <1>2, <1>5, <2>1
  <2> QED
    BY <2>2 DEF B, H, C, I
<1> QED
  BY <1>6 DEF Money

LEMMA MoneyStays ==
  ASSUME UNCHANGED <<balance, hold, burned>>
  PROVE  Money' = Money
BY DEF Money

LEMMA InitMoney ==
  ASSUME Init
  PROVE  Money = InitBalance * Cardinality(Accounts)
<1>1. /\ balance = [a \in Accounts |-> InitBalance] /\ hold = [r \in Refs |-> 0] /\ burned = 0
  BY DEF Init
<1>2. InitBalance \in Int
  BY MarketBounds
<1>3. DOMAIN balance = Accounts /\ \A a \in Accounts : balance[a] = InitBalance
  BY <1>1
<1>4. DOMAIN hold = Refs /\ \A r \in Refs : hold[r] = 0
  BY <1>1
<1>5. SumFunction(balance) = InitBalance * Cardinality(Accounts)
  BY <1>2, <1>3, FiniteRows, SumWholeConstant
<1>6. SumFunction(hold) = 0
  <2>1. SumFunctionOnSet(hold, Refs) = 0
    BY <1>4, FiniteRows, SumZero
  <2> QED
    BY <1>4, <2>1, SumWhole
<1>7. Cardinality(Accounts) \in Nat
  BY FiniteRows, FS_CardinalityType
<1>8. InitBalance * Cardinality(Accounts) \in Int
  BY <1>2, <1>7
<1> QED
  BY <1>1, <1>5, <1>6, <1>8 DEF Money

LEMMA GiveMoney ==
  ASSUME MarketInv, MoneyTypes', NEW p \in Handlers, ApplyGiveSide(p)
  PROVE  Money' = Money
<1> DEFINE l == op[p].snap
           a == l.seller
           cost == Price * l.total
<1>1. pc[p] = "give" /\ nextRef \in Refs /\ UNCHANGED burned
  BY DEF ApplyGiveSide
<1>2. MoneyTypes /\ a \in Accounts /\ cost \in Nat
  <2>1. a \in Accounts /\ l.total \in Nat
    BY <1>1, CallIs DEF ListingRows
  <2> QED
    BY <2>1, ProductNat, MarketBounds DEF MarketInv, MarketTypes
<1>3. hold[nextRef] = 0
  BY <1>1, MarketBounds DEF MarketInv, Undrawn, Refs
<1>4. CASE UNCHANGED <<balance, hold>>
  BY <1>1, <1>4, MoneyStays
<1>5. CASE /\ balance' = [balance EXCEPT ![a] = @ - cost]
           /\ hold' = [hold EXCEPT ![nextRef] = cost]
  <2> HIDE DEF a, cost
  <2>1. /\ balance'[a] = balance[a] - cost /\ \A b \in Accounts \ {a} : balance'[b] = balance[b]
        /\ hold'[nextRef] = cost /\ \A s \in Refs \ {nextRef} : hold'[s] = hold[s]
        /\ balance[a] \in Int /\ burned \in Int
    BY <1>1, <1>2, <1>5, MarketBounds DEF MoneyTypes
  <2>2. balance'[a] + hold'[nextRef] + burned' = balance[a] + hold[nextRef] + burned
    BY <1>1, <1>2, <1>3, <2>1
  <2> DEFINE r == nextRef
  <2>3. /\ r \in Refs /\ \A s \in Refs \ {r} : hold'[s] = hold[s]
        /\ balance'[a] + hold'[r] + burned' = balance[a] + hold[r] + burned
    BY <1>1, <2>1, <2>2
  <2> HIDE DEF r
  <2> QED
    BY <1>2, <2>1, <2>3, MoneyMoves
<1> QED
  BY <1>4, <1>5 DEF ApplyGiveSide

LEMMA BurnMoney ==
  ASSUME MarketInv, MoneyTypes', NEW p \in Handlers, Burn(p)
  PROVE  Money' = Money
<1> DEFINE a == op[p].actor
<1>1. pc[p] = "burn" /\ UNCHANGED hold
  BY DEF Burn
<1>2. MoneyTypes /\ a \in Accounts
  BY <1>1, CallIs DEF MarketInv, MarketTypes
<1>3. PICK fee \in {FlatFee, 0} : balance' = [balance EXCEPT ![a] = @ - fee] /\ burned' = burned + fee
  BY DEF Burn
<1> HIDE DEF a
<1>4. fee \in Nat
  BY MarketBounds
<1>5. balance'[a] = balance[a] - fee /\ (\A b \in Accounts \ {a} : balance'[b] = balance[b])
      /\ balance[a] \in Int /\ burned \in Int
  BY <1>2, <1>3, MarketBounds DEF MoneyTypes
<1>6. SumFunction(balance') = SumFunction(balance) - fee
  <2>1. /\ balance \in [Accounts -> Int] /\ balance' \in [Accounts -> Int] /\ SumFunction(balance) \in Int
    BY <1>2, MoneyNumbers, MarketBounds DEF MoneyTypes
  <2>2. SumFunction(balance') = SumFunction(balance) - balance[a] + balance'[a]
    BY <1>2, <1>5, <2>1, FiniteRows, SumWholeChange
  <2> QED
    BY <1>4, <1>5, <2>1, <2>2
<1>7. SumFunction(balance) \in Int /\ SumFunction(hold) \in Int
  BY <1>2, MoneyNumbers
<1> QED
  BY <1>1, <1>3, <1>4, <1>5, <1>6, <1>7 DEF Money

\* Two balances change in a sale that pays the seller from the taker's wallet.
LEMMA SettledConserves ==
  ASSUME MoneyTypes, MoneyTypes', NEW r \in Refs, NEW taker \in Accounts, listing[r].seller \in Accounts,
         NEW gross \in Nat, Settled(r, taker, gross)
  PROVE  Money' = Money
<1> DEFINE net == Net(gross)
           payee == Payee(listing[r], taker)
           paid == IF GivesItem(listing[r]) THEN [balance EXCEPT ![taker] = @ - gross] ELSE balance
           left == IF GivesItem(listing[r]) THEN 0 ELSE gross
           B == SumFunction(balance)
           H == SumFunction(hold)
<1>1. net \in 0..gross /\ payee \in Accounts
  BY NetBound DEF Payee
<1>2. balance' = [paid EXCEPT ![payee] = @ + net] /\ burned' = burned + gross - net
  BY DEF Settled
<1>3. /\ balance \in [Accounts -> Int] /\ hold \in [Refs -> Int] /\ burned \in Int
      /\ B \in Int /\ H \in Int
  BY MoneyNumbers
<1>4. balance' \in [Accounts -> Int] /\ hold' \in [Refs -> Int]
  BY MarketBounds DEF MoneyTypes
<1>5. paid \in [Accounts -> Int] /\ SumFunction(paid) = B - (gross - left)
  <2>1. CASE ~GivesItem(listing[r])
    BY <1>3, <2>1
  <2>2. CASE GivesItem(listing[r])
    <3> DEFINE g == [balance EXCEPT ![taker] = @ - gross]
    <3>1. paid = g
      BY <2>2
    <3>2. g \in [Accounts -> Int] /\ g[taker] = balance[taker] - gross /\ balance[taker] \in Int
          /\ \A b \in Accounts \ {taker} : g[b] = balance[b]
      BY <1>3
    <3> HIDE DEF g
    <3>3. SumFunction(g) = B - balance[taker] + g[taker]
      BY <1>3, <3>2, FiniteRows, SumWholeChange
    <3> HIDE DEF B, paid
    <3> QED
      BY <1>3, <2>2, <3>1, <3>2, <3>3
  <2> QED
    BY <2>1, <2>2
<1>6. SumFunction(hold') = H - left
  <2>1. CASE GivesItem(listing[r])
    <3>1. hold' = hold
      BY <2>1 DEF Settled
    <3> QED
      BY <1>3, <2>1, <3>1
  <2>2. CASE ~GivesItem(listing[r])
    <3>1. hold' = [hold EXCEPT ![r] = @ - gross]
      BY <2>2 DEF Settled
    <3>2. hold'[r] = hold[r] - gross /\ hold[r] \in Int /\ \A s \in Refs \ {r} : hold'[s] = hold[s]
      BY <1>3, <3>1
    <3>3. SumFunction(hold') = H - hold[r] + hold'[r]
      BY <1>3, <1>4, <3>2, FiniteRows, SumWholeChange
    <3> HIDE DEF H
    <3> QED
      BY <1>3, <2>2, <3>2, <3>3
  <2> QED
    BY <2>1, <2>2
<1> HIDE DEF net, payee, paid
<1>7. SumFunction(balance') = SumFunction(paid) + net
  <2>1. balance'[payee] = paid[payee] + net /\ paid[payee] \in Int
        /\ \A b \in Accounts \ {payee} : balance'[b] = paid[b]
    BY <1>1, <1>2, <1>5
  <2>2. SumFunction(balance') = SumFunction(paid) - paid[payee] + balance'[payee]
    BY <1>1, <1>4, <1>5, <2>1, FiniteRows, SumWholeChange
  <2>3. SumFunction(paid) \in Int
    BY <1>5, FiniteRows, SumWholeInt
  <2> QED
    BY <1>1, <2>1, <2>2, <2>3
<1>8. left \in Nat
  OBVIOUS
<1>9. Money = B + H + burned /\ Money' = SumFunction(balance') + SumFunction(hold') + burned'
  BY DEF Money
<1> HIDE DEF B, H, left
<1> QED
  BY <1>1, <1>2, <1>3, <1>5, <1>6, <1>7, <1>8, <1>9

LEMMA CloseMoney ==
  ASSUME MarketInv, MoneyTypes', NEW r, NEW l \in ListingRows, NEW status, ReadOf(l, r),
         CloseListing(r, l, status)
  PROVE  Money' = Money
<1> DEFINE a == l.seller
<1>1. r \in Refs /\ a \in Accounts /\ MoneyTypes
  BY DEF ReadOf, ListingRows, MarketInv, MarketTypes
<1>2. /\ balance' = [balance EXCEPT ![a] = @ + hold[r]] /\ hold' = [hold EXCEPT ![r] = 0]
      /\ burned' = burned
  BY DEF CloseListing
<1> HIDE DEF a
<1>3. /\ balance'[a] = balance[a] + hold[r] /\ \A b \in Accounts \ {a} : balance'[b] = balance[b]
      /\ hold'[r] = 0 /\ \A s \in Refs \ {r} : hold'[s] = hold[s]
      /\ balance[a] \in Int /\ hold[r] \in Int /\ burned \in Int
  BY <1>1, <1>2, MarketBounds DEF MoneyTypes
<1>4. balance'[a] + hold'[r] + burned' = balance[a] + hold[r] + burned
  BY <1>2, <1>3
<1> QED
  BY <1>1, <1>3, <1>4, MoneyMoves

LEMMA SettleMoney ==
  ASSUME MarketInv, MoneyTypes', NEW p \in Handlers, SettleTake(p)
  PROVE  Money' = Money
<1> DEFINE r == op[p].ref
           taker == op[p].actor
           gross == Price * op[p].units
<1>1. pc[p] = "settle" /\ Settled(r, taker, gross)
  BY DEF SettleTake
<1>2. r \in Refs /\ listing[r] # NoListing /\ taker \in Accounts /\ gross \in Nat
  BY <1>1, CallIs, ProductNat, MarketBounds DEF Knows, ReadOf
<1>3. MoneyTypes /\ listing[r].seller \in Accounts
  BY <1>2, ListingIs DEF MarketInv, MarketTypes
<1> HIDE DEF r, taker, gross
<1> QED
  BY <1>1, <1>2, <1>3, SettledConserves

LEMMA MoneyStep ==
  ASSUME MarketInv, MoneyTypes', [Next]_vars
  PROVE  Money' = Money
<1>1. CASE UNCHANGED <<balance, hold, burned>>
  BY <1>1, MoneyStays
<1>2. ASSUME NEW p \in Handlers, HandlerStep(p)
      PROVE  Money' = Money
  <2>1. CASE ApplyGiveSide(p) \/ Burn(p) \/ SettleTake(p)
    BY <2>1, GiveMoney, BurnMoney, SettleMoney
  <2>2. CASE CancelTx(p)
    <3>1. CASE CloseListing(op[p].ref, op[p].snap, "cancelled")
      <4>1. op[p].snap \in ListingRows /\ ReadOf(op[p].snap, op[p].ref)
        BY <2>2, CallIs DEF CancelTx, Knows
      <4> QED
        BY <3>1, <4>1, CloseMoney
    <3>2. CASE UNCHANGED pgVars
      BY <1>1, <3>2 DEF pgVars
    <3> QED
      BY <2>2, <3>1, <3>2 DEF CancelTx
  <2>3. CASE \/ ApplyGiveSideRejected(p) \/ PersistListing(p) \/ PrepareTake(p) \/ EscrowTakerWant(p)
             \/ EscrowTakerWantRejected(p) \/ TakeRolledBack(p)
    BY <1>1, <2>3 DEF ApplyGiveSideRejected, PersistListing, PrepareTake, EscrowTakerWant,
      EscrowTakerWantRejected, TakeRolledBack, pgVars
  <2> QED
    BY <1>2, <2>1, <2>2, <2>3 DEF HandlerStep
<1>3. ASSUME NEW e \in etodo, ExpireListing(e)
      PROVE  Money' = Money
  <2>1. CASE CloseListing(e.ref, e.snap, "expired")
    <3>1. e.snap \in ListingRows /\ ReadOf(e.snap, e.ref)
      BY JobFacts DEF Snapshots
    <3> QED
      BY <2>1, <3>1, CloseMoney
  <2>2. CASE UNCHANGED pgVars
    BY <1>1, <2>2 DEF pgVars
  <2> QED
    BY <1>3, <2>1, <2>2 DEF ExpireListing
<1>4. CASE \E p \in Handlers :
             \/ HandlerFails(p)
             \/ \E a \in Accounts :
                  \/ \E o \in Offers : Create(p, a, o)
                  \/ \E r \in Refs : Cancel(p, a, r)
                  \/ \E r \in Refs, n \in Units : Take(p, a, r, n)
  BY <1>1, <1>4 DEF HandlerFails, Create, Cancel, Take, pgVars
<1>5. CASE Deliver \/ \E l \in LegIds : DeliverFails(l)
  BY <1>1, <1>5 DEF Deliver, ReadPending, DeliverLeg, LegRefused, MarkDone, DeliverFails, pgVars
<1>6. CASE Reconcile
  BY <1>1, <1>6 DEF Reconcile, OrphanRefs, AllRefs, PendingRefs, ReturnOrphan, pgVars
<1>7. CASE \/ \E S \in SUBSET Refs : DueForExpiry(S)
           \/ \E r \in Refs : Age(r)
           \/ \E a \in Accounts : GameLock(a) \/ GameUnlock(a)
           \/ PanelCrash
  BY <1>1, <1>7 DEF DueForExpiry, Age, GameLock, GameUnlock, PanelCrash, pgVars
<1>8. CASE UNCHANGED vars
  BY <1>1, <1>8 DEF vars, pgVars
<1> QED
  BY <1>2, <1>3, <1>4, <1>5, <1>6, <1>7, <1>8 DEF Next

-----------------------------------------------------------------------------
(* The items                                                               *)

Held(g) == [a \in Accounts |-> stash[a][g]]
Items(g) == SumFunction(Held(g)) + SumFunction(InEscrow(g))

LEMMA ItemNumbers ==
  ASSUME ItemTypes, NEW g \in Goods
  PROVE  /\ Held(g) \in [Accounts -> Int] /\ InEscrow(g) \in [Refs -> Int]
         /\ SumFunction(Held(g)) \in Int /\ SumFunction(InEscrow(g)) \in Int
<1>1. Held(g) \in [Accounts -> Int]
  BY DEF ItemTypes, Held
<1>2. InEscrow(g) \in [Refs -> Int]
  <2>1. \A r \in Refs : escrow[r].amt \in Int
    BY EscrowIs
  <2> QED
    BY <2>1 DEF InEscrow
<1> QED
  BY <1>1, <1>2, FiniteRows, SumWholeInt

\* n more of a good in a stash, and n less in a row of the escrow
Puts(a, h, n) == stash' = [stash EXCEPT ![a][h] = stash[a][h] + n]
Leaves(r, h, n) ==
  /\ \A s \in Refs \ {r} : escrow'[s] = escrow[s]
  /\ \A g \in Goods : InEscrow(g)'[r] = InEscrow(g)[r] - (IF g = h THEN n ELSE 0)

LEMMA ItemsMove ==
  ASSUME ItemTypes, ItemTypes', NEW a \in Accounts, NEW h \in Goods, NEW r \in Refs, NEW n \in Int,
         Puts(a, h, n), Leaves(r, h, n), NEW g \in Goods
  PROVE  Items(g)' = Items(g)
<1> DEFINE k == IF g = h THEN n ELSE 0
<1>1. /\ Held(g) \in [Accounts -> Int] /\ InEscrow(g) \in [Refs -> Int]
      /\ SumFunction(Held(g)) \in Int /\ SumFunction(InEscrow(g)) \in Int
  BY ItemNumbers
<1>2. Held(g)' \in [Accounts -> Int]
  BY DEF ItemTypes, Held
<1>3. InEscrow(g)' \in [Refs -> Int]
  <2>1. \A s \in Refs : escrow'[s].amt \in Int
    BY DEF ItemTypes, EscrowRows, NoEscrow
  <2> QED
    BY <2>1 DEF InEscrow
<1>4. stash[a][h] \in Int /\ \A b \in Accounts : stash[b] \in [Goods -> Nat]
  BY DEF ItemTypes
<1>5. Held(g)'[a] = Held(g)[a] + k
  <2>1. stash'[a][g] = stash[a][g] + k /\ stash[a][g] \in Int
    BY <1>4 DEF ItemTypes, Puts
  <2> QED
    BY <2>1 DEF Held
<1>6. \A b \in Accounts \ {a} : Held(g)'[b] = Held(g)[b]
  BY DEF ItemTypes, Held, Puts
<1>7. InEscrow(g)'[r] = InEscrow(g)[r] - k
  BY DEF Leaves
<1>8. \A s \in Refs \ {r} : InEscrow(g)'[s] = InEscrow(g)[s]
  BY DEF InEscrow, Leaves
<1> DEFINE H == Held(g)
           I == Held(g)'
           E == InEscrow(g)
           F == InEscrow(g)'
<1>9. Items(g) = SumFunction(H) + SumFunction(E) /\ Items(g)' = SumFunction(I) + SumFunction(F)
  BY DEF Items
<1>10. /\ H \in [Accounts -> Int] /\ I \in [Accounts -> Int] /\ \A b \in Accounts \ {a} : I[b] = H[b]
       /\ E \in [Refs -> Int] /\ F \in [Refs -> Int] /\ \A s \in Refs \ {r} : F[s] = E[s]
       /\ I[a] = H[a] + k /\ F[r] = E[r] - k /\ k \in Int
       /\ SumFunction(H) \in Int /\ SumFunction(E) \in Int
  BY <1>1, <1>2, <1>3, <1>5, <1>6, <1>7, <1>8
<1> HIDE DEF H, I, E, F, k
<1>11. SumFunction(I) = SumFunction(H) - H[a] + I[a] /\ SumFunction(F) = SumFunction(E) - E[r] + F[r]
  BY <1>10, FiniteRows, SumWholeChange
<1>12. H[a] \in Int /\ E[r] \in Int
  BY <1>10
<1> QED
  BY <1>9, <1>10, <1>11, <1>12

LEMMA ItemsStay ==
  ASSUME UNCHANGED <<stash, escrow>>, NEW g \in Goods
  PROVE  Items(g)' = Items(g)
BY DEF Items, Held, InEscrow

LEMMA EscrowedItems ==
  ASSUME ItemTypes, ItemTypes', NEW a \in Accounts, NEW r \in Refs, NEW h \in Goods, NEW n \in Nat \ {0},
         escrow[r] = NoEscrow, MoveToEscrow(a, r, h, n), NEW g \in Goods
  PROVE  Items(g)' = Items(g)
<1> DEFINE row == [owner |-> a, good |-> h, amt |-> n]
           m == 0 - n
<1>1. /\ stash' = [stash EXCEPT ![a][h] = stash[a][h] - n] /\ escrow' = [escrow EXCEPT ![r] = row]
      /\ stash[a][h] \in Int
  BY DEF MoveToEscrow, ItemTypes
<1>2. escrow'[r] = row /\ \A s \in Refs \ {r} : escrow'[s] = escrow[s]
  BY <1>1 DEF ItemTypes
<1>3. \A k \in Goods : InEscrow(k)[r] = 0
  BY DEF InEscrow, NoEscrow
<1>4. \A k \in Goods : InEscrow(k)'[r] = IF k = h THEN n ELSE 0
  BY <1>2 DEF InEscrow
<1>5. \A k \in Goods : InEscrow(k)'[r] = InEscrow(k)[r] - (IF k = h THEN m ELSE 0)
  BY <1>3, <1>4
<1>6. stash[a][h] - n = stash[a][h] + m /\ m \in Int
  BY <1>1
<1> HIDE DEF m, row
<1>7. Puts(a, h, m) /\ Leaves(r, h, m)
  BY <1>1, <1>2, <1>5, <1>6 DEF Puts, Leaves
<1> QED
  BY <1>6, <1>7, ItemsMove

LEMMA HandedItems ==
  ASSUME ItemTypes, ItemTypes', NEW r \in Refs, NEW a \in Accounts, NEW n \in 1..escrow[r].amt,
         HandOver(r, a, n), NEW g \in Goods
  PROVE  Items(g)' = Items(g)
<1> DEFINE h == escrow[r].good
           left == escrow[r].amt - n
<1>1. escrow[r].amt \in Nat /\ escrow[r].amt > 0 /\ escrow[r] \in EscrowRows /\ n \in Int
  BY EscrowIs
<1>2. h \in Goods
  BY <1>1 DEF EscrowRows
<1>3. stash' = [stash EXCEPT ![a][h] = stash[a][h] + n]
  BY DEF HandOver
<1>4. \A s \in Refs \ {r} : escrow'[s] = escrow[s]
  BY HandsOver
<1>5. \A k \in Goods : InEscrow(k)[r] = IF k = h THEN escrow[r].amt ELSE 0
  BY <1>1 DEF InEscrow
<1>6. \A k \in Goods : InEscrow(k)'[r] = IF k = h THEN left ELSE 0
  <2>1. CASE n = escrow[r].amt
    <3>1. escrow'[r] = NoEscrow /\ left = 0
      BY <1>1, <2>1 DEF HandOver, ItemTypes
    <3> QED
      BY <3>1 DEF InEscrow, NoEscrow
  <2>2. CASE n # escrow[r].amt
    <3> DEFINE row == [escrow[r] EXCEPT !.amt = left]
    <3>1. escrow'[r] = row /\ left > 0
      <4>1. escrow' = [escrow EXCEPT ![r].amt = left]
        BY <2>2 DEF HandOver
      <4>2. escrow' = [escrow EXCEPT ![r] = row]
        BY <1>1, <4>1 DEF ItemTypes
      <4>3. left > 0
        BY <1>1, <2>2
      <4> HIDE DEF row, left
      <4> QED
        BY <4>2, <4>3 DEF ItemTypes
    <3>2. escrow'[r].amt = left /\ escrow'[r].good = h
      BY <1>1, <3>1 DEF EscrowRows
    <3> HIDE DEF left, h, row
    <3> QED
      BY <3>1, <3>2 DEF InEscrow
  <2> QED
    BY <2>1, <2>2
<1>7. \A k \in Goods : InEscrow(k)'[r] = InEscrow(k)[r] - (IF k = h THEN n ELSE 0)
  BY <1>1, <1>5, <1>6
<1> HIDE DEF h, left
<1>8. Puts(a, h, n) /\ Leaves(r, h, n)
  BY <1>3, <1>4, <1>7 DEF Puts, Leaves
<1> QED
  BY <1>1, <1>2, <1>8, ItemsMove

LEMMA InitItems ==
  ASSUME Init, NEW g \in Goods
  PROVE  Items(g) = InitStash[g] * Cardinality(Accounts)
<1>1. InitStash[g] \in Int
  BY MarketBounds
<1>2. DOMAIN Held(g) = Accounts /\ \A a \in Accounts : Held(g)[a] = InitStash[g]
  BY DEF Init, Held
<1>3. SumFunction(Held(g)) = InitStash[g] * Cardinality(Accounts)
  <2> DEFINE f == Held(g)
             c == InitStash[g]
  <2>1. c \in Int /\ DOMAIN f = Accounts /\ \A a \in Accounts : f[a] = c
    BY <1>1, <1>2
  <2> HIDE DEF f, c
  <2>2. SumFunction(f) = c * Cardinality(Accounts)
    BY <2>1, FiniteRows, SumWholeConstant
  <2> QED
    BY <2>2 DEF f, c
<1>4. DOMAIN InEscrow(g) = Refs /\ \A r \in Refs : InEscrow(g)[r] = 0
  BY DEF Init, InEscrow, NoEscrow
<1>5. SumFunction(InEscrow(g)) = 0
  <2> DEFINE f == InEscrow(g)
  <2>1. DOMAIN f = Refs /\ \A r \in Refs : f[r] = 0
    BY <1>4
  <2> HIDE DEF f
  <2>2. SumFunctionOnSet(f, Refs) = 0
    BY <2>1, FiniteRows, SumZero
  <2>3. SumFunction(f) = 0
    BY <2>1, <2>2, SumWhole
  <2> QED
    BY <2>3 DEF f
<1>6. InitStash[g] * Cardinality(Accounts) \in Int
  BY <1>1, FiniteRows, FS_CardinalityType
<1> QED
  BY <1>3, <1>5, <1>6 DEF Items

LEMMA GiveItems ==
  ASSUME MarketInv, ItemTypes', NEW p \in Handlers, ApplyGiveSide(p), NEW g \in Goods
  PROVE  Items(g)' = Items(g)
<1> DEFINE l == op[p].snap
           a == l.seller
           h == l.give
           n == l.total
           r == nextRef
<1>1. pc[p] = "give" /\ r \in Refs
  BY DEF ApplyGiveSide
<1>2. a \in Accounts /\ h \in Goods /\ n \in Nat \ {0}
  BY <1>1, CallIs DEF ListingRows
<1>3. ItemTypes /\ escrow[r] = NoEscrow
  BY <1>1, MarketBounds DEF MarketInv, MarketTypes, Undrawn, Refs
<1>4. \/ MoveToEscrow(a, r, h, n)
      \/ UNCHANGED <<stash, escrow>>
  BY DEF ApplyGiveSide
<1> HIDE DEF a, h, n, r
<1> QED
  BY <1>1, <1>2, <1>3, <1>4, EscrowedItems, ItemsStay

LEMMA WantItems ==
  ASSUME MarketInv, ItemTypes', NEW p \in Handlers, EscrowTakerWant(p), NEW g \in Goods
  PROVE  Items(g)' = Items(g)
<1> DEFINE a == op[p].actor
           h == op[p].snap.want
           n == op[p].units
           r == nextRef
<1>1. pc[p] = "wants" /\ r \in Refs /\ MoveToEscrow(a, r, h, n)
  BY DEF EscrowTakerWant
<1>2. a \in Accounts /\ h \in Goods /\ n \in Nat \ {0}
  BY <1>1, CallIs DEF ListingRows, Knows
<1>3. ItemTypes /\ escrow[r] = NoEscrow
  BY <1>1, MarketBounds DEF MarketInv, MarketTypes, Undrawn, Refs
<1> HIDE DEF a, h, n, r
<1> QED
  BY <1>1, <1>2, <1>3, EscrowedItems

LEMMA DeliveredItems ==
  ASSUME MarketInv, ItemTypes', NEW l \in LegIds, DeliverLeg(l), NEW g \in Goods
  PROVE  Items(g)' = Items(g)
<1> DEFINE r == legs[l].ref
           a == legs[l].to
           n == LegUnits(l)
<1>1. l = Min(dtodo) /\ dtodo # {}
  BY DEF DeliverLeg, AtLeg
<1>2. l \in 1..Len(legs)
  BY <1>1, JobFacts, MinIn
<1>3. ItemTypes /\ LegTypes
  BY DEF MarketInv, MarketTypes
<1>4. /\ r \in Refs /\ a \in Accounts /\ legs[l].amt \in Nat /\ escrow[r].amt \in Nat
  BY <1>2, <1>3, LegIs, EscrowIs
<1>5. CASE UNCHANGED <<stash, escrow>>
  BY <1>5, ItemsStay
<1>6. CASE Deliverable(l) /\ DeliverEscrow(l)
  <2>1. n \in 0..escrow[r].amt
    BY <1>4, <1>6 DEF Deliverable, LegUnits
  <2> HIDE DEF n
  <2>2. CASE n = 0
    BY <1>5, <1>6, <2>2 DEF DeliverEscrow, n
  <2>3. CASE n # 0
    <3>1. HandOver(r, a, n) /\ n \in 1..escrow[r].amt
      BY <1>4, <1>6, <2>1, <2>3 DEF DeliverEscrow, n
    <3> HIDE DEF r, a
    <3> QED
      BY <1>3, <1>4, <3>1, HandedItems
  <2> QED
    BY <2>2, <2>3
<1> QED
  BY <1>5, <1>6 DEF DeliverLeg

LEMMA ReturnedItems ==
  ASSUME MarketInv, ItemTypes', NEW r \in Refs, ReturnOrphan(r), NEW g \in Goods
  PROVE  Items(g)' = Items(g)
<1> DEFINE a == escrow[r].owner
           n == escrow[r].amt
<1>1. ItemTypes
  BY DEF MarketInv, MarketTypes
<1>2. CASE UNCHANGED <<stash, escrow>>
  BY <1>2, ItemsStay
<1>3. CASE n > 0 /\ HandOver(r, a, n)
  <2>1. a \in Accounts /\ n \in 1..escrow[r].amt
    BY <1>1, <1>3, EscrowIs DEF EscrowRows
  <2> HIDE DEF a, n
  <2> QED
    BY <1>1, <1>3, <2>1, HandedItems
<1> QED
  BY <1>2, <1>3 DEF ReturnOrphan

LEMMA ItemsStep ==
  ASSUME MarketInv, ItemTypes', [Next]_vars, NEW g \in Goods
  PROVE  Items(g)' = Items(g)
<1>1. CASE UNCHANGED <<stash, escrow>>
  BY <1>1, ItemsStay
<1>2. ASSUME NEW p \in Handlers, HandlerStep(p)
      PROVE  Items(g)' = Items(g)
  <2>1. CASE ApplyGiveSide(p) \/ EscrowTakerWant(p)
    BY <2>1, GiveItems, WantItems
  <2>2. CASE \/ ApplyGiveSideRejected(p) \/ PersistListing(p) \/ Burn(p) \/ PrepareTake(p)
             \/ EscrowTakerWantRejected(p) \/ SettleTake(p) \/ TakeRolledBack(p) \/ CancelTx(p)
    BY <1>1, <2>2 DEF ApplyGiveSideRejected, PersistListing, Burn, PrepareTake, EscrowTakerWantRejected,
      SettleTake, TakeRolledBack, CancelTx
  <2> QED
    BY <1>2, <2>1, <2>2 DEF HandlerStep
<1>3. CASE \E p \in Handlers :
             \/ HandlerFails(p)
             \/ \E a \in Accounts :
                  \/ \E o \in Offers : Create(p, a, o)
                  \/ \E r \in Refs : Cancel(p, a, r)
                  \/ \E r \in Refs, n \in Units : Take(p, a, r, n)
  BY <1>1, <1>3 DEF HandlerFails, Create, Cancel, Take
<1>4. CASE \E l \in LegIds : DeliverLeg(l)
  BY <1>4, DeliveredItems
<1>5. CASE ReadPending \/ \E l \in LegIds : LegRefused(l) \/ MarkDone(l) \/ DeliverFails(l)
  BY <1>1, <1>5 DEF ReadPending, LegRefused, MarkDone, DeliverFails, gameVars
<1>6. CASE \E r \in Refs : ReturnOrphan(r)
  BY <1>6, ReturnedItems
<1>7. CASE \/ OrphanRefs \/ AllRefs \/ PendingRefs
           \/ \E S \in SUBSET Refs : DueForExpiry(S)
           \/ \E e \in etodo : ExpireListing(e)
           \/ \E r \in Refs : Age(r)
           \/ \E a \in Accounts : GameLock(a) \/ GameUnlock(a)
           \/ PanelCrash
  BY <1>1, <1>7 DEF OrphanRefs, AllRefs, PendingRefs, DueForExpiry, ExpireListing, Age, GameLock, GameUnlock,
    PanelCrash, gameVars
<1>8. CASE UNCHANGED vars
  BY <1>1, <1>8 DEF vars, gameVars
<1> QED
  BY <1>2, <1>3, <1>4, <1>5, <1>6, <1>7, <1>8 DEF Next, Deliver, Reconcile

-----------------------------------------------------------------------------
(* The units                                                               *)

\* What the legs s owe for the listing r to others than its owner
OwedTo(s, r, owner) == {k \in 1..Len(s) : s[k].ref = r /\ s[k].to # owner}
Owed(s, r, owner) == SumFunctionOnSet([k \in 1..Len(s) |-> s[k].amt], OwedTo(s, r, owner))

\* Owners do not take from themselves, and what is missing from a listing is owed.
Strangers ==
  \A p \in Handlers : pc[p] \in {"prepare", "wants", "settle"} => op[p].actor # op[p].snap.seller
Sold ==
  \A r \in Refs : listing[r] # NoListing /\ GivesItem(listing[r]) =>
    Owed(legs, r, listing[r].seller) = listing[r].total - listing[r].remaining

LEMMA OwedNothing ==
  ASSUME NEW s, NEW r, NEW owner, \A k \in 1..Len(s) : s[k].ref # r
  PROVE  Owed(s, r, owner) = 0
<1>1. OwedTo(s, r, owner) = {}
  BY DEF OwedTo
<1> QED
  BY <1>1, SumEmpty DEF Owed

LEMMA OwedMore ==
  ASSUME NEW s \in Seq(LegRows), NEW d \in LegRows, NEW r, NEW owner
  PROVE  /\ Append(s, d) \in Seq(LegRows) /\ Owed(s, r, owner) \in Int
         /\ Owed(Append(s, d), r, owner) = Owed(s, r, owner) + (IF d.ref = r /\ d.to # owner THEN d.amt ELSE 0)
<1> DEFINE t == Append(s, d)
           n == Len(s) + 1
           f == [k \in 1..Len(s) |-> s[k].amt]
           g == [k \in 1..Len(t) |-> t[k].amt]
           S == OwedTo(s, r, owner)
           T == OwedTo(t, r, owner)
           F == SumFunctionOnSet(f, S)
           G == SumFunctionOnSet(g, T)
<1>1. /\ t \in Seq(LegRows) /\ Len(t) = n /\ t[n] = d /\ Len(s) \in Nat
      /\ \A k \in 1..Len(s) : t[k] = s[k]
  BY AppendProperties, LenProperties
<1> HIDE DEF t
<1>2. S \subseteq 1..Len(s) /\ n \notin S
  BY <1>1 DEF OwedTo
<1>3. IsFiniteSet(S)
  <2>1. IsFiniteSet(1..Len(s))
    BY <1>1, FS_Interval
  <2> HIDE DEF S
  <2> QED
    BY <1>2, <2>1, FS_Subset
<1>4. T = IF d.ref = r /\ d.to # owner THEN S \cup {n} ELSE S
  <2>1. \A k : k \in 1..Len(t) <=> k \in 1..Len(s) \/ k = n
    BY <1>1
  <2>2. \A k : k \in T <=> k \in S \/ (k = n /\ d.ref = r /\ d.to # owner)
    BY <1>1, <2>1 DEF OwedTo
  <2> HIDE DEF S, T, n
  <2>3. CASE d.ref = r /\ d.to # owner
    <3>1. \A k : k \in T <=> k \in S \cup {n}
      BY <2>2, <2>3
    <3> QED
      BY <2>3, <3>1
  <2>4. CASE ~(d.ref = r /\ d.to # owner)
    <3>1. \A k : k \in T <=> k \in S
      BY <2>2, <2>4
    <3> QED
      BY <2>4, <3>1
  <2> QED
    BY <2>3, <2>4
<1>5. \A k \in 1..Len(s) : f[k] = s[k].amt /\ f[k] \in Int /\ k \in 1..Len(t) /\ g[k] = f[k]
  <2> SUFFICES ASSUME NEW k \in 1..Len(s)
               PROVE  f[k] = s[k].amt /\ f[k] \in Int /\ k \in 1..Len(t) /\ g[k] = f[k]
    OBVIOUS
  <2>1. k \in 1..Len(t) /\ t[k] = s[k]
    BY <1>1
  <2>2. s[k] \in LegRows
    BY <1>1
  <2>3. s[k].amt \in Int
    BY <2>2 DEF LegRows
  <2>4. f[k] = s[k].amt /\ g[k] = t[k].amt
    BY <2>1
  <2> QED
    BY <2>1, <2>3, <2>4
<1>6. g[n] = d.amt /\ d.amt \in Int
  BY <1>1 DEF LegRows
<1> HIDE DEF f, g, S, T, n
<1>7. F \in Int
  BY <1>2, <1>3, <1>5, SumInt
<1>8. SumFunctionOnSet(g, S) = F
  BY <1>2, <1>3, <1>5, SumSame
<1>9. G = F + (IF d.ref = r /\ d.to # owner THEN d.amt ELSE 0)
  <2>1. CASE d.ref = r /\ d.to # owner
    <3>1. \A k \in S \cup {n} : g[k] \in Int
      BY <1>2, <1>5, <1>6
    <3>2. SumFunctionOnSet(g, S \cup {n}) = SumFunctionOnSet(g, S) + g[n]
      BY <1>2, <1>3, <3>1, SumAdd
    <3> QED
      BY <1>4, <1>6, <1>8, <2>1, <3>2
  <2>2. CASE ~(d.ref = r /\ d.to # owner)
    <3>1. G = F
      BY <1>4, <1>8, <2>2
    <3> HIDE DEF F, G
    <3> QED
      BY <1>7, <2>2, <3>1
  <2> QED
    BY <2>1, <2>2
<1>10. Owed(s, r, owner) = F /\ Owed(t, r, owner) = G
  BY DEF Owed, f, g, S, T
<1> HIDE DEF F, G
<1> QED
  BY <1>1, <1>7, <1>9, <1>10 DEF t

\* The legs of a take: its units to the taker, and nothing more for anybody.
LEMMA TakeOwes ==
  ASSUME NEW s \in Seq(LegRows), NEW o \in Calls, o.ref \in Refs, WantsItem(o.snap) => o.wref \in Refs,
         NEW r, NEW owner
  PROVE  Owed(s \o TakeLegs(o), r, owner)
         = Owed(s, r, owner) + (IF GivesItem(o.snap) /\ o.ref = r /\ o.actor # owner THEN o.units ELSE 0)
<1> DEFINE g == Leg(o.ref, o.actor, o.units, ~Stackable(o.snap.give))
           w == Leg(o.wref, o.snap.seller, 0, TRUE)
           t == TakeLegs(o)
           k == IF GivesItem(o.snap) /\ o.ref = r /\ o.actor # owner THEN o.units ELSE 0
<1>1. g \in LegRows /\ g.amt = o.units /\ g.ref = o.ref /\ g.to = o.actor
  BY DEF Leg, LegRows, Calls
<1>2. (WantsItem(o.snap) => w \in LegRows) /\ w.amt = 0
  BY DEF Leg, LegRows, Calls, ListingRows
<1>3. t = (IF GivesItem(o.snap) THEN <<g>> ELSE <<>>) \o (IF WantsItem(o.snap) THEN <<w>> ELSE <<>>)
  BY DEF TakeLegs
<1>4. o.units \in Int
  BY DEF Calls
<1> HIDE DEF g, w, t
<1>5. Owed(s, r, owner) \in Int
  BY <1>1, OwedMore
<1>6. CASE GivesItem(o.snap) /\ WantsItem(o.snap)
  <2> DEFINE u == Append(s, g)
  <2>1. u \in Seq(LegRows) /\ Owed(u, r, owner) = Owed(s, r, owner) + k
    <3>1. /\ u \in Seq(LegRows)
          /\ Owed(u, r, owner) = Owed(s, r, owner) + (IF g.ref = r /\ g.to # owner THEN g.amt ELSE 0)
      BY <1>1, OwedMore
    <3> HIDE DEF u
    <3> QED
      BY <1>1, <1>6, <3>1
  <2>2. s \o t = Append(u, w)
    <3>1. t = <<g>> \o <<w>> /\ w \in LegRows
      <4> HIDE DEF u, k
      <4> QED
        BY <1>2, <1>3, <1>6
    <3> DEFINE a == <<g>>
               b == <<w>>
    <3>2. /\ a \in Seq(LegRows) /\ Len(a) = 1 /\ a[1] = g
          /\ b \in Seq(LegRows) /\ Len(b) = 1 /\ b[1] = w /\ t = a \o b
      BY <1>1, <3>1
    <3> HIDE DEF a, b
    <3>3. /\ Len(t) = 2 /\ t \in Seq(LegRows) /\ t[1] = g /\ t[2] = w
      BY <3>2, ConcatProperties
    <3> HIDE DEF u
    <3>4. /\ s \o t \in Seq(LegRows) /\ Len(s \o t) = Len(s) + 2 /\ Len(s) \in Nat
          /\ \A i \in 1..Len(s) + 2 : (s \o t)[i] = IF i <= Len(s) THEN s[i] ELSE t[i - Len(s)]
      <4> HIDE DEF k
      <4>1. /\ s \o t \in Seq(LegRows) /\ Len(s \o t) = Len(s) + Len(t) /\ Len(s) \in Nat
            /\ \A i \in 1..Len(s) + Len(t) : (s \o t)[i] = IF i <= Len(s) THEN s[i] ELSE t[i - Len(s)]
        BY <3>3, ConcatProperties, LenProperties
      <4> QED
        BY <3>3, <4>1
    <3>5. u \in Seq(LegRows) /\ Len(u) = Len(s) + 1 /\ u[Len(s) + 1] = g /\ \A i \in 1..Len(s) : u[i] = s[i]
      BY <1>1, AppendProperties DEF u
    <3>6. /\ Append(u, w) \in Seq(LegRows) /\ Len(Append(u, w)) = Len(s) + 2 /\ Append(u, w)[Len(s) + 2] = w
          /\ \A i \in 1..Len(s) + 1 : Append(u, w)[i] = u[i]
      BY <3>1, <3>4, <3>5, AppendProperties
    <3>7. \A i \in 1..Len(s) + 2 : (s \o t)[i] = Append(u, w)[i]
      <4> SUFFICES ASSUME NEW i \in 1..Len(s) + 2
                   PROVE  (s \o t)[i] = Append(u, w)[i]
        OBVIOUS
      <4>1. CASE i <= Len(s)
        BY <3>4, <3>5, <3>6, <4>1
      <4>2. CASE i = Len(s) + 1
        <5>1. i - Len(s) = 1
          BY <3>4, <4>2
        <5> QED
          BY <3>3, <3>4, <3>5, <3>6, <4>2, <5>1
      <4>3. CASE i = Len(s) + 2
        <5>1. i - Len(s) = 2
          BY <3>4, <4>3
        <5> QED
          BY <3>3, <3>4, <3>6, <4>3, <5>1
      <4>4. i <= Len(s) \/ i = Len(s) + 1 \/ i = Len(s) + 2
        BY <3>4
      <4> QED
        BY <4>1, <4>2, <4>3, <4>4
    <3> QED
      BY <3>4, <3>6, <3>7, SeqEqual
  <2> HIDE DEF u, k
  <2>3. Owed(Append(u, w), r, owner) = Owed(u, r, owner) + 0
    BY <1>2, <1>6, <2>1, OwedMore
  <2>4. k \in Int
    BY <1>4 DEF k
  <2> QED
    BY <1>5, <2>1, <2>2, <2>3, <2>4 DEF k, t
<1>7. CASE GivesItem(o.snap) /\ ~WantsItem(o.snap)
  <2>1. t = <<g>>
    BY <1>3, <1>7
  <2>2. s \o t = Append(s, g)
    BY <1>1, <2>1, AppendIsConcat
  <2> QED
    BY <1>1, <1>7, <2>2, OwedMore DEF t
<1>8. CASE ~GivesItem(o.snap) /\ WantsItem(o.snap)
  <2>1. t = <<w>>
    BY <1>3, <1>8
  <2>2. s \o t = Append(s, w)
    BY <1>2, <1>8, <2>1, AppendIsConcat
  <2> QED
    BY <1>2, <1>8, <2>2, OwedMore DEF t
<1>9. GivesItem(o.snap) \/ WantsItem(o.snap)
  BY DEF GivesItem, WantsItem
<1> QED
  BY <1>6, <1>7, <1>8, <1>9

\* A step that leaves the listings, the legs and what matters of the calls alone
LEMMA UnitsStay ==
  ASSUME Sold, UNCHANGED <<listing, legs>>
  PROVE  Sold'
BY DEF Sold, Owed, OwedTo, GivesItem

LEMMA StrangersStay ==
  ASSUME Strangers,
         \A p \in Handlers : \/ pc'[p] \notin {"prepare", "wants", "settle"}
                             \/ /\ pc[p] \in {"prepare", "wants", "settle"}
                                /\ op'[p].actor = op[p].actor /\ op'[p].snap = op[p].snap
  PROVE  Strangers'
BY DEF Strangers

LEMMA StrangersMove ==
  ASSUME MarketInv, Strangers, NEW p \in Handlers, NEW label \in Labels, NEW o \in Calls \cup {NoOp},
         Goto(p, label, o),
         label \in {"prepare", "wants", "settle"} => o.actor # o.snap.seller
  PROVE  Strangers'
<1>1. /\ pc'[p] = label /\ op'[p] = o
      /\ \A q \in Handlers \ {p} : pc'[q] = pc[q] /\ op'[q] = op[q]
  BY Moves DEF MarketInv, MarketTypes
<1> QED
  BY <1>1 DEF Strangers

LEMMA StrangersReturn ==
  ASSUME MarketInv, Strangers, NEW p \in Handlers, Return(p)
  PROVE  Strangers'
BY StrangersMove DEF Return, Labels

LEMMA PersistSold ==
  ASSUME MarketInv, Sold, NEW p \in Handlers, PersistListing(p)
  PROVE  Sold'
<1> DEFINE r == op[p].ref
           row == op[p].snap
<1>1. pc[p] = "persist" /\ listing' = [listing EXCEPT ![r] = row] /\ legs' = legs
  BY DEF PersistListing
<1>2. r \in Refs \cup {0} /\ row \in ListingRows /\ row.remaining = row.total /\ Private(p)
  BY <1>1, CallIs DEF Knows
<1>3. r # 0 /\ \A k \in 1..Len(legs) : legs[k].ref # r
  BY <1>1, <1>2 DEF Private, Drawn
<1>4. listing'[r] = row /\ \A s \in Refs \ {r} : listing'[s] = listing[s]
  BY <1>1, <1>2, <1>3 DEF MarketInv, MarketTypes, RowTypes
<1>5. row.total - row.remaining = 0
  BY <1>2 DEF ListingRows
<1> HIDE DEF r, row
<1>6. Owed(legs, r, row.seller) = 0
  BY <1>3, OwedNothing
<1> SUFFICES ASSUME NEW s \in Refs, listing'[s] # NoListing, GivesItem(listing'[s])
             PROVE  Owed(legs, s, listing'[s].seller) = listing'[s].total - listing'[s].remaining
  BY <1>1 DEF Sold
<1> QED
  BY <1>4, <1>5, <1>6 DEF Sold

\* The taker is owed what the listing loses.
LEMMA SettleSold ==
  ASSUME MarketInv, Strangers, Sold, NEW p \in Handlers, SettleTake(p)
  PROVE  Sold'
<1> DEFINE o == op[p]
           r == o.ref
           n == o.units
           l == listing[r]
           row == [l EXCEPT !.remaining = @ - n, !.status = IF l.remaining = n THEN "taken" ELSE "active"]
<1>1. /\ pc[p] = "settle" /\ legs' = legs \o TakeLegs(o)
      /\ listing' = [listing EXCEPT ![r].remaining = @ - n,
                       ![r].status = IF listing[r].remaining = n THEN "taken" ELSE "active"]
  BY DEF SettleTake
<1>2. /\ o \in Calls /\ n \in Nat /\ Private(p) /\ r \in Refs /\ l # NoListing /\ SameOffer(o.snap, l)
      /\ o.wref \in Refs \cup {0}
  BY <1>1, CallIs DEF Knows, ReadOf
<1>3. RowTypes /\ LegTypes
  BY DEF MarketInv, MarketTypes
<1>4. l \in ListingRows /\ l.remaining \in Nat /\ l.total \in Nat
  BY <1>2, <1>3, ListingIs DEF ListingRows
<1>5. WantsItem(o.snap) => o.wref \in Refs
  BY <1>1, <1>2 DEF Private, Drawn
<1>6. o.actor # l.seller /\ (GivesItem(o.snap) <=> GivesItem(l))
  BY <1>1, <1>2 DEF Strangers, SameOffer, GivesItem
<1>7. listing'[r] = row /\ \A s \in Refs \ {r} : listing'[s] = listing[s]
  BY <1>1, <1>2, <1>3 DEF RowTypes
<1>8. row.seller = l.seller /\ row.kind = l.kind /\ row.total = l.total /\ row.remaining = l.remaining - n
  BY <1>4 DEF ListingRows
<1>9. legs \in Seq(LegRows)
  BY <1>3 DEF LegTypes
<1> HIDE DEF o, r, n, l, row
<1>10. \A s, w : Owed(legs', s, w) = Owed(legs, s, w)
                   + (IF GivesItem(o.snap) /\ o.ref = s /\ o.actor # w THEN o.units ELSE 0)
  BY <1>1, <1>2, <1>5, <1>9, TakeOwes DEF r
<1> SUFFICES ASSUME NEW s \in Refs, listing'[s] # NoListing, GivesItem(listing'[s])
             PROVE  Owed(legs', s, listing'[s].seller) = listing'[s].total - listing'[s].remaining
  BY DEF Sold
<1>11. CASE s = r
  <2>1. GivesItem(l)
    BY <1>7, <1>8, <1>11 DEF GivesItem
  <2>2. Owed(legs, r, l.seller) = l.total - l.remaining
    BY <1>2, <2>1 DEF Sold, l
  <2>3. Owed(legs', r, l.seller) = Owed(legs, r, l.seller) + n
    BY <1>6, <1>10, <2>1 DEF r, n
  <2>4. Owed(legs', r, l.seller) = l.total - (l.remaining - n)
    BY <1>2, <1>4, <2>2, <2>3
  <2> QED
    BY <1>7, <1>8, <1>11, <2>4
<1>12. CASE s # r
  <2>1. listing'[s] = listing[s] /\ Owed(legs, s, listing[s].seller) = listing[s].total - listing[s].remaining
    BY <1>7, <1>12 DEF Sold
  <2>2. listing[s] \in ListingRows
    BY <1>3, <2>1, ListingIs
  <2>3. listing[s].total - listing[s].remaining \in Int
    BY <2>2 DEF ListingRows
  <2>4. Owed(legs', s, listing[s].seller) = Owed(legs, s, listing[s].seller) + 0
    BY <1>10, <1>12 DEF r
  <2> QED
    BY <2>1, <2>3, <2>4
<1> QED
  BY <1>11, <1>12

\* What is left of a closed listing is owed to its owner.
LEMMA CloseSold ==
  ASSUME MarketInv, Sold, NEW r, NEW l \in ListingRows, NEW status, ReadOf(l, r), CloseListing(r, l, status)
  PROVE  Sold'
<1> DEFINE row == [listing[r] EXCEPT !.status = status]
           leg == Leg(r, l.seller, l.remaining, ~Stackable(l.give))
<1>1. /\ r \in Refs /\ listing[r] # NoListing /\ l.seller = listing[r].seller
      /\ l.seller \in Accounts /\ l.remaining \in Nat
  BY DEF ReadOf, SameOffer, ListingRows
<1>2. RowTypes /\ LegTypes
  BY DEF MarketInv, MarketTypes
<1>3. listing[r] \in ListingRows
  BY <1>1, <1>2, ListingIs
<1>4. listing' = [listing EXCEPT ![r].status = status]
      /\ legs' = IF GivesItem(l) THEN Append(legs, leg) ELSE legs
  BY DEF CloseListing
<1>5. /\ row.seller = listing[r].seller /\ row.kind = listing[r].kind
      /\ row.total = listing[r].total /\ row.remaining = listing[r].remaining
  BY <1>3 DEF ListingRows
<1>6. listing'[r] = row /\ \A s \in Refs \ {r} : listing'[s] = listing[s]
  BY <1>1, <1>2, <1>4 DEF RowTypes
<1>7. leg \in LegRows /\ leg.ref = r /\ leg.to = l.seller
  BY <1>1 DEF Leg, LegRows
<1> HIDE DEF row, leg
<1>8. ASSUME NEW s \in Refs, s = r => GivesItem(listing[r])
      PROVE  Owed(legs', s, listing[s].seller) = Owed(legs, s, listing[s].seller)
  <2>1. CASE GivesItem(l)
    <3>1. legs \in Seq(LegRows) /\ legs' = Append(legs, leg)
      BY <1>2, <1>4, <2>1 DEF LegTypes
    <3>2. ~(leg.ref = s /\ leg.to # listing[s].seller)
      BY <1>1, <1>7
    <3> DEFINE w == listing[s].seller
    <3>3. ~(leg.ref = s /\ leg.to # w)
      BY <3>2
    <3> HIDE DEF w
    <3>4. /\ Owed(legs, s, w) \in Int
          /\ Owed(Append(legs, leg), s, w)
             = Owed(legs, s, w) + (IF leg.ref = s /\ leg.to # w THEN leg.amt ELSE 0)
      BY <1>7, <3>1, OwedMore
    <3>5. Owed(Append(legs, leg), s, w) = Owed(legs, s, w)
      BY <3>3, <3>4
    <3> QED
      BY <3>1, <3>5 DEF w
  <2>2. CASE ~GivesItem(l)
    BY <1>4, <2>2
  <2> QED
    BY <2>1, <2>2
<1> SUFFICES ASSUME NEW s \in Refs, listing'[s] # NoListing, GivesItem(listing'[s])
             PROVE  Owed(legs', s, listing'[s].seller) = listing'[s].total - listing'[s].remaining
  BY DEF Sold
<1>9. listing[s] # NoListing /\ GivesItem(listing[s]) /\ listing'[s].seller = listing[s].seller
      /\ listing'[s].total = listing[s].total /\ listing'[s].remaining = listing[s].remaining
  BY <1>1, <1>5, <1>6 DEF GivesItem
<1>10. Owed(legs', s, listing[s].seller) = Owed(legs, s, listing[s].seller)
  BY <1>8, <1>9
<1> QED
  BY <1>9, <1>10 DEF Sold

LEMMA StrangersStep ==
  ASSUME MarketInv, Strangers, [Next]_vars
  PROVE  Strangers'
<1>1. CASE UNCHANGED <<pc, op>>
  BY <1>1 DEF Strangers
<1>2. ASSUME NEW p \in Handlers, HandlerStep(p)
      PROVE  Strangers'
  <2>1. CASE ApplyGiveSideRejected(p) \/ Burn(p) \/ EscrowTakerWantRejected(p) \/ SettleTake(p)
             \/ TakeRolledBack(p) \/ CancelTx(p)
    BY <2>1, StrangersReturn DEF ApplyGiveSideRejected, Burn, EscrowTakerWantRejected, SettleTake,
      TakeRolledBack, CancelTx
  <2>2. CASE ApplyGiveSide(p)
    <3> DEFINE o == [op[p] EXCEPT !.ref = nextRef]
    <3>1. pc[p] = "give" /\ nextRef \in Refs /\ Goto(p, "persist", o)
      BY <2>2 DEF ApplyGiveSide
    <3>2. o \in Calls
      BY <3>1, CallIs DEF Calls
    <3> HIDE DEF o
    <3> QED
      BY <3>1, <3>2, StrangersMove DEF Labels
  <2>3. CASE PersistListing(p)
    <3>1. pc[p] = "persist" /\ Goto(p, "burn", op[p])
      BY <2>3 DEF PersistListing
    <3> QED
      BY <3>1, CallIs, StrangersMove DEF Labels
  <2>4. CASE PrepareTake(p)
    <3>1. pc[p] = "prepare" /\ \/ Return(p)
                               \/ \E label \in {"wants", "settle"} : Goto(p, label, op[p])
      BY <2>4 DEF PrepareTake
    <3>2. op[p] \in Calls /\ op[p].actor # op[p].snap.seller
      BY <3>1, CallIs DEF Strangers
    <3>3. CASE \E label \in {"wants", "settle"} : Goto(p, label, op[p])
      BY <3>2, <3>3, StrangersMove DEF Labels
    <3> QED
      BY <3>1, <3>3, StrangersReturn
  <2>5. CASE EscrowTakerWant(p)
    <3> DEFINE o == [op[p] EXCEPT !.wref = nextRef]
    <3>1. pc[p] = "wants" /\ nextRef \in Refs /\ Goto(p, "settle", o)
      BY <2>5 DEF EscrowTakerWant
    <3>2. o \in Calls /\ o.actor = op[p].actor /\ o.snap = op[p].snap
      BY <3>1, CallIs DEF Calls
    <3>3. o.actor # o.snap.seller
      BY <3>1, <3>2 DEF Strangers
    <3> HIDE DEF o
    <3> QED
      BY <3>1, <3>2, <3>3, StrangersMove DEF Labels
  <2> QED
    BY <1>2, <2>1, <2>2, <2>3, <2>4, <2>5 DEF HandlerStep
<1>3. ASSUME NEW p \in Handlers, HandlerFails(p)
      PROVE  Strangers'
  BY <1>3, StrangersReturn DEF HandlerFails
<1>4. ASSUME NEW p \in Handlers, NEW a \in Accounts, NEW o \in Offers, Create(p, a, o)
      PROVE  Strangers'
  <2> DEFINE call == [actor |-> a, ref |-> 0, wref |-> 0, units |-> 0, snap |-> NewListing(a, o)]
  <2>1. call \in Calls /\ Goto(p, "give", call)
    <3>1. NewListing(a, o) \in ListingRows
      BY OffersAssumption DEF NewListing, ListingRows
    <3> QED
      BY <1>4, <3>1 DEF Create, Calls
  <2> HIDE DEF call
  <2> QED
    BY <2>1, StrangersMove DEF Labels
<1>5. ASSUME NEW p \in Handlers, NEW a \in Accounts, NEW r \in Refs, Cancel(p, a, r)
      PROVE  Strangers'
  <2> DEFINE call == [actor |-> a, ref |-> r, wref |-> 0, units |-> 0, snap |-> listing[r]]
  <2>1. call \in Calls /\ Goto(p, "close", call)
    <3>1. listing[r] \in ListingRows
      BY <1>5, ListingIs DEF Cancel, NoListing, MarketInv, MarketTypes
    <3> QED
      BY <1>5, <3>1 DEF Cancel, Calls
  <2> HIDE DEF call
  <2> QED
    BY <2>1, StrangersMove DEF Labels
<1>6. ASSUME NEW p \in Handlers, NEW a \in Accounts, NEW r \in Refs, NEW n \in Units, Take(p, a, r, n)
      PROVE  Strangers'
  <2> DEFINE call == [actor |-> a, ref |-> r, wref |-> 0, units |-> n, snap |-> listing[r]]
  <2>1. call \in Calls /\ call.actor # call.snap.seller /\ Goto(p, "prepare", call)
    <3>1. listing[r] \in ListingRows
      BY <1>6, ListingIs DEF Take, NoListing, MarketInv, MarketTypes
    <3>2. n \in Nat /\ listing[r].seller # a /\ Goto(p, "prepare", call)
      BY <1>6, <3>1 DEF Take, ListingRows
    <3> QED
      BY <3>1, <3>2 DEF Calls
  <2> HIDE DEF call
  <2> QED
    BY <2>1, StrangersMove DEF Labels
<1>7. CASE \/ \E S \in SUBSET Refs : DueForExpiry(S)
           \/ \E e \in etodo : ExpireListing(e)
           \/ \E l \in LegIds : DeliverFails(l)
           \/ Deliver \/ Reconcile
           \/ \E r \in Refs : Age(r)
           \/ \E a \in Accounts : GameLock(a) \/ GameUnlock(a)
  BY <1>1, <1>7 DEF DueForExpiry, ExpireListing, DeliverFails, Deliver, ReadPending, DeliverLeg, LegRefused,
    MarkDone, Reconcile, OrphanRefs, AllRefs, PendingRefs, ReturnOrphan, Age, GameLock, GameUnlock,
    WorkerFrame, handlerVars
<1>8. CASE PanelCrash
  BY <1>8 DEF PanelCrash, Strangers
<1>9. CASE UNCHANGED vars
  BY <1>1, <1>9 DEF vars, handlerVars
<1> QED
  BY <1>2, <1>3, <1>4, <1>5, <1>6, <1>7, <1>8, <1>9 DEF Next

LEMMA SoldStep ==
  ASSUME MarketInv, Strangers, Sold, [Next]_vars
  PROVE  Sold'
<1>1. CASE UNCHANGED <<listing, legs>>
  BY <1>1, UnitsStay
<1>2. ASSUME NEW p \in Handlers, HandlerStep(p)
      PROVE  Sold'
  <2>1. CASE PersistListing(p) \/ SettleTake(p)
    BY <2>1, PersistSold, SettleSold
  <2>2. CASE CancelTx(p)
    <3>1. CASE CloseListing(op[p].ref, op[p].snap, "cancelled")
      <4>1. op[p].snap \in ListingRows /\ ReadOf(op[p].snap, op[p].ref)
        BY <2>2, CallIs DEF CancelTx, Knows
      <4> QED
        BY <3>1, <4>1, CloseSold
    <3>2. CASE UNCHANGED pgVars
      BY <1>1, <3>2 DEF pgVars
    <3> QED
      BY <2>2, <3>1, <3>2 DEF CancelTx
  <2>3. CASE \/ ApplyGiveSide(p) \/ ApplyGiveSideRejected(p) \/ Burn(p) \/ PrepareTake(p)
             \/ EscrowTakerWant(p) \/ EscrowTakerWantRejected(p) \/ TakeRolledBack(p)
    BY <1>1, <2>3 DEF ApplyGiveSide, ApplyGiveSideRejected, Burn, PrepareTake, EscrowTakerWant,
      EscrowTakerWantRejected, TakeRolledBack, pgVars
  <2> QED
    BY <1>2, <2>1, <2>2, <2>3 DEF HandlerStep
<1>3. ASSUME NEW e \in etodo, ExpireListing(e)
      PROVE  Sold'
  <2>1. CASE CloseListing(e.ref, e.snap, "expired")
    <3>1. e.snap \in ListingRows /\ ReadOf(e.snap, e.ref)
      BY JobFacts DEF Snapshots
    <3> QED
      BY <2>1, <3>1, CloseSold
  <2>2. CASE UNCHANGED pgVars
    BY <1>1, <2>2 DEF pgVars
  <2> QED
    BY <1>3, <2>1, <2>2 DEF ExpireListing
<1>4. CASE \E p \in Handlers :
             \/ HandlerFails(p)
             \/ \E a \in Accounts :
                  \/ \E o \in Offers : Create(p, a, o)
                  \/ \E r \in Refs : Cancel(p, a, r)
                  \/ \E r \in Refs, n \in Units : Take(p, a, r, n)
  BY <1>1, <1>4 DEF HandlerFails, Create, Cancel, Take, pgVars
<1>5. CASE Deliver \/ \E l \in LegIds : DeliverFails(l)
  BY <1>1, <1>5 DEF Deliver, ReadPending, DeliverLeg, LegRefused, MarkDone, DeliverFails, pgVars
<1>6. CASE Reconcile
  BY <1>1, <1>6 DEF Reconcile, OrphanRefs, AllRefs, PendingRefs, ReturnOrphan, pgVars
<1>7. CASE \/ \E S \in SUBSET Refs : DueForExpiry(S)
           \/ \E r \in Refs : Age(r)
           \/ \E a \in Accounts : GameLock(a) \/ GameUnlock(a)
           \/ PanelCrash
  BY <1>1, <1>7 DEF DueForExpiry, Age, GameLock, GameUnlock, PanelCrash, pgVars
<1>8. CASE UNCHANGED vars
  BY <1>1, <1>8 DEF vars, pgVars
<1> QED
  BY <1>2, <1>3, <1>4, <1>5, <1>6, <1>7, <1>8 DEF Next

-----------------------------------------------------------------------------

\* The columns keep their ranges in every interleaving of the handlers with
\* each other and with the jobs, a leg of Workers.Deliver hands its units over
\* once, and none is marked done that was not delivered.
THEOREM RowsConsistent == Spec => []Consistent
<1>1. ASSUME MarketInv
      PROVE  Consistent
  <2>1. MoneyTypes /\ ItemTypes /\ LegTypes /\ RowTypes /\ Deliveries
    BY <1>1 DEF MarketInv, MarketTypes
  <2>2. \A r \in Refs : listing[r] # NoListing =>
          listing[r].remaining \in 0..listing[r].total /\ listing[r].status \in Closed \cup {"active"}
    BY <2>1, ListingIs
  <2>3. \A r \in Refs : escrow[r].amt \in Nat
    BY <2>1, EscrowIs
  <2>4. TypeOK
    BY <2>1, <2>2, <2>3 DEF TypeOK, MoneyTypes, ItemTypes, LegTypes, RowTypes
  <2> QED
    BY <2>1, <2>4 DEF Consistent, DoneMeansDelivered, Deliveries, LegTypes
<1> QED
  BY <1>1, MarketKeeps, PTL

\* The hold of a buy order is what its open units cost, although Take, Cancel
\* and Workers.Expire act on a listing that they read before they locked it.
THEOREM OrdersBacked == Spec => []HoldBacksOrder
<1>1. ASSUME MarketInv
      PROVE  HoldBacksOrder
  <2>1. \A r \in Refs : listing[r].status # "none" => listing[r] # NoListing
    BY DEF NoListing
  <2> QED
    BY <1>1, <2>1 DEF HoldBacksOrder, MarketInv, HoldsBack, Backing
<1> QED
  BY <1>1, MarketKeeps, PTL

\* What escrowTakerWant put away for a sale that went through stays in escrow
\* until its leg is delivered: Workers.Reconcile never returns it.
THEOREM WantsKept == Spec => []WantLegBacked
<1>1. ASSUME MarketInv
      PROVE  WantLegBacked
  BY <1>1 DEF MarketInv, WantsBacked, WantLegBacked
<1> QED
  BY <1>1, MarketKeeps, PTL

\* Whoever moves an item, a handler, the delivery worker or the reconciler, it
\* moves while the panel has the storage: requireLocked is in the transaction.
THEOREM StorageNeedsLock == Spec => PanelNeedsLock
<1>1. ASSUME NEW a \in Accounts, NEW b, NEW g, NEW v, ItemTypes, stash' = [stash EXCEPT ![b][g] = v],
             locked[b], stash'[a] # stash[a]
      PROVE  locked[a]
  BY <1>1 DEF ItemTypes
<1>2. ASSUME MarketInv, [Next]_vars, NEW a \in Accounts, stash'[a] # stash[a]
      PROVE  locked[a]
  <2>1. ItemTypes
    BY <1>2 DEF MarketInv, MarketTypes
  <2>2. ASSUME NEW r, NEW b, NEW n, HandOver(r, b, n)
        PROVE  locked[a]
    BY <1>1, <1>2, <2>1, <2>2 DEF HandOver
  <2>3. ASSUME NEW r, NEW b, NEW g, NEW n, MoveToEscrow(b, r, g, n)
        PROVE  locked[a]
    BY <1>1, <1>2, <2>1, <2>3 DEF MoveToEscrow, CanMove
  <2>4. stash' # stash
    BY <1>2
  <2>5. CASE \E p \in Handlers : HandlerStep(p)
    BY <2>3, <2>4, <2>5 DEF HandlerStep, ApplyGiveSide, ApplyGiveSideRejected, PersistListing, Burn,
      PrepareTake, EscrowTakerWant, EscrowTakerWantRejected, SettleTake, TakeRolledBack, CancelTx
  <2>6. CASE \E p \in Handlers :
               \/ HandlerFails(p)
               \/ \E b \in Accounts :
                    \/ \E o \in Offers : Create(p, b, o)
                    \/ \E r \in Refs : Cancel(p, b, r)
                    \/ \E r \in Refs, n \in Units : Take(p, b, r, n)
    BY <2>4, <2>6 DEF HandlerFails, Create, Cancel, Take
  <2>7. CASE Deliver \/ \E l \in LegIds : DeliverFails(l)
    BY <2>2, <2>4, <2>7 DEF Deliver, ReadPending, DeliverLeg, DeliverEscrow, LegRefused, MarkDone, DeliverFails, gameVars
  <2>8. CASE Reconcile
    BY <2>2, <2>4, <2>8 DEF Reconcile, OrphanRefs, AllRefs, PendingRefs, ReturnOrphan, gameVars
  <2>9. CASE \/ \E S \in SUBSET Refs : DueForExpiry(S)
             \/ \E e \in etodo : ExpireListing(e)
             \/ \E r \in Refs : Age(r)
             \/ \E b \in Accounts : GameLock(b) \/ GameUnlock(b)
             \/ PanelCrash
    BY <2>4, <2>9 DEF DueForExpiry, ExpireListing, Age, GameLock, GameUnlock, PanelCrash, gameVars
  <2>10. CASE UNCHANGED vars
    BY <2>4, <2>10 DEF vars, gameVars
  <2> QED
    BY <1>2, <2>5, <2>6, <2>7, <2>8, <2>9, <2>10 DEF Next
<1>3. MarketInv /\ [Next]_vars => [\A a \in Accounts : stash'[a] # stash[a] => locked[a]]_vars
  BY <1>2
<1> QED
  BY <1>3, MarketKeeps, PTL DEF Spec, PanelNeedsLock

\* applyGiveSide, settleCurrencyTx, closeListingTx and Burn only move currency
\* between a wallet, a hold and the fees, so none appears or vanishes, whatever
\* handlers and jobs run beside each other and wherever one of them fails.
THEOREM MoneyKept == Spec => []MoneyConserved
<1> DEFINE Kept == MarketInv /\ Money = InitBalance * Cardinality(Accounts)
<1>1. Init => Kept
  BY InitMarketInv, InitMoney
<1>2. Kept /\ [Next]_vars => Kept'
  <2> SUFFICES ASSUME Kept, [Next]_vars
               PROVE  Kept'
    OBVIOUS
  <2>1. MarketInv'
    BY MarketStep
  <2>2. Money' = Money
    BY <2>1, MoneyStep DEF MarketInv, MarketTypes
  <2> QED
    BY <2>1, <2>2
<1>3. Kept => MoneyConserved
  BY DEF Money, MoneyConserved
<1> QED
  BY <1>1, <1>2, <1>3, PTL DEF Spec

\* An item is in a stash or in escrow and nowhere twice, although the offer, the
\* leg that delivers it and the reconciler that returns it are separate
\* transactions that fail, are retried and overtake each other.
THEOREM ItemsKept == Spec => []ItemsConserved
<1> DEFINE Kept == MarketInv /\ \A g \in Goods : Items(g) = InitStash[g] * Cardinality(Accounts)
<1>1. Init => Kept
  BY InitMarketInv, InitItems
<1>2. Kept /\ [Next]_vars => Kept'
  <2> SUFFICES ASSUME Kept, [Next]_vars
               PROVE  Kept'
    OBVIOUS
  <2>1. MarketInv'
    BY MarketStep
  <2>2. \A g \in Goods : Items(g)' = Items(g)
    BY <2>1, ItemsStep DEF MarketInv, MarketTypes
  <2> QED
    BY <2>1, <2>2
<1>3. Kept => ItemsConserved
  BY DEF Items, Held, ItemsConserved
<1> QED
  BY <1>1, <1>2, <1>3, PTL DEF Spec

\* Takers that read a listing at the same time never get more out of it than it
\* has: TakeUnitsTx reads it again under its lock, and the leg that it enqueues
\* in the same transaction owes the taker exactly what the listing loses.
THEOREM NothingOversold == Spec => []NeverOversold
<1> DEFINE Kept == MarketInv /\ Strangers /\ Sold
<1>1. Init => Kept
  <2>1. Init => Strangers /\ Sold
    BY DEF Init, Strangers, Sold
  <2> QED
    BY <2>1, InitMarketInv
<1>2. Kept /\ [Next]_vars => Kept'
  BY MarketStep, StrangersStep, SoldStep
<1>3. ASSUME Kept
      PROVE  NeverOversold
  <2> SUFFICES ASSUME NEW r \in Refs, listing[r].status # "none", GivesItem(listing[r])
               PROVE  LET owed == Owed(legs, r, listing[r].seller)
                      IN owed = listing[r].total - listing[r].remaining /\ owed <= listing[r].total
    BY DEF NeverOversold, LegSum, LegsOf, Owed, OwedTo
  <2>1. listing[r] # NoListing
    BY DEF NoListing
  <2>2. Owed(legs, r, listing[r].seller) = listing[r].total - listing[r].remaining
    BY <1>3, <2>1 DEF Sold
  <2>3. listing[r].total \in Nat /\ listing[r].remaining \in Nat
    BY <1>3, <2>1, ListingIs DEF MarketInv, MarketTypes, ListingRows
  <2> QED
    BY <2>2, <2>3
<1> QED
  BY <1>1, <1>2, <1>3, PTL DEF Spec
=============================================================================
