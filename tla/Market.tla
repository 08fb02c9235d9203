------------------------------- MODULE Market -------------------------------
(***************************************************************************)
(* The player market.  Listings, holds, wallets and settlement legs are in *)
(* Postgres; the stash and the escrow are in MariaDB, so no transaction    *)
(* covers both.  An offer moves its item to escrow (or its currency to a   *)
(* hold) first and is persisted afterwards; a sale only enqueues legs,     *)
(* which the delivery worker carries out later, and escrow that no listing *)
(* and no leg accounts for is handed back by the reconciler.               *)
(*                                                                         *)
(* Handlers of OfferService run concurrently with each other and with the  *)
(* three jobs of Workers.  One currency stands for zeny and cashpoints,    *)
(* and a unit is one piece of the good.                                    *)
(***************************************************************************)
EXTENDS Integers, Sequences, FiniteSets, FiniteSetsExt, Functions

CONSTANTS
  Accounts,
  Handlers,     \* concurrent HTTP requests
  Offers,       \* the offers made: [kind, give, want, qty]
  Price,        \* currency per unit
  FeeBps,       \* FeePolicy.Bps
  FlatFee,      \* FeePolicy.FlatZeny
  InitBalance, InitStash,
  MaxBalance,   \* math.MaxInt64 or math.MaxInt32
  Slots,        \* MaxSlots of a stash
  Batch,        \* Workers.batch
  MaxRef,       \* bound: values drawn from cp_market_ref_seq
  MaxLegs,      \* bound: settlement legs
  MaxUnlocks,   \* bound: times the game takes a storage back
  MaxFaults     \* bound: failed calls and crashes

Goods  == {"stack", "gear"}
Kinds  == {"sell", "barter", "buy"}   \* "barter" is a sell offer that also wants an item
Refs   == 1..MaxRef
LegIds == 1..MaxLegs
Units  == 1..Max({o.qty : o \in Offers})

ASSUME OffersAssumption ==
  Offers \subseteq [kind : Kinds, give : Goods, want : Goods, qty : Nat \ {0}]

ASSUME AccountsAssumption == IsFiniteSet(Accounts)

ASSUME MarketBounds ==
  /\ Price \in Nat \ {0} /\ FeeBps \in 0..10000 /\ FlatFee \in Nat
  /\ InitBalance \in 0..MaxBalance /\ MaxBalance \in Nat
  /\ InitStash \in [Goods -> Nat]
  /\ Slots \in Nat /\ Batch \in Nat \ {0}
  /\ MaxRef \in Nat /\ MaxLegs \in Nat /\ MaxUnlocks \in Nat /\ MaxFaults \in Nat

VARIABLES
  balance, hold,           \* cp_currency; cp_currency_hold, under its listing's ref
  listing,                 \* cp_listing
  legs, legDone,           \* cp_settlement, and the ids with status 2
  nextRef,                 \* cp_market_ref_seq
  stash, escrow, aged,     \* cp_storage; cp_storage_escrow; its rows older than the grace
  applied,                 \* cp_delivery_applied
  locked,                  \* cp_storage_lock
  pc, op,                  \* the handlers
  dpc, dtodo,              \* Workers.Deliver: legs left of the batch
  etodo,                   \* Workers.Expire: snapshots left of the batch
  rpc, orphans, known,     \* Workers.Reconcile
  burned,                  \* history: fees
  received,                \* history: what a leg handed over
  unlocks, faults

pgVars      == <<balance, hold, listing, legs, legDone, burned>>
gameVars    == <<stash, escrow, aged, applied, received>>
lockVars    == <<locked, unlocks>>
handlerVars == <<pc, op>>
deliverVars == <<dpc, dtodo>>
reconVars   == <<rpc, orphans, known>>
vars == <<pgVars, nextRef, gameVars, lockVars, handlerVars, deliverVars, etodo, reconVars, faults>>

NoListing == [status |-> "none"]
NoEscrow  == [amt |-> 0]
NoOp      == [actor |-> "none"]

Init ==
  /\ balance = [a \in Accounts |-> InitBalance]
  /\ hold = [r \in Refs |-> 0]
  /\ listing = [r \in Refs |-> NoListing]
  /\ legs = <<>> /\ legDone = {} /\ nextRef = 1
  /\ stash = [a \in Accounts |-> InitStash]
  /\ escrow = [r \in Refs |-> NoEscrow] /\ aged = {}
  /\ applied = {} /\ received = [l \in LegIds |-> 0]
  /\ locked = [a \in Accounts |-> TRUE] /\ unlocks = 0
  /\ pc = [p \in Handlers |-> "idle"] /\ op = [p \in Handlers |-> NoOp]
  /\ dpc = "idle" /\ dtodo = {}
  /\ etodo = {}
  /\ rpc = "idle" /\ orphans = {} /\ known = {}
  /\ burned = 0 /\ faults = 0

Fault == faults < MaxFaults /\ faults' = faults + 1

-----------------------------------------------------------------------------
(* The stash and the escrow.                                               *)

GivesItem(l) == l.kind # "buy"
WantsItem(l) == l.kind # "sell"
Stackable(g) == g = "stack"

\* A stackable good is one row, whatever its amount; gear is a row apiece.
SlotsUsed(a) == (IF stash[a]["stack"] > 0 THEN 1 ELSE 0) + stash[a]["gear"]

\* ensureCapacity, and what mergeIntoExistingStack and insertStashChunks need
HasRoom(a, g) == (Stackable(g) /\ stash[a][g] > 0) \/ SlotsUsed(a) < Slots

\* MoveToEscrow's requireLocked and validateEscrowMove
CanMoveIfOwned(a, g, n) == n <= stash[a][g] /\ (Stackable(g) \/ n = 1)  \* mutant
CanMove(a, g, n) == locked[a] /\ n <= stash[a][g] /\ (Stackable(g) \/ n = 1)

MoveToEscrowCopies(a, r, g, n) ==  \* mutant: only a whole stack leaves the stash
  /\ CanMove(a, g, n)
  /\ stash' = IF n = stash[a][g] THEN [stash EXCEPT ![a][g] = 0] ELSE stash
  /\ escrow' = [escrow EXCEPT ![r] = [owner |-> a, good |-> g, amt |-> n]]
MoveToEscrow(a, r, g, n) ==
  /\ CanMove(a, g, n)
  /\ stash' = [stash EXCEPT ![a][g] = @ - n]
  /\ escrow' = [escrow EXCEPT ![r] = [owner |-> a, good |-> g, amt |-> n]]

\* upsertStashStack with reduceEscrowRow, or with the DELETE of drainEscrowTx
HandOver(r, a, n) ==
  /\ locked[a] /\ HasRoom(a, escrow[r].good)
  /\ stash' = [stash EXCEPT ![a][escrow[r].good] = @ + n]
  /\ escrow' = IF n = escrow[r].amt THEN [escrow EXCEPT ![r] = NoEscrow] ELSE [escrow EXCEPT ![r].amt = @ - n]
  /\ aged' = IF n = escrow[r].amt THEN aged \ {r} ELSE aged

\* An escrow row outlives reconcileGrace, which no handler does.
Age(r) ==
  /\ escrow[r].amt > 0 /\ r \notin aged
  /\ \A p \in Handlers : /\ pc[p] = "persist" => op[p].ref # r
                         /\ pc[p] = "settle" => op[p].wref # r
  /\ aged' = aged \cup {r}
  /\ UNCHANGED <<pgVars, nextRef, stash, escrow, applied, received, lockVars, handlerVars,
                 deliverVars, etodo, reconVars, faults>>

\* The game takes the storage of an account, and gives it back.
GameLock(a) ==
  /\ ~locked[a]
  /\ locked' = [locked EXCEPT ![a] = TRUE]
  /\ UNCHANGED <<pgVars, nextRef, gameVars, unlocks, handlerVars, deliverVars, etodo, reconVars, faults>>

GameUnlock(a) ==
  /\ locked[a] /\ unlocks < MaxUnlocks
  /\ locked' = [locked EXCEPT ![a] = FALSE]
  /\ unlocks' = unlocks + 1
  /\ UNCHANGED <<pgVars, nextRef, gameVars, handlerVars, deliverVars, etodo, reconVars, faults>>

-----------------------------------------------------------------------------
(* OfferService.Create                                                     *)

Goto(p, label, o) == pc' = [pc EXCEPT ![p] = label] /\ op' = [op EXCEPT ![p] = o]
Return(p) == Goto(p, "idle", NoOp)

\* Every step of a handler leaves these alone.
HandlerFrame == UNCHANGED <<lockVars, aged, applied, received, deliverVars, etodo, reconVars>>

NewListing(a, o) ==
  [seller |-> a, kind |-> o.kind, give |-> o.give, want |-> o.want,
   total |-> o.qty, remaining |-> o.qty, status |-> "active"]

\* validateCreate and prepareGiveItem
Create(p, a, o) ==
  /\ pc[p] = "idle"
  /\ GivesItem(o) => /\ locked[a] /\ stash[a][o.give] > 0
                     /\ Stackable(o.give) \/ o.qty = 1
  /\ nextRef \in Refs
  /\ Goto(p, "give", [actor |-> a, ref |-> 0, wref |-> 0, units |-> 0, snap |-> NewListing(a, o)])
  /\ HandlerFrame /\ UNCHANGED <<pgVars, nextRef, stash, escrow, faults>>

\* applyGiveSide: MoveToEscrow for a sell offer, Hold for a buy offer
ApplyGiveSide(p) ==
  LET l == op[p].snap
      cost == Price * l.total
  IN /\ pc[p] = "give" /\ nextRef \in Refs
     /\ \/ /\ GivesItem(l)
           /\ MoveToEscrow(l.seller, nextRef, l.give, l.total)
           /\ UNCHANGED <<balance, hold>>
        \/ /\ ~GivesItem(l) /\ cost <= balance[l.seller]
           /\ balance' = [balance EXCEPT ![l.seller] = @ - cost]
           /\ hold' = [hold EXCEPT ![nextRef] = cost]
           /\ UNCHANGED <<stash, escrow>>
     /\ nextRef' = nextRef + 1
     /\ Goto(p, "persist", [op[p] EXCEPT !.ref = nextRef])
     /\ HandlerFrame /\ UNCHANGED <<listing, legs, legDone, burned, faults>>

ApplyGiveSideRejected(p) ==
  LET l == op[p].snap
  IN /\ pc[p] = "give"
     /\ \/ GivesItem(l) /\ ~CanMove(l.seller, l.give, l.total)
        \/ ~GivesItem(l) /\ Price * l.total > balance[l.seller]
        \/ nextRef \notin Refs
     /\ Return(p)
     /\ HandlerFrame /\ UNCHANGED <<pgVars, nextRef, stash, escrow, faults>>

PersistListing(p) ==
  /\ pc[p] = "persist"
  /\ listing' = [listing EXCEPT ![op[p].ref] = op[p].snap]
  /\ Goto(p, "burn", op[p])
  /\ HandlerFrame /\ UNCHANGED <<balance, hold, legs, legDone, burned, nextRef, stash, escrow, faults>>

\* Burn of the flat fee; a seller who cannot pay it is only logged.
Burn(p) ==
  /\ pc[p] = "burn"
  /\ LET fee == IF FlatFee <= balance[op[p].actor] THEN FlatFee ELSE 0
     IN /\ balance' = [balance EXCEPT ![op[p].actor] = @ - fee]
        /\ burned' = burned + fee
  /\ Return(p)
  /\ HandlerFrame /\ UNCHANGED <<hold, listing, legs, legDone, nextRef, stash, escrow, faults>>

-----------------------------------------------------------------------------
(* OfferService.Take                                                       *)

\* Get and validateTake: the listing as the rest of the handler sees it
Take(p, a, r, n) ==
  /\ pc[p] = "idle"
  /\ listing[r].status = "active" /\ listing[r].seller # a
  /\ n \in 1..listing[r].remaining
  /\ Goto(p, "prepare", [actor |-> a, ref |-> r, wref |-> 0, units |-> n, snap |-> listing[r]])
  /\ HandlerFrame /\ UNCHANGED <<pgVars, nextRef, stash, escrow, faults>>

\* prepareTake up to MoveToEscrow: reads that decide nothing but a refusal
PrepareTake(p) ==
  LET l == op[p].snap
      a == op[p].actor
      fits == /\ GivesItem(l) => HasRoom(a, l.give)
              /\ WantsItem(l) => /\ locked[a] /\ stash[a][l.want] >= op[p].units
                                 /\ HasRoom(l.seller, l.want)
  IN /\ pc[p] = "prepare"
     /\ IF ~fits THEN Return(p)
        ELSE Goto(p, IF WantsItem(l) THEN "wants" ELSE "settle", op[p])
     /\ HandlerFrame /\ UNCHANGED <<pgVars, nextRef, stash, escrow, faults>>

\* escrowTakerWant
EscrowTakerWant(p) ==
  /\ pc[p] = "wants" /\ nextRef \in Refs
  /\ MoveToEscrow(op[p].actor, nextRef, op[p].snap.want, op[p].units)
  /\ nextRef' = nextRef + 1
  /\ Goto(p, "settle", [op[p] EXCEPT !.wref = nextRef])
  /\ HandlerFrame /\ UNCHANGED <<pgVars, faults>>

EscrowTakerWantRejected(p) ==
  /\ pc[p] = "wants"
  /\ nextRef \notin Refs \/ ~CanMove(op[p].actor, op[p].snap.want, op[p].units)
  /\ Return(p)
  /\ HandlerFrame /\ UNCHANGED <<pgVars, nextRef, stash, escrow, faults>>

\* FeePolicy.NetZeny, FeePolicy.NetCashpoint
Net(gross) == gross - (gross * FeeBps) \div 10000

\* TakeUnitsTx's reading of the row it has locked
TakeableAsRead(r, n, snap) == snap.status = "active" /\ n <= snap.remaining  \* mutant
Takeable(r, n, snap) == listing[r].status = "active" /\ n <= listing[r].remaining

\* settleCurrencyTx: who is paid, and whether ChargeTx or SettleHoldPartialTx can
Payee(l, taker) == IF GivesItem(l) THEN l.seller ELSE taker
Payable(r, taker, gross) ==
  LET l == listing[r]
  IN /\ gross <= (IF GivesItem(l) THEN balance[taker] ELSE hold[r])
     /\ balance[Payee(l, taker)] + Net(gross) <= MaxBalance

SettledNet(r, taker, gross) ==  \* mutant: the hold is reduced by what the payee gets
  /\ balance' = [balance EXCEPT ![Payee(listing[r], taker)] = @ + Net(gross)]
  /\ hold' = [hold EXCEPT ![r] = @ - Net(gross)]
  /\ burned' = burned + gross - Net(gross)
SettledWhole(r, taker, gross) ==  \* mutant: every take pays for the whole listing
  /\ balance' = [balance EXCEPT ![taker] = @ - Price * listing[r].total]
  /\ UNCHANGED <<hold, burned>>
Settled(r, taker, gross) ==
  LET l == listing[r]
      paid == IF GivesItem(l) THEN [balance EXCEPT ![taker] = @ - gross] ELSE balance
  IN /\ balance' = [paid EXCEPT ![Payee(l, taker)] = @ + Net(gross)]
     /\ hold' = IF GivesItem(l) THEN hold ELSE [hold EXCEPT ![r] = @ - gross]
     /\ burned' = burned + gross - Net(gross)

\* enqueueLegsTx
Leg(r, to, n, whole) == [ref |-> r, to |-> to, amt |-> n, whole |-> whole]
TakeLegs(o) ==
  (IF GivesItem(o.snap)
     THEN <<Leg(o.ref, o.actor, o.units, ~Stackable(o.snap.give))>> ELSE <<>>)
  \o (IF WantsItem(o.snap) THEN <<Leg(o.wref, o.snap.seller, 0, TRUE)>> ELSE <<>>)

\* The transaction of Take
SettleTake(p) ==
  LET o == op[p]
      gross == Price * o.units
  IN /\ pc[p] = "settle"
     /\ Takeable(o.ref, o.units, o.snap) /\ Payable(o.ref, o.actor, gross)
     /\ Len(legs \o TakeLegs(o)) <= MaxLegs
     /\ listing' = [listing EXCEPT ![o.ref].remaining = @ - o.units,
                      ![o.ref].status = IF listing[o.ref].remaining = o.units THEN "taken" ELSE "active"]
     /\ Settled(o.ref, o.actor, gross)
     /\ legs' = legs \o TakeLegs(o)
     /\ Return(p)
     /\ HandlerFrame /\ UNCHANGED <<legDone, nextRef, stash, escrow, faults>>

\* Rolled back: what the taker put in escrow stays there.
TakeRolledBack(p) ==
  LET o == op[p]
  IN /\ pc[p] = "settle"
     /\ \/ ~Takeable(o.ref, o.units, o.snap) \/ ~Payable(o.ref, o.actor, Price * o.units)
        \/ Len(legs \o TakeLegs(o)) > MaxLegs
     /\ Return(p)
     /\ HandlerFrame /\ UNCHANGED <<pgVars, nextRef, stash, escrow, faults>>

-----------------------------------------------------------------------------
(* OfferService.Cancel and Workers.Expire                                  *)

Cancel(p, a, r) ==
  /\ pc[p] = "idle"
  /\ listing[r].status = "active" /\ listing[r].seller = a
  /\ Goto(p, "close", [actor |-> a, ref |-> r, wref |-> 0, units |-> 0, snap |-> listing[r]])
  /\ HandlerFrame /\ UNCHANGED <<pgVars, nextRef, stash, escrow, faults>>

\* ReleaseTx finds the hold, and its owner can be credited.
Releasable(r, l) == hold[r] > 0 /\ balance[l.seller] + hold[r] <= MaxBalance
CanClose(r, l) == IF GivesItem(l) THEN Len(legs) < MaxLegs ELSE Releasable(r, l)

\* closeListingTx, given the listing its caller has read
CloseListingNoRelease(r, l, status) ==  \* mutant: the hold is left in place
  /\ listing' = [listing EXCEPT ![r].status = status]
  /\ legs' = legs
  /\ balance' = [balance EXCEPT ![l.seller] = @ + hold[r]]
  /\ UNCHANGED <<hold, legDone, burned>>
CloseListing(r, l, status) ==
  /\ listing' = [listing EXCEPT ![r].status = status]
  /\ legs' = IF GivesItem(l)
             THEN Append(legs, Leg(r, l.seller, l.remaining, ~Stackable(l.give))) ELSE legs
  /\ balance' = [balance EXCEPT ![l.seller] = @ + hold[r]]
  /\ hold' = [hold EXCEPT ![r] = 0]
  /\ UNCHANGED <<legDone, burned>>

CancelTx(p) ==
  LET r == op[p].ref
      l == op[p].snap
  IN /\ pc[p] = "close"
     /\ IF CanClose(r, l) THEN CloseListing(r, l, "cancelled") ELSE UNCHANGED pgVars
     /\ Return(p)
     /\ HandlerFrame /\ UNCHANGED <<nextRef, stash, escrow, faults>>

WorkerFrame == UNCHANGED <<nextRef, lockVars, handlerVars>>

\* DueForExpiry: at any time, any of the active listings may have passed expires_at.
DueForExpiry(S) ==
  /\ etodo = {} /\ S # {} /\ Cardinality(S) <= Batch
  /\ \A r \in S : listing[r].status = "active"
  /\ etodo' = {[ref |-> r, snap |-> listing[r]] : r \in S}
  /\ WorkerFrame /\ UNCHANGED <<pgVars, gameVars, deliverVars, reconVars, faults>>

\* expireListing; an error is logged and the batch goes on.
ExpireListing(e) ==
  /\ e \in etodo
  /\ etodo' = etodo \ {e}
  /\ IF CanClose(e.ref, e.snap) THEN CloseListing(e.ref, e.snap, "expired") ELSE UNCHANGED pgVars
  /\ WorkerFrame /\ UNCHANGED <<gameVars, deliverVars, reconVars, faults>>

-----------------------------------------------------------------------------
(* Workers.Deliver                                                         *)

PendingLegs == (1..Len(legs)) \ legDone

ReadPending ==
  /\ dpc = "idle" /\ PendingLegs # {}
  /\ dtodo' = {l \in PendingLegs : Cardinality({k \in PendingLegs : k < l}) < Batch}
  /\ dpc' = "deliver"
  /\ WorkerFrame /\ UNCHANGED <<pgVars, gameVars, etodo, reconVars, faults>>

AtLeg(l) == dtodo # {} /\ l = Min(dtodo)

\* On to the next leg of the batch; after the last one Deliver returns.
NextLeg(l) == dtodo' = dtodo \ {l} /\ dpc' = IF dtodo = {l} THEN "idle" ELSE "deliver"

\* The units deliverLeg would hand over: all of the escrow, or the leg's amount
LegUnits(l) == IF legs[l].whole THEN escrow[legs[l].ref].amt ELSE legs[l].amt

\* claimDelivery
UnclaimedAlways(l) == TRUE  \* mutant: a leg is delivered every time it is tried
Unclaimed(l) == l \notin applied

\* A whole leg whose escrow is gone delivers nothing and succeeds.
Deliverable(l) ==
  LET e == escrow[legs[l].ref]
  IN /\ locked[legs[l].to]
     /\ legs[l].whole \/ legs[l].amt \in 1..e.amt
     /\ e.amt > 0 => HasRoom(legs[l].to, e.good)

DeliverEscrow(l) ==
  IF LegUnits(l) = 0 THEN UNCHANGED <<stash, escrow, aged>>
  ELSE HandOver(legs[l].ref, legs[l].to, LegUnits(l))

DeliverLeg(l) ==
  /\ dpc = "deliver" /\ AtLeg(l)
  /\ \/ /\ Unclaimed(l) /\ Deliverable(l)
        /\ DeliverEscrow(l)
        /\ applied' = applied \cup {l}
        /\ received' = [received EXCEPT ![l] = @ + LegUnits(l)]
     \/ ~Unclaimed(l) /\ UNCHANGED <<stash, escrow, aged, applied, received>>
  /\ dpc' = "mark" /\ UNCHANGED dtodo
  /\ WorkerFrame /\ UNCHANGED <<pgVars, etodo, reconVars, faults>>

\* ErrStorageUnlocked, ErrStorageFull, ErrInsufficientStack, ErrStashItemNotFound
LegSkippedMarks(l) == dpc' = "mark" /\ UNCHANGED dtodo  \* mutant: no continue
LegSkipped(l) == NextLeg(l)

LegRefused(l) ==
  /\ dpc = "deliver" /\ AtLeg(l)
  /\ Unclaimed(l) /\ ~Deliverable(l)
  /\ LegSkipped(l)
  /\ WorkerFrame /\ UNCHANGED <<pgVars, gameVars, etodo, reconVars, faults>>

MarkDone(l) ==
  /\ dpc = "mark" /\ AtLeg(l)
  /\ legDone' = legDone \cup {l}
  /\ NextLeg(l)
  /\ WorkerFrame /\ UNCHANGED <<balance, hold, listing, legs, burned, gameVars, etodo, reconVars, faults>>

\* A call for this leg fails, before or after it took effect: the next leg.
DeliverFails(l) ==
  /\ dpc # "idle" /\ AtLeg(l) /\ Fault
  /\ NextLeg(l)
  /\ WorkerFrame /\ UNCHANGED <<pgVars, gameVars, etodo, reconVars>>

-----------------------------------------------------------------------------
(* Workers.Reconcile                                                       *)

\* OrphanRefs: escrow older than the grace
OldEscrowAny == {r \in Refs : escrow[r].amt > 0}  \* mutant: no grace
OldEscrow == {r \in Refs : escrow[r].amt > 0 /\ r \in aged}

OrphanRefs ==
  /\ rpc = "idle" /\ OldEscrow # {}
  /\ orphans' = OldEscrow /\ known' = {} /\ rpc' = "listings"
  /\ WorkerFrame /\ UNCHANGED <<pgVars, gameVars, deliverVars, etodo, faults>>

AllRefsDrawn ==  \* mutant: every ref drawn so far counts as a listing
  /\ rpc = "listings"
  /\ known' = 1..nextRef - 1
  /\ rpc' = "pending" /\ UNCHANGED orphans
  /\ WorkerFrame /\ UNCHANGED <<pgVars, gameVars, deliverVars, etodo, faults>>
AllRefs ==
  /\ rpc = "listings"
  /\ known' = {r \in Refs : listing[r].status # "none"}
  /\ rpc' = "pending" /\ UNCHANGED orphans
  /\ WorkerFrame /\ UNCHANGED <<pgVars, gameVars, deliverVars, etodo, faults>>

\* Reconcile goes on with the orphans that are left, and returns after them.
Remaining(rest) == orphans' = rest /\ rpc' = IF rest = {} THEN "idle" ELSE "return"

PendingRefs ==
  /\ rpc = "pending"
  /\ Remaining(orphans \ (known \cup {legs[l].ref : l \in PendingLegs}))
  /\ known' = {}
  /\ WorkerFrame /\ UNCHANGED <<pgVars, gameVars, deliverVars, etodo, faults>>

\* returnOrphan: drained to its owner, unless it is gone or cannot be stored
ReturnOrphan(r) ==
  /\ rpc = "return" /\ r \in orphans
  /\ Remaining(orphans \ {r})
  /\ IF escrow[r].amt > 0 /\ locked[escrow[r].owner] /\ HasRoom(escrow[r].owner, escrow[r].good)
     THEN HandOver(r, escrow[r].owner, escrow[r].amt)
     ELSE UNCHANGED <<stash, escrow, aged>>
  /\ WorkerFrame /\ UNCHANGED <<pgVars, applied, received, deliverVars, etodo, known, faults>>

-----------------------------------------------------------------------------
\* A handler ends early: a call failed, before or after it took effect.
HandlerFails(p) ==
  /\ pc[p] # "idle" /\ Fault
  /\ Return(p)
  /\ HandlerFrame /\ UNCHANGED <<pgVars, nextRef, stash, escrow>>

\* The panel stops and starts again.
PanelCrash ==
  /\ Fault
  /\ pc' = [p \in Handlers |-> "idle"] /\ op' = [p \in Handlers |-> NoOp]
  /\ dpc' = "idle" /\ dtodo' = {} /\ etodo' = {}
  /\ rpc' = "idle" /\ orphans' = {} /\ known' = {}
  /\ UNCHANGED <<pgVars, nextRef, gameVars, lockVars>>

HandlerStep(p) ==
  \/ ApplyGiveSide(p) \/ ApplyGiveSideRejected(p) \/ PersistListing(p) \/ Burn(p)
  \/ PrepareTake(p) \/ EscrowTakerWant(p) \/ EscrowTakerWantRejected(p)
  \/ SettleTake(p) \/ TakeRolledBack(p) \/ CancelTx(p)

Deliver ==
  \/ ReadPending
  \/ \E l \in LegIds : DeliverLeg(l) \/ LegRefused(l) \/ MarkDone(l)

Reconcile ==
  \/ OrphanRefs \/ AllRefs \/ PendingRefs
  \/ \E r \in Refs : ReturnOrphan(r)

Next ==
  \/ \E p \in Handlers :
       \/ HandlerStep(p) \/ HandlerFails(p)
       \/ pc[p] = "idle" /\ \E a \in Accounts :
            \/ \E o \in Offers : Create(p, a, o)
            \/ \E r \in Refs : Cancel(p, a, r)
            \/ \E r \in Refs, n \in Units : Take(p, a, r, n)
  \/ \E S \in SUBSET Refs : DueForExpiry(S)
  \/ \E e \in etodo : ExpireListing(e)
  \/ Deliver \/ \E l \in LegIds : DeliverFails(l)
  \/ Reconcile
  \/ \E r \in Refs : Age(r)
  \/ \E a \in Accounts : GameLock(a) \/ GameUnlock(a)
  \/ PanelCrash

Spec == Init /\ [][Next]_vars

\* worker.Run ticks for ever, requests come to an end, time passes, and a
\* player who has the storage open in the game closes it at last.
FairSpec ==
  /\ Spec
  /\ WF_vars(Deliver) /\ WF_vars(Reconcile)
  /\ \A p \in Handlers : WF_vars(HandlerStep(p))
  /\ \A r \in Refs : WF_vars(Age(r))
  /\ \A a \in Accounts : WF_vars(GameLock(a))

-----------------------------------------------------------------------------
(* Properties.                                                             *)

Closed == {"taken", "cancelled", "expired"}
LegsOf(r, To(_)) == {l \in 1..Len(legs) : legs[l].ref = r /\ To(legs[l].to)}
LegSum(r, To(_)) == SumFunctionOnSet([l \in 1..Len(legs) |-> legs[l].amt], LegsOf(r, To))

\* No transaction, in any interleaving, drives a balance, a hold, a stash or
\* what is left of a listing outside the range of its column.
TypeOK ==
  /\ balance \in [Accounts -> 0..MaxBalance] /\ hold \in [Refs -> Nat] /\ burned \in Nat
  /\ \A r \in Refs : listing[r] # NoListing =>
       listing[r].remaining \in 0..listing[r].total /\ listing[r].status \in Closed \cup {"active"}
  /\ stash \in [Accounts -> [Goods -> Nat]] /\ \A r \in Refs : escrow[r].amt \in Nat
  /\ Len(legs) <= MaxLegs /\ legDone \cup applied \subseteq 1..Len(legs)
  /\ dtodo \subseteq 1..Len(legs) /\ orphans \subseteq Refs /\ nextRef \in 1..MaxRef + 1

\* No currency appears or vanishes: it is in a wallet, in a hold, or a fee.
MoneyConserved ==
  SumFunction(balance) + SumFunction(hold) + burned = InitBalance * Cardinality(Accounts)

InEscrow(g) == [r \in Refs |-> IF escrow[r].amt > 0 /\ escrow[r].good = g THEN escrow[r].amt ELSE 0]

\* No item is duplicated or destroyed on its way through escrow, although the
\* legs that move it are retried.
ItemsConserved ==
  \A g \in Goods :
    SumFunction([a \in Accounts |-> stash[a][g]]) + SumFunction(InEscrow(g))
    = InitStash[g] * Cardinality(Accounts)

\* The hold of a buy order is exactly what the units it still wants cost, and
\* is gone once the order is closed, whichever of Take, Cancel and Expire wins.
HoldBacksOrder ==
  \A r \in Refs : listing[r].status # "none" /\ listing[r].kind = "buy" =>
    hold[r] = IF listing[r].status = "active" THEN Price * listing[r].remaining ELSE 0

\* Takers who read the listing at the same time never get more units out of it
\* than it has: what the legs owe them is what is missing from it, and at most
\* all of it.
NeverOversold ==
  \A r \in Refs : listing[r].status # "none" /\ GivesItem(listing[r]) =>
    LET owed == LegSum(r, LAMBDA to : to # listing[r].seller)
    IN owed = listing[r].total - listing[r].remaining /\ owed <= listing[r].total

\* What a taker put in escrow for the owner of a listing stays there until the
\* leg delivers it: the reconciler never hands back what a sale has spent.
WantLegBacked ==
  \A l \in 1..Len(legs) : legs[l].amt = 0 =>
    IF l \in applied THEN received[l] > 0 ELSE escrow[legs[l].ref].amt > 0

\* A leg hands its units over once, however often it is tried.
DeliveredOnce ==
  \A l \in 1..Len(legs) : ~legs[l].whole => received[l] = IF l \in applied THEN legs[l].amt ELSE 0

\* A leg is only marked done once it has been delivered, so none is dropped.
DoneMeansDelivered == legDone \subseteq applied

\* Rows and deliveries are consistent: the columns keep their ranges, and the
\* legs of the delivery worker are handed over once each and dropped never.
Consistent == TypeOK /\ DeliveredOnce /\ DoneMeansDelivered

\* The panel never touches a storage that the game has open, although the lock
\* is read long before the item moves.
PanelNeedsLock == [][\A a \in Accounts : stash'[a] # stash[a] => locked[a]]_vars

\* An item in escrow that no listing stands for does not stay there: it goes to
\* the buyer, or gets its listing, or comes back to the account that put it in,
\* even when the handler failed between two of its steps.
EscrowSettles ==
  \A r \in Refs :
    escrow[r].amt > 0 /\ listing[r].status = "none" ~> escrow[r].amt = 0 \/ listing[r].status # "none"

\* A closed sell offer returns what it has not sold, and nothing else.
ReturnsUnsoldRemainder ==
  \A r \in Refs : listing[r].status \in {"cancelled", "expired"} /\ GivesItem(listing[r]) =>
    LegSum(r, LAMBDA to : to = listing[r].seller) = listing[r].remaining
=============================================================================
