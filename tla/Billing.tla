------------------------------- MODULE Billing -------------------------------
(***************************************************************************)
(* The cash point store.  StartCheckout opens an order with a payment      *)
(* provider; everything after that arrives as webhooks, at least once, in  *)
(* any order, handled concurrently: CompletePurchase, FailPurchase,        *)
(* RefundPurchase, DisputePurchase and CaptureApprovedOrder.               *)
(*                                                                         *)
(* The provider is external: an order, what happened to it, and the        *)
(* notifications it keeps sending until one is answered with 200.          *)
(***************************************************************************)
EXTENDS Integers, FiniteSets, Functions

CONSTANTS
  Accounts,
  Admins,       \* accounts that BanForChargeback leaves alone
  Providers,    \* a subset of {"stripe", "paypal", "crypto"}
  CashPoints,   \* points of a package
  MaxPoints,    \* math.MaxInt32, the range of the cashpoint column
  Handlers,     \* concurrent webhook requests
  MaxPurchases, \* bound: purchases
  MaxResends,   \* bound: notifications sent again although they were answered
  MaxFaults     \* bound: failed calls and crashes

ASSUME BillingBounds ==
  /\ Admins \subseteq Accounts /\ Providers \subseteq {"stripe", "paypal", "crypto"}
  /\ CashPoints \in Nat \ {0} /\ MaxPoints \in Nat
  /\ MaxPurchases \in Nat /\ MaxResends \in Nat /\ MaxFaults \in Nat

Purchases == 1..MaxPurchases
Pending   == 1
Completed == 2
Disputed  == 3
Refunded  == 4
Failed    == 5
Kinds     == {"approved", "paid", "failed", "refund", "dispute"}
Events    == [kind : Kinds, id : Purchases]

VARIABLES
  status,            \* cp_purchases.status, 0 where there is no row
  owner, provider,   \* its account_id and provider
  points,            \* cp_currency.cashpoint
  banned,            \* accounts in StatePermaBanned
  order,             \* external: the provider's order
  sent, inflight,    \* external: notifications, and those not answered yet
  aged,              \* those older than webhookRetryWindow
  pc, job,           \* the webhook handlers
  credited,          \* history: times a purchase was credited
  earlier,           \* history: the points an account had at the start
  resends, faults

rowVars     == <<status, owner, provider>>
effectVars  == <<points, banned, credited, earlier>>
extVars     == <<order, sent, inflight, aged>>
handlerVars == <<pc, job>>
vars == <<rowVars, effectVars, extVars, handlerVars, resends, faults>>

NoJob == [kind |-> "none", id |-> 0]

Init ==
  /\ status = [i \in Purchases |-> 0]
  /\ owner = [i \in Purchases |-> "none"] /\ provider = [i \in Purchases |-> "none"]
  /\ points \in [Accounts -> 0..MaxPoints] /\ earlier = points /\ banned = {}
  /\ order = [i \in Purchases |-> "none"]
  /\ sent = {} /\ inflight = {} /\ aged = {}
  /\ pc = [h \in Handlers |-> "idle"] /\ job = [h \in Handlers |-> NoJob]
  /\ credited = [i \in Purchases |-> 0]
  /\ resends = 0 /\ faults = 0

Fault == faults < MaxFaults /\ faults' = faults + 1

-----------------------------------------------------------------------------
(* Service.StartCheckout: Create, provider.CreateCheckout, SetProviderRef. *)
(* An error after Create leaves a pending purchase behind.                 *)

StartCheckout(i, a, p) ==
  /\ status[i] = 0 /\ \A j \in Purchases : j < i => status[j] # 0
  /\ status' = [status EXCEPT ![i] = Pending]
  /\ owner' = [owner EXCEPT ![i] = a] /\ provider' = [provider EXCEPT ![i] = p]
  /\ UNCHANGED <<effectVars, extVars, handlerVars, resends, faults>>

CreateCheckout(i) ==
  /\ status[i] # 0 /\ order[i] = "none"
  /\ order' = [order EXCEPT ![i] = "created"]
  /\ UNCHANGED <<rowVars, effectVars, sent, inflight, aged, handlerVars, resends, faults>>

\* Only now does the player get the address to pay at.
SetProviderRef(i) ==
  /\ order[i] = "created"
  /\ order' = [order EXCEPT ![i] = "open"]
  /\ UNCHANGED <<rowVars, effectVars, sent, inflight, aged, handlerVars, resends, faults>>

-----------------------------------------------------------------------------
(* The provider.                                                           *)

Notify(kind, i) ==
  /\ sent' = sent \cup {[kind |-> kind, id |-> i]}
  /\ inflight' = inflight \cup {[kind |-> kind, id |-> i]}

Happens(i, state, kind) ==
  /\ order' = [order EXCEPT ![i] = state]
  /\ Notify(kind, i)
  /\ UNCHANGED <<rowVars, effectVars, aged, handlerVars, resends, faults>>

PlayerPays(i) ==
  /\ order[i] = "open"
  /\ IF provider[i] = "paypal" THEN Happens(i, "approved", "approved") ELSE Happens(i, "paid", "paid")

\* Expired, declined, or (crypto) partially paid.
OrderFails(i) == order[i] = "open" /\ Happens(i, "denied", "failed")

\* A crypto payment that was short is topped up.
TopUp(i) == provider[i] = "crypto" /\ order[i] = "denied" /\ Happens(i, "paid", "paid")

MoneyBack(i, kind) ==
  /\ order[i] = "paid" /\ [kind |-> kind, id |-> i] \notin sent
  /\ kind = "dispute" => provider[i] # "crypto"
  /\ Happens(i, "paid", kind)

Resend(e) ==
  /\ e \in sent \ inflight
  /\ resends < MaxResends /\ resends' = resends + 1
  /\ inflight' = inflight \cup {e}
  /\ UNCHANGED <<rowVars, effectVars, order, sent, aged, handlerVars, faults>>

WindowPasses(e) ==
  /\ e \in inflight \ aged /\ e.kind \in {"refund", "dispute"}
  /\ aged' = aged \cup {e}
  /\ UNCHANGED <<rowVars, effectVars, order, sent, inflight, handlerVars, resends, faults>>

\* POST /v2/checkout/orders/<id>/capture: the money is taken once.
CaptureOrder(i) ==
  \/ order[i] = "approved" /\ order' = [order EXCEPT ![i] = "paid"] /\ Notify("paid", i)
  \/ order[i] = "approved" /\ order' = [order EXCEPT ![i] = "denied"] /\ Notify("failed", i)
  \/ order[i] # "approved" /\ UNCHANGED <<order, sent, inflight>>

-----------------------------------------------------------------------------
(* Service.ConfirmCheckout: the return page captures, and changes no row.  *)

ConfirmCheckout(i) ==
  /\ provider[i] = "paypal" /\ order[i] = "approved"
  /\ CaptureOrder(i)
  /\ UNCHANGED <<rowVars, effectVars, aged, handlerVars, resends, faults>>

-----------------------------------------------------------------------------
(* The webhook handlers.                                                   *)

FirstStep(kind) ==
  CASE kind = "approved" -> "capture"
    [] kind = "paid"     -> "complete"
    [] kind = "failed"   -> "fail"
    [] OTHER             -> "lookup"

Receive(h, e) ==
  /\ pc[h] = "idle" /\ e \in inflight
  /\ pc' = [pc EXCEPT ![h] = FirstStep(e.kind)]
  /\ job' = [job EXCEPT ![h] = e]
  /\ UNCHANGED <<rowVars, effectVars, extVars, resends, faults>>

Done(h) == pc' = [pc EXCEPT ![h] = "idle"] /\ job' = [job EXCEPT ![h] = NoJob]
Goto(h, label) == pc' = [pc EXCEPT ![h] = label] /\ UNCHANGED job

\* 200: the provider stops.  500: the notification stays in flight.
Answer200(h) == Done(h) /\ inflight' = inflight \ {job[h]}
Answer500(h) == Done(h) /\ UNCHANGED inflight

\* CaptureApprovedOrder.  Once captured the answer is ORDER_ALREADY_CAPTURED, or
\* the first answer again (PayPal-Request-Id).
CaptureCompletedAny(i) == TRUE  \* mutant: the capture's status is ignored
CaptureCompleted(i) == order'[i] = "paid"
CaptureApproved(h) ==
  LET i == job[h].id
  IN /\ pc[h] = "capture"
     /\ CaptureOrder(i)
     /\ \/ CaptureCompleted(i) /\ Goto(h, "complete")
        \/ ~CaptureCompleted(i) /\ Goto(h, "answer")
        \/ order[i] # "approved" /\ Goto(h, "answer")
     /\ UNCHANGED <<rowVars, effectVars, aged, resends, faults>>

AnswerOk(h) ==
  /\ pc[h] = "answer"
  /\ Answer200(h)
  /\ UNCHANGED <<rowVars, effectVars, order, sent, aged, resends, faults>>

\* PurchaseRepository.Complete: UPDATE ... WHERE status = 1, and the credit
CompletableTwice(i) == status[i] \in {Pending, Completed}  \* mutant
Completable(i) == status[i] = Pending

\* cashpoint + points stays in the range of the column
FitsAlways(a) == TRUE  \* mutant: the addition wraps instead of failing
Fits(a) == points[a] + CashPoints <= MaxPoints

CompletePurchase(h) ==
  LET i == job[h].id
      a == owner[i]
  IN /\ pc[h] = "complete"
     /\ \/ /\ Completable(i) /\ Fits(a)
           /\ status' = [status EXCEPT ![i] = Completed]
           /\ points' = [points EXCEPT ![a] = @ + CashPoints]
           /\ credited' = [credited EXCEPT ![i] = @ + 1]
           /\ Answer200(h)
        \/ /\ Completable(i) /\ ~Fits(a)  \* integer out of range
           /\ Answer500(h) /\ UNCHANGED <<status, points, credited>>
        \/ /\ ~Completable(i)
           /\ Answer200(h) /\ UNCHANGED <<status, points, credited>>
     /\ UNCHANGED <<owner, provider, banned, earlier, order, sent, aged, resends, faults>>

\* UPDATE ... SET status = to WHERE status = from
Mark(i, from, to) == status' = IF status[i] = from THEN [status EXCEPT ![i] = to] ELSE status

MarkFailed(i) == Mark(i, Pending, Failed)
FailPurchase(h) ==
  /\ pc[h] = "fail"
  /\ MarkFailed(job[h].id)
  /\ Answer200(h)
  /\ UNCHANGED <<owner, provider, effectVars, order, sent, aged, resends, faults>>

\* GetByPaymentID: provider_payment_id is set by Complete.
Found(i) == status[i] \in {Completed, Disputed, Refunded}

\* ackPaymentMatch, ackPaypalPaymentMatch; ackCryptoFulfillment has no window.
GiveUpAlways(e) == TRUE  \* mutant: ErrPurchaseNotFound is terminal
GiveUp(e) == provider[e.id] = "crypto" \/ e \in aged

LookupMissed(h) ==
  /\ pc[h] = "lookup" /\ ~Found(job[h].id)
  /\ IF GiveUp(job[h]) THEN Answer200(h) ELSE Answer500(h)
  /\ UNCHANGED <<rowVars, effectVars, order, sent, aged, resends, faults>>

\* DisputePurchase bans, then marks; RefundPurchase only marks.
MarkThenBan(label) ==  \* mutant: the other way round
  CASE label = "lookup" -> "dispute" [] label = "dispute" -> "ban" [] label = "ban" -> "answer"
DisputeNext(label) ==
  CASE label = "lookup" -> "ban" [] label = "ban" -> "dispute" [] label = "dispute" -> "answer"

LookupFound(h) ==
  LET e == job[h]
  IN /\ pc[h] = "lookup" /\ Found(e.id)
     /\ \/ e.kind = "refund" /\ Goto(h, "refund") /\ UNCHANGED inflight
        \/ e.kind = "dispute" /\ status[e.id] = Completed /\ Goto(h, DisputeNext("lookup")) /\ UNCHANGED inflight
        \/ e.kind = "dispute" /\ status[e.id] # Completed /\ Answer200(h)
     /\ UNCHANGED <<rowVars, effectVars, order, sent, aged, resends, faults>>

MarkRefunded(h) ==
  /\ pc[h] = "refund"
  /\ Mark(job[h].id, Completed, Refunded)
  /\ Answer200(h)
  /\ UNCHANGED <<owner, provider, effectVars, order, sent, aged, resends, faults>>

BanForChargeback(h) ==
  /\ pc[h] = "ban"
  /\ banned' = banned \cup ({owner[job[h].id]} \ Admins)
  /\ Goto(h, DisputeNext("ban"))
  /\ UNCHANGED <<rowVars, points, credited, earlier, extVars, resends, faults>>

MarkDisputed(h) ==
  /\ pc[h] = "dispute"
  /\ Mark(job[h].id, Completed, Disputed)
  /\ Goto(h, DisputeNext("dispute"))
  /\ UNCHANGED <<owner, provider, effectVars, extVars, resends, faults>>

\* mutant: a payment whose completion failed is answered with 200
HandlerFailsAcked(h) ==
  /\ pc[h] # "idle" /\ Fault
  /\ IF job[h].kind = "paid" THEN Answer200(h) ELSE Answer500(h)
  /\ UNCHANGED <<rowVars, effectVars, order, sent, aged, resends>>
\* Any call fails, before or after its effect, or the panel stops: 500 or nothing.
HandlerFails(h) ==
  /\ pc[h] # "idle" /\ Fault
  /\ Done(h)
  /\ UNCHANGED <<rowVars, effectVars, extVars, resends>>

HandlerStep(h) ==
  \/ CaptureApproved(h) \/ AnswerOk(h) \/ CompletePurchase(h) \/ FailPurchase(h)
  \/ LookupMissed(h) \/ LookupFound(h)
  \/ MarkRefunded(h) \/ BanForChargeback(h) \/ MarkDisputed(h)

Next ==
  \/ \E i \in Purchases :
       \/ \E a \in Accounts, p \in Providers : StartCheckout(i, a, p)
       \/ CreateCheckout(i) \/ SetProviderRef(i)
       \/ PlayerPays(i) \/ OrderFails(i) \/ TopUp(i)
       \/ \E kind \in {"refund", "dispute"} : MoneyBack(i, kind)
       \/ ConfirmCheckout(i)
  \/ \E e \in sent : Resend(e) \/ WindowPasses(e)
  \/ \E h \in Handlers :
       \/ HandlerStep(h) \/ HandlerFails(h)
       \/ \E e \in inflight : Receive(h, e)

Spec == Init /\ [][Next]_vars

\* A provider sends until it is answered with 200, and requests come to an end.
FairSpec ==
  /\ Spec
  /\ \A h \in Handlers : WF_vars(HandlerStep(h))
  /\ \A e \in Events : SF_vars(\E h \in Handlers : Receive(h, e))

-----------------------------------------------------------------------------
(* Properties.                                                             *)

\* No notification takes a row or a balance outside the range of its column.
TypeOK ==
  /\ status \in [Purchases -> 0..5] /\ points \in [Accounts -> 0..MaxPoints]
  /\ banned \subseteq Accounts /\ credited \in [Purchases -> Nat]
  /\ order \in [Purchases -> {"none", "created", "open", "approved", "paid", "denied"}]
  /\ sent \subseteq Events /\ inflight \subseteq sent /\ aged \subseteq sent
  /\ \A h \in Handlers : pc[h] # "idle" => job[h] \in sent

\* A purchase is credited exactly once if it ever counted as paid and never
\* otherwise, although capture, capture notification and return page race.
CreditedOnce ==
  \A i \in Purchases : credited[i] = IF status[i] \in {Completed, Disputed, Refunded} THEN 1 ELSE 0

\* Purchases and credits are consistent, whichever of the handlers was first.
Consistent == TypeOK /\ CreditedOnce

\* An account has the cash points it had and those of its credited purchases: no
\* credit is lost, wraps or is given away.  And no purchase is credited that the
\* provider has not been paid for.
PointsPaidFor ==
  /\ \A a \in Accounts :
       points[a] = earlier[a] + CashPoints * SumFunctionOnSet(credited, {i \in Purchases : owner[i] = a})
  /\ \A i \in Purchases : credited[i] > 0 => order[i] = "paid"

\* A purchase is only recorded as disputed when its owner has been banned: the
\* ban comes first, so that a retry after a failure finds the work undone.
DisputedMeansBanned ==
  \A i \in Purchases : status[i] = Disputed => owner[i] \in banned \cup Admins

\* A refund or a chargeback that Stripe or PayPal stopped sending has been applied,
\* although it may have come before the completion, unless it outlived the window.
MoneyBackApplied ==
  \A e \in sent \ (inflight \cup aged) :
    e.kind \in {"refund", "dispute"} /\ provider[e.id] # "crypto"
      => status[e.id] \in {Disputed, Refunded}

\* A purchase the provider was paid for does not stay pending, whichever of the
\* webhooks and the return page captured it, and whatever failed on the way,
\* unless its points do not fit in the column of its account.
PaidSettles ==
  \A i \in Purchases : order[i] = "paid" ~> status[i] # Pending \/ ~Fits(owner[i])
=============================================================================
