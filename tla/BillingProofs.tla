---------------------------- MODULE BillingProofs ----------------------------
(***************************************************************************)
(* Webhooks that arrive more than once, out of order and concurrently      *)
(* credit a purchase once, ban before they record a dispute, and do not    *)
(* lose a refund, for every number of accounts, purchases and handlers,    *)
(* every number of repetitions and every number of failed calls.           *)
(***************************************************************************)
EXTENDS Billing, Sums

Labels ==
  {"idle", "capture", "complete", "answer", "fail", "lookup", "refund", "ban", "dispute"}
OrderStates == {"none", "created", "open", "approved", "paid", "denied"}

Rows ==
  /\ status \in [Purchases -> 0..5]
  /\ owner \in [Purchases -> Accounts \cup {"none"}]
  /\ provider \in [Purchases -> Providers \cup {"none"}]
  /\ \A i \in Purchases : status[i] # 0 => owner[i] \in Accounts

Effects ==
  /\ points \in [Accounts -> 0..MaxPoints]
  /\ banned \subseteq Accounts
  /\ credited \in [Purchases -> Nat]

\* An order is of a purchase that is there, and a notification of an order.
\* What it says of a payment is so: it has been made.
Provider ==
  /\ order \in [Purchases -> OrderStates]
  /\ sent \subseteq Events /\ inflight \subseteq sent /\ aged \subseteq sent
  /\ \A i \in Purchases : order[i] # "none" => status[i] # 0
  /\ \A e \in sent : order[e.id] # "none"
  /\ \A e \in sent : e.kind \in {"paid", "refund", "dispute"} => order[e.id] = "paid"

Settled(i) == status[i] \in {Disputed, Refunded}

\* What a handler has found out by the time it is at its label, and that still
\* holds there, whatever the other handlers have done since.
Known(h) ==
  LET i == job[h].id
  IN /\ pc[h] = "complete" => order[i] = "paid"
     /\ pc[h] \in {"refund", "ban", "dispute"} => Found(i)
     /\ pc[h] = "dispute" => owner[i] \in banned \cup Admins
     /\ pc[h] = "answer" /\ job[h].kind = "dispute" => Settled(i)

KindsAt ==
  [label \in Labels |->
     CASE label = "idle"     -> {}
       [] label = "capture"  -> {"approved"}
       [] label = "complete" -> {"approved", "paid"}
       [] label = "answer"   -> {"approved", "dispute"}
       [] label = "fail"     -> {"failed"}
       [] label = "lookup"   -> {"refund", "dispute"}
       [] label = "refund"   -> {"refund"}
       [] OTHER              -> {"dispute"}]

Handling(h) ==
  pc[h] # "idle" => job[h] \in sent /\ job[h].kind \in KindsAt[pc[h]] /\ Known(h)

Jobs ==
  /\ pc \in [Handlers -> Labels] /\ job \in [Handlers -> Events \cup {NoJob}]
  /\ \A h \in Handlers : Handling(h)

\* Only what has been paid is credited.
PaidFor == \A i \in Purchases : credited[i] > 0 => order[i] = "paid"

BillingInv ==
  /\ Rows /\ Effects /\ Provider /\ Jobs
  /\ CreditedOnce /\ PaidFor /\ DisputedMeansBanned /\ MoneyBackApplied

-----------------------------------------------------------------------------
(* What no step takes back, and what follows from it                       *)

Advances ==
  /\ \A i \in Purchases : order[i] = "paid" => order'[i] = "paid"
  /\ \A i \in Purchases : status[i] # 0 => owner'[i] = owner[i] /\ provider'[i] = provider[i]
  /\ \A i \in Purchases : Found(i) => Found(i)'
  /\ \A i \in Purchases : Settled(i) => Settled(i)'
  /\ banned \subseteq banned' /\ sent \subseteq sent' /\ aged \subseteq aged'

LEMMA Numbers ==
  /\ CashPoints \in Nat /\ MaxPoints \in Nat /\ Admins \subseteq Accounts
  /\ Purchases \subseteq Nat
BY BillingBounds DEF Purchases

LEMMA EventFields ==
  /\ \A e \in Events : e.id \in Purchases /\ e.kind \in Kinds
  /\ \A kind \in Kinds : \A i \in Purchases : [kind |-> kind, id |-> i] \in Events
BY DEF Events

\* What every notification that was sent says of its purchase
LEMMA SentFacts ==
  ASSUME BillingInv, NEW e \in sent
  PROVE  /\ e \in Events /\ e.id \in Purchases /\ e.kind \in Kinds
         /\ status[e.id] # 0 /\ owner[e.id] \in Accounts
         /\ (e.kind \in {"paid", "refund", "dispute"} => order[e.id] = "paid")
<1>1. e \in Events
  BY DEF BillingInv, Provider
<1>2. e.id \in Purchases /\ e.kind \in Kinds
  BY <1>1, EventFields
<1> QED
  BY <1>1, <1>2 DEF BillingInv, Provider, Rows

LEMMA JobFacts ==
  ASSUME BillingInv, NEW h \in Handlers, pc[h] # "idle"
  PROVE  /\ job[h] \in sent /\ job[h].id \in Purchases
         /\ job[h].kind \in KindsAt[pc[h]] /\ Known(h)
<1>1. job[h] \in sent /\ job[h].kind \in KindsAt[pc[h]] /\ Known(h)
  BY DEF BillingInv, Jobs, Handling
<1> QED
  BY <1>1, SentFacts

\* The facts a handler relies on outlive the steps of the others.
LEMMA HandlingStays ==
  ASSUME BillingInv, Advances, NEW h \in Handlers, pc'[h] = pc[h], job'[h] = job[h]
  PROVE  Handling(h)'
<1> SUFFICES ASSUME pc[h] # "idle"
             PROVE  job[h] \in sent' /\ job[h].kind \in KindsAt[pc[h]] /\ Known(h)'
  BY DEF Handling
<1>1. job[h] \in sent /\ job[h].kind \in KindsAt[pc[h]] /\ Known(h)
  BY JobFacts
<1>2. job[h].id \in Purchases /\ status[job[h].id] # 0
  BY <1>1, SentFacts
<1>3. job[h] \in sent'
  BY <1>1 DEF Advances
<1> DEFINE i == job[h].id
<1>4. /\ order[i] = "paid" => order'[i] = "paid"
      /\ owner'[i] = owner[i] /\ banned \subseteq banned'
      /\ Found(i) => Found(i)'
      /\ Settled(i) => Settled(i)'
  BY <1>2 DEF Advances
<1>5. Known(h)'
  BY <1>1, <1>4 DEF Known, Found, Settled
<1> QED
  BY <1>1, <1>3, <1>5

LEMMA JobsStep ==
  ASSUME BillingInv, Advances, NEW h \in Handlers, NEW label \in Labels,
         pc' = [pc EXCEPT ![h] = label],
         job' \in [Handlers -> Events \cup {NoJob}],
         \A g \in Handlers \ {h} : job'[g] = job[g],
         Handling(h)'
  PROVE  Jobs'
<1>1. pc \in [Handlers -> Labels]
  BY DEF BillingInv, Jobs
<1>2. pc' \in [Handlers -> Labels] /\ \A g \in Handlers \ {h} : pc'[g] = pc[g]
  BY <1>1
<1>3. ASSUME NEW g \in Handlers
      PROVE  Handling(g)'
  BY <1>2, HandlingStays
<1> QED
  BY <1>2, <1>3 DEF Jobs

LEMMA JobsStay ==
  ASSUME BillingInv, Advances, UNCHANGED <<pc, job>>
  PROVE  Jobs'
<1>1. \A h \in Handlers : Handling(h)'
  BY HandlingStays
<1> QED
  BY <1>1 DEF BillingInv, Jobs

\* Only the answer to a notification that has been applied, or is too old,
\* takes it from the provider's list.
LEMMA MoneyBackStep ==
  ASSUME BillingInv, Advances, NEW answered \in sent,
         sent' \ inflight' \subseteq (sent \ inflight) \cup {answered},
         answered.kind \in {"refund", "dispute"} /\ provider[answered.id] # "crypto"
           => answered \in aged' \/ Settled(answered.id)'
  PROVE  MoneyBackApplied'
<1> SUFFICES ASSUME NEW e \in (sent \ (inflight \cup aged))',
                    e.kind \in {"refund", "dispute"}, provider'[e.id] # "crypto"
             PROVE  Settled(e.id)'
  BY DEF MoneyBackApplied, Settled
<1>1. e \in (sent \ inflight) \cup {answered} /\ e \notin aged'
  OBVIOUS
<1>2. e \in sent
  BY <1>1
<1>3. e.id \in Purchases /\ provider'[e.id] = provider[e.id]
  BY <1>2, SentFacts DEF Advances
<1>4. CASE e = answered
  BY <1>1, <1>3, <1>4
<1>5. CASE e # answered
  <2>1. e \in sent \ (inflight \cup aged)
    BY <1>1, <1>5 DEF Advances
  <2>2. Settled(e.id)
    BY <1>3, <2>1 DEF BillingInv, MoneyBackApplied, Settled
  <2> QED
    BY <1>3, <2>2 DEF Advances
<1> QED
  BY <1>4, <1>5

LEMMA MoneyBackStays ==
  ASSUME BillingInv, Advances, sent' \ inflight' \subseteq sent \ inflight
  PROVE  MoneyBackApplied'
<1> SUFFICES ASSUME NEW e \in (sent \ (inflight \cup aged))',
                    e.kind \in {"refund", "dispute"}, provider'[e.id] # "crypto"
             PROVE  Settled(e.id)'
  BY DEF MoneyBackApplied, Settled
<1>1. e \in sent \ (inflight \cup aged)
  BY DEF Advances
<1>2. e.id \in Purchases /\ provider'[e.id] = provider[e.id]
  BY <1>1, SentFacts DEF Advances
<1>3. Settled(e.id)
  BY <1>1, <1>2 DEF BillingInv, MoneyBackApplied, Settled
<1> QED
  BY <1>2, <1>3 DEF Advances

-----------------------------------------------------------------------------
(* The steps of the player and the provider                                *)

\* A step that leaves the panel alone
LEMMA OutsideStep ==
  ASSUME BillingInv, UNCHANGED <<rowVars, effectVars, handlerVars>>, Provider',
         sent \subseteq sent', aged \subseteq aged', sent' \ inflight' \subseteq sent \ inflight,
         \A i \in Purchases : order[i] = "paid" => order'[i] = "paid"
  PROVE  BillingInv'
<1>1. UNCHANGED <<status, owner, provider, points, banned, credited, pc, job>>
  BY DEF rowVars, effectVars, handlerVars
<1>2. Advances
  BY <1>1 DEF Advances, Found, Settled
<1>3. Jobs' /\ MoneyBackApplied'
  BY <1>1, <1>2, JobsStay, MoneyBackStays
<1>4. Rows' /\ Effects' /\ CreditedOnce' /\ DisputedMeansBanned'
  BY <1>1 DEF BillingInv, Rows, Effects, CreditedOnce, DisputedMeansBanned
<1>5. PaidFor'
  BY <1>1 DEF BillingInv, PaidFor
<1> QED
  BY <1>3, <1>4, <1>5 DEF BillingInv

\* A notification of what has become of an order
LEMMA NotifyStep ==
  ASSUME Provider, NEW i \in Purchases, NEW kind \in Kinds, NEW state \in OrderStates \ {"none"},
         order[i] # "none", order[i] = "paid" => state = "paid",
         kind \in {"paid", "refund", "dispute"} => state = "paid",
         order' = [order EXCEPT ![i] = state], Notify(kind, i), UNCHANGED <<status, aged>>
  PROVE  /\ Provider' /\ sent \subseteq sent' /\ sent' \ inflight' \subseteq sent \ inflight
         /\ \A j \in Purchases : order[j] = "paid" => order'[j] = "paid"
<1> DEFINE e == [kind |-> kind, id |-> i]
<1>1. sent' = sent \cup {e} /\ inflight' = inflight \cup {e}
  BY DEF Notify
<1>2. e \in Events /\ e.id = i /\ e.kind = kind
  BY EventFields
<1> HIDE DEF e
<1>3. order' \in [Purchases -> OrderStates] /\ order'[i] = state
      /\ \A j \in Purchases \ {i} : order'[j] = order[j]
  BY DEF Provider
<1>4. \A j \in Purchases : order[j] = "paid" => order'[j] = "paid"
  BY <1>3
<1>5. \A f \in sent : order'[f.id] # "none" /\ (order[f.id] = "paid" => order'[f.id] = "paid")
  <2> TAKE f \in sent
  <2>1. f.id \in Purchases /\ order[f.id] # "none"
    BY EventFields DEF Provider
  <2> QED
    BY <1>3, <2>1
<1>6. \A j \in Purchases : order'[j] # "none" => status'[j] # 0
  BY <1>3 DEF Provider
<1>7. \A f \in sent : f.kind \in {"paid", "refund", "dispute"} => order'[f.id] = "paid"
  BY <1>5 DEF Provider
<1>8. order'[e.id] # "none" /\ (e.kind \in {"paid", "refund", "dispute"} => order'[e.id] = "paid")
  BY <1>2, <1>3
<1>9. Provider'
  BY <1>1, <1>2, <1>3, <1>5, <1>6, <1>7, <1>8 DEF Provider
<1> QED
  BY <1>1, <1>4, <1>9

LEMMA ProviderSame ==
  ASSUME Provider, UNCHANGED <<status, order, sent, aged>>, inflight' \subseteq sent
  PROVE  Provider'
BY DEF Provider

LEMMA CaptureStep ==
  ASSUME Provider, NEW i \in Purchases, CaptureOrder(i), UNCHANGED <<status, aged>>
  PROVE  /\ Provider' /\ sent \subseteq sent' /\ sent' \ inflight' \subseteq sent \ inflight
         /\ \A j \in Purchases : order[j] = "paid" => order'[j] = "paid"
<1>1. CASE order[i] # "approved" /\ UNCHANGED <<order, sent, inflight>>
  BY <1>1 DEF Provider
<1>2. ASSUME NEW state \in {"paid", "denied"}, NEW kind \in {"paid", "failed"},
             kind = "paid" => state = "paid",
             order[i] = "approved", order' = [order EXCEPT ![i] = state], Notify(kind, i)
      PROVE  /\ Provider' /\ sent \subseteq sent' /\ sent' \ inflight' \subseteq sent \ inflight
             /\ \A j \in Purchases : order[j] = "paid" => order'[j] = "paid"
  <2>1. kind \in Kinds /\ state \in OrderStates \ {"none"} /\ order[i] # "none"
        /\ (order[i] = "paid" => state = "paid")
        /\ (kind \in {"paid", "refund", "dispute"} => state = "paid")
    BY <1>2 DEF Kinds, OrderStates
  <2> QED
    BY <1>2, <2>1, NotifyStep
<1>3. CASE order[i] = "approved" /\ order' = [order EXCEPT ![i] = "paid"] /\ Notify("paid", i)
  BY <1>2, <1>3
<1>4. CASE order[i] = "approved" /\ order' = [order EXCEPT ![i] = "denied"] /\ Notify("failed", i)
  BY <1>2, <1>4
<1> QED
  BY <1>1, <1>3, <1>4 DEF CaptureOrder

LEMMA HappensStep ==
  ASSUME BillingInv, NEW i \in Purchases, NEW kind \in Kinds, NEW state \in OrderStates \ {"none"},
         order[i] # "none", order[i] = "paid" => state = "paid",
         kind \in {"paid", "refund", "dispute"} => state = "paid",
         Happens(i, state, kind)
  PROVE  BillingInv'
<1>1. /\ order' = [order EXCEPT ![i] = state] /\ Notify(kind, i)
      /\ UNCHANGED <<rowVars, effectVars, aged, handlerVars>> /\ UNCHANGED status
  BY DEF Happens, rowVars
<1>2. Provider
  BY DEF BillingInv
<1>3. /\ Provider' /\ sent \subseteq sent' /\ sent' \ inflight' \subseteq sent \ inflight
      /\ \A j \in Purchases : order[j] = "paid" => order'[j] = "paid"
  BY <1>1, <1>2, NotifyStep
<1> QED
  BY <1>1, <1>3, OutsideStep

LEMMA ProviderStep ==
  ASSUME BillingInv, NEW i \in Purchases,
         \/ CreateCheckout(i) \/ SetProviderRef(i) \/ PlayerPays(i) \/ OrderFails(i)
         \/ TopUp(i) \/ ConfirmCheckout(i)
         \/ \E kind \in {"refund", "dispute"} : MoneyBack(i, kind)
  PROVE  BillingInv'
<1> USE DEF Kinds, OrderStates
<1>1. CASE CreateCheckout(i) \/ SetProviderRef(i)
  <2>1. PICK state \in {"created", "open"} :
          /\ order' = [order EXCEPT ![i] = state] /\ order[i] \in {"none", "created"}
          /\ status[i] # 0
          /\ UNCHANGED <<rowVars, effectVars, sent, inflight, aged, handlerVars>>
    BY <1>1 DEF CreateCheckout, SetProviderRef, BillingInv, Provider
  <2>2. order' \in [Purchases -> OrderStates] /\ order'[i] = state
        /\ \A j \in Purchases \ {i} : order'[j] = order[j]
    BY <2>1 DEF BillingInv, Provider
  <2>3. \A j \in Purchases : /\ order[j] = "paid" => order'[j] = "paid"
                             /\ order[j] # "none" => order'[j] # "none"
                             /\ order'[j] # "none" => status[j] # 0
    BY <2>1, <2>2 DEF BillingInv, Provider
  <2>4. Provider'
    <3>1. \A e \in sent : e.id \in Purchases
      BY SentFacts
    <3> QED
      BY <2>1, <2>2, <2>3, <3>1 DEF BillingInv, Provider, rowVars
  <2> QED
    BY <2>1, <2>3, <2>4, OutsideStep
<1>2. CASE PlayerPays(i)
  BY <1>2, HappensStep DEF PlayerPays
<1>3. CASE OrderFails(i)
  BY <1>3, HappensStep DEF OrderFails
<1>4. CASE TopUp(i)
  BY <1>4, HappensStep DEF TopUp
<1>5. ASSUME NEW kind \in {"refund", "dispute"}, MoneyBack(i, kind)
      PROVE  BillingInv'
  BY <1>5, HappensStep DEF MoneyBack
<1>6. CASE ConfirmCheckout(i)
  <2>1. CaptureOrder(i) /\ UNCHANGED <<rowVars, effectVars, aged, handlerVars>> /\ UNCHANGED status
    BY <1>6 DEF ConfirmCheckout, rowVars
  <2>2. Provider
    BY DEF BillingInv
  <2> QED
    BY <2>1, <2>2, CaptureStep, OutsideStep
<1> QED
  BY <1>1, <1>2, <1>3, <1>4, <1>5, <1>6

LEMMA DeliveryStep ==
  ASSUME BillingInv, NEW e \in sent, Resend(e) \/ WindowPasses(e)
  PROVE  BillingInv'
<1>1. /\ UNCHANGED <<rowVars, effectVars, handlerVars, order, sent>>
      /\ \/ inflight' = inflight \cup {e} /\ aged' = aged
         \/ inflight' = inflight /\ aged' = aged \cup {e}
  BY DEF Resend, WindowPasses
<1>2. Provider'
  BY <1>1 DEF BillingInv, Provider, rowVars
<1> QED
  BY <1>1, <1>2, OutsideStep

LEMMA StartStep ==
  ASSUME BillingInv, NEW i \in Purchases, NEW a \in Accounts, NEW p \in Providers,
         StartCheckout(i, a, p)
  PROVE  BillingInv'
<1>1. /\ status[i] = 0 /\ status' = [status EXCEPT ![i] = Pending]
      /\ owner' = [owner EXCEPT ![i] = a] /\ provider' = [provider EXCEPT ![i] = p]
      /\ UNCHANGED <<points, banned, credited, order, sent, inflight, aged, pc, job>>
  BY DEF StartCheckout, effectVars, extVars, handlerVars
<1>2. Rows
  BY DEF BillingInv
<1>3. /\ status' \in [Purchases -> 0..5] /\ status'[i] = Pending /\ owner'[i] = a
      /\ \A j \in Purchases \ {i} :
           status'[j] = status[j] /\ owner'[j] = owner[j] /\ provider'[j] = provider[j]
  BY <1>1, <1>2 DEF Rows, Pending
<1>4. owner' \in [Purchases -> Accounts \cup {"none"}] /\ provider' \in [Purchases -> Providers \cup {"none"}]
  BY <1>1, <1>2 DEF Rows
<1>5. Rows'
  BY <1>2, <1>3, <1>4 DEF Rows
<1>6. Advances
  BY <1>1, <1>3 DEF Advances, Found, Settled, Completed, Disputed, Refunded
<1>7. Jobs' /\ MoneyBackApplied'
  BY <1>1, <1>6, JobsStay, MoneyBackStays
<1>8. Effects' /\ PaidFor'
  BY <1>1 DEF BillingInv, Effects, PaidFor
<1>9. Provider'
  BY <1>1, <1>3 DEF BillingInv, Provider, Pending
<1>10. CreditedOnce' /\ DisputedMeansBanned'
  BY <1>1, <1>3 DEF BillingInv, CreditedOnce, DisputedMeansBanned, Pending, Completed, Disputed, Refunded
<1> QED
  BY <1>5, <1>7, <1>8, <1>9, <1>10 DEF BillingInv

-----------------------------------------------------------------------------
(* The steps of the webhook handlers                                       *)

LEMMA DoneFacts ==
  ASSUME BillingInv, NEW h \in Handlers, Done(h)
  PROVE  /\ pc' = [pc EXCEPT ![h] = "idle"] /\ "idle" \in Labels
         /\ job' \in [Handlers -> Events \cup {NoJob}]
         /\ \A g \in Handlers \ {h} : job'[g] = job[g]
         /\ Handling(h)'
<1>1. pc' = [pc EXCEPT ![h] = "idle"] /\ job' = [job EXCEPT ![h] = NoJob]
  BY DEF Done
<1>2. pc'[h] = "idle"
  BY <1>1 DEF BillingInv, Jobs
<1> QED
  BY <1>1, <1>2 DEF BillingInv, Jobs, Handling, Labels

\* A handler that answers, or is lost, and has changed no table
LEMMA EndStep ==
  ASSUME BillingInv, NEW h \in Handlers, pc[h] # "idle", Done(h),
         UNCHANGED <<rowVars, effectVars, order, sent, aged>>,
         \/ inflight' = inflight
         \/ inflight' = inflight \ {job[h]} /\
              (job[h].kind \in {"refund", "dispute"} /\ provider[job[h].id] # "crypto"
                 => job[h] \in aged \/ Settled(job[h].id))
  PROVE  BillingInv'
<1>1. UNCHANGED <<status, owner, provider, points, banned, credited>>
  BY DEF rowVars, effectVars
<1>2. Advances
  BY <1>1 DEF Advances, Found, Settled
<1>3. Jobs'
  BY <1>2, DoneFacts, JobsStep
<1>4. MoneyBackApplied'
  <2>1. job[h] \in sent /\ job[h].id \in Purchases
    BY JobFacts
  <2>2. CASE inflight' = inflight
    BY <1>2, <2>2, MoneyBackStays
  <2>3. CASE inflight' # inflight
    BY <1>1, <1>2, <2>1, <2>3, MoneyBackStep DEF Settled
  <2> QED
    BY <2>2, <2>3
<1>5. Provider'
  BY <1>1, ProviderSame DEF BillingInv, Provider
<1>6. Rows' /\ Effects' /\ CreditedOnce' /\ DisputedMeansBanned' /\ PaidFor'
  BY <1>1 DEF BillingInv, Rows, Effects, CreditedOnce, DisputedMeansBanned, PaidFor
<1> QED
  BY <1>3, <1>4, <1>5, <1>6 DEF BillingInv

\* A handler that goes on, and has changed no table
LEMMA GotoStep ==
  ASSUME BillingInv, NEW h \in Handlers, NEW label \in Labels \ {"idle"},
         pc[h] # "idle", Goto(h, label), job[h].kind \in KindsAt[label],
         UNCHANGED <<rowVars, points, credited, aged>>,
         banned \subseteq banned', banned' \subseteq Accounts, Provider',
         sent \subseteq sent', sent' \ inflight' \subseteq sent \ inflight,
         \A i \in Purchases : order[i] = "paid" => order'[i] = "paid",
         label = "complete" => order'[job[h].id] = "paid",
         label \in {"refund", "ban", "dispute"} => Found(job[h].id),
         label = "dispute" => owner[job[h].id] \in banned' \cup Admins,
         label = "answer" /\ job[h].kind = "dispute" => Settled(job[h].id)
  PROVE  BillingInv'
<1>1. UNCHANGED <<status, owner, provider, job>> /\ pc' = [pc EXCEPT ![h] = label]
  BY DEF rowVars, Goto
<1>2. Advances
  BY <1>1 DEF Advances, Found, Settled
<1>3. pc'[h] = label /\ job' \in [Handlers -> Events \cup {NoJob}]
  BY <1>1 DEF BillingInv, Jobs
<1>4. Known(h)'
  BY <1>1, <1>3 DEF Known, Found, Settled
<1>5. Handling(h)'
  BY <1>1, <1>3, <1>4, JobFacts DEF Handling
<1>6. Jobs' /\ MoneyBackApplied'
  BY <1>1, <1>2, <1>3, <1>5, JobsStep, MoneyBackStays
<1>7. Rows' /\ Effects' /\ CreditedOnce' /\ PaidFor'
  BY <1>1 DEF BillingInv, Rows, Effects, CreditedOnce, PaidFor
<1>8. DisputedMeansBanned'
  BY <1>1 DEF BillingInv, DisputedMeansBanned
<1> QED
  BY <1>6, <1>7, <1>8 DEF BillingInv

LEMMA CaptureApprovedStep ==
  ASSUME BillingInv, NEW h \in Handlers, CaptureApproved(h)
  PROVE  BillingInv'
<1> DEFINE i == job[h].id
<1>1. /\ pc[h] = "capture" /\ CaptureOrder(i)
      /\ UNCHANGED <<rowVars, effectVars, aged, resends, faults>>
      /\ \/ order'[i] = "paid" /\ Goto(h, "complete")
         \/ Goto(h, "answer")
  BY DEF CaptureApproved, CaptureCompleted
<1>2. i \in Purchases /\ job[h].kind = "approved" /\ Provider
  BY <1>1, JobFacts DEF BillingInv, KindsAt, Labels
<1>3. UNCHANGED <<status, points, credited, banned>>
  BY <1>1 DEF rowVars, effectVars
<1>4. /\ Provider' /\ sent \subseteq sent' /\ sent' \ inflight' \subseteq sent \ inflight
      /\ \A j \in Purchases : order[j] = "paid" => order'[j] = "paid"
  BY <1>1, <1>2, <1>3, CaptureStep
<1>5. banned \subseteq banned' /\ banned' \subseteq Accounts
  BY <1>3 DEF BillingInv, Effects
<1>6. "approved" \in KindsAt["complete"] /\ "approved" \in KindsAt["answer"]
      /\ {"complete", "answer"} \subseteq Labels \ {"idle"}
  BY DEF KindsAt, Labels
<1>7. CASE order'[i] = "paid" /\ Goto(h, "complete")
  BY <1>1, <1>2, <1>3, <1>4, <1>5, <1>6, <1>7, GotoStep
<1>8. CASE Goto(h, "answer")
  BY <1>1, <1>2, <1>3, <1>4, <1>5, <1>6, <1>8, GotoStep
<1> QED
  BY <1>1, <1>7, <1>8

LEMMA BanStep ==
  ASSUME BillingInv, NEW h \in Handlers, BanForChargeback(h)
  PROVE  BillingInv'
<1>1. /\ pc[h] = "ban" /\ banned' = banned \cup ({owner[job[h].id]} \ Admins)
      /\ Goto(h, "dispute")
      /\ UNCHANGED <<rowVars, points, credited, extVars>>
  BY DEF BanForChargeback, DisputeNext
<1>2. UNCHANGED <<order, sent, inflight, aged, status>>
  BY <1>1 DEF extVars, rowVars
<1>3. /\ Found(job[h].id) /\ job[h].kind = "dispute"
      /\ owner[job[h].id] \in Accounts
  BY <1>1, JobFacts, SentFacts DEF Known, KindsAt, Labels
<1>4. Provider'
  BY <1>2 DEF BillingInv, Provider
<1>5. banned \subseteq banned' /\ banned' \subseteq Accounts
  BY <1>1, <1>3 DEF BillingInv, Effects
<1>6. "dispute" \in KindsAt["dispute"] /\ "dispute" \in Labels \ {"idle"}
  BY DEF KindsAt, Labels
<1> QED
  BY <1>1, <1>2, <1>3, <1>4, <1>5, <1>6, GotoStep

LEMMA LookupStep ==
  ASSUME BillingInv, NEW h \in Handlers, LookupFound(h) \/ LookupMissed(h)
  PROVE  BillingInv'
<1>1. pc[h] = "lookup" /\ job[h].kind \in {"refund", "dispute"} /\ UNCHANGED <<rowVars, effectVars, order, sent, aged>>
  <2>1. pc[h] = "lookup" /\ UNCHANGED <<rowVars, effectVars, order, sent, aged>>
    BY DEF LookupFound, LookupMissed
  <2> QED
    BY <2>1, JobFacts DEF KindsAt, Labels
<1>2. UNCHANGED <<status, points, credited, banned>> /\ banned' \subseteq Accounts
  BY <1>1 DEF rowVars, effectVars, BillingInv, Effects
<1>3. CASE Done(h)
  <2>1. \/ inflight' = inflight
        \/ inflight' = inflight \ {job[h]} /\
             (provider[job[h].id] # "crypto" => job[h] \in aged \/ Settled(job[h].id))
    BY <1>1, <1>3 DEF LookupFound, LookupMissed, GiveUp, Answer200, Answer500, Goto, Done, Found, Settled
  <2> QED
    BY <1>1, <1>3, <2>1, EndStep
<1>4. CASE ~Done(h)
  <2>1. PICK label \in {"refund", "ban"} :
          /\ Goto(h, label) /\ UNCHANGED inflight /\ Found(job[h].id)
          /\ label = "refund" => job[h].kind = "refund"
          /\ label = "ban" => job[h].kind = "dispute"
    BY <1>1, <1>4 DEF LookupFound, LookupMissed, Answer200, Answer500, DisputeNext
  <2>2. Provider'
    BY <1>1, <1>2, <2>1 DEF BillingInv, Provider
  <2>3. job[h].kind \in KindsAt[label] /\ label \in Labels \ {"idle"}
    BY <1>1, <2>1 DEF KindsAt, Labels
  <2> QED
    BY <1>1, <1>2, <2>1, <2>2, <2>3, GotoStep
<1> QED
  BY <1>3, <1>4

\* Mark only moves a purchase forward.
LEMMA MarkStep ==
  ASSUME BillingInv, NEW i \in Purchases, NEW from, NEW to,
         \/ from = Pending /\ to = Failed
         \/ from = Completed /\ to = Refunded
         \/ from = Completed /\ to = Disputed /\ owner[i] \in banned \cup Admins,
         Mark(i, from, to), status[i] # 0,
         UNCHANGED <<owner, provider, points, banned, credited, order, sent, aged>>,
         inflight' \subseteq inflight
  PROVE  /\ Rows' /\ Effects' /\ Provider' /\ CreditedOnce' /\ PaidFor' /\ DisputedMeansBanned'
         /\ Advances /\ (from = Completed /\ Found(i) => status'[i] \in {Disputed, Refunded})
<1> USE DEF Pending, Completed, Disputed, Refunded, Failed
<1>1. Rows /\ status \in [Purchases -> 0..5]
  BY DEF BillingInv, Rows
<1>2. /\ status' \in [Purchases -> 0..5]
      /\ \A j \in Purchases \ {i} : status'[j] = status[j]
      /\ status'[i] = IF status[i] = from THEN to ELSE status[i]
  <2>1. to \in 0..5
    OBVIOUS
  <2>2. CASE status[i] = from
    <3>1. status' = [status EXCEPT ![i] = to]
      BY <2>2 DEF Mark
    <3> QED
      BY <1>1, <2>1, <2>2, <3>1
  <2>3. CASE status[i] # from
    BY <1>1, <2>3 DEF Mark
  <2> QED
    BY <2>2, <2>3
<1>3. to # 0
  OBVIOUS
<1>4. \A j \in Purchases : status[j] # 0 <=> status'[j] # 0
  BY <1>2, <1>3
<1>5. Rows' /\ Effects' /\ PaidFor'
  BY <1>1, <1>2, <1>4 DEF BillingInv, Rows, Effects, PaidFor
<1>6. Provider'
  BY <1>4 DEF BillingInv, Provider
<1>7. \A j \in Purchases : /\ Found(j) <=> Found(j)'
                           /\ Settled(j) => Settled(j)'
  BY <1>2 DEF Found, Settled
<1>8. CreditedOnce'
  BY <1>7 DEF BillingInv, CreditedOnce, Found
<1>9. DisputedMeansBanned'
  BY <1>2 DEF BillingInv, DisputedMeansBanned
<1>10. Advances
  BY <1>7 DEF Advances
<1>11. from = Completed /\ Found(i) => status'[i] \in {Disputed, Refunded}
  BY <1>2 DEF Found
<1> QED
  BY <1>5, <1>6, <1>8, <1>9, <1>10, <1>11

LEMMA FailPurchaseStep ==
  ASSUME BillingInv, NEW h \in Handlers, FailPurchase(h)
  PROVE  BillingInv'
<1>1. /\ pc[h] = "fail" /\ Mark(job[h].id, Pending, Failed) /\ Done(h)
      /\ inflight' = inflight \ {job[h]}
      /\ UNCHANGED <<owner, provider, points, banned, credited, order, sent, aged>>
  BY DEF FailPurchase, MarkFailed, Answer200, effectVars
<1>2. job[h] \in sent /\ job[h].id \in Purchases /\ job[h].kind = "failed" /\ status[job[h].id] # 0
  BY <1>1, JobFacts, SentFacts DEF KindsAt, Labels
<1>3. inflight' \subseteq inflight
  BY <1>1
<1>4. /\ Rows' /\ Effects' /\ Provider' /\ CreditedOnce' /\ PaidFor' /\ DisputedMeansBanned'
      /\ Advances
  BY <1>1, <1>2, <1>3, MarkStep
<1>5. Jobs'
  BY <1>1, <1>4, DoneFacts, JobsStep
<1>6. MoneyBackApplied'
  BY <1>1, <1>2, <1>4, MoneyBackStep
<1> QED
  BY <1>4, <1>5, <1>6 DEF BillingInv

LEMMA RefundStep ==
  ASSUME BillingInv, NEW h \in Handlers, MarkRefunded(h)
  PROVE  BillingInv'
<1>1. /\ pc[h] = "refund" /\ Mark(job[h].id, Completed, Refunded) /\ Done(h)
      /\ inflight' = inflight \ {job[h]}
      /\ UNCHANGED <<owner, provider, points, banned, credited, order, sent, aged>>
  BY DEF MarkRefunded, Answer200, effectVars
<1>2. job[h] \in sent /\ job[h].id \in Purchases /\ Found(job[h].id) /\ status[job[h].id] # 0
  BY <1>1, JobFacts, SentFacts DEF Known
<1>3. inflight' \subseteq inflight
  BY <1>1
<1>4. /\ Rows' /\ Effects' /\ Provider' /\ CreditedOnce' /\ PaidFor' /\ DisputedMeansBanned'
      /\ Advances /\ status'[job[h].id] \in {Disputed, Refunded}
  BY <1>1, <1>2, <1>3, MarkStep
<1>5. Jobs'
  BY <1>1, <1>4, DoneFacts, JobsStep
<1>6. MoneyBackApplied'
  BY <1>1, <1>2, <1>4, MoneyBackStep DEF Settled
<1> QED
  BY <1>4, <1>5, <1>6 DEF BillingInv

LEMMA DisputeStep ==
  ASSUME BillingInv, NEW h \in Handlers, MarkDisputed(h)
  PROVE  BillingInv'
<1>1. /\ pc[h] = "dispute" /\ Mark(job[h].id, Completed, Disputed)
      /\ pc' = [pc EXCEPT ![h] = "answer"]
      /\ UNCHANGED <<owner, provider, points, banned, credited, order, sent, inflight, aged, job>>
  BY DEF MarkDisputed, effectVars, extVars, Goto, DisputeNext
<1>2. /\ job[h] \in sent /\ job[h].id \in Purchases /\ Found(job[h].id) /\ status[job[h].id] # 0
      /\ owner[job[h].id] \in banned \cup Admins /\ job[h].kind = "dispute"
  BY <1>1, JobFacts, SentFacts DEF Known, KindsAt, Labels
<1>3. inflight' \subseteq inflight /\ sent' \ inflight' \subseteq sent \ inflight
  BY <1>1
<1>4. /\ Rows' /\ Effects' /\ Provider' /\ CreditedOnce' /\ PaidFor' /\ DisputedMeansBanned'
      /\ Advances /\ status'[job[h].id] \in {Disputed, Refunded}
  BY <1>1, <1>2, <1>3, MarkStep
<1>5. Handling(h)'
  <2>1. pc'[h] = "answer" /\ job'[h] = job[h] /\ job[h] \in sent'
    BY <1>1, <1>2 DEF BillingInv, Jobs
  <2>2. "dispute" \in KindsAt["answer"]
    BY DEF KindsAt, Labels
  <2>3. Known(h)'
    BY <1>4, <2>1 DEF Known, Settled
  <2> QED
    BY <1>2, <2>1, <2>2, <2>3 DEF Handling
<1>6. Jobs'
  <2>1. "answer" \in Labels /\ job' \in [Handlers -> Events \cup {NoJob}]
    BY <1>1 DEF Labels, BillingInv, Jobs
  <2> QED
    BY <1>1, <1>4, <1>5, <2>1, JobsStep
<1>7. MoneyBackApplied'
  BY <1>3, <1>4, MoneyBackStays
<1> QED
  BY <1>4, <1>6, <1>7 DEF BillingInv

\* The credit of Complete
LEMMA CompleteStep ==
  ASSUME BillingInv, NEW h \in Handlers, CompletePurchase(h)
  PROVE  BillingInv'
<1> DEFINE i == job[h].id
           a == owner[i]
<1>1. pc[h] = "complete" /\ Done(h)
      /\ UNCHANGED <<owner, provider, banned, order, sent, aged>>
  BY DEF CompletePurchase, Answer200, Answer500
<1>2. /\ job[h] \in sent /\ i \in Purchases /\ job[h].kind \in {"approved", "paid"}
      /\ order[i] = "paid" /\ a \in Accounts /\ status[i] # 0
  BY <1>1, JobFacts, SentFacts DEF Known, KindsAt, Labels
<1>3. CASE Completable(i) /\ Fits(a) /\ status' # status
  <2>1. /\ status[i] = Pending /\ points[a] + CashPoints <= MaxPoints
        /\ status' = [status EXCEPT ![i] = Completed]
        /\ points' = [points EXCEPT ![a] = points[a] + CashPoints]
        /\ credited' = [credited EXCEPT ![i] = credited[i] + 1]
        /\ inflight' = inflight \ {job[h]}
    BY <1>3 DEF CompletePurchase, Completable, Fits, Answer200
  <2> USE DEF Pending, Completed, Disputed, Refunded
  <2>2. status \in [Purchases -> 0..5] /\ points \in [Accounts -> 0..MaxPoints]
        /\ credited \in [Purchases -> Nat]
    BY DEF BillingInv, Rows, Effects
  <2>3. /\ status' \in [Purchases -> 0..5] /\ status'[i] = Completed
        /\ \A j \in Purchases \ {i} : status'[j] = status[j]
    BY <1>2, <2>1, <2>2
  <2>4. /\ credited' \in [Purchases -> Nat] /\ credited'[i] = credited[i] + 1
        /\ \A j \in Purchases \ {i} : credited'[j] = credited[j]
    BY <1>2, <2>1, <2>2
  <2>5. points' \in [Accounts -> 0..MaxPoints]
    <3>1. points[a] + CashPoints \in 0..MaxPoints
      BY <1>2, <2>1, <2>2, Numbers
    <3> QED
      BY <2>1, <2>2, <3>1
  <2> HIDE DEF i, a
  <2>6. Rows'
    BY <1>1, <1>2, <2>3 DEF BillingInv, Rows, a
  <2>7. Effects'
    BY <1>1, <2>4, <2>5 DEF BillingInv, Effects
  <2>8. Provider'
    BY <1>1, <2>1, <2>3 DEF BillingInv, Provider
  <2>9. credited[i] = 0
    BY <1>2, <2>1 DEF BillingInv, CreditedOnce
  <2>10. CreditedOnce'
    BY <1>2, <2>3, <2>4, <2>9 DEF BillingInv, CreditedOnce
  <2>11. PaidFor'
    BY <1>1, <1>2, <2>4 DEF BillingInv, PaidFor
  <2>12. DisputedMeansBanned'
    BY <1>1, <2>3 DEF BillingInv, DisputedMeansBanned
  <2>13. Advances
    BY <1>1, <2>1, <2>3 DEF Advances, Found, Settled
  <2>14. Jobs'
    BY <1>1, <2>13, DoneFacts, JobsStep
  <2>15. MoneyBackApplied'
    BY <1>1, <1>2, <2>1, <2>13, MoneyBackStep
  <2> QED
    BY <2>6, <2>7, <2>8, <2>10, <2>11, <2>12, <2>14, <2>15 DEF BillingInv
<1>4. CASE UNCHANGED <<status, points, credited>> /\ (inflight' = inflight \/ inflight' = inflight \ {job[h]})
  <2>1. UNCHANGED <<rowVars, points, credited, banned, order, sent, aged>>
    BY <1>1, <1>4 DEF rowVars
  <2>2. UNCHANGED earlier
    BY DEF CompletePurchase
  <2>3. UNCHANGED <<rowVars, effectVars, order, sent, aged>>
    BY <2>1, <2>2 DEF effectVars
  <2> QED
    BY <1>1, <1>2, <1>4, <2>3, EndStep
<1>5. Completable(i) /\ Fits(a) => status' # status \/ UNCHANGED <<status, points, credited>>
  <2>1. status \in [Purchases -> 0..5]
    BY DEF BillingInv, Rows
  <2> QED
    BY <1>2, <2>1 DEF CompletePurchase, Completable, Pending, Completed
<1> QED
  BY <1>3, <1>4, <1>5 DEF CompletePurchase, Answer200, Answer500

LEMMA HandlersStep ==
  ASSUME BillingInv, NEW h \in Handlers,
         HandlerStep(h) \/ HandlerFails(h) \/ \E e \in inflight : Receive(h, e)
  PROVE  BillingInv'
<1>1. CASE AnswerOk(h)
  <2>1. /\ pc[h] = "answer" /\ Done(h) /\ inflight' = inflight \ {job[h]}
        /\ UNCHANGED <<rowVars, effectVars, order, sent, aged>>
    BY <1>1 DEF AnswerOk, Answer200
  <2>2. /\ job[h].kind \in {"approved", "dispute"}
        /\ job[h].kind = "dispute" => Settled(job[h].id)
    BY <2>1, JobFacts DEF Known, KindsAt, Labels
  <2> QED
    BY <2>1, <2>2, EndStep
<1>2. CASE HandlerFails(h)
  <2>1. pc[h] # "idle" /\ Done(h) /\ UNCHANGED <<rowVars, effectVars, order, sent, aged, inflight>>
    BY <1>2 DEF HandlerFails, extVars
  <2> QED
    BY <2>1, EndStep
<1>3. ASSUME NEW e \in inflight, Receive(h, e)
      PROVE  BillingInv'
  <2>1. /\ pc' = [pc EXCEPT ![h] = FirstStep(e.kind)] /\ job' = [job EXCEPT ![h] = e]
        /\ UNCHANGED <<rowVars, effectVars, extVars>>
    BY <1>3 DEF Receive
  <2>2. UNCHANGED <<status, owner, provider, points, banned, credited, order, sent, inflight, aged>>
    BY <2>1 DEF rowVars, effectVars, extVars
  <2>3. e \in sent /\ e \in Events /\ e.kind \in Kinds
    <3>1. e \in sent
      BY DEF BillingInv, Provider
    <3> QED
      BY <3>1, SentFacts
  <2>4. /\ FirstStep(e.kind) \in {"capture", "complete", "fail", "lookup"}
        /\ FirstStep(e.kind) = "complete" => e.kind = "paid"
        /\ e.kind \in KindsAt[FirstStep(e.kind)] /\ FirstStep(e.kind) \in Labels
    BY <2>3 DEF FirstStep, Kinds, KindsAt, Labels
  <2>5. Advances
    BY <2>2 DEF Advances, Found, Settled
  <2>6. pc'[h] = FirstStep(e.kind) /\ job'[h] = e /\ job' \in [Handlers -> Events \cup {NoJob}]
        /\ \A g \in Handlers \ {h} : job'[g] = job[g]
    BY <2>1, <2>3 DEF BillingInv, Jobs
  <2>7. Known(h)'
    BY <2>2, <2>3, <2>4, <2>6, SentFacts DEF Known
  <2>8. Handling(h)'
    BY <2>2, <2>3, <2>4, <2>6, <2>7 DEF Handling
  <2>9. Jobs'
    BY <2>1, <2>4, <2>5, <2>6, <2>8, JobsStep
  <2>10. MoneyBackApplied'
    BY <2>2, <2>5, MoneyBackStays
  <2>11. Rows' /\ Effects' /\ CreditedOnce' /\ DisputedMeansBanned' /\ PaidFor' /\ Provider'
    BY <2>2 DEF BillingInv, Rows, Effects, CreditedOnce, DisputedMeansBanned, PaidFor, Provider
  <2> QED
    BY <2>9, <2>10, <2>11 DEF BillingInv
<1> QED
  BY <1>1, <1>2, <1>3, CaptureApprovedStep, CompleteStep, FailPurchaseStep, LookupStep, RefundStep,
     BanStep, DisputeStep
  DEF HandlerStep

LEMMA InitBillingInv == Init => BillingInv
<1> SUFFICES ASSUME Init
             PROVE  BillingInv
  OBVIOUS
<1>1. Rows /\ Effects
  BY Numbers DEF Init, Rows, Effects
<1>2. Provider
  BY DEF Init, Provider, OrderStates
<1>3. Jobs
  BY DEF Init, Jobs, Handling, Labels
<1>4. CreditedOnce /\ PaidFor /\ DisputedMeansBanned /\ MoneyBackApplied
  BY DEF Init, CreditedOnce, PaidFor, DisputedMeansBanned, MoneyBackApplied,
     Completed, Disputed, Refunded
<1> QED
  BY <1>1, <1>2, <1>3, <1>4 DEF BillingInv

LEMMA BillingInvStep ==
  ASSUME BillingInv, [Next]_vars
  PROVE  BillingInv'
<1>1. CASE UNCHANGED vars
  <2>1. UNCHANGED <<rowVars, effectVars, handlerVars, order, sent, inflight, aged, status>>
    BY <1>1 DEF vars, extVars, rowVars
  <2>2. Provider'
    BY <2>1 DEF BillingInv, Provider
  <2> QED
    BY <2>1, <2>2, OutsideStep
<1> QED
  BY <1>1, StartStep, ProviderStep, DeliveryStep, HandlersStep DEF Next

LEMMA ConsistentFollows == BillingInv => Consistent
<1> SUFFICES ASSUME BillingInv
             PROVE  TypeOK
  BY DEF BillingInv, Consistent
<1>1. \A h \in Handlers : pc[h] # "idle" => job[h] \in sent
  BY JobFacts
<1> QED
  BY <1>1 DEF BillingInv, TypeOK, Rows, Effects, Provider, OrderStates

-----------------------------------------------------------------------------
\* A purchase is credited once if it counts as paid and never otherwise,
\* although the capture, its notification and the return page race each other
\* and every notification may come again: Complete credits in the transaction
\* that moves the row from pending.
THEOREM CreditsConsistent == Spec => []Consistent
<1>1. Init => BillingInv
  BY InitBillingInv
<1>2. BillingInv /\ [Next]_vars => BillingInv'
  BY BillingInvStep
<1>3. BillingInv => Consistent
  BY ConsistentFollows
<1> QED
  BY <1>1, <1>2, <1>3, PTL DEF Spec

\* No purchase is credited that the provider has not been paid for: the
\* handlers only complete after a capture or a notification that says so.
THEOREM CreditedOnlyIfPaid == Spec => []PaidFor
<1>1. Init => BillingInv
  BY InitBillingInv
<1>2. BillingInv /\ [Next]_vars => BillingInv'
  BY BillingInvStep
<1>3. BillingInv => PaidFor
  BY DEF BillingInv
<1> QED
  BY <1>1, <1>2, <1>3, PTL DEF Spec

\* DisputePurchase bans before it marks: wherever it stops, a purchase that is
\* recorded as disputed has its owner banned, and a retry bans again.
THEOREM BannedBeforeDisputed == Spec => []DisputedMeansBanned
<1>1. Init => BillingInv
  BY InitBillingInv
<1>2. BillingInv /\ [Next]_vars => BillingInv'
  BY BillingInvStep
<1>3. BillingInv => DisputedMeansBanned
  BY DEF BillingInv
<1> QED
  BY <1>1, <1>2, <1>3, PTL DEF Spec

\* A refund or chargeback that Stripe or PayPal was answered 200 for has been
\* recorded, whether it came before or after the completion, unless it was
\* older than webhookRetryWindow.
THEOREM MoneyBackRecorded == Spec => []MoneyBackApplied
<1>1. Init => BillingInv
  BY InitBillingInv
<1>2. BillingInv /\ [Next]_vars => BillingInv'
  BY BillingInvStep
<1>3. BillingInv => MoneyBackApplied
  BY DEF BillingInv
<1> QED
  BY <1>1, <1>2, <1>3, PTL DEF Spec

-----------------------------------------------------------------------------
(* The cash points of an account                                           *)

Of(a) == {i \in Purchases : owner[i] = a}
Bought(a) == SumFunctionOnSet(credited, Of(a))

PointsBought ==
  /\ earlier \in [Accounts -> Nat]
  /\ \A a \in Accounts : points[a] = earlier[a] + CashPoints * Bought(a)

LEMMA OfFinite ==
  ASSUME NEW a
  PROVE  IsFiniteSet(Of(a)) /\ IsFiniteSet(Of(a)')
<1>1. IsFiniteSet(Purchases)
  BY FS_Interval, BillingBounds DEF Purchases
<1>2. Of(a) \subseteq Purchases /\ Of(a)' \subseteq Purchases
  BY DEF Of
<1> QED
  BY <1>1, <1>2, FS_Subset

LEMMA BoughtTyped ==
  ASSUME BillingInv, NEW a
  PROVE  Bought(a) \in Nat
<1>1. IsFiniteSet(Of(a)) /\ \A i \in Of(a) : credited[i] \in Nat
  BY OfFinite DEF BillingInv, Effects, Of
<1> QED
  BY <1>1, SumNat DEF Bought

LEMMA InitPointsBought == Init => PointsBought
<1> SUFFICES ASSUME Init
             PROVE  PointsBought
  OBVIOUS
<1>1. points \in [Accounts -> 0..MaxPoints] /\ earlier = points
      /\ credited = [i \in Purchases |-> 0]
  BY DEF Init
<1>2. earlier \in [Accounts -> Nat]
  BY <1>1, BillingBounds
<1>3. ASSUME NEW a \in Accounts
      PROVE  points[a] = earlier[a] + CashPoints * Bought(a)
  <2>1. \A i \in Of(a) : credited[i] = 0
    BY <1>1 DEF Of
  <2>2. Bought(a) = 0
    BY <2>1, OfFinite, SumZero DEF Bought
  <2>3. CashPoints * 0 = 0
    BY BillingBounds
  <2> QED
    BY <1>1, <1>2, <2>2, <2>3
<1> QED
  BY <1>2, <1>3 DEF PointsBought

LEMMA PointsStay ==
  ASSUME PointsBought, UNCHANGED <<points, earlier, credited, owner>>
  PROVE  PointsBought'
BY DEF PointsBought, Bought, Of

\* A purchase that is opened has not been credited.
LEMMA StartPoints ==
  ASSUME BillingInv, PointsBought, NEW i \in Purchases, NEW a \in Accounts, NEW p \in Providers,
         StartCheckout(i, a, p)
  PROVE  PointsBought'
<1>1. /\ status[i] = 0 /\ owner' = [owner EXCEPT ![i] = a]
      /\ UNCHANGED <<points, earlier, credited>>
  BY DEF StartCheckout, effectVars
<1>2. credited[i] = 0 /\ credited \in [Purchases -> Nat]
  BY <1>1 DEF BillingInv, Effects, CreditedOnce, Completed, Disputed, Refunded
<1>3. ASSUME NEW b \in Accounts
      PROVE  Bought(b)' = Bought(b)
  <2>1. Of(b) \ {i} = Of(b)' \ {i}
    BY <1>1 DEF BillingInv, Rows, Of
  <2>2. \A j \in Of(b) \cup Of(b)' : credited[j] \in Int
    BY <1>2 DEF Of
  <2>3. IsFiniteSet(Of(b)) /\ IsFiniteSet(Of(b)')
    BY OfFinite
  <2>4. SumFunctionOnSet(credited, Of(b) \ {i}) = SumFunctionOnSet(credited, Of(b))
    BY <1>2, <2>2, <2>3, SumSkip
  <2> DEFINE T == Of(b)'
  <2>5. IsFiniteSet(T) /\ \A j \in T : credited[j] \in Int
    BY <2>2, <2>3
  <2>6. Bought(b)' = SumFunctionOnSet(credited, T) /\ Of(b) \ {i} = T \ {i}
    BY <1>1, <2>1 DEF Bought
  <2> HIDE DEF T
  <2>7. SumFunctionOnSet(credited, T \ {i}) = SumFunctionOnSet(credited, T)
    BY <1>2, <2>5, SumSkip
  <2> QED
    BY <2>4, <2>6, <2>7 DEF Bought
<1> QED
  BY <1>1, <1>3 DEF PointsBought

LEMMA CompletePoints ==
  ASSUME BillingInv, PointsBought, NEW h \in Handlers, CompletePurchase(h)
  PROVE  PointsBought'
<1> DEFINE i == job[h].id
           a == owner[i]
<1>1. pc[h] = "complete" /\ UNCHANGED <<owner, earlier>>
  BY DEF CompletePurchase
<1>2. i \in Purchases /\ a \in Accounts
  BY <1>1, JobFacts, SentFacts
<1>3. CASE UNCHANGED <<points, credited>>
  BY <1>1, <1>3, PointsStay
<1>4. CASE /\ points' = [points EXCEPT ![a] = points[a] + CashPoints]
           /\ credited' = [credited EXCEPT ![i] = credited[i] + 1]
  <2>1. /\ points \in [Accounts -> 0..MaxPoints] /\ credited \in [Purchases -> Nat]
        /\ earlier \in [Accounts -> Nat]
    BY DEF BillingInv, Effects, PointsBought
  <2>2. credited'[i] = credited[i] + 1 /\ \A j \in Purchases \ {i} : credited'[j] = credited[j]
    BY <1>2, <1>4, <2>1
  <2>3. ASSUME NEW b \in Accounts
        PROVE  Bought(b)' = SumFunctionOnSet(credited', Of(b))
    BY <1>1 DEF Bought, Of
  <2>4. ASSUME NEW b \in Accounts, b # a
        PROVE  points'[b] = earlier'[b] + CashPoints * Bought(b)'
    <3>1. IsFiniteSet(Of(b)) /\ \A j \in Of(b) : credited[j] = credited'[j]
      BY <2>2, <2>4, OfFinite DEF Of
    <3>2. SumFunctionOnSet(credited, Of(b)) = SumFunctionOnSet(credited', Of(b))
      BY <3>1, SumSame
    <3>3. Bought(b)' = Bought(b)
      BY <2>3, <3>2 DEF Bought
    <3>4. points'[b] = points[b]
      BY <1>4, <2>1, <2>4
    <3> QED
      BY <1>1, <3>3, <3>4 DEF PointsBought
  <2>5. ASSUME NEW b \in Accounts, b = a
        PROVE  points'[b] = earlier'[b] + CashPoints * Bought(b)'
    <3>1. /\ IsFiniteSet(Of(b)) /\ \A j \in Of(b) : credited[j] \in Int
          /\ i \in Of(b) /\ credited'[i] \in Int /\ \A j \in Of(b) \ {i} : credited'[j] = credited[j]
      <4>1. i \in Of(b) /\ Of(b) \subseteq Purchases
        BY <1>2, <2>5 DEF Of
      <4> HIDE DEF i
      <4> QED
        BY <1>2, <2>1, <2>2, <4>1, OfFinite
    <3>2. SumFunctionOnSet(credited', Of(b)) = SumFunctionOnSet(credited, Of(b)) - credited[i] + credited'[i]
      <4> HIDE DEF i
      <4> QED
        BY <3>1, SumChange
    <3>3. Bought(b)' = SumFunctionOnSet(credited', Of(b))
      BY <2>3
    <3>4. Bought(b) \in Nat /\ Bought(b) = SumFunctionOnSet(credited, Of(b)) /\ credited[i] \in Nat
      BY <1>2, <2>1, BoughtTyped DEF Bought
    <3> DEFINE n == Bought(b)
               m == Bought(b)'
               c == credited[i]
               d == credited'[i]
    <3>5. n \in Nat /\ c \in Nat /\ d = c + 1 /\ m = n - c + d
      BY <2>2, <3>2, <3>3, <3>4
    <3>6. points[b] = earlier[b] + CashPoints * n /\ points'[b] = points[b] + CashPoints
      BY <1>2, <1>4, <2>1, <2>5 DEF PointsBought
    <3>7. earlier'[b] = earlier[b] /\ earlier[b] \in Nat /\ CashPoints \in Nat
      BY <1>1, <2>1, BillingBounds
    <3>8. points'[b] = earlier'[b] + CashPoints * m
      <4> HIDE DEF n, m, c, d
      <4>1. m = n + 1
        BY <3>5
      <4>2. \A k \in Nat, q \in Nat : k * (q + 1) = k * q + k
        OBVIOUS
      <4>3. CashPoints * m = CashPoints * n + CashPoints
        BY <3>5, <3>7, <4>1, <4>2
      <4>4. CashPoints * n \in Int
        BY <3>5, <3>7
      <4> QED
        BY <3>6, <3>7, <4>3, <4>4
    <3> QED
      BY <3>8
  <2>6. \A b \in Accounts : points'[b] = earlier'[b] + CashPoints * Bought(b)'
    BY <2>4, <2>5
  <2> QED
    BY <1>1, <2>1, <2>6 DEF PointsBought
<1> QED
  BY <1>3, <1>4 DEF CompletePurchase

LEMMA PointsStep ==
  ASSUME BillingInv, PointsBought, [Next]_vars
  PROVE  PointsBought'
<1> USE PointsStay DEF rowVars, effectVars, extVars
<1>1. CASE UNCHANGED vars
  BY <1>1 DEF vars
<1>2. ASSUME NEW i \in Purchases,
             \/ CreateCheckout(i) \/ SetProviderRef(i) \/ PlayerPays(i) \/ OrderFails(i)
             \/ TopUp(i) \/ ConfirmCheckout(i)
             \/ \E kind \in {"refund", "dispute"} : MoneyBack(i, kind)
      PROVE  PointsBought'
  BY <1>2 DEF CreateCheckout, SetProviderRef, PlayerPays, OrderFails, TopUp, ConfirmCheckout,
              MoneyBack, Happens
<1>3. ASSUME NEW e \in sent, Resend(e) \/ WindowPasses(e)
      PROVE  PointsBought'
  BY <1>3 DEF Resend, WindowPasses
<1>4. ASSUME NEW h \in Handlers,
             \/ CaptureApproved(h) \/ AnswerOk(h) \/ FailPurchase(h) \/ LookupMissed(h)
             \/ LookupFound(h) \/ MarkRefunded(h) \/ BanForChargeback(h) \/ MarkDisputed(h)
             \/ HandlerFails(h) \/ \E e \in inflight : Receive(h, e)
      PROVE  PointsBought'
  BY <1>4 DEF CaptureApproved, AnswerOk, FailPurchase, LookupMissed, LookupFound, MarkRefunded,
              BanForChargeback, MarkDisputed, HandlerFails, Receive
<1> QED
  BY <1>1, <1>2, <1>3, <1>4, StartPoints, CompletePoints DEF Next, HandlerStep

\* Complete adds the points in one transaction with the status of the purchase,
\* and fails when they do not fit: an account has what it had and the points of
\* its purchases, each of them paid for, and no credit overwrites another.
THEOREM PointsAccounted == Spec => []PointsPaidFor
<1>1. Init => BillingInv /\ PointsBought
  BY InitBillingInv, InitPointsBought
<1>2. BillingInv /\ PointsBought /\ [Next]_vars => (BillingInv /\ PointsBought)'
  BY BillingInvStep, PointsStep
<1>3. BillingInv /\ PointsBought => PointsPaidFor
  BY DEF BillingInv, PaidFor, PointsBought, PointsPaidFor, Bought, Of
<1> QED
  BY <1>1, <1>2, <1>3, PTL DEF Spec
=============================================================================
