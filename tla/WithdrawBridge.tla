-------------------------- MODULE WithdrawBridge --------------------------
(***************************************************************************)
(* The withdraw pipeline of the currency bridge.  A player turns panel     *)
(* balance (cp_currency, Postgres) into in-game currency:                  *)
(*                                                                         *)
(*   RequestWithdraw   debits the balance and records a request, status 1, *)
(*   WithdrawWorker    copies pending requests to the game's cp_withdraw   *)
(*                     table (MariaDB), marks them sent (status 2),        *)
(*                     confirms rows the game drained (status 3) and       *)
(*                     deletes them, and re-inserts requests that have     *)
(*                     been sent for too long,                             *)
(*   cp_withdraw_poller  (NPC script) empties a row into the account's     *)
(*                     variables, one currency at a time, and stamps it    *)
(*                     delivered.                                          *)
(*                                                                         *)
(* No transaction spans the two databases, so every database call is a     *)
(* step of its own.  A call of the worker succeeds, fails without effect   *)
(* ("err"), or takes effect and is reported as failed ("late").            *)
(***************************************************************************)
EXTENDS Integers, FiniteSets

CONSTANTS
  Accounts,
  InitBalance,    \* what every account owns at the start, per currency
  MaxPerTx,       \* MaxZenyPerTx and MaxCashpointPerTx
  Cooldown,       \* currency cooldown, in clock units
  ReapAfter,      \* age after which a sent request is re-inserted; 0 disables
  Batch,          \* LIMIT of the worker's queries
  PollMax,        \* LIMIT of the poller's query (.max)
  MaxReq,         \* bound: number of requests
  MaxClock,       \* bound: the clock stops here
  MaxFaults,      \* bound: failed database calls and crashes of the panel
  MaxGameFaults   \* bound: failed queries, refused attaches, crashes of the game

ASSUME BoundsAssumption ==
  /\ InitBalance \in Nat /\ MaxPerTx \in Nat /\ Cooldown \in Nat /\ ReapAfter \in Nat
  /\ Batch \in Nat \ {0} /\ PollMax \in Nat \ {0} /\ MaxReq \in Nat
  /\ MaxClock \in Nat /\ MaxFaults \in Nat /\ MaxGameFaults \in Nat

Cur     == {"zeny", "points"}
Amount  == [Cur -> Nat]
Zero    == [c \in Cur |-> 0]
Ids     == 1..MaxReq

VARIABLES
  clock,
  balance,      \* cp_currency.zeny, cp_currency.cashpoint
  lockedUntil,  \* cp_currency.locked_until (0 is NULL)
  status, amount, sentAt,   \* cp_withdraw_requests; status 0: not inserted yet
  rows, rowAmt, stamped,    \* cp_withdraw: its ids, amounts, and the ids
                            \* with delivered_at > 0
  wpc, todo,    \* the worker: what it does next, and the rows it has read
  gpc, batch,   \* the script: the same
  drained,      \* the script's .@q: currencies of this row dealt with
  faults, gameFaults,
  credited,     \* history: what the game account received for a request
  lost,         \* history: dealt with by the script, never credited
  slipped       \* history: credited although the row kept the amount

panelVars   == <<balance, lockedUntil>>
requestVars == <<status, amount, sentAt>>
queueVars   == <<rows, rowAmt, stamped>>
workerVars  == <<wpc, todo, faults>>
historyVars == <<credited, lost, slipped>>
gameVars    == <<gpc, batch, drained, gameFaults>>
vars == <<clock, panelVars, requestVars, queueVars, workerVars, gameVars, historyVars>>

NoRows == [i \in {} |-> Zero]

Init ==
  /\ clock = 0
  /\ balance = [a \in Accounts |-> [c \in Cur |-> InitBalance]]
  /\ lockedUntil = [a \in Accounts |-> 0]
  /\ status = [i \in Ids |-> 0] /\ amount = [i \in Ids |-> Zero] /\ sentAt = [i \in Ids |-> 0]
  /\ rows = {} /\ rowAmt = [i \in Ids |-> Zero] /\ stamped = {}
  /\ wpc = "idle" /\ todo = NoRows /\ faults = 0
  /\ gpc = "idle" /\ batch = NoRows /\ drained = 0 /\ gameFaults = 0
  /\ credited = [i \in Ids |-> Zero]
  /\ lost = [i \in Ids |-> Zero]
  /\ slipped = [i \in Ids |-> Zero]

-----------------------------------------------------------------------------
(* Rows read by a query: a function from their ids to their amounts.       *)

ById(i, j)   == i < j
BySent(i, j) == \/ sentAt[i] < sentAt[j]
                \/ sentAt[i] = sentAt[j] /\ i < j

\* ORDER BY ... LIMIT k
FirstOf(S, k, Before(_, _)) == {i \in S : Cardinality({j \in S : Before(j, i)}) < k}

\* i is the row a loop over read rows has come to.
IsNext(i, read, Before(_, _)) == /\ i \in DOMAIN read
                                 /\ \A j \in DOMAIN read : ~Before(j, i)
Without(read, i) == [j \in DOMAIN read \ {i} |-> read[j]]

-----------------------------------------------------------------------------
(* The panel: a player's request.                                          *)

Affordable(a, amt) == \A c \in Cur : amt[c] <= balance[a][c]

cooldownActive(a) == lockedUntil[a] > clock

\* Bad amounts, an active cooldown and a short balance reject the request.
\* i is the id the table assigns.
RequestWithdraw(a, amt, i) ==
  /\ amt # Zero
  /\ ~cooldownActive(a)
  /\ Affordable(a, amt)
  /\ status[i] = 0 /\ \A j \in Ids : j < i => status[j] # 0
  /\ status' = [status EXCEPT ![i] = 1]
  /\ amount' = [amount EXCEPT ![i] = amt]
  /\ balance' = [balance EXCEPT ![a] = [c \in Cur |-> balance[a][c] - amt[c]]]
  /\ lockedUntil' = [lockedUntil EXCEPT ![a] = clock + Cooldown]
  /\ UNCHANGED <<clock, sentAt, queueVars, workerVars, gameVars, historyVars>>

Tick ==
  /\ clock < MaxClock
  /\ clock' = clock + 1
  /\ UNCHANGED <<panelVars, requestVars, queueVars, workerVars, gameVars, historyVars>>

-----------------------------------------------------------------------------
(* WithdrawWorker.drainOnce: enqueue, confirm, reap, one call at a time.   *)

Outcome == {"ok", "err", "late"}
TookEffect(out) == out # "err"
CountFault(out) ==
  \/ out = "ok" /\ faults' = faults
  \/ out # "ok" /\ faults < MaxFaults /\ faults' = faults + 1

\* A failed read skips the loop over its rows.
ReadInto(pc, read, out) ==
  /\ CountFault(out)
  /\ todo' = IF out = "ok" THEN read ELSE NoRows
  /\ wpc' = pc
  /\ UNCHANGED <<clock, panelVars, requestVars, queueVars, gameVars, historyVars>>

PendingIds == {i \in Ids : status[i] = 1}
PendingWithdraws(out) ==
  /\ wpc = "idle"
  /\ ReadInto("insert", [i \in FirstOf(PendingIds, Batch, ById) |-> amount[i]], out)

InsertedOverwriting(i, amt) ==  \* mutant: ON DUPLICATE KEY UPDATE zeny, points
  /\ rows' = rows \cup {i} /\ stamped' = stamped
  /\ rowAmt' = [rowAmt EXCEPT ![i] = amt]

\* INSERT ... ON DUPLICATE KEY UPDATE id = id
Inserted(i, amt) ==
  /\ rows' = rows \cup {i} /\ stamped' = stamped
  /\ rowAmt' = IF i \in rows THEN rowAmt ELSE [rowAmt EXCEPT ![i] = amt]

\* A failed insert goes on with the next request.
InsertIgnoresError(out) == TRUE  \* mutant
InsertDone(out) == out = "ok"

EnqueueInsert(i, out) ==
  /\ wpc = "insert"
  /\ IsNext(i, todo, ById)
  /\ CountFault(out)
  /\ IF TookEffect(out) THEN Inserted(i, todo[i]) ELSE UNCHANGED queueVars
  /\ wpc' = IF InsertDone(out) THEN "sent" ELSE "insert"
  /\ todo' = IF InsertDone(out) THEN todo ELSE Without(todo, i)
  /\ UNCHANGED <<clock, panelVars, requestVars, gameVars, historyVars>>

MarkWithdrawSent(i, out) ==
  /\ wpc = "sent"
  /\ IsNext(i, todo, ById)
  /\ CountFault(out)
  /\ IF TookEffect(out) /\ status[i] = 1
     THEN /\ status' = [status EXCEPT ![i] = 2]
          /\ sentAt' = [sentAt EXCEPT ![i] = clock]
     ELSE UNCHANGED <<status, sentAt>>
  /\ todo' = Without(todo, i)
  /\ wpc' = "insert"
  /\ UNCHANGED <<clock, panelVars, amount, queueVars, gameVars, historyVars>>

Delivered(out) ==
  /\ wpc = "insert" /\ DOMAIN todo = {}
  /\ ReadInto("confirm", [i \in FirstOf(stamped, Batch, ById) |-> rowAmt[i]], out)

DrainedUnchecked(i) == TRUE  \* mutant
Drained(i) == todo[i] = Zero

ResetDelivered(i, out) ==
  /\ wpc = "confirm"
  /\ IsNext(i, todo, ById) /\ ~Drained(i)
  /\ CountFault(out)
  /\ stamped' = IF TookEffect(out) THEN stamped \ {i} ELSE stamped
  /\ todo' = Without(todo, i)
  /\ UNCHANGED <<clock, panelVars, requestVars, rows, rowAmt, wpc, gameVars, historyVars>>

\* The result of MarkWithdrawDelivered: UPDATE ... WHERE status = 2 found the
\* request, or the request is already delivered.
ConfirmedAnyway(i) == TRUE  \* mutant: the result is ignored
ConfirmedOnce(i) == status[i] = 2  \* mutant: not idempotent
Confirmed(i) == status[i] \in {2, 3}

MarkWithdrawDelivered(i, out) ==
  /\ wpc = "confirm"
  /\ IsNext(i, todo, ById) /\ Drained(i)
  /\ CountFault(out)
  /\ status' = IF TookEffect(out) /\ status[i] = 2 THEN [status EXCEPT ![i] = 3] ELSE status
  /\ wpc' = IF out = "ok" /\ Confirmed(i) THEN "delete" ELSE "confirm"
  /\ todo' = IF out = "ok" /\ Confirmed(i) THEN todo ELSE Without(todo, i)
  /\ UNCHANGED <<clock, panelVars, amount, sentAt, queueVars, gameVars, historyVars>>

Delete(i, out) ==
  /\ wpc = "delete"
  /\ IsNext(i, todo, ById)
  /\ CountFault(out)
  /\ IF TookEffect(out)
     THEN /\ rows' = rows \ {i} /\ stamped' = stamped \ {i}
          /\ rowAmt' = [rowAmt EXCEPT ![i] = Zero]
     ELSE UNCHANGED queueVars
  /\ todo' = Without(todo, i)
  /\ wpc' = "confirm"
  /\ UNCHANGED <<clock, panelVars, requestVars, gameVars, historyVars>>

StaleIdsAnyStatus == {i \in Ids : status[i] > 1 /\ sentAt[i] < clock - ReapAfter} \* mutant
StaleIds == {i \in Ids : status[i] = 2 /\ sentAt[i] < clock - ReapAfter}
SentBefore(out) ==
  /\ wpc = "confirm" /\ DOMAIN todo = {}
  /\ ReapAfter > 0
  /\ ReadInto("reap", [i \in FirstOf(StaleIds, Batch, BySent) |-> amount[i]], out)

ReapInsert(i, out) ==
  /\ wpc = "reap"
  /\ IsNext(i, todo, BySent)
  /\ CountFault(out)
  /\ IF TookEffect(out) THEN Inserted(i, todo[i]) ELSE UNCHANGED queueVars
  /\ todo' = Without(todo, i)
  /\ UNCHANGED <<clock, panelVars, requestVars, wpc, gameVars, historyVars>>

DrainDone ==
  /\ DOMAIN todo = {}
  /\ wpc = "reap" \/ (wpc = "confirm" /\ ReapAfter = 0)
  /\ wpc' = "idle"
  /\ UNCHANGED <<clock, panelVars, requestVars, queueVars, todo, faults, gameVars, historyVars>>

WorkerCrash ==
  /\ wpc # "idle"
  /\ CountFault("err")
  /\ wpc' = "idle" /\ todo' = NoRows
  /\ UNCHANGED <<clock, panelVars, requestVars, queueVars, gameVars, historyVars>>

Worker ==
  \/ DrainDone
  \/ \E out \in Outcome :
       \/ PendingWithdraws(out) \/ Delivered(out) \/ SentBefore(out)
       \/ \E i \in DOMAIN todo :
            \/ EnqueueInsert(i, out) \/ MarkWithdrawSent(i, out)
            \/ ResetDelivered(i, out) \/ MarkWithdrawDelivered(i, out) \/ Delete(i, out)
            \/ ReapInsert(i, out)

-----------------------------------------------------------------------------
(* cp_withdraw_poller, OnTimer60000.  The script deals with zeny, then with*)
(* points, then stamps the row if both were dealt with (.@q = 2).  An      *)
(* account in the game is attached and its variable is changed; for one    *)
(* that is not (.@online) a query changes acc_reg_num.  Which of the two a *)
(* currency meets is left open here.                                       *)

GameFault == gameFaults < MaxGameFaults /\ gameFaults' = gameFaults + 1

Poll ==
  /\ gpc = "idle"
  /\ rows \ stamped # {}
  /\ batch' = [i \in FirstOf(rows \ stamped, PollMax, ById) |-> rowAmt[i]]
  /\ gpc' = "zeny" /\ drained' = 0
  /\ UNCHANGED <<clock, panelVars, requestVars, queueVars, workerVars, gameFaults, historyVars>>

CreditPc(c) == IF c = "zeny" THEN "zenyCredit" ELSE "pointsCredit"
AfterPc(c)  == IF c = "zeny" THEN "points" ELSE "stamp"

\* Nothing of this currency to credit.
SkipCurrency(i, c) ==
  /\ gpc = c
  /\ IsNext(i, batch, ById) /\ batch[i][c] = 0
  /\ gpc' = AfterPc(c) /\ drained' = drained + 1
  /\ UNCHANGED <<clock, panelVars, requestVars, queueVars, workerVars, batch, gameFaults, historyVars>>

\* attachrid fails: the currency is left for the next poll.
AttachRefused(i, c) ==
  /\ gpc = c
  /\ IsNext(i, batch, ById) /\ batch[i][c] > 0
  /\ GameFault
  /\ gpc' = AfterPc(c)
  /\ UNCHANGED <<clock, panelVars, requestVars, queueVars, workerVars, batch, drained, historyVars>>

\* UPDATE cp_withdraw SET <currency> = 0
DrainCurrency(i, c) ==
  /\ gpc = c
  /\ IsNext(i, batch, ById) /\ batch[i][c] > 0
  /\ rowAmt' = [rowAmt EXCEPT ![i][c] = 0]
  /\ gpc' = CreditPc(c)
  /\ UNCHANGED <<clock, panelVars, requestVars, rows, stamped, workerVars, batch, drained,
                 gameFaults, historyVars>>

\* The UPDATE has no effect and the script goes on to the credit.
DrainSlips(i, c) ==
  /\ gpc = c
  /\ IsNext(i, batch, ById) /\ batch[i][c] > 0
  /\ GameFault
  /\ slipped' = [slipped EXCEPT ![i][c] = @ + batch[i][c]]
  /\ gpc' = CreditPc(c)
  /\ UNCHANGED <<clock, panelVars, requestVars, queueVars, workerVars, batch, drained, credited, lost>>

\* #CP_PENDING_ZENY += or #CASHPOINTS +=; for an account that is offline,
\* INSERT INTO acc_reg_num ... ON DUPLICATE KEY UPDATE value = value + ...
CreditCurrency(i, c) ==
  /\ gpc = CreditPc(c)
  /\ IsNext(i, batch, ById)
  /\ credited' = [credited EXCEPT ![i][c] = @ + batch[i][c]]
  /\ gpc' = AfterPc(c) /\ drained' = drained + 1
  /\ UNCHANGED <<clock, panelVars, requestVars, queueVars, workerVars, batch, gameFaults, lost, slipped>>

\* The INSERT has no effect: query_sql only logs that, and the script counts
\* the currency as dealt with.
CreditSlips(i, c) ==
  /\ gpc = CreditPc(c)
  /\ IsNext(i, batch, ById)
  /\ GameFault
  /\ lost' = [lost EXCEPT ![i][c] = @ + batch[i][c]]
  /\ gpc' = AfterPc(c) /\ drained' = drained + 1
  /\ UNCHANGED <<clock, panelVars, requestVars, queueVars, workerVars, batch, credited, slipped>>

NextRowOrSleep(i) ==
  /\ batch' = Without(batch, i)
  /\ drained' = 0
  /\ gpc' = IF DOMAIN batch = {i} THEN "idle" ELSE "zeny"

\* IF .@q = 2: UPDATE cp_withdraw SET delivered_at = now
StampDelivered(i) ==
  /\ gpc = "stamp"
  /\ IsNext(i, batch, ById)
  /\ stamped' = IF drained = 2 THEN stamped \cup ({i} \cap rows) ELSE stamped
  /\ NextRowOrSleep(i)
  /\ UNCHANGED <<clock, panelVars, requestVars, rows, rowAmt, workerVars, gameFaults, historyVars>>

\* The UPDATE of delivered_at has no effect.
StampSlips(i) ==
  /\ gpc = "stamp" /\ drained = 2
  /\ IsNext(i, batch, ById)
  /\ GameFault
  /\ NextRowOrSleep(i)
  /\ UNCHANGED <<clock, panelVars, requestVars, queueVars, workerVars, historyVars>>

\* What is between the UPDATE and the credit is gone.
GameCrash(i) ==
  /\ gpc # "idle"
  /\ IsNext(i, batch, ById)
  /\ GameFault
  /\ gpc' = "idle" /\ batch' = NoRows /\ drained' = 0
  /\ lost' = [lost EXCEPT ![i] =
       [c \in Cur |-> lost[i][c] + IF gpc = CreditPc(c) THEN batch[i][c] ELSE 0]]
  /\ UNCHANGED <<clock, panelVars, requestVars, queueVars, workerVars, credited, slipped>>

Poller ==
  \/ Poll
  \/ \E i \in DOMAIN batch :
       \/ StampDelivered(i)
       \/ \E c \in Cur : SkipCurrency(i, c) \/ DrainCurrency(i, c) \/ CreditCurrency(i, c)
GameFaults ==
  \E i \in DOMAIN batch :
    \/ StampSlips(i) \/ GameCrash(i)
    \/ \E c \in Cur : AttachRefused(i, c) \/ DrainSlips(i, c) \/ CreditSlips(i, c)

-----------------------------------------------------------------------------
Requests == [Cur -> 0..MaxPerTx]

Next ==
  \/ \E a \in Accounts, amt \in Requests, i \in Ids : RequestWithdraw(a, amt, i)
  \/ Tick
  \/ Worker \/ WorkerCrash
  \/ Poller \/ GameFaults

Spec == Init /\ [][Next]_vars

\* runLoop ticks for ever and the script re-arms its timer after every round.
FairSpec == Spec /\ WF_vars(Worker) /\ WF_vars(Poller)

-----------------------------------------------------------------------------
(* Properties.                                                             *)

WorkerPcs == {"idle", "insert", "sent", "confirm", "delete", "reap"}
PollerPcs == {"idle", "zeny", "zenyCredit", "points", "pointsCredit", "stamp"}

\* The states of the two databases, the worker and the script; balances
\* and amounts never go below zero (CHECK constraints of cp_currency).
TypeOK ==
  /\ clock \in Nat
  /\ balance \in [Accounts -> Amount] /\ lockedUntil \in [Accounts -> Nat]
  /\ status \in [Ids -> 0..3] /\ amount \in [Ids -> Amount] /\ sentAt \in [Ids -> Nat]
  /\ stamped \subseteq rows /\ rows \subseteq Ids /\ rowAmt \in [Ids -> Amount]
  /\ wpc \in WorkerPcs /\ faults \in Nat
  /\ DOMAIN todo \subseteq Ids /\ todo \in [DOMAIN todo -> Amount]
  /\ gpc \in PollerPcs /\ drained \in 0..2 /\ gameFaults \in Nat
  /\ DOMAIN batch \subseteq Ids /\ batch \in [DOMAIN batch -> Amount]
  /\ credited \in [Ids -> Amount] /\ lost \in [Ids -> Amount] /\ slipped \in [Ids -> Amount]

\* However often a row is inserted, re-inserted, drained and confirmed, and
\* whichever calls fail or crash, the game never credits a request beyond its
\* amount, except by what an UPDATE of the script failed to take off the row.
NoOverpay ==
  \A i \in Ids, c \in Cur : credited[i][c] <= amount[i][c] + slipped[i][c]

\* What the panel shows as delivered was paid in full, but for what the game
\* server lost or repeated itself: what it had taken off the row when it
\* stopped, an INSERT for an account that was offline or an UPDATE that had no
\* effect.  Each of these costs or repeats a currency once; failed calls and
\* crashes of the panel, re-inserts and resets cost nothing.
DeliveredMeansPaid ==
  \A i \in Ids : status[i] = 3 =>
    \A c \in Cur : /\ credited[i][c] + lost[i][c] = amount[i][c] + slipped[i][c]
                   /\ lost[i][c] + slipped[i][c] <= gameFaults * amount[i][c]

\* A request marked sent is in cp_withdraw until it is marked delivered: no
\* crash or failed call leaves it in neither table's work list.
SentHasRow == \A i \in Ids : status[i] = 2 => i \in rows

\* A row the worker deleted never comes back, whatever stale list of pending
\* or old requests the worker still holds: it would be paid a second time.
NoResurrection ==
  [][\A i \in Ids : status[i] = 3 /\ i \notin rows => i \notin rows']_vars

\* What the script has taken off a row is taken off for good: no re-insert
\* of the request fills a row that exists.
RowsOnlyDrain ==
  [][\A i \in rows, c \in Cur : rowAmt'[i][c] <= rowAmt[i][c]]_vars

\* Every request is paid out, confirmed and cleaned up, once faults stop.
EveryWithdrawDelivered ==
  \A i \in Ids : status[i] = 1 ~> (status[i] = 3 /\ i \notin rows)

\* What the panel says of every request: "It will be delivered in-game", and
\* once it is marked so, "Delivered".
DeliveredReachesGame ==
  \A i \in Ids : status[i] = 3 => \A c \in Cur : credited[i][c] >= amount[i][c]
=============================================================================
