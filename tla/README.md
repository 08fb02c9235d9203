# go-racp in TLA+

go-racp is a web control panel for a Ragnarok Online (rAthena) server. It keeps
its own state in Postgres and shares a MariaDB database with the game server. No
transaction spans the two, the game's side is an NPC script that polls tables,
payment providers call back at least once and in any order, and everything in
the panel runs in concurrent HTTP handlers and ticking workers. This directory
models the parts of the panel where that matters, checks them with TLC and
proves the central ones with TLAPS.

Paths below are relative to `src/internal/` unless they start with `src/`.

## Inventory

| Part | State | Operations | What is hard | Correct means |
|---|---|---|---|---|
| **Withdraw bridge** `features/account/app/currency`, `infra/postgres_currency.go`, `infra/mysql_withdraw.go`, `src/ra-files/script/deposit_poller.txt` | balance, cooldown and requests (Postgres), `cp_withdraw` (MariaDB), account variables (game) | `RequestWithdraw`; `enqueue`, `confirm`, `reap` of the worker; the poller's timer | two databases and a script that credits without a transaction; calls that fail after they took effect; crashes of either side; re-inserting | what was debited is paid out once, and in the end |
| **Deposit bridge** same package, `infra/mysql_deposit.go`, `src/ra-files/script/currency_manager.txt` | `cp_deposit` (MariaDB), `cp_deposit_processed`, balance and cooldown (Postgres) | the NPC's deposit; `drainOnce`, `applyDeposit`, `deleteDeposit` | lost answers, rows read again, a cooldown shared with withdrawals, the cap of a balance | a row is credited once, deleted only then, and not starved |
| **Market** `features/market` | listings, wallets, holds, settlement legs (Postgres); stash, escrow, delivered legs, storage lock (MariaDB) | `Create`, `Take`, `Cancel`; `Deliver`, `Expire`, `Reconcile` | handlers and three workers interleave; the game takes the storage back at any time; escrow that no listing accounts for | money and items are conserved, nothing is sold or delivered twice, nothing stays in escrow |
| **Billing** `features/billing` | purchases and balances (Postgres), orders (Stripe, PayPal, NOWPayments) | `StartCheckout`, `ConfirmCheckout`, `CaptureApprovedOrder`, `CompletePurchase`, `FailPurchase`, `RefundPurchase`, `DisputePurchase` | webhooks duplicated, reordered, concurrent, failing half way | credited once and only if paid; chargebacks ban; nothing paid stays pending |
| **Moderation** `features/account/app/moderation` | account state and group (MariaDB), audit log | `Ban`, `Unban`, `SetRole`, `BanForChargeback` | read, decide, write without a lock | staff rules hold when two moderators act at once |
| **Account self service** `features/account/app/self` | accounts, sessions, login attempts, change log | register, verify, login and lockout, reset, change of password and email | tokens used twice, one step of several failing, two registrations of one address | a token works once, an address belongs to one account, a reset ends the old sessions, guessing is slowed down |
| **Action tokens** `platform/actiontoken` | one table | `Issue`, `Peek`, `Consume` | concurrent issue and consume | consumed once |
| **Tickets** `features/tickets` | tickets, messages, views | open, reply, note, recategorize, resolve, close | checks made on a row read before the transaction | a closed ticket stays closed; the limit per player holds |
| **Rate limiter** `platform/security/ratelimit.go` | an LRU list of token buckets | `bucket`, `gcOnce` | eviction at the limit; a bucket used after it left the map; reservations cancelled while others are made | list and map agree, the size is bounded, nobody gets more than the rule |
| **Reference data** `platform/refdata` | a snapshot, a cache file, a file watcher | `Reload`, `Load`, `Save`, `run` | a change during a reload, between parsing and hashing, or within the second of the last one; a restart | what is served is what the files say |
| **Notifications** `platform/notification` | one table, subscribers' channels | `Emit`, `MarkRead`, `Subscribe`, `Publish` | a count read and published in two steps, full channels | subscribers converge to the stored count |
| **API keys** `features/apikey` | one table and a map of the active keys | `Warm`, `Generate`, `Revoke`, `Validate` | map and table change separately | a revoked key is not accepted |
| Metrics, stalls | snapshots of counts and vendors | pollers | a failing source | the last good snapshot is kept |
| News, characters, guilds, item and mob databases, themes, routing, configuration | tables of the game or files | reads, single statements, parsing, rendering | - | - |
| Worker loop `platform/worker`, server | - | `Run`: every job in a goroutine of its own, for ever | - | it is what the fairness below rests on |

How they interact: the two bridges, the market and billing share `cp_currency`
(row locks); the bridges, the market's escrow and account self service write the
game's database; a chargeback goes through moderation; the market's reconciler
and delivery worker work on what handlers left behind.

## Modules

| Module | Models | Checked with |
|---|---|---|
| `WithdrawBridge` | the withdraw pipeline, panel and NPC script | itself |
| `DepositBridge` | the deposit pipeline | itself |
| `Market` | offers, settlement, delivery, expiry, reconciliation | `MCMarket`, `MCMarketPair` |
| `Billing` | purchases and webhooks | itself |
| `Account` | accounts, sessions, action tokens, bans | `MCAccount` |
| `Tickets` | support tickets | `MCServices` |
| `Ledger` | what the currency tables promise: one step per operation (abstract) | through `Wallets` |
| `Wallets` | the transactions on `cp_currency`, row lock by row lock; implements `Ledger` | `MCWallets` |
| `RateLimit` | the rate limiter | `MCServices` |
| `ApiKeys` | API keys and the gate's map | `MCServices` |
| `RefData` | reference data: watcher, reload guard, cache file | `MCServices` |
| `Notifications` | notifications, broadcaster, streams | `MCServices` |
| `Lockout` | the lockout of logins | `MCServices` |
| `WithdrawBridgeProofs`, `DepositBridgeProofs`, `MarketProofs`, `BillingProofs`, `AccountProofs` | the theorems about the module of that name | TLAPS |
| `WalletsProofs` | the theorems about `Ledger`, `Wallets` and that one implements the other | TLAPS |
| `ServicesProofs` | the theorems about `ApiKeys`, `RefData`, `Notifications`, `Tickets` and `Lockout` | TLAPS |
| `Sums` | lemmas on sums over finite sets, for the conservation laws | TLAPS |

Every module has the same shape: the databases are variables, one action is one
database call or one transaction of the code, and a handler or worker is a
program counter with the values it has read. What a handler read before a
transaction and uses in it is therefore kept apart from what the tables hold by
then. Operators called *mutant* in a comment are variants of the definition after
them; nothing uses them, they are there to show that the properties notice.

### WithdrawBridge

`wpc` walks `WithdrawWorker.drainOnce`: `PendingWithdraws`, then for each row
`EnqueueInsert` and `MarkWithdrawSent`; `Delivered`, then `ResetDelivered` or
`MarkWithdrawDelivered` and `Delete`; `SentBefore` and `ReapInsert`. Every call
has one of three outcomes: *ok*, *err* (no effect) and *late* (took effect, was
reported as failed). `gpc` walks the script's `OnTimer60000`, one currency at a
time, `drained` is its `.@q`. `query_sql` is external: a statement that fails is only
logged, and the script goes on as if it had worked. It takes a currency off the row
(`DrainSlips`), credits an account that is offline by an INSERT into `acc_reg_num`
(`CreditSlips`), and stamps the row (`StampSlips`). The model keeps, as history, what a
request was credited, what was `lost` (taken off the row and never credited, because the
game stopped in between or the INSERT failed), and what `slipped` (credited and still on
the row).

Abstractions: one panel instance; a call that was reported as failed does not take
effect later; the account that a row credits is its request's; whether that account is
online, in which case the script changes a variable and cannot fail, is left open, so
that either may happen at each credit; the ping of the
bridge before a request only rejects. `MarkWithdrawDelivered`'s two statements are
one step, since the worker is the only writer of that column.

### DepositBridge

`NPCDeposit` takes the amount, starts the NPC's cooldown and inserts the row;
`NPCDepositLost` is the crash in between. The worker reads a batch, and for each row
credits (`CreditDeposit`: lock, cooldown, mark, add, commit) and deletes. Clocks are
kept as what is left of a cooldown, so time never runs out. `StrayRow` is a row
written by something else, which `validDepositRow` refuses.

### Market

Handlers (`pc`, `op`) run `Create`, `Take` and `Cancel`; `op.snap` is the listing as
the handler read it. `Deliver`, `Expire` and `Reconcile` have a state each. The
escrow is indexed by the reference of `cp_market_ref_seq` it was made for, which is
the listing's own for the give side and a fresh one for what a taker gives.
`GameLock` and `GameUnlock` are the game's; the panel may only touch a storage
while the lock is set.

Abstractions: one currency for zeny and cashpoints, which the code treats alike; a
unit is one piece; the blacklist does not change; a stack is never split over slots;
a handler is done before `reconcileGrace` (five minutes) has passed, which the
server's 30 second write timeout is far below; which listings have expired is
left open.

### Billing

The provider is external: `order` is what happened to a payment, `inflight` the
notifications it keeps sending until one is answered with 200. Handlers receive them
in any order, twice, and at the same time. `CaptureOrder` is the call that takes the
money; both the return page (`ConfirmCheckout`) and the webhook make it. `aged` are
the notifications older than `webhookRetryWindow`, after which an unknown payment is
given up on.

Abstractions: one package; signatures, amounts in minor units and reports are left
out; a provider sends a notification until it is answered. An account may have points
already (`earlier`), so that one purchase meets the end of the column's range.

### Account

Each operation is a `Program`: the sequence of the calls its handler makes, middleware
included, as the code makes them one after another (`DoRegister`, `DoLogin`,
`DoResetPassword`, ...; `Issue` and `Consume` are the calls of the token manager in
them). `pc` is the place in that sequence; one step is one call, and a call that
refuses or fails ends the request. `mu` is `emailUniqueMu`. History variables record
which sessions a new password ended (`revoked`), which tokens were superseded
(`dead`), and which mailbox a token came back from (`proven`).

Abstractions: verification is switched on; the lockout of logins is `Lockout`; the two
cooldowns of email and password changes are one constant; the rules about who may
moderate whom only refuse, and an administrator acts here on somebody below;
`SetRole` and the audit log are left out. `login` has no unique index on name or email,
as the game's schema has none.

### Tickets

A request reads the ticket (`AssertCategoryAllowed` for staff, then `Get`), decides on
what it has read (`Allowed`), and writes in one transaction that does not look at the
ticket again. `at` is the time a handler took with `s.now()`: before its transaction,
and, for a view, only when the goroutine of `deferMarkViewed` runs (`TakeTime`).
`Edited` keeps the column that `AppendSystemEvent` writes as it was read.

Abstractions: the text of messages; the emails of staff actions; lists and unread
counts, which only read.

### Ledger and Wallets

The bridges, `Market` and `Billing` treat a Postgres transaction as one step. `Wallets`
is where that is earned. It has the transactions that change currency: `CreditDeposit`,
`RequestWithdraw`, `Complete`, `Hold`, `Burn`, a `Take` of a sell offer (`charge`) and of
a buy order (`settle`), and closing a listing (`release`, `close`). Each is the sequence
of rows it locks (`LockOrder`). A step locks the next row and reads it, waiting while
another transaction has it; the conditions of the code (`Passes`) are evaluated on what
was read; `Commit` writes. `applyDebit` and `Complete` write relative to the row
(`zeny - $2`), everything else writes the value it computed from its reading, as the code
does. A transaction can be rolled back at any point, which is a lost connection as well
as a crash.

`Ledger` has the same operations as single steps on the amounts that are there. The
refinement mapping forgets the connections, and takes the units of a listing to be there
only while it is active. `ImplementsLedger` says that every commit is one step of
`Ledger` and everything else none: no update is lost. `NoWaitCycle` says that no set of
transactions waits for each other, which rests on `lockPair` taking the lower account id
first and on listings and holds being locked before wallets.

Abstractions: one currency; one price and quantity; the rows that a transaction only
inserts (legs, requests) lock nothing that another one wants.

### The services

Five modules about one in-memory structure each, next to a table or to files.

`RateLimit`: the map, the doubly linked list with its pointers, `bucket` under the mutex,
`Reserve` and the decision after it, `gcOnce`. The entry of a request may have been
evicted or collected in between. Tokens are in units of which one comes per tick and a
request costs `Cost`. `rate.Limiter` is external and modelled with its reservations and
cancellations. `LimitBounds` asks that a bucket that is collected would be full again:
`defaultIdle` (10 minutes) against the time a rule needs to fill up.

`ApiKeys`: the rows, the map, and the calls between their statement and their change of
the map. A key is *astray* when a call on it committed and its answer was lost, or when
it was revoked before `Generate` had put it into the map. `Warm` ends that.

`RefData`: a load looks at the cache (`TryLoadFromCache`), parses source by source, hashes
source by source, saves, stores. A file has a text and a stamp (size and second of the
last change); an edit may keep the stamp. `Reported` is what fsnotify says of an edit and
`Matches` what the watcher takes of that: a file that disappears was renamed away, which it
notices, or deleted, which it does not. `missed` has the reasons for which changes will not
be loaded: made before the watcher was there, refused by the guard, or a removal. The next
reload that starts clears it.

`Notifications`: of one account. A change, the count and the publication are three steps;
the channel of a stream is bounded. `off` marks the streams whose last announcement was
dropped, never made or out of date when it was made.

`Lockout`: of one user name. Count, compare and record are three steps. The retention of
`DeleteOld` is left open: it deletes the rows before some time that the window has passed,
as a retention of an hour at least (`minRetention`, `src/server/config/app.go:580`) does.

The services and the tickets share nothing, so `MCServices` puts them in one run: a variable that never
changes says which of them moves, and the states add up instead of multiplying. The same
way `MCMarketPair` checks two markets in one run, one where pieces are sold and one with
barters: its variable `market` says which offers are made and which bounds apply. So do
the two scenarios of `MCAccount`.

## Runs

| Run | Shows |
|---|---|
| `withdraw` | no overpayment, what is recorded as delivered was paid but for what faults of the game lost or repeated, no request without its row, no row that comes back; every request is recorded as delivered in the end |
| `withdraw_unpaid` | **violated**: see below |
| `deposit` | a row is credited once and deleted only then (`Consistent`); balances add up, up to the cap; every row is processed in the end |
| `market_sell` | for pieces that are sold and for barters: items are conserved, nothing is oversold, legs are delivered once and done only when delivered (`Consistent`), the panel only touches locked storages |
| `market_buy` | money is conserved, a buy order's hold is what it still owes, the reconciler never takes what a sale has spent |
| `market_live` | an item in escrow that no listing stands for leaves it |
| `market_close_race` | **violated**: see below |
| `billing` | credited once (`Consistent`), only when paid and only if it fits, a chargeback bans before it is recorded, no refund or chargeback dropped; what was paid does not stay pending |
| `account` | names and addresses stay unique, an active account's address was confirmed, a link works once (`TokensAndLocks`) and a superseded one never, a session that a new password ended stays ended, only a moderator lifts a ban |
| `account_token_race` | **violated**: see below |
| `wallets` | the transactions on currency never deadlock, and implement `Ledger` |
| `services` | nobody gets more requests than the rule; the gate accepts the keys whose rows are active; edits are served; the badge is the count; guessing is slow; and of tickets: counts match the thread (`Consistent`), closed stays closed, the limit is exceeded by no more than what is in flight, nothing seen becomes unseen |

A `Consistent` is the type invariant of a module together with the invariant that says
that an effect happened once.

**Finding 1.** `closeListingTx` (`features/market/app/offer_service.go:541`) works on
the listing that `Cancel` or `DueForExpiry` read before the transaction, and
`SetStatusTx` updates the row whatever it has become. If a `Take` commits in between,
the return leg is for the units the taker has just bought as well: the seller is paid
and gets them back, and one of the two legs can never be delivered.
`ReturnsUnsoldRemainder` says what `TestOfferService_Cancel_ReturnsUnsoldRemainder`
says, and TLC shows the race in a handful of steps. `NeverOversold`,
`ItemsConserved` and `MoneyConserved` hold all the same: the escrow never hands over
more than it has.

**Finding 2.** `Manager.Issue` (`platform/actiontoken/app/manager.go:25`) deletes the
account's unconsumed tokens and inserts the new one in two statements, and the cooldown
in front of it is a third. Its comment says that it "invalidates any prior unconsumed
tokens"; when two requests interleave, both delete before either inserts, and two links
work (`OneLiveToken`). `TokensAndLocks` and `SupersededUnusable` hold all the same: each
link works once, and one that was deleted never does.

**Finding 3.** The script credits an account that is offline with an INSERT
(`src/ra-files/script/deposit_poller.txt:50` and `:70`) whose outcome it does not look at.
When it fails, the currency has been taken off the row, `.@q` counts it as dealt with, the
row is stamped, and the panel confirms the request and deletes the row: the request is shown
as delivered and was not paid (`DeliveredReachesGame`). No crash is needed.
`DeliveredMeansPaid` is what remains true: what was credited and lost is what was asked for
and slipped, and each fault of the game loses or repeats a currency at most once; failed
calls and crashes of the panel lose nothing.

**What the properties of the services leave out.** Each of them names in its statement
the cases in which the code does less, because nothing in it prevents them:

- `GateMatchesRows`: `src/README.md:184` says that revocation is "a soft delete that the
  gate honors immediately". `Revoke` (`features/apikey/app/service.go:135`) returns an error
  of the repository before it removes the key from the map. When the UPDATE took effect and
  its answer was lost, the row is revoked and the key still opens the gate; a second attempt
  ends with `ErrKeyNotFound` and leaves the map alone too. It takes a restart. So does a key
  that is revoked before `Generate` has put it into the map.
- `EditsHotReload`: `src/README.md:128` says that edits hot-reload. Some start no reload
  that loads them, and are served only after a later one has started:
  - a file that is deleted: `Watcher.matches` (`platform/refdata/watcher.go:120`) takes
    Write, Create and Rename, and fsnotify reports Remove. What the file said stays served,
    and `LastError` is empty;
  - a change made during a reload: the reload it starts is refused
    (`platform/refdata/reload_guard.go:31`, `ErrReloadConflict`), the watcher does not try
    again, and the reload that runs may have read the file before;
  - a change while the panel starts, before there is a watcher.

  And two are not served by any later reload until the file is edited again, because the
  cache takes them for what it has: a change between parsing and hashing, for which `Save`
  (`platform/refdata/cache.go:84`) stores the old value under the hash of the new text, and a
  change in the same second as the last that keeps the size. A reload from the dashboard
  does not help either: it takes the cache, although `src/README.md:129` says that it
  "reparses the source files".
- `BadgeCurrent`: `Publish` drops what does not fit, `Prune` announces nothing, and of two
  publishers the one that counted first may announce last, a count that is old by then. No
  property is about that; the next notification repairs it.
- `RateLimited`: a key that a full map has pushed out starts anew.
- `GuessingSlow`: as many guesses as run at the same time are free; it is about every
  window, whichever of the failures it begins with. The longest backoff
  (30 minutes) is longer than the window of failures that count (15 minutes), so a lock
  ends with the window at the latest; the property speaks of failures within a window.

### Bounds

Two requests, deposits or handlers are enough for every race between a reader and a
writer, one fault for each way a single call can fail or a process can stop, and a batch
size of one or two makes both the last and the not-last row of a batch occur. Balances
are chosen so that a second operation can fail for lack of funds or at the cap
(`MaxBalance`, `MaxPoints`). The market is checked for each kind of offer, since a
listing's kind never changes and the kinds only share the account's balance and stash.
Billing has one purchase, with three providers, two handlers, one
notification sent again and one failure: purchases of one account only share its points,
whose earlier amount is chosen freely. The account run bounds
the requests that arrive (three or four of them, two at a time) and splits the operations
in those about identity and those about access; `scenario` says which. Tickets has three
requests, two at a time: an opening and two that race on the ticket, or three openings; the
theorems are about any number.

`Wallets` has two accounts that sell to and buy from each other, three connections that are
symmetric, four transactions, and a `MaxBalance` that a credit can exceed; a lost update
needs two transactions, and a cycle over listing, hold and wallets at most three. In `services`, the limiter has more keys than entries, so that eviction
happens, and a clock beyond `Idle`, so that collection happens; API keys have two keys,
two calls, a lost answer and a restart; reference data has two files (one half of a load
may be old) and enough edits for one during the reload that an edit caused; two pages
listen to channels that four publications overfill; seven logins are enough for the backoff
to double up to its maximum, and the clock lets failures leave the window one by one. `Services.cfg` has the numbers.

`CHECK_DEADLOCK FALSE` is set for all but the bridges: the bounds on references, legs,
purchases and requests bring the other models to rest. The bridges never stop: their
workers tick for ever.

`withdraw_unpaid` needs one request and one fault of the game, and no fault of the panel.

Symmetry is used for safety only.

### Fairness

Weak fairness of the workers is what `worker.Run` and `runLoop` give (a goroutine
per job, a ticker, errors logged and the loop continued), and of the NPC script what
`initnpctimer` gives. Time passes, requests end (server timeouts). Billing also
assumes that a provider sends a notification again until it is answered with 200
(strong fairness of receiving it). `market_live` assumes that a player who has the
storage open closes it at last, and enough slots: without either, an item rightly
stays in escrow. No fairness is assumed of players, of faults or of the game taking
a storage.

## Proofs

TLC checks the instances of the cfgs; the theorems hold for every value of the constants:
any number of accounts, listings, requests, handlers, connections and faults, any price,
fee, cooldown and batch size. The assumptions are the `ASSUME`s of the modules, which every
run evaluates. Most only say that a parameter is a natural number. The others:

- `Wallets`: deposits and purchases have different ids (they are rows of two tables), a
  listing sells or buys, the connections are a finite pool, an initial balance fits its
  column. `DepositBridge` and `Market` ask the same of theirs.
- `Market`: the accounts are finite, since `MoneyConserved` and `ItemsConserved` are sums
  over them; what a seller may offer has a kind, goods and a positive quantity.
- `Billing`: administrators are accounts; the providers are among the three that the code
  knows.
- `Account`: the handlers are finite, and `"free"`, which stands for an unlocked mutex, is
  none of them; at the start no two accounts share a name or an email, which is what the
  code then keeps and cannot repair; an account still to be verified has an address that
  registrations may bring.
- `Lockout`: the logins at one time are finite, since they are what `GuessingSlow` lets
  through.
- `Tickets`: the handlers are finite, since the bound of `OpenBounded` is their number; no
  account of the staff has the id that stands for a NULL `closed_by`.

Every proof has the same shape. The property is not inductive, so an invariant is stated
that is; a lemma per action says that the action keeps it, with a step for each part the
action disturbs; temporal reasoning is the last step only. What the invariants add to the
properties is nearly always the same thing, and the reason the code is right: *what a
handler or worker has read earlier, and still relies on, is still true*.

| Property | Theorem | Inductive invariant |
|---|---|---|
| `TypeOK`, `NoOverpay`, `DeliveredMeansPaid`, `SentHasRow`, `NoResurrection`, `RowsOnlyDrain` | `TypeCorrect`, `NeverOverpaid`, `DeliveredArePaid`, `SentKeepTheirRow`, `NeverResurrected`, `RowsNeverRefilled` | `TypeInv`, `Ledger`, `WorkerLists`, `PollerList`; for `DeliveredMeansPaid` also `FaultInv` |
| `Consistent`, `DeletedMeansProcessed`, `BalanceAccounted` of the deposits | `CreditedAtMostOnce`, `NoDepositDropped`, `DepositsAccounted` | `DepositInv`, `Accounted` |
| `Consistent`, `HoldBacksOrder`, `WantLegBacked`, `PanelNeedsLock` of the market | `RowsConsistent`, `OrdersBacked`, `WantsKept`, `StorageNeedsLock` | `MarketInv` |
| `MoneyConserved`, `ItemsConserved`, `NeverOversold` | `MoneyKept`, `ItemsKept`, `NothingOversold` | `MarketInv` and the sums; for the last `Strangers` and `Sold` |
| `Consistent`, `DisputedMeansBanned`, `MoneyBackApplied`, `PointsPaidFor` of billing | `CreditsConsistent`, `BannedBeforeDisputed`, `MoneyBackRecorded`, `PointsAccounted`, and `CreditedOnlyIfPaid` | `BillingInv` |
| `NoWaitCycle` | `NeverDeadlocked` | `Connections` |
| `ImplementsLedger` | `TransactionsKeepLedger` | `WalletsInv` |
| - | `NothingOverdrawn` (of `Ledger`), and through the refinement `NeverOverdrawn` (of `Wallets`) | `Covered` |
| `TokensAndLocks`, `UniqueIdentity`, `EmailProven`, `RevokedStayOut`, `SupersededUnusable`, `BanSticks` | `TokenSpentOnce`, `NobodyShares`, `NobodyUnproven`, `SessionsStayOut`, `DeadStayDead`, `BansStick` | `AccountInv` |
| `GateMatchesRows` | `GateFollowsRows` | `KeyInv` |
| `BadgeCurrent` | `BadgeFollowsRows` | `NoteInv` |
| `EditsHotReload` | `SnapshotFollowsFiles` | `DataInv` |
| `Consistent`, `OpenBounded`, `NeverReopened`, `ViewsGrow` of the tickets | `ThreadsCounted`, `LimitExceededByFlight`, `ClosedStaysClosed`, `ViewsNeverShrink` | `TicketInv` |
| `GuessingSlow` | `GuessesAreSlow` | `LoginInv` |

**Withdrawals.** What a request may still be paid is in its row, in the script's memory
between the UPDATE and the credit, and in the worker's list of rows it is about to insert:

- `TypeInv`: `TypeOK`, and the script's `.@q` never exceeds the currencies it has come
  past;
- `Ledger`: what was credited or lost, what the row still holds and what is between
  row and credit add up to the request's amount and what slipped (`Balanced`), and of a
  delivered request, whose row may be gone, what was credited or lost does
  (`DeliveredBalanced`); a row
  belongs to a request (`RowHasRequest`) and an id not yet used has none (`Fresh`); a
  delivered request's row is empty (`SettledRow`), and a sent one has a row;
- `WorkerLists`: what the worker has read is still true where it matters. A request in
  its list of pending ones is not yet delivered, a row it is about to confirm is empty,
  and an old one it is about to re-insert is not delivered;
- `PollerList`: the amount the script read is the row's unless it has drained it;
- `FaultInv`: no row, no batch of the script and no list of old requests holds more than was
  asked for (`RowsBound`, `ListsBound`), so a fault adds at most that to what was lost or
  slipped (`LossBound`). Only a fault adds to it, and the amount of a request that was
  made never changes (`AmountKept`).

The worker's lists are what makes `NoResurrection` true: the worker is alone in changing a
request's status, and deletes a row only after its own lists are past it.

**Deposits.** `Rows`: an id that is in the queue, in the worker's batch or marked as
processed has been given out, so a new row is none of them. `Credits`: what a row has
added is nothing before its mark and at most its amount after it. `Deleting`: the row
about to be deleted is marked, or nothing can be credited for it. `CreditDeposit`
reads mark and balance in the transaction that writes them, which is all the step needs.
For `BalanceAccounted` the sums over the rows must change by what the step credits, and
no amount that is credited be negative (`Accounted`): only then does a capped sum stay
below what is due.

**Market.** `Knows` is what a handler knows of the listing it read: ref, seller, kind and
goods never change (`SameOffer`), the units may have. `Private`: a reference that a
handler drew and has not used is nobody else's, so no listing, hold, leg or orphan has it.
`Undrawn`: nothing exists under a reference not yet drawn. `LegOrigins`: a leg moves units
of a listing, or all that a taker escrowed under a reference that only this leg has. With
these, `HoldsBack` (a hold is what the order's open units cost),
`WantsBacked` (what a taker escrowed is there until its leg is done, and `known` to the
reconciler) and `Deliveries` (a leg not applied has handed over nothing) are kept by each
action. `MoneyConserved` and `ItemsConserved` are sums over accounts and references; the
proofs say by how much a step changes one term, twice where two wallets change, and use
`Sums` for the rest. `NeverOversold` is that the legs owe takers exactly what a listing has
lost (`Sold`), and needs that nobody takes from himself (`Strangers`): a leg to the seller
is a return.

**Billing.** `Provider` is what a notification proves: a *paid*, *refund* or *dispute* that
was ever sent is of a paid order. `Handling` says which kinds are handled at a label and
what the handler has found out by then and still holds (`Known`): that the order is paid
before a completion, that the purchase is there and its account banned before a dispute is
recorded. No step takes any of this back (`Advances`), which is why other handlers do
not matter.

**Account.** A handler is a place in its program and what its calls have told it, so the
invariant says what it knows from each call on and still relies on (`Knows`), in terms of
the calls it has made (`Past`). `KnowsToken`: the token it has looked up was mailed to the
account's address, if the account is not yet verified (`Mailed`). `KnowsProof`: from
`markConsumed` on the mailbox has answered, for `confirmEmail` that of the new address. So
what activates an account, or sets its address, is about a proven one even if the address
was changed on the way (`EmailProven`); it works because a change of email takes a verified
account (`KnowsRole`), and no step makes an account unverified again. `KnowsTokens`: once
`deleteUnconsumed` is past, what it found is consumed or gone, and `markConsumed` does not
spend a token twice (`Usable`): those are `SupersededUnusable` and `TokensAndLocks`.
`KnowsSessions`: the sessions that a new password found are still of that account, so
`Invalidate` meets them all; `Refresh` writes only a row that is there, so none comes back.
`Locks`: a handler holds `emailUniqueMu` exactly between `lock` and `unlock` or its return
(`Locked`), which leaves one at most, and one that is about to write a name or an address
has found it free and is that one (`Writing`). `Counts` bounds rows and tokens by the
requests that have arrived, counting those that still owe one (`Owing`). As with billing,
no step takes back what another handler relies on (`Advances`); so each call needs a proof
for its own handler only (`HandlerStep`).

**Wallets.** `NoWaitCycle`: the rows are ordered by `Before`: a purchase's mark, listings,
holds, wallets by account id, a deposit's mark. `LocksUpwards` proves that each request
locks along it, `charge` through `LockPair`. In a set of transactions that all wait for
each other, the one that wants the highest row waits for another that has locked it and
wants a higher one still. That there is a highest needs the connections to be finite.
`ImplementsLedger`: no row is locked twice (`Exclusive`); what a transaction has read is
what the row holds for as long as it is locked (`Readings`), but for a cooldown, which
may pass meanwhile and only makes a withdrawal more permissible; what it has passed held
for what it read (`Passed`). So at commit its conditions hold of the rows themselves, and
the values it writes are those the abstract operation computes: each of the nine commits
is shown to be that operation, every other step to leave the mapped state. Through it,
`NothingOverdrawn` of `Ledger` carries over to the code's transactions (`NeverOverdrawn`).

**The services.** `KeySpec`, `NoteSpec` and `DataSpec` are the specifications of the three
alone; `MCServices` runs them side by side. `KeyInv`: what a call has done to the row by
the time it turns to the map still stands (`KeyPhases`); map and rows differ only for a key
that is astray or has a call on its way to put it right (`MapFollows`); the goroutine of a
touch has stored the time that it still is (`OneTouch`). `NoteInv`: a count that a call
holds is the stored one unless the call is marked old; a stream that is not `off` was
told the stored count last, unless a call is about to announce it. `DataInv`: while the
watcher is quiet and has missed nothing, what a reload has parsed and hashed so far is what
those files still say, and once it is idle so is the snapshot; what came from the cache,
as long as the cache was made of what it says (`CacheMadeOf`) and its stamps tell the files
apart (`StampsTell`).

**Tickets.** A handler writes the ticket at a label by which it has what the write needs
(`Prepared`), of a ticket that is there (`Serving`): rows are never deleted. Replies and
edits may write values read earlier, but never the status, so a stale read cannot reopen
a ticket; `SetTerminal` writes status and `closed_by` together (`ClosedBySomeone`),
and `AppendPublicMessage` the message and the count (`CountMatchesThread`). `Bounded` is
stronger than `OpenBounded`: a player's open tickets *and* the requests that have passed
`checkOpenGate` (`Admitted`) are together at most one less than the limit and the number of
handlers. Passing the check adds one to the second only when the first is below the limit,
and `Create` moves one from the second to the first.

**Lockout.** A call in flight `Knows` the failures *j* to *n* if it has counted them or was
let pass when their backoff was over. `FewEarly`: those recorded too early after the n-th,
and the calls that may still record one (`Unaware`), are together fewer than the calls.
To record one early takes a call that was unaware, and a call that begins now counts all
that are in the window. The powers of two are proved from a table of the 17 that `Backoff`
can shift by (`Doubled`).

`Sums` proves that the folds of the community modules do not depend on the order in which
they pick elements. It does without the induction theorems of the library, which take an
operator: a set for which the claim fails has a smallest subset for which it does
(`FiniteMinimal`), and that one has an element to take away.

TLC checked each inductive invariant on the instances of the runs before it was proved:

| Invariant | Instance | Distinct states |
|---|---|---|
| `Ledger`, `WorkerLists`, `PollerList`, `FaultInv` | `withdraw`; one request, three faults of the game | 459,313; 477,672 |
| `DepositInv` | `deposit` | 319,156 |
| `MarketInv` | `market_buy`; barters; sales | 1,063,361; 1,019,447; 307,014 |
| `MarketInv` with `Strangers` | `market_buy` | 1,063,361 |
| `BillingInv` | smaller and full `billing` | 148,686; 4,432,362 |
| `WalletsInv` | `wallets` | 44,916 |
| `KeyInv`, `NoteInv`, `DataInv` | `services` | 212,408; 1,647,900; 290,170 |
| `AccountInv` | `account` | 1,280,010 |
| `TicketInv` | tickets of `services`, with four requests | 1,574,598 |
| `LoginInv` | lockout of `services`; three logins at once | 188,765; 1,562,595 |

**Only model-checked.**

- Liveness (`EveryWithdrawDelivered`, `EveryDepositProcessed`, `EscrowSettles`,
  `PaidSettles`): it rests on fairness and on which actions are enabled, which is out of
  the prover's reach.
- `RateLimited`: the eviction order lives in a linked list, and the tokens in a sum over
  time; the argument is an induction over both.
- `ReturnsUnsoldRemainder`, `OneLiveToken` and `DeliveredReachesGame` are false (findings
  above).

## Plan

1. `WithdrawBridge` with its proofs, `DepositBridge`, `Market`, `Billing`. *Done.*
2. `Account` with moderation's bans, `Tickets`. *Done.*
3. `Wallets` and the `Ledger` it implements; `RateLimit`, `ApiKeys`, `RefData`,
   `Notifications`, `Lockout`. *Done.*
4. Proofs of the deposit bridge, the market, billing, the wallets and the ledger they
   implement, API keys, notifications, reference data and tickets. *Done.*
5. Proofs of `Account` and `Lockout`. *Done.* No module above uses a RECURSIVE operator.

Next would be the rate limiter's list (that list and map agree, apart from the count of
tokens), `SetRole` beside `Ban`, and several purchases of one account.

## Not modelled

Most of the repository's lines are not logic: of about 99,600 lines of Go and scripts,
62,600 are `*_templ.go`, generated from templates, and 5,500 are a table of sprite names.
A model of them would say nothing, so the share of lines that these modules stand for
stays small.

- Parsers of the game's item and mob tables, themes and their generator, routing,
  configuration: no state that changes, or generated.
- CSRF, origin, security headers and webhook signatures: cryptography and stateless
  checks of one request.
- Reports, histories and lists: reads. News, characters, guilds, `SetRole`, the audit log:
  single statements without a second actor that relies on them.
- Metrics and stalls: pollers that replace a snapshot; nothing is decided on it.
- Losses that the code accepts: the NPC takes the currency before it inserts the deposit
  (`NPCDepositLost` is the step; no property is about it), a hold whose listing was never
  created is not released, a NOWPayments refund that arrives before its completion is
  answered and forgotten (`MoneyBackApplied` leaves it out), of two edits of a ticket
  at the same time one column of the first may be undone (`Edited`), and a reset of the
  password that fails before `InvalidateAll` leaves the old sessions alive (no property is
  about it: `RevokedStayOut` speaks of sessions that were ended).
