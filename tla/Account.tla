------------------------------- MODULE Account -------------------------------
(***************************************************************************)
(* Accounts: registration, verification, password reset, email change,    *)
(* login, sessions and bans.  The login table is the game's (MariaDB, no   *)
(* unique email); tokens, sessions and the change log are in Postgres; a   *)
(* handler works on them one call at a time, and any call may fail.        *)
(*                                                                         *)
(* A handler is its Program, the calls it makes in order; a call either    *)
(* goes on to the next one or ends the handler, as the code returns.  A    *)
(* moderator's handlers run for an actor who is allowed to act on players. *)
(*                                                                         *)
(* The lockout of Authenticate only refuses logins and is left out here.   *)
(***************************************************************************)
EXTENDS Integers, Sequences, FiniteSets, FiniteSetsExt

CONSTANTS
  Names, Emails,
  Scenarios,        \* where a behaviour may start and what it may bring, see below
  Admins,           \* account ids of group 99
  Handlers,         \* concurrent requests
  TokenTTL, SessionTTL,
  RequestCooldown,  \* between two tokens of a kind
  ChangeCooldown,   \* between two changes of password or email
  BanTime,          \* of a temporary ban
  AllowTempBannedLogin,
  MaxFaults         \* bound

StateActive     == 0
StateUnverified == 1
StatePermaBanned == 5

\* Rows of login: names and addresses are those of the requests or were there.
RowsOf(c) ==
  [name : Names \cup {c.rows[a].name : a \in DOMAIN c.rows},
   email : Emails \cup {c.rows[a].email : a \in DOMAIN c.rows},
   pass : c.passwords, state : {StateActive, StateUnverified, StatePermaBanned}, unban : Nat]

\* At the start nobody shares a name or an address.
ASSUME AccountBounds ==
  /\ {TokenTTL, SessionTTL, RequestCooldown, ChangeCooldown, BanTime} \subseteq Nat \ {0}
  /\ MaxFaults \in Nat
  /\ \A c \in DOMAIN Scenarios :
       LET rows == Scenarios[c].rows
       IN /\ rows \in Seq(RowsOf(Scenarios[c]))
          /\ \A a, b \in DOMAIN rows : a # b => rows[a].name # rows[b].name /\ rows[a].email # rows[b].email
          /\ \A a \in DOMAIN rows : rows[a].state = StateUnverified => rows[a].email \in Emails
          /\ Scenarios[c].sessions \subseteq DOMAIN rows
          /\ Scenarios[c].maxRequests \in Nat /\ Scenarios[c].maxClock \in Nat
  /\ AllowTempBannedLogin \in BOOLEAN
  /\ IsFiniteSet(Handlers) /\ "free" \notin Handlers

VARIABLES
  scenario,   \* chosen at the start
  login,      \* rows of login by account_id: [name, email, pass, state, unban]
  tokens,     \* cp_action_tokens
  sessions,   \* cp_sessions
  changed,    \* cp_account_record: when password and email were changed last
  mu,         \* emailUniqueMu: who holds it
  pc, op,     \* the handlers: the call that is next, and what they know
  clock,
  requests,        \* that have arrived
  issued, opened,  \* ids that have been drawn
  faults,
  used,       \* history: how often Consume returned a token
  dead,       \* history: tokens that an Issue found and superseded
  revoked,    \* history: sessions that a password change ended
  proven,     \* history: <<account, email>> whose mailbox answered
  moderated   \* history: accounts whose ban a moderator has changed

dbVars      == <<login, tokens, sessions, changed>>
handlerVars == <<mu, pc, op>>
countVars   == <<clock, requests, issued, opened, faults>>
historyVars == <<used, dead, revoked, proven, moderated>>
vars == <<scenario, dbVars, handlerVars, countVars, historyVars>>

\* The rows of login and the accounts with a session at the start, the handlers
\* that run, the passwords in use, and the bounds on requests and time
Scenario    == Scenarios[scenario]
MaxRequests == Scenario.maxRequests
MaxClock    == Scenario.maxClock

\* A request adds at most one row, one session and one token.
MaxAccounts == Len(Scenario.rows) + MaxRequests

Never == 0
NoToken == [id |-> 0]
NoOp == [kind |-> "none", acct |-> 0, name |-> "", email |-> "", pass |-> "",
         tok |-> NoToken, sess |-> 0, now |-> 0, old |-> {}]

Init ==
  /\ scenario \in DOMAIN Scenarios
  /\ login = Scenario.rows
  /\ tokens = {}
  /\ sessions = {[id |-> a, acct |-> a, exp |-> 1 + SessionTTL] : a \in Scenario.sessions}
  /\ changed = [a \in 1..MaxAccounts |-> [pass |-> Never, email |-> Never]]
  /\ mu = "free" /\ pc = [h \in Handlers |-> 0] /\ op = [h \in Handlers |-> NoOp]
  /\ clock = 1 /\ requests = 0 /\ issued = 0 /\ opened = Len(login) /\ faults = 0
  /\ used = [t \in 1..MaxRequests |-> 0] /\ dead = {} /\ revoked = {}
  /\ proven = {<<a, login[a].email>> : a \in {b \in DOMAIN login : login[b].state # StateUnverified}}
  /\ moderated = {}

-----------------------------------------------------------------------------
(* The handlers as sequences of calls.                                     *)

Issue   == <<"deleteUnconsumed", "insertToken">>
Consume == <<"lookup", "markConsumed">>

\* the session service and the middleware
Visit           == <<"validate", "refresh">>
RequireRoleCore == Visit \o <<"role">>

\* the account service
IssueVerification    == Issue
ServiceCreate        == <<"lock", "unique", "create">> \o IssueVerification \o <<"unlock">>
ConsumeVerification  == Consume \o <<"markVerified">>
ResendVerification   == <<"readUnverified", "cooldown">> \o IssueVerification
RequestPasswordReset == <<"findEmail", "changeCooldown", "cooldown">> \o Issue
ConsumePasswordReset ==
  Consume \o <<"assertUnrestricted", "setPassword", "recordPassword", "markVerified", "invalidate">>
UpdatePassword       == <<"verifyPassword", "changeCooldown", "setPassword", "recordPassword", "invalidate">>
RequestEmailChange   == <<"verifyPassword", "emailFree", "changeCooldown", "cooldown">> \o Issue
ConsumeEmailChange   == Consume \o <<"assertUnrestricted", "lock", "unique", "setEmail", "recordEmail">>

\* the moderation service
Ban              == <<"target", "updateBan">>
Unban            == <<"target", "updateBan">>
BanForChargeback == <<"target", "updateBan">>

\* the handlers
DoRegister           == ServiceCreate \o <<"session">>
DoLogin              == <<"credentials", "session">>
DoLogout             == <<"destroy">>
DoVerify             == ConsumeVerification \o Visit
DoResendVerification == Visit \o ResendVerification
DoForgotPassword     == RequestPasswordReset
DoResetPassword      == ConsumePasswordReset
DoChangePassword     == RequireRoleCore \o UpdatePassword
DoChangeEmail        == RequireRoleCore \o RequestEmailChange
DoVerifyEmailChange  == ConsumeEmailChange
DoBan                == Ban
DoUnban              == Unban

Program ==
  [register |-> DoRegister, login |-> DoLogin, logout |-> DoLogout,
   visit |-> Visit, browse |-> RequireRoleCore,
   verify |-> DoVerify, resend |-> DoResendVerification,
   forgot |-> DoForgotPassword, reset |-> DoResetPassword,
   changePass |-> DoChangePassword,
   changeEmail |-> DoChangeEmail, confirmEmail |-> DoVerifyEmailChange,
   ban |-> DoBan, tempBan |-> DoBan, unban |-> DoUnban, chargeback |-> BanForChargeback]

\* the token that a handler issues or consumes
ActionOf(kind) ==
  CASE kind \in {"register", "resend", "verify"}   -> "EmailVerification"
    [] kind \in {"forgot", "reset"}                -> "PasswordReset"
    [] kind \in {"changeEmail", "confirmEmail"}    -> "EmailChange"

Calls(h) == Program[op[h].kind]
At(h, call) == pc[h] # 0 /\ Calls(h)[pc[h]] = call

\* emailUniqueMu is unlocked by a defer, whichever way Create or
\* ConsumeEmailChange returns.
UnlockNever(h) == UNCHANGED mu  \* mutant
Unlock(h) == mu' = IF mu = h THEN "free" ELSE mu

\* The handler returns.
Stop(h) == pc' = [pc EXCEPT ![h] = 0] /\ op' = [op EXCEPT ![h] = NoOp] /\ Unlock(h)

\* On to the next call, knowing o.
Go(h, o) ==
  IF pc[h] = Len(Calls(h)) THEN Stop(h)
  ELSE pc' = [pc EXCEPT ![h] = @ + 1] /\ op' = [op EXCEPT ![h] = o] /\ UNCHANGED mu

Start(h, o) ==
  /\ o.kind \in Scenario.ops
  /\ requests' = requests + 1
  /\ pc' = [pc EXCEPT ![h] = 1] /\ op' = [op EXCEPT ![h] = o]
  /\ UNCHANGED <<dbVars, mu, clock, issued, opened, faults, historyVars>>

\* What is left to do is what another handler does.
Become(h, kind) == pc' = [pc EXCEPT ![h] = 1] /\ op' = [op EXCEPT ![h].kind = kind] /\ UNCHANGED mu
Leave(h) == Become(h, "logout")

\* A call that reads and goes on if ok.
Check(h, call, ok, o) ==
  /\ At(h, call)
  /\ IF ok THEN Go(h, o) ELSE Stop(h)
  /\ UNCHANGED <<dbVars, countVars, historyVars>>

Row(h) == login[op[h].acct]

\* ClassifyTier
Tier(row) ==
  CASE row.state = StateUnverified  -> "unverified"
    [] row.state = StatePermaBanned -> "permaBanned"
    [] row.state = StateActive /\ row.unban > clock -> "tempBanned"
    [] OTHER -> "active"

-----------------------------------------------------------------------------
(* Manager.Issue, Manager.Consume and the cooldown on tokens               *)

\* MostRecentIssuedAt, 0 if there is none
MostRecentIssuedAt(a, action) ==
  Max({Never} \cup {t.at : t \in {u \in tokens : u.acct = a /\ u.action = action}})

Cooldown(h) ==
  LET last == MostRecentIssuedAt(op[h].acct, ActionOf(op[h].kind))
  IN Check(h, "cooldown", last = Never \/ clock - last >= RequestCooldown, op[h])

Mine(h) == {t \in tokens : t.acct = op[h].acct /\ t.action = ActionOf(op[h].kind)}

KeptAll(h) == tokens  \* mutant: a new token leaves the older ones usable
Kept(h) == {t \in tokens : t \notin Mine(h) \/ t.consumed}
DeleteUnconsumed(h) ==
  /\ At(h, "deleteUnconsumed")
  /\ tokens' = Kept(h)
  /\ Go(h, [op[h] EXCEPT !.old = {t.id : t \in Mine(h)}])
  /\ UNCHANGED <<login, sessions, changed, countVars, historyVars>>

\* The token goes to the mailbox of op.email, and for an email change says so.
MailedTo(h) == op[h].email

InsertToken(h) ==
  /\ At(h, "insertToken")
  /\ issued' = issued + 1
  /\ tokens' = tokens \cup {[id |-> issued + 1, acct |-> op[h].acct, action |-> ActionOf(op[h].kind),
                             payload |-> IF op[h].kind = "changeEmail" THEN op[h].email ELSE "",
                             to |-> MailedTo(h),
                             at |-> clock, exp |-> clock + TokenTTL, consumed |-> FALSE]}
  /\ dead' = dead \cup op[h].old
  /\ Go(h, [op[h] EXCEPT !.old = {}])
  /\ UNCHANGED <<login, sessions, changed, clock, requests, opened, faults, used, revoked, proven, moderated>>

\* ErrTokenAlreadyUsed: doVerify goes on to hasActiveSession
AlreadyUsed(h) == IF op[h].kind = "verify" THEN Become(h, "visit") ELSE Stop(h)

\* lookup: the link that was mailed is still good
Lookup(h) ==
  LET found == {t \in tokens : t.id = op[h].tok.id /\ t.action = ActionOf(op[h].kind)}
      good  == {t \in found : ~t.consumed /\ clock < t.exp}
  IN /\ At(h, "lookup")
     /\ IF \E t \in found : t.consumed THEN AlreadyUsed(h)
        ELSE IF good = {} THEN Stop(h)
        ELSE \E t \in good : Go(h, [op[h] EXCEPT !.tok = t])
     /\ UNCHANGED <<dbVars, countVars, historyVars>>

\* UPDATE ... WHERE token_hash = $2 AND consumed_at IS NULL
UnconsumedAny(id) == {t \in tokens : t.id = id}  \* mutant
Unconsumed(id) == {t \in tokens : t.id = id /\ ~t.consumed}

Affected(hit) == hit # {}

MarkConsumed(h) ==
  LET tok == op[h].tok
      hit == Unconsumed(tok.id)
  IN /\ At(h, "markConsumed")
     /\ tokens' = (tokens \ hit) \cup {[t EXCEPT !.consumed = TRUE] : t \in hit}
     /\ IF Affected(hit)
        THEN /\ Go(h, [op[h] EXCEPT !.acct = tok.acct, !.email = tok.payload, !.tok = NoToken])
             /\ used' = [used EXCEPT ![tok.id] = @ + 1]
             /\ proven' = proven \cup {<<tok.acct, tok.to>>}
        ELSE AlreadyUsed(h) /\ UNCHANGED <<used, proven>>
     /\ UNCHANGED <<login, sessions, changed, countVars, dead, revoked, moderated>>

-----------------------------------------------------------------------------
(* Service.Create, and the lock that makes its check and INSERT one step   *)

LockFree(h) == TRUE  \* mutant
LockHeld(h) == mu = "free"
Lock(h) ==
  /\ At(h, "lock") /\ LockHeld(h)
  /\ mu' = h /\ pc' = [pc EXCEPT ![h] = @ + 1]
  /\ UNCHANGED <<dbVars, op, countVars, historyVars>>

EndLock(h) ==
  /\ At(h, "unlock") /\ Unlock(h)
  /\ pc' = [pc EXCEPT ![h] = @ + 1]
  /\ UNCHANGED <<dbVars, op, countVars, historyVars>>

\* GetByUsername and GetByEmail; of an email change, GetByEmail
Taken(o) == \E a \in DOMAIN login : a # o.acct /\ (login[a].email = o.email \/ login[a].name = o.name)
Unique(h) == Check(h, "unique", ~Taken(op[h]), op[h])

InitialActive == StateActive  \* mutant: a new account needs no verification
InitialState == StateUnverified
Create(h) ==
  /\ At(h, "create")
  /\ login' = Append(login, [name |-> op[h].name, email |-> op[h].email, pass |-> op[h].pass,
                             state |-> InitialState, unban |-> Never])
  /\ Go(h, [op[h] EXCEPT !.acct = Len(login) + 1, !.name = "", !.pass = ""])
  /\ UNCHANGED <<tokens, sessions, changed, countVars, historyVars>>

\* SessionService.Create
CreateSession(h) ==
  /\ At(h, "session")
  /\ opened' = opened + 1
  /\ sessions' = sessions \cup {[id |-> opened + 1, acct |-> op[h].acct, exp |-> clock + SessionTTL]}
  /\ Go(h, op[h])
  /\ UNCHANGED <<login, tokens, changed, clock, requests, issued, faults, historyVars>>

-----------------------------------------------------------------------------
(* SessionService.Validate and requireRoleCore                             *)

Sess(h) == {s \in sessions : s.id = op[h].sess}
Expired(s) == clock >= s.exp

Validate(h) ==
  LET live == {s \in Sess(h) : ~Expired(s)}
  IN /\ At(h, "validate")
     /\ IF Sess(h) = {} THEN Stop(h)
        ELSE IF live = {} THEN Leave(h)
        ELSE \E s \in live : Go(h, [op[h] EXCEPT !.now = clock, !.acct = s.acct])
     /\ UNCHANGED <<dbVars, countVars, historyVars>>

RefreshUpserts(h) ==  \* mutant: the row is written whether it is there or not
  sessions' = (sessions \ Sess(h)) \cup {[id |-> op[h].sess, acct |-> op[h].acct, exp |-> op[h].now + SessionTTL]}
Refreshed(h) ==
  sessions' = (sessions \ Sess(h)) \cup {[s EXCEPT !.exp = op[h].now + SessionTTL] : s \in Sess(h)}
Refresh(h) ==
  /\ At(h, "refresh")
  /\ Refreshed(h)
  /\ IF Sess(h) = {} THEN Stop(h) ELSE Go(h, [op[h] EXCEPT !.now = 0])
  /\ UNCHANGED <<login, tokens, changed, countVars, historyVars>>

\* Account.View is for the verified, ChangePassword and ChangeEmail for the
\* unrestricted as well (access.yml).
Admitted(tier, kind) ==
  \/ tier = "active"
  \/ tier = "tempBanned" /\ AllowTempBannedLogin /\ kind = "browse"
Kicked(tier) == tier = "permaBanned" \/ (tier = "tempBanned" /\ ~AllowTempBannedLogin)

RequireRole(h) ==
  LET tier == Tier(Row(h))
  IN /\ At(h, "role")
     /\ IF Admitted(tier, op[h].kind) THEN Go(h, op[h])
        ELSE IF Kicked(tier) THEN Leave(h) ELSE Stop(h)
     /\ UNCHANGED <<dbVars, countVars, historyVars>>

\* SessionService.Destroy
Destroy(h) ==
  /\ At(h, "destroy")
  /\ sessions' = sessions \ Sess(h)
  /\ Stop(h)
  /\ UNCHANGED <<login, tokens, changed, countVars, historyVars>>

\* Authenticate, and doLogin's look at the tier
Credentials(h) ==
  LET found == {a \in DOMAIN login : login[a].name = op[h].name /\ login[a].pass = op[h].pass}
      ok(a) == Tier(login[a]) \in {"active", "unverified"} \cup (IF AllowTempBannedLogin THEN {"tempBanned"} ELSE {})
  IN Check(h, "credentials", \E a \in found : ok(a),
           [op[h] EXCEPT !.acct = IF found = {} THEN 0 ELSE CHOOSE a \in found : TRUE, !.name = "", !.pass = ""])

-----------------------------------------------------------------------------
(* What the requests for a token look at first                             *)

ReadUnverified(h) ==
  Check(h, "readUnverified", Tier(Row(h)) = "unverified", [op[h] EXCEPT !.email = Row(h).email])

FindEmail(h) ==
  LET found == {a \in DOMAIN login : login[a].email = op[h].email}
  IN Check(h, "findEmail", found # {}, [op[h] EXCEPT !.acct = IF found = {} THEN 0 ELSE Min(found)])

VerifyPassword(h) == Check(h, "verifyPassword", Row(h).pass = op[h].pass, [op[h] EXCEPT !.pass = ""])

EmailFree(h) ==
  Check(h, "emailFree", \A a \in DOMAIN login : login[a].email # op[h].email, op[h])

ChangeCooled(h) ==
  LET last == IF op[h].kind = "changeEmail" THEN changed[op[h].acct].email ELSE changed[op[h].acct].pass
  IN Check(h, "changeCooldown", last = Never \/ clock - last >= ChangeCooldown, op[h])

AssertUnrestricted(h) ==
  Check(h, "assertUnrestricted", Tier(Row(h)) \in {"active", "unverified"}, op[h])

-----------------------------------------------------------------------------
(* What they change                                                        *)

SetRow(h, field, value) == login' = [login EXCEPT ![op[h].acct] = [@ EXCEPT ![field] = value]]

\* UPDATE login SET state = 0 WHERE account_id = ? AND state = 1
VerifiedAlways(row) == [row EXCEPT !.state = StateActive]  \* mutant
Verified(row) == IF row.state = StateUnverified THEN [row EXCEPT !.state = StateActive] ELSE row
MarkVerified(h) ==
  /\ At(h, "markVerified")
  /\ login' = [login EXCEPT ![op[h].acct] = Verified(@)]
  /\ Go(h, op[h])
  /\ UNCHANGED <<tokens, sessions, changed, countVars, historyVars>>

\* the sessions that the caller knows of now: all of them must end
Others(h) == {s.id : s \in {t \in sessions : t.acct = op[h].acct}} \ {op[h].sess}

SetPassword(h) ==
  /\ At(h, "setPassword")
  /\ \E p \in Scenario.passwords : SetRow(h, "pass", p)
  /\ Go(h, [op[h] EXCEPT !.old = Others(h)])
  /\ UNCHANGED <<tokens, sessions, changed, countVars, historyVars>>

SetEmail(h) ==
  /\ At(h, "setEmail")
  /\ SetRow(h, "email", op[h].email)
  /\ Go(h, op[h])
  /\ UNCHANGED <<tokens, sessions, changed, countVars, historyVars>>

\* ChangeLog.Record
Record(h, call, field) ==
  /\ At(h, call)
  /\ changed' = [changed EXCEPT ![op[h].acct] = [@ EXCEPT ![field] = clock]]
  /\ Go(h, op[h])
  /\ UNCHANGED <<login, tokens, sessions, countVars, historyVars>>

\* InvalidateAll, or InvalidateOthers for a handler that has a session
Invalidate(h) ==
  /\ At(h, "invalidate")
  /\ sessions' = {s \in sessions : s.id \notin Others(h)}
  /\ revoked' = revoked \cup op[h].old
  /\ Go(h, op[h])
  /\ UNCHANGED <<login, tokens, changed, countVars, used, dead, proven, moderated>>

-----------------------------------------------------------------------------
(* The moderation service                                                  *)

\* loadMutableTarget, and BanForChargeback's reading of the account
Target(h) ==
  LET row == Row(h)
  IN Check(h, "target",
       /\ op[h].acct \notin Admins
       /\ op[h].kind = "unban" => Tier(row) \in {"permaBanned", "tempBanned"}
       /\ op[h].kind = "chargeback" => row.state # StatePermaBanned,
       op[h])

UpdateBan(h) ==
  LET perma == op[h].kind \in {"ban", "chargeback"}
  IN /\ At(h, "updateBan")
     /\ login' = [login EXCEPT ![op[h].acct] =
          [@ EXCEPT !.state = IF perma THEN StatePermaBanned ELSE StateActive,
                    !.unban = IF op[h].kind = "tempBan" THEN clock + BanTime ELSE Never]]
     /\ moderated' = moderated \cup {op[h].acct}
     /\ Go(h, op[h])
     /\ UNCHANGED <<tokens, sessions, changed, countVars, used, dead, revoked, proven>>

-----------------------------------------------------------------------------
(* Time, the sweeper, failures                                             *)

Tick ==
  /\ clock < MaxClock /\ clock' = clock + 1
  /\ UNCHANGED <<dbVars, handlerVars, requests, issued, opened, faults, historyVars>>

DeleteExpired ==
  /\ \E s \in sessions : s.exp < clock
  /\ sessions' = {s \in sessions : s.exp >= clock}
  /\ UNCHANGED <<login, tokens, changed, handlerVars, countVars, historyVars>>

\* A call fails.  One that fails after its effect is the next call failing.
HandlerFails(h) ==
  /\ pc[h] # 0 /\ faults < MaxFaults /\ faults' = faults + 1
  /\ Stop(h)
  /\ UNCHANGED <<dbVars, clock, requests, issued, opened, historyVars>>

PanelCrash ==
  /\ faults < MaxFaults /\ faults' = faults + 1
  /\ \E h \in Handlers : pc[h] # 0
  /\ mu' = "free" /\ pc' = [h \in Handlers |-> 0] /\ op' = [h \in Handlers |-> NoOp]
  /\ UNCHANGED <<dbVars, clock, requests, issued, opened, historyVars>>

-----------------------------------------------------------------------------
(* Requests                                                                *)

Request(h, kind, o) == Start(h, [o EXCEPT !.kind = kind])

Arrive(h) ==
  /\ pc[h] = 0 /\ requests < MaxRequests
  /\ \/ \E n \in Names, p \in Scenario.passwords :
          \/ \E e \in Emails : Request(h, "register", [NoOp EXCEPT !.name = n, !.email = e, !.pass = p])
          \/ Request(h, "login", [NoOp EXCEPT !.name = n, !.pass = p])
     \/ \E e \in Emails : Request(h, "forgot", [NoOp EXCEPT !.email = e])
     \/ \E s \in 1..opened :
          \/ \E kind \in {"visit", "browse", "logout", "resend"} : Request(h, kind, [NoOp EXCEPT !.sess = s])
          \/ \E p \in Scenario.passwords :
               \/ Request(h, "changePass", [NoOp EXCEPT !.sess = s, !.pass = p])
               \/ \E e \in Emails : Request(h, "changeEmail", [NoOp EXCEPT !.sess = s, !.pass = p, !.email = e])
     \/ \E t \in 1..issued :
          \/ \E s \in 0..opened : Request(h, "verify", [NoOp EXCEPT !.tok = [id |-> t], !.sess = s])
          \/ \E kind \in {"reset", "confirmEmail"} : Request(h, kind, [NoOp EXCEPT !.tok = [id |-> t]])
     \/ \E a \in DOMAIN login, kind \in {"ban", "tempBan", "unban", "chargeback"} :
          Request(h, kind, [NoOp EXCEPT !.acct = a])

Step(h) ==
  \/ EndLock(h) \/ Unique(h) \/ Create(h) \/ CreateSession(h)
  \/ Validate(h) \/ Refresh(h) \/ RequireRole(h) \/ Destroy(h) \/ Credentials(h)
  \/ Cooldown(h) \/ DeleteUnconsumed(h) \/ InsertToken(h) \/ Lookup(h) \/ MarkConsumed(h)
  \/ ReadUnverified(h) \/ FindEmail(h) \/ VerifyPassword(h) \/ EmailFree(h)
  \/ ChangeCooled(h) \/ AssertUnrestricted(h)
  \/ MarkVerified(h) \/ SetPassword(h) \/ SetEmail(h) \/ Invalidate(h)
  \/ Record(h, "recordPassword", "pass") \/ Record(h, "recordEmail", "email")
  \/ Target(h) \/ UpdateBan(h)

Next ==
  /\ UNCHANGED scenario
  /\ \/ \E h \in Handlers : Arrive(h) \/ Lock(h) \/ Step(h) \/ HandlerFails(h)
     \/ Tick \/ DeleteExpired \/ PanelCrash

Spec == Init /\ [][Next]_vars

-----------------------------------------------------------------------------
(* Properties                                                              *)

TokenType ==
  [id : 1..MaxRequests, acct : 1..MaxAccounts, action : {"EmailVerification", "PasswordReset", "EmailChange"},
   payload : Emails \cup {""}, to : Emails, at : Nat, exp : Nat, consumed : BOOLEAN]

\* The tables and the handlers hold what the code can put there.
TypeOK ==
  /\ Len(login) <= MaxAccounts
  /\ \A a \in DOMAIN login : /\ login[a].state \in {StateActive, StateUnverified, StatePermaBanned}
                             /\ login[a].pass \in Scenario.passwords /\ login[a].unban \in Nat
  /\ tokens \subseteq TokenType
  /\ sessions \subseteq [id : 1..opened, acct : DOMAIN login, exp : Nat]
  /\ \A h \in Handlers : pc[h] # 0 => pc[h] \in DOMAIN Calls(h)
  /\ revoked \subseteq 1..opened /\ dead \subseteq 1..issued

\* No two accounts have the same name or the same email, although the login
\* table has neither unique: emailUniqueMu makes the check and the write of
\* Service.Create, and those of ConsumeEmailChange, one step for each other.
UniqueIdentity ==
  \A a, b \in DOMAIN login :
    a # b => login[a].name # login[b].name /\ login[a].email # login[b].email

\* An account that is active, and not by a moderator's doing, has an email
\* whose mailbox received a token that came back: verification, password reset
\* and email change together never activate or set an address nobody confirmed.
EmailProven ==
  \A a \in DOMAIN login :
    login[a].state = StateActive /\ a \notin moderated => <<a, login[a].email>> \in proven

\* Manager.Consume returns a token at most once, however many requests present
\* the same link at the same time; and emailUniqueMu is held only by a handler
\* between its Lock and its return, whichever of its calls fails.
TokensAndLocks ==
  /\ TypeOK
  /\ \A t \in DOMAIN used : used[t] <= 1
  /\ mu # "free" => mu \in Handlers /\ \E i \in 1..pc[mu] - 1 : Calls(mu)[i] = "lock"

\* Once Manager.Issue has returned, a token it found can no longer be
\* consumed, even by a request whose lookup was before.
SupersededUnusable == [][\A t \in dead : used'[t] = used[t]]_vars

\* A session that was open when the password changed is gone once
\* UpdatePassword or ConsumePasswordReset has returned, and no request that was
\* validating it at the time brings it back.
RevokedStayOut == \A s \in sessions : s.id \notin revoked

\* Only UpdateBan lifts a permanent ban: a verification link or a password
\* reset whose checks were before the ban does not.
BanSticks ==
  [][\A a \in DOMAIN login :
       login[a].state = StatePermaBanned /\ login'[a].state # StatePermaBanned
         => \E h \in Handlers : At(h, "updateBan") /\ op[h].acct = a]_vars

\* The account that Manager.Issue mints a token for has no other unconsumed
\* token of that action: "Issue invalidates any prior unconsumed tokens for
\* the account and action, then mints a fresh single-use token".
OneLiveToken ==
  \A t, u \in tokens :
    t.acct = u.acct /\ t.action = u.action /\ ~t.consumed /\ ~u.consumed => t = u
=============================================================================
