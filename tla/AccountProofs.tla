---------------------------- MODULE AccountProofs ----------------------------
(***************************************************************************)
(* What accounts, tokens and sessions keep, whoever registers, confirms,   *)
(* resets, logs in and moderates at the same time, for every number of     *)
(* handlers, accounts and requests, every cooldown and lifetime and every  *)
(* number of failed calls and crashes.                                     *)
(***************************************************************************)
EXTENDS Account, TLAPS, FiniteSetTheorems, SequenceTheorems, WellFoundedInduction

Moderation == {"ban", "tempBan", "unban", "chargeback"}
Kinds ==
  {"register", "login", "logout", "visit", "browse", "verify", "resend", "forgot", "reset",
   "changePass", "changeEmail", "confirmEmail"} \cup Moderation
Actions   == {"EmailVerification", "PasswordReset", "EmailChange"}
Passwords == UNION {Scenarios[c].passwords : c \in DOMAIN Scenarios}

\* What the calls of a handler pass on to each other
AnyToken ==
  [id : Nat, acct : Nat, action : Actions, payload : Emails \cup {""}, to : Emails, at : Nat, exp : Nat,
   consumed : BOOLEAN]
OpRows ==
  [kind : Kinds \cup {"none"}, acct : Nat, name : Names \cup {""}, email : Emails \cup {""},
   pass : Passwords \cup {""}, tok : AnyToken \cup [id : Nat], sess : Nat, now : Nat, old : SUBSET Nat]

\* A handler of kind k makes call c before its i-th one, and from it on.
Before(k, i, c) == \E j \in DOMAIN Program[k] : j < i /\ Program[k][j] = c
Due(k, i, c)    == \E j \in DOMAIN Program[k] : i <= j /\ Program[k][j] = c

\* Handler h has made call c.
Past(h, c) == Before(op[h].kind, pc[h], c)

-----------------------------------------------------------------------------
(* The invariant                                                           *)

Unverified(a) == login[a].state = StateUnverified

Types ==
  /\ scenario \in DOMAIN Scenarios
  /\ login \in Seq(RowsOf(Scenario))
  /\ pc \in [Handlers -> Nat] /\ op \in [Handlers -> OpRows]
  /\ clock \in Nat /\ issued \in Nat /\ opened \in Nat /\ requests \in Nat
  /\ requests <= MaxRequests

KnownAddresses == \A a \in DOMAIN login : Unverified(a) => login[a].email \in Emails
Identities == UniqueIdentity /\ EmailProven /\ KnownAddresses

\* A token for an account that is not verified yet went to the address of the
\* account; it is no token for a change of email.
Mailed(t) ==
  /\ t \in TokenType /\ t.acct \in DOMAIN login
  /\ Unverified(t.acct) => t.action # "EmailChange" /\ t.to = login[t.acct].email
  /\ t.action = "EmailChange" => t.payload = t.to

\* A token that can still be consumed has not been, and none superseded it.
Usable(t) == ~t.consumed => used[t.id] = 0 /\ t.id \notin dead
TokenRows ==
  /\ used \in [1..MaxRequests -> 0..1] /\ dead \subseteq 1..issued
  /\ \A i \in 1..MaxRequests : i > issued => used[i] = 0
  /\ \A t \in tokens : Mailed(t) /\ t.id <= issued /\ Usable(t)
  /\ \A t, u \in tokens : t.id = u.id => t = u

SessionRows ==
  /\ sessions \subseteq [id : 1..opened, acct : DOMAIN login, exp : Nat]
  /\ \A r, s \in sessions : r.id = s.id => r = s
  /\ revoked \subseteq 1..opened
  /\ RevokedStayOut

\* What a handler knows when it comes to a call, and relies on
KnowsAccount(h) ==
  (\/ op[h].kind \in Moderation
   \/ \E c \in {"create", "credentials", "validate", "findEmail", "markConsumed"} : Past(h, c))
  => op[h].acct \in DOMAIN login

KnowsPlayer(h) ==
  op[h].kind = "register" /\ ~Past(h, "create")
  => op[h].acct = 0 /\ op[h].name \in Names /\ op[h].pass \in Scenario.passwords

KnowsAddress(h) ==
  (\/ op[h].kind \in {"register", "forgot", "changeEmail"}
   \/ Past(h, "readUnverified")
   \/ op[h].kind = "confirmEmail" /\ Past(h, "markConsumed"))
  => op[h].email \in Emails

\* The address is that of the account as long as the account is not verified.
KnowsMailbox(h) ==
  (\E c \in {"create", "readUnverified", "findEmail"} : Past(h, c)) /\ Unverified(op[h].acct)
  => login[op[h].acct].email = op[h].email

KnowsRole(h) == Past(h, "role") => ~Unverified(op[h].acct)

KnowsToken(h) ==
  Past(h, "lookup") /\ ~Past(h, "markConsumed")
  => Mailed(op[h].tok) /\ op[h].tok.action = ActionOf(op[h].kind)

\* The mailbox has answered.
KnowsProof(h) ==
  Past(h, "markConsumed") =>
    /\ op[h].kind = "confirmEmail" => <<op[h].acct, op[h].email>> \in proven /\ ~Unverified(op[h].acct)
    /\ op[h].kind # "confirmEmail" /\ ~Past(h, "validate") /\ Unverified(op[h].acct)
         => <<op[h].acct, login[op[h].acct].email>> \in proven

KnowsTokens(h) ==
  Past(h, "deleteUnconsumed") /\ ~Past(h, "insertToken") =>
    op[h].old \subseteq 1..issued /\ \A t \in tokens : t.id \in op[h].old => t.consumed

KnowsSessions(h) ==
  Past(h, "setPassword") /\ ~Past(h, "invalidate") =>
    /\ op[h].old \subseteq 1..opened /\ op[h].sess \notin op[h].old
    /\ \A s \in sessions : s.id \in op[h].old => s.acct = op[h].acct

Knows(h) ==
  /\ KnowsAccount(h) /\ KnowsPlayer(h) /\ KnowsAddress(h) /\ KnowsMailbox(h)
  /\ KnowsRole(h) /\ KnowsToken(h) /\ KnowsProof(h) /\ KnowsTokens(h) /\ KnowsSessions(h)

Working(h) == op[h].kind \in Kinds /\ pc[h] \in DOMAIN Program[op[h].kind]
Handling == \A h \in Handlers : pc[h] # 0 => Working(h) /\ Knows(h)

\* Whoever is between lock and unlock holds emailUniqueMu, and whoever is about
\* to write a name or an address has found it free.
Locked(h) == pc[h] # 0 /\ Past(h, "lock") /\ ~Past(h, "unlock")
Writing(h) == At(h, "create") \/ At(h, "setEmail")
Locks ==
  /\ mu \in Handlers \cup {"free"}
  /\ \A h \in Handlers : mu = h <=> Locked(h)
  /\ \A h \in Handlers : Writing(h) => ~Taken(op[h])

\* Rows and tokens, and the handlers that are going to add one, are no more
\* than the requests that have arrived.
Owes(h, c) == pc[h] # 0 /\ Due(op[h].kind, pc[h], c)
Owing(c) == {h \in Handlers : Owes(h, c)}
Counts ==
  /\ Len(login) + Cardinality(Owing("create")) <= Len(Scenario.rows) + requests
  /\ issued + Cardinality(Owing("insertToken")) <= requests

AccountInv == Types /\ Identities /\ TokenRows /\ SessionRows /\ Handling /\ Locks /\ Counts

-----------------------------------------------------------------------------
(* Which call stands where                                                 *)

LEMMA CallsRegister ==
  LET p == Program["register"] IN
    /\ Len(p) = 7 /\ DOMAIN p = 1..7
    /\ p[1] = "lock" /\ p[2] = "unique" /\ p[3] = "create" /\ p[4] = "deleteUnconsumed"
    /\ p[5] = "insertToken" /\ p[6] = "unlock" /\ p[7] = "session"
BY DEF Program, DoRegister, ServiceCreate, IssueVerification, Issue

LEMMA CallsLogin ==
  LET p == Program["login"] IN
    /\ Len(p) = 2 /\ DOMAIN p = 1..2
    /\ p[1] = "credentials" /\ p[2] = "session"
BY DEF Program, DoLogin

LEMMA CallsLogout ==
  LET p == Program["logout"] IN
    /\ Len(p) = 1 /\ DOMAIN p = 1..1
    /\ p[1] = "destroy"
BY DEF Program, DoLogout

LEMMA CallsVisit ==
  LET p == Program["visit"] IN
    /\ Len(p) = 2 /\ DOMAIN p = 1..2
    /\ p[1] = "validate" /\ p[2] = "refresh"
BY DEF Program, Visit

LEMMA CallsBrowse ==
  LET p == Program["browse"] IN
    /\ Len(p) = 3 /\ DOMAIN p = 1..3
    /\ p[1] = "validate" /\ p[2] = "refresh" /\ p[3] = "role"
BY DEF Program, RequireRoleCore, Visit

LEMMA CallsVerify ==
  LET p == Program["verify"] IN
    /\ Len(p) = 5 /\ DOMAIN p = 1..5
    /\ p[1] = "lookup" /\ p[2] = "markConsumed" /\ p[3] = "markVerified" /\ p[4] = "validate"
    /\ p[5] = "refresh"
BY DEF Program, DoVerify, ConsumeVerification, Consume, Visit

LEMMA CallsResend ==
  LET p == Program["resend"] IN
    /\ Len(p) = 6 /\ DOMAIN p = 1..6
    /\ p[1] = "validate" /\ p[2] = "refresh" /\ p[3] = "readUnverified" /\ p[4] = "cooldown"
    /\ p[5] = "deleteUnconsumed" /\ p[6] = "insertToken"
BY DEF Program, DoResendVerification, ResendVerification, IssueVerification, Issue, Visit

LEMMA CallsForgot ==
  LET p == Program["forgot"] IN
    /\ Len(p) = 5 /\ DOMAIN p = 1..5
    /\ p[1] = "findEmail" /\ p[2] = "changeCooldown" /\ p[3] = "cooldown" /\ p[4] = "deleteUnconsumed"
    /\ p[5] = "insertToken"
BY DEF Program, DoForgotPassword, RequestPasswordReset, Issue

LEMMA CallsReset ==
  LET p == Program["reset"] IN
    /\ Len(p) = 7 /\ DOMAIN p = 1..7
    /\ p[1] = "lookup" /\ p[2] = "markConsumed" /\ p[3] = "assertUnrestricted" /\ p[4] = "setPassword"
    /\ p[5] = "recordPassword" /\ p[6] = "markVerified" /\ p[7] = "invalidate"
BY DEF Program, DoResetPassword, ConsumePasswordReset, Consume

LEMMA CallsChangePass ==
  LET p == Program["changePass"] IN
    /\ Len(p) = 8 /\ DOMAIN p = 1..8
    /\ p[1] = "validate" /\ p[2] = "refresh" /\ p[3] = "role" /\ p[4] = "verifyPassword"
    /\ p[5] = "changeCooldown" /\ p[6] = "setPassword" /\ p[7] = "recordPassword" /\ p[8] = "invalidate"
BY DEF Program, DoChangePassword, UpdatePassword, RequireRoleCore, Visit

LEMMA CallsChangeEmail ==
  LET p == Program["changeEmail"] IN
    /\ Len(p) = 9 /\ DOMAIN p = 1..9
    /\ p[1] = "validate" /\ p[2] = "refresh" /\ p[3] = "role" /\ p[4] = "verifyPassword"
    /\ p[5] = "emailFree" /\ p[6] = "changeCooldown" /\ p[7] = "cooldown" /\ p[8] = "deleteUnconsumed"
    /\ p[9] = "insertToken"
BY DEF Program, DoChangeEmail, RequestEmailChange, RequireRoleCore, Visit, Issue

LEMMA CallsConfirmEmail ==
  LET p == Program["confirmEmail"] IN
    /\ Len(p) = 7 /\ DOMAIN p = 1..7
    /\ p[1] = "lookup" /\ p[2] = "markConsumed" /\ p[3] = "assertUnrestricted" /\ p[4] = "lock"
    /\ p[5] = "unique" /\ p[6] = "setEmail" /\ p[7] = "recordEmail"
BY DEF Program, DoVerifyEmailChange, ConsumeEmailChange, Consume

LEMMA CallsModeration ==
  ASSUME NEW k \in Moderation
  PROVE  /\ Len(Program[k]) = 2 /\ DOMAIN Program[k] = 1..2
         /\ Program[k][1] = "target" /\ Program[k][2] = "updateBan"
BY DEF Moderation, Program, DoBan, Ban, DoUnban, Unban, BanForChargeback

LEMMA Places ==
  ASSUME NEW k \in Kinds, NEW i \in DOMAIN Program[k]
  PROVE
    /\ Program[k][i] = "lock" <=> (k = "register" /\ i = 1) \/ (k = "confirmEmail" /\ i = 4)
    /\ Program[k][i] = "unique" <=> (k = "register" /\ i = 2) \/ (k = "confirmEmail" /\ i = 5)
    /\ Program[k][i] = "create" <=> k = "register" /\ i = 3
    /\ Program[k][i] = "deleteUnconsumed" <=>
         \/ k \in {"register", "forgot"} /\ i = 4
         \/ k = "resend" /\ i = 5
         \/ k = "changeEmail" /\ i = 8
    /\ Program[k][i] = "insertToken" <=>
         \/ k \in {"register", "forgot"} /\ i = 5
         \/ k = "resend" /\ i = 6
         \/ k = "changeEmail" /\ i = 9
    /\ Program[k][i] = "unlock" <=> k = "register" /\ i = 6
    /\ Program[k][i] = "session" <=> (k = "register" /\ i = 7) \/ (k = "login" /\ i = 2)
    /\ Program[k][i] = "credentials" <=> k = "login" /\ i = 1
    /\ Program[k][i] = "destroy" <=> k = "logout" /\ i = 1
    /\ Program[k][i] = "validate" <=>
         \/ k \in {"visit", "browse", "resend", "changePass", "changeEmail"} /\ i = 1
         \/ k = "verify" /\ i = 4
    /\ Program[k][i] = "refresh" <=>
         \/ k \in {"visit", "browse", "resend", "changePass", "changeEmail"} /\ i = 2
         \/ k = "verify" /\ i = 5
    /\ Program[k][i] = "role" <=> k \in {"browse", "changePass", "changeEmail"} /\ i = 3
    /\ Program[k][i] = "lookup" <=> k \in {"verify", "reset", "confirmEmail"} /\ i = 1
    /\ Program[k][i] = "markConsumed" <=> k \in {"verify", "reset", "confirmEmail"} /\ i = 2
    /\ Program[k][i] = "markVerified" <=> (k = "verify" /\ i = 3) \/ (k = "reset" /\ i = 6)
    /\ Program[k][i] = "readUnverified" <=> k = "resend" /\ i = 3
    /\ Program[k][i] = "cooldown" <=>
         \/ k = "resend" /\ i = 4
         \/ k = "forgot" /\ i = 3
         \/ k = "changeEmail" /\ i = 7
    /\ Program[k][i] = "findEmail" <=> k = "forgot" /\ i = 1
    /\ Program[k][i] = "changeCooldown" <=>
         \/ k = "forgot" /\ i = 2
         \/ k = "changePass" /\ i = 5
         \/ k = "changeEmail" /\ i = 6
    /\ Program[k][i] = "assertUnrestricted" <=> k \in {"reset", "confirmEmail"} /\ i = 3
    /\ Program[k][i] = "setPassword" <=> (k = "reset" /\ i = 4) \/ (k = "changePass" /\ i = 6)
    /\ Program[k][i] = "recordPassword" <=> (k = "reset" /\ i = 5) \/ (k = "changePass" /\ i = 7)
    /\ Program[k][i] = "invalidate" <=> (k = "reset" /\ i = 7) \/ (k = "changePass" /\ i = 8)
    /\ Program[k][i] = "verifyPassword" <=> k \in {"changePass", "changeEmail"} /\ i = 4
    /\ Program[k][i] = "emailFree" <=> k = "changeEmail" /\ i = 5
    /\ Program[k][i] = "setEmail" <=> k = "confirmEmail" /\ i = 6
    /\ Program[k][i] = "recordEmail" <=> k = "confirmEmail" /\ i = 7
    /\ Program[k][i] = "target" <=> k \in Moderation /\ i = 1
    /\ Program[k][i] = "updateBan" <=> k \in Moderation /\ i = 2
<1>1. CASE k = "register"
  BY <1>1, CallsRegister DEF Moderation
<1>2. CASE k = "login"
  BY <1>2, CallsLogin DEF Moderation
<1>3. CASE k = "logout"
  BY <1>3, CallsLogout DEF Moderation
<1>4. CASE k = "visit"
  BY <1>4, CallsVisit DEF Moderation
<1>5. CASE k = "browse"
  BY <1>5, CallsBrowse DEF Moderation
<1>6. CASE k = "verify"
  BY <1>6, CallsVerify DEF Moderation
<1>7. CASE k = "resend"
  BY <1>7, CallsResend DEF Moderation
<1>8. CASE k = "forgot"
  BY <1>8, CallsForgot DEF Moderation
<1>9. CASE k = "reset"
  BY <1>9, CallsReset DEF Moderation
<1>10. CASE k = "changePass"
  BY <1>10, CallsChangePass DEF Moderation
<1>11. CASE k = "changeEmail"
  BY <1>11, CallsChangeEmail DEF Moderation
<1>12. CASE k = "confirmEmail"
  BY <1>12, CallsConfirmEmail DEF Moderation
<1>13. CASE k \in Moderation
  BY <1>13, CallsModeration DEF Moderation
<1> QED
  BY <1>1, <1>2, <1>3, <1>4, <1>5, <1>6, <1>7, <1>8, <1>9, <1>10, <1>11, <1>12, <1>13 DEF Kinds

LEMMA Befores ==
  ASSUME NEW k \in Kinds, NEW i \in Nat
  PROVE
    /\ Before(k, i, "lock") <=> (k = "register" /\ i > 1) \/ (k = "confirmEmail" /\ i > 4)
    /\ Before(k, i, "unlock") <=> k = "register" /\ i > 6
    /\ Before(k, i, "create") <=> k = "register" /\ i > 3
    /\ Before(k, i, "deleteUnconsumed") <=>
         \/ k \in {"register", "forgot"} /\ i > 4
         \/ k = "resend" /\ i > 5
         \/ k = "changeEmail" /\ i > 8
    /\ Before(k, i, "insertToken") <=>
         \/ k \in {"register", "forgot"} /\ i > 5
         \/ k = "resend" /\ i > 6
         \/ k = "changeEmail" /\ i > 9
    /\ Before(k, i, "credentials") <=> k = "login" /\ i > 1
    /\ Before(k, i, "validate") <=>
         \/ k \in {"visit", "browse", "resend", "changePass", "changeEmail"} /\ i > 1
         \/ k = "verify" /\ i > 4
    /\ Before(k, i, "role") <=> k \in {"browse", "changePass", "changeEmail"} /\ i > 3
    /\ Before(k, i, "lookup") <=> k \in {"verify", "reset", "confirmEmail"} /\ i > 1
    /\ Before(k, i, "markConsumed") <=> k \in {"verify", "reset", "confirmEmail"} /\ i > 2
    /\ Before(k, i, "readUnverified") <=> k = "resend" /\ i > 3
    /\ Before(k, i, "findEmail") <=> k = "forgot" /\ i > 1
    /\ Before(k, i, "setPassword") <=> (k = "reset" /\ i > 4) \/ (k = "changePass" /\ i > 6)
    /\ Before(k, i, "invalidate") <=> (k = "reset" /\ i > 7) \/ (k = "changePass" /\ i > 8)
<1>1. CASE k = "register"
  BY <1>1, CallsRegister DEF Before
<1>2. CASE k = "login"
  BY <1>2, CallsLogin DEF Before
<1>3. CASE k = "logout"
  BY <1>3, CallsLogout DEF Before
<1>4. CASE k = "visit"
  BY <1>4, CallsVisit DEF Before
<1>5. CASE k = "browse"
  BY <1>5, CallsBrowse DEF Before
<1>6. CASE k = "verify"
  BY <1>6, CallsVerify DEF Before
<1>7. CASE k = "resend"
  BY <1>7, CallsResend DEF Before
<1>8. CASE k = "forgot"
  BY <1>8, CallsForgot DEF Before
<1>9. CASE k = "reset"
  BY <1>9, CallsReset DEF Before
<1>10. CASE k = "changePass"
  BY <1>10, CallsChangePass DEF Before
<1>11. CASE k = "changeEmail"
  BY <1>11, CallsChangeEmail DEF Before
<1>12. CASE k = "confirmEmail"
  BY <1>12, CallsConfirmEmail DEF Before
<1>13. CASE k \in Moderation
  BY <1>13, CallsModeration DEF Before, Moderation
<1> QED
  BY <1>1, <1>2, <1>3, <1>4, <1>5, <1>6, <1>7, <1>8, <1>9, <1>10, <1>11, <1>12, <1>13 DEF Kinds

LEMMA Dues ==
  ASSUME NEW k \in Kinds, NEW i \in Nat
  PROVE
    /\ Due(k, i, "create") <=> k = "register" /\ i <= 3
    /\ Due(k, i, "insertToken") <=>
         \/ k \in {"register", "forgot"} /\ i <= 5
         \/ k = "resend" /\ i <= 6
         \/ k = "changeEmail" /\ i <= 9
<1>1. CASE k = "register"
  BY <1>1, CallsRegister DEF Due
<1>2. CASE k = "login"
  BY <1>2, CallsLogin DEF Due
<1>3. CASE k = "logout"
  BY <1>3, CallsLogout DEF Due
<1>4. CASE k = "visit"
  BY <1>4, CallsVisit DEF Due
<1>5. CASE k = "browse"
  BY <1>5, CallsBrowse DEF Due
<1>6. CASE k = "verify"
  BY <1>6, CallsVerify DEF Due
<1>7. CASE k = "resend"
  BY <1>7, CallsResend DEF Due
<1>8. CASE k = "forgot"
  BY <1>8, CallsForgot DEF Due
<1>9. CASE k = "reset"
  BY <1>9, CallsReset DEF Due
<1>10. CASE k = "changePass"
  BY <1>10, CallsChangePass DEF Due
<1>11. CASE k = "changeEmail"
  BY <1>11, CallsChangeEmail DEF Due
<1>12. CASE k = "confirmEmail"
  BY <1>12, CallsConfirmEmail DEF Due
<1>13. CASE k \in Moderation
  BY <1>13, CallsModeration DEF Due, Moderation
<1> QED
  BY <1>1, <1>2, <1>3, <1>4, <1>5, <1>6, <1>7, <1>8, <1>9, <1>10, <1>11, <1>12, <1>13 DEF Kinds

LEMMA Lengths ==
  ASSUME NEW k \in Kinds
  PROVE  Len(Program[k]) \in Nat \ {0} /\ DOMAIN Program[k] = 1..Len(Program[k])
<1>1. CASE k = "register"
  BY <1>1, CallsRegister
<1>2. CASE k = "login"
  BY <1>2, CallsLogin
<1>3. CASE k = "logout"
  BY <1>3, CallsLogout
<1>4. CASE k = "visit"
  BY <1>4, CallsVisit
<1>5. CASE k = "browse"
  BY <1>5, CallsBrowse
<1>6. CASE k = "verify"
  BY <1>6, CallsVerify
<1>7. CASE k = "resend"
  BY <1>7, CallsResend
<1>8. CASE k = "forgot"
  BY <1>8, CallsForgot
<1>9. CASE k = "reset"
  BY <1>9, CallsReset
<1>10. CASE k = "changePass"
  BY <1>10, CallsChangePass
<1>11. CASE k = "changeEmail"
  BY <1>11, CallsChangeEmail
<1>12. CASE k = "confirmEmail"
  BY <1>12, CallsConfirmEmail
<1>13. CASE k \in Moderation
  BY <1>13, CallsModeration DEF Moderation
<1> QED
  BY <1>1, <1>2, <1>3, <1>4, <1>5, <1>6, <1>7, <1>8, <1>9, <1>10, <1>11, <1>12, <1>13 DEF Kinds

-----------------------------------------------------------------------------
(* The shape of a handler's step                                           *)

\* h does something, and the others nothing.
Acts(h) ==
  /\ pc' \in [Handlers -> Nat] /\ op' \in [Handlers -> OpRows]
  /\ \A g \in Handlers \ {h} : pc'[g] = pc[g] /\ op'[g] = op[g]

Ended(h)  == pc'[h] = 0 /\ mu' = IF mu = h THEN "free" ELSE mu
Onward(h) == pc'[h] = pc[h] + 1 /\ op'[h].kind = op[h].kind /\ Working(h)'
Turned(h) ==
  /\ op[h].kind \notin {"register", "confirmEmail"} /\ pc'[h] = 1 /\ op'[h].kind \in {"visit", "logout"}
  /\ mu' = mu

LEMMA Bounds ==
  /\ {TokenTTL, SessionTTL, RequestCooldown, ChangeCooldown, BanTime} \subseteq Nat
  /\ IsFiniteSet(Handlers) /\ "free" \notin Handlers
BY AccountBounds

LEMMA ScenarioFacts ==
  ASSUME Types
  PROVE  /\ Scenario.rows \in Seq(RowsOf(Scenario)) /\ Len(Scenario.rows) \in Nat
         /\ MaxRequests \in Nat /\ MaxClock \in Nat
         /\ MaxAccounts = Len(Scenario.rows) + MaxRequests /\ MaxAccounts \in Nat
         /\ Scenario.passwords \subseteq Passwords
<1>1. scenario \in DOMAIN Scenarios
  BY DEF Types
<1>2. /\ Scenario.rows \in Seq(RowsOf(Scenario))
      /\ Scenario.maxRequests \in Nat /\ Scenario.maxClock \in Nat
  BY <1>1, AccountBounds DEF Scenario
<1>3. Len(Scenario.rows) \in Nat
  BY <1>2, LenProperties
<1>4. Scenario.passwords \subseteq Passwords
  BY <1>1 DEF Scenario, Passwords
<1> QED
  BY <1>2, <1>3, <1>4 DEF MaxAccounts, MaxRequests, MaxClock

LEMMA LoginRows ==
  ASSUME Types
  PROVE  /\ Len(login) \in Nat /\ DOMAIN login = 1..Len(login)
         /\ login \in [1..Len(login) -> RowsOf(Scenario)]
         /\ \A a \in DOMAIN login : login[a] \in RowsOf(Scenario)
<1>1. login \in Seq(RowsOf(Scenario))
  BY DEF Types
<1> QED
  BY <1>1, LenProperties

LEMMA OpFields ==
  ASSUME NEW o \in OpRows
  PROVE  /\ o.kind \in Kinds \cup {"none"} /\ o.acct \in Nat /\ o.name \in Names \cup {""}
         /\ o.email \in Emails \cup {""} /\ o.pass \in Passwords \cup {""}
         /\ o.tok.id \in Nat /\ o.sess \in Nat /\ o.now \in Nat /\ o.old \subseteq Nat
BY DEF OpRows, AnyToken

LEMMA NoOpTyped == NoOp \in OpRows
BY DEF NoOp, NoToken, OpRows

\* A handler that is at a call
LEMMA AtFacts ==
  ASSUME AccountInv, NEW h \in Handlers, NEW c, At(h, c)
  PROVE  /\ pc[h] \in Nat \ {0} /\ op[h] \in OpRows /\ op[h].kind \in Kinds
         /\ pc[h] \in DOMAIN Program[op[h].kind] /\ pc[h] \in 1..Len(Calls(h))
         /\ Program[op[h].kind][pc[h]] = c
         /\ Len(Calls(h)) \in Nat /\ Knows(h)
<1>1. pc[h] # 0 /\ Calls(h)[pc[h]] = c
  BY DEF At
<1>2. Working(h) /\ Knows(h) /\ pc[h] \in Nat /\ op[h] \in OpRows
  BY <1>1 DEF AccountInv, Handling, Types
<1>3. op[h].kind \in Kinds /\ pc[h] \in DOMAIN Program[op[h].kind]
  BY <1>2 DEF Working
<1>4. /\ Len(Program[op[h].kind]) \in Nat \ {0}
      /\ DOMAIN Program[op[h].kind] = 1..Len(Program[op[h].kind])
  BY <1>3, Lengths
<1> QED
  BY <1>1, <1>2, <1>3, <1>4 DEF Calls

LEMMA StopEnds ==
  ASSUME AccountInv, NEW h \in Handlers, Stop(h)
  PROVE  Acts(h) /\ Ended(h)
<1>1. pc \in [Handlers -> Nat] /\ op \in [Handlers -> OpRows]
  BY DEF AccountInv, Types
<1> QED
  BY <1>1, NoOpTyped DEF Stop, Unlock, Acts, Ended

LEMMA GoGoes ==
  ASSUME AccountInv, NEW h \in Handlers, NEW c, At(h, c),
         NEW o \in OpRows, o.kind = op[h].kind, Go(h, o)
  PROVE  Acts(h) /\ (Ended(h) \/ (Onward(h) /\ mu' = mu /\ op'[h] = o))
<1>1. pc \in [Handlers -> Nat] /\ op \in [Handlers -> OpRows]
  BY DEF AccountInv, Types
<1>2. CASE pc[h] = Len(Calls(h))
  <2>1. Stop(h)
    BY <1>2 DEF Go
  <2> QED
    BY <2>1, StopEnds
<1>3. CASE pc[h] # Len(Calls(h))
  <2>1. pc' = [pc EXCEPT ![h] = @ + 1] /\ op' = [op EXCEPT ![h] = o] /\ mu' = mu
    BY <1>3 DEF Go
  <2>2. pc' \in [Handlers -> Nat] /\ op' \in [Handlers -> OpRows]
    BY <1>1, <2>1
  <2>3. pc'[h] = pc[h] + 1 /\ op'[h] = o
    BY <1>1, <2>1
  <2>4. Acts(h)
    BY <1>1, <2>1, <2>2 DEF Acts
  <2>5. o.kind \in Kinds /\ pc[h] + 1 \in DOMAIN Program[o.kind]
    BY <1>3, AtFacts, Lengths DEF Calls
  <2>6. Working(h)'
    BY <2>3, <2>5 DEF Working
  <2> QED
    BY <2>1, <2>3, <2>4, <2>6 DEF Onward
<1> QED
  BY <1>2, <1>3

LEMMA BecomeTurns ==
  ASSUME AccountInv, NEW h \in Handlers, NEW kind \in {"visit", "logout"},
         op[h].kind \notin {"register", "confirmEmail"}, Become(h, kind)
  PROVE  Acts(h) /\ Turned(h)
<1>1. pc \in [Handlers -> Nat] /\ op \in [Handlers -> OpRows] /\ op[h] \in OpRows
  BY DEF AccountInv, Types
<1>2. [op[h] EXCEPT !.kind = kind] \in OpRows
  BY <1>1 DEF OpRows, Kinds
<1>3. [op[h] EXCEPT !.kind = kind].kind = kind
  BY <1>1 DEF OpRows
<1> DEFINE o == [op[h] EXCEPT !.kind = kind]
<1>4. op' = [op EXCEPT ![h] = o] /\ pc' = [pc EXCEPT ![h] = 1] /\ mu' = mu
  BY DEF Become
<1>5. o \in OpRows /\ o.kind = kind
  BY <1>2, <1>3
<1> HIDE DEF o
<1>6. op' \in [Handlers -> OpRows] /\ op'[h] = o /\ \A g \in Handlers \ {h} : op'[g] = op[g]
  BY <1>1, <1>4, <1>5
<1>7. pc' \in [Handlers -> Nat] /\ pc'[h] = 1 /\ \A g \in Handlers \ {h} : pc'[g] = pc[g]
  BY <1>1, <1>4
<1> QED
  BY <1>4, <1>5, <1>6, <1>7 DEF Acts, Turned

-----------------------------------------------------------------------------
(* What no step takes back, and the knowledge that outlives it             *)

Advances ==
  /\ scenario' = scenario
  /\ DOMAIN login \subseteq DOMAIN login'
  /\ \A a \in DOMAIN login : Unverified(a)' => Unverified(a) /\ login'[a].email = login[a].email
  /\ issued \in Nat /\ issued' \in Nat /\ issued' >= issued
  /\ opened \in Nat /\ opened' \in Nat /\ opened' >= opened
  /\ proven \subseteq proven'
  /\ \A t \in tokens' : ~t.consumed => t \in tokens \/ t.id > issued
  /\ \A s \in sessions' : s.id > opened \/ \E r \in sessions : r.id = s.id /\ r.acct = s.acct

LEMMA MailedStays ==
  ASSUME Advances, NEW t, Mailed(t)
  PROVE  Mailed(t)'
BY DEF Advances, Mailed, TokenType, MaxAccounts, MaxRequests, Scenario, Unverified

\* What has been called before the next call: what had been, and this one.
LEMMA MadeCall ==
  ASSUME NEW k \in Kinds, NEW i \in DOMAIN Program[k], NEW m
  PROVE  Before(k, i + 1, m) <=> Before(k, i, m) \/ Program[k][i] = m
BY Lengths DEF Before

LEMMA Order ==
  ASSUME NEW k \in Kinds, NEW i \in Nat
  PROVE  /\ Before(k, i, "role") => Before(k, i, "validate")
         /\ Before(k, i, "readUnverified") => Before(k, i, "validate")
         /\ Before(k, i, "deleteUnconsumed") => \E c \in {"create", "validate", "findEmail"} : Before(k, i, c)
         /\ Before(k, i, "setPassword") => \E c \in {"validate", "markConsumed"} : Before(k, i, c)
BY Befores

LEMMA PastOrder ==
  ASSUME NEW h \in Handlers, Working(h), pc[h] \in Nat
  PROVE  /\ Past(h, "role") => Past(h, "validate")
         /\ Past(h, "readUnverified") => Past(h, "validate")
         /\ Past(h, "deleteUnconsumed") => Past(h, "create") \/ Past(h, "validate") \/ Past(h, "findEmail")
         /\ Past(h, "setPassword") => Past(h, "validate") \/ Past(h, "markConsumed")
BY Order DEF Working, Past

\* A handler that has got to know no more keeps what it relies on.
LEMMA KnowsStays ==
  ASSUME AccountInv, Advances, NEW h \in Handlers, Working(h), Knows(h),
         pc[h] \in Nat, op[h] \in OpRows,
         op'[h] = op[h], pc'[h] = pc[h]
  PROVE  Knows(h)'
<1>1. \A c : Past(h, c)' <=> Past(h, c)
  BY DEF Past
<1>2. KnowsAccount(h)'
  BY <1>1 DEF Knows, KnowsAccount, Advances
<1>3. KnowsPlayer(h)'
  BY <1>1 DEF Knows, KnowsPlayer, Advances, Scenario
<1>4. KnowsAddress(h)'
  BY <1>1 DEF Knows, KnowsAddress
<1>5. KnowsMailbox(h)'
  BY <1>1, PastOrder DEF Knows, KnowsMailbox, KnowsAccount, Advances
<1>6. KnowsRole(h)'
  BY <1>1, PastOrder DEF Knows, KnowsRole, KnowsAccount, Advances
<1>7. KnowsToken(h)'
  BY <1>1, MailedStays DEF Knows, KnowsToken
<1>8. KnowsProof(h)'
  BY <1>1 DEF Knows, KnowsProof, KnowsAccount, Advances
<1>9. KnowsTokens(h)'
  BY <1>1 DEF Knows, KnowsTokens, Advances
<1>10. KnowsSessions(h)'
  BY <1>1 DEF Knows, KnowsSessions, Advances
<1> QED
  BY <1>2, <1>3, <1>4, <1>5, <1>6, <1>7, <1>8, <1>9, <1>10 DEF Knows

\* Calls after which a handler knows more
Telling ==
  {"create", "credentials", "validate", "findEmail", "markConsumed", "readUnverified", "role", "lookup",
   "deleteUnconsumed", "setPassword"}

LEMMA OnwardPast ==
  ASSUME AccountInv, NEW h \in Handlers, NEW c, At(h, c), Onward(h)
  PROVE  \A m : Past(h, m)' <=> Past(h, m) \/ c = m
<1>1. op[h].kind \in Kinds /\ pc[h] \in DOMAIN Program[op[h].kind] /\ Program[op[h].kind][pc[h]] = c
  BY AtFacts
<1>2. op'[h].kind = op[h].kind /\ pc'[h] = pc[h] + 1
  BY DEF Onward
<1>3. \A m : Before(op[h].kind, pc[h] + 1, m) <=> Before(op[h].kind, pc[h], m) \/ c = m
  BY <1>1, MadeCall
<1> QED
  BY <1>2, <1>3 DEF Past

\* What the fields of op hold for the calls to come
SameBusiness(h, c) ==
  /\ op'[h].acct = op[h].acct /\ op'[h].email = op[h].email /\ op'[h].tok = op[h].tok
  /\ op'[h].sess = op[h].sess
  /\ c # "insertToken" => op'[h].old = op[h].old
  /\ op[h].kind = "register" => op'[h].name = op[h].name /\ op'[h].pass = op[h].pass

LEMMA OnwardKnows ==
  ASSUME AccountInv, Advances, NEW h \in Handlers, NEW c, At(h, c), c \notin Telling, Onward(h),
         SameBusiness(h, c)
  PROVE  Knows(h)'
<1>1. Working(h) /\ Knows(h) /\ pc[h] \in Nat /\ op[h] \in OpRows
  BY AtFacts DEF Working
<1>2. op'[h].kind = op[h].kind
  BY DEF Onward
<1>3. /\ \A m \in Telling : Past(h, m)' <=> Past(h, m)
      /\ \A m : Past(h, m) => Past(h, m)'
      /\ c = "insertToken" => Past(h, "insertToken")'
  BY OnwardPast
<1>4. KnowsAccount(h)'
  BY <1>1, <1>2, <1>3 DEF Telling, SameBusiness, Knows, KnowsAccount, Advances
<1>5. KnowsPlayer(h)'
  BY <1>1, <1>2, <1>3 DEF Telling, SameBusiness, Knows, KnowsPlayer, Advances, Scenario
<1>6. KnowsAddress(h)'
  BY <1>1, <1>2, <1>3 DEF Telling, SameBusiness, Knows, KnowsAddress
<1>7. KnowsMailbox(h)'
  BY <1>1, <1>2, <1>3, PastOrder DEF Telling, SameBusiness, Knows, KnowsMailbox, KnowsAccount, Advances
<1>8. KnowsRole(h)'
  BY <1>1, <1>2, <1>3, PastOrder DEF Telling, SameBusiness, Knows, KnowsRole, KnowsAccount, Advances
<1>9. KnowsToken(h)'
  BY <1>1, <1>2, <1>3, MailedStays DEF Telling, SameBusiness, Knows, KnowsToken
<1>10. KnowsProof(h)'
  BY <1>1, <1>2, <1>3 DEF Telling, SameBusiness, Knows, KnowsProof, KnowsAccount, Advances
<1>11. KnowsTokens(h)'
  <2> SUFFICES ASSUME Past(h, "deleteUnconsumed")', ~Past(h, "insertToken")'
               PROVE  op'[h].old \subseteq 1..issued' /\ \A t \in tokens' : t.id \in op'[h].old => t.consumed
    BY DEF KnowsTokens
  <2>1. op'[h].old = op[h].old
    BY <1>3 DEF SameBusiness
  <2>2. KnowsTokens(h) /\ Past(h, "deleteUnconsumed") /\ ~Past(h, "insertToken")
    BY <1>1, <1>3 DEF Telling, Knows
  <2>3. op[h].old \subseteq 1..issued /\ \A t \in tokens : t.id \in op[h].old => t.consumed
    BY <2>2 DEF KnowsTokens
  <2>4. op[h].old \subseteq 1..issued'
    BY <2>3 DEF Advances
  <2>5. \A t \in tokens' : t.id \in op[h].old => t.consumed
    BY <2>3 DEF Advances
  <2> QED
    BY <2>1, <2>4, <2>5
<1>12. KnowsSessions(h)'
  <2> SUFFICES ASSUME Past(h, "setPassword")', ~Past(h, "invalidate")'
               PROVE  /\ op'[h].old \subseteq 1..opened' /\ op'[h].sess \notin op'[h].old
                      /\ \A s \in sessions' : s.id \in op'[h].old => s.acct = op'[h].acct
    BY DEF KnowsSessions
  <2>1. KnowsSessions(h) /\ Past(h, "setPassword") /\ ~Past(h, "invalidate")
    BY <1>1, <1>3 DEF Telling, Knows
  <2>2. c # "insertToken"
    BY <2>1, PastOrder, <1>1, AtFacts, Befores, Places DEF Past
  <2>3. op'[h].old = op[h].old /\ op'[h].sess = op[h].sess /\ op'[h].acct = op[h].acct
    BY <2>2 DEF SameBusiness
  <2>4. /\ op[h].old \subseteq 1..opened /\ op[h].sess \notin op[h].old
        /\ \A s \in sessions : s.id \in op[h].old => s.acct = op[h].acct
    BY <2>1 DEF KnowsSessions
  <2>5. op[h].old \subseteq 1..opened' /\ \A s \in sessions' : s.id \in op[h].old => s.acct = op[h].acct
    BY <2>4 DEF Advances
  <2> QED
    BY <2>3, <2>4, <2>5
<1> QED
  BY <1>4, <1>5, <1>6, <1>7, <1>8, <1>9, <1>10, <1>11, <1>12 DEF Knows

\* A handler at its first call has been told nothing but what was requested.
LEMMA FirstCall ==
  ASSUME NEW k \in Kinds, NEW m
  PROVE  1 \in DOMAIN Program[k] /\ ~Before(k, 1, m)
BY Lengths DEF Before

LEMMA TurnedKnows ==
  ASSUME NEW h \in Handlers, Turned(h)
  PROVE  Working(h)' /\ Knows(h)'
<1>1. op'[h].kind \in {"visit", "logout"} /\ pc'[h] = 1
  BY DEF Turned
<1>2. op'[h].kind \in Kinds
  BY <1>1 DEF Kinds
<1>3. Working(h)' /\ \A m : ~Past(h, m)'
  BY <1>1, <1>2, FirstCall DEF Working, Past
<1> QED
  BY <1>1, <1>3 DEF Moderation, Knows, KnowsAccount, KnowsPlayer, KnowsAddress, KnowsMailbox, KnowsRole,
     KnowsToken, KnowsProof, KnowsTokens, KnowsSessions

LEMMA HandlingStep ==
  ASSUME AccountInv, Advances, NEW h \in Handlers, Acts(h),
         Ended(h) \/ Turned(h) \/ (Onward(h) /\ Knows(h)')
  PROVE  Handling'
<1> SUFFICES ASSUME NEW g \in Handlers, pc'[g] # 0
             PROVE  Working(g)' /\ Knows(g)'
  BY DEF Handling
<1>1. CASE g = h
  BY <1>1, TurnedKnows DEF Ended, Onward
<1>2. CASE g # h
  <2>1. pc'[g] = pc[g] /\ op'[g] = op[g]
    BY <1>2 DEF Acts
  <2>2. Working(g) /\ Knows(g) /\ pc[g] \in Nat /\ op[g] \in OpRows
    BY <2>1 DEF AccountInv, Handling, Types
  <2> QED
    BY <2>1, <2>2, KnowsStays DEF Working
<1> QED
  BY <1>1, <1>2

LEMMA HandlingStays ==
  ASSUME AccountInv, Advances, UNCHANGED <<pc, op>>
  PROVE  Handling'
<1> SUFFICES ASSUME NEW g \in Handlers, pc'[g] # 0
             PROVE  Working(g)' /\ Knows(g)'
  BY DEF Handling
<1>1. Working(g) /\ Knows(g) /\ pc[g] \in Nat /\ op[g] \in OpRows
  BY DEF AccountInv, Handling, Types
<1> QED
  BY <1>1, KnowsStays DEF Working

-----------------------------------------------------------------------------
(* The parts of the invariant that a step leaves alone                     *)

LEMMA IdentitiesStay ==
  ASSUME Identities, login' = login, moderated' = moderated, proven \subseteq proven'
  PROVE  Identities'
BY DEF Identities, UniqueIdentity, EmailProven, KnownAddresses, Unverified

LEMMA TokenRowsStay ==
  ASSUME Types, TokenRows, Advances, UNCHANGED <<tokens, used, dead>>
  PROVE  TokenRows'
<1>1. MaxRequests' = MaxRequests /\ issued \in Nat /\ issued' \in Nat /\ issued' >= issued
  BY DEF Advances, MaxRequests, Scenario
<1>2. used' \in [1..MaxRequests' -> 0..1] /\ dead' \subseteq 1..issued'
  BY <1>1 DEF TokenRows
<1>3. \A i \in 1..MaxRequests' : i > issued' => used'[i] = 0
  <2> SUFFICES ASSUME NEW i \in 1..MaxRequests, i > issued'
               PROVE  used[i] = 0
    BY <1>1
  <2> QED
    BY <1>1 DEF TokenRows
<1>4. \A t \in tokens' : Mailed(t)' /\ t.id <= issued' /\ Usable(t)'
  <2> SUFFICES ASSUME NEW t \in tokens
               PROVE  Mailed(t)' /\ t.id <= issued' /\ Usable(t)'
    OBVIOUS
  <2>1. Mailed(t) /\ t.id <= issued /\ Usable(t)
    BY DEF TokenRows
  <2>2. t.id \in 1..MaxRequests /\ MaxRequests \in Nat
    BY <2>1, ScenarioFacts DEF Mailed, TokenType
  <2> QED
    BY <1>1, <2>1, <2>2, MailedStays DEF Usable
<1> QED
  BY <1>2, <1>3, <1>4 DEF TokenRows

LEMMA SessionRowsStay ==
  ASSUME SessionRows, Advances, sessions' \subseteq sessions, revoked' = revoked
  PROVE  SessionRows'
BY DEF SessionRows, Advances, RevokedStayOut

\* A step that goes no further than the handlers
LEMMA QuietAdvances ==
  ASSUME Types, scenario' = scenario, login' = login, issued' = issued, opened' = opened,
         proven' = proven, tokens' = tokens, sessions' \subseteq sessions
  PROVE  Advances
BY DEF Types, Advances, Unverified

-----------------------------------------------------------------------------
(* emailUniqueMu                                                           *)

\* What the check of Service.Create reads
SameNames ==
  /\ DOMAIN login' = DOMAIN login
  /\ \A a \in DOMAIN login : login'[a].name = login[a].name /\ login'[a].email = login[a].email

LEMMA WritingLocked ==
  ASSUME AccountInv, NEW h \in Handlers, Writing(h)
  PROVE  Locked(h) /\ mu = h
<1>1. \E c \in {"create", "setEmail"} : At(h, c)
  BY DEF Writing
<1>2. /\ pc[h] \in Nat \ {0} /\ op[h].kind \in Kinds /\ pc[h] \in DOMAIN Program[op[h].kind]
      /\ Program[op[h].kind][pc[h]] \in {"create", "setEmail"}
  BY <1>1, AtFacts
<1>3. Locked(h)
  BY <1>2, Places, Befores DEF Locked, Past
<1> QED
  BY <1>3 DEF AccountInv, Locks

\* Which handlers are between lock and unlock, after the others' steps
LEMMA OthersLocked ==
  ASSUME AccountInv, NEW h \in Handlers, Acts(h), NEW g \in Handlers \ {h}
  PROVE  /\ Locked(g)' <=> Locked(g)
         /\ Writing(g)' <=> Writing(g)
         /\ op'[g] = op[g]
BY DEF Acts, Locked, Past, Writing, At, Calls

LEMMA TakenStays ==
  ASSUME SameNames, NEW o, ~Taken(o)
  PROVE  ~Taken(o)'
BY DEF SameNames, Taken

\* A handler that comes to a write has just checked.
LEMMA OnwardWriting ==
  ASSUME AccountInv, NEW h \in Handlers, NEW c, At(h, c), Onward(h), Writing(h)'
  PROVE  c = "unique"
<1>1. op[h].kind \in Kinds /\ pc[h] \in DOMAIN Program[op[h].kind] /\ Program[op[h].kind][pc[h]] = c
  BY AtFacts
<1>2. op'[h].kind = op[h].kind /\ pc'[h] = pc[h] + 1 /\ pc[h] + 1 \in DOMAIN Program[op[h].kind]
  BY DEF Onward, Working
<1>3. Program[op[h].kind][pc[h] + 1] \in {"create", "setEmail"}
  BY <1>2 DEF Writing, At, Calls
<1>4. pc[h] \in Nat
  BY AtFacts
<1> QED
  BY <1>1, <1>2, <1>3, <1>4, Places

\* Every step of a handler but lock and unlock
LEMMA LocksStep ==
  ASSUME AccountInv, NEW h \in Handlers, NEW c, At(h, c), c \notin {"lock", "unlock"}, Acts(h),
         Ended(h) \/ Turned(h) \/ (Onward(h) /\ mu' = mu),
         SameNames \/ Writing(h),
         c = "unique" /\ Onward(h) => SameNames /\ ~Taken(op[h]) /\ op'[h] = op[h]
  PROVE  Locks'
<1>1. /\ mu \in Handlers \cup {"free"} /\ "free" \notin Handlers
      /\ \A g \in Handlers : mu = g <=> Locked(g)
      /\ \A g \in Handlers : Writing(g) => ~Taken(op[g])
  BY Bounds DEF AccountInv, Locks
<1>2. \A g \in Handlers \ {h} : Locked(g)' <=> Locked(g)
  BY OthersLocked
<1>3. /\ Ended(h) => ~Locked(h)' /\ ~Writing(h)'
      /\ Turned(h) => ~Locked(h)' /\ ~Writing(h)' /\ ~Locked(h)
      /\ Onward(h) => (Locked(h)' <=> Locked(h))
  <2>1. Ended(h) => ~Locked(h)' /\ ~Writing(h)'
    BY DEF Ended, Locked, Writing, At
  <2>2. ASSUME Turned(h)
        PROVE  ~Locked(h)' /\ ~Writing(h)' /\ ~Locked(h)
    <3>1. /\ op[h].kind \notin {"register", "confirmEmail"} /\ op[h].kind \in Kinds /\ pc[h] \in Nat
          /\ op'[h].kind \in {"visit", "logout"} /\ op'[h].kind \in Kinds /\ pc'[h] = 1
      BY <2>2, AtFacts DEF Turned, Kinds
    <3>2. ~Locked(h) /\ ~Locked(h)'
      BY <3>1, Befores DEF Locked, Past
    <3>3. ~Writing(h)'
      BY <3>1, FirstCall, Places DEF Writing, At, Calls
    <3> QED
      BY <3>2, <3>3
  <2>3. Onward(h) => (Locked(h)' <=> Locked(h))
    BY OnwardPast, AtFacts DEF Locked, Onward
  <2> QED
    BY <2>1, <2>2, <2>3
<1>4. mu' \in Handlers \cup {"free"} /\ \A g \in Handlers : mu' = g <=> Locked(g)'
  BY <1>1, <1>2, <1>3 DEF Ended, Turned, Onward
<1>5. ASSUME NEW g \in Handlers, Writing(g)'
      PROVE  ~Taken(op[g])'
  <2>1. CASE g = h
    BY <1>3, <1>5, <2>1, OnwardWriting, TakenStays DEF Taken, SameNames
  <2>2. CASE g # h
    <3>1. Writing(g) /\ op'[g] = op[g]
      BY <1>5, <2>2, OthersLocked
    <3>2. SameNames /\ ~Taken(op[g])
      BY <1>1, <2>2, <3>1, WritingLocked
    <3> QED
      BY <3>1, <3>2 DEF Taken, SameNames
  <2> QED
    BY <2>1, <2>2
<1> QED
  BY <1>4, <1>5 DEF Locks

-----------------------------------------------------------------------------
(* The handlers that are going to add a row or a token                     *)

LEMMA OwingFinite ==
  ASSUME NEW c
  PROVE  IsFiniteSet(Owing(c)) /\ Cardinality(Owing(c)) \in Nat
<1>1. Owing(c) \subseteq Handlers
  BY DEF Owing
<1>2. IsFiniteSet(Owing(c))
  BY <1>1, Bounds, FS_Subset
<1> QED
  BY <1>2, FS_CardinalityType

LEMMA OwingFinitePrimed ==
  ASSUME NEW c
  PROVE  IsFiniteSet(Owing(c)') /\ Cardinality(Owing(c)') \in Nat
<1>1. Owing(c)' \subseteq Handlers
  BY DEF Owing
<1>2. IsFiniteSet(Owing(c)')
  BY <1>1, Bounds, FS_Subset
<1> QED
  BY <1>2, FS_CardinalityType

LEMMA DueEarlier ==
  ASSUME NEW k \in Kinds, NEW i \in Nat, NEW c, Due(k, i + 1, c)
  PROVE  Due(k, i, c)
BY Lengths DEF Due

\* Nobody comes to owe a row or a token but by a request.
LEMMA OwesLess ==
  ASSUME AccountInv, NEW h \in Handlers, NEW m, At(h, m), Acts(h), Ended(h) \/ Turned(h) \/ Onward(h),
         NEW c \in {"create", "insertToken"}
  PROVE  /\ Owing(c)' \subseteq Owing(c)
         /\ m = c => h \in Owing(c) /\ h \notin Owing(c)'
<1>1. /\ op[h].kind \in Kinds /\ pc[h] \in Nat \ {0} /\ pc[h] \in DOMAIN Program[op[h].kind]
      /\ Program[op[h].kind][pc[h]] = m
  BY AtFacts
<1>2. /\ Ended(h) => ~Owes(h, c)'
      /\ Turned(h) => ~Owes(h, c)'
      /\ Onward(h) => (Owes(h, c)' => Owes(h, c))
      /\ Onward(h) /\ m = c => ~Owes(h, c)'
      /\ m = c => Owes(h, c)
  <2>1. Ended(h) => ~Owes(h, c)'
    BY DEF Ended, Owes
  <2>2. Turned(h) => ~Owes(h, c)'
    BY Dues DEF Turned, Owes, Kinds
  <2>3. Onward(h) => (Owes(h, c)' => Owes(h, c))
    BY <1>1, DueEarlier DEF Onward, Owes
  <2>4. Onward(h) /\ m = c => ~Owes(h, c)'
    BY <1>1, Dues, Places DEF Onward, Owes
  <2>5. m = c => Owes(h, c)
    BY <1>1 DEF Owes, Due
  <2> QED
    BY <2>1, <2>2, <2>3, <2>4, <2>5
<1>3. ASSUME NEW g \in Handlers \ {h}
      PROVE  Owes(g, c)' <=> Owes(g, c)
  BY DEF Acts, Owes
<1>4. \A g \in Handlers : Owes(g, c)' => Owes(g, c)
  BY <1>2, <1>3
<1>5. m = c => Owes(h, c) /\ ~Owes(h, c)'
  BY <1>2
<1> QED
  BY <1>4, <1>5 DEF Owing

LEMMA FewerOwe ==
  ASSUME NEW c, Owing(c)' \subseteq Owing(c)
  PROVE  /\ Cardinality(Owing(c)') <= Cardinality(Owing(c))
         /\ \A h \in Owing(c) : h \notin Owing(c)' => Cardinality(Owing(c)') + 1 <= Cardinality(Owing(c))
<1> DEFINE S == Owing(c)
           T == Owing(c)'
<1>1. IsFiniteSet(S) /\ T \subseteq S /\ Cardinality(S) \in Nat
  BY OwingFinite
<1>2. IsFiniteSet(T) /\ Cardinality(T) \in Nat
  BY OwingFinitePrimed
<1> HIDE DEF S, T
<1>3. Cardinality(T) <= Cardinality(S)
  BY <1>1, FS_Subset
<1>4. ASSUME NEW h \in S, h \notin T
      PROVE  Cardinality(T) + 1 <= Cardinality(S)
  <2>1. T # S
    BY <1>4
  <2>2. Cardinality(T) < Cardinality(S)
    BY <1>1, <1>2, <2>1, FS_Subset
  <2> QED
    BY <1>1, <1>2, <2>2
<1> QED
  BY <1>3, <1>4 DEF S, T

\* A step of a handler that adds neither, or the one that it owed
LEMMA CountsStep ==
  ASSUME AccountInv, NEW h \in Handlers, NEW m, At(h, m), Acts(h), Ended(h) \/ Turned(h) \/ Onward(h),
         scenario' = scenario, requests' = requests, Len(login') \in Nat, issued' \in Nat,
         Len(login') <= Len(login) \/ (m = "create" /\ Len(login') = Len(login) + 1),
         issued' <= issued \/ (m = "insertToken" /\ issued' = issued + 1)
  PROVE  Counts'
<1>1. /\ Len(login) \in Nat /\ issued \in Nat /\ requests \in Nat
      /\ Len(Scenario.rows) \in Nat
      /\ Len(login) + Cardinality(Owing("create")) <= Len(Scenario.rows) + requests
      /\ issued + Cardinality(Owing("insertToken")) <= requests
  BY LoginRows, ScenarioFacts DEF AccountInv, Counts, Types
<1>2. Scenario' = Scenario
  BY DEF Scenario
<1>3. /\ Cardinality(Owing("create")) \in Nat /\ Cardinality(Owing("create")') \in Nat
      /\ Cardinality(Owing("insertToken")) \in Nat /\ Cardinality(Owing("insertToken")') \in Nat
  BY OwingFinite, OwingFinitePrimed
<1>4. /\ Cardinality(Owing("create")') <= Cardinality(Owing("create"))
      /\ m = "create" => Cardinality(Owing("create")') + 1 <= Cardinality(Owing("create"))
  BY OwesLess, FewerOwe
<1>5. /\ Cardinality(Owing("insertToken")') <= Cardinality(Owing("insertToken"))
      /\ m = "insertToken" => Cardinality(Owing("insertToken")') + 1 <= Cardinality(Owing("insertToken"))
  BY OwesLess, FewerOwe
<1>6. Len(login') + Cardinality(Owing("create")') <= Len(login) + Cardinality(Owing("create"))
  BY <1>1, <1>3, <1>4
<1>7. issued' + Cardinality(Owing("insertToken")') <= issued + Cardinality(Owing("insertToken"))
  BY <1>1, <1>3, <1>5
<1>8. Len(login') + Cardinality(Owing("create")') <= Len(Scenario.rows) + requests
  BY <1>1, <1>3, <1>6
<1>9. issued' + Cardinality(Owing("insertToken")') <= requests
  BY <1>1, <1>3, <1>7
<1> QED
  BY <1>2, <1>8, <1>9 DEF Counts

-----------------------------------------------------------------------------
(* The calls that only read                                                *)

Outcome(h) == Acts(h) /\ (Ended(h) \/ Turned(h) \/ (Onward(h) /\ mu' = mu /\ Knows(h)'))

LEMMA TypesStep ==
  ASSUME AccountInv, NEW h \in Handlers, Acts(h), UNCHANGED <<scenario, clock, requests>>,
         login' \in Seq(RowsOf(Scenario)), issued' \in Nat, opened' \in Nat
  PROVE  Types'
<1>1. Scenario' = Scenario /\ MaxRequests' = MaxRequests
  BY DEF Scenario, MaxRequests
<1> QED
  BY <1>1 DEF AccountInv, Types, Acts

\* The step of a handler, and what is left to show for the tables it writes
LEMMA HandlerStep ==
  ASSUME AccountInv, Advances, NEW h \in Handlers, NEW c, At(h, c), c \notin {"lock", "unlock"}, Outcome(h),
         UNCHANGED <<scenario, clock, requests>>,
         login' \in Seq(RowsOf(Scenario)), Identities', TokenRows', SessionRows',
         SameNames \/ Writing(h),
         c = "unique" /\ Onward(h) => SameNames /\ ~Taken(op[h]) /\ op'[h] = op[h],
         Len(login') <= Len(login) \/ (c = "create" /\ Len(login') = Len(login) + 1),
         issued' <= issued \/ (c = "insertToken" /\ issued' = issued + 1)
  PROVE  AccountInv'
<1>1. issued' \in Nat /\ opened' \in Nat /\ Len(login') \in Nat
  BY LenProperties DEF Advances
<1>2. Types'
  BY <1>1, TypesStep DEF Outcome
<1>3. Acts(h) /\ (Ended(h) \/ Turned(h) \/ (Onward(h) /\ mu' = mu))
  BY DEF Outcome
<1>4. Handling'
  BY HandlingStep DEF Outcome
<1>5. Locks'
  BY <1>3, LocksStep
<1>6. Counts'
  BY <1>1, <1>3, CountsStep
<1> QED
  BY <1>2, <1>4, <1>5, <1>6 DEF AccountInv

LEMMA PlainStep ==
  ASSUME AccountInv, NEW h \in Handlers, NEW c, At(h, c), c \notin {"lock", "unlock"}, Outcome(h),
         UNCHANGED <<scenario, dbVars, countVars, historyVars>>,
         c = "unique" /\ Onward(h) => ~Taken(op[h]) /\ op'[h] = op[h]
  PROVE  AccountInv'
<1>1. UNCHANGED <<scenario, clock, requests, login, tokens, sessions, issued, opened, used, dead, revoked,
                  proven, moderated>>
  BY DEF dbVars, countVars, historyVars
<1>2. Types /\ Identities /\ TokenRows /\ SessionRows
  BY DEF AccountInv
<1>3. Advances
  BY <1>1, <1>2, QuietAdvances
<1>4. Identities' /\ TokenRows' /\ SessionRows'
  BY <1>1, <1>2, <1>3, IdentitiesStay, TokenRowsStay, SessionRowsStay
<1>5. login' \in Seq(RowsOf(Scenario)) /\ SameNames /\ Len(login') <= Len(login) /\ issued' <= issued
  BY <1>1, <1>2, LoginRows DEF Types, SameNames
<1> QED
  BY <1>1, <1>3, <1>4, <1>5, HandlerStep

\* A handler that goes on knowing what it knew
LEMMA QuietOutcome ==
  ASSUME AccountInv, Advances, NEW h \in Handlers, NEW c, At(h, c), c \notin Telling \cup {"insertToken"},
         Go(h, op[h]) \/ Stop(h)
  PROVE  Outcome(h) /\ (Onward(h) => op'[h] = op[h])
<1>1. op[h] \in OpRows
  BY AtFacts
<1>2. CASE Stop(h)
  BY <1>2, StopEnds DEF Outcome, Ended, Onward, AccountInv, Types
<1>3. CASE Go(h, op[h])
  <2>1. Acts(h) /\ (Ended(h) \/ (Onward(h) /\ mu' = mu /\ op'[h] = op[h]))
    BY <1>1, <1>3, GoGoes
  <2>2. CASE Ended(h)
    BY <2>1, <2>2 DEF Outcome, Ended, Onward, AccountInv, Types
  <2>3. CASE Onward(h) /\ mu' = mu /\ op'[h] = op[h]
    <3>1. SameBusiness(h, c)
      BY <2>3 DEF SameBusiness
    <3> QED
      BY <2>1, <2>3, <3>1, OnwardKnows DEF Outcome
  <2> QED
    BY <2>1, <2>2, <2>3
<1> QED
  BY <1>2, <1>3

LEMMA QuietStep ==
  ASSUME AccountInv, NEW h \in Handlers, NEW c, At(h, c),
         c \notin Telling \cup {"insertToken", "lock", "unlock"},
         Go(h, op[h]) \/ Stop(h), c = "unique" => Stop(h) \/ ~Taken(op[h]),
         UNCHANGED <<scenario, dbVars, countVars, historyVars>>
  PROVE  AccountInv'
<1>1. Advances
  BY QuietAdvances DEF AccountInv, dbVars, countVars, historyVars
<1>2. Outcome(h) /\ (Onward(h) => op'[h] = op[h])
  BY <1>1, QuietOutcome
<1>3. Stop(h) => ~Onward(h)
  BY StopEnds DEF Ended, Onward, AccountInv, Types
<1> QED
  BY <1>2, <1>3, PlainStep

LEMMA QuietChecks ==
  ASSUME AccountInv, NEW h \in Handlers, scenario' = scenario,
         \/ Unique(h) \/ Cooldown(h) \/ EmailFree(h) \/ ChangeCooled(h) \/ AssertUnrestricted(h) \/ Target(h)
  PROVE  AccountInv'
<1>1. CASE Unique(h)
  <2>1. /\ At(h, "unique") /\ (Go(h, op[h]) \/ Stop(h)) /\ (Stop(h) \/ ~Taken(op[h]))
        /\ UNCHANGED <<dbVars, countVars, historyVars>>
    BY <1>1 DEF Unique, Check
  <2> QED
    BY <2>1, QuietStep DEF Telling
<1>2. ASSUME NEW c \in {"cooldown", "emailFree", "changeCooldown", "assertUnrestricted", "target"},
             At(h, c), Go(h, op[h]) \/ Stop(h), UNCHANGED <<dbVars, countVars, historyVars>>
      PROVE  AccountInv'
  BY <1>2, QuietStep DEF Telling
<1>3. CASE Cooldown(h)
  BY <1>2, <1>3 DEF Cooldown, Check
<1>4. CASE EmailFree(h)
  BY <1>2, <1>4 DEF EmailFree, Check
<1>5. CASE ChangeCooled(h)
  BY <1>2, <1>5 DEF ChangeCooled, Check
<1>6. CASE AssertUnrestricted(h)
  BY <1>2, <1>6 DEF AssertUnrestricted, Check
<1>7. CASE Target(h)
  BY <1>2, <1>7 DEF Target, Check
<1> QED
  BY <1>1, <1>3, <1>4, <1>5, <1>6, <1>7

LEMMA OntoNext ==
  ASSUME AccountInv, NEW h \in Handlers, NEW c, At(h, c), Onward(h)
  PROVE  /\ op'[h].kind = op[h].kind /\ op'[h].kind \in Kinds /\ pc'[h] = pc[h] + 1 /\ pc'[h] \in Nat
         /\ pc[h] \in Nat /\ op[h] \in OpRows /\ Knows(h) /\ pc[h] \in DOMAIN Program[op[h].kind]
         /\ Program[op[h].kind][pc[h]] = c
BY AtFacts DEF Onward

LEMMA ValidateKnows ==
  ASSUME AccountInv, NEW h \in Handlers, At(h, "validate"), Onward(h), login' = login,
         op'[h].acct \in DOMAIN login, op'[h].email = op[h].email
  PROVE  Knows(h)'
<1>1. \/ op'[h].kind \in {"visit", "browse", "resend", "changePass", "changeEmail"} /\ pc'[h] = 2
      \/ op'[h].kind = "verify" /\ pc'[h] = 5
  BY OntoNext, Places
<1>2. op'[h].kind \in Kinds /\ pc'[h] \in Nat
  BY OntoNext
<1>3. /\ Past(h, "validate")' /\ ~Past(h, "create")' /\ ~Past(h, "readUnverified")' /\ ~Past(h, "findEmail")'
      /\ ~Past(h, "role")' /\ ~Past(h, "deleteUnconsumed")' /\ ~Past(h, "setPassword")'
      /\ Past(h, "lookup")' => Past(h, "markConsumed")'
  BY <1>1, <1>2, Befores DEF Past
<1>4. op'[h].kind = "changeEmail" => op'[h].email \in Emails
  BY OntoNext DEF Knows, KnowsAddress
<1>5. KnowsAddress(h)' /\ KnowsPlayer(h)'
  BY <1>1, <1>3, <1>4 DEF KnowsAddress, KnowsPlayer
<1>6. KnowsAccount(h)' /\ KnowsMailbox(h)' /\ KnowsRole(h)' /\ KnowsToken(h)'
  BY <1>3 DEF KnowsAccount, KnowsMailbox, KnowsRole, KnowsToken
<1>7. KnowsProof(h)' /\ KnowsTokens(h)' /\ KnowsSessions(h)'
  BY <1>1, <1>3 DEF KnowsProof, KnowsTokens, KnowsSessions
<1> QED
  BY <1>5, <1>6, <1>7 DEF Knows

\* A handler with another account or clock
LEMMA GoOrLeave ==
  ASSUME AccountInv, NEW h \in Handlers, NEW c, At(h, c), op[h].kind \notin {"register", "confirmEmail"},
         NEW kind \in {"visit", "logout"},
         \/ Stop(h) \/ Become(h, kind)
         \/ \E o \in OpRows : Go(h, o) /\ o.kind = op[h].kind /\ (Onward(h) /\ op'[h] = o => Knows(h)')
  PROVE  Outcome(h)
<1>1. CASE Stop(h)
  BY <1>1, StopEnds DEF Outcome
<1>2. CASE Become(h, kind)
  BY <1>2, BecomeTurns DEF Outcome
<1>3. ASSUME NEW o \in OpRows, Go(h, o), o.kind = op[h].kind, Onward(h) /\ op'[h] = o => Knows(h)'
      PROVE  Outcome(h)
  BY <1>3, GoGoes DEF Outcome
<1> QED
  BY <1>1, <1>2, <1>3

LEMMA ValidateStep ==
  ASSUME AccountInv, NEW h \in Handlers, scenario' = scenario, Validate(h)
  PROVE  AccountInv'
<1>1. At(h, "validate") /\ UNCHANGED <<dbVars, countVars, historyVars>> /\ op[h] \in OpRows /\ clock \in Nat
  BY AtFacts DEF Validate, AccountInv, Types
<1>2. op[h].kind \notin {"register", "confirmEmail"}
  BY <1>1, AtFacts, Places
<1>3. \/ Stop(h) \/ Become(h, "logout")
      \/ \E s \in sessions : Go(h, [op[h] EXCEPT !.now = clock, !.acct = s.acct])
  BY DEF Validate, Leave, Sess
<1>4. ASSUME NEW s \in sessions, Go(h, [op[h] EXCEPT !.now = clock, !.acct = s.acct])
      PROVE  \E o \in OpRows : Go(h, o) /\ o.kind = op[h].kind /\ (Onward(h) /\ op'[h] = o => Knows(h)')
  <2> DEFINE o == [op[h] EXCEPT !.now = clock, !.acct = s.acct]
  <2>1. s.acct \in DOMAIN login /\ s.acct \in Nat
    BY LoginRows DEF AccountInv, SessionRows
  <2>2. o \in OpRows /\ o.kind = op[h].kind /\ o.acct = s.acct /\ o.email = op[h].email
    BY <1>1, <2>1 DEF OpRows
  <2>3. Go(h, o)
    BY <1>4
  <2> HIDE DEF o
  <2>4. ASSUME Onward(h), op'[h] = o
        PROVE  Knows(h)'
    BY <1>1, <2>1, <2>2, <2>4, ValidateKnows DEF dbVars
  <2> QED
    BY <2>2, <2>3, <2>4
<1>5. Outcome(h)
  BY <1>1, <1>2, <1>3, <1>4, GoOrLeave
<1> QED
  BY <1>1, <1>5, PlainStep

LEMMA TierUnverified ==
  ASSUME NEW row
  PROVE  Tier(row) = "unverified" <=> row.state = StateUnverified
<1>1. /\ row.state = StateUnverified => row.state # StatePermaBanned /\ row.state # StateActive
  BY DEF StateUnverified, StatePermaBanned, StateActive
<1>2. CASE row.state = StateUnverified
  BY <1>1, <1>2, Zenon DEF Tier
<1>3. CASE row.state # StateUnverified
  <2>1. CASE row.state = StatePermaBanned
    BY <1>3, <2>1, Zenon DEF Tier
  <2> QED
    BY <1>3, Zenon DEF Tier
<1> QED
  BY <1>2, <1>3

LEMMA RequireRoleStep ==
  ASSUME AccountInv, NEW h \in Handlers, scenario' = scenario, RequireRole(h)
  PROVE  AccountInv'
<1>1. At(h, "role") /\ UNCHANGED <<dbVars, countVars, historyVars>> /\ op[h] \in OpRows
  BY AtFacts DEF RequireRole
<1>2. op[h].kind \in {"browse", "changePass", "changeEmail"} /\ pc[h] = 3
  BY <1>1, AtFacts, Places
<1>3. \/ Stop(h) \/ Become(h, "logout")
      \/ Go(h, op[h]) /\ Admitted(Tier(Row(h)), op[h].kind)
  BY DEF RequireRole, Leave
<1>4. ASSUME Go(h, op[h]), Admitted(Tier(Row(h)), op[h].kind), Onward(h), op'[h] = op[h]
      PROVE  Knows(h)'
  <2>1. ~Unverified(op[h].acct)
    BY <1>4, TierUnverified DEF Admitted, Row, Unverified
  <2>2. Past(h, "validate") /\ Knows(h)
    BY <1>1, <1>2, AtFacts, Befores DEF Past
  <2>3. op[h].acct \in DOMAIN login /\ (op[h].kind = "changeEmail" => op[h].email \in Emails)
    BY <2>2 DEF Knows, KnowsAccount, KnowsAddress
  <2>4. op'[h].kind \in {"browse", "changePass", "changeEmail"} /\ pc'[h] = 4
        /\ op'[h].kind \in Kinds /\ pc'[h] \in Nat
    BY <1>1, <1>2, <1>4, OntoNext
  <2>5. /\ ~Past(h, "create")' /\ ~Past(h, "readUnverified")' /\ ~Past(h, "findEmail")' /\ ~Past(h, "lookup")'
        /\ ~Past(h, "markConsumed")' /\ ~Past(h, "deleteUnconsumed")' /\ ~Past(h, "setPassword")'
    BY <2>4, Befores DEF Past
  <2>6. login' = login
    BY <1>1 DEF dbVars
  <2>7. KnowsAccount(h)' /\ KnowsRole(h)'
    BY <1>4, <2>1, <2>3, <2>6 DEF KnowsAccount, KnowsRole, Unverified
  <2>8. KnowsPlayer(h)' /\ KnowsAddress(h)' /\ KnowsMailbox(h)' /\ KnowsToken(h)'
    BY <1>4, <2>3, <2>4, <2>5 DEF KnowsPlayer, KnowsAddress, KnowsMailbox, KnowsToken
  <2>9. KnowsProof(h)' /\ KnowsTokens(h)' /\ KnowsSessions(h)'
    BY <2>5 DEF KnowsProof, KnowsTokens, KnowsSessions
  <2> QED
    BY <2>7, <2>8, <2>9 DEF Knows
<1>5. Outcome(h)
  BY <1>1, <1>2, <1>3, <1>4, GoOrLeave
<1> QED
  BY <1>1, <1>5, PlainStep

\* A call that goes on or stops, and looks at the rows only
LEMMA GoOrStop ==
  ASSUME AccountInv, NEW h \in Handlers, NEW c, At(h, c),
         \/ Stop(h)
         \/ \E o \in OpRows : Go(h, o) /\ o.kind = op[h].kind /\ (Onward(h) /\ op'[h] = o => Knows(h)')
  PROVE  Outcome(h)
<1>1. CASE Stop(h)
  BY <1>1, StopEnds DEF Outcome
<1>2. ASSUME NEW o \in OpRows, Go(h, o), o.kind = op[h].kind, Onward(h) /\ op'[h] = o => Knows(h)'
      PROVE  Outcome(h)
  BY <1>2, GoGoes DEF Outcome
<1> QED
  BY <1>1, <1>2

LEMMA CredentialsStep ==
  ASSUME AccountInv, NEW h \in Handlers, scenario' = scenario, Credentials(h)
  PROVE  AccountInv'
<1> DEFINE found == {a \in DOMAIN login : login[a].name = op[h].name /\ login[a].pass = op[h].pass}
           o(a) == [op[h] EXCEPT !.acct = a, !.name = "", !.pass = ""]
<1>1. At(h, "credentials") /\ UNCHANGED <<dbVars, countVars, historyVars>> /\ op[h] \in OpRows
  BY AtFacts DEF Credentials, Check
<1>2. op[h].kind = "login" /\ pc[h] = 1
  BY <1>1, AtFacts, Places
<1>3. Stop(h) \/ \E a \in found : Go(h, o(a))
  BY DEF Credentials, Check
<1>4. ASSUME NEW a \in found, Go(h, o(a))
      PROVE  \E p \in OpRows : Go(h, p) /\ p.kind = op[h].kind /\ (Onward(h) /\ op'[h] = p => Knows(h)')
  <2> DEFINE p == o(a)
  <2>1. a \in DOMAIN login /\ a \in Nat
    BY LoginRows DEF AccountInv
  <2>2. p \in OpRows /\ p.kind = op[h].kind /\ p.acct = a
    BY <1>1, <2>1 DEF OpRows
  <2>3. Go(h, p)
    BY <1>4
  <2> HIDE DEF p
  <2>4. ASSUME Onward(h), op'[h] = p
        PROVE  Knows(h)'
    <3>1. op'[h].kind = "login" /\ pc'[h] = 2 /\ op'[h].kind \in Kinds /\ pc'[h] \in Nat
      BY <1>1, <1>2, <2>4, OntoNext
    <3>2. op'[h].acct \in DOMAIN login'
      BY <1>1, <2>1, <2>2, <2>4 DEF dbVars
    <3>3. /\ ~Past(h, "create")' /\ ~Past(h, "readUnverified")' /\ ~Past(h, "findEmail")'
          /\ ~Past(h, "lookup")'
          /\ ~Past(h, "role")' /\ ~Past(h, "markConsumed")' /\ ~Past(h, "deleteUnconsumed")'
          /\ ~Past(h, "setPassword")'
      BY <3>1, Befores DEF Past
    <3> QED
      BY <3>1, <3>2, <3>3 DEF Knows, KnowsAccount, KnowsPlayer, KnowsAddress, KnowsMailbox, KnowsRole,
         KnowsToken, KnowsProof, KnowsTokens, KnowsSessions
  <2> QED
    BY <2>2, <2>3, <2>4
<1>5. Outcome(h)
  BY <1>1, <1>3, <1>4, GoOrStop
<1> QED
  BY <1>1, <1>5, PlainStep

\* The link: a token that is still good
LEMMA LookupKnows ==
  ASSUME AccountInv, NEW h \in Handlers, At(h, "lookup"), Onward(h), login' = login, scenario' = scenario,
         NEW t \in tokens, t.action = ActionOf(op[h].kind), op'[h].tok = t
  PROVE  Knows(h)'
<1>1. op'[h].kind \in {"verify", "reset", "confirmEmail"} /\ pc'[h] = 2
  BY OntoNext, Places
<1>2. op'[h].kind \in Kinds /\ pc'[h] \in Nat /\ op'[h].kind = op[h].kind
  BY OntoNext
<1>3. /\ ~Past(h, "create")' /\ ~Past(h, "readUnverified")' /\ ~Past(h, "findEmail")'
      /\ ~Past(h, "credentials")'
      /\ ~Past(h, "role")' /\ ~Past(h, "markConsumed")' /\ ~Past(h, "deleteUnconsumed")'
      /\ ~Past(h, "setPassword")' /\ ~Past(h, "validate")'
  BY <1>1, <1>2, Befores DEF Past
<1>4. Mailed(t)'
  BY DEF AccountInv, TokenRows, Mailed, TokenType, MaxAccounts, MaxRequests, Scenario, Unverified
<1>5. KnowsToken(h)'
  BY <1>2, <1>4 DEF KnowsToken
<1>6. KnowsAccount(h)' /\ KnowsPlayer(h)' /\ KnowsAddress(h)' /\ KnowsMailbox(h)' /\ KnowsRole(h)'
  BY <1>1, <1>3 DEF Moderation, KnowsAccount, KnowsPlayer, KnowsAddress, KnowsMailbox, KnowsRole
<1>7. KnowsProof(h)' /\ KnowsTokens(h)' /\ KnowsSessions(h)'
  BY <1>3 DEF KnowsProof, KnowsTokens, KnowsSessions
<1> QED
  BY <1>5, <1>6, <1>7 DEF Knows

\* A link that has been used already shows a page, if there is a session.
LEMMA AlreadyUsedOutcome ==
  ASSUME AccountInv, NEW h \in Handlers, NEW c \in {"lookup", "markConsumed"}, At(h, c), AlreadyUsed(h)
  PROVE  Outcome(h)
<1>1. CASE op[h].kind = "verify"
  <2>1. Become(h, "visit")
    BY <1>1 DEF AlreadyUsed
  <2> QED
    BY <1>1, <2>1, BecomeTurns DEF Outcome
<1>2. CASE op[h].kind # "verify"
  <2>1. Stop(h)
    BY <1>2 DEF AlreadyUsed
  <2> QED
    BY <2>1, StopEnds DEF Outcome
<1> QED
  BY <1>1, <1>2

LEMMA TokenTyped ==
  ASSUME AccountInv, NEW t \in tokens
  PROVE  t \in AnyToken /\ t \in TokenType
<1>1. t \in TokenType /\ t.acct \in DOMAIN login
  BY DEF AccountInv, TokenRows, Mailed
<1>2. 1..MaxRequests \subseteq Nat /\ 1..MaxAccounts \subseteq Nat
  BY ScenarioFacts DEF AccountInv
<1> DEFINE I == 1..MaxRequests
           A == 1..MaxAccounts
<1>3. I \subseteq Nat /\ A \subseteq Nat
  BY <1>2
<1>4. t \in [id : I, acct : A, action : Actions, payload : Emails \cup {""}, to : Emails, at : Nat, exp : Nat,
             consumed : BOOLEAN]
  BY <1>1 DEF TokenType, Actions
<1> HIDE DEF I, A
<1>5. t \in AnyToken
  BY <1>3, <1>4 DEF AnyToken
<1> QED
  BY <1>1, <1>5

LEMMA LookupStep ==
  ASSUME AccountInv, NEW h \in Handlers, scenario' = scenario, Lookup(h)
  PROVE  AccountInv'
<1>1. At(h, "lookup") /\ UNCHANGED <<dbVars, countVars, historyVars>> /\ op[h] \in OpRows
  BY AtFacts DEF Lookup
<1>2. \/ AlreadyUsed(h) \/ Stop(h)
      \/ \E t \in tokens : t.action = ActionOf(op[h].kind) /\ Go(h, [op[h] EXCEPT !.tok = t])
  BY DEF Lookup
<1>3. ASSUME NEW t \in tokens, t.action = ActionOf(op[h].kind), Go(h, [op[h] EXCEPT !.tok = t])
      PROVE  \E o \in OpRows : Go(h, o) /\ o.kind = op[h].kind /\ (Onward(h) /\ op'[h] = o => Knows(h)')
  <2> DEFINE o == [op[h] EXCEPT !.tok = t]
  <2>1. t \in AnyToken
    BY TokenTyped
  <2>2. o \in OpRows /\ o.kind = op[h].kind /\ o.tok = t
    BY <1>1, <2>1 DEF OpRows
  <2>3. Go(h, o)
    BY <1>3
  <2> HIDE DEF o
  <2>4. ASSUME Onward(h), op'[h] = o
        PROVE  Knows(h)'
    BY <1>1, <1>3, <2>2, <2>4, LookupKnows DEF dbVars
  <2> QED
    BY <2>2, <2>3, <2>4
<1>4. Outcome(h)
  BY <1>1, <1>2, <1>3, GoOrStop, AlreadyUsedOutcome
<1> QED
  BY <1>1, <1>4, PlainStep

LEMMA ReadUnverifiedStep ==
  ASSUME AccountInv, NEW h \in Handlers, scenario' = scenario, ReadUnverified(h)
  PROVE  AccountInv'
<1> DEFINE o == [op[h] EXCEPT !.email = Row(h).email]
<1>1. At(h, "readUnverified") /\ UNCHANGED <<dbVars, countVars, historyVars>> /\ op[h] \in OpRows
  BY AtFacts DEF ReadUnverified, Check
<1>2. op[h].kind = "resend" /\ pc[h] = 3 /\ Knows(h)
  BY <1>1, AtFacts, Places
<1>3. Stop(h) \/ (Go(h, o) /\ Unverified(op[h].acct))
  BY TierUnverified DEF ReadUnverified, Check, Row, Unverified
<1>4. op[h].acct \in DOMAIN login
  BY <1>2, Befores DEF Knows, KnowsAccount, Past, Kinds
<1>5. ASSUME Go(h, o), Unverified(op[h].acct)
      PROVE  \E p \in OpRows : Go(h, p) /\ p.kind = op[h].kind /\ (Onward(h) /\ op'[h] = p => Knows(h)')
  <2>1. Row(h).email \in Emails
    BY <1>4, <1>5 DEF AccountInv, Identities, KnownAddresses, Row
  <2>2. o \in OpRows /\ o.kind = op[h].kind /\ o.email = Row(h).email /\ o.acct = op[h].acct
    BY <1>1, <2>1 DEF OpRows
  <2> HIDE DEF o
  <2>3. ASSUME Onward(h), op'[h] = o
        PROVE  Knows(h)'
    <3>1. op'[h].kind = "resend" /\ pc'[h] = 4 /\ op'[h].kind \in Kinds /\ pc'[h] \in Nat
      BY <1>1, <1>2, <2>3, OntoNext
    <3>2. op'[h].acct \in DOMAIN login' /\ op'[h].email \in Emails /\ login'[op'[h].acct].email = op'[h].email
      BY <1>1, <1>4, <2>1, <2>2, <2>3 DEF dbVars, Row
    <3>3. /\ ~Past(h, "lookup")' /\ ~Past(h, "role")' /\ ~Past(h, "markConsumed")'
          /\ ~Past(h, "deleteUnconsumed")' /\ ~Past(h, "setPassword")'
      BY <3>1, Befores DEF Past
    <3> QED
      BY <3>1, <3>2, <3>3 DEF Knows, KnowsAccount, KnowsPlayer, KnowsAddress, KnowsMailbox, KnowsRole,
         KnowsToken, KnowsProof, KnowsTokens, KnowsSessions
  <2> QED
    BY <1>5, <2>2, <2>3
<1>6. Outcome(h)
  BY <1>1, <1>3, <1>5, GoOrStop
<1> QED
  BY <1>1, <1>6, PlainStep

\* The least of the accounts with an address is one of them.
LEMMA Least ==
  ASSUME NEW S \in SUBSET Nat, S # {}
  PROVE  Min(S) \in S
<1> DEFINE R == {p \in Nat \X Nat : p[1] < p[2]}
<1>1. IsWellFoundedOn(R, Nat)
  BY NatLessThanWellFounded, Zenon DEF OpToRel
<1>2. S \subseteq Nat
  OBVIOUS
<1>3. \E i \in S : \A j \in S : <<j, i>> \notin R
  <2> HIDE DEF R
  <2> QED
    BY <1>1, <1>2, WFMin, Zenon
<1>4. PICK i \in S : \A j \in S : <<j, i>> \notin R
  BY <1>3
<1>5. \A j \in S : ~(j < i)
  BY <1>2, <1>4
<1>6. \A j \in S : i <= j
  BY <1>2, <1>5
<1> QED
  BY <1>6 DEF Min

LEMMA FindEmailStep ==
  ASSUME AccountInv, NEW h \in Handlers, scenario' = scenario, FindEmail(h)
  PROVE  AccountInv'
<1> DEFINE found == {a \in DOMAIN login : login[a].email = op[h].email}
           o == [op[h] EXCEPT !.acct = Min(found)]
<1>1. At(h, "findEmail") /\ UNCHANGED <<dbVars, countVars, historyVars>> /\ op[h] \in OpRows
  BY AtFacts DEF FindEmail, Check
<1>2. op[h].kind = "forgot" /\ pc[h] = 1 /\ Knows(h)
  BY <1>1, AtFacts, Places
<1>3. Stop(h) \/ (found # {} /\ Go(h, o))
  BY DEF FindEmail, Check
<1>4. ASSUME found # {}, Go(h, o)
      PROVE  \E p \in OpRows : Go(h, p) /\ p.kind = op[h].kind /\ (Onward(h) /\ op'[h] = p => Knows(h)')
  <2>1. found \subseteq Nat
    BY LoginRows DEF AccountInv
  <2>2. Min(found) \in found
    BY <1>4, <2>1, Least
  <2>3. Min(found) \in DOMAIN login /\ Min(found) \in Nat /\ login[Min(found)].email = op[h].email
    BY <2>1, <2>2
  <2>4. o \in OpRows /\ o.kind = op[h].kind /\ o.email = op[h].email /\ o.acct = Min(found)
    BY <1>1, <2>3 DEF OpRows
  <2> HIDE DEF o, found
  <2>5. ASSUME Onward(h), op'[h] = o
        PROVE  Knows(h)'
    <3>1. op'[h].kind = "forgot" /\ pc'[h] = 2 /\ op'[h].kind \in Kinds /\ pc'[h] \in Nat
      BY <1>1, <1>2, <2>5, OntoNext
    <3>2. op'[h].acct \in DOMAIN login' /\ op'[h].email \in Emails /\ login'[op'[h].acct].email = op'[h].email
      BY <1>1, <1>2, <2>3, <2>4, <2>5 DEF dbVars, Knows, KnowsAddress
    <3>3. /\ ~Past(h, "lookup")' /\ ~Past(h, "role")' /\ ~Past(h, "markConsumed")'
          /\ ~Past(h, "deleteUnconsumed")' /\ ~Past(h, "setPassword")'
      BY <3>1, Befores DEF Past
    <3> QED
      BY <3>1, <3>2, <3>3 DEF Knows, KnowsAccount, KnowsPlayer, KnowsAddress, KnowsMailbox, KnowsRole,
         KnowsToken, KnowsProof, KnowsTokens, KnowsSessions
  <2> QED
    BY <1>4, <2>4, <2>5
<1>5. Outcome(h)
  BY <1>1, <1>3, <1>4, GoOrStop
<1> QED
  BY <1>1, <1>5, PlainStep

LEMMA VerifyPasswordStep ==
  ASSUME AccountInv, NEW h \in Handlers, scenario' = scenario, VerifyPassword(h)
  PROVE  AccountInv'
<1> DEFINE o == [op[h] EXCEPT !.pass = ""]
<1>1. At(h, "verifyPassword") /\ UNCHANGED <<dbVars, countVars, historyVars>> /\ op[h] \in OpRows
  BY AtFacts DEF VerifyPassword, Check
<1>2. op[h].kind # "register"
  BY <1>1, AtFacts, Places
<1>3. Stop(h) \/ Go(h, o)
  BY DEF VerifyPassword, Check
<1>4. Advances
  BY <1>1, QuietAdvances DEF AccountInv, dbVars, countVars, historyVars
<1>5. /\ o \in OpRows /\ o.kind = op[h].kind /\ o.email = op[h].email /\ o.acct = op[h].acct
      /\ o.tok = op[h].tok /\ o.sess = op[h].sess /\ o.old = op[h].old
  BY <1>1 DEF OpRows
<1> HIDE DEF o
<1>6. ASSUME Onward(h), op'[h] = o
      PROVE  Knows(h)'
  <2>1. SameBusiness(h, "verifyPassword")
    BY <1>2, <1>5, <1>6 DEF SameBusiness
  <2> QED
    BY <1>1, <1>4, <1>6, <2>1, OnwardKnows DEF Telling
<1>7. Outcome(h)
  BY <1>1, <1>3, <1>5, <1>6, GoOrStop
<1> QED
  BY <1>1, <1>7, PlainStep

-----------------------------------------------------------------------------
(* lock and unlock                                                         *)

LEMMA LockStep ==
  ASSUME AccountInv, NEW h \in Handlers, scenario' = scenario, Lock(h)
  PROVE  AccountInv'
<1>1. /\ At(h, "lock") /\ mu = "free" /\ mu' = h /\ pc' = [pc EXCEPT ![h] = @ + 1] /\ op' = op
      /\ UNCHANGED <<clock, requests, login, tokens, sessions, issued, opened, used, dead, revoked, proven,
                     moderated>>
  BY DEF Lock, LockHeld, dbVars, countVars, historyVars
<1>2. Types /\ Identities /\ TokenRows /\ SessionRows /\ pc \in [Handlers -> Nat] /\ op \in [Handlers -> OpRows]
  BY DEF AccountInv, Types
<1>3. Advances
  BY <1>1, <1>2, QuietAdvances
<1>4. /\ op[h].kind \in {"register", "confirmEmail"} /\ op[h].kind \in Kinds
      /\ op[h].kind = "register" => pc[h] = 1
      /\ op[h].kind = "confirmEmail" => pc[h] = 4
  BY <1>1, AtFacts, Places
<1>5. Acts(h) /\ pc'[h] = pc[h] + 1 /\ op'[h] = op[h]
  BY <1>1, <1>2 DEF Acts
<1>6. pc'[h] \in DOMAIN Program[op[h].kind]
  BY <1>4, <1>5, CallsRegister, CallsConfirmEmail
<1>7. Onward(h) /\ SameBusiness(h, "lock")
  BY <1>4, <1>5, <1>6 DEF Onward, Working, SameBusiness
<1>8. Handling'
  BY <1>1, <1>3, <1>5, <1>7, OnwardKnows, HandlingStep DEF Telling
<1>9. Identities' /\ TokenRows' /\ SessionRows'
  BY <1>1, <1>2, <1>3, IdentitiesStay, TokenRowsStay, SessionRowsStay
<1>10. Types'
  BY <1>1, <1>2, <1>5, TypesStep DEF Types
<1>11. Counts'
  BY <1>1, <1>2, <1>5, <1>7, CountsStep, LoginRows DEF Types
<1>12. Locks'
  <2>1. \A g \in Handlers : ~Locked(g)
    BY <1>1, Bounds DEF AccountInv, Locks
  <2>2. Locked(h)'
    BY <1>4, <1>5, Befores DEF Locked, Past
  <2>3. \A g \in Handlers \ {h} : ~Locked(g)'
    BY <1>5, <2>1, OthersLocked
  <2>4. \A g \in Handlers : mu' = g <=> Locked(g)'
    BY <1>1, <2>2, <2>3
  <2>5. ~Writing(h)'
    BY <1>1, <1>7, OnwardWriting
  <2>6. \A g \in Handlers \ {h} : ~Writing(g)'
    BY <1>5, <2>1, OthersLocked, WritingLocked
  <2> QED
    BY <1>1, <2>4, <2>5, <2>6 DEF Locks
<1> QED
  BY <1>8, <1>9, <1>10, <1>11, <1>12 DEF AccountInv

LEMMA EndLockStep ==
  ASSUME AccountInv, NEW h \in Handlers, scenario' = scenario, EndLock(h)
  PROVE  AccountInv'
<1>1. /\ At(h, "unlock") /\ mu' = (IF mu = h THEN "free" ELSE mu) /\ pc' = [pc EXCEPT ![h] = @ + 1] /\ op' = op
      /\ UNCHANGED <<clock, requests, login, tokens, sessions, issued, opened, used, dead, revoked, proven,
                     moderated>>
  BY DEF EndLock, Unlock, dbVars, countVars, historyVars
<1>2. Types /\ Identities /\ TokenRows /\ SessionRows /\ pc \in [Handlers -> Nat] /\ op \in [Handlers -> OpRows]
  BY DEF AccountInv, Types
<1>3. Advances
  BY <1>1, <1>2, QuietAdvances
<1>4. op[h].kind = "register" /\ pc[h] = 6 /\ op[h].kind \in Kinds
  BY <1>1, AtFacts, Places
<1>5. Acts(h) /\ pc'[h] = 7 /\ op'[h] = op[h] /\ pc'[h] = pc[h] + 1
  BY <1>1, <1>2, <1>4 DEF Acts
<1>6. pc'[h] \in DOMAIN Program[op[h].kind]
  BY <1>4, <1>5, CallsRegister
<1>7. Onward(h) /\ SameBusiness(h, "unlock")
  BY <1>4, <1>5, <1>6 DEF Onward, Working, SameBusiness
<1>8. Handling'
  BY <1>1, <1>3, <1>5, <1>7, OnwardKnows, HandlingStep DEF Telling
<1>9. Identities' /\ TokenRows' /\ SessionRows'
  BY <1>1, <1>2, <1>3, IdentitiesStay, TokenRowsStay, SessionRowsStay
<1>10. Types'
  BY <1>1, <1>2, <1>5, TypesStep DEF Types
<1>11. Counts'
  BY <1>1, <1>2, <1>5, <1>7, CountsStep, LoginRows DEF Types
<1>12. Locks'
  <2>1. /\ mu \in Handlers \cup {"free"} /\ "free" \notin Handlers
        /\ \A g \in Handlers : mu = g <=> Locked(g)
        /\ \A g \in Handlers : Writing(g) => ~Taken(op[g])
    BY Bounds DEF AccountInv, Locks
  <2>2. ~Locked(h)'
    BY <1>4, <1>5, Befores DEF Locked, Past
  <2>3. Locked(h)
    BY <1>4, Befores DEF Locked, Past
  <2>4. mu = h /\ mu' = "free"
    BY <1>1, <2>1, <2>3
  <2>5. \A g \in Handlers \ {h} : ~Locked(g) /\ ~Locked(g)'
    BY <1>5, <2>1, <2>4, OthersLocked
  <2>6. ~Writing(h)'
    BY <1>1, <1>7, OnwardWriting
  <2>7. \A g \in Handlers \ {h} : ~Writing(g)'
    BY <1>5, <2>5, OthersLocked, WritingLocked
  <2> QED
    BY <2>1, <2>2, <2>4, <2>5, <2>6, <2>7 DEF Locks
<1> QED
  BY <1>8, <1>9, <1>10, <1>11, <1>12 DEF AccountInv

-----------------------------------------------------------------------------
(* Sessions                                                                *)

\* A step that writes sessions and nothing else
LEMMA SessionStep ==
  ASSUME AccountInv, Advances, NEW h \in Handlers, NEW c, At(h, c),
         c \notin {"lock", "unlock", "unique", "create", "setEmail"},
         Outcome(h), SessionRows',
         UNCHANGED <<scenario, clock, requests, login, tokens, issued, used, dead, moderated, proven>>
  PROVE  AccountInv'
<1>1. Types /\ Identities /\ TokenRows
  BY DEF AccountInv
<1>2. Identities' /\ TokenRows'
  BY <1>1, IdentitiesStay, TokenRowsStay
<1>3. login' \in Seq(RowsOf(Scenario)) /\ SameNames /\ Len(login') <= Len(login) /\ issued' <= issued
  BY <1>1, LoginRows DEF Types, SameNames
<1> QED
  BY <1>2, <1>3, HandlerStep

LEMMA DestroyStep ==
  ASSUME AccountInv, NEW h \in Handlers, scenario' = scenario, Destroy(h)
  PROVE  AccountInv'
<1>1. /\ At(h, "destroy") /\ sessions' \subseteq sessions /\ Stop(h)
      /\ UNCHANGED <<scenario, clock, requests, login, tokens, issued, opened, used, dead, moderated,
                     proven, revoked>>
  BY DEF Destroy, countVars, historyVars
<1>2. Advances
  BY <1>1, QuietAdvances DEF AccountInv
<1>3. SessionRows' /\ Outcome(h)
  BY <1>1, <1>2, SessionRowsStay, StopEnds DEF AccountInv, Outcome
<1> QED
  BY <1>1, <1>2, <1>3, SessionStep

LEMMA CreateSessionStep ==
  ASSUME AccountInv, NEW h \in Handlers, scenario' = scenario, CreateSession(h)
  PROVE  AccountInv'
<1> DEFINE s0 == [id |-> opened + 1, acct |-> op[h].acct, exp |-> clock + SessionTTL]
<1>1. /\ At(h, "session") /\ opened' = opened + 1 /\ sessions' = sessions \cup {s0} /\ Go(h, op[h])
      /\ UNCHANGED <<scenario, clock, requests, login, tokens, issued, used, dead, moderated, proven,
                     revoked>>
  BY DEF CreateSession, historyVars
<1>2. Types /\ SessionRows /\ opened \in Nat /\ issued \in Nat /\ clock \in Nat /\ SessionTTL \in Nat
  BY Bounds DEF AccountInv, Types
<1>3. op[h].acct \in DOMAIN login
  BY <1>1, AtFacts, Places, Befores DEF Knows, KnowsAccount, Past
<1>4. s0 \in [id : 1..opened', acct : DOMAIN login, exp : Nat] /\ s0.id = opened + 1
  BY <1>1, <1>2, <1>3
<1> HIDE DEF s0
<1>5. Advances
  <2>1. \A s \in sessions' : s.id > opened \/ \E r \in sessions : r.id = s.id /\ r.acct = s.acct
    BY <1>1, <1>2, <1>4
  <2> QED
    BY <1>1, <1>2, <2>1 DEF Advances, Unverified
<1>6. Outcome(h)
  BY <1>1, <1>5, QuietOutcome DEF Telling
<1>7. SessionRows'
  <2>1. \A s \in sessions : s.id \in 1..opened /\ s \in [id : 1..opened', acct : DOMAIN login', exp : Nat]
    BY <1>1, <1>2 DEF SessionRows
  <2>2. sessions' \subseteq [id : 1..opened', acct : DOMAIN login', exp : Nat]
    BY <1>1, <1>4, <2>1
  <2>3. \A r, s \in sessions' : r.id = s.id => r = s
    BY <1>1, <1>2, <1>4, <2>1 DEF SessionRows
  <2>4. revoked' \subseteq 1..opened'
    BY <1>1, <1>2 DEF SessionRows
  <2>5. \A s \in sessions' : s.id \notin revoked'
    BY <1>1, <1>2, <1>4 DEF SessionRows, RevokedStayOut
  <2> QED
    BY <2>2, <2>3, <2>4, <2>5 DEF SessionRows, RevokedStayOut
<1> QED
  BY <1>1, <1>5, <1>6, <1>7, SessionStep

LEMMA RefreshStep ==
  ASSUME AccountInv, NEW h \in Handlers, scenario' = scenario, Refresh(h)
  PROVE  AccountInv'
<1> DEFINE e == op[h].now + SessionTTL
           o == [op[h] EXCEPT !.now = 0]
<1>1. /\ At(h, "refresh") /\ (Stop(h) \/ Go(h, o))
      /\ sessions' = (sessions \ Sess(h)) \cup {[s EXCEPT !.exp = e] : s \in Sess(h)}
      /\ UNCHANGED <<scenario, clock, requests, login, tokens, issued, opened, used, dead, moderated,
                     proven, revoked>>
  BY DEF Refresh, Refreshed, countVars, historyVars
<1>2. Types /\ SessionRows /\ op[h] \in OpRows /\ e \in Nat
  <2>1. op[h] \in OpRows
    BY <1>1, AtFacts
  <2>2. op[h].now \in Nat /\ SessionTTL \in Nat
    BY <2>1, OpFields, Bounds
  <2> QED
    BY <2>1, <2>2 DEF AccountInv
<1>3. o \in OpRows /\ o.kind = op[h].kind /\ o.acct = op[h].acct /\ o.email = op[h].email /\ o.tok = op[h].tok
      /\ o.sess = op[h].sess /\ o.old = op[h].old /\ o.name = op[h].name /\ o.pass = op[h].pass
  BY <1>2 DEF OpRows
<1> HIDE DEF e, o
<1>4. ASSUME NEW s \in sessions'
      PROVE  \E r \in sessions : r.id = s.id /\ r.acct = s.acct /\ s \in [id : 1..opened, acct : DOMAIN login, exp : Nat]
                                 /\ (r.id = op[h].sess => s.exp = e) /\ (r.id # op[h].sess => s = r)
  <2>1. CASE s \in sessions \ Sess(h)
    BY <1>2, <2>1 DEF Sess, SessionRows
  <2>2. CASE s \notin sessions \ Sess(h)
    <3>1. PICK r \in Sess(h) : s = [r EXCEPT !.exp = e]
      BY <1>1, <2>2
    <3>2. r \in sessions /\ r.id = op[h].sess /\ r \in [id : 1..opened, acct : DOMAIN login, exp : Nat]
      BY <1>2 DEF Sess, SessionRows
    <3>3. s \in [id : 1..opened, acct : DOMAIN login, exp : Nat] /\ s.id = r.id /\ s.acct = r.acct /\ s.exp = e
      BY <1>2, <3>1, <3>2
    <3> QED
      BY <3>2, <3>3
  <2> QED
    BY <2>1, <2>2
<1>5. Advances
  BY <1>1, <1>2, <1>4 DEF Advances, Unverified, Types
<1>6. Outcome(h)
  <2>1. ASSUME Onward(h), op'[h] = o
        PROVE  Knows(h)'
    <3>1. SameBusiness(h, "refresh")
      BY <1>3, <2>1 DEF SameBusiness
    <3> QED
      BY <1>1, <1>5, <2>1, <3>1, OnwardKnows DEF Telling
  <2> QED
    BY <1>1, <1>3, <2>1, GoOrStop
<1>7. SessionRows'
  <2>1. sessions' \subseteq [id : 1..opened', acct : DOMAIN login', exp : Nat]
    BY <1>1, <1>4
  <2>2. ASSUME NEW p \in sessions', NEW q \in sessions', p.id = q.id
        PROVE  p = q
    <3>1. PICK r \in sessions : /\ r.id = p.id /\ r.acct = p.acct /\ p \in [id : 1..opened, acct : DOMAIN login, exp : Nat]
                                /\ (r.id = op[h].sess => p.exp = e) /\ (r.id # op[h].sess => p = r)
      BY <1>4
    <3>2. PICK s \in sessions : /\ s.id = q.id /\ s.acct = q.acct /\ q \in [id : 1..opened, acct : DOMAIN login, exp : Nat]
                                /\ (s.id = op[h].sess => q.exp = e) /\ (s.id # op[h].sess => q = s)
      BY <1>4
    <3>3. r = s
      BY <1>2, <2>2, <3>1, <3>2 DEF SessionRows
    <3>4. CASE r.id = op[h].sess
      <4>1. p.id = q.id /\ p.acct = q.acct /\ p.exp = q.exp
        BY <2>2, <3>1, <3>2, <3>3, <3>4
      <4>2. /\ p \in [id : 1..opened, acct : DOMAIN login, exp : Nat]
            /\ q \in [id : 1..opened, acct : DOMAIN login, exp : Nat]
        BY <3>1, <3>2
      <4> QED
        BY ONLY <4>1, <4>2
    <3>5. CASE r.id # op[h].sess
      BY <3>1, <3>2, <3>3, <3>5
    <3> QED
      BY <3>4, <3>5
  <2>3. revoked' \subseteq 1..opened' /\ \A s \in sessions' : s.id \notin revoked'
    BY <1>1, <1>2, <1>4 DEF SessionRows, RevokedStayOut
  <2> QED
    BY <2>1, <2>2, <2>3 DEF SessionRows, RevokedStayOut
<1> QED
  BY <1>1, <1>5, <1>6, <1>7, SessionStep

LEMMA InvalidateStep ==
  ASSUME AccountInv, NEW h \in Handlers, scenario' = scenario, Invalidate(h)
  PROVE  AccountInv'
<1>1. /\ At(h, "invalidate") /\ Go(h, op[h]) /\ sessions' = {s \in sessions : s.id \notin Others(h)}
      /\ revoked' = revoked \cup op[h].old
      /\ UNCHANGED <<scenario, clock, requests, login, tokens, issued, opened, used, dead, moderated, proven>>
  BY DEF Invalidate, countVars
<1>2. Types /\ SessionRows
  BY DEF AccountInv
<1>3. Advances
  BY <1>1, <1>2, QuietAdvances
<1>4. Outcome(h)
  BY <1>1, <1>3, QuietOutcome DEF Telling
<1>5. /\ op[h].old \subseteq 1..opened /\ op[h].sess \notin op[h].old
      /\ \A s \in sessions : s.id \in op[h].old => s.acct = op[h].acct
  <2>1. Past(h, "setPassword") /\ ~Past(h, "invalidate") /\ KnowsSessions(h)
    BY <1>1, AtFacts, Places, Befores DEF Past, Knows
  <2> QED
    BY <2>1 DEF KnowsSessions
<1>6. ASSUME NEW s \in sessions'
      PROVE  s.id \notin revoked'
  <2>1. s \in sessions /\ s.id \notin Others(h) /\ s.id \notin revoked
    BY <1>1, <1>2 DEF SessionRows, RevokedStayOut
  <2>2. s.id \notin op[h].old
    BY <1>5, <2>1 DEF Others
  <2> QED
    BY <1>1, <2>1, <2>2
<1>7. SessionRows'
  BY <1>1, <1>2, <1>5, <1>6 DEF SessionRows, RevokedStayOut
<1> QED
  BY <1>1, <1>3, <1>4, <1>7, SessionStep

-----------------------------------------------------------------------------
(* Tokens                                                                  *)

\* A step that writes tokens and their history
LEMMA TokenStep ==
  ASSUME AccountInv, Advances, NEW h \in Handlers, NEW c, At(h, c),
         c \notin {"lock", "unlock", "unique", "create", "setEmail"},
         Outcome(h), TokenRows', proven \subseteq proven',
         issued' <= issued \/ (c = "insertToken" /\ issued' = issued + 1),
         UNCHANGED <<scenario, clock, requests, login, sessions, revoked, moderated>>
  PROVE  AccountInv'
<1>1. Types /\ Identities /\ SessionRows
  BY DEF AccountInv
<1>2. Identities' /\ SessionRows'
  BY <1>1, IdentitiesStay, SessionRowsStay
<1>3. login' \in Seq(RowsOf(Scenario)) /\ SameNames /\ Len(login') <= Len(login)
  BY <1>1, LoginRows DEF Types, SameNames
<1> QED
  BY <1>2, <1>3, HandlerStep

LEMMA TokenFacts ==
  ASSUME AccountInv, NEW t \in tokens
  PROVE  /\ Mailed(t) /\ t.id \in Nat /\ t.id \in 1..MaxRequests /\ t.id <= issued /\ Usable(t)
         /\ t.consumed \in BOOLEAN /\ t \in TokenType
         /\ \A u \in tokens : t.id = u.id => t = u
<1>1. /\ Mailed(t) /\ t.id <= issued /\ Usable(t)
      /\ \A u \in tokens : t.id = u.id => t = u
  BY DEF AccountInv, TokenRows
<1>2. t \in TokenType
  BY <1>1 DEF Mailed
<1>3. t \in AnyToken
  BY TokenTyped
<1>4. t.id \in 1..MaxRequests
  BY <1>2 DEF TokenType
<1>5. t.id \in Nat /\ t.consumed \in BOOLEAN
  BY <1>3 DEF AnyToken
<1> QED
  BY <1>1, <1>2, <1>4, <1>5

LEMMA DeleteUnconsumedStep ==
  ASSUME AccountInv, NEW h \in Handlers, scenario' = scenario, DeleteUnconsumed(h)
  PROVE  AccountInv'
<1> DEFINE ids == {t.id : t \in Mine(h)}
           o == [op[h] EXCEPT !.old = ids]
<1>1. /\ At(h, "deleteUnconsumed") /\ Go(h, o) /\ tokens' = Kept(h)
      /\ UNCHANGED <<scenario, clock, requests, login, sessions, issued, opened, used, dead, revoked,
                     moderated, proven>>
  BY DEF DeleteUnconsumed, countVars, historyVars
<1>2. Types /\ TokenRows /\ op[h] \in OpRows /\ issued \in Nat /\ opened \in Nat /\ issued' \in Nat
  BY <1>1, AtFacts DEF AccountInv, Types
<1>3. tokens' \subseteq tokens /\ \A t \in tokens' : t.id \in ids => t.consumed
  <2>1. tokens' \subseteq tokens
    BY <1>1 DEF Kept
  <2>2. ASSUME NEW t \in tokens', t.id \in ids
        PROVE  t.consumed
    <3>1. PICK u \in Mine(h) : t.id = u.id
      BY <2>2
    <3>2. t = u
      BY <2>1, <3>1, TokenFacts DEF Mine
    <3> QED
      BY <1>1, <3>1, <3>2 DEF Kept
  <2> QED
    BY <2>1, <2>2
<1>4. ids \subseteq 1..issued /\ ids \subseteq Nat
  <2>1. \A t \in Mine(h) : t.id \in 1..MaxRequests /\ t.id <= issued
    BY TokenFacts DEF Mine
  <2> QED
    BY <1>2, <2>1
<1>5. /\ o \in OpRows /\ o.kind = op[h].kind /\ o.acct = op[h].acct /\ o.email = op[h].email /\ o.old = ids
  BY <1>2, <1>4 DEF OpRows
<1> HIDE DEF ids, o
<1>6. Advances
  BY <1>1, <1>2, <1>3 DEF Advances, Unverified
<1>7. TokenRows'
  <2>1. MaxRequests' = MaxRequests
    BY <1>1 DEF MaxRequests, Scenario
  <2>2. \A t \in tokens' : Mailed(t)' /\ t.id <= issued' /\ Usable(t)'
    BY <1>1, <1>3, <1>6, TokenFacts, MailedStays DEF Usable
  <2> QED
    BY <1>1, <1>2, <1>3, <2>1, <2>2 DEF TokenRows
<1>8. ASSUME Onward(h), op'[h] = o
      PROVE  Knows(h)'
  <2>1. /\ \/ op'[h].kind \in {"register", "forgot"} /\ pc'[h] = 5
           \/ op'[h].kind = "resend" /\ pc'[h] = 6
           \/ op'[h].kind = "changeEmail" /\ pc'[h] = 9
        /\ op'[h].kind \in Kinds /\ pc'[h] \in Nat /\ op'[h].kind = op[h].kind
    BY <1>1, <1>8, OntoNext, Places
  <2>2. /\ ~Past(h, "setPassword")' /\ ~Past(h, "lookup")' /\ ~Past(h, "markConsumed")'
    BY <2>1, Befores DEF Past
  <2>3. \A m : Past(h, m)' <=> Past(h, m) \/ m = "deleteUnconsumed"
    BY <1>1, <1>8, OnwardPast
  <2>4. Knows(h) /\ Working(h) /\ pc[h] \in Nat
    BY <1>1, AtFacts DEF Working
  <2>5. op'[h].acct = op[h].acct /\ op'[h].email = op[h].email /\ op'[h].old = ids
    BY <1>5, <1>8
  <2>6. KnowsAccount(h)'
    BY <1>1, <2>1, <2>3, <2>4, <2>5 DEF Knows, KnowsAccount
  <2>7. KnowsPlayer(h)'
    BY <2>1, Befores DEF KnowsPlayer, Past
  <2>8. KnowsAddress(h)'
    BY <2>1, <2>2, <2>3, <2>4, <2>5 DEF Knows, KnowsAddress
  <2>9. KnowsMailbox(h)' /\ KnowsRole(h)'
    BY <1>1, <2>3, <2>4, <2>5 DEF Knows, KnowsMailbox, KnowsRole, Unverified
  <2>10. KnowsToken(h)' /\ KnowsProof(h)' /\ KnowsSessions(h)'
    BY <2>2 DEF KnowsToken, KnowsProof, KnowsSessions
  <2>11. KnowsTokens(h)'
    BY <1>1, <1>3, <1>4, <2>5 DEF KnowsTokens
  <2> QED
    BY <2>6, <2>7, <2>8, <2>9, <2>10, <2>11 DEF Knows
<1>9. Outcome(h)
  BY <1>1, <1>5, <1>8, GoOrStop
<1> QED
  BY <1>1, <1>2, <1>6, <1>7, <1>9, TokenStep

LEMMA ActionOfs ==
  /\ \A k \in {"register", "resend", "verify"} : ActionOf(k) = "EmailVerification"
  /\ \A k \in {"forgot", "reset"} : ActionOf(k) = "PasswordReset"
  /\ \A k \in {"changeEmail", "confirmEmail"} : ActionOf(k) = "EmailChange"
BY DEF ActionOf

\* What Manager.Issue knows when it writes the new token
LEMMA InsertFacts ==
  ASSUME AccountInv, NEW h \in Handlers, At(h, "insertToken")
  PROVE  /\ op[h].kind \in {"register", "forgot", "resend", "changeEmail"}
         /\ op[h].acct \in DOMAIN login /\ op[h].email \in Emails
         /\ Unverified(op[h].acct) => op[h].kind # "changeEmail" /\ login[op[h].acct].email = op[h].email
         /\ op[h].old \subseteq 1..issued /\ \A t \in tokens : t.id \in op[h].old => t.consumed
<1>1. /\ \/ op[h].kind \in {"register", "forgot"} /\ pc[h] = 5
         \/ op[h].kind = "resend" /\ pc[h] = 6
         \/ op[h].kind = "changeEmail" /\ pc[h] = 9
      /\ op[h].kind \in Kinds /\ pc[h] \in Nat
  BY AtFacts, Places
<1>2. Knows(h)
  BY AtFacts
<1>3. /\ op[h].kind = "register" => Past(h, "create")
      /\ op[h].kind = "forgot" => Past(h, "findEmail")
      /\ op[h].kind = "resend" => Past(h, "validate") /\ Past(h, "readUnverified")
      /\ op[h].kind = "changeEmail" => Past(h, "validate") /\ Past(h, "role")
      /\ Past(h, "deleteUnconsumed") /\ ~Past(h, "insertToken")
  BY <1>1, Befores DEF Past
<1>4. op[h].acct \in DOMAIN login
  BY <1>1, <1>2, <1>3 DEF Knows, KnowsAccount
<1>5. op[h].email \in Emails
  BY <1>1, <1>2, <1>3 DEF Knows, KnowsAddress
<1>6. Unverified(op[h].acct) => op[h].kind # "changeEmail" /\ login[op[h].acct].email = op[h].email
  BY <1>1, <1>2, <1>3 DEF Knows, KnowsMailbox, KnowsRole
<1>7. op[h].old \subseteq 1..issued /\ \A t \in tokens : t.id \in op[h].old => t.consumed
  BY <1>2, <1>3 DEF Knows, KnowsTokens
<1> QED
  BY <1>1, <1>4, <1>5, <1>6, <1>7

\* There is a number left for the token.
LEMMA RoomForToken ==
  ASSUME AccountInv, NEW h \in Handlers, At(h, "insertToken")
  PROVE  issued + 1 \in 1..MaxRequests
<1>1. Owes(h, "insertToken")
  BY AtFacts, Dues, Places DEF Owes, Due
<1>2. h \in Owing("insertToken")
  BY <1>1 DEF Owing
<1>3. IsFiniteSet(Owing("insertToken")) /\ Cardinality(Owing("insertToken")) \in Nat
  BY OwingFinite
<1>4. Cardinality(Owing("insertToken")) # 0
  BY <1>2, <1>3, FS_EmptySet
<1>5. issued + Cardinality(Owing("insertToken")) <= requests /\ requests <= MaxRequests
  BY DEF AccountInv, Counts, Types
<1>6. issued \in Nat /\ requests \in Nat /\ MaxRequests \in Nat
  BY ScenarioFacts DEF AccountInv, Types
<1> QED
  BY <1>3, <1>4, <1>5, <1>6

LEMMA FewAccounts ==
  ASSUME AccountInv
  PROVE  Len(login) <= MaxAccounts
<1>1. Len(login) + Cardinality(Owing("create")) <= Len(Scenario.rows) + requests /\ requests <= MaxRequests
  BY DEF AccountInv, Counts, Types
<1>2. Len(login) \in Nat /\ Len(Scenario.rows) \in Nat /\ requests \in Nat /\ MaxRequests \in Nat
  BY LoginRows, ScenarioFacts DEF AccountInv, Types
<1>3. Cardinality(Owing("create")) \in Nat
  BY OwingFinite
<1>4. MaxAccounts = Len(Scenario.rows) + MaxRequests
  BY DEF MaxAccounts
<1> QED
  BY <1>1, <1>2, <1>3, <1>4

LEMMA InsertTokenStep ==
  ASSUME AccountInv, NEW h \in Handlers, scenario' = scenario, InsertToken(h)
  PROVE  AccountInv'
<1> DEFINE o == [op[h] EXCEPT !.old = {}]
<1>0. PICK n : n = [id |-> issued + 1, acct |-> op[h].acct, action |-> ActionOf(op[h].kind),
                    payload |-> IF op[h].kind = "changeEmail" THEN op[h].email ELSE "", to |-> op[h].email,
                    at |-> clock, exp |-> clock + TokenTTL, consumed |-> FALSE]
  OBVIOUS
<1>1. /\ At(h, "insertToken") /\ Go(h, o) /\ issued' = issued + 1
      /\ tokens' = tokens \cup {n} /\ dead' = dead \cup op[h].old
      /\ UNCHANGED <<scenario, clock, requests, login, sessions, opened, used, revoked, moderated, proven>>
  BY <1>0 DEF InsertToken, MailedTo
<1>2. Types /\ TokenRows /\ op[h] \in OpRows /\ issued \in Nat /\ opened \in Nat /\ issued' \in Nat
  <2>1. Types /\ TokenRows /\ issued \in Nat /\ opened \in Nat
    BY DEF AccountInv, Types
  <2>2. issued' \in Nat
    BY <1>1, <2>1
  <2> QED
    BY <1>1, <2>1, <2>2, AtFacts
<1>3. /\ o \in OpRows /\ o.kind = op[h].kind /\ o.acct = op[h].acct /\ o.email = op[h].email
      /\ o.tok = op[h].tok
      /\ o.sess = op[h].sess /\ o.name = op[h].name /\ o.pass = op[h].pass
  BY <1>2 DEF OpRows
<1>4. /\ op[h].kind \in {"register", "forgot", "resend", "changeEmail"}
      /\ op[h].acct \in DOMAIN login /\ op[h].email \in Emails
      /\ Unverified(op[h].acct) => op[h].kind # "changeEmail" /\ login[op[h].acct].email = op[h].email
      /\ op[h].old \subseteq 1..issued /\ \A t \in tokens : t.id \in op[h].old => t.consumed
  BY <1>1, InsertFacts
<1>5. /\ ActionOf(op[h].kind) \in Actions
      /\ ActionOf(op[h].kind) = "EmailChange" <=> op[h].kind = "changeEmail"
  BY <1>4, ActionOfs DEF Actions
<1>6. Mailed(n) /\ n.id = issued + 1 /\ n.consumed = FALSE
  <2>1. op[h].acct \in 1..MaxAccounts
    BY <1>2, <1>4, FewAccounts, LoginRows, ScenarioFacts
  <2>2. clock \in Nat /\ clock + TokenTTL \in Nat
    BY Bounds DEF AccountInv, Types
  <2>3. issued + 1 \in 1..MaxRequests
    BY <1>1, RoomForToken
  <2>4. n \in TokenType
    BY <1>0, <1>4, <1>5, <2>1, <2>2, <2>3 DEF TokenType, Actions
  <2> QED
    BY <1>0, <1>4, <1>5, <2>4 DEF Mailed
<1> HIDE DEF o
<1>7. Advances
  <2>1. \A t \in tokens' : ~t.consumed => t \in tokens \/ t.id > issued
    BY <1>1, <1>2, <1>6
  <2> QED
    BY <1>1, <1>2, <2>1 DEF Advances, Unverified
<1>8. TokenRows'
  <2>1. MaxRequests' = MaxRequests /\ MaxRequests \in Nat
    BY <1>1, <1>2, ScenarioFacts DEF MaxRequests, Scenario
  <2>2. \A t \in tokens : Mailed(t)' /\ t.id <= issued' /\ Usable(t)'
    <3> SUFFICES ASSUME NEW t \in tokens
                 PROVE  Mailed(t)' /\ t.id <= issued' /\ Usable(t)'
      OBVIOUS
    <3>1. Mailed(t) /\ t.id <= issued /\ Usable(t) /\ t.id \in Nat
      BY TokenFacts
    <3>2. Usable(t)'
      BY <1>1, <1>4, <3>1 DEF Usable
    <3> QED
      BY <1>1, <1>2, <1>7, <3>1, <3>2, MailedStays
  <2>3. Mailed(n)' /\ n.id <= issued'
    BY <1>1, <1>2, <1>6, <1>7, MailedStays
  <2>4. Usable(n)'
    <3>1. used[issued + 1] = 0
      BY <1>1, <1>2, RoomForToken DEF TokenRows
    <3>2. issued + 1 \notin dead \cup op[h].old
      BY <1>2, <1>4 DEF TokenRows
    <3> QED
      BY <1>1, <1>6, <3>1, <3>2 DEF Usable
  <2>5. \A t, u \in tokens' : t.id = u.id => t = u
    <3>1. \A t \in tokens : t.id # n.id
      BY <1>2, <1>6, TokenFacts
    <3>2. \A t, u \in tokens : t.id = u.id => t = u
      BY TokenFacts
    <3> QED
      BY <1>1, <3>1, <3>2
  <2>6. used' \in [1..MaxRequests' -> 0..1] /\ dead' \subseteq 1..issued'
    <3>1. used \in [1..MaxRequests -> 0..1] /\ dead \subseteq 1..issued
      BY <1>2 DEF TokenRows
    <3>2. \A i \in 1..issued : i \in 1..(issued + 1)
      BY <1>2
    <3>3. dead \cup op[h].old \subseteq 1..(issued + 1)
      BY <1>4, <3>1, <3>2
    <3> QED
      BY <1>1, <2>1, <3>1, <3>3
  <2>7. \A i \in 1..MaxRequests' : i > issued' => used'[i] = 0
    BY <1>1, <1>2, <2>1 DEF TokenRows
  <2> QED
    BY <1>1, <2>2, <2>3, <2>4, <2>5, <2>6, <2>7 DEF TokenRows
<1>9. ASSUME Onward(h), op'[h] = o
      PROVE  Knows(h)'
  <2>1. SameBusiness(h, "insertToken")
    BY <1>3, <1>9 DEF SameBusiness
  <2> QED
    BY <1>1, <1>7, <1>9, <2>1, OnwardKnows DEF Telling
<1>10. Outcome(h)
  BY <1>1, <1>3, <1>9, GoOrStop
<1> QED
  BY <1>1, <1>7, <1>8, <1>10, TokenStep

\* The token of a link that is consumed, and its account
LEMMA LinkFacts ==
  ASSUME AccountInv, NEW h \in Handlers, At(h, "markConsumed")
  PROVE  /\ op[h].kind \in {"verify", "reset", "confirmEmail"} /\ pc[h] = 2
         /\ Mailed(op[h].tok) /\ op[h].tok.action = ActionOf(op[h].kind)
         /\ op[h].tok.id \in 1..MaxRequests /\ op[h].tok.acct \in DOMAIN login
         /\ op[h].tok.payload \in Emails \cup {""} /\ op[h].tok.to \in Emails
<1>1. op[h].kind \in {"verify", "reset", "confirmEmail"} /\ pc[h] = 2 /\ op[h].kind \in Kinds /\ KnowsToken(h)
  BY AtFacts, Places DEF Knows
<1>2. Past(h, "lookup") /\ ~Past(h, "markConsumed")
  BY <1>1, Befores DEF Past
<1>3. Mailed(op[h].tok) /\ op[h].tok.action = ActionOf(op[h].kind)
  BY <1>1, <1>2 DEF KnowsToken
<1>4. op[h].tok \in TokenType /\ op[h].tok.acct \in DOMAIN login
  BY <1>3 DEF Mailed
<1>5. /\ op[h].tok.id \in 1..MaxRequests /\ op[h].tok.payload \in Emails \cup {""} /\ op[h].tok.to \in Emails
  BY <1>4 DEF TokenType
<1> QED
  BY <1>1, <1>3, <1>4, <1>5

\* Token t is u, number id, after it has been marked.
MarkOf(u, t, id) ==
  /\ u.id = id /\ ~u.consumed /\ t \in TokenType
  /\ t.consumed = TRUE /\ t.id = u.id /\ t.acct = u.acct /\ t.action = u.action
  /\ t.to = u.to /\ t.payload = u.payload

LEMMA MarkedOnce ==
  ASSUME AccountInv, NEW hit, hit \subseteq tokens,
         NEW t \in (tokens \ hit) \cup {[p EXCEPT !.consumed = TRUE] : p \in hit}
  PROVE  \E p \in tokens : p.id = t.id /\ t = (IF p \in hit THEN [p EXCEPT !.consumed = TRUE] ELSE p)
<1>1. CASE t \in tokens \ hit
  BY <1>1
<1>2. CASE t \notin tokens \ hit
  <2>1. PICK p \in hit : t = [p EXCEPT !.consumed = TRUE]
    BY <1>2
  <2>2. p \in TokenType
    BY TokenFacts
  <2>3. p.id = t.id
    BY <2>1, <2>2 DEF TokenType
  <2> QED
    BY <2>1, <2>3
<1> QED
  BY <1>1, <1>2

\* What the tokens are after one has been marked
LEMMA Marked ==
  ASSUME AccountInv, NEW id, NEW hit, hit = Unconsumed(id),
         tokens' = (tokens \ hit) \cup {[t EXCEPT !.consumed = TRUE] : t \in hit},
         NEW t \in tokens'
  PROVE  \/ t \in tokens /\ (~t.consumed => t.id # id)
         \/ \E u \in tokens : MarkOf(u, t, id)
<1>1. CASE t \in tokens \ hit
  BY <1>1 DEF Unconsumed
<1>2. CASE t \notin tokens \ hit
  <2>1. PICK u \in hit : t = [u EXCEPT !.consumed = TRUE]
    BY <1>2
  <2>2. u \in tokens /\ u.id = id /\ ~u.consumed
    BY DEF Unconsumed
  <2>3. u \in TokenType
    BY <2>2, TokenFacts
  <2>4. MarkOf(u, t, id)
    BY <2>1, <2>2, <2>3 DEF MarkOf, TokenType
  <2> QED
    BY <2>2, <2>4
<1> QED
  BY <1>1, <1>2

LEMMA CountedOnce ==
  ASSUME NEW R, NEW f \in [R -> 0..1], NEW i \in R, f[i] = 0
  PROVE  /\ [f EXCEPT ![i] = f[i] + 1] \in [R -> 0..1]
         /\ \A j \in R : j # i => [f EXCEPT ![i] = f[i] + 1][j] = f[j]
<1>1. [f EXCEPT ![i] = f[i] + 1] = [f EXCEPT ![i] = 1]
  OBVIOUS
<1>2. 1 \in 0..1
  OBVIOUS
<1>3. [f EXCEPT ![i] = 1] \in [R -> 0..1] /\ \A j \in R : j # i => [f EXCEPT ![i] = 1][j] = f[j]
  BY <1>2
<1> QED
  BY <1>1, <1>3

LEMMA ConsumedKnows ==
  ASSUME AccountInv, NEW h \in Handlers, At(h, "markConsumed"), Onward(h), login' = login,
         op'[h].acct = op[h].tok.acct, op'[h].email = op[h].tok.payload,
         <<op[h].tok.acct, op[h].tok.to>> \in proven'
  PROVE  Knows(h)'
<1>1. /\ op'[h].kind \in {"verify", "reset", "confirmEmail"} /\ pc'[h] = 3 /\ op'[h].kind \in Kinds
      /\ op'[h].kind = op[h].kind
  <2>1. op[h].kind \in {"verify", "reset", "confirmEmail"} /\ pc[h] = 2
    BY LinkFacts
  <2>2. op'[h].kind = op[h].kind /\ op'[h].kind \in Kinds /\ pc'[h] = pc[h] + 1
    BY OntoNext
  <2> QED
    BY <2>1, <2>2
<1>2. /\ ~Past(h, "create")' /\ ~Past(h, "readUnverified")' /\ ~Past(h, "findEmail")' /\ ~Past(h, "role")'
      /\ ~Past(h, "deleteUnconsumed")' /\ ~Past(h, "setPassword")' /\ Past(h, "markConsumed")'
  BY <1>1, Befores DEF Past
<1> DEFINE a == op[h].tok.acct
<1>3. /\ a \in DOMAIN login
      /\ Unverified(a) => op[h].tok.action # "EmailChange" /\ op[h].tok.to = login[a].email
      /\ op[h].tok.action = "EmailChange" => op[h].tok.payload = op[h].tok.to
      /\ op[h].tok.to \in Emails /\ op[h].tok.action = ActionOf(op[h].kind)
  BY LinkFacts DEF Mailed
<1>4. op[h].kind = "confirmEmail" => op[h].tok.action = "EmailChange"
  BY <1>3, ActionOfs
<1>5. KnowsAccount(h)'
  BY <1>3 DEF KnowsAccount
<1>6. KnowsPlayer(h)' /\ KnowsAddress(h)' /\ KnowsMailbox(h)' /\ KnowsRole(h)'
  BY <1>1, <1>2, <1>3, <1>4 DEF KnowsPlayer, KnowsAddress, KnowsMailbox, KnowsRole
<1>7. KnowsToken(h)' /\ KnowsTokens(h)' /\ KnowsSessions(h)'
  BY <1>2 DEF KnowsToken, KnowsTokens, KnowsSessions
<1>8. KnowsProof(h)'
  BY <1>1, <1>3, <1>4 DEF KnowsProof, Unverified
<1> QED
  BY <1>5, <1>6, <1>7, <1>8 DEF Knows

LEMMA MarkConsumedStep ==
  ASSUME AccountInv, NEW h \in Handlers, scenario' = scenario, MarkConsumed(h)
  PROVE  AccountInv'
<1>0. PICK tok : tok = op[h].tok
  OBVIOUS
<1>00. PICK hit : hit = Unconsumed(tok.id)
  OBVIOUS
<1> DEFINE o == [op[h] EXCEPT !.acct = tok.acct, !.email = tok.payload, !.tok = NoToken]
<1>1. /\ At(h, "markConsumed")
      /\ tokens' = (tokens \ hit) \cup {[t EXCEPT !.consumed = TRUE] : t \in hit}
      /\ UNCHANGED <<scenario, clock, requests, login, sessions, issued, opened, dead, revoked, moderated>>
  BY <1>0, <1>00 DEF MarkConsumed, countVars
<1>2. \/ hit # {} /\ Go(h, o) /\ used' = [used EXCEPT ![tok.id] = @ + 1] /\ proven' = proven \cup {<<tok.acct, tok.to>>}
      \/ hit = {} /\ AlreadyUsed(h) /\ used' = used /\ proven' = proven
  BY <1>0, <1>00 DEF MarkConsumed, Affected
<1>3. /\ Types /\ TokenRows /\ op[h] \in OpRows /\ issued \in Nat /\ opened \in Nat
  BY <1>1, AtFacts DEF AccountInv, Types
<1>4. /\ tok.id \in 1..MaxRequests /\ tok.acct \in DOMAIN login /\ tok.acct \in Nat
      /\ tok.payload \in Emails \cup {""} /\ tok.to \in Emails
  <2>1. /\ tok.id \in 1..MaxRequests /\ tok.acct \in DOMAIN login
        /\ tok.payload \in Emails \cup {""} /\ tok.to \in Emails
    BY <1>0, <1>1, LinkFacts
  <2>2. DOMAIN login \subseteq Nat
    BY <1>3, LoginRows
  <2> QED
    BY <2>1, <2>2
<1>5. Advances
  <2>1. \A t \in tokens' : ~t.consumed => t \in tokens \/ t.id > issued
    BY <1>00, <1>1, Marked DEF MarkOf
  <2> QED
    BY <1>1, <1>2, <1>3, <2>1 DEF Advances, Unverified
<1>6. /\ o \in OpRows /\ o.kind = op[h].kind /\ o.acct = tok.acct /\ o.email = tok.payload
  BY <1>3, <1>4 DEF OpRows, NoToken
<1> HIDE DEF o
<1>7. Outcome(h)
  <2>1. ASSUME Go(h, o), proven' = proven \cup {<<tok.acct, tok.to>>}, Onward(h), op'[h] = o
        PROVE  Knows(h)'
    <3>1. <<tok.acct, tok.to>> \in proven'
      BY <2>1
    <3> QED
      BY <1>0, <1>1, <1>6, <2>1, <3>1, ConsumedKnows
  <2>2. CASE AlreadyUsed(h)
    BY <1>1, <2>2, AlreadyUsedOutcome
  <2>3. CASE Go(h, o) /\ proven' = proven \cup {<<tok.acct, tok.to>>}
    BY <1>1, <1>6, <2>1, <2>3, GoOrStop
  <2> QED
    BY <1>2, <2>2, <2>3
<1>8. /\ \A t \in hit : t \in tokens /\ t.id = tok.id /\ ~t.consumed
      /\ hit # {} => used[tok.id] = 0 /\ tok.id <= issued
  <2>1. \A t \in hit : t \in tokens /\ t.id = tok.id /\ ~t.consumed
    BY <1>00 DEF Unconsumed
  <2> QED
    BY <2>1, TokenFacts DEF Usable
<1>9. TokenRows'
  <2>1. MaxRequests' = MaxRequests /\ MaxRequests \in Nat
    BY <1>1, <1>3, ScenarioFacts DEF MaxRequests, Scenario
  <2>2. /\ used' \in [1..MaxRequests -> 0..1]
        /\ \A i \in 1..MaxRequests : i # tok.id \/ hit = {} => used'[i] = used[i]
        /\ \A i \in 1..MaxRequests : i > issued => used'[i] = 0
    <3>1. used \in [1..MaxRequests -> 0..1] /\ \A i \in 1..MaxRequests : i > issued => used[i] = 0
      BY <1>3 DEF TokenRows
    <3>2. CASE hit # {}
      <4>1. used' = [used EXCEPT ![tok.id] = used[tok.id] + 1] /\ used[tok.id] = 0 /\ tok.id <= issued
        BY <1>2, <1>8, <3>2
      <4>2. used' \in [1..MaxRequests -> 0..1] /\ \A i \in 1..MaxRequests : i # tok.id => used'[i] = used[i]
        BY <1>4, <3>1, <4>1, CountedOnce
      <4>3. \A i \in 1..MaxRequests : i > issued => i # tok.id
        BY <1>3, <2>1, <4>1
      <4> QED
        BY <3>1, <3>2, <4>2, <4>3
    <3>3. CASE hit = {}
      BY <1>2, <3>1, <3>3
    <3> QED
      BY <3>2, <3>3
  <2>3. ASSUME NEW t \in tokens'
        PROVE  Mailed(t)' /\ t.id <= issued' /\ Usable(t)'
    <3>1. CASE t \in tokens /\ (~t.consumed => t.id # tok.id)
      BY <1>1, <1>5, <2>2, <3>1, TokenFacts, MailedStays DEF Usable
    <3>2. CASE ~(t \in tokens /\ (~t.consumed => t.id # tok.id))
      <4>1. \E u \in tokens : MarkOf(u, t, tok.id)
        BY <1>00, <1>1, <3>2, Marked
      <4>11. PICK u \in tokens : MarkOf(u, t, tok.id)
        BY <4>1
      <4>2. Mailed(u) /\ u.id <= issued
        BY TokenFacts
      <4>3. Mailed(t)
        BY <4>11, <4>2 DEF Mailed, MarkOf
      <4> QED
        BY <1>1, <1>5, <4>11, <4>2, <4>3, MailedStays DEF Usable, MarkOf
    <3> QED
      BY <3>1, <3>2
  <2>4. ASSUME NEW t \in tokens', NEW u \in tokens', t.id = u.id
        PROVE  t = u
    <3>1. hit \subseteq tokens
      BY <1>8
    <3>2. PICK p \in tokens : p.id = t.id /\ t = (IF p \in hit THEN [p EXCEPT !.consumed = TRUE] ELSE p)
      BY <1>1, <3>1, MarkedOnce
    <3>3. PICK q \in tokens : q.id = u.id /\ u = (IF q \in hit THEN [q EXCEPT !.consumed = TRUE] ELSE q)
      BY <1>1, <3>1, MarkedOnce
    <3>4. p = q
      BY <2>4, <3>2, <3>3, TokenFacts
    <3> QED
      BY <3>2, <3>3, <3>4
  <2>5. dead' \subseteq 1..issued'
    BY <1>1, <1>3 DEF TokenRows
  <2> QED
    BY <1>1, <2>1, <2>2, <2>3, <2>4, <2>5 DEF TokenRows
<1> QED
  BY <1>1, <1>2, <1>3, <1>5, <1>7, <1>9, TokenStep

-----------------------------------------------------------------------------
(* The rows of login                                                       *)

\* Row a of login becomes row, and no other row changes.
ChangedRow(a, row) ==
  /\ login' \in Seq(RowsOf(Scenario)) /\ DOMAIN login' = DOMAIN login /\ Len(login') = Len(login)
  /\ login'[a] = row /\ \A b \in DOMAIN login : b # a => login'[b] = login[b]

LEMMA ExceptRow ==
  ASSUME Types, NEW a \in DOMAIN login, NEW row \in RowsOf(Scenario), login' = [login EXCEPT ![a] = row]
  PROVE  ChangedRow(a, row)
<1> DEFINE R == RowsOf(Scenario)
           n == Len(login)
<1>1. n \in Nat /\ login \in [1..n -> R] /\ a \in 1..n /\ row \in R
  BY LoginRows
<1> HIDE DEF R, n
<1>2. login' \in [1..n -> R] /\ login'[a] = row /\ \A b \in 1..n : b # a => login'[b] = login[b]
  BY <1>1
<1>3. login' \in Seq(R) /\ Len(login') = n /\ DOMAIN login' = 1..n /\ DOMAIN login = 1..n
  BY <1>1, <1>2
<1> QED
  BY <1>2, <1>3 DEF ChangedRow, R, n

LEMMA RowWritten ==
  ASSUME Types, Identities, NEW a \in DOMAIN login, NEW row \in RowsOf(Scenario), ChangedRow(a, row),
         UNCHANGED <<scenario, tokens, sessions, issued, opened, proven>>, moderated \subseteq moderated',
         row.name = login[a].name,
         row.email = login[a].email \/ \A b \in DOMAIN login \ {a} : login[b].email # row.email,
         row.state = StateUnverified => Unverified(a) /\ row.email = login[a].email,
         row.state = StateActive /\ a \notin moderated' => <<a, row.email>> \in proven
  PROVE  Advances /\ Identities'
<1>1. Advances
  <2>1. ASSUME NEW b \in DOMAIN login, login'[b].state = StateUnverified
        PROVE  Unverified(b) /\ login'[b].email = login[b].email
    BY <2>1 DEF ChangedRow, Unverified
  <2>2. issued \in Nat /\ opened \in Nat
    BY DEF Types
  <2> QED
    BY <2>1, <2>2 DEF Advances, ChangedRow, Unverified
<1>2. UniqueIdentity'
  BY DEF Identities, UniqueIdentity, ChangedRow
<1>3. EmailProven'
  BY DEF Identities, EmailProven, ChangedRow
<1>4. KnownAddresses'
  BY DEF Identities, KnownAddresses, ChangedRow, Unverified
<1> QED
  BY <1>1, <1>2, <1>3, <1>4 DEF Identities

LEMMA RowFields ==
  ASSUME Types, NEW a \in DOMAIN login
  PROVE  /\ login[a] \in RowsOf(Scenario)
         /\ login[a].state \in {StateActive, StateUnverified, StatePermaBanned}
         /\ login[a].pass \in Scenario.passwords /\ login[a].unban \in Nat
<1>1. login[a] \in RowsOf(Scenario)
  BY LoginRows
<1> QED
  BY <1>1 DEF RowsOf

\* The handlers that change an account know it.
LEMMA WriterAccount ==
  ASSUME AccountInv, NEW h \in Handlers, NEW c \in {"markVerified", "setPassword", "setEmail", "updateBan"}, At(h, c)
  PROVE  op[h].acct \in DOMAIN login
<1>1. /\ op[h].kind \in Kinds /\ pc[h] \in Nat
      /\ \/ op[h].kind = "verify" /\ pc[h] = 3
         \/ op[h].kind = "reset" /\ pc[h] \in {4, 6}
         \/ op[h].kind = "changePass" /\ pc[h] = 6
         \/ op[h].kind = "confirmEmail" /\ pc[h] = 6
         \/ op[h].kind \in Moderation
  BY AtFacts, Places
<1>2. op[h].kind \in Moderation \/ Past(h, "markConsumed") \/ Past(h, "validate")
  BY <1>1, Befores DEF Past
<1> QED
  BY <1>2, AtFacts DEF Knows, KnowsAccount

\* A step that writes one row and leaves tokens and sessions alone
LEMMA RowStep ==
  ASSUME AccountInv, Advances, NEW h \in Handlers, NEW c \in {"markVerified", "setPassword", "setEmail", "updateBan"},
         At(h, c), Outcome(h), Identities',
         NEW a \in DOMAIN login, NEW row, ChangedRow(a, row),
         (row.name = login[a].name /\ row.email = login[a].email) \/ c = "setEmail",
         UNCHANGED <<scenario, clock, requests, tokens, sessions, issued, opened, used, dead, revoked>>
  PROVE  AccountInv'
<1>1. Types /\ TokenRows /\ SessionRows
  BY DEF AccountInv
<1>2. TokenRows' /\ SessionRows'
  BY <1>1, TokenRowsStay, SessionRowsStay
<1>3. /\ login' \in Seq(RowsOf(Scenario)) /\ Len(login') <= Len(login) /\ issued' <= issued
  BY <1>1, LoginRows DEF Types, ChangedRow
<1>4. SameNames \/ Writing(h)
  BY DEF SameNames, ChangedRow, Writing
<1> QED
  BY <1>2, <1>3, <1>4, HandlerStep

LEMMA MarkVerifiedStep ==
  ASSUME AccountInv, NEW h \in Handlers, scenario' = scenario, MarkVerified(h)
  PROVE  AccountInv'
<1>1. PICK a : a = op[h].acct
  OBVIOUS
<1>2. PICK row : row = Verified(login[a])
  OBVIOUS
<1>3. /\ At(h, "markVerified") /\ login' = [login EXCEPT ![a] = row] /\ Go(h, op[h])
      /\ UNCHANGED <<scenario, clock, requests, tokens, sessions, issued, opened, used, dead, revoked,
                     proven, moderated>>
  BY <1>1, <1>2 DEF MarkVerified, countVars, historyVars
<1>4. Types /\ Identities /\ a \in DOMAIN login
  BY <1>1, <1>3, WriterAccount DEF AccountInv
<1>5. /\ row \in RowsOf(Scenario) /\ row.name = login[a].name /\ row.email = login[a].email
      /\ row.state # StateUnverified
      /\ (row.state = StateActive => login[a].state = StateActive \/ Unverified(a))
  BY <1>2, <1>4, RowFields DEF Verified, RowsOf, Unverified, StateActive, StateUnverified, StatePermaBanned
<1>6. Unverified(a) => <<a, login[a].email>> \in proven
  <2>1. /\ op[h].kind \in {"verify", "reset"} /\ op[h].kind \in Kinds /\ pc[h] \in Nat
        /\ op[h].kind = "verify" => pc[h] = 3
        /\ op[h].kind = "reset" => pc[h] = 6
    BY <1>3, AtFacts, Places
  <2>2. Past(h, "markConsumed") /\ ~Past(h, "validate")
    BY <2>1, Befores DEF Past
  <2>3. KnowsProof(h)
    BY <1>3, AtFacts DEF Knows
  <2> QED
    BY <1>1, <2>1, <2>2, <2>3 DEF KnowsProof
<1>7. row.state = StateActive /\ a \notin moderated => <<a, row.email>> \in proven
  BY <1>4, <1>5, <1>6 DEF Identities, EmailProven
<1>8. ChangedRow(a, row)
  BY <1>3, <1>4, <1>5, ExceptRow
<1>9. Advances /\ Identities'
  BY <1>3, <1>4, <1>5, <1>7, <1>8, RowWritten
<1>10. Outcome(h)
  BY <1>3, <1>9, QuietOutcome DEF Telling
<1> QED
  BY <1>3, <1>4, <1>5, <1>8, <1>9, <1>10, RowStep

LEMMA SetEmailStep ==
  ASSUME AccountInv, NEW h \in Handlers, scenario' = scenario, SetEmail(h)
  PROVE  AccountInv'
<1>1. PICK a : a = op[h].acct
  OBVIOUS
<1>2. PICK row : row = [login[a] EXCEPT !.email = op[h].email]
  OBVIOUS
<1>3. /\ At(h, "setEmail") /\ login' = [login EXCEPT ![a] = row] /\ Go(h, op[h])
      /\ UNCHANGED <<scenario, clock, requests, tokens, sessions, issued, opened, used, dead, revoked,
                     proven, moderated>>
  BY <1>1, <1>2 DEF SetEmail, SetRow, countVars, historyVars
<1>4. Types /\ Identities /\ a \in DOMAIN login
  BY <1>1, <1>3, WriterAccount DEF AccountInv
<1>5. /\ op[h].email \in Emails /\ <<a, op[h].email>> \in proven /\ ~Unverified(a)
      /\ \A b \in DOMAIN login \ {a} : login[b].email # op[h].email
  <2>1. op[h].kind = "confirmEmail" /\ op[h].kind \in Kinds /\ pc[h] = 6 /\ Knows(h)
    BY <1>3, AtFacts, Places
  <2>2. Past(h, "markConsumed")
    BY <2>1, Befores DEF Past
  <2>3. op[h].email \in Emails /\ <<a, op[h].email>> \in proven /\ ~Unverified(a)
    BY <1>1, <2>1, <2>2 DEF Knows, KnowsAddress, KnowsProof
  <2>4. ~Taken(op[h])
    BY <1>3 DEF AccountInv, Locks, Writing
  <2> QED
    BY <1>1, <2>3, <2>4 DEF Taken
<1>6. /\ row \in RowsOf(Scenario) /\ row.name = login[a].name /\ row.email = op[h].email
      /\ row.state = login[a].state
  BY <1>2, <1>4, <1>5, RowFields DEF RowsOf
<1>7. ChangedRow(a, row)
  BY <1>3, <1>4, <1>6, ExceptRow
<1>8. Advances /\ Identities'
  BY <1>3, <1>4, <1>5, <1>6, <1>7, RowWritten DEF Unverified
<1>9. Outcome(h)
  BY <1>3, <1>8, QuietOutcome DEF Telling
<1> QED
  BY <1>3, <1>4, <1>7, <1>8, <1>9, RowStep

LEMMA UpdateBanStep ==
  ASSUME AccountInv, NEW h \in Handlers, scenario' = scenario, UpdateBan(h)
  PROVE  AccountInv'
<1>1. PICK a : a = op[h].acct
  OBVIOUS
<1>2. PICK row : row = [login[a] EXCEPT
                          !.state = IF op[h].kind \in {"ban", "chargeback"} THEN StatePermaBanned ELSE StateActive,
                          !.unban = IF op[h].kind = "tempBan" THEN clock + BanTime ELSE Never]
  OBVIOUS
<1>3. /\ At(h, "updateBan") /\ login' = [login EXCEPT ![a] = row] /\ Go(h, op[h]) /\ moderated' = moderated \cup {a}
      /\ UNCHANGED <<scenario, clock, requests, tokens, sessions, issued, opened, used, dead, revoked,
                     proven>>
  BY <1>1, <1>2 DEF UpdateBan, countVars
<1>4. Types /\ Identities /\ a \in DOMAIN login
  BY <1>1, <1>3, WriterAccount DEF AccountInv
<1>5. /\ row \in RowsOf(Scenario) /\ row.name = login[a].name /\ row.email = login[a].email
      /\ row.state \in {StateActive, StatePermaBanned}
  <2>1. clock + BanTime \in Nat /\ Never \in Nat
    BY <1>4, Bounds DEF Types, Never
  <2> QED
    BY <1>2, <1>4, <2>1, RowFields DEF RowsOf
<1>6. ChangedRow(a, row)
  BY <1>3, <1>4, <1>5, ExceptRow
<1>7. row.state # StateUnverified /\ moderated \subseteq moderated' /\ a \in moderated'
  BY <1>3, <1>5 DEF StateActive, StateUnverified, StatePermaBanned
<1>8. Advances /\ Identities'
  BY <1>3, <1>4, <1>5, <1>6, <1>7, RowWritten
<1>9. Outcome(h)
  BY <1>3, <1>8, QuietOutcome DEF Telling
<1> QED
  BY <1>3, <1>4, <1>5, <1>6, <1>8, <1>9, RowStep

LEMMA SetPasswordKnows ==
  ASSUME AccountInv, Advances, NEW h \in Handlers, At(h, "setPassword"), Onward(h),
         op'[h].acct = op[h].acct, op'[h].sess = op[h].sess, op'[h].old = Others(h),
         UNCHANGED <<sessions, opened>>
  PROVE  Knows(h)'
<1>1. /\ op'[h].kind \in {"reset", "changePass"} /\ op'[h].kind \in Kinds /\ op'[h].kind = op[h].kind
      /\ pc'[h] \in Nat /\ pc[h] \in Nat /\ pc'[h] = pc[h] + 1
      /\ op[h].kind = "reset" => pc[h] = 4
      /\ op[h].kind = "changePass" => pc[h] = 6
      /\ Knows(h)
  BY OntoNext, Places
<1>2. \A m : Past(h, m)' <=> Past(h, m) \/ m = "setPassword"
  BY OnwardPast
<1>3. /\ ~Past(h, "create") /\ ~Past(h, "readUnverified") /\ ~Past(h, "findEmail")
      /\ ~Past(h, "deleteUnconsumed") /\ (Past(h, "lookup") => Past(h, "markConsumed"))
      /\ ~Past(h, "credentials") /\ (Past(h, "role") => Past(h, "validate"))
  BY <1>1, Befores DEF Past
<1>4. op[h].acct \in DOMAIN login
  BY WriterAccount
<1>5. KnowsAccount(h)' /\ KnowsPlayer(h)' /\ KnowsAddress(h)' /\ KnowsMailbox(h)'
  BY <1>1, <1>2, <1>3, <1>4 DEF KnowsAccount, KnowsPlayer, KnowsAddress, KnowsMailbox, Advances
<1>6. KnowsRole(h)'
  BY <1>1, <1>2, <1>4 DEF Knows, KnowsRole, Advances
<1>7. KnowsToken(h)' /\ KnowsTokens(h)'
  BY <1>2, <1>3 DEF KnowsToken, KnowsTokens
<1>8. KnowsProof(h)'
  BY <1>1, <1>2, <1>4 DEF Knows, KnowsProof, Advances
<1>9. KnowsSessions(h)'
  <2>1. ASSUME NEW s \in sessions, s.id \in Others(h)
        PROVE  s.acct = op[h].acct
    BY <2>1 DEF Others, AccountInv, SessionRows
  <2>2. Others(h) \subseteq 1..opened /\ op[h].sess \notin Others(h)
    BY DEF Others, AccountInv, SessionRows
  <2> QED
    BY <2>1, <2>2 DEF KnowsSessions
<1> QED
  BY <1>5, <1>6, <1>7, <1>8, <1>9 DEF Knows

LEMMA SetPasswordStep ==
  ASSUME AccountInv, NEW h \in Handlers, scenario' = scenario, SetPassword(h)
  PROVE  AccountInv'
<1>1. PICK a : a = op[h].acct
  OBVIOUS
<1>2. PICK p \in Scenario.passwords : SetRow(h, "pass", p)
  BY DEF SetPassword
<1>3. PICK row : row = [login[a] EXCEPT !.pass = p]
  OBVIOUS
<1> DEFINE o == [op[h] EXCEPT !.old = Others(h)]
<1>4. /\ At(h, "setPassword") /\ login' = [login EXCEPT ![a] = row] /\ Go(h, o)
      /\ UNCHANGED <<scenario, clock, requests, tokens, sessions, issued, opened, used, dead, revoked,
                     proven, moderated>>
  BY <1>1, <1>2, <1>3 DEF SetPassword, SetRow, countVars, historyVars
<1>5. Types /\ Identities /\ a \in DOMAIN login /\ op[h] \in OpRows
  BY <1>1, <1>4, WriterAccount, AtFacts DEF AccountInv
<1>6. /\ row \in RowsOf(Scenario) /\ row.name = login[a].name /\ row.email = login[a].email
      /\ row.state = login[a].state
  BY <1>2, <1>3, <1>5, RowFields DEF RowsOf
<1>7. ChangedRow(a, row)
  BY <1>4, <1>5, <1>6, ExceptRow
<1>8. row.state = StateActive /\ a \notin moderated => <<a, row.email>> \in proven
  BY <1>5, <1>6 DEF Identities, EmailProven
<1>9. Advances /\ Identities'
  BY <1>4, <1>5, <1>6, <1>7, <1>8, RowWritten DEF Unverified
<1>10. Others(h) \subseteq Nat
  BY DEF Others, AccountInv, SessionRows
<1>11. /\ o \in OpRows /\ o.kind = op[h].kind /\ o.acct = op[h].acct /\ o.sess = op[h].sess
       /\ o.old = Others(h)
  BY <1>5, <1>10 DEF OpRows
<1> HIDE DEF o
<1>12. ASSUME Onward(h), op'[h] = o
       PROVE  Knows(h)'
  BY <1>4, <1>9, <1>11, <1>12, SetPasswordKnows
<1>13. Outcome(h)
  BY <1>4, <1>11, <1>12, GoOrStop
<1> QED
  BY <1>4, <1>5, <1>6, <1>7, <1>9, <1>13, RowStep

LEMMA RecordStep ==
  ASSUME AccountInv, NEW h \in Handlers, scenario' = scenario,
         NEW c \in {"recordPassword", "recordEmail"}, NEW field, Record(h, c, field)
  PROVE  AccountInv'
<1>1. /\ At(h, c) /\ Go(h, op[h])
      /\ UNCHANGED <<scenario, clock, requests, login, tokens, sessions, issued, opened, used, dead, revoked, proven,
                     moderated>>
  BY DEF Record, countVars, historyVars
<1>2. Advances
  BY <1>1, QuietAdvances DEF AccountInv
<1>3. Outcome(h)
  BY <1>1, <1>2, QuietOutcome DEF Telling
<1>4. SessionRows'
  BY <1>1, <1>2, SessionRowsStay DEF AccountInv
<1> QED
  BY <1>1, <1>2, <1>3, <1>4, SessionStep

\* The new account has the next number, and is the handler's.
LEMMA CreateStep ==
  ASSUME AccountInv, NEW h \in Handlers, scenario' = scenario, Create(h)
  PROVE  AccountInv'
<1>1. PICK row : row = [name |-> op[h].name, email |-> op[h].email, pass |-> op[h].pass,
                        state |-> InitialState, unban |-> Never]
  OBVIOUS
<1>2. PICK n : n = Len(login) + 1
  OBVIOUS
<1> DEFINE o == [op[h] EXCEPT !.acct = n, !.name = "", !.pass = ""]
<1>3. /\ At(h, "create") /\ login' = Append(login, row) /\ Go(h, o)
      /\ UNCHANGED <<scenario, clock, requests, tokens, sessions, issued, opened, used, dead, revoked,
                     proven, moderated>>
  BY <1>1, <1>2 DEF Create, countVars, historyVars
<1>4. /\ Types /\ Identities /\ TokenRows /\ SessionRows /\ op[h] \in OpRows /\ Knows(h)
      /\ op[h].kind = "register" /\ pc[h] = 3 /\ op[h].kind \in Kinds
  BY <1>3, AtFacts, Places DEF AccountInv
<1>5. /\ op[h].acct = 0 /\ op[h].name \in Names /\ op[h].pass \in Scenario.passwords /\ op[h].email \in Emails
  <2>1. ~Past(h, "create")
    BY <1>4, Befores DEF Past
  <2> QED
    BY <1>4, <2>1 DEF Knows, KnowsPlayer, KnowsAddress
<1>6. /\ row \in RowsOf(Scenario) /\ row.state = StateUnverified /\ row.email = op[h].email /\ row.name = op[h].name
  BY <1>1, <1>5 DEF RowsOf, InitialState, Never
<1>7. /\ login \in Seq(RowsOf(Scenario)) /\ Len(login) \in Nat /\ DOMAIN login = 1..Len(login)
      /\ n \in Nat /\ n \notin DOMAIN login
  BY <1>2, <1>4, LoginRows DEF Types
<1>8. /\ login' \in Seq(RowsOf(Scenario)) /\ Len(login') = n /\ DOMAIN login' = DOMAIN login \cup {n}
      /\ login'[n] = row /\ \A a \in DOMAIN login : login'[a] = login[a]
  <2>1. login' \in Seq(RowsOf(Scenario)) /\ Len(login') = n
    BY <1>2, <1>3, <1>6, <1>7, AppendProperties
  <2>2. login'[n] = row /\ \A a \in 1..Len(login) : login'[a] = login[a]
    BY <1>2, <1>3, <1>6, <1>7, AppendProperties
  <2>3. DOMAIN login' = 1..n
    BY <2>1, LenProperties
  <2>4. 1..n = 1..Len(login) \cup {n}
    BY <1>2, <1>7
  <2> QED
    BY <1>7, <2>1, <2>2, <2>3, <2>4
<1>9. Advances
  <2>1. issued \in Nat /\ opened \in Nat
    BY <1>4 DEF Types
  <2> QED
    BY <1>3, <1>7, <1>8, <2>1 DEF Advances, Unverified
<1>10. \A a \in DOMAIN login : login[a].name # row.name /\ login[a].email # row.email
  <2>1. ~Taken(op[h])
    BY <1>3 DEF AccountInv, Locks, Writing
  <2>2. \A a \in DOMAIN login : a # op[h].acct
    BY <1>5, <1>7
  <2> QED
    BY <1>6, <2>1, <2>2 DEF Taken
<1>11. Identities'
  <2>1. UniqueIdentity'
    <3>1. ASSUME NEW a \in DOMAIN login', NEW b \in DOMAIN login', a # b
          PROVE  login'[a].name # login'[b].name /\ login'[a].email # login'[b].email
      BY <1>4, <1>8, <1>10, <3>1 DEF Identities, UniqueIdentity
    <3> QED
      BY <3>1 DEF UniqueIdentity
  <2>2. EmailProven'
    BY <1>3, <1>4, <1>6, <1>8 DEF Identities, EmailProven, StateActive, StateUnverified
  <2>3. KnownAddresses'
    BY <1>4, <1>5, <1>6, <1>8 DEF Identities, KnownAddresses, Unverified
  <2> QED
    BY <2>1, <2>2, <2>3 DEF Identities
<1>12. TokenRows' /\ SessionRows'
  BY <1>3, <1>4, <1>9, TokenRowsStay, SessionRowsStay
<1>13. /\ o \in OpRows /\ o.kind = op[h].kind /\ o.acct = n /\ o.email = op[h].email
  BY <1>4, <1>7 DEF OpRows
<1> HIDE DEF o
<1>14. ASSUME Onward(h), op'[h] = o
       PROVE  Knows(h)'
  <2>1. op'[h].kind = "register" /\ pc'[h] = 4 /\ op'[h].kind \in Kinds /\ pc'[h] \in Nat
    BY <1>3, <1>4, <1>14, OntoNext
  <2>2. op'[h].acct \in DOMAIN login' /\ op'[h].email \in Emails /\ login'[op'[h].acct].email = op'[h].email
    BY <1>5, <1>6, <1>8, <1>13, <1>14
  <2>3. /\ Past(h, "create")' /\ ~Past(h, "lookup")' /\ ~Past(h, "role")' /\ ~Past(h, "markConsumed")'
        /\ ~Past(h, "deleteUnconsumed")' /\ ~Past(h, "setPassword")'
    BY <2>1, Befores DEF Past
  <2> QED
    BY <2>1, <2>2, <2>3 DEF Knows, KnowsAccount, KnowsPlayer, KnowsAddress, KnowsMailbox, KnowsRole,
       KnowsToken, KnowsProof, KnowsTokens, KnowsSessions
<1>15. Outcome(h)
  BY <1>3, <1>13, <1>14, GoOrStop
<1>16. Writing(h) /\ Len(login') = Len(login) + 1 /\ issued' <= issued
  BY <1>2, <1>3, <1>4, <1>8 DEF Writing, Types
<1> QED
  BY <1>3, <1>8, <1>9, <1>11, <1>12, <1>15, <1>16, HandlerStep

-----------------------------------------------------------------------------
(* Time, the sweeper, failures and crashes                                 *)

LEMMA QuietTables ==
  ASSUME AccountInv, UNCHANGED <<scenario, login, tokens, issued, opened,
                                 historyVars>>, sessions' \subseteq sessions
  PROVE  Advances /\ Identities' /\ TokenRows' /\ SessionRows'
<1>1. Types /\ Identities /\ TokenRows /\ SessionRows
  BY DEF AccountInv
<1>2. UNCHANGED <<used, dead, revoked, proven, moderated>>
  BY DEF historyVars
<1>3. Advances
  BY <1>1, <1>2, QuietAdvances
<1> QED
  BY <1>1, <1>2, <1>3, IdentitiesStay, TokenRowsStay, SessionRowsStay

\* No handler comes to owe a row or a token.
LEMMA CountsLeft ==
  ASSUME AccountInv, UNCHANGED <<scenario, login, issued, requests>>,
         Owing("create")' \subseteq Owing("create"), Owing("insertToken")' \subseteq Owing("insertToken")
  PROVE  Counts'
<1>1. /\ Len(login) \in Nat /\ issued \in Nat /\ requests \in Nat
      /\ Len(Scenario.rows) \in Nat
      /\ Len(login) + Cardinality(Owing("create")) <= Len(Scenario.rows) + requests
      /\ issued + Cardinality(Owing("insertToken")) <= requests
  BY LoginRows, ScenarioFacts DEF AccountInv, Counts, Types
<1>2. /\ Cardinality(Owing("create")) \in Nat /\ Cardinality(Owing("create")') \in Nat
      /\ Cardinality(Owing("insertToken")) \in Nat /\ Cardinality(Owing("insertToken")') \in Nat
  BY OwingFinite, OwingFinitePrimed
<1>3. Cardinality(Owing("create")') <= Cardinality(Owing("create"))
  BY FewerOwe
<1>4. Cardinality(Owing("insertToken")') <= Cardinality(Owing("insertToken"))
  BY FewerOwe
<1>5. Len(login) + Cardinality(Owing("create")') <= Len(Scenario.rows) + requests
  BY <1>1, <1>2, <1>3
<1>6. issued + Cardinality(Owing("insertToken")') <= requests
  BY <1>1, <1>2, <1>4
<1>7. Scenario' = Scenario
  BY DEF Scenario
<1> QED
  BY <1>5, <1>6, <1>7 DEF Counts

LEMMA IdleStep ==
  ASSUME AccountInv, UNCHANGED <<scenario, login, tokens, handlerVars, requests, issued, opened,
                                 historyVars>>,
         sessions' \subseteq sessions, clock' \in Nat
  PROVE  AccountInv'
<1>1. Advances /\ Identities' /\ TokenRows' /\ SessionRows'
  BY QuietTables
<1>2. UNCHANGED <<mu, pc, op>>
  BY DEF handlerVars
<1>3. Handling'
  BY <1>1, <1>2, HandlingStays
<1>4. Types'
  BY <1>2 DEF AccountInv, Types, Scenario, MaxRequests
<1>5. \A h \in Handlers : (Locked(h)' <=> Locked(h)) /\ (Writing(h)' <=> Writing(h)) /\ (Taken(op[h])' <=> Taken(op[h]))
  BY <1>2 DEF Locked, Past, Writing, At, Calls, Taken
<1>6. Locks'
  BY <1>2, <1>5 DEF AccountInv, Locks
<1>7. Owing("create")' \subseteq Owing("create") /\ Owing("insertToken")' \subseteq Owing("insertToken")
  BY <1>2 DEF Owing, Owes
<1>8. Counts'
  BY <1>7, CountsLeft
<1> QED
  BY <1>1, <1>3, <1>4, <1>6, <1>8 DEF AccountInv

LEMMA HandlerFailsStep ==
  ASSUME AccountInv, NEW h \in Handlers, scenario' = scenario, HandlerFails(h)
  PROVE  AccountInv'
<1>1. /\ Stop(h)
      /\ UNCHANGED <<scenario, login, tokens, sessions, clock, requests, issued, opened, historyVars>>
  BY DEF HandlerFails, dbVars
<1>2. Advances /\ Identities' /\ TokenRows' /\ SessionRows'
  BY <1>1, QuietTables
<1>3. Acts(h) /\ Ended(h)
  BY <1>1, StopEnds
<1>4. Handling'
  BY <1>2, <1>3, HandlingStep
<1>5. Types'
  BY <1>1, <1>3, TypesStep DEF AccountInv, Types
<1>6. Locks'
  <2>1. /\ mu \in Handlers \cup {"free"} /\ "free" \notin Handlers
        /\ \A g \in Handlers : mu = g <=> Locked(g)
        /\ \A g \in Handlers : Writing(g) => ~Taken(op[g])
    BY Bounds DEF AccountInv, Locks
  <2>2. ~Locked(h)' /\ ~Writing(h)'
    BY <1>3 DEF Ended, Locked, Writing, At
  <2>3. \A g \in Handlers \ {h} : (Locked(g)' <=> Locked(g)) /\ (Writing(g)' <=> Writing(g)) /\ op'[g] = op[g]
    BY <1>3, OthersLocked
  <2>4. mu' = IF mu = h THEN "free" ELSE mu
    BY <1>3 DEF Ended
  <2>5. mu' \in Handlers \cup {"free"} /\ \A g \in Handlers : mu' = g <=> Locked(g)'
    BY <2>1, <2>2, <2>3, <2>4
  <2>6. \A g \in Handlers : Writing(g)' => ~Taken(op[g])'
    BY <1>1, <2>1, <2>2, <2>3 DEF Taken
  <2> QED
    BY <2>5, <2>6 DEF Locks
<1>7. ASSUME NEW c
      PROVE  Owing(c)' \subseteq Owing(c)
  BY <1>3 DEF Acts, Ended, Owing, Owes
<1>8. Counts'
  BY <1>1, <1>7, CountsLeft
<1> QED
  BY <1>2, <1>4, <1>5, <1>6, <1>8 DEF AccountInv

\* The lock and the handlers are in the memory of the panel.
LEMMA PanelCrashStep ==
  ASSUME AccountInv, scenario' = scenario, PanelCrash
  PROVE  AccountInv'
<1>1. /\ mu' = "free" /\ pc' = [h \in Handlers |-> 0] /\ op' = [h \in Handlers |-> NoOp]
      /\ UNCHANGED <<scenario, login, tokens, sessions, clock, requests, issued, opened, historyVars>>
  BY DEF PanelCrash, dbVars
<1>2. Advances /\ Identities' /\ TokenRows' /\ SessionRows'
  BY <1>1, QuietTables
<1>3. \A h \in Handlers : pc'[h] = 0
  BY <1>1
<1>4. Handling'
  BY <1>3 DEF Handling
<1>5. pc' \in [Handlers -> Nat] /\ op' \in [Handlers -> OpRows]
  BY <1>1, NoOpTyped
<1>6. Types'
  BY <1>1, <1>5 DEF AccountInv, Types, Scenario, MaxRequests
<1>7. Locks'
  BY <1>1, <1>3, Bounds DEF Locks, Locked, Writing, At
<1>8. ASSUME NEW c
      PROVE  Owing(c)' \subseteq Owing(c)
  BY <1>3 DEF Owing, Owes
<1>9. Counts'
  BY <1>1, <1>8, CountsLeft
<1> QED
  BY <1>2, <1>4, <1>6, <1>7, <1>9 DEF AccountInv

-----------------------------------------------------------------------------
(* A request                                                               *)

\* What it brings
Brought(o) ==
  /\ o \in OpRows /\ o.kind \in Kinds
  /\ o.kind = "register" => o.acct = 0 /\ o.name \in Names /\ o.pass \in Scenario.passwords
  /\ o.kind \in {"register", "forgot", "changeEmail"} => o.email \in Emails
  /\ o.kind \in Moderation => o.acct \in DOMAIN login

LEMMA RequestsByName ==
  ASSUME Types, NEW n \in Names, NEW p \in Scenario.passwords
  PROVE  /\ \A e \in Emails : Brought([[NoOp EXCEPT !.name = n, !.email = e, !.pass = p] EXCEPT !.kind = "register"])
         /\ Brought([[NoOp EXCEPT !.name = n, !.pass = p] EXCEPT !.kind = "login"])
<1>1. p \in Passwords
  BY ScenarioFacts
<1> QED
  BY <1>1 DEF NoOp, NoToken, OpRows, Brought, Kinds, Moderation

LEMMA RequestsByEmail ==
  ASSUME NEW e \in Emails
  PROVE  Brought([[NoOp EXCEPT !.email = e] EXCEPT !.kind = "forgot"])
BY DEF NoOp, NoToken, OpRows, Brought, Kinds, Moderation

LEMMA RequestsBySession ==
  ASSUME Types, NEW s \in Nat
  PROVE  /\ \A k \in {"visit", "browse", "logout", "resend"} : Brought([[NoOp EXCEPT !.sess = s] EXCEPT !.kind = k])
         /\ \A p \in Scenario.passwords :
              /\ Brought([[NoOp EXCEPT !.sess = s, !.pass = p] EXCEPT !.kind = "changePass"])
              /\ \A e \in Emails :
                   Brought([[NoOp EXCEPT !.sess = s, !.pass = p, !.email = e] EXCEPT !.kind = "changeEmail"])
<1>1. Scenario.passwords \subseteq Passwords
  BY ScenarioFacts
<1>2. ASSUME NEW k \in {"visit", "browse", "logout", "resend"}
      PROVE  Brought([[NoOp EXCEPT !.sess = s] EXCEPT !.kind = k])
  BY DEF NoOp, NoToken, OpRows, Brought, Kinds, Moderation
<1>3. ASSUME NEW p \in Passwords
      PROVE  Brought([[NoOp EXCEPT !.sess = s, !.pass = p] EXCEPT !.kind = "changePass"])
  BY DEF NoOp, NoToken, OpRows, Brought, Kinds, Moderation
<1>4. ASSUME NEW p \in Passwords, NEW e \in Emails
      PROVE  Brought([[NoOp EXCEPT !.sess = s, !.pass = p, !.email = e] EXCEPT !.kind = "changeEmail"])
  BY DEF NoOp, NoToken, OpRows, Brought, Kinds, Moderation
<1> QED
  BY <1>1, <1>2, <1>3, <1>4

LEMMA RequestsByLink ==
  ASSUME NEW t \in Nat
  PROVE  /\ \A s \in Nat : Brought([[NoOp EXCEPT !.tok = [id |-> t], !.sess = s] EXCEPT !.kind = "verify"])
         /\ \A k \in {"reset", "confirmEmail"} : Brought([[NoOp EXCEPT !.tok = [id |-> t]] EXCEPT !.kind = k])
<1>1. ASSUME NEW s \in Nat
      PROVE  Brought([[NoOp EXCEPT !.tok = [id |-> t], !.sess = s] EXCEPT !.kind = "verify"])
  BY DEF NoOp, NoToken, OpRows, Brought, Kinds, Moderation
<1>2. ASSUME NEW k \in {"reset", "confirmEmail"}
      PROVE  Brought([[NoOp EXCEPT !.tok = [id |-> t]] EXCEPT !.kind = k])
  BY DEF NoOp, NoToken, OpRows, Brought, Kinds, Moderation
<1> QED
  BY <1>1, <1>2

LEMMA RequestsByModerator ==
  ASSUME Types, NEW a \in DOMAIN login, NEW k \in Moderation
  PROVE  Brought([[NoOp EXCEPT !.acct = a] EXCEPT !.kind = k])
<1>1. a \in Nat
  BY LoginRows
<1> QED
  BY <1>1 DEF NoOp, NoToken, OpRows, Brought, Kinds, Moderation

LEMMA ArriveStarts ==
  ASSUME AccountInv, NEW h \in Handlers, Arrive(h)
  PROVE  pc[h] = 0 /\ requests < MaxRequests /\ \E o : Brought(o) /\ Start(h, o)
<1>1. pc[h] = 0 /\ requests < MaxRequests
  BY DEF Arrive
<1>2. Types /\ opened \in Nat /\ issued \in Nat
  BY DEF AccountInv, Types
<1>3. 1..opened \subseteq Nat /\ 0..opened \subseteq Nat /\ 1..issued \subseteq Nat
  BY <1>2
<1>4. ASSUME NEW n \in Names, NEW p \in Scenario.passwords,
             \/ \E e \in Emails : Request(h, "register", [NoOp EXCEPT !.name = n, !.email = e, !.pass = p])
             \/ Request(h, "login", [NoOp EXCEPT !.name = n, !.pass = p])
      PROVE  \E o : Brought(o) /\ Start(h, o)
  BY <1>2, <1>4, RequestsByName DEF Request
<1>5. ASSUME NEW e \in Emails, Request(h, "forgot", [NoOp EXCEPT !.email = e])
      PROVE  \E o : Brought(o) /\ Start(h, o)
  BY <1>5, RequestsByEmail DEF Request
<1>6. ASSUME NEW s \in Nat, NEW k \in {"visit", "browse", "logout", "resend"},
             Request(h, k, [NoOp EXCEPT !.sess = s])
      PROVE  \E o : Brought(o) /\ Start(h, o)
  BY <1>2, <1>6, RequestsBySession DEF Request
<1>7. ASSUME NEW s \in Nat, NEW p \in Scenario.passwords,
             \/ Request(h, "changePass", [NoOp EXCEPT !.sess = s, !.pass = p])
             \/ \E e \in Emails : Request(h, "changeEmail", [NoOp EXCEPT !.sess = s, !.pass = p, !.email = e])
      PROVE  \E o : Brought(o) /\ Start(h, o)
  BY <1>2, <1>7, RequestsBySession DEF Request
<1>8. ASSUME NEW t \in Nat,
             \/ \E s \in 0..opened : Request(h, "verify", [NoOp EXCEPT !.tok = [id |-> t], !.sess = s])
             \/ \E k \in {"reset", "confirmEmail"} : Request(h, k, [NoOp EXCEPT !.tok = [id |-> t]])
      PROVE  \E o : Brought(o) /\ Start(h, o)
  BY <1>3, <1>8, RequestsByLink DEF Request
<1>9. ASSUME NEW a \in DOMAIN login, NEW k \in Moderation, Request(h, k, [NoOp EXCEPT !.acct = a])
      PROVE  \E o : Brought(o) /\ Start(h, o)
  BY <1>2, <1>9, RequestsByModerator DEF Request
<1>10. \E o : Brought(o) /\ Start(h, o)
  BY <1>3, <1>4, <1>5, <1>6, <1>7, <1>8, <1>9 DEF Arrive, Moderation
<1> QED
  BY <1>1, <1>10

LEMMA ArriveKnows ==
  ASSUME AccountInv, NEW h \in Handlers, NEW o, Brought(o), UNCHANGED <<scenario, login>>,
         pc'[h] = 1, op'[h] = o
  PROVE  Working(h)' /\ Knows(h)'
<1>1. o.kind \in Kinds
  BY DEF Brought
<1>2. Working(h)' /\ \A m : ~Past(h, m)'
  BY <1>1, FirstCall DEF Working, Past
<1>3. /\ KnowsAccount(h)' /\ KnowsAddress(h)'
      /\ KnowsMailbox(h)' /\ KnowsRole(h)' /\ KnowsToken(h)' /\ KnowsProof(h)'
      /\ KnowsTokens(h)' /\ KnowsSessions(h)'
  BY <1>2 DEF Brought, KnowsAccount, KnowsAddress, KnowsMailbox, KnowsRole, KnowsToken, KnowsProof,
     KnowsTokens, KnowsSessions, Moderation
<1>4. KnowsPlayer(h)'
  BY DEF Brought, KnowsPlayer, Scenario
<1> QED
  BY <1>2, <1>3, <1>4 DEF Knows

\* The request that arrives may come to owe a row or a token.
LEMMA OneMoreOwes ==
  ASSUME NEW c, NEW h \in Handlers, Owing(c)' \subseteq Owing(c) \cup {h}
  PROVE  Cardinality(Owing(c)') <= Cardinality(Owing(c)) + 1
<1> DEFINE S == Owing(c)
           T == Owing(c)'
<1>1. IsFiniteSet(S) /\ Cardinality(S) \in Nat
  BY OwingFinite
<1>2. IsFiniteSet(T) /\ Cardinality(T) \in Nat /\ T \subseteq S \cup {h}
  BY OwingFinitePrimed
<1> HIDE DEF S, T
<1>3. IsFiniteSet(S \cup {h}) /\ Cardinality(S \cup {h}) \in {Cardinality(S), Cardinality(S) + 1}
  BY <1>1, FS_AddElement
<1>4. Cardinality(T) <= Cardinality(S \cup {h})
  BY <1>2, <1>3, FS_Subset
<1>5. Cardinality(T) <= Cardinality(S) + 1
  BY <1>1, <1>2, <1>3, <1>4
<1> QED
  BY <1>5 DEF S, T

LEMMA RoomForOne ==
  ASSUME NEW a \in Nat, NEW b \in Nat, NEW c \in Nat, NEW m \in Nat, NEW n \in Nat, a + b <= m + n, c <= b + 1
  PROVE  a + c <= m + (n + 1)
OBVIOUS

LEMMA ArriveStep ==
  ASSUME AccountInv, NEW h \in Handlers, scenario' = scenario, Arrive(h)
  PROVE  AccountInv'
<1>1. pc[h] = 0 /\ requests < MaxRequests
  BY ArriveStarts
<1>2. PICK o : Brought(o) /\ Start(h, o)
  BY ArriveStarts
<1>3. /\ requests' = requests + 1 /\ pc' = [pc EXCEPT ![h] = 1] /\ op' = [op EXCEPT ![h] = o] /\ mu' = mu
      /\ UNCHANGED <<login, tokens, sessions, clock, issued, opened, historyVars>>
  BY <1>2 DEF Start, dbVars
<1>4. pc \in [Handlers -> Nat] /\ op \in [Handlers -> OpRows] /\ requests \in Nat /\ MaxRequests \in Nat
  BY ScenarioFacts DEF AccountInv, Types
<1>5. o \in OpRows
  BY <1>2 DEF Brought
<1>6. Acts(h) /\ pc'[h] = 1 /\ op'[h] = o
  BY <1>3, <1>4, <1>5 DEF Acts
<1>7. Advances /\ Identities' /\ TokenRows' /\ SessionRows'
  BY <1>3, QuietTables
<1>8. Working(h)' /\ Knows(h)'
  BY <1>2, <1>3, <1>6, ArriveKnows
<1>9. Handling'
  <2> SUFFICES ASSUME NEW g \in Handlers, pc'[g] # 0
               PROVE  Working(g)' /\ Knows(g)'
    BY DEF Handling
  <2>1. CASE g = h
    BY <1>8, <2>1
  <2>2. CASE g # h
    <3>1. pc'[g] = pc[g] /\ op'[g] = op[g]
      BY <1>6, <2>2 DEF Acts
    <3>2. Working(g) /\ Knows(g) /\ pc[g] \in Nat /\ op[g] \in OpRows
      BY <3>1 DEF AccountInv, Handling, Types
    <3> QED
      BY <1>7, <3>1, <3>2, KnowsStays DEF Working
  <2> QED
    BY <2>1, <2>2
<1>10. Types'
  <2>1. MaxRequests' = MaxRequests /\ Scenario' = Scenario
    BY DEF MaxRequests, Scenario
  <2>2. requests' \in Nat /\ requests' <= MaxRequests
    BY <1>1, <1>3, <1>4
  <2> QED
    BY <1>3, <1>6, <2>1, <2>2 DEF AccountInv, Types, Acts
<1>11. Locks'
  <2>1. o.kind \in Kinds
    BY <1>2 DEF Brought
  <2>2. ~Locked(h) /\ ~Locked(h)'
    BY <1>1, <1>6, <2>1, FirstCall DEF Locked, Past
  <2>3. ~Writing(h)'
    BY <1>6, <2>1, FirstCall, Places DEF Writing, At, Calls
  <2>4. \A g \in Handlers \ {h} : (Locked(g)' <=> Locked(g)) /\ (Writing(g)' <=> Writing(g)) /\ op'[g] = op[g]
    BY <1>6, OthersLocked
  <2>5. \A g \in Handlers : Locked(g)' <=> Locked(g)
    BY <2>2, <2>4
  <2>6. \A g \in Handlers : Writing(g)' => ~Taken(op[g])'
    BY <1>3, <2>3, <2>4 DEF AccountInv, Locks, Taken
  <2> QED
    BY <1>3, <2>5, <2>6 DEF AccountInv, Locks
<1>12. Counts'
  <2>1. ASSUME NEW c
        PROVE  Owing(c)' \subseteq Owing(c) \cup {h}
    BY <1>6 DEF Acts, Owing, Owes
  <2>2. /\ Cardinality(Owing("create")') <= Cardinality(Owing("create")) + 1
        /\ Cardinality(Owing("insertToken")') <= Cardinality(Owing("insertToken")) + 1
    BY <2>1, OneMoreOwes
  <2>3. /\ Len(login) \in Nat /\ issued \in Nat /\ Len(Scenario.rows) \in Nat
        /\ Len(login) + Cardinality(Owing("create")) <= Len(Scenario.rows) + requests
        /\ issued + Cardinality(Owing("insertToken")) <= requests
    BY LoginRows, ScenarioFacts DEF AccountInv, Counts, Types
  <2>4. /\ Cardinality(Owing("create")) \in Nat /\ Cardinality(Owing("create")') \in Nat
        /\ Cardinality(Owing("insertToken")) \in Nat /\ Cardinality(Owing("insertToken")') \in Nat
    BY OwingFinite, OwingFinitePrimed
  <2>5. Len(login) + Cardinality(Owing("create")') <= Len(Scenario.rows) + (requests + 1)
    BY <1>4, <2>2, <2>3, <2>4, RoomForOne
  <2>6. issued + Cardinality(Owing("insertToken")') <= requests + 1
    BY <1>4, <2>2, <2>3, <2>4
  <2>7. Scenario' = Scenario
    BY DEF Scenario
  <2> QED
    BY <1>3, <2>5, <2>6, <2>7 DEF Counts
<1> QED
  BY <1>7, <1>9, <1>10, <1>11, <1>12 DEF AccountInv

-----------------------------------------------------------------------------
(* Every step                                                              *)

LEMMA StepStep ==
  ASSUME AccountInv, NEW h \in Handlers, scenario' = scenario, Step(h)
  PROVE  AccountInv'
<1>1. CASE \/ Unique(h) \/ Cooldown(h) \/ EmailFree(h) \/ ChangeCooled(h) \/ AssertUnrestricted(h) \/ Target(h)
  BY <1>1, QuietChecks
<1>2. CASE \/ Validate(h) \/ RequireRole(h) \/ Credentials(h) \/ Lookup(h)
           \/ ReadUnverified(h) \/ FindEmail(h) \/ VerifyPassword(h)
  BY <1>2, ValidateStep, RequireRoleStep, CredentialsStep, LookupStep, ReadUnverifiedStep, FindEmailStep,
     VerifyPasswordStep
<1>3. CASE EndLock(h) \/ Destroy(h) \/ CreateSession(h) \/ Refresh(h) \/ Invalidate(h)
  BY <1>3, EndLockStep, DestroyStep, CreateSessionStep, RefreshStep, InvalidateStep
<1>4. CASE DeleteUnconsumed(h) \/ InsertToken(h) \/ MarkConsumed(h)
  BY <1>4, DeleteUnconsumedStep, InsertTokenStep, MarkConsumedStep
<1>5. CASE \/ Create(h) \/ MarkVerified(h) \/ SetPassword(h) \/ SetEmail(h) \/ UpdateBan(h)
           \/ Record(h, "recordPassword", "pass") \/ Record(h, "recordEmail", "email")
  BY <1>5, CreateStep, MarkVerifiedStep, SetPasswordStep, SetEmailStep, UpdateBanStep, RecordStep
<1> QED
  BY <1>1, <1>2, <1>3, <1>4, <1>5 DEF Step

LEMMA AccountInvStep ==
  ASSUME AccountInv, [Next]_vars
  PROVE  AccountInv'
<1>1. CASE Next
  <2>1. scenario' = scenario
    BY <1>1 DEF Next
  <2>2. ASSUME NEW h \in Handlers, Arrive(h) \/ Lock(h) \/ Step(h) \/ HandlerFails(h)
        PROVE  AccountInv'
    BY <2>1, <2>2, ArriveStep, LockStep, StepStep, HandlerFailsStep
  <2>3. CASE Tick
    <3>1. UNCHANGED <<login, tokens, sessions, handlerVars, requests, issued, opened, historyVars>>
      BY <2>3 DEF Tick, dbVars
    <3>2. clock' \in Nat
      BY <2>3 DEF Tick, AccountInv, Types
    <3> QED
      BY <2>1, <3>1, <3>2, IdleStep
  <2>4. CASE DeleteExpired
    <3>1. UNCHANGED <<login, tokens, handlerVars, clock, requests, issued, opened, historyVars>>
      BY <2>4 DEF DeleteExpired, countVars
    <3>2. sessions' \subseteq sessions /\ clock' \in Nat
      BY <2>4, <3>1 DEF DeleteExpired, AccountInv, Types
    <3> QED
      BY <2>1, <3>1, <3>2, IdleStep
  <2>5. CASE PanelCrash
    BY <2>1, <2>5, PanelCrashStep
  <2> QED
    BY <1>1, <2>2, <2>3, <2>4, <2>5 DEF Next
<1>2. CASE UNCHANGED vars
  <2>1. UNCHANGED <<scenario, login, tokens, sessions, handlerVars, clock, requests, issued, opened,
                    historyVars>>
    BY <1>2 DEF vars, dbVars, countVars
  <2>2. clock' \in Nat
    BY <2>1 DEF AccountInv, Types
  <2> QED
    BY <2>1, <2>2, IdleStep
<1> QED
  BY <1>1, <1>2

\* A behaviour starts with the rows and the sessions of its scenario, and with
\* nobody doing anything.
LEMMA InitAccountInv ==
  ASSUME Init
  PROVE  AccountInv
<1>1. /\ scenario \in DOMAIN Scenarios /\ login = Scenario.rows /\ tokens = {}
      /\ sessions = {[id |-> a, acct |-> a, exp |-> 1 + SessionTTL] : a \in Scenario.sessions}
      /\ mu = "free" /\ pc = [h \in Handlers |-> 0] /\ op = [h \in Handlers |-> NoOp]
      /\ clock = 1 /\ requests = 0 /\ issued = 0 /\ opened = Len(login)
      /\ used = [t \in 1..MaxRequests |-> 0] /\ dead = {} /\ revoked = {}
      /\ proven = {<<a, login[a].email>> : a \in {b \in DOMAIN login : login[b].state # StateUnverified}}
  BY DEF Init
<1>2. /\ Scenario.rows \in Seq(RowsOf(Scenario))
      /\ \A a, b \in DOMAIN Scenario.rows :
           a # b => Scenario.rows[a].name # Scenario.rows[b].name /\ Scenario.rows[a].email # Scenario.rows[b].email
      /\ \A a \in DOMAIN Scenario.rows : Scenario.rows[a].state = StateUnverified => Scenario.rows[a].email \in Emails
      /\ Scenario.sessions \subseteq DOMAIN Scenario.rows
      /\ Scenario.maxRequests \in Nat
  BY <1>1, AccountBounds DEF Scenario
<1>3. Types
  <2>1. pc \in [Handlers -> Nat] /\ op \in [Handlers -> OpRows]
    BY <1>1, NoOpTyped
  <2>2. opened \in Nat /\ requests <= MaxRequests
    BY <1>1, <1>2, LenProperties DEF MaxRequests
  <2> QED
    BY <1>1, <1>2, <2>1, <2>2 DEF Types
<1>4. Identities
  <2>1. UniqueIdentity
    BY <1>1, <1>2 DEF UniqueIdentity
  <2>2. EmailProven
    BY <1>1 DEF EmailProven, StateActive, StateUnverified
  <2>3. KnownAddresses
    BY <1>1, <1>2 DEF KnownAddresses, Unverified
  <2> QED
    BY <2>1, <2>2, <2>3 DEF Identities
<1>5. TokenRows
  BY <1>1 DEF TokenRows
<1>6. SessionRows
  <2>1. DOMAIN login = 1..opened
    BY <1>1, <1>3, LoginRows
  <2>2. \A a \in Scenario.sessions : a \in DOMAIN login
    BY <1>1, <1>2
  <2>3. 1 + SessionTTL \in Nat
    BY Bounds
  <2>4. sessions \subseteq [id : 1..opened, acct : DOMAIN login, exp : Nat]
    BY <1>1, <2>1, <2>2, <2>3
  <2>5. \A r, s \in sessions : r.id = s.id => r = s
    BY <1>1
  <2> QED
    BY <1>1, <2>4, <2>5 DEF SessionRows, RevokedStayOut
<1>7. \A h \in Handlers : pc[h] = 0
  BY <1>1
<1>8. Handling
  BY <1>7 DEF Handling
<1>9. Locks
  BY <1>1, <1>7, Bounds DEF Locks, Locked, Writing, At
<1>10. Counts
  <2>1. ASSUME NEW c
        PROVE  Owing(c) = {}
    BY <1>7 DEF Owing, Owes
  <2>2. Cardinality(Owing("create")) = 0 /\ Cardinality(Owing("insertToken")) = 0
    BY <2>1, FS_EmptySet
  <2>3. Len(login) \in Nat
    BY <1>3, LoginRows
  <2> QED
    BY <1>1, <2>2, <2>3 DEF Counts
<1> QED
  BY <1>3, <1>4, <1>5, <1>6, <1>8, <1>9, <1>10 DEF AccountInv

LEMMA AlwaysAccountInv == Spec => []AccountInv
<1>1. AccountInv /\ [Next]_vars => AccountInv'
  BY AccountInvStep
<1> QED
  BY <1>1, InitAccountInv, PTL DEF Spec

-----------------------------------------------------------------------------
(* What the game and the player may rely on                                *)

LEMMA LockPlace ==
  ASSUME AccountInv, mu # "free"
  PROVE  mu \in Handlers /\ \E i \in 1..pc[mu] - 1 : Calls(mu)[i] = "lock"
<1>1. mu \in Handlers
  BY DEF AccountInv, Locks
<1>2. Locked(mu)
  BY <1>1 DEF AccountInv, Locks
<1>3. op[mu].kind \in Kinds /\ pc[mu] \in Nat
  BY <1>1, <1>2 DEF AccountInv, Handling, Working, Locked, Types
<1>4. PICK i \in DOMAIN Program[op[mu].kind] : i < pc[mu] /\ Program[op[mu].kind][i] = "lock"
  BY <1>2 DEF Locked, Past, Before
<1>5. i \in 1..Len(Program[op[mu].kind]) /\ Len(Program[op[mu].kind]) \in Nat
  BY <1>3, <1>4, Lengths
<1>6. i \in 1..pc[mu] - 1
  BY <1>3, <1>4, <1>5
<1> QED
  BY <1>1, <1>4, <1>6 DEF Calls

LEMMA Typed ==
  ASSUME AccountInv
  PROVE  TypeOK
<1>1. Types /\ TokenRows /\ SessionRows
  BY DEF AccountInv
<1>2. Len(login) <= MaxAccounts
  BY FewAccounts
<1>3. \A a \in DOMAIN login : /\ login[a].state \in {StateActive, StateUnverified, StatePermaBanned}
                              /\ login[a].pass \in Scenario.passwords /\ login[a].unban \in Nat
  BY <1>1, RowFields
<1>4. tokens \subseteq TokenType
  BY <1>1 DEF TokenRows, Mailed
<1>5. sessions \subseteq [id : 1..opened, acct : DOMAIN login, exp : Nat]
  BY <1>1 DEF SessionRows
<1>6. \A h \in Handlers : pc[h] # 0 => pc[h] \in DOMAIN Calls(h)
  BY DEF AccountInv, Handling, Working, Calls
<1>7. revoked \subseteq 1..opened /\ dead \subseteq 1..issued
  BY <1>1 DEF TokenRows, SessionRows
<1> QED
  BY <1>2, <1>3, <1>4, <1>5, <1>6, <1>7 DEF TypeOK

LEMMA TokensSpentOnce ==
  ASSUME AccountInv
  PROVE  TokensAndLocks
<1>1. \A t \in DOMAIN used : used[t] <= 1
  BY DEF AccountInv, TokenRows
<1> QED
  BY <1>1, Typed, LockPlace DEF TokensAndLocks

\* Manager.Consume returns a token at most once, however many requests present
\* the link at the same time, and emailUniqueMu is held by nobody but a handler
\* between its Lock and its return, whichever call fails.
THEOREM TokenSpentOnce == Spec => []TokensAndLocks
BY AlwaysAccountInv, TokensSpentOnce, PTL

\* Service.Create and ConsumeEmailChange together never give two accounts one
\* name or one email, although each of them looks first and writes later, and
\* login has no unique key for either.
THEOREM NobodyShares == Spec => []UniqueIdentity
<1>1. AccountInv => UniqueIdentity
  BY DEF AccountInv, Identities
<1> QED
  BY <1>1, AlwaysAccountInv, PTL

\* Whatever activates an account or changes its email (ConsumeVerification,
\* ConsumePasswordReset, ConsumeEmailChange), the mailbox of the email the
\* account then has has answered, even if the email changed on the way.
THEOREM NobodyUnproven == Spec => []EmailProven
<1>1. AccountInv => EmailProven
  BY DEF AccountInv, Identities
<1> QED
  BY <1>1, AlwaysAccountInv, PTL

\* No Refresh writes back a session that InvalidateAll or InvalidateOthers has
\* deleted, and none that was open when the password changed is left out.
THEOREM SessionsStayOut == Spec => []RevokedStayOut
<1>1. AccountInv => RevokedStayOut
  BY DEF AccountInv, SessionRows
<1> QED
  BY <1>1, AlwaysAccountInv, PTL

\* The steps that write no table and no history
LEMMA Readers ==
  ASSUME NEW h \in Handlers,
         \/ Arrive(h) \/ Lock(h) \/ EndLock(h) \/ HandlerFails(h)
         \/ Unique(h) \/ Cooldown(h) \/ EmailFree(h) \/ ChangeCooled(h) \/ AssertUnrestricted(h) \/ Target(h)
         \/ Validate(h) \/ RequireRole(h) \/ Credentials(h) \/ Lookup(h)
         \/ ReadUnverified(h) \/ FindEmail(h) \/ VerifyPassword(h)
  PROVE  UNCHANGED <<login, used>>
<1>1. ASSUME NEW c, NEW ok, NEW o, Check(h, c, ok, o)
      PROVE  UNCHANGED <<login, used>>
  BY <1>1 DEF Check, dbVars, historyVars
<1>2. CASE \/ Unique(h) \/ Cooldown(h) \/ EmailFree(h) \/ ChangeCooled(h) \/ AssertUnrestricted(h) \/ Target(h)
           \/ Credentials(h) \/ ReadUnverified(h) \/ FindEmail(h) \/ VerifyPassword(h)
  BY <1>1, <1>2, Zenon DEF Unique, Cooldown, EmailFree, ChangeCooled, AssertUnrestricted, Target, Credentials,
     ReadUnverified, FindEmail, VerifyPassword
<1>3. CASE Validate(h) \/ RequireRole(h) \/ Lookup(h)
  <2>1. UNCHANGED <<dbVars, historyVars>>
    BY <1>3 DEF Validate, RequireRole, Lookup
  <2> QED
    BY <2>1 DEF dbVars, historyVars
<1>4. CASE Lock(h) \/ EndLock(h) \/ HandlerFails(h)
  <2>1. UNCHANGED <<dbVars, historyVars>>
    BY <1>4 DEF Lock, EndLock, HandlerFails
  <2> QED
    BY <2>1 DEF dbVars, historyVars
<1>5. CASE Arrive(h)
  <2>1. \A o : Start(h, o) => UNCHANGED <<login, used>>
    BY DEF Start, dbVars, historyVars
  <2> QED
    BY <1>5, <2>1, Zenon DEF Arrive, Request
<1> QED
  BY <1>2, <1>3, <1>4, <1>5

\* The steps that write either
LEMMA Writers ==
  ASSUME [Next]_vars
  PROVE  \/ UNCHANGED <<login, used>>
         \/ \E h \in Handlers : MarkConsumed(h)
         \/ /\ used' = used
            /\ \E h \in Handlers : Create(h) \/ MarkVerified(h) \/ SetPassword(h) \/ SetEmail(h) \/ UpdateBan(h)
<1>1. CASE UNCHANGED vars \/ Tick \/ DeleteExpired \/ PanelCrash
  BY <1>1 DEF Tick, DeleteExpired, PanelCrash, vars, dbVars, historyVars
<1>2. ASSUME NEW h \in Handlers,
             \/ CreateSession(h) \/ Refresh(h) \/ Destroy(h) \/ DeleteUnconsumed(h) \/ InsertToken(h) \/ Invalidate(h)
             \/ Record(h, "recordPassword", "pass") \/ Record(h, "recordEmail", "email")
      PROVE  UNCHANGED <<login, used>>
  BY <1>2 DEF CreateSession, Refresh, Destroy, DeleteUnconsumed, InsertToken, Invalidate, Record, historyVars
<1>3. ASSUME NEW h \in Handlers,
             Create(h) \/ MarkVerified(h) \/ SetPassword(h) \/ SetEmail(h) \/ UpdateBan(h)
      PROVE  used' = used
  BY <1>3 DEF Create, MarkVerified, SetPassword, SetEmail, UpdateBan, historyVars
<1>4. ASSUME NEW h \in Handlers, Arrive(h) \/ Lock(h) \/ Step(h) \/ HandlerFails(h)
      PROVE  \/ UNCHANGED <<login, used>>
             \/ MarkConsumed(h)
             \/ /\ used' = used
                /\ Create(h) \/ MarkVerified(h) \/ SetPassword(h) \/ SetEmail(h) \/ UpdateBan(h)
  BY <1>2, <1>3, <1>4, Readers DEF Step
<1> QED
  BY <1>1, <1>4 DEF Next

\* A token that another one has superseded is spent no more, not even by a
\* Consume whose lookup was before Issue: markConsumed looks again.
THEOREM DeadStayDead == Spec => SupersededUnusable
<1>1. ASSUME AccountInv, [Next]_vars
      PROVE  \A t \in dead : used'[t] = used[t]
  <2> SUFFICES ASSUME NEW h \in Handlers, MarkConsumed(h), NEW t \in dead
               PROVE  used'[t] = used[t]
    BY <1>1, Writers DEF Create
  <2>1. CASE Affected(Unconsumed(op[h].tok.id))
    <3>1. PICK u \in tokens : u.id = op[h].tok.id /\ ~u.consumed
      BY <2>1 DEF Affected, Unconsumed
    <3>2. u.id \notin dead
      BY <1>1, <3>1 DEF AccountInv, TokenRows, Usable
    <3>3. used' = [used EXCEPT ![op[h].tok.id] = @ + 1]
      BY <2>1 DEF MarkConsumed
    <3>4. used \in [1..MaxRequests -> 0..1]
      BY <1>1 DEF AccountInv, TokenRows
    <3> QED
      BY <3>1, <3>2, <3>3, <3>4
  <2>2. CASE ~Affected(Unconsumed(op[h].tok.id))
    BY <2>2 DEF MarkConsumed
  <2> QED
    BY <2>1, <2>2
<1>2. AccountInv /\ [Next]_vars => [\A t \in dead : used'[t] = used[t]]_vars
  BY <1>1
<1> QED
  BY <1>2, AlwaysAccountInv, PTL DEF Spec, SupersededUnusable

\* A ban lasts: ConsumeVerification, ConsumePasswordReset, UpdatePassword and
\* ConsumeEmailChange write a row they read before the ban, and none of them
\* takes the state back.
THEOREM BansStick == Spec => BanSticks
<1> DEFINE Lifts ==
      \A a \in DOMAIN login :
        login[a].state = StatePermaBanned /\ login'[a].state # StatePermaBanned
          => \E h \in Handlers : At(h, "updateBan") /\ op[h].acct = a
<1>1. ASSUME AccountInv, [Next]_vars
      PROVE  Lifts
  <2> SUFFICES ASSUME NEW a \in DOMAIN login,
                      login[a].state = StatePermaBanned, login'[a].state # StatePermaBanned
               PROVE  \E h \in Handlers : At(h, "updateBan") /\ op[h].acct = a
    OBVIOUS
  <2>1. PICK h \in Handlers : Create(h) \/ MarkVerified(h) \/ SetPassword(h) \/ SetEmail(h) \/ UpdateBan(h)
    BY <1>1, Writers DEF MarkConsumed
  <2>2. login[a] \in RowsOf(Scenario)
    BY <1>1, RowFields DEF AccountInv
  <2>3. CASE Create(h)
    BY <1>1, <2>3, LoginRows DEF Create, AccountInv
  <2>4. CASE MarkVerified(h)
    BY <1>1, <2>2, <2>4, LoginRows DEF MarkVerified, Verified, AccountInv, RowsOf, StatePermaBanned,
       StateUnverified
  <2>5. CASE SetPassword(h) \/ SetEmail(h)
    <3>1. PICK b : b = op[h].acct
      OBVIOUS
    <3>2. PICK v : \/ login' = [login EXCEPT ![b] = [@ EXCEPT !["pass"] = v]]
                   \/ login' = [login EXCEPT ![b] = [@ EXCEPT !["email"] = v]]
      BY <2>5, <3>1, Zenon DEF SetPassword, SetEmail, SetRow
    <3>3. /\ [login[a] EXCEPT !["pass"] = v].state = login[a].state
          /\ [login[a] EXCEPT !["email"] = v].state = login[a].state
      BY <2>2 DEF RowsOf
    <3>4. login \in [1..Len(login) -> RowsOf(Scenario)] /\ a \in 1..Len(login)
      BY <1>1, LoginRows DEF AccountInv
    <3>5. login'[a].state = login[a].state
      BY <3>2, <3>3, <3>4
    <3> QED
      BY <3>5
  <2>6. CASE UpdateBan(h)
    <3>1. op[h].acct = a
      BY <1>1, <2>6, LoginRows DEF UpdateBan, AccountInv
    <3> QED
      BY <2>6, <3>1 DEF UpdateBan
  <2> QED
    BY <2>1, <2>3, <2>4, <2>5, <2>6
<1>2. AccountInv /\ [Next]_vars => [Lifts]_vars
  BY <1>1
<1> QED
  BY <1>2, AlwaysAccountInv, PTL DEF Spec, BanSticks
=============================================================================
