------------------------------ MODULE MCAccount ------------------------------
(* Small instances of Account for TLC.                                      *)
EXTENDS Account, TLC

NewRow(n, e, state) == [name |-> n, email |-> e, pass |-> "old", state |-> state, unban |-> 0]

\* Who has which name and address: one verified player, who is logged in.
Identity ==
  [rows |-> <<NewRow("n1", "e1", StateActive)>>, sessions |-> {1}, passwords |-> {"old"},
   ops |-> {"register", "resend", "verify", "changeEmail", "confirmEmail", "forgot", "reset"},
   maxRequests |-> 4, maxClock |-> 2]

\* Who gets in: a verified and an unverified player, both logged in, and an
\* administrator.
Access ==
  [rows |-> <<NewRow("n1", "e1", StateActive), NewRow("n2", "e2", StateUnverified),
              NewRow("root", "e3", StateActive)>>,
   sessions |-> {1, 2}, passwords |-> {"old", "new"},
   ops |-> {"login", "visit", "browse", "logout", "forgot", "reset", "changePass",
            "ban", "tempBan", "unban", "chargeback"},
   maxRequests |-> 3, maxClock |-> 3]

Both == <<Identity, Access>>

\* Two requests for a new password.
TwoResets == <<[Identity EXCEPT !.ops = {"forgot"}, !.maxRequests = 2]>>

Symmetric == Permutations(Handlers)
=============================================================================
