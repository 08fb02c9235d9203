------------------------------- MODULE Lockout -------------------------------
(***************************************************************************)
(* The lockout of Authenticate, for one user name.  A login counts the     *)
(* recent failures, compares the password, and records what came of it, in *)
(* statements of their own: logins that run at the same time do not see    *)
(* each other's failures.                                                  *)
(***************************************************************************)
EXTENDS Integers, Sequences, FiniteSets, FiniteSetsExt

CONSTANTS
  Logins,                                     \* concurrent calls of Authenticate
  Threshold, Window, BaseBackoff, MaxBackoff, \* LockoutPolicy
  LoginRequests, LoginClock                   \* bounds

ASSUME LockoutBounds ==
  /\ {Threshold, Window, BaseBackoff, MaxBackoff} \subseteq Nat \ {0}
  /\ {LoginRequests, LoginClock} \subseteq Nat /\ IsFiniteSet(Logins)

VARIABLES
  failures,   \* the failed rows of cp_login_attempts: when they were recorded, in order
  loginCalls, \* the calls in progress: pc, and the failures that were counted and the last of them
  loginTime, loginCount

loginVars == <<failures, loginCalls, loginTime, loginCount>>

NoLogin == [pc |-> "idle", count |-> 0, lastFail |-> 0]

LoginInit ==
  /\ failures = <<>> /\ loginCalls = [l \in Logins |-> NoLogin]
  /\ loginTime = 1 /\ loginCount = 0

BackoffAfter(n) ==  \* mutant: only the failures after the first lock count
  IF n <= Threshold THEN 0 ELSE Min({BaseBackoff * 2 ^ Min({n - Threshold, 16}), MaxBackoff})
Backoff(n) ==
  IF n < Threshold THEN 0 ELSE Min({BaseBackoff * 2 ^ Min({n - Threshold, 16}), MaxBackoff})

\* ConsecutiveFailures of the window
Recent == {i \in DOMAIN failures : failures[i] > loginTime - Window}

LoginGo(l, call) == loginCalls' = [loginCalls EXCEPT ![l] = call]

CountFailures(l) ==
  /\ loginCalls[l].pc = "idle" /\ loginCount < LoginRequests /\ loginCount' = loginCount + 1
  /\ LoginGo(l, [pc |-> "check", count |-> Cardinality(Recent),
                 lastFail |-> Max({0} \cup {failures[i] : i \in Recent})])
  /\ UNCHANGED <<failures, loginTime>>

Locked(call) == Backoff(call.count) > 0 /\ loginTime - call.lastFail < Backoff(call.count)

\* ErrAccountLocked, or GetCredentials and the comparison
Check(l) ==
  /\ loginCalls[l].pc = "check"
  /\ \/ Locked(loginCalls[l]) /\ LoginGo(l, NoLogin)
     \/ ~Locked(loginCalls[l]) /\ \E pc \in {"recordFailure", "recordSuccess"} : LoginGo(l, [NoLogin EXCEPT !.pc = pc])
  /\ UNCHANGED <<failures, loginTime, loginCount>>

\* Record: the row of a failure, or the row of a success, which is not
\* counted, and then the removal of the failures.  An error is only logged.
RecordFailure(l) ==
  /\ loginCalls[l].pc = "recordFailure" /\ LoginGo(l, NoLogin)
  /\ failures' \in {failures, Append(failures, loginTime)}
  /\ UNCHANGED <<loginTime, loginCount>>

RecordSuccess(l) ==
  /\ loginCalls[l].pc = "recordSuccess" /\ LoginGo(l, NoLogin)
  /\ failures' \in {failures, <<>>}
  /\ UNCHANGED <<loginTime, loginCount>>

\* The worker's DeleteOlderThan: all rows before some time that the window
\* has passed.
DeleteOld ==
  /\ \E k \in DOMAIN failures :
       /\ failures[k] <= loginTime - Window
       /\ k < Len(failures) => failures[k] < failures[k + 1]
       /\ failures' = SubSeq(failures, k + 1, Len(failures))
  /\ UNCHANGED <<loginCalls, loginTime, loginCount>>

LoginTick ==
  /\ loginTime < LoginClock /\ loginTime' = loginTime + 1
  /\ UNCHANGED <<failures, loginCalls, loginCount>>

LoginNext ==
  \/ \E l \in Logins : CountFailures(l) \/ Check(l) \/ RecordFailure(l) \/ RecordSuccess(l)
  \/ DeleteOld \/ LoginTick

-----------------------------------------------------------------------------
(* Properties                                                              *)

\* Guessing is slow: in every window, between its k-th failure and the one
\* that follows it by as many as run at the same time lies at least the
\* backoff for k failures, which doubles each time.  Logins that are sent at
\* once gain no more than the ones that were in flight already.
GuessingSlow ==
  \A first \in DOMAIN failures : \A k \in Threshold..Len(failures) :
    LET n == first + k - 1
        later == n + Cardinality(Logins)
    IN later \in DOMAIN failures /\ failures[later] - failures[first] < Window
         => failures[later] - failures[n] >= Min({BaseBackoff * 2 ^ Min({k - Threshold, 16}), MaxBackoff})
=============================================================================
