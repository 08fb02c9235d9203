----------------------------- MODULE MCServices -----------------------------
(* The services and the tickets, which share no state with each other, in   *)
(* one run: at the start a behaviour chooses the one that moves.            *)
EXTENDS RateLimit, ApiKeys, RefData, Notifications, Lockout, Tickets, TLC

VARIABLE service

ServicesInit ==
  /\ service \in {"limiter", "keys", "data", "notes", "lockout", "tickets"}
  /\ LimitInit /\ KeyInit /\ DataInit /\ NoteInit /\ LoginInit /\ Init

servicesVars == <<service, limitVars, keyVars, dataVars, noteVars, loginVars, vars>>

ServicesNext ==
  /\ UNCHANGED service
  /\ \/ service = "limiter" /\ LimitNext /\ UNCHANGED <<keyVars, dataVars, noteVars, loginVars, vars>>
     \/ service = "keys" /\ KeyNext /\ UNCHANGED <<limitVars, dataVars, noteVars, loginVars, vars>>
     \/ service = "data" /\ DataNext /\ UNCHANGED <<limitVars, keyVars, noteVars, loginVars, vars>>
     \/ service = "notes" /\ NoteNext /\ UNCHANGED <<limitVars, keyVars, dataVars, loginVars, vars>>
     \/ service = "lockout" /\ LoginNext /\ UNCHANGED <<limitVars, keyVars, dataVars, noteVars, vars>>
     \/ service = "tickets" /\ Next /\ UNCHANGED <<limitVars, keyVars, dataVars, noteVars, loginVars>>

Services == ServicesInit /\ [][ServicesNext]_servicesVars

\* One member of the staff works on every category of tickets, the other only
\* on bugs.
Permitted == [s \in Staff |-> IF s = "gm" THEN {"bug", "abuse"} ELSE {"bug"}]

\* The constants share their values, so that each set is permuted once.
Symmetry == Permutations(LimitHandlers) \cup Permutations(LimitKeys) \cup Permutations(Streams)
=============================================================================
