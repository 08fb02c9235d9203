------------------------------- MODULE ApiKeys -------------------------------
(***************************************************************************)
(* API keys.  The rows of cp_api_keys are the truth, and the gate looks    *)
(* only at the map that Warm fills when the panel starts and that Generate *)
(* and Revoke change after their statement.  Between the statement and the *)
(* change of the map the panel may stop, other calls run, and the answer   *)
(* of the database may be lost.  A key that is used records so, at most    *)
(* once in an interval, from a goroutine.                                  *)
(***************************************************************************)
EXTENDS Integers, FiniteSets

CONSTANTS
  ApiKeySet,       \* the keys that may be minted
  KeyHandlers,     \* concurrent calls
  FlushInterval,   \* lastUsedFlushInterval
  KeyRequests, KeyRestarts, KeyFaults, KeyClock  \* bounds

ASSUME KeyBounds == FlushInterval \in Nat \ {0} /\ {KeyRequests, KeyRestarts, KeyFaults, KeyClock} \subseteq Nat

VARIABLES
  keyRow,    \* cp_api_keys
  lastUsed,  \* its column last_used_at
  byHash,    \* the map: the keys that are in it
  flushed,   \* lastFlushed of the entry of each key
  keyCalls,  \* the calls in progress
  touches,   \* of each key, the goroutines of scheduleTouch, by their time
  astray,    \* keys with a call that was cut short or overtaken since the start
  keyTime, keyCount, keyLeft  \* the clock, the requests, the restarts and faults that are left

keyVars == <<keyRow, lastUsed, byHash, flushed, keyCalls, touches, astray, keyTime, keyCount, keyLeft>>

NoKeyCall == [pc |-> "idle", key |-> 0, previous |-> 0]

KeyInit ==
  /\ keyRow = [k \in ApiKeySet |-> "none"] /\ lastUsed = [k \in ApiKeySet |-> 0]
  /\ byHash = {} /\ flushed = [k \in ApiKeySet |-> 0] /\ keyCalls = [h \in KeyHandlers |-> NoKeyCall]
  /\ touches = [k \in ApiKeySet |-> {}] /\ astray = {}
  /\ keyTime = FlushInterval /\ keyCount = 0 /\ keyLeft = [restarts |-> KeyRestarts, faults |-> KeyFaults]

KeyGo(h, pc, k, previous) == keyCalls' = [keyCalls EXCEPT ![h] = [pc |-> pc, key |-> k, previous |-> previous]]
KeyStop(h) == keyCalls' = [keyCalls EXCEPT ![h] = NoKeyCall]
At(h, pc) == keyCalls[h].pc = pc /\ UNCHANGED <<keyTime, keyCount>>

-----------------------------------------------------------------------------
(* Generate and Revoke                                                     *)

\* The database may commit and its answer be lost: the call returns an error.
AnswerLost(h, k) ==
  /\ keyLeft.faults > 0 /\ keyLeft' = [keyLeft EXCEPT !.faults = @ - 1]
  /\ astray' = astray \cup {k} /\ KeyStop(h)

CreateKey(h) ==
  LET k == keyCalls[h].key
  IN /\ At(h, "create")
     /\ keyRow' = [keyRow EXCEPT ![k] = "active"]
     /\ \/ KeyGo(h, "remember", k, 0) /\ UNCHANGED <<astray, keyLeft>>
        \/ AnswerLost(h, k)
     /\ UNCHANGED <<lastUsed, byHash, flushed, touches>>

\* The new key enters the map; a revocation may have gone by in between.
Remember(h) ==
  LET k == keyCalls[h].key
  IN /\ At(h, "remember")
     /\ byHash' = byHash \cup {k} /\ KeyStop(h)
     /\ astray' = IF keyRow[k] = "revoked" THEN astray \cup {k} ELSE astray
     /\ UNCHANGED <<keyRow, lastUsed, flushed, touches, keyLeft>>

\* Without a row to change the call ends with ErrKeyNotFound, which the
\* handler answers like a success, and the map stays as it is.
RevokeRow(h) ==
  LET k == keyCalls[h].key
  IN /\ At(h, "revoke")
     /\ \/ /\ keyRow[k] = "active" /\ keyRow' = [keyRow EXCEPT ![k] = "revoked"]
           /\ \/ KeyGo(h, "forget", k, 0) /\ UNCHANGED <<astray, keyLeft>>
              \/ AnswerLost(h, k)
        \/ /\ keyRow[k] # "active" /\ KeyStop(h) /\ UNCHANGED <<keyRow, astray, keyLeft>>
     /\ UNCHANGED <<lastUsed, byHash, flushed, touches>>

Forget(h) ==
  /\ At(h, "forget")
  /\ byHash' = byHash \ {keyCalls[h].key} /\ KeyStop(h)
  /\ UNCHANGED <<keyRow, lastUsed, flushed, touches, astray, keyLeft>>

-----------------------------------------------------------------------------
(* Validate and scheduleTouch                                              *)

\* Validate finds the key in the map; scheduleTouch reads lastFlushed.
Validate(h) ==
  LET k == keyCalls[h].key
  IN /\ At(h, "validate")
     /\ IF k \in byHash /\ keyTime - flushed[k] >= FlushInterval
        THEN KeyGo(h, "swap", k, flushed[k]) ELSE KeyStop(h)
     /\ UNCHANGED <<keyRow, lastUsed, byHash, flushed, touches, astray, keyLeft>>

SwapsAlways(k, previous) == TRUE  \* mutant: the time is stored, whatever it was
Swaps(k, previous) == flushed[k] = previous

\* CompareAndSwap on the entry, which may have left the map; the winner
\* starts a goroutine.
Touch(h) ==
  LET k == keyCalls[h].key
      won == Swaps(k, keyCalls[h].previous)
  IN /\ At(h, "swap")
     /\ flushed' = IF won THEN [flushed EXCEPT ![k] = keyTime] ELSE flushed
     /\ touches' = IF won THEN [touches EXCEPT ![k] = @ \cup {<<keyTime, h>>}] ELSE touches
     /\ KeyStop(h)
     /\ UNCHANGED <<keyRow, lastUsed, byHash, astray, keyLeft>>

\* The goroutine writes the row, or gives up.
TouchLastUsed(k) ==
  \E t \in touches[k] :
    /\ touches' = [touches EXCEPT ![k] = @ \ {t}]
    /\ lastUsed' \in {lastUsed, [lastUsed EXCEPT ![k] = t[1]]}
    /\ UNCHANGED <<keyRow, byHash, flushed, keyCalls, astray, keyTime, keyCount, keyLeft>>

-----------------------------------------------------------------------------
(* Requests, and the panel                                                 *)

KeyRequest(h) ==
  /\ keyCalls[h].pc = "idle" /\ keyCount < KeyRequests /\ keyCount' = keyCount + 1
  /\ \E k \in ApiKeySet :
       \/ keyRow[k] = "none" /\ (\A g \in KeyHandlers : keyCalls[g].key # k) /\ KeyGo(h, "create", k, 0)
       \/ keyRow[k] # "none" /\ KeyGo(h, "revoke", k, 0)
       \/ keyRow[k] # "none" /\ KeyGo(h, "validate", k, 0)
  /\ UNCHANGED <<keyRow, lastUsed, byHash, flushed, touches, astray, keyTime, keyLeft>>

\* LoadActive and Warm, before the panel listens
LoadAll(k) == keyRow[k] # "none"  \* mutant: WHERE revoked_at IS NULL is missing
LoadActive(k) == keyRow[k] = "active"

Warm ==
  /\ keyLeft.restarts > 0 /\ keyLeft' = [keyLeft EXCEPT !.restarts = @ - 1]
  /\ byHash' = {k \in ApiKeySet : LoadActive(k)} /\ flushed' = lastUsed
  /\ keyCalls' = [h \in KeyHandlers |-> NoKeyCall]
  /\ touches' = [k \in ApiKeySet |-> {}] /\ astray' = {}
  /\ UNCHANGED <<keyRow, lastUsed, keyTime, keyCount>>

\* A touch ends within five seconds, a validation sooner: the interval is a minute.
KeyTick ==
  /\ keyTime < KeyClock /\ keyTime' = keyTime + 1
  /\ \A k \in ApiKeySet : touches[k] = {}
  /\ \A h \in KeyHandlers : keyCalls[h].pc # "swap"
  /\ UNCHANGED <<keyRow, lastUsed, byHash, flushed, keyCalls, touches, astray, keyCount, keyLeft>>

KeyNext ==
  \/ \E h \in KeyHandlers :
       \/ KeyRequest(h) \/ CreateKey(h) \/ Remember(h) \/ RevokeRow(h) \/ Forget(h)
       \/ Validate(h) \/ Touch(h)
  \/ \E k \in ApiKeySet : TouchLastUsed(k)
  \/ Warm \/ KeyTick

-----------------------------------------------------------------------------
(* Properties                                                              *)

\* The gate accepts exactly the keys whose rows are active, once no call on
\* the key is in progress, also across restarts: a key that was revoked stays
\* out, and one that was minted works.  The exception is a key with a call
\* that was cut short after its statement, or that a revocation overtook
\* while it was minted; that ends with the next restart.  Validations that
\* run at the same time start one write of last_used_at between them.
GateMatchesRows ==
  /\ \A k \in ApiKeySet \ astray :
       (\A h \in KeyHandlers : keyCalls[h].key # k \/ keyCalls[h].pc \in {"validate", "swap"})
         => (k \in byHash <=> keyRow[k] = "active")
  /\ \A k \in ApiKeySet : Cardinality(touches[k]) <= 1
=============================================================================
