--------------------------- MODULE ServicesProofs ---------------------------
(***************************************************************************)
(* The gate of the API keys follows their rows, the badge of the           *)
(* notifications their number, the reference data its files, and a ticket  *)
(* its thread, and failed logins are held up as the policy says, for every *)
(* number of keys, calls, streams, sources, players, handlers and logins.  *)
(***************************************************************************)
EXTENDS ApiKeys, RefData, Notifications, Tickets, Lockout, Integers, Sequences, FiniteSets, TLAPS,
        FiniteSetTheorems, SequenceTheorems

(***************************************************************************)
(* API keys                                                                *)
(***************************************************************************)

KeySpec == KeyInit /\ [][KeyNext]_keyVars

CallOn(h, stage, k) == keyCalls[h].pc = stage /\ keyCalls[h].key = k

KeyCalls ==
  [pc : {"idle", "create", "remember", "revoke", "forget", "validate", "swap"},
   key : ApiKeySet \cup {0}, previous : Int]

KeyTypes ==
  /\ keyRow \in [ApiKeySet -> {"none", "active", "revoked"}]
  /\ lastUsed \in [ApiKeySet -> Int] /\ flushed \in [ApiKeySet -> Int] /\ keyTime \in Int
  /\ keyCalls \in [KeyHandlers -> KeyCalls]
  /\ \A h \in KeyHandlers : keyCalls[h].pc # "idle" => keyCalls[h].key \in ApiKeySet

\* A key is minted by one call, and revoked after it was minted.
KeyPhases ==
  \A k \in ApiKeySet : \A h \in KeyHandlers :
    /\ CallOn(h, "create", k) =>
         /\ keyRow[k] = "none"
         /\ \A g \in KeyHandlers \ {h} : keyCalls[g].pc = "idle" \/ keyCalls[g].key # k
    /\ CallOn(h, "remember", k) => keyRow[k] # "none"
    /\ CallOn(h, "forget", k) => keyRow[k] = "revoked"

\* Map and rows differ only for a key with a call that is going to put it right.
MapFollows ==
  \A k \in ApiKeySet \ astray :
    /\ k \in byHash => keyRow[k] # "none"
    /\ keyRow[k] = "active" => k \in byHash \/ \E h \in KeyHandlers : CallOn(h, "remember", k)
    /\ keyRow[k] = "revoked" /\ k \in byHash => \E h \in KeyHandlers : CallOn(h, "forget", k)

\* The goroutine that runs has stored its time, which is the time it still is.
OneTouch ==
  /\ \A k \in ApiKeySet :
       \/ touches[k] = {}
       \/ flushed[k] = keyTime /\ \E h \in KeyHandlers : touches[k] = {<<keyTime, h>>}
  /\ \A h \in KeyHandlers : keyCalls[h].pc = "swap" => keyCalls[h].previous < keyTime

KeyInv ==
  /\ KeyTypes /\ touches \in [ApiKeySet -> SUBSET (Int \X KeyHandlers)]
  /\ KeyPhases /\ MapFollows /\ OneTouch

LEMMA InitKeyInv == KeyInit => KeyInv
<1> SUFFICES ASSUME KeyInit
             PROVE  KeyInv
  OBVIOUS
<1>1. FlushInterval \in Nat
  BY KeyBounds
<1>2. NoKeyCall \in KeyCalls /\ NoKeyCall.pc = "idle"
  BY DEF NoKeyCall, KeyCalls
<1>3. KeyTypes /\ touches \in [ApiKeySet -> SUBSET (Int \X KeyHandlers)]
  BY <1>1, <1>2 DEF KeyInit, KeyTypes
<1>4. \A h \in KeyHandlers : keyCalls[h] = NoKeyCall
  BY DEF KeyInit
<1>5. KeyPhases /\ OneTouch
  BY <1>2, <1>4 DEF KeyInit, KeyPhases, OneTouch, CallOn
<1>6. MapFollows
  BY DEF KeyInit, MapFollows
<1> QED
  BY <1>3, <1>5, <1>6 DEF KeyInv

\* What a step of call h leaves of the others
LEMMA KeyCallSteps ==
  ASSUME KeyInv, NEW h \in KeyHandlers, NEW call \in KeyCalls,
         keyCalls' = [keyCalls EXCEPT ![h] = call]
  PROVE  /\ keyCalls' \in [KeyHandlers -> KeyCalls] /\ keyCalls'[h] = call
         /\ \A g \in KeyHandlers \ {h} : keyCalls'[g] = keyCalls[g]
BY DEF KeyInv, KeyTypes

LEMMA KeyCallFacts ==
  ASSUME KeyInv, NEW h \in KeyHandlers
  PROVE  /\ keyCalls[h] \in KeyCalls /\ keyCalls[h].previous \in Int
         /\ (keyCalls[h].pc # "idle" => keyCalls[h].key \in ApiKeySet)
         /\ NoKeyCall \in KeyCalls /\ NoKeyCall.pc = "idle"
BY DEF KeyInv, KeyTypes, KeyCalls, NoKeyCall

LEMMA KeyCallTyped ==
  ASSUME NEW stage \in {"create", "remember", "revoke", "forget", "validate", "swap"},
         NEW k \in ApiKeySet, NEW previous \in Int
  PROVE  [pc |-> stage, key |-> k, previous |-> previous] \in KeyCalls
BY DEF KeyCalls

\* A step that moves one call, and changes nothing else
LEMMA CallMoves ==
  ASSUME KeyInv, NEW h \in KeyHandlers, NEW call \in KeyCalls,
         keyCalls' = [keyCalls EXCEPT ![h] = call],
         UNCHANGED <<keyRow, lastUsed, byHash, flushed, touches, astray, keyTime>>,
         keyCalls[h].pc \notin {"remember", "forget"},
         \/ call.pc = "idle"
         \/ call.key \in ApiKeySet /\ call.pc \in {"validate", "revoke", "swap", "create"},
         \/ call.pc = "idle"
         \/ keyCalls[h].pc # "idle" /\ call.key = keyCalls[h].key
         \/ \A g \in KeyHandlers : keyCalls[g].pc = "create" => keyCalls[g].key # call.key,
         call.pc = "create" => keyRow[call.key] = "none" /\
           \A g \in KeyHandlers \ {h} : keyCalls[g].pc = "idle" \/ keyCalls[g].key # call.key,
         call.pc = "swap" => call.previous < keyTime
  PROVE  KeyInv'
<1>1. /\ keyCalls' \in [KeyHandlers -> KeyCalls] /\ keyCalls'[h] = call
      /\ \A g \in KeyHandlers \ {h} : keyCalls'[g] = keyCalls[g]
  BY KeyCallSteps
<1>2. KeyTypes' /\ touches' \in [ApiKeySet -> SUBSET (Int \X KeyHandlers)]
  BY <1>1 DEF KeyInv, KeyTypes
<1>3. KeyPhases'
  <2> SUFFICES ASSUME NEW k \in ApiKeySet, NEW g \in KeyHandlers
               PROVE  /\ CallOn(g, "create", k)' =>
                           /\ keyRow[k] = "none"
                           /\ \A f \in KeyHandlers \ {g} : keyCalls'[f].pc = "idle" \/ keyCalls'[f].key # k
                      /\ CallOn(g, "remember", k)' => keyRow[k] # "none"
                      /\ CallOn(g, "forget", k)' => keyRow[k] = "revoked"
    BY DEF KeyPhases
  <2>1. CASE g = h
    BY <1>1, <2>1 DEF CallOn
  <2>2. CASE g # h
    <3>1. keyCalls'[g] = keyCalls[g]
      BY <1>1, <2>2
    <3>2. /\ CallOn(g, "remember", k) => keyRow[k] # "none"
          /\ CallOn(g, "forget", k) => keyRow[k] = "revoked"
          /\ CallOn(g, "create", k) => keyRow[k] = "none"
      BY DEF KeyInv, KeyPhases
    <3>3. ASSUME CallOn(g, "create", k), NEW f \in KeyHandlers \ {g}
          PROVE  keyCalls'[f].pc = "idle" \/ keyCalls'[f].key # k
      <4>1. keyCalls[f].pc = "idle" \/ keyCalls[f].key # k
        BY <3>3 DEF KeyInv, KeyPhases
      <4> QED
        BY <1>1, <3>3, <4>1 DEF CallOn
    <3> QED
      BY <3>1, <3>2, <3>3 DEF CallOn
  <2> QED
    BY <2>1, <2>2
<1>4. MapFollows'
  BY <1>1 DEF KeyInv, MapFollows, CallOn
<1>5. OneTouch'
  BY <1>1 DEF KeyInv, OneTouch
<1> QED
  BY <1>2, <1>3, <1>4, <1>5 DEF KeyInv

\* A step of Generate or Revoke: what it does to its key is in order, and it
\* does nothing to the others.
LEMMA MintStep ==
  ASSUME KeyInv, NEW h \in KeyHandlers, NEW k \in ApiKeySet, NEW call \in KeyCalls,
         k = keyCalls[h].key, keyCalls[h].pc \in {"create", "remember", "revoke", "forget"},
         keyCalls' = [keyCalls EXCEPT ![h] = call],
         call.pc = "idle" \/ (call.pc \in {"remember", "forget"} /\ call.key = k),
         keyRow' \in [ApiKeySet -> {"none", "active", "revoked"}],
         \A j \in ApiKeySet \ {k} : keyRow'[j] = keyRow[j] /\ (j \in byHash' <=> j \in byHash),
         astray \subseteq astray', UNCHANGED <<lastUsed, flushed, touches, keyTime>>,
         \A g \in KeyHandlers \ {h} : ~CallOn(g, "create", k),
         keyRow'[k] # "none", keyRow[k] = "revoked" => keyRow'[k] = "revoked",
         call.pc = "forget" => keyRow'[k] = "revoked",
         \/ k \in astray'
         \/ /\ keyRow'[k] = "active" =>
                k \in byHash' \/ call.pc = "remember" \/
                \E g \in KeyHandlers \ {h} : CallOn(g, "remember", k)
            /\ keyRow'[k] = "revoked" /\ k \in byHash' =>
                call.pc = "forget" \/ \E g \in KeyHandlers \ {h} : CallOn(g, "forget", k)
  PROVE  KeyInv'
<1>1. /\ keyCalls' \in [KeyHandlers -> KeyCalls] /\ keyCalls'[h] = call
      /\ \A g \in KeyHandlers \ {h} : keyCalls'[g] = keyCalls[g]
  BY KeyCallSteps
<1>2. \A g \in KeyHandlers \ {h} : \A j \in ApiKeySet :
        /\ CallOn(g, "create", j)' <=> CallOn(g, "create", j)
        /\ CallOn(g, "remember", j)' <=> CallOn(g, "remember", j)
        /\ CallOn(g, "forget", j)' <=> CallOn(g, "forget", j)
  BY <1>1 DEF CallOn
<1>3. KeyTypes' /\ touches' \in [ApiKeySet -> SUBSET (Int \X KeyHandlers)]
  BY <1>1 DEF KeyInv, KeyTypes
<1>4. KeyPhases'
  <2> SUFFICES ASSUME NEW j \in ApiKeySet, NEW g \in KeyHandlers
               PROVE  /\ CallOn(g, "create", j)' =>
                           /\ keyRow'[j] = "none"
                           /\ \A f \in KeyHandlers \ {g} : keyCalls'[f].pc = "idle" \/ keyCalls'[f].key # j
                      /\ CallOn(g, "remember", j)' => keyRow'[j] # "none"
                      /\ CallOn(g, "forget", j)' => keyRow'[j] = "revoked"
    BY DEF KeyPhases
  <2>1. CASE g = h
    BY <1>1, <2>1 DEF CallOn
  <2>2. CASE g # h
    <3>1. /\ CallOn(g, "remember", j) => keyRow[j] # "none"
          /\ CallOn(g, "forget", j) => keyRow[j] = "revoked"
          /\ CallOn(g, "create", j) => keyRow[j] = "none"
      BY DEF KeyInv, KeyPhases
    <3>2. ASSUME CallOn(g, "create", j), NEW f \in KeyHandlers \ {g}
          PROVE  keyCalls'[f].pc = "idle" \/ keyCalls'[f].key # j
      <4>1. keyCalls[f].pc = "idle" \/ keyCalls[f].key # j
        BY <3>2 DEF KeyInv, KeyPhases
      <4>2. j # k
        BY <2>2, <3>2
      <4> QED
        BY <1>1, <4>1, <4>2
    <3> QED
      BY <1>2, <2>2, <3>1, <3>2
  <2> QED
    BY <2>1, <2>2
<1>5. MapFollows'
  <2>1. ASSUME NEW j \in ApiKeySet \ astray', j # k
        PROVE  /\ j \in byHash' => keyRow'[j] # "none"
               /\ keyRow'[j] = "active" => j \in byHash' \/ \E g \in KeyHandlers : CallOn(g, "remember", j)'
               /\ keyRow'[j] = "revoked" /\ j \in byHash' => \E g \in KeyHandlers : CallOn(g, "forget", j)'
    <3>1. /\ j \in byHash => keyRow[j] # "none"
          /\ keyRow[j] = "active" => j \in byHash \/ \E g \in KeyHandlers : CallOn(g, "remember", j)
          /\ keyRow[j] = "revoked" /\ j \in byHash => \E g \in KeyHandlers : CallOn(g, "forget", j)
      BY <2>1 DEF KeyInv, MapFollows
    <3>2. ~CallOn(h, "remember", j) /\ ~CallOn(h, "forget", j)
      BY <2>1 DEF CallOn
    <3> QED
      BY <1>2, <2>1, <3>1, <3>2
  <2>2. ASSUME k \notin astray'
        PROVE  /\ k \in byHash' => keyRow'[k] # "none"
               /\ keyRow'[k] = "active" => k \in byHash' \/ \E g \in KeyHandlers : CallOn(g, "remember", k)'
               /\ keyRow'[k] = "revoked" /\ k \in byHash' => \E g \in KeyHandlers : CallOn(g, "forget", k)'
    <3>1. call.pc \in {"remember", "forget"} => CallOn(h, call.pc, k)'
      BY <1>1 DEF CallOn
    <3> QED
      BY <1>2, <2>2, <3>1
  <2> QED
    BY <2>1, <2>2 DEF MapFollows
<1>6. OneTouch'
  BY <1>1 DEF KeyInv, OneTouch
<1> QED
  BY <1>3, <1>4, <1>5, <1>6 DEF KeyInv

LEMMA MintKey ==
  ASSUME KeyInv, NEW h \in KeyHandlers, CreateKey(h)
  PROVE  KeyInv'
<1> DEFINE k == keyCalls[h].key
<1>1. /\ keyCalls[h].pc = "create" /\ keyRow' = [keyRow EXCEPT ![k] = "active"]
      /\ UNCHANGED <<lastUsed, byHash, flushed, touches, keyTime>>
  BY DEF CreateKey, At
<1>2. k \in ApiKeySet /\ CallOn(h, "create", k)
  BY <1>1, KeyCallFacts DEF CallOn
<1>3. /\ keyRow \in [ApiKeySet -> {"none", "active", "revoked"}] /\ keyRow[k] = "none"
      /\ \A g \in KeyHandlers \ {h} : ~CallOn(g, "create", k)
  BY <1>2 DEF KeyInv, KeyTypes, KeyPhases, CallOn
<1>4. /\ keyRow' \in [ApiKeySet -> {"none", "active", "revoked"}] /\ keyRow'[k] = "active"
      /\ \A j \in ApiKeySet \ {k} : keyRow'[j] = keyRow[j]
  BY <1>1, <1>2, <1>3
<1>5. PICK call \in KeyCalls :
        /\ keyCalls' = [keyCalls EXCEPT ![h] = call] /\ astray \subseteq astray'
        /\ \/ call.pc = "remember" /\ call.key = k
           \/ call.pc = "idle" /\ k \in astray'
  <2>1. [pc |-> "remember", key |-> k, previous |-> 0] \in KeyCalls
    BY <1>2, KeyCallTyped
  <2> QED
    BY <2>1, KeyCallFacts DEF CreateKey, AnswerLost, KeyGo, KeyStop
<1> HIDE DEF k
<1>6. k = keyCalls[h].key
  BY DEF k
<1> QED
  BY <1>1, <1>2, <1>3, <1>4, <1>5, <1>6, MintStep

LEMMA RememberKey ==
  ASSUME KeyInv, NEW h \in KeyHandlers, Remember(h)
  PROVE  KeyInv'
<1> DEFINE k == keyCalls[h].key
<1>1. /\ keyCalls[h].pc = "remember" /\ byHash' = byHash \cup {k}
      /\ keyCalls' = [keyCalls EXCEPT ![h] = NoKeyCall]
      /\ astray \subseteq astray' /\ (keyRow[k] = "revoked" => k \in astray')
      /\ UNCHANGED <<keyRow, lastUsed, flushed, touches, keyTime>>
  BY DEF Remember, At, KeyStop
<1>2. k \in ApiKeySet /\ CallOn(h, "remember", k)
  BY <1>1, KeyCallFacts DEF CallOn
<1>3. keyRow \in [ApiKeySet -> {"none", "active", "revoked"}] /\ keyRow[k] # "none"
  BY <1>2 DEF KeyInv, KeyTypes, KeyPhases
<1>4. \A g \in KeyHandlers : ~CallOn(g, "create", k)
  BY <1>2, <1>3 DEF KeyInv, KeyPhases
<1>5. NoKeyCall \in KeyCalls /\ NoKeyCall.pc = "idle"
  BY KeyCallFacts
<1> HIDE DEF k
<1>6. k = keyCalls[h].key
  BY DEF k
<1> QED
  BY <1>1, <1>2, <1>3, <1>4, <1>5, <1>6, MintStep

LEMMA RevokeKey ==
  ASSUME KeyInv, NEW h \in KeyHandlers, RevokeRow(h)
  PROVE  KeyInv'
<1> DEFINE k == keyCalls[h].key
<1>1. keyCalls[h].pc = "revoke" /\ UNCHANGED <<lastUsed, byHash, flushed, touches, keyTime>>
  BY DEF RevokeRow, At
<1>2. k \in ApiKeySet /\ NoKeyCall \in KeyCalls /\ NoKeyCall.pc = "idle"
  BY <1>1, KeyCallFacts
<1>3. keyRow \in [ApiKeySet -> {"none", "active", "revoked"}]
  BY DEF KeyInv, KeyTypes
<1>4. CASE keyRow[k] # "active"
  <2>1. keyCalls' = [keyCalls EXCEPT ![h] = NoKeyCall] /\ UNCHANGED <<keyRow, astray>>
    BY <1>4 DEF RevokeRow, KeyStop
  <2> QED
    BY <1>1, <1>2, <2>1, CallMoves
<1>5. CASE keyRow[k] = "active"
  <2>1. keyRow' = [keyRow EXCEPT ![k] = "revoked"]
    BY <1>5 DEF RevokeRow
  <2>2. PICK call \in KeyCalls :
          /\ keyCalls' = [keyCalls EXCEPT ![h] = call] /\ astray \subseteq astray'
          /\ \/ call.pc = "forget" /\ call.key = k
             \/ call.pc = "idle" /\ k \in astray'
    <3>1. [pc |-> "forget", key |-> k, previous |-> 0] \in KeyCalls
      BY <1>2, KeyCallTyped
    <3> QED
      BY <1>2, <1>5, <3>1 DEF RevokeRow, AnswerLost, KeyGo, KeyStop
  <2>3. /\ keyRow' \in [ApiKeySet -> {"none", "active", "revoked"}] /\ keyRow'[k] = "revoked"
        /\ \A j \in ApiKeySet \ {k} : keyRow'[j] = keyRow[j]
    BY <1>2, <1>3, <2>1
  <2>4. \A g \in KeyHandlers : ~CallOn(g, "create", k)
    BY <1>2, <1>5 DEF KeyInv, KeyPhases
  <2> HIDE DEF k
  <2>5. k = keyCalls[h].key
    BY DEF k
  <2> QED
    BY <1>1, <1>2, <2>2, <2>3, <2>4, <2>5, MintStep
<1> QED
  BY <1>4, <1>5

LEMMA ForgetKey ==
  ASSUME KeyInv, NEW h \in KeyHandlers, Forget(h)
  PROVE  KeyInv'
<1> DEFINE k == keyCalls[h].key
<1>1. /\ keyCalls[h].pc = "forget" /\ byHash' = byHash \ {k}
      /\ keyCalls' = [keyCalls EXCEPT ![h] = NoKeyCall]
      /\ UNCHANGED <<keyRow, lastUsed, flushed, touches, astray, keyTime>>
  BY DEF Forget, At, KeyStop
<1>2. k \in ApiKeySet /\ CallOn(h, "forget", k)
  BY <1>1, KeyCallFacts DEF CallOn
<1>3. keyRow \in [ApiKeySet -> {"none", "active", "revoked"}] /\ keyRow[k] = "revoked"
  BY <1>2 DEF KeyInv, KeyTypes, KeyPhases
<1>4. \A g \in KeyHandlers : ~CallOn(g, "create", k)
  BY <1>2, <1>3 DEF KeyInv, KeyPhases
<1>5. NoKeyCall \in KeyCalls /\ NoKeyCall.pc = "idle"
  BY KeyCallFacts
<1> HIDE DEF k
<1>6. k = keyCalls[h].key
  BY DEF k
<1> QED
  BY <1>1, <1>2, <1>3, <1>4, <1>5, <1>6, MintStep

LEMMA RequestKey ==
  ASSUME KeyInv, NEW h \in KeyHandlers, KeyRequest(h)
  PROVE  KeyInv'
<1>1. /\ keyCalls[h].pc = "idle"
      /\ UNCHANGED <<keyRow, lastUsed, byHash, flushed, touches, astray, keyTime>>
  BY DEF KeyRequest
<1>2. PICK k \in ApiKeySet, stage \in {"create", "revoke", "validate"} :
        /\ keyCalls' = [keyCalls EXCEPT ![h] = [pc |-> stage, key |-> k, previous |-> 0]]
        /\ stage = "create" => keyRow[k] = "none" /\ \A g \in KeyHandlers : keyCalls[g].key # k
        /\ stage # "create" => keyRow[k] # "none"
  BY DEF KeyRequest, KeyGo
<1> DEFINE call == [pc |-> stage, key |-> k, previous |-> 0]
<1>3. call \in KeyCalls
  BY KeyCallTyped
<1>4. \A g \in KeyHandlers : keyCalls[g].pc = "create" => keyCalls[g].key # k
  BY <1>2 DEF KeyInv, KeyPhases, CallOn
<1>5. call.pc = stage /\ call.key = k /\ keyCalls' = [keyCalls EXCEPT ![h] = call]
  BY <1>2
<1>6. call.pc \in {"create", "revoke", "validate"} /\ call.key \in ApiKeySet
      /\ \A g \in KeyHandlers : keyCalls[g].pc = "create" => keyCalls[g].key # call.key
  BY <1>4, <1>5
<1>7. call.pc = "create" => keyRow[call.key] = "none" /\
        \A g \in KeyHandlers \ {h} : keyCalls[g].pc = "idle" \/ keyCalls[g].key # call.key
  BY <1>2, <1>5
<1>8. keyCalls' = [keyCalls EXCEPT ![h] = call] /\ call.pc # "swap"
  BY <1>5, <1>6
<1> HIDE DEF call
<1> QED
  BY <1>1, <1>3, <1>6, <1>7, <1>8, CallMoves

LEMMA ValidateKey ==
  ASSUME KeyInv, NEW h \in KeyHandlers, Validate(h)
  PROVE  KeyInv'
<1> DEFINE k == keyCalls[h].key
<1>1. /\ keyCalls[h].pc = "validate"
      /\ UNCHANGED <<keyRow, lastUsed, byHash, flushed, touches, astray, keyTime>>
  BY DEF Validate, At
<1>2. k \in ApiKeySet /\ NoKeyCall \in KeyCalls /\ NoKeyCall.pc = "idle"
  BY <1>1, KeyCallFacts
<1>3. CASE keyCalls' = [keyCalls EXCEPT ![h] = NoKeyCall]
  BY <1>1, <1>2, <1>3, CallMoves
<1>4. CASE /\ keyTime - flushed[k] >= FlushInterval
           /\ keyCalls' = [keyCalls EXCEPT ![h] = [pc |-> "swap", key |-> k, previous |-> flushed[k]]]
  <2> DEFINE call == [pc |-> "swap", key |-> k, previous |-> flushed[k]]
  <2>1. flushed[k] \in Int /\ keyTime \in Int
    BY <1>2 DEF KeyInv, KeyTypes
  <2>2. flushed[k] < keyTime
    BY <1>4, <2>1, KeyBounds
  <2>3. call \in KeyCalls
    BY <1>2, <2>1, KeyCallTyped
  <2>4. call.pc = "swap" /\ call.key = k /\ call.previous < keyTime /\ keyCalls' = [keyCalls EXCEPT ![h] = call]
    BY <1>4, <2>2
  <2> HIDE DEF call
  <2> QED
    BY <1>1, <1>2, <2>3, <2>4, CallMoves
<1> QED
  BY <1>3, <1>4 DEF Validate, KeyGo, KeyStop

\* The swap only succeeds if no other goroutine has been started at this time.
LEMMA TouchKey ==
  ASSUME KeyInv, NEW h \in KeyHandlers, Touch(h)
  PROVE  KeyInv'
<1> DEFINE k == keyCalls[h].key
<1>1. /\ keyCalls[h].pc = "swap" /\ keyCalls' = [keyCalls EXCEPT ![h] = NoKeyCall]
      /\ UNCHANGED <<keyRow, lastUsed, byHash, astray, keyTime>>
  BY DEF Touch, At, KeyStop
<1>2. k \in ApiKeySet /\ NoKeyCall \in KeyCalls /\ NoKeyCall.pc = "idle"
  BY <1>1, KeyCallFacts
<1>3. CASE UNCHANGED <<flushed, touches>>
  BY <1>1, <1>2, <1>3, CallMoves
<1>4. CASE /\ flushed[k] = keyCalls[h].previous
           /\ flushed' = [flushed EXCEPT ![k] = keyTime]
           /\ touches' = [touches EXCEPT ![k] = touches[k] \cup {<<keyTime, h>>}]
  <2>1. keyCalls[h].previous < keyTime /\ keyTime \in Int /\ keyCalls[h].previous \in Int
    BY <1>1, KeyCallFacts DEF KeyInv, KeyTypes, OneTouch
  <2>2. touches[k] = {}
    BY <1>2, <1>4, <2>1 DEF KeyInv, OneTouch
  <2>3. /\ keyCalls' \in [KeyHandlers -> KeyCalls] /\ keyCalls'[h] = NoKeyCall
        /\ \A g \in KeyHandlers \ {h} : keyCalls'[g] = keyCalls[g]
    BY <1>1, <1>2, KeyCallSteps
  <2> HIDE DEF k
  <2>4. /\ flushed' \in [ApiKeySet -> Int] /\ flushed'[k] = keyTime
        /\ \A j \in ApiKeySet \ {k} : flushed'[j] = flushed[j]
    BY <1>2, <1>4, <2>1 DEF KeyInv, KeyTypes
  <2>5. /\ touches' \in [ApiKeySet -> SUBSET (Int \X KeyHandlers)] /\ touches'[k] = {<<keyTime, h>>}
        /\ \A j \in ApiKeySet \ {k} : touches'[j] = touches[j]
    BY <1>2, <1>4, <2>1, <2>2 DEF KeyInv
  <2>6. KeyTypes'
    BY <1>1, <1>2, <2>3, <2>4 DEF KeyInv, KeyTypes
  <2>7. \A g \in KeyHandlers : \A j \in ApiKeySet : \A stage \in {"create", "remember", "forget"} :
          CallOn(g, stage, j)' <=> CallOn(g, stage, j)
    BY <1>1, <1>2, <2>3 DEF CallOn
  <2>8. KeyPhases'
    <3>1. \A g \in KeyHandlers : \A j \in ApiKeySet :
            keyCalls[g].pc = "idle" \/ keyCalls[g].key # j => keyCalls'[g].pc = "idle" \/ keyCalls'[g].key # j
      BY <1>2, <2>3
    <3> QED
      BY <1>1, <2>7, <3>1 DEF KeyInv, KeyPhases
  <2>9. MapFollows'
    BY <1>1, <2>7 DEF KeyInv, MapFollows
  <2>10. OneTouch'
    BY <1>1, <1>2, <2>3, <2>4, <2>5 DEF KeyInv, OneTouch
  <2> QED
    BY <2>5, <2>6, <2>8, <2>9, <2>10 DEF KeyInv
<1> QED
  BY <1>3, <1>4 DEF Touch, Swaps

LEMMA SameCallsKept ==
  ASSUME KeyInv, UNCHANGED <<keyRow, byHash, keyCalls, astray>>
  PROVE  KeyPhases' /\ MapFollows'
BY DEF KeyInv, KeyPhases, MapFollows, CallOn

LEMMA TouchEnds ==
  ASSUME KeyInv, NEW k \in ApiKeySet, TouchLastUsed(k)
  PROVE  KeyInv'
<1>1. PICK t \in touches[k] :
        /\ touches' = [touches EXCEPT ![k] = touches[k] \ {t}]
        /\ lastUsed' \in {lastUsed, [lastUsed EXCEPT ![k] = t[1]]}
        /\ UNCHANGED <<keyRow, byHash, flushed, keyCalls, astray, keyTime>>
  BY DEF TouchLastUsed
<1>2. t[1] \in Int
  BY DEF KeyInv
<1>3. KeyTypes'
  BY <1>1, <1>2 DEF KeyInv, KeyTypes
<1>4. KeyPhases' /\ MapFollows'
  BY <1>1, SameCallsKept
<1>5. /\ touches' \in [ApiKeySet -> SUBSET (Int \X KeyHandlers)] /\ touches'[k] = {}
      /\ \A j \in ApiKeySet \ {k} : touches'[j] = touches[j]
  <2>1. touches[k] = {t}
    BY DEF KeyInv, OneTouch
  <2> QED
    BY <1>1, <2>1 DEF KeyInv
<1>6. OneTouch'
  BY <1>1, <1>5 DEF KeyInv, OneTouch
<1> QED
  BY <1>3, <1>4, <1>5, <1>6 DEF KeyInv

LEMMA WarmKeys ==
  ASSUME KeyInv, Warm
  PROVE  KeyInv'
<1>1. /\ byHash' = {k \in ApiKeySet : keyRow[k] = "active"} /\ flushed' = lastUsed
      /\ keyCalls' = [h \in KeyHandlers |-> NoKeyCall]
      /\ touches' = [k \in ApiKeySet |-> {}] /\ astray' = {}
      /\ UNCHANGED <<keyRow, lastUsed, keyTime>>
  BY DEF Warm, LoadActive
<1>2. NoKeyCall \in KeyCalls /\ NoKeyCall.pc = "idle"
  BY DEF NoKeyCall, KeyCalls
<1>3. KeyTypes'
  BY <1>1, <1>2 DEF KeyInv, KeyTypes
<1>4. \A h \in KeyHandlers : keyCalls'[h].pc = "idle"
  BY <1>1, <1>2
<1>5. KeyPhases' /\ OneTouch'
  BY <1>1, <1>4 DEF KeyPhases, OneTouch, CallOn
<1>6. MapFollows'
  BY <1>1 DEF MapFollows
<1> QED
  BY <1>1, <1>3, <1>5, <1>6 DEF KeyInv

LEMMA TickKeys ==
  ASSUME KeyInv, KeyTick
  PROVE  KeyInv'
<1>1. /\ keyTime' = keyTime + 1 /\ \A k \in ApiKeySet : touches[k] = {}
      /\ \A h \in KeyHandlers : keyCalls[h].pc # "swap"
      /\ UNCHANGED <<keyRow, lastUsed, byHash, flushed, keyCalls, touches, astray>>
  BY DEF KeyTick
<1>2. KeyPhases' /\ MapFollows'
  BY <1>1, SameCallsKept
<1>3. KeyTypes' /\ OneTouch'
  BY <1>1 DEF KeyInv, KeyTypes, OneTouch
<1> QED
  BY <1>1, <1>2, <1>3 DEF KeyInv

LEMMA KeyInvStep ==
  ASSUME KeyInv, [KeyNext]_keyVars
  PROVE  KeyInv'
<1>1. CASE UNCHANGED keyVars
  <2>1. UNCHANGED <<keyRow, lastUsed, byHash, flushed, keyCalls, touches, astray, keyTime>>
    BY <1>1 DEF keyVars
  <2>2. KeyPhases' /\ MapFollows'
    BY <2>1, SameCallsKept
  <2> QED
    BY <2>1, <2>2 DEF KeyInv, KeyTypes, OneTouch
<1> QED
  BY <1>1, RequestKey, MintKey, RememberKey, RevokeKey, ForgetKey, ValidateKey, TouchKey,
     TouchEnds, WarmKeys, TickKeys
  DEF KeyNext

LEMMA GateFollows == KeyInv => GateMatchesRows
<1> SUFFICES ASSUME KeyInv
             PROVE  GateMatchesRows
  OBVIOUS
<1>1. ASSUME NEW k \in ApiKeySet \ astray,
             \A h \in KeyHandlers : keyCalls[h].key # k \/ keyCalls[h].pc \in {"validate", "swap"}
      PROVE  k \in byHash <=> keyRow[k] = "active"
  <2>1. \A h \in KeyHandlers : ~CallOn(h, "remember", k) /\ ~CallOn(h, "forget", k)
    BY <1>1 DEF CallOn
  <2>2. keyRow[k] \in {"none", "active", "revoked"}
    BY DEF KeyInv, KeyTypes
  <2> QED
    BY <2>1, <2>2 DEF KeyInv, MapFollows
<1>2. ASSUME NEW k \in ApiKeySet
      PROVE  Cardinality(touches[k]) <= 1
  <2>1. CASE touches[k] = {}
    BY <2>1, FS_EmptySet
  <2>2. ASSUME NEW t, touches[k] = {t}
        PROVE  Cardinality(touches[k]) <= 1
    <3>1. Cardinality({t}) = 1
      BY FS_Singleton
    <3> QED
      BY <2>2, <3>1
  <2>3. touches[k] = {} \/ \E t : touches[k] = {t}
    BY DEF KeyInv, OneTouch
  <2> QED
    BY <2>1, <2>2, <2>3
<1>3. \A k \in ApiKeySet \ astray :
        (\A h \in KeyHandlers : keyCalls[h].key # k \/ keyCalls[h].pc \in {"validate", "swap"})
          => (k \in byHash <=> keyRow[k] = "active")
  BY <1>1
<1>4. \A k \in ApiKeySet : Cardinality(touches[k]) <= 1
  BY <1>2
<1> QED
  BY <1>3, <1>4 DEF GateMatchesRows

\* The gate of the API accepts the keys whose rows are active, as soon as no
\* Generate or Revoke of the key is between its statement and the map, and
\* until an answer of the database is lost; and TouchLastUsed runs at most
\* once at a time for a key, however many validations race for the swap.
THEOREM GateFollowsRows == KeySpec => []GateMatchesRows
<1>1. KeyInit => KeyInv
  BY InitKeyInv
<1>2. KeyInv /\ [KeyNext]_keyVars => KeyInv'
  BY KeyInvStep
<1>3. KeyInv => GateMatchesRows
  BY GateFollows
<1> QED
  BY <1>1, <1>2, <1>3, PTL DEF KeySpec

-----------------------------------------------------------------------------
(***************************************************************************)
(* Notifications                                                           *)
(***************************************************************************)

NoteSpec == NoteInit /\ [][NoteNext]_noteVars

NoteCallSet == [pc : {"idle", "count", "publish"}, unread : Int, old : BOOLEAN]

NoteTypes ==
  /\ notes \in Seq({"unread", "read", "pruned"})
  /\ streamPc \in [Streams -> {"closed", "hello", "open"}] /\ shown \in [Streams -> Int]
  /\ noteCalls \in [NoteActors -> NoteCallSet]
  /\ DOMAIN subs = {s \in Streams : streamPc[s] # "closed"}
  /\ \A s \in DOMAIN subs : subs[s] \in Seq(Int)

\* An announcement is as new as the rows, or is known to be old.
FreshCounts ==
  \A a \in NoteActors :
    noteCalls[a].pc = "publish" /\ noteCalls[a].old = FALSE => noteCalls[a].unread = Unread

\* Somebody is going to announce the number that the rows have now.
Announcing ==
  \E a \in NoteActors :
    noteCalls[a].pc = "count" \/ (noteCalls[a].pc = "publish" /\ noteCalls[a].old = FALSE)

\* What the page is going to show when it has emptied its channel.
LastSent(s) == IF subs[s] = <<>> THEN shown[s] ELSE subs[s][Len(subs[s])]

BadgesFollow == Announcing \/ \A s \in DOMAIN subs \ off : LastSent(s) = Unread

NoteInv == NoteTypes /\ FreshCounts /\ BadgesFollow

LEMMA UnreadCounts ==
  ASSUME NoteTypes
  PROVE  Unread \in Int
<1> DEFINE N == {n \in DOMAIN notes : notes[n] = "unread"}
<1>1. DOMAIN notes = 1..Len(notes) /\ Len(notes) \in Nat
  BY DEF NoteTypes
<1>2. IsFiniteSet(1..Len(notes))
  BY <1>1, FS_Interval
<1>3. N \subseteq 1..Len(notes)
  BY <1>1
<1>4. IsFiniteSet(N)
  BY <1>2, <1>3, FS_Subset
<1>5. Cardinality(N) \in Nat
  BY <1>4, FS_CardinalityType
<1> QED
  BY <1>5 DEF Unread

LEMMA CallsGo ==
  ASSUME NEW calls, calls \in [NoteActors -> NoteCallSet], NEW a \in NoteActors,
         NEW stage \in {"idle", "count", "publish"}, NEW unread \in Int,
         NoteGo(calls, a, stage, unread)
  PROVE  /\ noteCalls' \in [NoteActors -> NoteCallSet]
         /\ noteCalls'[a] = [pc |-> stage, unread |-> unread, old |-> FALSE]
         /\ \A b \in NoteActors \ {a} : noteCalls'[b] = calls[b]
BY DEF NoteGo, NoteCallSet

LEMMA CallsStop ==
  ASSUME noteCalls \in [NoteActors -> NoteCallSet], NEW a \in NoteActors, NoteStop(a)
  PROVE  /\ noteCalls' \in [NoteActors -> NoteCallSet]
         /\ noteCalls'[a].pc = "idle"
         /\ \A b \in NoteActors \ {a} : noteCalls'[b] = noteCalls[b]
BY DEF NoteStop, NoNoteCall, NoteCallSet

LEMMA CallsOutdated ==
  ASSUME noteCalls \in [NoteActors -> NoteCallSet]
  PROVE  /\ Outdated \in [NoteActors -> NoteCallSet]
         /\ \A b \in NoteActors : /\ Outdated[b].pc = noteCalls[b].pc
                                  /\ Outdated[b].unread = noteCalls[b].unread
                                  /\ Outdated[b].pc = "publish" => Outdated[b].old = TRUE
<1> SUFFICES ASSUME NEW b \in NoteActors
             PROVE  /\ Outdated[b] \in NoteCallSet
                    /\ Outdated[b].pc = noteCalls[b].pc
                    /\ Outdated[b].unread = noteCalls[b].unread
                    /\ Outdated[b].pc = "publish" => Outdated[b].old = TRUE
  BY DEF Outdated
<1>1. noteCalls[b] \in NoteCallSet
  OBVIOUS
<1>2. Outdated[b] = [noteCalls[b] EXCEPT !.old = (noteCalls[b].pc = "publish")]
  BY DEF Outdated
<1>3. CASE noteCalls[b].pc = "publish"
  <2>1. Outdated[b] = [noteCalls[b] EXCEPT !.old = TRUE]
    BY <1>2, <1>3
  <2> QED
    BY <1>1, <1>3, <2>1 DEF NoteCallSet
<1>4. CASE noteCalls[b].pc # "publish"
  <2>1. Outdated[b] = [noteCalls[b] EXCEPT !.old = FALSE]
    BY <1>2, <1>4
  <2> QED
    BY <1>1, <1>4, <2>1 DEF NoteCallSet
<1> QED
  BY <1>3, <1>4

LEMMA InitNoteInv == NoteInit => NoteInv
<1> SUFFICES ASSUME NoteInit
             PROVE  NoteInv
  OBVIOUS
<1>1. DOMAIN subs = {}
  BY DEF NoteInit
<1>2. noteCalls \in [NoteActors -> NoteCallSet] /\ \A a \in NoteActors : noteCalls[a].pc = "idle"
  BY DEF NoteInit, NoNoteCall, NoteCallSet
<1>3. {s \in Streams : streamPc[s] # "closed"} = {}
  BY DEF NoteInit
<1>4. NoteTypes
  BY <1>1, <1>2, <1>3 DEF NoteInit, NoteTypes, Nothing, NoteCallSet
<1> QED
  BY <1>1, <1>2, <1>4 DEF NoteInv, FreshCounts, BadgesFollow

LEMMA SameUnread ==
  ASSUME UNCHANGED notes
  PROVE  Unread' = Unread
BY DEF Unread

LEMMA ChangeFollows ==
  ASSUME NoteInv, NEW p \in Publishers, Change(p)
  PROVE  NoteInv'
<1> USE DEF NoteInv
<1>1. p \in NoteActors /\ noteCalls \in [NoteActors -> NoteCallSet]
  BY DEF NoteActors, NoteTypes
<1>2. Outdated \in [NoteActors -> NoteCallSet]
  BY <1>1, CallsOutdated
<1>3. NoteGo(Outdated, p, "count", 0)
  BY DEF Change, CountsNext
<1>4. /\ noteCalls' \in [NoteActors -> NoteCallSet]
      /\ noteCalls'[p] = [pc |-> "count", unread |-> 0, old |-> FALSE]
      /\ \A b \in NoteActors \ {p} : noteCalls'[b] = Outdated[b]
  <2> DEFINE calls == Outdated
  <2>1. calls \in [NoteActors -> NoteCallSet] /\ NoteGo(calls, p, "count", 0)
    BY <1>2, <1>3
  <2> HIDE DEF calls
  <2>2. /\ noteCalls' \in [NoteActors -> NoteCallSet]
        /\ noteCalls'[p] = [pc |-> "count", unread |-> 0, old |-> FALSE]
        /\ \A b \in NoteActors \ {p} : noteCalls'[b] = calls[b]
    BY <1>1, <2>1, CallsGo
  <2> QED
    BY <2>2 DEF calls
<1>5. notes' \in Seq({"unread", "read", "pruned"})
  <2>1. CASE notes' = Append(notes, "unread")
    BY <2>1 DEF NoteTypes
  <2>2. ASSUME NEW n \in DOMAIN notes,
               notes' = [notes EXCEPT ![n] = IF @ = "unread" THEN "read" ELSE @]
        PROVE  notes' \in Seq({"unread", "read", "pruned"})
    BY <2>2 DEF NoteTypes
  <2>3. CASE notes' = [n \in DOMAIN notes |-> IF notes[n] = "unread" THEN "read" ELSE notes[n]]
    BY <2>3 DEF NoteTypes
  <2> QED
    BY <2>1, <2>2, <2>3 DEF Change
<1>6. UNCHANGED <<subs, shown, streamPc, off>>
  BY DEF Change
<1>7. NoteTypes'
  BY <1>4, <1>5, <1>6 DEF NoteTypes
<1>8. FreshCounts'
  <2> SUFFICES ASSUME NEW b \in NoteActors, noteCalls'[b].pc = "publish", noteCalls'[b].old = FALSE
               PROVE  FALSE
    BY DEF FreshCounts
  <2>1. b # p
    BY <1>4
  <2>2. noteCalls'[b] = Outdated[b]
    BY <1>4, <2>1
  <2> QED
    BY <1>1, <2>2, CallsOutdated
<1>9. Announcing'
  BY <1>1, <1>4 DEF Announcing
<1> QED
  BY <1>7, <1>8, <1>9 DEF BadgesFollow

LEMMA PruneFollows ==
  ASSUME NoteInv, Prune
  PROVE  NoteInv'
<1> USE DEF NoteInv
<1>1. noteCalls \in [NoteActors -> NoteCallSet]
  BY DEF NoteTypes
<1>2. noteCalls' = Outdated /\ off' = DOMAIN subs /\ UNCHANGED <<subs, shown, streamPc>>
  BY DEF Prune
<1>3. notes' \in Seq({"unread", "read", "pruned"})
  <2>1. PICK n \in DOMAIN notes : notes' = [m \in DOMAIN notes |-> IF m <= n THEN "pruned" ELSE notes[m]]
    BY DEF Prune
  <2>2. DOMAIN notes = 1..Len(notes) /\ Len(notes) \in Nat
    BY DEF NoteTypes
  <2>3. \A m \in 1..Len(notes) : notes'[m] \in {"unread", "read", "pruned"}
    <3> SUFFICES ASSUME NEW m \in 1..Len(notes)
                 PROVE  notes'[m] \in {"unread", "read", "pruned"}
      OBVIOUS
    <3>1. notes[m] \in {"unread", "read", "pruned"}
      BY <2>2 DEF NoteTypes
    <3> QED
      BY <2>1, <2>2, <3>1
  <2>4. notes' \in [1..Len(notes) -> {"unread", "read", "pruned"}]
    BY <2>1, <2>2, <2>3
  <2> QED
    BY <2>2, <2>4
<1>4. NoteTypes'
  BY <1>1, <1>2, <1>3, CallsOutdated DEF NoteTypes
<1>5. FreshCounts'
  BY <1>1, <1>2, CallsOutdated DEF FreshCounts
<1>6. DOMAIN subs' \ off' = {}
  BY <1>2
<1> QED
  BY <1>4, <1>5, <1>6 DEF BadgesFollow

LEMMA CountFollows ==
  ASSUME NoteInv, NEW a \in NoteActors, CountUnread(a)
  PROVE  NoteInv'
<1> USE DEF NoteInv
<1>1. noteCalls \in [NoteActors -> NoteCallSet]
  BY DEF NoteTypes
<1>2. UNCHANGED <<notes, subs, shown, streamPc>>
  BY DEF CountUnread
<1>3. Unread' = Unread /\ Unread \in Int
  BY <1>2, SameUnread, UnreadCounts
<1>4. CASE NoteGo(noteCalls, a, "publish", Unread)
  <2>1. /\ noteCalls' \in [NoteActors -> NoteCallSet]
        /\ noteCalls'[a] = [pc |-> "publish", unread |-> Unread, old |-> FALSE]
        /\ \A b \in NoteActors \ {a} : noteCalls'[b] = noteCalls[b]
    BY <1>1, <1>3, <1>4, CallsGo
  <2>2. noteCalls'[a].pc = "publish" /\ noteCalls'[a].unread = Unread /\ noteCalls'[a].old = FALSE
    BY <2>1
  <2>3. NoteTypes'
    BY <1>2, <2>1 DEF NoteTypes
  <2>4. FreshCounts'
    BY <1>3, <2>1, <2>2 DEF FreshCounts
  <2>5. Announcing'
    BY <2>2 DEF Announcing
  <2> QED
    BY <2>3, <2>4, <2>5 DEF BadgesFollow
<1>5. CASE NoteStop(a) /\ off' = DOMAIN subs
  <2>1. /\ noteCalls' \in [NoteActors -> NoteCallSet]
        /\ noteCalls'[a].pc = "idle"
        /\ \A b \in NoteActors \ {a} : noteCalls'[b] = noteCalls[b]
    BY <1>1, <1>5, CallsStop
  <2>2. NoteTypes'
    BY <1>2, <2>1 DEF NoteTypes
  <2>3. FreshCounts'
    BY <1>3, <2>1 DEF FreshCounts
  <2>4. DOMAIN subs' \ off' = {}
    BY <1>2, <1>5
  <2> QED
    BY <2>2, <2>3, <2>4 DEF BadgesFollow
<1> QED
  BY <1>4, <1>5 DEF CountUnread

LEMMA PublishFollows ==
  ASSUME NoteInv, NEW a \in NoteActors, Publish(a)
  PROVE  NoteInv'
<1> USE DEF NoteInv
<1> DEFINE unread == noteCalls[a].unread
<1>1. noteCalls \in [NoteActors -> NoteCallSet]
  BY DEF NoteTypes
<1>2. UNCHANGED <<notes, shown, streamPc>> /\ noteCalls[a].pc = "publish" /\ NoteStop(a)
  BY DEF Publish
<1>3. Unread' = Unread
  BY <1>2, SameUnread
<1>4. /\ noteCalls' \in [NoteActors -> NoteCallSet]
      /\ noteCalls'[a].pc = "idle"
      /\ \A b \in NoteActors \ {a} : noteCalls'[b] = noteCalls[b]
  BY <1>1, <1>2, CallsStop
<1>5. /\ DOMAIN subs' = DOMAIN subs
      /\ \A s \in DOMAIN subs : subs'[s] = IF Fits(s) THEN Append(subs[s], unread) ELSE subs[s]
  BY DEF Publish
<1>6. unread \in Int
  BY <1>1 DEF NoteCallSet
<1>7. \A s \in DOMAIN subs : subs'[s] \in Seq(Int)
  <2> SUFFICES ASSUME NEW s \in DOMAIN subs
               PROVE  subs'[s] \in Seq(Int)
    OBVIOUS
  <2>1. subs[s] \in Seq(Int)
    BY DEF NoteTypes
  <2>2. subs'[s] = Append(subs[s], unread) \/ subs'[s] = subs[s]
    BY <1>5
  <2> HIDE DEF unread
  <2>3. Append(subs[s], unread) \in Seq(Int)
    BY <1>6, <2>1, AppendProperties
  <2> QED
    BY <2>1, <2>2, <2>3
<1>8. NoteTypes'
  BY <1>2, <1>4, <1>5, <1>7 DEF NoteTypes
<1>9. FreshCounts'
  BY <1>3, <1>4 DEF FreshCounts
<1>10. CASE noteCalls[a].old = TRUE
  <2>1. off' = DOMAIN subs
    BY <1>10 DEF Publish
  <2> QED
    BY <1>5, <1>8, <1>9, <2>1 DEF BadgesFollow
<1>11. CASE noteCalls[a].old = FALSE
  <2>1. off' = {s \in DOMAIN subs : ~Fits(s)}
    BY <1>11 DEF Publish
  <2>2. unread = Unread
    BY <1>2, <1>11 DEF FreshCounts
  <2>3. ASSUME NEW s \in DOMAIN subs' \ off'
        PROVE  LastSent(s)' = Unread'
    <3>1. s \in DOMAIN subs /\ Fits(s)
      BY <1>5, <2>1, <2>3
    <3>2. subs'[s] = Append(subs[s], unread)
      BY <1>5, <3>1
    <3>3. subs[s] \in Seq(Int)
      BY <3>1 DEF NoteTypes
    <3>4. subs'[s] # <<>> /\ subs'[s][Len(subs'[s])] = unread
      BY <1>6, <3>2, <3>3
    <3> QED
      BY <1>3, <2>2, <3>4 DEF LastSent
  <2> QED
    BY <1>8, <1>9, <2>3 DEF BadgesFollow
<1>12. noteCalls[a].old \in BOOLEAN
  BY <1>1 DEF NoteCallSet
<1> QED
  BY <1>10, <1>11, <1>12

LEMMA OpenFollows ==
  ASSUME NoteInv, NEW s \in Streams, OpenStream(s)
  PROVE  NoteInv'
<1> USE DEF NoteInv
<1>1. s \in NoteActors /\ noteCalls \in [NoteActors -> NoteCallSet]
  BY DEF NoteActors, NoteTypes
<1>2. UNCHANGED <<notes, shown, off>> /\ NoteGo(noteCalls, s, "count", 0)
  BY DEF OpenStream
<1>3. Unread' = Unread
  BY <1>2, SameUnread
<1>4. /\ noteCalls' \in [NoteActors -> NoteCallSet]
      /\ noteCalls'[s] = [pc |-> "count", unread |-> 0, old |-> FALSE]
      /\ \A b \in NoteActors \ {s} : noteCalls'[b] = noteCalls[b]
  BY <1>1, <1>2, CallsGo
<1>5. /\ DOMAIN subs' = DOMAIN subs \cup {s} /\ subs'[s] = <<>>
      /\ \A t \in DOMAIN subs \ {s} : subs'[t] = subs[t]
  BY DEF OpenStream
<1>6. /\ streamPc' \in [Streams -> {"closed", "hello", "open"}] /\ streamPc'[s] = "hello"
      /\ \A t \in Streams \ {s} : streamPc'[t] = streamPc[t]
  BY DEF OpenStream, NoteTypes
<1>7. \A t \in DOMAIN subs' : subs'[t] \in Seq(Int)
  <2>1. subs'[s] \in Seq(Int)
    BY <1>5
  <2>2. \A t \in DOMAIN subs \ {s} : subs'[t] \in Seq(Int)
    BY <1>5 DEF NoteTypes
  <2> QED
    BY <1>5, <2>1, <2>2
<1>8. DOMAIN subs' = {t \in Streams : streamPc'[t] # "closed"}
  BY <1>5, <1>6 DEF NoteTypes
<1>9. NoteTypes'
  BY <1>2, <1>4, <1>6, <1>7, <1>8 DEF NoteTypes
<1>10. noteCalls'[s].pc = "count"
  BY <1>4
<1>11. FreshCounts'
  BY <1>3, <1>4, <1>10 DEF FreshCounts
<1>12. Announcing'
  BY <1>1, <1>10 DEF Announcing
<1> QED
  BY <1>9, <1>11, <1>12 DEF BadgesFollow

\* What leaves the notifications and the calls alone announces as before.
LEMMA SameCalls ==
  ASSUME NoteInv, UNCHANGED <<notes, noteCalls>>
  PROVE  /\ Unread' = Unread /\ Announcing' = Announcing /\ FreshCounts'
BY SameUnread DEF NoteInv, FreshCounts, Announcing

LEMMA ListenFollows ==
  ASSUME NoteInv, NEW s \in Streams, Listen(s)
  PROVE  NoteInv'
<1> USE DEF NoteInv
<1>1. UNCHANGED <<notes, subs, shown, noteCalls, off>>
  BY DEF Listen
<1>2. /\ streamPc' \in [Streams -> {"closed", "hello", "open"}] /\ streamPc'[s] = "open"
      /\ \A t \in Streams \ {s} : streamPc'[t] = streamPc[t]
      /\ streamPc[s] = "hello"
  BY DEF Listen, NoteTypes
<1>3. {t \in Streams : streamPc'[t] # "closed"} = {t \in Streams : streamPc[t] # "closed"}
  BY <1>2
<1>4. NoteTypes'
  BY <1>1, <1>2, <1>3 DEF NoteTypes
<1>5. \A t \in DOMAIN subs : LastSent(t)' = LastSent(t)
  BY <1>1 DEF LastSent
<1> QED
  BY <1>1, <1>4, <1>5, SameCalls DEF BadgesFollow

LEMMA DeliverFollows ==
  ASSUME NoteInv, NEW s \in Streams, Deliver(s)
  PROVE  NoteInv'
<1> USE DEF NoteInv
<1>1. UNCHANGED <<notes, streamPc, noteCalls, off>> /\ subs[s] # <<>> /\ s \in DOMAIN subs
  BY DEF Deliver, NoteTypes
<1>2. subs[s] \in Seq(Int)
  BY <1>1 DEF NoteTypes
<1>3. /\ DOMAIN subs' = DOMAIN subs /\ subs'[s] = Tail(subs[s])
      /\ \A t \in DOMAIN subs \ {s} : subs'[t] = subs[t]
  BY <1>1 DEF Deliver
<1>4. /\ shown' = [shown EXCEPT ![s] = Head(subs[s])] /\ shown \in [Streams -> Int]
  BY DEF Deliver, NoteTypes
<1>5. shown'[s] = Head(subs[s]) /\ \A t \in Streams \ {s} : shown'[t] = shown[t]
  BY <1>4
<1>6. Head(subs[s]) \in Int /\ Tail(subs[s]) \in Seq(Int)
  BY <1>1, <1>2
<1>7. shown' \in [Streams -> Int]
  BY <1>4, <1>6
<1>8. \A t \in DOMAIN subs : subs'[t] \in Seq(Int)
  BY <1>3, <1>6 DEF NoteTypes
<1>9. NoteTypes'
  BY <1>1, <1>3, <1>7, <1>8 DEF NoteTypes
<1>10. LastSent(s)' = LastSent(s)
  <2>1. CASE Tail(subs[s]) = <<>>
    <3>1. Len(Tail(subs[s])) = Len(subs[s]) - 1
      BY <1>1, <1>2, HeadTailProperties
    <3>2. Len(<<>>) = 0
      OBVIOUS
    <3>3. Len(Tail(subs[s])) = 0
      BY <2>1, <3>2, Zenon
    <3>4. Len(subs[s]) = 1
      BY <1>2, <3>1, <3>3
    <3>5. subs[s][Len(subs[s])] = Head(subs[s])
      BY <1>2, <3>4
    <3>6. LastSent(s) = Head(subs[s])
      BY <1>1, <3>5 DEF LastSent
    <3>7. LastSent(s)' = shown'[s]
      BY <1>3, <2>1 DEF LastSent
    <3> QED
      BY <1>5, <3>6, <3>7
  <2>2. CASE Tail(subs[s]) # <<>>
    <3>1. Len(Tail(subs[s])) = Len(subs[s]) - 1 /\ Len(subs[s]) \in Nat /\ Len(subs[s]) # 1
      <4>1. Tail(subs[s]) \in Seq(Int) /\ Len(Tail(subs[s])) = Len(subs[s]) - 1
        BY <1>1, <1>2, HeadTailProperties
      <4>2. Len(Tail(subs[s])) # 0
        BY <2>2, <4>1, EmptySeq
      <4> QED
        BY <1>2, <4>1, <4>2
    <3>2. Tail(subs[s])[Len(Tail(subs[s]))] = subs[s][Len(subs[s])]
      BY <1>1, <1>2, <2>2, <3>1
    <3> QED
      BY <1>1, <1>3, <2>2, <3>2 DEF LastSent
  <2> QED
    BY <2>1, <2>2
<1>11. \A t \in DOMAIN subs : LastSent(t)' = LastSent(t)
  <2>1. DOMAIN subs \subseteq Streams
    BY DEF NoteTypes
  <2> QED
    BY <1>3, <1>5, <1>10, <2>1 DEF LastSent
<1> QED
  BY <1>1, <1>3, <1>9, <1>11, SameCalls DEF BadgesFollow

LEMMA CloseFollows ==
  ASSUME NoteInv, NEW s \in Streams, CloseStream(s)
  PROVE  NoteInv'
<1> USE DEF NoteInv
<1>1. UNCHANGED <<notes, noteCalls>> /\ off' = off \ {s}
  BY DEF CloseStream
<1>2. DOMAIN subs' = DOMAIN subs \ {s} /\ \A t \in DOMAIN subs' : subs'[t] = subs[t]
  BY DEF CloseStream
<1>3. /\ streamPc' \in [Streams -> {"closed", "hello", "open"}] /\ streamPc'[s] = "closed"
      /\ \A t \in Streams \ {s} : streamPc'[t] = streamPc[t]
  BY DEF CloseStream, NoteTypes
<1>4. shown' \in [Streams -> Int] /\ \A t \in Streams \ {s} : shown'[t] = shown[t]
  BY DEF CloseStream, NoteTypes, Nothing
<1>5. DOMAIN subs' = {t \in Streams : streamPc'[t] # "closed"}
  BY <1>2, <1>3 DEF NoteTypes
<1>6. NoteTypes'
  BY <1>1, <1>2, <1>3, <1>4, <1>5 DEF NoteTypes
<1>7. ASSUME NEW t \in DOMAIN subs' \ off'
      PROVE  t \in DOMAIN subs \ off /\ LastSent(t)' = LastSent(t)
  <2>1. t \in DOMAIN subs \ off /\ t \in Streams \ {s}
    BY <1>1, <1>2, <1>5
  <2> QED
    BY <1>2, <1>4, <2>1 DEF LastSent
<1> QED
  BY <1>1, <1>6, <1>7, SameCalls DEF BadgesFollow

LEMMA NoteInvStep == NoteInv /\ [NoteNext]_noteVars => NoteInv'
<1> SUFFICES ASSUME NoteInv, [NoteNext]_noteVars
             PROVE  NoteInv'
  OBVIOUS
<1>1. CASE UNCHANGED noteVars
  <2>1. UNCHANGED <<notes, subs, shown, streamPc, noteCalls, off>>
    BY <1>1 DEF noteVars
  <2>2. NoteTypes'
    BY <2>1 DEF NoteInv, NoteTypes
  <2>3. \A t \in DOMAIN subs : LastSent(t)' = LastSent(t)
    BY <2>1 DEF LastSent
  <2> QED
    BY <2>1, <2>2, <2>3, SameCalls DEF NoteInv, BadgesFollow
<1>2. CASE NoteNext
  BY <1>2, ChangeFollows, PruneFollows, CountFollows, PublishFollows, OpenFollows, ListenFollows,
     DeliverFollows, CloseFollows DEF NoteNext
<1> QED
  BY <1>1, <1>2

\* Once no Emit, MarkRead or PublishUnread is under way, a page that has
\* written what its channel held shows the number of unread notifications,
\* unless its channel was full, a change went unannounced, or the last
\* announcement had become old before it was made.
THEOREM BadgeFollowsRows == NoteSpec => []BadgeCurrent
<1>1. NoteInit => NoteInv
  BY InitNoteInv
<1>2. NoteInv /\ [NoteNext]_noteVars => NoteInv'
  BY NoteInvStep
<1>3. NoteInv => BadgeCurrent
  <2> SUFFICES ASSUME NoteInv, \A a \in NoteActors : noteCalls[a].pc = "idle",
                      NEW s \in Streams \ off, streamPc[s] = "open", subs[s] = <<>>
               PROVE  shown[s] = Unread
    BY DEF BadgeCurrent
  <2>1. ~Announcing
    BY DEF Announcing
  <2>2. s \in DOMAIN subs
    BY DEF NoteInv, NoteTypes
  <2>3. LastSent(s) = Unread
    BY <2>1, <2>2 DEF NoteInv, BadgesFollow
  <2> QED
    BY <2>3 DEF LastSent
<1> QED
  BY <1>1, <1>2, <1>3, PTL DEF NoteSpec

-----------------------------------------------------------------------------
(***************************************************************************)
(* Reference data                                                          *)
(***************************************************************************)

DataSpec == DataInit /\ [][DataNext]_dataVars

Readable == (Texts \cup {Gone}) \ {Bad}
FileStates == [text : Texts \cup {Bad, Gone}, stamp : Nat]
Blobs == [value : Seq(Readable), seen : Seq(FileStates)]

ReloadTypes ==
  [pc : {"idle", "cache", "parse", "hash", "save", "store", "down"}, boot : BOOLEAN,
   next : Nat, value : Seq(Readable), seen : Seq(FileStates)]

DataTypes ==
  /\ files \in [SourceFiles -> FileStates]
  /\ cacheFile \in Blobs
  /\ cacheFile # NoCache => Len(cacheFile.value) = NSources /\ Len(cacheFile.seen) = NSources
  /\ snap \in Seq(Readable)
  /\ reload \in ReloadTypes

\* How far the reload has come; and a panel that has started serves something.
Progress ==
  /\ reload.pc = "idle" => reload.boot = FALSE
  /\ reload.boot = FALSE => Len(snap) = NSources
  /\ reload.pc = "cache" => reload.value = <<>> /\ reload.seen = <<>> /\ reload.next = 1
  /\ reload.pc = "parse" =>
       /\ reload.next \in SourceFiles /\ Len(reload.value) = reload.next - 1 /\ reload.seen = <<>>
  /\ reload.pc = "hash" =>
       /\ reload.next \in SourceFiles /\ Len(reload.value) = NSources /\ Len(reload.seen) = reload.next - 1
  /\ reload.pc = "save" => Len(reload.value) = NSources /\ Len(reload.seen) = NSources
  /\ reload.pc = "store" => Len(reload.value) = NSources

\* The watcher has nothing to do, and nothing escaped it.
Quiet == ~event /\ ~timer /\ missed = {}

\* What the cache holds is what the files would give again.
CacheTruthful == CacheMadeOf /\ StampsTell

\* As long as that is so, what the reload read is what the files still say.
Says(value) == \A s \in SourceFiles : value[s] = files[s].text

ParsedCurrent ==
  /\ reload.pc = "parse" => \A s \in SourceFiles : s < reload.next => reload.value[s] = files[s].text
  /\ reload.pc \in {"hash", "save"} => Says(reload.value)
  /\ reload.pc = "hash" => \A s \in SourceFiles : s < reload.next => reload.seen[s] = files[s]
  /\ reload.pc = "save" => \A s \in SourceFiles : reload.seen[s] = files[s]
  /\ reload.pc = "store" /\ CacheTruthful => Says(reload.value)

ServedCurrent ==
  reload.pc = "idle" /\ CacheTruthful
    => IF \E s \in SourceFiles : files[s].text = Bad THEN lastError = TRUE
       ELSE lastError = FALSE /\ Says(snap)

DataInv == DataTypes /\ Progress /\ (Quiet => ParsedCurrent /\ ServedCurrent)

LEMMA Starting ==
  ASSUME NEW stage \in {"idle", "cache", "down"}, NEW boot \in BOOLEAN
  PROVE  /\ Start(stage, boot) \in ReloadTypes
         /\ Start(stage, boot).pc = stage /\ Start(stage, boot).boot = boot /\ Start(stage, boot).next = 1
         /\ Start(stage, boot).value = <<>> /\ Start(stage, boot).seen = <<>>
BY DEF Start, ReloadTypes

LEMMA InitDataInv == DataInit => DataInv
<1> SUFFICES ASSUME DataInit
             PROVE  DataInv
  OBVIOUS
<1>1. files \in [SourceFiles -> FileStates]
  BY DEF DataInit, FileStates
<1>2. cacheFile = NoCache /\ NoCache \in Blobs
  BY DEF DataInit, NoCache, Blobs
<1>3. snap \in Seq(Readable)
  BY DEF DataInit, NoSnap
<1>4. reload = Start("cache", TRUE)
  BY DEF DataInit
<1>5. DataTypes
  BY <1>1, <1>2, <1>3, <1>4, Starting DEF DataTypes, ReloadTypes
<1>6. Progress
  BY <1>4, Starting DEF Progress
<1>7. ParsedCurrent /\ ServedCurrent
  BY <1>4, Starting DEF ParsedCurrent, ServedCurrent
<1> QED
  BY <1>5, <1>6, <1>7 DEF DataInv

\* Nobody but the writers of files and cache changes whether it is truthful.
LEMMA SameTruth ==
  ASSUME UNCHANGED <<files, cacheFile>>
  PROVE  CacheTruthful' <=> CacheTruthful
BY DEF CacheTruthful, CacheMadeOf, StampsTell, NoCache

LEMMA EditFollows ==
  ASSUME DataInv, NEW s \in SourceFiles, NEW text \in Texts \cup {Bad, Gone}, Edit(s, text)
  PROVE  DataInv'
<1> USE DEF DataInv
<1>1. UNCHANGED <<cacheFile, snap, lastError, reload, timer>>
  BY DEF Edit
<1>2. ~Quiet'
  BY DEF Edit, Quiet, Reported, Matches
<1>3. files' \in [SourceFiles -> FileStates]
  <2>1. PICK stamp \in {files[s].stamp, files[s].stamp + 1} :
          files' = [files EXCEPT ![s] = [text |-> text, stamp |-> stamp]]
    BY DEF Edit
  <2>2. files[s] \in FileStates /\ files \in [SourceFiles -> FileStates]
    BY DEF DataTypes
  <2>3. stamp \in Nat
    BY <2>1, <2>2 DEF FileStates
  <2>4. [text |-> text, stamp |-> stamp] \in FileStates
    BY <2>3 DEF FileStates
  <2> QED
    BY <2>1, <2>2, <2>4
<1>4. DataTypes' /\ Progress'
  BY <1>1, <1>3 DEF DataTypes, Progress
<1> QED
  BY <1>2, <1>4

LEMMA NoticeFollows ==
  ASSUME DataInv, Notice
  PROVE  DataInv'
BY DEF DataInv, Notice, Armed, DataTypes, Progress, Quiet

\* The watcher and the admin go through the same guard.
LEMMA TryReloadFollows ==
  ASSUME DataInv, NEW refused, TryReload(refused), UNCHANGED <<files, cacheFile, snap, lastError>>,
         reload.pc # "idle" => (Quiet' => Quiet)
  PROVE  DataInv'
<1> USE DEF DataInv
<1>1. CASE reload.pc = "idle"
  <2>1. reload' = Start("cache", FALSE)
    BY <1>1 DEF TryReload
  <2>2. reload.boot = FALSE
    BY <1>1 DEF Progress
  <2>3. DataTypes'
    BY <2>1, Starting DEF DataTypes, ReloadTypes
  <2>4. Progress'
    BY <2>1, <2>2, Starting DEF Progress
  <2>5. ParsedCurrent' /\ ServedCurrent'
    BY <2>1, Starting DEF ParsedCurrent, ServedCurrent
  <2> QED
    BY <2>3, <2>4, <2>5
<1>2. CASE reload.pc # "idle"
  <2>1. UNCHANGED reload
    BY <1>2 DEF TryReload
  <2>2. DataTypes' /\ Progress'
    BY <2>1 DEF DataTypes, Progress
  <2>3. ParsedCurrent => ParsedCurrent'
    BY <2>1, SameTruth DEF ParsedCurrent, Says
  <2>4. ServedCurrent'
    BY <1>2, <2>1 DEF ServedCurrent
  <2> QED
    BY <1>2, <2>2, <2>3, <2>4
<1> QED
  BY <1>1, <1>2

LEMMA FireFollows ==
  ASSUME DataInv, Fire
  PROVE  DataInv'
<1>1. TryReload({"refused"}) /\ UNCHANGED <<files, cacheFile, snap, lastError>>
  BY DEF Fire
<1>2. reload.pc # "idle" => ~Quiet'
  BY <1>1 DEF TryReload, Quiet
<1> QED
  BY <1>1, <1>2, TryReloadFollows

LEMMA AdminFollows ==
  ASSUME DataInv, AdminReload
  PROVE  DataInv'
<1>1. TryReload({}) /\ UNCHANGED <<files, cacheFile, snap, lastError, event, timer>>
  BY DEF AdminReload
<1>2. reload.pc # "idle" => (Quiet' => Quiet)
  BY <1>1 DEF TryReload, Quiet
<1> QED
  BY <1>1, <1>2, TryReloadFollows

LEMMA FromCacheFollows ==
  ASSUME DataInv, TryLoadFromCache
  PROVE  DataInv'
<1> USE DEF DataInv
<1>1. reload.pc = "cache" /\ UNCHANGED <<files, cacheFile, snap, lastError, event, timer, missed>>
  BY DEF TryLoadFromCache
<1>2. reload \in ReloadTypes
  BY DEF DataTypes, ReloadTypes
<1>3. reload.value = <<>> /\ reload.seen = <<>> /\ reload.next = 1
  BY <1>1 DEF Progress
<1>4. CASE CacheHit(cacheFile)
  <2>1. reload' = [reload EXCEPT !.pc = "store", !.value = cacheFile.value]
    BY <1>4 DEF TryLoadFromCache
  <2>2. cacheFile # NoCache /\ cacheFile.value \in Seq(Readable) /\ Len(cacheFile.value) = NSources
    BY <1>4 DEF CacheHit, Verified, DataTypes, Blobs
  <2>3. reload' \in ReloadTypes /\ reload'.pc = "store" /\ reload'.value = cacheFile.value
        /\ reload'.boot = reload.boot
    BY <1>2, <2>1, <2>2 DEF ReloadTypes
  <2>4. DataTypes'
    BY <1>1, <2>3 DEF DataTypes, ReloadTypes
  <2>5. Progress'
    BY <1>1, <2>2, <2>3 DEF Progress
  <2>6. CacheTruthful => Says(cacheFile.value)
    BY <1>4, <2>2 DEF CacheHit, Verified, CacheTruthful, CacheMadeOf, StampsTell, Says
  <2>7. ParsedCurrent' /\ ServedCurrent'
    <3>1. CacheTruthful' => Says(reload.value)'
      BY <1>1, <2>3, <2>6, SameTruth DEF Says
    <3> QED
      BY <2>3, <3>1 DEF ParsedCurrent, ServedCurrent
  <2> QED
    BY <2>4, <2>5, <2>7
<1>5. CASE ~CacheHit(cacheFile)
  <2>1. reload' = [reload EXCEPT !.pc = "parse"]
    BY <1>5 DEF TryLoadFromCache
  <2>2. /\ reload' \in ReloadTypes /\ reload'.pc = "parse" /\ reload'.boot = reload.boot
        /\ reload'.value = <<>> /\ reload'.seen = <<>> /\ reload'.next = 1
    BY <1>2, <1>3, <2>1 DEF ReloadTypes
  <2>3. DataTypes'
    BY <1>1, <2>2 DEF DataTypes, ReloadTypes
  <2>4. Progress'
    BY <1>1, <2>2, DataBounds DEF Progress, SourceFiles
  <2>5. ParsedCurrent' /\ ServedCurrent'
    BY <2>2 DEF ParsedCurrent, ServedCurrent, SourceFiles
  <2> QED
    BY <2>3, <2>4, <2>5
<1> QED
  BY <1>4, <1>5

LEMMA ParseFollows ==
  ASSUME DataInv, ParseNext
  PROVE  DataInv'
<1> USE DEF DataInv
<1> DEFINE n == reload.next
           text == files[n].text
           value == Append(reload.value, text)
<1>1. reload.pc = "parse" /\ UNCHANGED <<files, cacheFile, snap, event, timer, missed>>
  BY DEF ParseNext
<1>2. reload \in ReloadTypes /\ reload.value \in Seq(Readable) /\ reload.boot \in BOOLEAN
  BY DEF DataTypes, ReloadTypes
<1>3. n \in SourceFiles /\ n \in 1..NSources /\ NSources \in Nat /\ Len(reload.value) = n - 1
      /\ reload.seen = <<>>
  BY <1>1, DataBounds DEF Progress, SourceFiles
<1>4. text \in Texts \cup {Bad, Gone}
  BY <1>3 DEF DataTypes, FileStates
<1>5. CASE text = Bad
  <2>1. lastError' = TRUE
        /\ reload' = IF reload.boot THEN Start("down", TRUE) ELSE Resting
    BY <1>5 DEF ParseNext
  <2>2. reload' = Start("down", TRUE) \/ (reload' = Start("idle", FALSE) /\ reload.boot = FALSE)
    <3>1. CASE reload.boot = TRUE
      BY <2>1, <3>1
    <3>2. CASE reload.boot = FALSE
      <4>1. reload' = Start("idle", FALSE)
        BY <2>1, <3>2, Zenon DEF Resting
      <4> QED
        BY <3>2, <4>1
    <3> QED
      BY <1>2, <3>1, <3>2
  <2>3. DataTypes'
    BY <1>1, <2>2, Starting DEF DataTypes
  <2>4. Progress'
    BY <1>1, <2>2, Starting DEF Progress
  <2>5. \E s \in SourceFiles : files'[s].text = Bad
    BY <1>1, <1>3, <1>5
  <2>6. ParsedCurrent' /\ ServedCurrent'
    BY <2>1, <2>2, <2>5, Starting DEF ParsedCurrent, ServedCurrent
  <2> QED
    BY <2>3, <2>4, <2>6
<1>6. CASE text # Bad
  <2>1. text \in Readable
    BY <1>4, <1>6 DEF Readable
  <2>2. UNCHANGED lastError
    BY <1>6 DEF ParseNext
  <2>3. /\ value \in Seq(Readable) /\ Len(value) = n /\ value[n] = text
        /\ \A s \in SourceFiles : s < n => value[s] = reload.value[s]
    <3> HIDE DEF text
    <3>1. /\ value \in Seq(Readable) /\ Len(value) = Len(reload.value) + 1
          /\ \A i \in 1..Len(reload.value) : value[i] = reload.value[i]
          /\ value[Len(reload.value) + 1] = text
      BY <1>2, <2>1, AppendProperties
    <3> HIDE DEF n, value
    <3> QED
      BY <1>3, <3>1 DEF SourceFiles
  <2>4. ASSUME Quiet'
        PROVE  \A s \in SourceFiles : s <= n => value[s] = files'[s].text
    <3>1. Quiet
      BY <1>1, <2>4 DEF Quiet
    <3>2. \A s \in SourceFiles : s < n => reload.value[s] = files[s].text
      BY <1>1, <3>1 DEF ParsedCurrent
    <3>3. value[n] = files[n].text
      BY <2>3
    <3> HIDE DEF n, text, value
    <3>4. \A s \in SourceFiles : s < n => value[s] = files[s].text
      BY <2>3, <3>2
    <3> QED
      BY <1>1, <1>3, <3>3, <3>4 DEF SourceFiles
  <2>5. CASE n < NSources
    <3> DEFINE next == n + 1
    <3>0. next \in Nat
      BY <1>3
    <3>1. reload' = [reload EXCEPT !.next = next, !.value = value]
      BY <1>6, <2>5 DEF ParseNext
    <3> HIDE DEF next, text, value
    <3>2. /\ reload' \in ReloadTypes /\ reload'.pc = "parse" /\ reload'.boot = reload.boot
          /\ reload'.next = next /\ reload'.value = value /\ reload'.seen = <<>>
      BY <1>1, <1>2, <1>3, <2>3, <3>1, <3>0 DEF ReloadTypes
    <3> USE DEF next
    <3>3. DataTypes'
      BY <1>1, <3>2 DEF DataTypes
    <3>4. Progress'
      BY <1>1, <1>3, <2>3, <2>5, <3>2 DEF Progress, SourceFiles
    <3>5. ASSUME Quiet'
          PROVE  ParsedCurrent' /\ ServedCurrent'
      <4>1. \A s \in SourceFiles : s < n + 1 => value[s] = files'[s].text
        BY <1>3, <2>4, <3>5 DEF SourceFiles
      <4> QED
        BY <3>2, <4>1 DEF ParsedCurrent, ServedCurrent
    <3> QED
      BY <3>3, <3>4, <3>5
  <2>6. CASE ~(n < NSources)
    <3>1. PICK stage \in {"store", "hash"} : reload' = [reload EXCEPT !.pc = stage, !.next = 1, !.value = value]
      BY <1>6, <2>6 DEF ParseNext
    <3> HIDE DEF text, value
    <3>2. n = NSources
      BY <1>3, <2>6
    <3>3. /\ reload' \in ReloadTypes /\ reload'.pc = stage /\ reload'.boot = reload.boot
          /\ reload'.next = 1 /\ reload'.value = value /\ reload'.seen = <<>>
      BY <1>2, <1>3, <2>3, <3>1 DEF ReloadTypes
    <3>4. DataTypes'
      BY <1>1, <3>3 DEF DataTypes
    <3>5. Progress'
      <4>1. 1 \in SourceFiles /\ Len(value) = NSources
        BY <1>3, <2>3, <3>2 DEF SourceFiles
      <4> HIDE DEF n
      <4> QED
        BY <1>1, <3>3, <4>1 DEF Progress
    <3>6. ASSUME Quiet'
          PROVE  ParsedCurrent' /\ ServedCurrent'
      <4>1. \A s \in SourceFiles : value[s] = files'[s].text
        BY <1>3, <2>4, <3>2, <3>6 DEF SourceFiles
      <4>2. Says(reload.value)'
        BY <3>3, <4>1 DEF Says
      <4>3. \A s \in SourceFiles : ~(s < reload'.next)
        BY <3>3 DEF SourceFiles
      <4> HIDE DEF n
      <4> QED
        BY <3>3, <4>2, <4>3 DEF ParsedCurrent, ServedCurrent
    <3> QED
      BY <3>4, <3>5, <3>6
  <2> QED
    BY <2>5, <2>6
<1> QED
  BY <1>5, <1>6

LEMMA HashFollows ==
  ASSUME DataInv, HashNext
  PROVE  DataInv'
<1> USE DEF DataInv
<1> DEFINE n == reload.next
           seen == Append(reload.seen, files[n])
<1>1. reload.pc = "hash" /\ UNCHANGED <<files, cacheFile, snap, lastError, event, timer, missed>>
  BY DEF HashNext
<1>2. reload \in ReloadTypes /\ reload.seen \in Seq(FileStates)
  BY DEF DataTypes, ReloadTypes
<1>3. n \in SourceFiles /\ n \in 1..NSources /\ NSources \in Nat /\ Len(reload.seen) = n - 1
      /\ Len(reload.value) = NSources
  BY <1>1, DataBounds DEF Progress, SourceFiles
<1>4. files[n] \in FileStates
  BY <1>3 DEF DataTypes
<1>5. /\ seen \in Seq(FileStates) /\ Len(seen) = n /\ seen[n] = files[n]
      /\ \A s \in SourceFiles : s < n => seen[s] = reload.seen[s]
  <2>1. /\ seen \in Seq(FileStates) /\ Len(seen) = Len(reload.seen) + 1
        /\ \A i \in 1..Len(reload.seen) : seen[i] = reload.seen[i]
        /\ seen[Len(reload.seen) + 1] = files[n]
    BY <1>2, <1>4, AppendProperties
  <2> HIDE DEF n, seen
  <2> QED
    BY <1>3, <2>1 DEF SourceFiles
<1>6. PICK stage \in {"hash", "save"} :
        /\ reload' = [reload EXCEPT !.next = n + 1, !.seen = seen, !.pc = stage]
        /\ stage = "hash" <=> n < NSources
  BY DEF HashNext
<1> DEFINE next == n + 1
<1>6a. next \in Nat
  BY <1>3
<1>6b. reload' = [reload EXCEPT !.next = next, !.seen = seen, !.pc = stage]
  BY <1>6
<1> HIDE DEF next, seen
<1>7. /\ reload' \in ReloadTypes /\ reload'.pc = stage /\ reload'.boot = reload.boot
      /\ reload'.next = next /\ reload'.value = reload.value /\ reload'.seen = seen
  BY <1>2, <1>5, <1>6a, <1>6b DEF ReloadTypes
<1> USE DEF next
<1>8. DataTypes'
  BY <1>1, <1>7 DEF DataTypes
<1>9. Progress'
  <2>1. n < NSources => n + 1 \in SourceFiles
    BY <1>3 DEF SourceFiles
  <2>2. ~(n < NSources) => n = NSources
    BY <1>3
  <2>3. reload'.pc \in {"hash", "save"} /\ Len(reload'.value) = NSources
    BY <1>3, <1>6, <1>7
  <2>4. reload'.pc = "hash" => reload'.next \in SourceFiles /\ Len(reload'.seen) = reload'.next - 1
    BY <1>3, <1>5, <1>6, <1>7, <2>1
  <2>5. reload'.pc = "save" => Len(reload'.seen) = NSources
    BY <1>5, <1>6, <1>7, <2>2
  <2>6. reload'.boot = FALSE => Len(snap') = NSources
    BY <1>1, <1>7 DEF Progress
  <2> QED
    BY <2>3, <2>4, <2>5, <2>6 DEF Progress
<1>10. ASSUME Quiet'
       PROVE  ParsedCurrent' /\ ServedCurrent'
  <2>1. Quiet
    BY <1>1, <1>10 DEF Quiet
  <2>2. Says(reload.value)' /\ \A s \in SourceFiles : s < n => reload.seen[s] = files[s]
    BY <1>1, <1>7, <2>1 DEF ParsedCurrent, Says
  <2>3. \A s \in SourceFiles : s < n => seen[s] = files'[s]
    BY <1>1, <1>5, <2>2
  <2>4. seen[n] = files'[n]
    BY <1>1, <1>5
  <2> HIDE DEF n
  <2>5. \A s \in SourceFiles : s < n + 1 => seen[s] = files'[s]
    BY <1>3, <2>3, <2>4 DEF SourceFiles
  <2>6. ~(n < NSources) => \A s \in SourceFiles : s < n + 1
    BY <1>3 DEF SourceFiles
  <2>7. reload'.pc = "hash" => \A s \in SourceFiles : s < reload'.next => reload'.seen[s] = files'[s]
    BY <1>7, <2>5
  <2>8. reload'.pc = "save" => \A s \in SourceFiles : reload'.seen[s] = files'[s]
    BY <1>6, <1>7, <2>5, <2>6
  <2> QED
    BY <1>6, <1>7, <2>2, <2>7, <2>8 DEF ParsedCurrent, ServedCurrent
<1> QED
  BY <1>8, <1>9, <1>10

LEMMA SaveFollows ==
  ASSUME DataInv, Save
  PROVE  DataInv'
<1> USE DEF DataInv
<1> DEFINE blob == [value |-> reload.value, seen |-> reload.seen]
<1>1. reload.pc = "save" /\ UNCHANGED <<files, snap, lastError, event, timer, missed>>
  BY DEF Save
<1>2. reload \in ReloadTypes /\ reload' = [reload EXCEPT !.pc = "store"]
  BY DEF DataTypes, Save
<1>3. /\ reload' \in ReloadTypes /\ reload'.pc = "store" /\ reload'.boot = reload.boot
      /\ reload'.value = reload.value
  BY <1>2 DEF ReloadTypes
<1>4. Len(reload.value) = NSources /\ Len(reload.seen) = NSources
  BY <1>1 DEF Progress
<1>5. blob \in Blobs
  BY <1>2 DEF ReloadTypes, Blobs
<1>6. cacheFile' = cacheFile \/ cacheFile' = blob
  BY DEF Save
<1>7. DataTypes'
  BY <1>1, <1>3, <1>4, <1>5, <1>6 DEF DataTypes
<1>8. Progress'
  BY <1>1, <1>3, <1>4 DEF Progress
<1>9. ASSUME Quiet'
      PROVE  ParsedCurrent' /\ ServedCurrent'
  <2>1. Quiet
    BY <1>1, <1>9 DEF Quiet
  <2>2. Says(reload.value)
    BY <1>1, <2>1 DEF ParsedCurrent
  <2>3. Says(reload.value)'
    BY <1>1, <1>3, <2>2 DEF Says
  <2> QED
    BY <1>3, <2>3 DEF ParsedCurrent, ServedCurrent
<1> QED
  BY <1>7, <1>8, <1>9

LEMMA StoreFollows ==
  ASSUME DataInv, Store
  PROVE  DataInv'
<1> USE DEF DataInv
<1>1. reload.pc = "store" /\ UNCHANGED <<files, cacheFile, event, timer, missed>>
      /\ reload' = Start("idle", FALSE) /\ snap' = reload.value /\ lastError' = FALSE
  BY DEF Store, Resting
<1>2. reload.value \in Seq(Readable) /\ Len(reload.value) = NSources
  BY <1>1 DEF DataTypes, ReloadTypes, Progress
<1>3. DataTypes'
  BY <1>1, <1>2, Starting DEF DataTypes
<1>4. Progress'
  BY <1>1, <1>2, Starting DEF Progress
<1>5. ASSUME Quiet', CacheTruthful'
      PROVE  Says(snap)' /\ ~\E s \in SourceFiles : files'[s].text = Bad
  <2>1. Quiet /\ CacheTruthful
    BY <1>1, <1>5, SameTruth DEF Quiet
  <2>2. Says(reload.value)
    BY <1>1, <2>1 DEF ParsedCurrent
  <2>3. \A s \in SourceFiles : reload.value[s] \in Readable
    BY <1>2, LenProperties DEF SourceFiles
  <2> QED
    BY <1>1, <2>2, <2>3 DEF Says, Readable
<1>6. reload'.pc = "idle"
  BY <1>1, Starting
<1>7. Quiet' => ParsedCurrent' /\ ServedCurrent'
  BY <1>1, <1>5, <1>6 DEF ParsedCurrent, ServedCurrent
<1> QED
  BY <1>3, <1>4, <1>7

LEMMA RestartFollows ==
  ASSUME DataInv, RestartPanel
  PROVE  DataInv'
<1> USE DEF DataInv
<1>1. reload' = Start("cache", TRUE) /\ snap' = NoSnap /\ UNCHANGED <<files, cacheFile>>
  BY Zenon DEF RestartPanel
<1>2. DataTypes'
  <2>1. snap' \in Seq(Readable)
    BY <1>1 DEF NoSnap
  <2>2. reload' \in ReloadTypes
    BY <1>1, Starting
  <2> QED
    BY <1>1, <2>1, <2>2 DEF DataTypes
<1>3. Progress'
  BY <1>1, Starting DEF Progress
<1>4. ParsedCurrent' /\ ServedCurrent'
  BY <1>1, Starting DEF ParsedCurrent, ServedCurrent
<1> QED
  BY <1>2, <1>3, <1>4

LEMMA DataInvStep == DataInv /\ [DataNext]_dataVars => DataInv'
<1> SUFFICES ASSUME DataInv, [DataNext]_dataVars
             PROVE  DataInv'
  OBVIOUS
<1>1. CASE UNCHANGED dataVars
  <2>1. UNCHANGED <<files, cacheFile, snap, lastError, reload, event, timer, missed>>
    BY <1>1 DEF dataVars
  <2>2. DataTypes' /\ Progress'
    BY <2>1 DEF DataInv, DataTypes, Progress
  <2>3. Quiet' => ParsedCurrent' /\ ServedCurrent'
    BY <2>1, SameTruth DEF DataInv, Quiet, ParsedCurrent, ServedCurrent, Says
  <2> QED
    BY <2>2, <2>3 DEF DataInv
<1>2. CASE DataNext
  BY <1>2, EditFollows, NoticeFollows, FireFollows, AdminFollows, FromCacheFollows, ParseFollows,
     HashFollows, SaveFollows, StoreFollows, RestartFollows DEF DataNext
<1> QED
  BY <1>1, <1>2

\* When the watcher is done, the snapshot is what the source files say, or
\* LastError says that one does not parse, through whatever edits and
\* restarts, unless a file was deleted, a reload was refused, an edit was made
\* while the panel started, or the cache cannot tell the edits apart; and a
\* reload that fails leaves the panel its snapshot.
THEOREM SnapshotFollowsFiles == DataSpec => []EditsHotReload
<1>1. DataInit => DataInv
  BY InitDataInv
<1>2. DataInv /\ [DataNext]_dataVars => DataInv'
  BY DataInvStep
<1>3. DataInv => EditsHotReload
  <2> SUFFICES ASSUME DataInv
               PROVE  EditsHotReload
    OBVIOUS
  <2>1. ASSUME ~event, ~timer, reload.pc = "idle", missed = {}, CacheTruthful
        PROVE  IF \E s \in SourceFiles : files[s].text = Bad THEN lastError
               ELSE ~lastError /\ snap = [s \in SourceFiles |-> files[s].text]
    <3>1. ServedCurrent
      BY <2>1 DEF DataInv, Quiet
    <3>2. snap \in [SourceFiles -> Readable]
      BY <2>1, LenProperties DEF DataInv, DataTypes, Progress, SourceFiles
    <3>3. Says(snap) => snap = [s \in SourceFiles |-> files[s].text]
      BY <3>2 DEF Says
    <3> QED
      BY <2>1, <3>1, <3>3 DEF ServedCurrent
  <2>2. ~reload.boot => snap # NoSnap
    <3>1. reload.boot \in BOOLEAN
      BY DEF DataInv, DataTypes, ReloadTypes
    <3>2. ~reload.boot => Len(snap) = NSources
      BY <3>1 DEF DataInv, Progress
    <3> QED
      BY <3>2, DataBounds DEF NoSnap
  <2> QED
    BY <2>1, <2>2 DEF EditsHotReload, AtRest, SnapshotCurrent, CacheTruthful
<1> QED
  BY <1>1, <1>2, <1>3, PTL DEF DataSpec

-----------------------------------------------------------------------------
(***************************************************************************)
(* Tickets                                                                 *)
(***************************************************************************)

TicketRows ==
  [owner : Players, cat : Categories, subj : Subjects, status : {"open", "resolved", "closed"},
   actor : {"player", "staff"}, count : Nat, active : Nat, closedBy : Staff \cup {""}, created : Nat]
Posts ==
  [by : Users, visibility : {"public", "internal", "system"},
   event : {"", "recategorize", "editSubject", "resolve", "close"}]

Opening  == {"count", "recent", "author", "create"}
OnTicket == {"permit", "get", "page", "write"}
CallNames == {"idle"} \cup Opening \cup OnTicket

OpKinds ==
  {"none", "open", "playerReply", "staffReply", "note", "recategorize", "editSubject", "resolve", "close", "view"}
OpRows ==
  [kind : OpKinds, user : Users \cup {""}, id : Nat, cat : Categories \cup {""}, subj : Subjects \cup {""},
   read : TicketRows \cup {NoTicket}, at : Nat]

\* Who asks for what, and with which data
Asked(o) ==
  \/ o.kind = "open" /\ o.user \in Players /\ o.cat \in Categories /\ o.subj \in Subjects
  \/ o.kind = "playerReply" /\ o.user \in Players
  \/ o.kind \in {"staffReply", "note", "resolve", "close"} /\ o.user \in Staff
  \/ o.kind = "view" /\ o.user \in Users
  \/ o.kind = "recategorize" /\ o.user \in Staff /\ o.cat \in Categories
  \/ o.kind = "editSubject" /\ o.user \in Staff /\ o.subj \in Subjects

\* What a handler knows at each call
Prepared(call, o) ==
  /\ call # "idle" => Asked(o)
  /\ call \in Opening <=> o.kind = "open"
  /\ call = "page" => o.kind = "view"
  /\ call = "write" /\ o.kind # "view" => o.read \in TicketRows

Serving(h) == Prepared(pc[h], op[h]) /\ (pc[h] \in OnTicket => op[h].id \in DOMAIN tickets)

RowTypes == tickets \in Seq(TicketRows) /\ messages \in Seq(Seq(Posts)) /\ Len(messages) = Len(tickets)
ViewTypes == views \in [Users -> [1..MaxRequests -> Nat]] /\ clock \in Nat
HandlerTypes ==
  /\ pc \in [Handlers -> CallNames] /\ op \in [Handlers -> OpRows]
  /\ \A h \in Handlers : Serving(h)

ClosedBySomeone == \A t \in DOMAIN tickets : IsTerminal(tickets[t]) <=> tickets[t].closedBy # ""

\* The requests of a player that have passed the check of the limit
Admitted(u) == {h \in Handlers : pc[h] \in {"recent", "author", "create"} /\ op[h].user = u}
Bounded ==
  \A u \in Players :
    CountOpenForPlayer(u) + Cardinality(Admitted(u)) <= MaxOpenPerPlayer - 1 + Cardinality(Handlers)

TicketInv == RowTypes /\ ViewTypes /\ HandlerTypes /\ ClosedBySomeone /\ CountMatchesThread /\ Bounded

-----------------------------------------------------------------------------
(* The handlers                                                            *)

LEMMA NoOpPrepared == NoOp \in OpRows /\ Prepared("idle", NoOp)
<1>1. NoOp \in OpRows
  BY DEF NoOp, OpRows, OpKinds
<1>2. NoOp.kind = "none"
  BY DEF NoOp
<1> QED
  BY <1>1, <1>2 DEF Prepared, Opening

LEMMA Moved ==
  ASSUME HandlerTypes, NEW h \in Handlers, NEW call \in CallNames, NEW o \in OpRows, Go(h, call, o),
         Prepared(call, o), call \in OnTicket => o.id \in DOMAIN tickets, DOMAIN tickets \subseteq DOMAIN tickets'
  PROVE  HandlerTypes'
<1>1. /\ pc' = [pc EXCEPT ![h] = call] /\ op' = [op EXCEPT ![h] = o]
      /\ pc \in [Handlers -> CallNames] /\ op \in [Handlers -> OpRows]
  BY DEF Go, HandlerTypes
<1>2. pc' \in [Handlers -> CallNames] /\ op' \in [Handlers -> OpRows]
  BY <1>1
<1>3. ASSUME NEW q \in Handlers
      PROVE  Serving(q)'
  <2>1. CASE q = h
    <3>1. pc'[q] = call /\ op'[q] = o
      BY <1>1, <2>1
    <3> QED
      BY <3>1 DEF Serving, Prepared, Asked
  <2>2. CASE q # h
    <3>1. pc'[q] = pc[q] /\ op'[q] = op[q]
      BY <1>1, <2>2
    <3>2. Serving(q)
      BY DEF HandlerTypes
    <3> QED
      BY <3>1, <3>2 DEF Serving, Prepared, Asked
  <2> QED
    BY <2>1, <2>2
<1> QED
  BY <1>2, <1>3 DEF HandlerTypes

LEMMA Stopped ==
  ASSUME HandlerTypes, NEW h \in Handlers, Stop(h), DOMAIN tickets \subseteq DOMAIN tickets'
  PROVE  HandlerTypes'
<1>1. "idle" \in CallNames /\ "idle" \notin OnTicket
  BY DEF CallNames, OnTicket
<1>2. Go(h, "idle", NoOp)
  BY DEF Go, Stop
<1> QED
  BY <1>1, <1>2, NoOpPrepared, Moved

LEMMA Handler ==
  ASSUME HandlerTypes, NEW h \in Handlers
  PROVE  op[h] \in OpRows /\ pc[h] \in CallNames /\ Serving(h)
BY DEF HandlerTypes

-----------------------------------------------------------------------------
(* The limit                                                               *)

OpenOf(u) == {t \in DOMAIN tickets : tickets[t].owner = u /\ tickets[t].status = "open"}

LEMMA OpenFinite ==
  ASSUME RowTypes, NEW u
  PROVE  IsFiniteSet(OpenOf(u)) /\ CountOpenForPlayer(u) = Cardinality(OpenOf(u))
         /\ CountOpenForPlayer(u) \in Nat
<1>1. DOMAIN tickets = 1..Len(tickets) /\ Len(tickets) \in Nat
  BY LenProperties DEF RowTypes
<1>2. IsFiniteSet(1..Len(tickets))
  BY <1>1, FS_Interval
<1>3. OpenOf(u) \subseteq 1..Len(tickets)
  BY <1>1 DEF OpenOf
<1>4. CountOpenForPlayer(u) = Cardinality(OpenOf(u))
  BY DEF OpenOf, CountOpenForPlayer
<1> HIDE DEF OpenOf
<1>5. IsFiniteSet(OpenOf(u))
  BY <1>2, <1>3, FS_Subset
<1> QED
  BY <1>4, <1>5, FS_CardinalityType

LEMMA AdmittedFinite ==
  ASSUME NEW u
  PROVE  /\ IsFiniteSet(Admitted(u)) /\ Cardinality(Admitted(u)) \in Nat
         /\ Cardinality(Handlers) \in Nat /\ Cardinality(Admitted(u)) <= Cardinality(Handlers)
<1>1. Admitted(u) \subseteq Handlers /\ IsFiniteSet(Handlers)
  BY TicketsBounds DEF Admitted
<1> HIDE DEF Admitted
<1> QED
  BY <1>1, FS_Subset, FS_CardinalityType

\* As long as none is admitted and none opened, or one is opened that was admitted
LEMMA StaysBounded ==
  ASSUME RowTypes, RowTypes', Bounded,
         \A u \in Players : OpenOf(u)' \subseteq OpenOf(u) /\ Admitted(u)' \subseteq Admitted(u)
  PROVE  Bounded'
<1> SUFFICES ASSUME NEW u \in Players
             PROVE  (CountOpenForPlayer(u) + Cardinality(Admitted(u)))'
                      <= MaxOpenPerPlayer - 1 + Cardinality(Handlers)
  BY DEF Bounded
<1> DEFINE A == Cardinality(Admitted(u))
           B == Cardinality(Admitted(u)')
           C == CountOpenForPlayer(u)
           D == CountOpenForPlayer(u)'
           H == Cardinality(Handlers)
<1>1. A \in Nat /\ B \in Nat /\ B <= A /\ H \in Nat
  BY AdmittedFinite, FS_Subset, FS_CardinalityType
<1>2. C \in Nat /\ D \in Nat /\ D <= C
  <2>1. IsFiniteSet(OpenOf(u)) /\ C = Cardinality(OpenOf(u)) /\ C \in Nat
    BY OpenFinite
  <2>2. D = Cardinality(OpenOf(u)')
    BY DEF CountOpenForPlayer, OpenOf
  <2>3. OpenOf(u)' \subseteq OpenOf(u)
    OBVIOUS
  <2> HIDE DEF C, D
  <2> QED
    BY <2>1, <2>2, <2>3, FS_Subset, FS_CardinalityType
<1>3. C + A <= MaxOpenPerPlayer - 1 + H /\ MaxOpenPerPlayer \in Nat
  BY TicketsBounds DEF Bounded
<1> HIDE DEF A, B, C, D, H
<1>4. D + B <= MaxOpenPerPlayer - 1 + H
  BY <1>1, <1>2, <1>3
<1> QED
  BY <1>4 DEF B, D, H

LEMMA NotAdmitted ==
  ASSUME HandlerTypes, NEW h \in Handlers, NEW call, NEW o, Go(h, call, o),
         call \in {"recent", "author", "create"} =>
           pc[h] \in {"recent", "author", "create"} /\ o.user = op[h].user
  PROVE  \A u : Admitted(u)' \subseteq Admitted(u)
<1>1. /\ \A q \in Handlers \ {h} : pc'[q] = pc[q] /\ op'[q] = op[q]
      /\ pc'[h] = call /\ op'[h] = o
  BY DEF HandlerTypes, Go
<1> QED
  BY <1>1 DEF Admitted

-----------------------------------------------------------------------------
(* The steps that only read                                                *)

LEMMA RowsStay ==
  ASSUME RowTypes, ViewTypes, ClosedBySomeone, CountMatchesThread, UNCHANGED dbVars, clock' \in Nat
  PROVE  RowTypes' /\ ViewTypes' /\ ClosedBySomeone' /\ CountMatchesThread'
         /\ DOMAIN tickets' = DOMAIN tickets /\ \A u : OpenOf(u)' = OpenOf(u)
<1>1. tickets' = tickets /\ messages' = messages /\ views' = views
  BY DEF dbVars
<1> QED
  BY <1>1 DEF RowTypes, ViewTypes, ClosedBySomeone, CountMatchesThread, IsTerminal, OpenOf

LEMMA ReadStep ==
  ASSUME TicketInv, NEW h \in Handlers, NEW call \in CallNames, NEW o \in OpRows, Go(h, call, o),
         Prepared(call, o), call \in OnTicket => o.id \in DOMAIN tickets,
         call \in {"recent", "author", "create"} =>
           pc[h] \in {"recent", "author", "create"} /\ o.user = op[h].user,
         UNCHANGED <<dbVars, clock>>
  PROVE  TicketInv'
<1>1. clock' \in Nat /\ UNCHANGED dbVars
  BY DEF TicketInv, ViewTypes
<1>2. RowTypes' /\ ViewTypes' /\ ClosedBySomeone' /\ CountMatchesThread'
      /\ DOMAIN tickets' = DOMAIN tickets /\ \A u : OpenOf(u)' = OpenOf(u)
  BY <1>1, RowsStay DEF TicketInv
<1>3. HandlerTypes'
  BY <1>2, Moved DEF TicketInv
<1>4. \A u : Admitted(u)' \subseteq Admitted(u)
  BY NotAdmitted DEF TicketInv
<1>5. Bounded'
  BY <1>2, <1>4, StaysBounded DEF TicketInv
<1> QED
  BY <1>2, <1>3, <1>5 DEF TicketInv

LEMMA FailStep ==
  ASSUME TicketInv, NEW h \in Handlers, Stop(h), UNCHANGED <<dbVars, clock>>
  PROVE  TicketInv'
<1>1. Go(h, "idle", NoOp) /\ "idle" \in CallNames /\ "idle" \notin OnTicket
  BY DEF Go, Stop, CallNames, OnTicket
<1> QED
  BY <1>1, NoOpPrepared, ReadStep

LEMMA RequestStep ==
  ASSUME TicketInv, NEW h \in Handlers, NEW call \in {"count", "get", "permit"}, NEW o \in OpRows,
         Request(h, call, o), Asked(o), call = "count" <=> o.kind = "open",
         call # "count" => o.id \in DOMAIN tickets
  PROVE  TicketInv'
<1>1. Go(h, call, o) /\ UNCHANGED <<dbVars, clock>>
  BY DEF Request
<1>2. call \in CallNames /\ Prepared(call, o)
  BY DEF CallNames, Opening, OnTicket, Prepared
<1>3. call \in OnTicket => o.id \in DOMAIN tickets
  BY DEF OnTicket
<1> QED
  BY <1>1, <1>2, <1>3, ReadStep

LEMMA Ids ==
  ASSUME TicketInv, NEW t \in DOMAIN tickets
  PROVE  t \in Nat /\ t \in 1..Len(tickets) /\ tickets[t] \in TicketRows
BY LenProperties, ElementOfSeq DEF TicketInv, RowTypes

LEMMA PlayerRequestStep ==
  ASSUME TicketInv, NEW h \in Handlers, PlayerRequest(h)
  PROVE  TicketInv'
<1>1. CASE \E u \in Players, c \in Categories, s \in Subjects :
             Request(h, "count", [NoOp EXCEPT !.kind = "open", !.user = u, !.cat = c, !.subj = s])
  <2>1. PICK u \in Players, c \in Categories, s \in Subjects :
          Request(h, "count", [NoOp EXCEPT !.kind = "open", !.user = u, !.cat = c, !.subj = s])
    BY <1>1
  <2> DEFINE o == [NoOp EXCEPT !.kind = "open", !.user = u, !.cat = c, !.subj = s]
  <2>2. o \in OpRows /\ o.kind = "open" /\ Asked(o)
    BY DEF NoOp, OpRows, OpKinds, Users, Asked
  <2> HIDE DEF o
  <2> QED
    BY <2>1, <2>2, RequestStep DEF o
<1>2. CASE \E u \in Players, t \in DOMAIN tickets, kind \in {"playerReply", "view"} :
             Request(h, "get", [NoOp EXCEPT !.kind = kind, !.user = u, !.id = t])
  <2>1. PICK u \in Players, t \in DOMAIN tickets, kind \in {"playerReply", "view"} :
          Request(h, "get", [NoOp EXCEPT !.kind = kind, !.user = u, !.id = t])
    BY <1>2
  <2> DEFINE o == [NoOp EXCEPT !.kind = kind, !.user = u, !.id = t]
  <2>2. t \in Nat
    BY Ids
  <2>3. o \in OpRows /\ o.kind = kind /\ o.id = t /\ Asked(o)
    BY <2>2 DEF NoOp, OpRows, OpKinds, Users, Asked
  <2>4. Request(h, "get", o) /\ o.kind # "open"
    BY <2>1, <2>3
  <2> HIDE DEF o
  <2> QED
    BY <2>3, <2>4, RequestStep
<1> QED
  BY <1>1, <1>2 DEF PlayerRequest

LEMMA StaffRequestStep ==
  ASSUME TicketInv, NEW h \in Handlers, StaffRequest(h)
  PROVE  TicketInv'
<1>1. PICK u \in Staff, t \in DOMAIN tickets :
        LET o == [NoOp EXCEPT !.user = u, !.id = t]
        IN \/ \E kind \in {"staffReply", "note", "resolve", "close", "view"} :
                Request(h, "permit", [o EXCEPT !.kind = kind])
           \/ \E c \in Categories : Request(h, "permit", [o EXCEPT !.kind = "recategorize", !.cat = c])
           \/ \E s \in Subjects : Request(h, "permit", [o EXCEPT !.kind = "editSubject", !.subj = s])
  BY DEF StaffRequest
<1> DEFINE o == [NoOp EXCEPT !.user = u, !.id = t]
<1>2. t \in Nat
  BY Ids
<1>3. o \in OpRows /\ o.user = u /\ o.id = t
  BY <1>2 DEF NoOp, OpRows, OpKinds, Users
<1> HIDE DEF o
<1>4. CASE \E kind \in {"staffReply", "note", "resolve", "close", "view"} :
             Request(h, "permit", [o EXCEPT !.kind = kind])
  <2>1. PICK kind \in {"staffReply", "note", "resolve", "close", "view"} :
          Request(h, "permit", [o EXCEPT !.kind = kind])
    BY <1>4
  <2> DEFINE x == [o EXCEPT !.kind = kind]
  <2>2. x \in OpRows /\ x.kind = kind /\ x.id = t /\ Asked(x)
    BY <1>3 DEF OpRows, OpKinds, Users, Asked
  <2>3. Request(h, "permit", x) /\ x.kind # "open"
    BY <2>1, <2>2
  <2> HIDE DEF x
  <2> QED
    BY <2>2, <2>3, RequestStep
<1>5. CASE \E c \in Categories : Request(h, "permit", [o EXCEPT !.kind = "recategorize", !.cat = c])
  <2>1. PICK c \in Categories : Request(h, "permit", [o EXCEPT !.kind = "recategorize", !.cat = c])
    BY <1>5
  <2> DEFINE x == [o EXCEPT !.kind = "recategorize", !.cat = c]
  <2>2. x \in OpRows /\ x.kind = "recategorize" /\ x.id = t /\ Asked(x)
    BY <1>3 DEF OpRows, OpKinds, Users, Asked
  <2>3. Request(h, "permit", x) /\ x.kind # "open"
    BY <2>1, <2>2
  <2> HIDE DEF x
  <2> QED
    BY <2>2, <2>3, RequestStep
<1>6. CASE \E s \in Subjects : Request(h, "permit", [o EXCEPT !.kind = "editSubject", !.subj = s])
  <2>1. PICK s \in Subjects : Request(h, "permit", [o EXCEPT !.kind = "editSubject", !.subj = s])
    BY <1>6
  <2> DEFINE x == [o EXCEPT !.kind = "editSubject", !.subj = s]
  <2>2. x \in OpRows /\ x.kind = "editSubject" /\ x.id = t /\ Asked(x)
    BY <1>3 DEF OpRows, OpKinds, Users, Asked
  <2>3. Request(h, "permit", x) /\ x.kind # "open"
    BY <2>1, <2>2
  <2> HIDE DEF x
  <2> QED
    BY <2>2, <2>3, RequestStep
<1> QED
  BY <1>1, <1>4, <1>5, <1>6 DEF o

LEMMA CheckOpenCountStep ==
  ASSUME TicketInv, NEW h \in Handlers, CheckOpenCount(h)
  PROVE  TicketInv'
<1> DEFINE o == op[h]
<1>1. /\ pc[h] = "count" /\ UNCHANGED <<dbVars, clock>>
      /\ (Go(h, "recent", o) /\ Room(CountOpenForPlayer(o.user))) \/ Stop(h)
  BY DEF CheckOpenCount
<1>2. CASE Stop(h)
  BY <1>1, <1>2, FailStep
<1>3. CASE Go(h, "recent", o) /\ Room(CountOpenForPlayer(o.user))
  <2>1. o \in OpRows /\ Prepared("count", o)
    BY <1>1, Handler DEF TicketInv, Serving
  <2>2. "recent" \in CallNames /\ "recent" \notin OnTicket /\ Prepared("recent", o)
    BY <2>1 DEF CallNames, Opening, OnTicket, Prepared
  <2>3. clock' \in Nat /\ UNCHANGED dbVars
    BY <1>1 DEF TicketInv, ViewTypes
  <2>4. RowTypes' /\ ViewTypes' /\ ClosedBySomeone' /\ CountMatchesThread'
        /\ DOMAIN tickets' = DOMAIN tickets /\ \A u : OpenOf(u)' = OpenOf(u)
    BY <2>3, RowsStay DEF TicketInv
  <2>5. HandlerTypes'
    BY <1>3, <2>1, <2>2, <2>4, Moved DEF TicketInv
  <2>6. /\ \A q \in Handlers \ {h} : pc'[q] = pc[q] /\ op'[q] = op[q]
        /\ pc'[h] = "recent" /\ op'[h] = o
    BY <1>3 DEF TicketInv, HandlerTypes, Go
  <2>7. ASSUME NEW u \in Players
        PROVE  (CountOpenForPlayer(u) + Cardinality(Admitted(u)))'
                 <= MaxOpenPerPlayer - 1 + Cardinality(Handlers)
    <3>1. CountOpenForPlayer(u)' = CountOpenForPlayer(u) /\ CountOpenForPlayer(u) \in Nat
      BY <2>3, OpenFinite DEF CountOpenForPlayer, dbVars, TicketInv
    <3> DEFINE C == CountOpenForPlayer(u)
               H == Cardinality(Handlers)
               B == Cardinality(Admitted(u)')
               A == Cardinality(Admitted(u))
    <3>2. B \in Nat /\ H \in Nat /\ B <= H /\ A \in Nat
      <4>1. Admitted(u)' \subseteq Handlers /\ IsFiniteSet(Handlers)
        BY TicketsBounds DEF Admitted
      <4> QED
        BY <4>1, AdmittedFinite, FS_Subset, FS_CardinalityType
    <3>3. MaxOpenPerPlayer \in Nat \ {0}
      BY TicketsBounds
    <3>4. CASE u = o.user
      <4>1. C < MaxOpenPerPlayer
        BY <1>3, <3>4 DEF Room
      <4> HIDE DEF C, H, B
      <4>2. C + B <= MaxOpenPerPlayer - 1 + H
        BY <3>1, <3>2, <3>3, <4>1 DEF C
      <4> QED
        BY <3>1, <4>2 DEF C, H, B
    <3>5. CASE u # o.user
      <4>1. Admitted(u)' = Admitted(u)
        BY <1>1, <2>6, <3>5 DEF Admitted
      <4>2. C + A <= MaxOpenPerPlayer - 1 + H
        BY DEF TicketInv, Bounded
      <4> QED
        BY <3>1, <4>1, <4>2
    <3> QED
      BY <3>4, <3>5
  <2>8. Bounded'
    BY <2>7 DEF Bounded
  <2> QED
    BY <2>4, <2>5, <2>8 DEF TicketInv
<1> QED
  BY <1>1, <1>2, <1>3

LEMMA CheckCooldownStep ==
  ASSUME TicketInv, NEW h \in Handlers, CheckCooldown(h)
  PROVE  TicketInv'
<1>1. pc[h] = "recent" /\ UNCHANGED <<dbVars, clock>> /\ (Go(h, "author", op[h]) \/ Stop(h))
  BY DEF CheckCooldown
<1>2. op[h] \in OpRows /\ Prepared("author", op[h]) /\ "author" \in CallNames /\ "author" \notin OnTicket
  BY <1>1, Handler DEF TicketInv, Serving, Prepared, CallNames, Opening, OnTicket
<1>3. CASE Stop(h)
  BY <1>1, <1>3, FailStep
<1>4. CASE Go(h, "author", op[h])
  BY <1>1, <1>2, <1>4, ReadStep
<1> QED
  BY <1>1, <1>3, <1>4

LEMMA TakeTimeStep ==
  ASSUME TicketInv, NEW h \in Handlers, TakeTime(h)
  PROVE  TicketInv'
<1> DEFINE call == IF pc[h] = "author" THEN "create" ELSE "write"
           o == [op[h] EXCEPT !.at = clock]
<1>1. pc[h] \in {"author", "page"} /\ UNCHANGED <<dbVars, clock>> /\ Go(h, call, o)
  BY DEF TakeTime
<1>2. op[h] \in OpRows /\ Serving(h) /\ clock \in Nat
  BY Handler DEF TicketInv, ViewTypes
<1>3. /\ o \in OpRows /\ o.kind = op[h].kind /\ o.user = op[h].user /\ o.id = op[h].id
      /\ o.cat = op[h].cat /\ o.subj = op[h].subj
  BY <1>2 DEF OpRows
<1>4. pc[h] = "page" => op[h].id \in DOMAIN tickets /\ op[h].kind = "view"
  BY <1>2 DEF Serving, Prepared, OnTicket
<1>5. pc[h] = "author" => op[h].kind = "open"
  BY <1>2 DEF Serving, Prepared, Opening
<1>6. Asked(op[h])
  BY <1>1, <1>2 DEF Serving, Prepared
<1> HIDE DEF o
<1>7. Asked(o)
  BY <1>3, <1>6 DEF Asked
<1>8. CASE pc[h] = "author"
  <2>1. call = "create" /\ call \in CallNames /\ call \notin OnTicket /\ Prepared(call, o)
    BY <1>3, <1>5, <1>7, <1>8 DEF Prepared, CallNames, Opening, OnTicket
  <2> HIDE DEF call
  <2> QED
    BY <1>1, <1>3, <1>8, <2>1, ReadStep
<1>9. CASE pc[h] = "page"
  <2>1. call = "write" /\ call \in CallNames /\ Prepared(call, o)
    BY <1>3, <1>4, <1>7, <1>9 DEF Prepared, CallNames, Opening, OnTicket
  <2>2. call \notin {"recent", "author", "create"} /\ o.id \in DOMAIN tickets
    BY <1>3, <1>4, <1>9, <2>1
  <2> HIDE DEF call
  <2> QED
    BY <1>1, <1>3, <2>1, <2>2, ReadStep
<1> QED
  BY <1>1, <1>8, <1>9

LEMMA AssertCategoryAllowedStep ==
  ASSUME TicketInv, NEW h \in Handlers, AssertCategoryAllowed(h)
  PROVE  TicketInv'
<1> DEFINE call == IF op[h].kind = "view" THEN "page" ELSE "get"
<1>1. pc[h] = "permit" /\ UNCHANGED <<dbVars, clock>> /\ (Go(h, call, op[h]) \/ Stop(h))
  BY DEF AssertCategoryAllowed
<1>2. op[h] \in OpRows /\ Serving(h)
  BY Handler DEF TicketInv
<1>3. /\ op[h].id \in DOMAIN tickets /\ call \in CallNames /\ Prepared(call, op[h])
      /\ call \notin {"recent", "author", "create"}
  BY <1>1, <1>2 DEF Serving, Prepared, CallNames, Opening, OnTicket
<1>4. CASE Stop(h)
  BY <1>1, <1>4, FailStep
<1>5. CASE Go(h, call, op[h])
  <2> HIDE DEF call
  <2> QED
    BY <1>1, <1>2, <1>3, <1>5, ReadStep
<1> QED
  BY <1>1, <1>4, <1>5

LEMMA GetStep ==
  ASSUME TicketInv, NEW h \in Handlers, Get(h)
  PROVE  TicketInv'
<1> DEFINE t == tickets[op[h].id]
           o == [op[h] EXCEPT !.read = t, !.at = clock]
<1>1. pc[h] = "get" /\ UNCHANGED <<dbVars, clock>>
  BY DEF Get
<1>2. \/ Stop(h)
      \/ op[h].kind = "view" /\ Go(h, "page", op[h])
      \/ Go(h, "write", o)
  <2>1. CASE ~Allowed(op[h], t)
    BY <2>1 DEF Get
  <2>2. CASE Allowed(op[h], t) /\ op[h].kind = "view"
    BY <2>2, Zenon DEF Get
  <2>3. CASE Allowed(op[h], t) /\ op[h].kind # "view"
    BY <2>3, Zenon DEF Get
  <2> QED
    BY <2>1, <2>2, <2>3
<1>3. op[h] \in OpRows /\ Serving(h) /\ clock \in Nat
  BY Handler DEF TicketInv, ViewTypes
<1>4. op[h].id \in DOMAIN tickets /\ Asked(op[h]) /\ op[h].kind # "open"
  BY <1>1, <1>3 DEF Serving, Prepared, OnTicket, Opening
<1>5. t \in TicketRows
  BY <1>4, Ids
<1>6. CASE Stop(h)
  BY <1>1, <1>6, FailStep
<1>7. CASE op[h].kind = "view" /\ Go(h, "page", op[h])
  <2>1. "page" \in CallNames /\ Prepared("page", op[h])
    BY <1>4, <1>7 DEF Prepared, CallNames, OnTicket, Opening
  <2> QED
    BY <1>1, <1>3, <1>4, <1>7, <2>1, ReadStep
<1>8. CASE Go(h, "write", o)
  <2> HIDE DEF t
  <2>1. /\ o \in OpRows /\ o.kind = op[h].kind /\ o.user = op[h].user /\ o.id = op[h].id
        /\ o.cat = op[h].cat /\ o.subj = op[h].subj /\ o.read = t
    BY <1>3, <1>5 DEF OpRows
  <2> HIDE DEF o
  <2>2. Asked(o) /\ o.kind # "open"
    BY <1>4, <2>1 DEF Asked
  <2>3. "write" \in CallNames /\ Prepared("write", o) /\ o.id \in DOMAIN tickets
    BY <1>4, <1>5, <2>1, <2>2 DEF Prepared, CallNames, OnTicket, Opening
  <2> QED
    BY <1>1, <1>8, <2>1, <2>3, ReadStep
<1> QED
  BY <1>2, <1>6, <1>7, <1>8

-----------------------------------------------------------------------------
(* The steps that write                                                    *)

Public(s) == Cardinality({m \in DOMAIN s : s[m].visibility = "public"})

LEMMA PublicMore ==
  ASSUME NEW s \in Seq(Posts), NEW m \in Posts
  PROVE  /\ Append(s, m) \in Seq(Posts) /\ Public(s) \in Nat
         /\ Public(Append(s, m)) = Public(s) + (IF m.visibility = "public" THEN 1 ELSE 0)
<1> DEFINE t == Append(s, m)
           n == Len(s) + 1
           S == {k \in DOMAIN s : s[k].visibility = "public"}
           T == {k \in DOMAIN t : t[k].visibility = "public"}
<1>1. /\ t \in Seq(Posts) /\ Len(t) = n /\ t[n] = m /\ Len(s) \in Nat
      /\ \A k \in 1..Len(s) : t[k] = s[k]
  BY AppendProperties, LenProperties
<1> HIDE DEF t
<1>2. DOMAIN s = 1..Len(s) /\ DOMAIN t = 1..n
  BY <1>1, LenProperties
<1>3. IsFiniteSet(S) /\ n \notin S
  <2>1. IsFiniteSet(1..Len(s))
    BY <1>1, FS_Interval
  <2>2. S \subseteq 1..Len(s) /\ n \notin 1..Len(s)
    BY <1>1, <1>2
  <2> HIDE DEF S, n
  <2> QED
    BY <2>1, <2>2, FS_Subset
<1>4. \A k : k \in T <=> k \in S \/ (k = n /\ m.visibility = "public")
  BY <1>1, <1>2
<1>5. Public(s) = Cardinality(S) /\ Public(t) = Cardinality(T)
  BY DEF Public
<1> HIDE DEF S, T, n
<1>6. CASE m.visibility = "public"
  <2>1. \A k : k \in T <=> k \in S \cup {n}
    BY <1>4, <1>6
  <2>2. T = S \cup {n}
    BY <2>1
  <2>3. Cardinality(T) = Cardinality(S) + 1 /\ Cardinality(S) \in Nat
    BY <1>3, <2>2, FS_AddElement, FS_CardinalityType
  <2> QED
    BY <1>1, <1>5, <1>6, <2>3 DEF t
<1>7. CASE m.visibility # "public"
  <2>1. \A k : k \in T <=> k \in S
    BY <1>4, <1>7
  <2>2. T = S
    BY <2>1
  <2>3. Cardinality(S) \in Nat
    BY <1>3, FS_CardinalityType
  <2> QED
    BY <1>1, <1>5, <1>7, <2>2, <2>3 DEF t
<1> QED
  BY <1>6, <1>7

LEMMA Counts ==
  /\ CountMatchesThread <=> \A t \in DOMAIN tickets : tickets[t].count = Public(messages[t])
  /\ CountMatchesThread' <=> \A t \in DOMAIN tickets' : tickets'[t].count = Public(messages'[t])
BY DEF CountMatchesThread, Public

LEMMA Threads ==
  ASSUME TicketInv, NEW t \in DOMAIN tickets
  PROVE  /\ DOMAIN tickets = 1..Len(tickets) /\ DOMAIN messages = DOMAIN tickets
         /\ t \in 1..Len(messages) /\ messages[t] \in Seq(Posts)
BY LenProperties, ElementOfSeq DEF TicketInv, RowTypes

LEMMA Replaced ==
  ASSUME NEW S, NEW s \in Seq(S), NEW t \in [1..Len(s) -> S]
  PROVE  t \in Seq(S) /\ Len(t) = Len(s)
<1>1. Len(s) \in Nat
  BY LenProperties
<1> QED
  BY <1>1

LEMMA WriteStep ==
  ASSUME TicketInv, NEW h \in Handlers, pc[h] = "write", Stop(h), UNCHANGED <<views, clock>>,
         NEW row \in TicketRows, tickets' = [tickets EXCEPT ![op[h].id] = row],
         NEW m \in Posts, messages' = [messages EXCEPT ![op[h].id] = Append(messages[op[h].id], m)],
         row.owner = tickets[op[h].id].owner,
         row.status = tickets[op[h].id].status \/ row.status # "open",
         IsTerminal(row) <=> row.closedBy # "",
         row.count = tickets[op[h].id].count + (IF m.visibility = "public" THEN 1 ELSE 0)
  PROVE  TicketInv'
<1> DEFINE i == op[h].id
           thread == Append(messages[i], m)
<1>1. i \in DOMAIN tickets
  BY Handler DEF TicketInv, Serving, OnTicket
<1>2. /\ DOMAIN tickets = 1..Len(tickets) /\ i \in 1..Len(messages) /\ messages[i] \in Seq(Posts)
      /\ i \in 1..Len(tickets) /\ tickets \in Seq(TicketRows) /\ messages \in Seq(Seq(Posts))
      /\ Len(messages) = Len(tickets)
  BY <1>1, Threads DEF TicketInv, RowTypes
<1>3. thread \in Seq(Posts) /\ Public(thread) = Public(messages[i]) + (IF m.visibility = "public" THEN 1 ELSE 0)
  BY <1>2, PublicMore
<1>12. tickets' = [tickets EXCEPT ![i] = row] /\ messages' = [messages EXCEPT ![i] = thread]
  OBVIOUS
<1> HIDE DEF thread, i
<1>4. /\ tickets' \in Seq(TicketRows) /\ Len(tickets') = Len(tickets) /\ tickets'[i] = row
      /\ \A j \in 1..Len(tickets) : j # i => tickets'[j] = tickets[j]
  <2> DEFINE s == tickets
             t == tickets'
  <2>1. s \in Seq(TicketRows) /\ i \in 1..Len(s) /\ row \in TicketRows /\ t = [s EXCEPT ![i] = row]
    BY <1>2, <1>12
  <2> HIDE DEF s, t
  <2>2. s \in [1..Len(s) -> TicketRows]
    BY <2>1, LenProperties
  <2>3. /\ t \in [1..Len(s) -> TicketRows] /\ t[i] = row
        /\ \A j \in 1..Len(s) : j # i => t[j] = s[j]
    BY <2>1, <2>2
  <2>4. t \in Seq(TicketRows) /\ Len(t) = Len(s)
    BY ONLY <2>1, <2>3, Replaced
  <2> QED
    BY <2>3, <2>4 DEF s, t
<1>5. /\ messages' \in Seq(Seq(Posts)) /\ Len(messages') = Len(messages) /\ messages'[i] = thread
      /\ \A j \in 1..Len(messages) : j # i => messages'[j] = messages[j]
  <2> DEFINE S == Seq(Posts)
             s == messages
             t == messages'
  <2>1. s \in Seq(S) /\ i \in 1..Len(s) /\ thread \in S /\ t = [s EXCEPT ![i] = thread]
    BY <1>2, <1>3, <1>12
  <2> HIDE DEF S, s, t
  <2>2. s \in [1..Len(s) -> S]
    BY <2>1, LenProperties
  <2>3. /\ t \in [1..Len(s) -> S] /\ t[i] = thread
        /\ \A j \in 1..Len(s) : j # i => t[j] = s[j]
    BY <2>1, <2>2
  <2>4. t \in Seq(S) /\ Len(t) = Len(s)
    BY ONLY <2>1, <2>3, Replaced
  <2> QED
    BY <2>3, <2>4 DEF S, s, t
<1>6. DOMAIN tickets' = DOMAIN tickets
  BY <1>2, <1>4, LenProperties
<1>7. RowTypes' /\ ViewTypes'
  BY <1>2, <1>4, <1>5 DEF RowTypes, ViewTypes, TicketInv
<1>8. HandlerTypes'
  BY <1>6, Stopped DEF TicketInv
<1>9. ClosedBySomeone'
  <2> SUFFICES ASSUME NEW j \in DOMAIN tickets
               PROVE  IsTerminal(tickets'[j]) <=> tickets'[j].closedBy # ""
    BY <1>6 DEF ClosedBySomeone, IsTerminal
  <2>1. CASE j = i
    BY <1>2, <1>4, <2>1
  <2>2. CASE j # i
    <3>1. tickets'[j] = tickets[j]
      BY <1>2, <1>4, <2>2
    <3> QED
      BY <3>1 DEF TicketInv, ClosedBySomeone
  <2> QED
    BY <2>1, <2>2
<1>10. CountMatchesThread'
  <2>1. ASSUME NEW j \in DOMAIN tickets
        PROVE  tickets'[j].count = Public(messages'[j])
    <3>1. tickets[j].count = Public(messages[j])
      BY Counts DEF TicketInv
    <3>2. CASE j = i
      <4>1. tickets'[j] = row /\ messages'[j] = thread
        BY <1>2, <1>4, <1>5, <3>2
      <4>2. row.count = Public(messages[j]) + (IF m.visibility = "public" THEN 1 ELSE 0)
        BY <3>1, <3>2 DEF i
      <4> QED
        BY <1>3, <3>2, <4>1, <4>2
    <3>3. CASE j # i
      BY <1>2, <1>4, <1>5, <3>1, <3>3
    <3> QED
      BY <3>2, <3>3
  <2> QED
    BY <1>6, <2>1, Counts
<1>11. Bounded'
  <2>1. ASSUME NEW u
        PROVE  OpenOf(u)' \subseteq OpenOf(u)
    <3>1. \A j \in DOMAIN tickets :
            tickets'[j].owner = tickets[j].owner /\ (tickets'[j].status = "open" => tickets[j].status = "open")
      BY <1>2, <1>4 DEF i
    <3> QED
      BY <1>6, <3>1 DEF OpenOf
  <2>2. \A u : Admitted(u)' \subseteq Admitted(u)
    <3>1. Go(h, "idle", NoOp)
      BY DEF Go, Stop
    <3> QED
      BY <3>1, NotAdmitted DEF TicketInv
  <2> QED
    BY <1>7, <2>1, <2>2, StaysBounded DEF TicketInv
<1> QED
  BY <1>7, <1>8, <1>9, <1>10, <1>11 DEF TicketInv

\* What a handler that is about to write knows
LEMMA Writer ==
  ASSUME TicketInv, NEW h \in Handlers, pc[h] = "write"
  PROVE  /\ op[h] \in OpRows /\ Asked(op[h]) /\ op[h].kind # "open" /\ op[h].id \in DOMAIN tickets
         /\ op[h].kind # "view" => op[h].read \in TicketRows
         /\ tickets[op[h].id] \in TicketRows
         /\ IsTerminal(tickets[op[h].id]) <=> tickets[op[h].id].closedBy # ""
<1>1. op[h] \in OpRows /\ Serving(h)
  BY Handler DEF TicketInv
<1>2. /\ op[h].id \in DOMAIN tickets /\ Asked(op[h]) /\ op[h].kind # "open"
      /\ op[h].kind # "view" => op[h].read \in TicketRows
  BY <1>1 DEF Serving, Prepared, Opening, OnTicket
<1>3. tickets[op[h].id] \in TicketRows
  BY <1>2, Ids
<1> QED
  BY <1>1, <1>2, <1>3 DEF TicketInv, ClosedBySomeone

LEMMA Posted ==
  ASSUME NEW o, o.user \in Users, NEW v \in {"public", "internal", "system"},
         NEW e \in {"", "recategorize", "editSubject", "resolve", "close"}
  PROVE  Message(o, v, e) \in Posts /\ Message(o, v, e).visibility = v
BY DEF Message, Posts

LEMMA AppendPublicMessageStep ==
  ASSUME TicketInv, NEW h \in Handlers, AppendPublicMessage(h)
  PROVE  TicketInv'
<1> DEFINE o == op[h]
           t == tickets[o.id]
           row == Counted(t, o)
           m == Message(o, "public", "")
<1>1. /\ pc[h] = "write" /\ o.kind \in {"playerReply", "staffReply"} /\ Stop(h) /\ UNCHANGED <<views, clock>>
      /\ tickets' = [tickets EXCEPT ![o.id] = row] /\ messages' = [messages EXCEPT ![o.id] = Append(messages[o.id], m)]
  BY DEF AppendPublicMessage, Write, Log
<1>2. o \in OpRows /\ o.user \in Users /\ t \in TicketRows /\ (IsTerminal(t) <=> t.closedBy # "")
  BY <1>1, Writer DEF Asked, Users
<1>3. m \in Posts /\ m.visibility = "public"
  BY <1>2, Posted
<1>4. o.at \in Nat
  BY <1>2 DEF OpRows
<1> HIDE DEF o, t, m
<1>5. /\ row \in TicketRows /\ row.owner = t.owner /\ row.status = t.status /\ row.closedBy = t.closedBy
      /\ row.count = t.count + 1
  <2> DEFINE actor == IF o.user \in Staff THEN "staff" ELSE "player"
  <2>1. actor \in {"player", "staff"} /\ t.count + 1 \in Nat
    <3>1. t.count \in Nat
      BY ONLY <1>2 DEF TicketRows
    <3> QED
      BY ONLY <3>1
  <2>2. row = [t EXCEPT !.actor = actor, !.count = t.count + 1, !.active = o.at]
    BY DEF Counted
  <2> HIDE DEF actor
  <2> QED
    BY ONLY <1>2, <1>4, <2>1, <2>2 DEF TicketRows
<1>6. IsTerminal(row) <=> row.closedBy # ""
  BY <1>2, <1>5 DEF IsTerminal
<1>7. row.count = t.count + (IF m.visibility = "public" THEN 1 ELSE 0)
  BY <1>3, <1>5
<1> HIDE DEF row
<1> QED
  BY <1>1, <1>3, <1>5, <1>6, <1>7, WriteStep DEF o, t

LEMMA AppendInternalNoteStep ==
  ASSUME TicketInv, NEW h \in Handlers, AppendInternalNote(h)
  PROVE  TicketInv'
<1> DEFINE o == op[h]
           t == tickets[o.id]
           m == Message(o, "internal", "")
<1>1. /\ pc[h] = "write" /\ o.kind = "note" /\ Stop(h) /\ UNCHANGED <<views, clock, tickets>>
      /\ messages' = [messages EXCEPT ![o.id] = Append(messages[o.id], m)]
  BY DEF AppendInternalNote, Write, Log
<1>2. /\ o \in OpRows /\ o.user \in Users /\ t \in TicketRows /\ (IsTerminal(t) <=> t.closedBy # "")
      /\ o.id \in DOMAIN tickets
  BY <1>1, Writer DEF Asked, Users
<1>3. m \in Posts /\ m.visibility = "internal"
  BY <1>2, Posted
<1>4. tickets' = [tickets EXCEPT ![o.id] = t]
  <2>1. tickets \in [1..Len(tickets) -> TicketRows]
    BY LenProperties DEF TicketInv, RowTypes
  <2> QED
    BY <1>1, <1>2, <2>1
<1>5. t.count \in Nat
  BY <1>2 DEF TicketRows
<1> HIDE DEF o, t, m
<1>6. t.count = t.count + (IF m.visibility = "public" THEN 1 ELSE 0)
  BY <1>3, <1>5
<1> QED
  BY <1>1, <1>2, <1>3, <1>4, <1>6, WriteStep DEF o, t

LEMMA AppendSystemEventStep ==
  ASSUME TicketInv, NEW h \in Handlers, AppendSystemEvent(h)
  PROVE  TicketInv'
<1> DEFINE o == op[h]
           t == tickets[o.id]
           row == SaveEdit(t, o)
           m == Message(o, "system", o.kind)
<1>1. /\ pc[h] = "write" /\ o.kind \in {"recategorize", "editSubject"} /\ Stop(h)
      /\ UNCHANGED <<views, clock>>
      /\ tickets' = [tickets EXCEPT ![o.id] = row] /\ messages' = [messages EXCEPT ![o.id] = Append(messages[o.id], m)]
  BY DEF AppendSystemEvent, Write, Log
<1>2. /\ o \in OpRows /\ Asked(o) /\ t \in TicketRows /\ (IsTerminal(t) <=> t.closedBy # "")
      /\ o.read \in TicketRows
  BY <1>1, Writer
<1>3. /\ o.user \in Users /\ o.at \in Nat
      /\ o.kind = "recategorize" => o.cat \in Categories
      /\ o.kind = "editSubject" => o.subj \in Subjects
  BY <1>1, <1>2 DEF OpRows, Asked, Users
<1>4. m \in Posts /\ m.visibility = "system"
  <2>1. o.kind \in {"", "recategorize", "editSubject", "resolve", "close"}
    BY <1>1
  <2> QED
    BY ONLY <1>3, <2>1, Posted
<1> HIDE DEF o, t, m
<1>5. o.read.cat \in Categories /\ o.read.subj \in Subjects
  BY <1>2 DEF TicketRows
<1>6. /\ row \in TicketRows /\ row.owner = t.owner /\ row.status = t.status /\ row.closedBy = t.closedBy
      /\ row.count = t.count /\ t.count \in Nat
  BY <1>1, <1>2, <1>3, <1>5 DEF SaveEdit, Edited, TicketRows
<1>7. IsTerminal(row) <=> row.closedBy # ""
  BY <1>2, <1>6 DEF IsTerminal
<1>8. row.count = t.count + (IF m.visibility = "public" THEN 1 ELSE 0)
  BY <1>4, <1>6
<1> HIDE DEF row
<1> QED
  BY <1>1, <1>4, <1>6, <1>7, <1>8, WriteStep DEF o, t

LEMMA SetTerminalStep ==
  ASSUME TicketInv, NEW h \in Handlers, SetTerminal(h)
  PROVE  TicketInv'
<1> DEFINE o == op[h]
           t == tickets[o.id]
           row == [t EXCEPT !.status = IF o.kind = "resolve" THEN "resolved" ELSE "closed",
                            !.closedBy = o.user, !.active = o.at]
           m == Message(o, "system", o.kind)
<1>1. /\ pc[h] = "write" /\ o.kind \in {"resolve", "close"} /\ Stop(h) /\ UNCHANGED <<views, clock>>
      /\ tickets' = [tickets EXCEPT ![o.id] = row] /\ messages' = [messages EXCEPT ![o.id] = Append(messages[o.id], m)]
  BY DEF SetTerminal, Write, Log
<1>2. o \in OpRows /\ Asked(o) /\ t \in TicketRows
  BY <1>1, Writer
<1>3. o.user \in Staff /\ o.user \in Users /\ o.at \in Nat /\ o.user # ""
  BY <1>1, <1>2, TicketsBounds DEF OpRows, Asked, Users
<1>4. m \in Posts /\ m.visibility = "system"
  <2>1. o.kind \in {"", "recategorize", "editSubject", "resolve", "close"}
    BY <1>1
  <2> QED
    BY ONLY <1>3, <2>1, Posted
<1> HIDE DEF o, t, m
<1>5. /\ row \in TicketRows /\ row.owner = t.owner /\ row.status \in {"resolved", "closed"}
      /\ row.closedBy = o.user /\ row.count = t.count /\ t.count \in Nat
  BY <1>2, <1>3 DEF TicketRows
<1> HIDE DEF row
<1>6. (IsTerminal(row) <=> row.closedBy # "") /\ row.status # "open"
  BY <1>3, <1>5 DEF IsTerminal
<1>7. row.count = t.count + (IF m.visibility = "public" THEN 1 ELSE 0)
  BY <1>4, <1>5
<1> QED
  BY <1>1, <1>4, <1>5, <1>6, <1>7, WriteStep DEF o, t

LEMMA CreateStep ==
  ASSUME TicketInv, NEW h \in Handlers, Create(h)
  PROVE  TicketInv'
<1> DEFINE o == op[h]
           m == Message(o, "public", "")
           n == Len(tickets) + 1
           row == [owner |-> o.user, cat |-> o.cat, subj |-> o.subj, status |-> "open", actor |-> "player",
                   count |-> 1, active |-> o.at, closedBy |-> "", created |-> o.at]
           thread == <<m>>
<1>1. /\ pc[h] = "create" /\ Stop(h) /\ UNCHANGED <<views, clock>>
      /\ tickets' = Append(tickets, row) /\ messages' = Append(messages, thread)
  BY DEF Create
<1>2. o \in OpRows /\ Serving(h)
  BY Handler DEF TicketInv
<1>3. o.kind = "open" /\ Asked(o)
  BY <1>1, <1>2 DEF Serving, Prepared, Opening
<1>4. o.user \in Players /\ o.cat \in Categories /\ o.subj \in Subjects /\ o.user \in Users /\ o.at \in Nat
  BY <1>2, <1>3 DEF Asked, Users, OpRows
<1>5. m \in Posts /\ m.visibility = "public"
  BY <1>4, Posted
<1>6. /\ row \in TicketRows /\ row.owner = o.user /\ row.status = "open" /\ row.closedBy = ""
      /\ row.count = 1
  BY <1>4 DEF TicketRows
<1>7. thread \in Seq(Posts) /\ Public(thread) = 1
  <2>1. <<>> \in Seq(Posts) /\ Public(<<>>) = 0
    <3>1. {k \in DOMAIN <<>> : <<>>[k].visibility = "public"} = {}
      OBVIOUS
    <3> QED
      BY <3>1, FS_EmptySet DEF Public
  <2>2. thread = Append(<<>>, m)
    OBVIOUS
  <2> HIDE DEF m, thread
  <2> QED
    <3>1. /\ Append(<<>>, m) \in Seq(Posts)
          /\ Public(Append(<<>>, m)) = Public(<<>>) + (IF m.visibility = "public" THEN 1 ELSE 0)
      BY <1>5, <2>1, PublicMore
    <3> QED
      BY ONLY <1>5, <2>1, <2>2, <3>1
<1> HIDE DEF o, m, row, thread
<1>8. tickets \in Seq(TicketRows) /\ messages \in Seq(Seq(Posts)) /\ Len(messages) = Len(tickets)
  BY DEF TicketInv, RowTypes
<1>9. /\ tickets' \in Seq(TicketRows) /\ Len(tickets') = n /\ tickets'[n] = row /\ Len(tickets) \in Nat
      /\ \A j \in 1..Len(tickets) : tickets'[j] = tickets[j]
  <2> DEFINE s == Append(tickets, row)
  <2>1. /\ s \in Seq(TicketRows) /\ Len(s) = n /\ s[n] = row /\ Len(tickets) \in Nat
        /\ \A j \in 1..Len(tickets) : s[j] = tickets[j]
    <3>1. tickets \in Seq(TicketRows) /\ row \in TicketRows
      BY <1>6, <1>8
    <3>2. Len(tickets) \in Nat
      BY <3>1, LenProperties
    <3> QED
      BY ONLY <3>1, <3>2, AppendProperties
  <2>2. tickets' = s
    BY <1>1
  <2> HIDE DEF s
  <2> QED
    BY <2>1, <2>2
<1>10. /\ messages' \in Seq(Seq(Posts)) /\ Len(messages') = n /\ messages'[n] = thread
       /\ \A j \in 1..Len(tickets) : messages'[j] = messages[j]
  BY <1>1, <1>7, <1>8, AppendProperties
<1>11. /\ DOMAIN tickets = 1..Len(tickets) /\ DOMAIN tickets' = 1..n /\ n \notin DOMAIN tickets
       /\ DOMAIN tickets \subseteq DOMAIN tickets' /\ n \in Nat
       /\ \A j : j \in DOMAIN tickets' <=> j \in DOMAIN tickets \/ j = n
  BY <1>8, <1>9, LenProperties
<1>12. RowTypes' /\ ViewTypes'
  BY <1>1, <1>9, <1>10 DEF RowTypes, ViewTypes, TicketInv
<1>13. HandlerTypes'
  BY <1>1, <1>11, Stopped DEF TicketInv
<1> HIDE DEF n
<1>14. ClosedBySomeone'
  <2> SUFFICES ASSUME NEW j \in DOMAIN tickets'
               PROVE  IsTerminal(tickets'[j]) <=> tickets'[j].closedBy # ""
    BY DEF ClosedBySomeone, IsTerminal
  <2>1. CASE j = n
    BY <1>6, <1>9, <2>1 DEF IsTerminal
  <2>2. CASE j \in DOMAIN tickets
    BY <1>9, <1>11, <2>2 DEF TicketInv, ClosedBySomeone
  <2> QED
    BY <1>11, <2>1, <2>2
<1>15. CountMatchesThread'
  <2>1. ASSUME NEW j \in DOMAIN tickets'
        PROVE  tickets'[j].count = Public(messages'[j])
    <3>1. CASE j = n
      BY <1>6, <1>7, <1>9, <1>10, <3>1
    <3>2. CASE j \in DOMAIN tickets
      BY <1>9, <1>10, <1>11, <3>2, Counts DEF TicketInv
    <3> QED
      BY <1>11, <3>1, <3>2
  <2> QED
    BY <2>1, Counts
<1>16. /\ \A q \in Handlers \ {h} : pc'[q] = pc[q] /\ op'[q] = op[q]
       /\ pc'[h] = "idle"
  BY <1>1 DEF Stop, TicketInv, HandlerTypes
<1>17. ASSUME NEW u \in Players
       PROVE  (CountOpenForPlayer(u) + Cardinality(Admitted(u)))'
                <= MaxOpenPerPlayer - 1 + Cardinality(Handlers)
  <2> DEFINE C == CountOpenForPlayer(u)
             D == CountOpenForPlayer(u)'
             H == Cardinality(Handlers)
             A == Cardinality(Admitted(u))
             B == Cardinality(Admitted(u)')
             Q == OpenOf(u)
             R == OpenOf(u)'
             P == Admitted(u)
             W == Admitted(u)'
  <2>1. C \in Nat /\ IsFiniteSet(Q) /\ C = Cardinality(Q) /\ D = Cardinality(R)
    BY OpenFinite DEF TicketInv, CountOpenForPlayer, OpenOf
  <2>2. A \in Nat /\ H \in Nat /\ IsFiniteSet(P) /\ n \notin Q
    BY <1>11, AdmittedFinite DEF OpenOf
  <2>3. C + A <= MaxOpenPerPlayer - 1 + H /\ MaxOpenPerPlayer \in Nat
    BY TicketsBounds DEF TicketInv, Bounded
  <2>4. \A q : q \in W <=> q \in P /\ q # h
    BY <1>16 DEF Admitted
  <2>5. W = P \ {h}
    <3> HIDE DEF W, P
    <3> QED
      BY ONLY <2>4
  <2>6. \A t : t \in R <=> t \in Q \/ (t = n /\ o.user = u)
    BY <1>6, <1>9, <1>11 DEF OpenOf
  <2>7. h \in P <=> o.user = u
    BY <1>1 DEF Admitted, o
  <2> HIDE DEF C, D, H, A, B, Q, R, P, W
  <2>8. CASE o.user = u
    <3>1. R = Q \cup {n}
      BY ONLY <2>6, <2>8
    <3>2. D = C + 1
      BY ONLY <2>1, <2>2, <3>1, FS_AddElement
    <3>3. Cardinality(W) = A - 1
      BY ONLY <2>2, <2>5, <2>7, <2>8, FS_RemoveElement DEF A, P
    <3>4. B = A - 1
      BY <3>3 DEF B, W
    <3>5. D + B <= MaxOpenPerPlayer - 1 + H
      BY ONLY <2>1, <2>2, <2>3, <3>2, <3>4
    <3> QED
      BY <3>5 DEF D, B, H
  <2>9. CASE o.user # u
    <3>1. R = Q
      BY ONLY <2>6, <2>9
    <3>2. D = C
      BY ONLY <2>1, <3>1
    <3>3. h \notin P
      BY ONLY <2>7, <2>9
    <3>4. W = P
      BY ONLY <2>5, <3>3
    <3>5. B = A
      BY ONLY <3>4 DEF A, B, P, W
    <3>6. D + B <= MaxOpenPerPlayer - 1 + H
      BY ONLY <2>3, <3>2, <3>5
    <3> QED
      BY <3>6 DEF D, B, H
  <2> QED
    BY <2>8, <2>9
<1>18. Bounded'
  BY <1>17 DEF Bounded
<1> QED
  BY <1>12, <1>13, <1>14, <1>15, <1>18 DEF TicketInv

LEMMA MarkViewedStep ==
  ASSUME TicketInv, NEW h \in Handlers, MarkViewed(h)
  PROVE  TicketInv' /\ \A u \in Users, t \in 1..MaxRequests : views'[u][t] >= views[u][t]
<1> DEFINE o == op[h]
<1>1. /\ pc[h] = "write" /\ Stop(h) /\ UNCHANGED <<tickets, messages, clock>>
      /\ views' = [views EXCEPT ![o.user][o.id] = LastViewed(views[o.user][o.id], o.at)]
  BY DEF MarkViewed, Write
<1>2. o \in OpRows /\ o.at \in Nat /\ views \in [Users -> [1..MaxRequests -> Nat]]
  BY Handler DEF TicketInv, ViewTypes, OpRows
<1>3. \A v \in Nat : LastViewed(v, o.at) \in Nat /\ LastViewed(v, o.at) >= v
  BY <1>2 DEF LastViewed
<1> HIDE DEF o
<1>4. PICK seen : seen = [views[o.user] EXCEPT ![o.id] = LastViewed(views[o.user][o.id], o.at)]
  OBVIOUS
<1>5. views' \in [Users -> [1..MaxRequests -> Nat]]
      /\ \A u \in Users, t \in 1..MaxRequests : views'[u][t] >= views[u][t]
  <2>1. views' = [views EXCEPT ![o.user] = seen]
    BY ONLY <1>1, <1>4
  <2>2. o.user \in Users
    BY <1>1, Writer DEF o, Asked, Users
  <2>3. views[o.user] \in [1..MaxRequests -> Nat]
    BY <1>2, <2>2
  <2>4. seen \in [1..MaxRequests -> Nat] /\ \A t \in 1..MaxRequests : seen[t] >= views[o.user][t]
    <3> DEFINE old == views[o.user]
               new == LastViewed(old[o.id], o.at)
    <3>1. seen = [old EXCEPT ![o.id] = new] /\ old \in [1..MaxRequests -> Nat]
      BY <1>4, <2>3
    <3>2. o.id \in 1..MaxRequests => new \in Nat /\ new >= old[o.id]
      BY <1>3, <2>3
    <3> HIDE DEF old, new
    <3>3. seen \in [1..MaxRequests -> Nat] /\ \A t \in 1..MaxRequests : seen[t] >= old[t]
      <4>1. \A t \in 1..MaxRequests : old[t] \in Nat /\ old[t] >= old[t]
        BY <3>1
      <4>2. \A t \in 1..MaxRequests : seen[t] = IF t = o.id THEN new ELSE old[t]
        BY <3>1
      <4> QED
        BY <3>1, <3>2, <4>1, <4>2
    <3> QED
      BY <3>3 DEF old
  <2>5. ASSUME NEW u \in Users, NEW t \in 1..MaxRequests
        PROVE  views'[u][t] >= views[u][t]
    <3>1. CASE u = o.user
      BY ONLY <1>2, <2>1, <2>2, <2>4, <3>1
    <3>2. CASE u # o.user
      <4>1. views'[u] = views[u] /\ views[u] \in [1..MaxRequests -> Nat]
        BY <1>2, <2>1, <3>2
      <4>2. \A v \in [1..MaxRequests -> Nat] : v[t] >= v[t]
        OBVIOUS
      <4> QED
        BY <4>1, <4>2
    <3> QED
      BY <3>1, <3>2
  <2> QED
    BY <1>2, <2>1, <2>4, <2>5
<1>6. RowTypes' /\ ViewTypes' /\ ClosedBySomeone' /\ CountMatchesThread'
      /\ DOMAIN tickets' = DOMAIN tickets /\ \A u : OpenOf(u)' = OpenOf(u)
  BY <1>1, <1>5 DEF TicketInv, RowTypes, ViewTypes, ClosedBySomeone, CountMatchesThread, IsTerminal, OpenOf
<1>7. HandlerTypes'
  BY <1>1, <1>6, Stopped DEF TicketInv
<1>8. \A u : Admitted(u)' \subseteq Admitted(u)
  <2>1. Go(h, "idle", NoOp)
    BY <1>1 DEF Go, Stop
  <2> QED
    BY <2>1, NotAdmitted DEF TicketInv
<1>9. Bounded'
  BY <1>6, <1>8, StaysBounded DEF TicketInv
<1> QED
  BY <1>5, <1>6, <1>7, <1>9 DEF TicketInv

-----------------------------------------------------------------------------
(* The invariant, and what no step does                                    *)

LEMMA InitTicketInv == Init => TicketInv
<1> SUFFICES ASSUME Init
             PROVE  TicketInv
  OBVIOUS
<1>1. /\ tickets = <<>> /\ messages = <<>> /\ clock = 1
      /\ views = [u \in Users |-> [t \in 1..MaxRequests |-> 0]]
      /\ pc = [h \in Handlers |-> "idle"] /\ op = [h \in Handlers |-> NoOp]
  BY DEF Init
<1>2. RowTypes /\ ViewTypes
  BY <1>1 DEF RowTypes, ViewTypes
<1>3. \A h \in Handlers : pc[h] = "idle" /\ op[h] = NoOp
  BY <1>1
<1>4. HandlerTypes
  <2>1. "idle" \in CallNames /\ "idle" \notin OnTicket
    BY DEF CallNames, OnTicket
  <2>2. pc \in [Handlers -> CallNames] /\ op \in [Handlers -> OpRows]
    BY <1>1, <2>1, NoOpPrepared
  <2> QED
    BY <1>3, <2>1, <2>2, NoOpPrepared DEF HandlerTypes, Serving
<1>5. DOMAIN tickets = {}
  BY <1>1
<1>6. ClosedBySomeone /\ CountMatchesThread
  BY <1>5 DEF ClosedBySomeone, CountMatchesThread
<1>7. ASSUME NEW u \in Players
      PROVE  CountOpenForPlayer(u) + Cardinality(Admitted(u)) <= MaxOpenPerPlayer - 1 + Cardinality(Handlers)
  <2>1. Cardinality(Handlers) \in Nat /\ MaxOpenPerPlayer \in Nat \ {0}
    BY TicketsBounds, AdmittedFinite
  <2>2. OpenOf(u) = {} /\ Admitted(u) = {}
    BY <1>3, <1>5 DEF OpenOf, Admitted
  <2>3. CountOpenForPlayer(u) = 0 /\ Cardinality(Admitted(u)) = 0
    BY <2>2, FS_EmptySet DEF CountOpenForPlayer, OpenOf
  <2> QED
    BY ONLY <2>1, <2>3
<1> QED
  BY <1>2, <1>4, <1>6, <1>7 DEF TicketInv, Bounded

LEMMA TickStep ==
  ASSUME TicketInv, Tick \/ UNCHANGED vars
  PROVE  TicketInv'
<1>1. UNCHANGED <<dbVars, pc, op>> /\ clock' \in Nat
  BY DEF Tick, vars, TicketInv, ViewTypes
<1>2. RowTypes' /\ ViewTypes' /\ ClosedBySomeone' /\ CountMatchesThread'
      /\ DOMAIN tickets' = DOMAIN tickets /\ \A u : OpenOf(u)' = OpenOf(u)
  BY <1>1, RowsStay DEF TicketInv
<1>3. HandlerTypes'
  <2>1. \A h \in Handlers : Serving(h)'
    BY <1>1, <1>2 DEF TicketInv, HandlerTypes, Serving, Prepared, Asked
  <2> QED
    BY <1>1, <2>1 DEF TicketInv, HandlerTypes
<1>4. \A u : Admitted(u)' = Admitted(u)
  BY <1>1 DEF Admitted
<1>5. Bounded'
  BY <1>2, <1>4, StaysBounded DEF TicketInv
<1> QED
  BY <1>2, <1>3, <1>5 DEF TicketInv

LEMMA TicketInvStep ==
  ASSUME TicketInv, [Next]_vars
  PROVE  TicketInv'
<1>1. ASSUME NEW h \in Handlers, HandlerFails(h)
      PROVE  TicketInv'
  BY <1>1, FailStep DEF HandlerFails
<1> QED
  BY <1>1, TickStep, PlayerRequestStep, StaffRequestStep, CheckOpenCountStep, CheckCooldownStep,
     TakeTimeStep, CreateStep, AssertCategoryAllowedStep, GetStep, AppendPublicMessageStep,
     AppendInternalNoteStep, AppendSystemEventStep, SetTerminalStep, MarkViewedStep
  DEF Next

LEMMA TicketsKeep == Spec => []TicketInv
BY InitTicketInv, TicketInvStep, PTL DEF Spec

\* The steps that write to the database
LEMMA Writers ==
  ASSUME [Next]_vars
  PROVE  \/ UNCHANGED dbVars
         \/ \E h \in Handlers :
              \/ Create(h) \/ AppendPublicMessage(h) \/ AppendInternalNote(h) \/ AppendSystemEvent(h)
              \/ SetTerminal(h) \/ MarkViewed(h)
<1>1. ASSUME NEW h \in Handlers, NEW call, NEW o, Request(h, call, o)
      PROVE  UNCHANGED dbVars
  BY <1>1 DEF Request
<1>2. ASSUME NEW h \in Handlers, PlayerRequest(h) \/ StaffRequest(h)
      PROVE  UNCHANGED dbVars
  BY <1>1, <1>2 DEF PlayerRequest, StaffRequest
<1>3. ASSUME NEW h \in Handlers, \/ HandlerFails(h) \/ CheckOpenCount(h) \/ CheckCooldown(h)
                                 \/ TakeTime(h) \/ AssertCategoryAllowed(h)
      PROVE  UNCHANGED dbVars
  BY <1>3 DEF HandlerFails, CheckOpenCount, CheckCooldown, TakeTime, AssertCategoryAllowed
<1>4. ASSUME NEW h \in Handlers, Get(h)
      PROVE  UNCHANGED dbVars
  BY <1>4 DEF Get
<1>5. UNCHANGED vars \/ Tick => UNCHANGED dbVars
  BY DEF vars, Tick
<1> QED
  BY <1>2, <1>3, <1>4, <1>5 DEF Next

\* What a step does to the status of a ticket
LEMMA OneRowChanges ==
  ASSUME TicketInv, NEW i, NEW row, tickets' = [tickets EXCEPT ![i] = row],
         i \in DOMAIN tickets /\ IsTerminal(tickets[i]) => IsTerminal(row)
  PROVE  \A t \in DOMAIN tickets : IsTerminal(tickets[t]) => IsTerminal(tickets'[t])
<1>1. tickets \in [1..Len(tickets) -> TicketRows]
  BY LenProperties DEF TicketInv, RowTypes
<1>2. \A t \in DOMAIN tickets : tickets'[t] = IF t = i THEN row ELSE tickets[t]
  BY <1>1
<1> QED
  BY <1>2

LEMMA TerminalStays ==
  ASSUME TicketInv, [Next]_vars
  PROVE  \A t \in DOMAIN tickets : IsTerminal(tickets[t]) => IsTerminal(tickets'[t])
<1> DEFINE Kept == \A t \in DOMAIN tickets : IsTerminal(tickets[t]) => IsTerminal(tickets'[t])
<1>1. ASSUME UNCHANGED tickets
      PROVE  Kept
  BY <1>1
<1>2. ASSUME NEW h \in Handlers, Create(h)
      PROVE  Kept
  <2>1. PICK row : row = [owner |-> op[h].user, cat |-> op[h].cat, subj |-> op[h].subj, status |-> "open",
                          actor |-> "player", count |-> 1, active |-> op[h].at, closedBy |-> "",
                          created |-> op[h].at]
    OBVIOUS
  <2>2. tickets' = Append(tickets, row)
    BY <1>2, <2>1 DEF Create
  <2>3. tickets \in Seq(TicketRows)
    BY DEF TicketInv, RowTypes
  <2>4. \A t \in DOMAIN tickets : tickets'[t] = tickets[t]
    BY ONLY <2>2, <2>3
  <2> QED
    BY <2>4
<1>3. ASSUME NEW h \in Handlers, AppendPublicMessage(h)
      PROVE  Kept
  <2> DEFINE o == op[h]
             row == Counted(tickets[o.id], o)
  <2>1. tickets' = [tickets EXCEPT ![o.id] = row] /\ pc[h] = "write"
    BY <1>3 DEF AppendPublicMessage, Write
  <2>2. tickets[o.id] \in TicketRows
    BY <2>1, Writer
  <2>3. row.status = tickets[o.id].status
    BY <2>2 DEF Counted, TicketRows
  <2>4. IsTerminal(tickets[o.id]) => IsTerminal(row)
    BY <2>3 DEF IsTerminal
  <2> HIDE DEF row, o
  <2> QED
    BY <2>1, <2>4, OneRowChanges
<1>4. ASSUME NEW h \in Handlers, AppendSystemEvent(h)
      PROVE  Kept
  <2> DEFINE o == op[h]
             row == SaveEdit(tickets[o.id], o)
  <2>1. tickets' = [tickets EXCEPT ![o.id] = row] /\ pc[h] = "write"
    BY <1>4 DEF AppendSystemEvent, Write
  <2>2. tickets[o.id] \in TicketRows
    BY <2>1, Writer
  <2>3. row.status = tickets[o.id].status
    BY <2>2 DEF SaveEdit, Edited, TicketRows
  <2>4. IsTerminal(tickets[o.id]) => IsTerminal(row)
    BY <2>3 DEF IsTerminal
  <2> HIDE DEF row, o
  <2> QED
    BY <2>1, <2>4, OneRowChanges
<1>5. ASSUME NEW h \in Handlers, SetTerminal(h)
      PROVE  Kept
  <2> DEFINE o == op[h]
             row == [tickets[o.id] EXCEPT !.status = IF o.kind = "resolve" THEN "resolved" ELSE "closed",
                                          !.closedBy = o.user, !.active = o.at]
  <2>1. tickets' = [tickets EXCEPT ![o.id] = row] /\ pc[h] = "write"
    BY <1>5 DEF SetTerminal, Write
  <2>2. tickets[o.id] \in TicketRows
    BY <2>1, Writer
  <2>3. row.status \in {"resolved", "closed"}
    BY <2>2 DEF TicketRows
  <2>4. IsTerminal(row)
    BY <2>3 DEF IsTerminal
  <2> HIDE DEF row, o
  <2> QED
    BY <2>1, <2>4, OneRowChanges
<1>6. \/ UNCHANGED tickets
      \/ \E h \in Handlers : Create(h) \/ AppendPublicMessage(h) \/ AppendSystemEvent(h) \/ SetTerminal(h)
  BY Writers DEF dbVars, AppendInternalNote, MarkViewed
<1> HIDE DEF Kept
<1>7. Kept
  BY <1>1, <1>2, <1>3, <1>4, <1>5, <1>6
<1> QED
  BY <1>7 DEF Kept

LEMMA ViewsStay ==
  ASSUME TicketInv, [Next]_vars
  PROVE  \A u \in Users, t \in 1..MaxRequests : views'[u][t] >= views[u][t]
<1>1. ASSUME UNCHANGED views
      PROVE  \A u \in Users, t \in 1..MaxRequests : views'[u][t] >= views[u][t]
  <2>1. \A u \in Users, t \in 1..MaxRequests : views[u][t] \in Nat
    BY DEF TicketInv, ViewTypes
  <2> QED
    BY <1>1, <2>1
<1>2. UNCHANGED views \/ \E h \in Handlers : MarkViewed(h)
  BY Writers DEF dbVars, AppendPublicMessage, AppendInternalNote, AppendSystemEvent, SetTerminal, Create
<1> QED
  BY <1>1, <1>2, MarkViewedStep

-----------------------------------------------------------------------------

\* Whatever players and staff write at once, message_count is the number of the
\* public messages of the thread, and closed_by is set exactly on the tickets
\* that SetTerminal closed.
THEOREM ThreadsCounted == Spec => []Consistent
<1>1. ASSUME TicketInv
      PROVE  Consistent
  <2>1. RowTypes /\ HandlerTypes /\ ClosedBySomeone /\ CountMatchesThread
    BY <1>1 DEF TicketInv
  <2>2. \A h \in Handlers : pc[h] \in {"permit", "get", "page", "write"} => op[h].id \in DOMAIN tickets
    BY <2>1 DEF HandlerTypes, Serving, OnTicket
  <2> QED
    BY <2>1, <2>2 DEF Consistent, TypeOK, RowTypes, TicketRows, ClosedBySomeone
<1> QED
  BY <1>1, TicketsKeep, PTL

\* checkOpenGate counts before CreateTx inserts: a player's concurrent requests
\* may exceed the limit, but never by as many as there are handlers.
THEOREM LimitExceededByFlight == Spec => []OpenBounded
<1>1. ASSUME TicketInv
      PROVE  OpenBounded
  <2> SUFFICES ASSUME NEW u \in Players
               PROVE  CountOpenForPlayer(u) < MaxOpenPerPlayer + Cardinality(Handlers)
    BY DEF OpenBounded
  <2>1. CountOpenForPlayer(u) + Cardinality(Admitted(u)) <= MaxOpenPerPlayer - 1 + Cardinality(Handlers)
    BY <1>1 DEF TicketInv, Bounded
  <2>2. /\ CountOpenForPlayer(u) \in Nat /\ Cardinality(Admitted(u)) \in Nat
        /\ Cardinality(Handlers) \in Nat /\ MaxOpenPerPlayer \in Nat
    BY <1>1, OpenFinite, AdmittedFinite, TicketsBounds DEF TicketInv
  <2> QED
    BY ONLY <2>1, <2>2
<1> QED
  BY <1>1, TicketsKeep, PTL

\* A reply or an edit that read the ticket while it was open does not write the
\* status it read: what SetTerminal closed stays closed.
THEOREM ClosedStaysClosed == Spec => NeverReopened
<1>1. TicketInv /\ [Next]_vars
        => [\A t \in DOMAIN tickets : IsTerminal(tickets[t]) => IsTerminal(tickets'[t])]_vars
  BY TerminalStays
<1> QED
  BY <1>1, TicketsKeep, PTL DEF Spec, NeverReopened

\* Two pages of a ticket record their views in any order, each with the time at
\* which it started: MarkViewed keeps the later one.
THEOREM ViewsNeverShrink == Spec => ViewsGrow
<1>1. TicketInv /\ [Next]_vars => [\A u \in Users, t \in 1..MaxRequests : views'[u][t] >= views[u][t]]_vars
  BY ViewsStay
<1> QED
  BY <1>1, TicketsKeep, PTL DEF Spec, ViewsGrow

(***************************************************************************)
(* The lockout of logins                                                   *)
(***************************************************************************)

LoginSpec == LoginInit /\ [][LoginNext]_loginVars

LoginTypes ==
  /\ loginTime \in Nat /\ failures \in Seq(Nat)
  /\ loginCalls \in
       [Logins -> [pc : {"idle", "check", "recordFailure", "recordSuccess"}, count : Nat, lastFail : Nat]]

\* The rows are recorded in the order of their times, which have come.
InOrder ==
  \A i \in DOMAIN failures :
    failures[i] <= loginTime /\ \A j \in 1..i : failures[j] <= failures[i]

\* A call that has not recorded a failure yet knows the failures j to n: it has
\* counted them, or it was let pass when the backoff for them was over.
Knows(l, j, n) ==
  /\ loginCalls[l].pc = "check" => loginCalls[l].count >= n - j + 1 /\ loginCalls[l].lastFail >= failures[n]
  /\ loginCalls[l].pc = "recordFailure" => loginTime - failures[n] >= Backoff(n - j + 1)

\* The calls that may still record a failure too early after the n-th.
Unaware(j, n) == {l \in Logins : loginTime - failures[j] < Window /\ ~Knows(l, j, n)}

Early(i, j, n) ==
  i = n \/ (failures[i] - failures[j] < Window /\ failures[i] - failures[n] < Backoff(n - j + 1))

\* What was recorded too early after the n-th failure, and what may still be,
\* are fewer than the calls.
FewEarly ==
  \A n \in DOMAIN failures : \A j \in 1..n : \A i \in n..Len(failures) :
    Early(i, j, n) => i - n + Cardinality(Unaware(j, n)) < Cardinality(Logins)

LoginInv == LoginTypes /\ InOrder /\ FewEarly

\* The powers of two that Backoff shifts by.
Doubled(p, v) ==
  /\ (p = 0 => v = 1)
  /\ (p = 1 => v = 2)
  /\ (p = 2 => v = 4)
  /\ (p = 3 => v = 8)
  /\ (p = 4 => v = 16)
  /\ (p = 5 => v = 32)
  /\ (p = 6 => v = 64)
  /\ (p = 7 => v = 128)
  /\ (p = 8 => v = 256)
  /\ (p = 9 => v = 512)
  /\ (p = 10 => v = 1024)
  /\ (p = 11 => v = 2048)
  /\ (p = 12 => v = 4096)
  /\ (p = 13 => v = 8192)
  /\ (p = 14 => v = 16384)
  /\ (p = 15 => v = 32768)
  /\ (p = 16 => v = 65536)

LEMMA Doublings ==
  ASSUME NEW p \in 0..16
  PROVE  Doubled(p, 2^p)
<1>1. ASSUME p = 0 PROVE 2^p = 1
  BY <1>1
<1>2. ASSUME p = 1 PROVE 2^p = 2
  BY <1>2
<1>3. ASSUME p = 2 PROVE 2^p = 4
  BY <1>3
<1>4. ASSUME p = 3 PROVE 2^p = 8
  BY <1>4
<1>5. ASSUME p = 4 PROVE 2^p = 16
  BY <1>5
<1>6. ASSUME p = 5 PROVE 2^p = 32
  BY <1>6
<1>7. ASSUME p = 6 PROVE 2^p = 64
  BY <1>7
<1>8. ASSUME p = 7 PROVE 2^p = 128
  BY <1>8
<1>9. ASSUME p = 8 PROVE 2^p = 256
  BY <1>9
<1>10. ASSUME p = 9 PROVE 2^p = 512
  BY <1>10
<1>11. ASSUME p = 10 PROVE 2^p = 1024
  BY <1>11
<1>12. ASSUME p = 11 PROVE 2^p = 2048
  BY <1>12
<1>13. ASSUME p = 12 PROVE 2^p = 4096
  BY <1>13
<1>14. ASSUME p = 13 PROVE 2^p = 8192
  BY <1>14
<1>15. ASSUME p = 14 PROVE 2^p = 16384
  BY <1>15
<1>16. ASSUME p = 15 PROVE 2^p = 32768
  BY <1>16
<1>17. ASSUME p = 16 PROVE 2^p = 65536
  BY <1>17
<1> QED
  BY <1>1, <1>2, <1>3, <1>4, <1>5, <1>6, <1>7, <1>8, <1>9, <1>10, <1>11, <1>12, <1>13, <1>14, <1>15, <1>16, <1>17 DEF Doubled

LEMMA DoublingGrows ==
  ASSUME NEW p \in 0..16, NEW q \in 0..16, p <= q
  PROVE  2^p \in Nat /\ 2^q \in Nat /\ 2^p <= 2^q
<1>1. PICK v : v = 2^p
  OBVIOUS
<1>2. PICK w : w = 2^q
  OBVIOUS
<1>3. Doubled(p, v) /\ Doubled(q, w)
  BY <1>1, <1>2, Doublings
<1>4. v \in Nat /\ w \in Nat /\ v <= w
  BY <1>3 DEF Doubled
<1> QED
  BY <1>1, <1>2, <1>4

LEMMA SmallerOfTwo ==
  ASSUME NEW a \in Int, NEW b \in Int
  PROVE  Min({a, b}) = IF a <= b THEN a ELSE b
<1>1. \E x \in {a, b} : \A y \in {a, b} : x <= y
  OBVIOUS
<1>2. Min({a, b}) \in {a, b} /\ \A y \in {a, b} : Min({a, b}) <= y
  BY <1>1 DEF Min
<1> QED
  BY <1>2

LEMMA GreatestOf ==
  ASSUME NEW S \in SUBSET Int, NEW m \in S, \A x \in S : x <= m
  PROVE  Max(S) = m
<1>1. \E x \in S : \A y \in S : x >= y
  <2>1. \A y \in S : m >= y
    OBVIOUS
  <2> QED
    BY <2>1
<1>2. PICK x : x = Max(S)
  OBVIOUS
<1>3. x \in S /\ \A y \in S : x >= y
  BY <1>1, <1>2 DEF Max
<1>4. x \in Int /\ m \in Int /\ x <= m /\ x >= m
  BY <1>3
<1> QED
  BY <1>2, <1>4

LEMMA Factors ==
  ASSUME NEW a \in Nat, NEW b \in Nat, NEW c \in Nat, b <= c
  PROVE  a * b \in Nat /\ a * c \in Nat /\ a * b <= a * c
<1>1. PICK d \in Nat : c = b + d
  <2>1. c - b \in Nat /\ c = b + (c - b)
    OBVIOUS
  <2> QED
    BY <2>1
<1>2. a * c = a * b + a * d /\ a * d \in Nat /\ a * b \in Nat
  BY <1>1
<1> QED
  BY <1>2

LEMMA BackoffGrows ==
  ASSUME NEW m \in Int, NEW n \in Int, m <= n
  PROVE  Backoff(m) \in Nat /\ Backoff(n) \in Nat /\ Backoff(m) <= Backoff(n)
<1>0. Threshold \in Nat /\ BaseBackoff \in Nat /\ MaxBackoff \in Nat
  BY LockoutBounds
<1> DEFINE over(k) == Min({k - Threshold, 16})
<1> DEFINE locked(k) == Min({BaseBackoff * 2 ^ over(k), MaxBackoff})
<1>1. ASSUME NEW k \in Int, k >= Threshold
      PROVE  over(k) \in 0..16
  BY <1>0, <1>1, SmallerOfTwo
<1>2. ASSUME NEW k \in Int, k >= Threshold
      PROVE  locked(k) \in Nat
  <2>1. PICK p \in 0..16 : p = over(k)
    BY <1>1, <1>2
  <2>2. p <= p
    OBVIOUS
  <2>3. 2 ^ p \in Nat
    BY <2>2, DoublingGrows
  <2>4. BaseBackoff * 2 ^ p \in Nat
    BY <2>3, <1>0, Factors
  <2> QED
    BY <2>1, <2>4, <1>0, SmallerOfTwo
<1>3. ASSUME m >= Threshold
      PROVE  locked(m) <= locked(n)
  <2>1. PICK p \in 0..16 : p = over(m)
    BY <1>1, <1>3
  <2>2. PICK q \in 0..16 : q = over(n)
    BY <1>0, <1>1, <1>3
  <2>3. p <= q
    BY <2>1, <2>2, <1>0, SmallerOfTwo
  <2>4. 2 ^ p \in Nat /\ 2 ^ q \in Nat /\ 2 ^ p <= 2 ^ q
    BY <2>3, DoublingGrows
  <2>5. PICK v \in Nat : v = BaseBackoff * 2 ^ p
    BY <2>4, <1>0, Factors
  <2>6. PICK w \in Nat : w = BaseBackoff * 2 ^ q
    BY <2>4, <1>0, Factors
  <2>7. v <= w
    BY <2>4, <2>5, <2>6, <1>0, Factors
  <2>8. locked(m) = Min({v, MaxBackoff}) /\ locked(n) = Min({w, MaxBackoff})
    BY <2>1, <2>2, <2>5, <2>6
  <2> QED
    BY <2>7, <2>8, <1>0, SmallerOfTwo
<1>4. ASSUME NEW k \in Int
      PROVE  Backoff(k) = IF k < Threshold THEN 0 ELSE locked(k)
  BY DEF Backoff
<1> HIDE DEF locked, over
<1> QED
  BY <1>0, <1>2, <1>3, <1>4

LEMMA RecentCounted ==
  ASSUME LoginTypes, InOrder
  PROVE  /\ Cardinality(Recent) \in Nat
         /\ Max({0} \cup {failures[i] : i \in Recent}) \in Nat
         /\ \A n \in DOMAIN failures : \A j \in 1..n :
              loginTime - failures[j] < Window =>
                /\ Cardinality(Recent) >= n - j + 1
                /\ Max({0} \cup {failures[i] : i \in Recent}) >= failures[n]
<1> DEFINE last == Len(failures)
           times == {0} \cup {failures[i] : i \in Recent}
<1>1. last \in Nat /\ DOMAIN failures = 1..last /\ \A i \in 1..last : failures[i] \in Nat
  BY DEF LoginTypes
<1>2. Window \in Nat /\ loginTime \in Nat
  BY LockoutBounds DEF LoginTypes
<1>3. Recent \in SUBSET (1..last)
  BY <1>1 DEF Recent
<1>4. IsFiniteSet(1..last)
  BY <1>1, FS_Interval
<1>5. IsFiniteSet(Recent)
  BY <1>3, <1>4, FS_Subset
<1>6. Cardinality(Recent) \in Nat
  BY <1>5, FS_CardinalityType
<1>7. ASSUME NEW j \in 1..last, loginTime - failures[j] < Window
      PROVE  \A i \in j..last : i \in Recent
  <2> SUFFICES ASSUME NEW i \in j..last
               PROVE  i \in Recent
    OBVIOUS
  <2>1. i \in 1..last /\ j \in 1..i
    BY <1>1
  <2>2. failures[j] <= failures[i]
    BY <1>1, <2>1 DEF InOrder
  <2>3. failures[i] > loginTime - Window
    BY <1>1, <1>2, <1>7, <2>1, <2>2
  <2> QED
    BY <1>1, <2>1, <2>3 DEF Recent
<1>8. ASSUME NEW i \in Recent
      PROVE  last \in Recent /\ failures[i] <= failures[last]
  <2>1. i \in 1..last /\ loginTime - failures[i] < Window
    BY <1>1, <1>2, <1>3 DEF Recent
  <2>2. last \in i..last /\ last \in DOMAIN failures /\ i \in 1..last
    BY <1>1, <2>1
  <2> QED
    BY <1>7, <2>1, <2>2 DEF InOrder
<1>9. times \in SUBSET Nat
  BY <1>1, <1>3
<1>10. Max(times) \in Nat /\ \A i \in Recent : Max(times) >= failures[i]
  <2>1. CASE Recent = {}
    <3>1. times = {0}
      BY <2>1
    <3>2. Max(times) = 0
      BY <3>1, GreatestOf
    <3> QED
      BY <2>1, <3>2
  <2>2. CASE Recent # {}
    <3>1. PICK m \in Nat : m = failures[last] /\ m \in times
      BY <1>1, <1>3, <1>8, <2>2
    <3>2. \A i \in Recent : failures[i] <= m
      BY <1>8, <3>1
    <3>3. \A x \in times : x <= m
      BY <3>1, <3>2
    <3>4. times \in SUBSET Int
      BY <1>9
    <3>5. Max(times) = m
      BY <3>1, <3>3, <3>4, GreatestOf
    <3>6. \A i \in Recent : m >= failures[i]
      BY <1>1, <1>3, <3>1, <3>2
    <3> QED
      BY <3>1, <3>5, <3>6
  <2> QED
    BY <2>1, <2>2
<1>11. ASSUME NEW n \in DOMAIN failures, NEW j \in 1..n, loginTime - failures[j] < Window
       PROVE  Cardinality(Recent) >= n - j + 1 /\ Max(times) >= failures[n]
  <2>1. j \in 1..last /\ n \in j..last
    BY <1>1
  <2>2. \A i \in j..n : i \in j..last
    BY <1>1
  <2>3. j..n \in SUBSET Recent
    BY <1>7, <1>11, <2>1, <2>2
  <2>4. Cardinality(j..n) <= Cardinality(Recent)
    BY <1>5, <2>3, FS_Subset
  <2>5. Cardinality(j..n) = n - j + 1
    BY <1>1, <2>1, FS_Interval
  <2>6. n \in Recent
    BY <1>7, <1>11, <2>1
  <2> QED
    BY <1>1, <1>6, <1>10, <2>1, <2>4, <2>5, <2>6
<1> QED
  BY <1>6, <1>10, <1>11

LEMMA SomeUnaware ==
  ASSUME NEW U \in SUBSET Logins
  PROVE  /\ Cardinality(U) \in Nat /\ Cardinality(Logins) \in Nat
         /\ \A V \in SUBSET U : Cardinality(V) \in Nat /\ Cardinality(V) <= Cardinality(U)
         /\ \A l \in U : Cardinality(U \ {l}) = Cardinality(U) - 1
<1>1. IsFiniteSet(Logins)
  BY LockoutBounds
<1>2. IsFiniteSet(U)
  BY <1>1, FS_Subset
<1>3. \A V \in SUBSET U : IsFiniteSet(V) /\ Cardinality(V) <= Cardinality(U)
  BY <1>2, FS_Subset
<1>4. \A l \in U : Cardinality(U \ {l}) = Cardinality(U) - 1
  BY <1>2, FS_RemoveElement
<1> QED
  BY <1>1, <1>2, <1>3, <1>4, FS_CardinalityType

\* As long as the failures stay, the calls only come to know more of them.
LEMMA NoMoreUnaware ==
  ASSUME LoginTypes, FewEarly, UNCHANGED failures,
         \A n \in DOMAIN failures : \A j \in 1..n : Unaware(j, n)' \subseteq Unaware(j, n)
  PROVE  FewEarly'
<1> SUFFICES ASSUME NEW n \in DOMAIN failures, NEW j \in 1..n, NEW i \in n..Len(failures), Early(i, j, n)'
             PROVE  i - n + Cardinality(Unaware(j, n)') < Cardinality(Logins)
  BY DEF FewEarly
<1>1. Early(i, j, n)
  BY DEF Early
<1>2. i - n + Cardinality(Unaware(j, n)) < Cardinality(Logins)
  BY <1>1 DEF FewEarly
<1>3. Unaware(j, n) \in SUBSET Logins /\ Unaware(j, n)' \in SUBSET Unaware(j, n)
  BY DEF Unaware
<1>4. PICK U : U = Unaware(j, n)
  OBVIOUS
<1>5. PICK V : V = Unaware(j, n)'
  OBVIOUS
<1>6. /\ Cardinality(U) \in Nat /\ Cardinality(V) \in Nat /\ Cardinality(V) <= Cardinality(U)
      /\ Cardinality(Logins) \in Nat
  BY <1>3, <1>4, <1>5, SomeUnaware
<1>7. i - n \in Int
  BY DEF LoginTypes
<1>8. i - n + Cardinality(U) < Cardinality(Logins)
  BY <1>2, <1>4
<1> QED
  BY <1>5, <1>6, <1>7, <1>8

LEMMA InitLoginInv == LoginInit => LoginInv
<1> SUFFICES ASSUME LoginInit
             PROVE  LoginInv
  OBVIOUS
<1>1. LoginTypes
  BY DEF LoginInit, LoginTypes, NoLogin
<1>2. DOMAIN failures = {}
  BY DEF LoginInit
<1> QED
  BY <1>1, <1>2 DEF LoginInv, InOrder, FewEarly

LEMMA CountFailuresLogin ==
  ASSUME LoginInv, NEW l \in Logins, CountFailures(l)
  PROVE  LoginInv'
<1> USE DEF LoginInv
<1> DEFINE call == [pc |-> "check", count |-> Cardinality(Recent),
                    lastFail |-> Max({0} \cup {failures[i] : i \in Recent})]
<1>1. loginCalls' = [loginCalls EXCEPT ![l] = call] /\ UNCHANGED <<failures, loginTime>>
  BY DEF CountFailures, LoginGo
<1>2. LoginTypes'
  BY <1>1, RecentCounted DEF LoginTypes
<1>3. InOrder'
  BY <1>1 DEF InOrder
<1>4. ASSUME NEW n \in DOMAIN failures, NEW j \in 1..n, NEW m \in Unaware(j, n)'
      PROVE  m \in Unaware(j, n)
  <2>1. m \in Logins /\ loginTime - failures[j] < Window
    BY <1>1, <1>4 DEF Unaware
  <2>2. CASE m = l
    <3>1. loginCalls'[l] = call
      BY <1>1 DEF LoginTypes
    <3>2. Knows(m, j, n)'
      BY <1>1, <2>1, <2>2, <3>1, RecentCounted DEF Knows
    <3> QED
      BY <1>4, <3>2 DEF Unaware
  <2>3. CASE m # l
    <3>1. loginCalls'[m] = loginCalls[m]
      BY <1>1, <2>1, <2>3 DEF LoginTypes
    <3>2. Knows(m, j, n)' <=> Knows(m, j, n)
      BY <1>1, <3>1 DEF Knows
    <3> QED
      BY <1>1, <1>4, <3>2 DEF Unaware
  <2> QED
    BY <2>2, <2>3
<1>5. FewEarly'
  BY <1>1, <1>4, NoMoreUnaware
<1> QED
  BY <1>2, <1>3, <1>5

LEMMA CheckLogin ==
  ASSUME LoginInv, NEW l \in Logins, Check(l)
  PROVE  LoginInv'
<1> USE DEF LoginInv
<1>1. UNCHANGED <<failures, loginTime>> /\ loginCalls[l].pc = "check"
  BY DEF Check
<1>2. PICK stage \in {"idle", "recordFailure", "recordSuccess"} :
         /\ loginCalls' = [loginCalls EXCEPT ![l] = [NoLogin EXCEPT !.pc = stage]]
         /\ stage = "recordFailure" => ~Locked(loginCalls[l])
  <2>1. CASE LoginGo(l, NoLogin)
    <3>1. NoLogin = [NoLogin EXCEPT !.pc = "idle"]
      BY DEF NoLogin
    <3> QED
      BY <2>1, <3>1 DEF LoginGo
  <2>2. CASE ~Locked(loginCalls[l]) /\ \E stage \in {"recordFailure", "recordSuccess"} :
               LoginGo(l, [NoLogin EXCEPT !.pc = stage])
    BY <2>2 DEF LoginGo
  <2> QED
    BY <2>1, <2>2 DEF Check
<1>3. loginCalls'[l].pc = stage /\ \A m \in Logins \ {l} : loginCalls'[m] = loginCalls[m]
  BY <1>2 DEF LoginTypes, NoLogin
<1>4. LoginTypes'
  BY <1>1, <1>2 DEF LoginTypes, NoLogin
<1>5. InOrder'
  BY <1>1 DEF InOrder
<1>6. ASSUME NEW n \in DOMAIN failures, NEW j \in 1..n, Knows(l, j, n)
      PROVE  Knows(l, j, n)'
  <2>1. CASE stage # "recordFailure"
    BY <1>3, <2>1 DEF Knows
  <2>2. CASE stage = "recordFailure"
    <3>1. PICK c \in Nat, f \in Nat : c = loginCalls[l].count /\ f = loginCalls[l].lastFail
      BY DEF LoginTypes
    <3>2. c >= n - j + 1 /\ f >= failures[n]
      BY <1>1, <1>6, <3>1 DEF Knows
    <3>3. ~(Backoff(c) > 0 /\ loginTime - f < Backoff(c))
      BY <1>2, <2>2, <3>1 DEF Locked
    <3>4. n \in Int /\ j \in Int /\ n - j + 1 \in Int /\ failures[n] \in Nat /\ loginTime \in Nat
      BY DEF LoginTypes
    <3>5. Backoff(n - j + 1) \in Nat /\ Backoff(c) \in Nat /\ Backoff(n - j + 1) <= Backoff(c)
      <4>1. n - j + 1 <= c
        BY <3>2, <3>4
      <4> QED
        BY <3>4, <4>1, BackoffGrows
    <3>6. failures[n] <= loginTime
      BY DEF InOrder
    <3>7. loginTime - failures[n] >= Backoff(n - j + 1)
      BY <3>1, <3>2, <3>3, <3>4, <3>5, <3>6
    <3> QED
      BY <1>1, <1>3, <2>2, <3>7 DEF Knows
  <2> QED
    BY <2>1, <2>2
<1>7. ASSUME NEW n \in DOMAIN failures, NEW j \in 1..n, NEW m \in Unaware(j, n)'
      PROVE  m \in Unaware(j, n)
  <2>1. m \in Logins /\ loginTime - failures[j] < Window /\ ~Knows(m, j, n)'
    BY <1>1, <1>7 DEF Unaware
  <2>2. CASE m = l
    BY <1>6, <2>1, <2>2 DEF Unaware
  <2>3. CASE m # l
    <3>1. loginCalls'[m] = loginCalls[m]
      BY <1>3, <2>1, <2>3
    <3>2. Knows(m, j, n)' <=> Knows(m, j, n)
      BY <1>1, <3>1 DEF Knows
    <3> QED
      BY <2>1, <3>2 DEF Unaware
  <2> QED
    BY <2>2, <2>3
<1>8. FewEarly'
  BY <1>1, <1>7, NoMoreUnaware
<1> QED
  BY <1>4, <1>5, <1>8

\* A call that returns knows whatever it may.
LEMMA CallReturns ==
  ASSUME LoginTypes, NEW l \in Logins, LoginGo(l, NoLogin), UNCHANGED loginTime,
         NEW n \in DOMAIN failures, NEW j \in 1..n,
         failures'[n] = failures[n], failures'[j] = failures[j]
  PROVE  Unaware(j, n)' \subseteq Unaware(j, n) \ {l}
<1> SUFFICES ASSUME NEW m \in Unaware(j, n)'
             PROVE  m \in Unaware(j, n) /\ m # l
  OBVIOUS
<1>1. m \in Logins /\ loginTime - failures[j] < Window /\ ~Knows(m, j, n)'
  BY DEF Unaware
<1>2. loginCalls' = [loginCalls EXCEPT ![l] = NoLogin]
  BY DEF LoginGo
<1>3. m # l
  <2> SUFFICES ASSUME m = l
               PROVE  FALSE
    OBVIOUS
  <2>1. loginCalls'[m].pc = "idle"
    BY <1>2 DEF LoginTypes, NoLogin
  <2> QED
    BY <1>1, <2>1 DEF Knows
<1>4. loginCalls'[m] = loginCalls[m]
  BY <1>1, <1>2, <1>3 DEF LoginTypes
<1>5. Knows(m, j, n)' <=> Knows(m, j, n)
  BY <1>4 DEF Knows
<1> QED
  BY <1>1, <1>3, <1>5 DEF Unaware

LEMMA RecordFailureLogin ==
  ASSUME LoginInv, NEW l \in Logins, RecordFailure(l)
  PROVE  LoginInv'
<1> USE DEF LoginInv
<1>1. /\ loginCalls[l].pc = "recordFailure" /\ LoginGo(l, NoLogin) /\ UNCHANGED loginTime
      /\ failures' \in {failures, Append(failures, loginTime)}
  BY DEF RecordFailure
<1>2. PICK last \in Nat : last = Len(failures) /\ DOMAIN failures = 1..last
  BY DEF LoginTypes
<1>3. CASE failures' = failures
  <2>1. LoginTypes'
    BY <1>1, <1>3 DEF LoginTypes, LoginGo, NoLogin
  <2>2. InOrder'
    BY <1>1, <1>3 DEF InOrder
  <2>3. \A n \in DOMAIN failures : \A j \in 1..n : Unaware(j, n)' \subseteq Unaware(j, n)
    BY <1>1, <1>3, CallReturns
  <2> QED
    BY <1>3, <2>1, <2>2, <2>3, NoMoreUnaware
<1>4. CASE failures' = Append(failures, loginTime)
  <2>1. /\ failures' \in Seq(Nat) /\ Len(failures') = last + 1 /\ DOMAIN failures' = 1..(last + 1)
        /\ failures'[last + 1] = loginTime /\ \A i \in 1..last : failures'[i] = failures[i]
    BY <1>2, <1>4 DEF LoginTypes
  <2>2. LoginTypes'
    BY <1>1, <2>1 DEF LoginTypes, LoginGo, NoLogin
  <2>3. InOrder'
    <3> SUFFICES ASSUME NEW i \in 1..(last + 1)
                 PROVE  failures'[i] <= loginTime /\ \A j \in 1..i : failures'[j] <= failures'[i]
      BY <1>1, <2>1 DEF InOrder
    <3>1. CASE i = last + 1
      <4>1. \A j \in 1..last : failures'[j] <= loginTime
        BY <1>2, <2>1 DEF InOrder
      <4>2. \A j \in 1..i : j \in 1..last \/ j = last + 1
        BY <3>1
      <4>3. failures'[i] = loginTime /\ loginTime \in Nat
        BY <2>1, <3>1 DEF LoginTypes
      <4>4. \A j \in 1..i : failures'[j] <= loginTime
        BY <2>1, <4>1, <4>2, <4>3
      <4> QED
        BY <4>3, <4>4
    <3>2. CASE i # last + 1
      <4>1. i \in 1..last /\ \A j \in 1..i : j \in 1..last
        BY <3>2
      <4> QED
        BY <1>2, <2>1, <4>1 DEF InOrder
    <3> QED
      BY <3>1, <3>2
  <2>4. ASSUME NEW n \in 1..(last + 1), NEW j \in 1..n, NEW i \in n..(last + 1), Early(i, j, n)'
        PROVE  i - n + Cardinality(Unaware(j, n)') < Cardinality(Logins)
    <3>1. PICK W \in SUBSET Logins : W = Unaware(j, n)'
      BY DEF Unaware
    <3>2. Cardinality(W) \in Nat /\ Cardinality(Logins) \in Nat
      BY SomeUnaware
    <3>3. CASE n = last + 1
      <4>1. l \notin W
        <5>1. loginCalls'[l].pc = "idle"
          BY <1>1 DEF LoginGo, LoginTypes, NoLogin
        <5> QED
          BY <3>1, <5>1 DEF Unaware, Knows
      <4>2. W \in SUBSET (Logins \ {l}) /\ Logins \ {l} \in SUBSET Logins /\ Logins \in SUBSET Logins
        BY <4>1
      <4>3. Cardinality(Logins \ {l}) = Cardinality(Logins) - 1
        BY <4>2, SomeUnaware
      <4>4. Cardinality(W) <= Cardinality(Logins \ {l})
        BY <4>2, SomeUnaware
      <4>5. i - n = 0
        BY <3>3
      <4> QED
        BY <3>1, <3>2, <4>3, <4>4, <4>5
    <3>4. CASE n # last + 1
      <4>1. n \in 1..last /\ j \in 1..last /\ n \in DOMAIN failures
        BY <1>2, <3>4
      <4>2. PICK U \in SUBSET Logins : U = Unaware(j, n)
        BY DEF Unaware
      <4>3. W \in SUBSET U /\ l \notin W
        BY <1>1, <2>1, <3>1, <4>1, <4>2, CallReturns
      <4>4. /\ Cardinality(U) \in Nat /\ Cardinality(W) <= Cardinality(U)
            /\ l \in U => Cardinality(W) <= Cardinality(U) - 1
        <5>1. Cardinality(U) \in Nat /\ Cardinality(W) <= Cardinality(U)
          BY <4>3, SomeUnaware
        <5>2. ASSUME l \in U
              PROVE  Cardinality(W) <= Cardinality(U) - 1
          <6>1. W \in SUBSET (U \ {l}) /\ U \ {l} \in SUBSET Logins
            BY <4>3
          <6>2. Cardinality(W) <= Cardinality(U \ {l})
            BY <6>1, SomeUnaware
          <6>3. Cardinality(U \ {l}) = Cardinality(U) - 1
            BY <5>2, SomeUnaware
          <6> QED
            BY <6>2, <6>3
        <5> QED
          BY <5>1, <5>2
      <4>5. CASE i # last + 1
        <5>1. i \in n..Len(failures) /\ i \in 1..last
          BY <1>2, <4>1, <4>5
        <5>2. Early(i, j, n)
          BY <2>1, <2>4, <4>1, <5>1 DEF Early
        <5>3. i - n + Cardinality(U) < Cardinality(Logins)
          BY <4>1, <4>2, <5>1, <5>2 DEF FewEarly
        <5> QED
          BY <3>1, <3>2, <4>4, <5>3
      <4>6. CASE i = last + 1
        <5>1. loginTime - failures[j] < Window /\ loginTime - failures[n] < Backoff(n - j + 1)
          BY <2>1, <2>4, <3>4, <4>1, <4>6 DEF Early
        <5>2. PICK b \in Nat : b = Backoff(n - j + 1)
          <6>1. n - j + 1 \in Int /\ n - j + 1 <= n - j + 1
            BY <4>1
          <6> QED
            BY <6>1, BackoffGrows
        <5>3. l \in U
          <6>1. ~Knows(l, j, n)
            <7>1. ~(loginTime - failures[n] >= b)
              <8>1. loginTime \in Nat /\ failures[n] \in Nat
                BY <4>1 DEF LoginTypes
              <8> QED
                BY <5>1, <5>2, <8>1
            <7> QED
              BY <1>1, <5>2, <7>1 DEF Knows
          <6> QED
            BY <4>2, <5>1, <6>1 DEF Unaware
        <5>4. Early(last, j, n)
          <6>1. last \in DOMAIN failures /\ failures[last] <= loginTime /\ n \in 1..last
            BY <1>2, <4>1 DEF InOrder
          <6>2. failures[last] \in Nat /\ failures[j] \in Nat /\ failures[n] \in Nat /\ loginTime \in Nat
            BY <1>2, <4>1, <6>1 DEF LoginTypes
          <6>3. Window \in Nat
            BY LockoutBounds
          <6>4. failures[last] - failures[j] < Window /\ failures[last] - failures[n] < b
            BY <5>1, <5>2, <6>1, <6>2, <6>3
          <6> QED
            BY <5>2, <6>4 DEF Early
        <5>5. last \in n..Len(failures)
          BY <1>2, <4>1
        <5>6. last - n + Cardinality(U) < Cardinality(Logins)
          BY <4>1, <4>2, <5>4, <5>5 DEF FewEarly
        <5> QED
          BY <3>1, <3>2, <4>1, <4>4, <4>6, <5>3, <5>6
      <4> QED
        BY <4>5, <4>6
    <3> QED
      BY <3>3, <3>4
  <2>5. FewEarly'
    BY <2>1, <2>4 DEF FewEarly
  <2> QED
    BY <2>2, <2>3, <2>5
<1> QED
  BY <1>1, <1>3, <1>4

LEMMA RecordSuccessLogin ==
  ASSUME LoginInv, NEW l \in Logins, RecordSuccess(l)
  PROVE  LoginInv'
<1> USE DEF LoginInv
<1>1. /\ LoginGo(l, NoLogin) /\ UNCHANGED loginTime
      /\ failures' = failures \/ failures' = <<>>
  BY DEF RecordSuccess
<1>2. LoginTypes'
  <2>1. failures' \in Seq(Nat)
    <3>1. <<>> \in Seq(Nat) /\ failures \in Seq(Nat)
      BY DEF LoginTypes
    <3> QED
      BY <1>1, <3>1
  <2>2. loginCalls' = [loginCalls EXCEPT ![l] = NoLogin]
    BY <1>1 DEF LoginGo
  <2> QED
    BY <1>1, <2>1, <2>2 DEF LoginTypes, NoLogin
<1>3. CASE failures' = failures
  <2>1. InOrder'
    BY <1>1, <1>3 DEF InOrder
  <2>2. \A n \in DOMAIN failures : \A j \in 1..n : Unaware(j, n)' \subseteq Unaware(j, n)
    BY <1>1, <1>3, CallReturns
  <2> QED
    BY <1>2, <1>3, <2>1, <2>2, NoMoreUnaware
<1>4. CASE failures' = <<>>
  <2>1. DOMAIN failures' = {}
    BY <1>4
  <2> QED
    BY <1>2, <2>1 DEF InOrder, FewEarly
<1> QED
  BY <1>1, <1>3, <1>4

\* The failures that are left have the ones after them that they had.
LEMMA DeleteOldLogin ==
  ASSUME LoginInv, DeleteOld
  PROVE  LoginInv'
<1> USE DEF LoginInv
<1>1. PICK k \in DOMAIN failures : failures' = SubSeq(failures, k + 1, Len(failures))
  BY DEF DeleteOld
<1>2. UNCHANGED <<loginCalls, loginTime>>
  BY DEF DeleteOld
<1>3. PICK last \in Nat : last = Len(failures) /\ DOMAIN failures = 1..last
  BY DEF LoginTypes
<1>4. k \in 1..last
  BY <1>1, <1>3
<1>5. /\ failures' \in Seq(Nat) /\ Len(failures') = last - k /\ DOMAIN failures' = 1..(last - k)
      /\ \A i \in 1..(last - k) : failures'[i] = failures[i + k] /\ i + k \in 1..last
  <2>1. \A i \in (k + 1)..last : failures[i] \in Nat
    BY <1>3, <1>4 DEF LoginTypes
  <2>2. /\ SubSeq(failures, k + 1, last) \in Seq(Nat)
        /\ Len(SubSeq(failures, k + 1, last)) = IF k + 1 <= last THEN last - (k + 1) + 1 ELSE 0
        /\ \A i \in 1..(last - (k + 1) + 1) : SubSeq(failures, k + 1, last)[i] = failures[k + 1 + i - 1]
    BY <1>4, <2>1, SubSeqProperties
  <2> HIDE DEF LoginInv
  <2>3. failures' \in Seq(Nat) /\ Len(failures') = last - k
    BY <1>1, <1>3, <1>4, <2>2
  <2>4. DOMAIN failures' = 1..(last - k)
    BY <2>3
  <2>5. \A i \in 1..(last - k) : failures'[i] = failures[i + k] /\ i + k \in 1..last
    <3> SUFFICES ASSUME NEW i \in 1..(last - k)
                 PROVE  failures'[i] = failures[i + k] /\ i + k \in 1..last
      OBVIOUS
    <3>1. k + 1 + i - 1 = i + k /\ i \in 1..(last - (k + 1) + 1) /\ i + k \in 1..last
      BY <1>4
    <3> QED
      BY <1>1, <1>3, <2>2, <3>1
  <2> QED
    BY <2>3, <2>4, <2>5
<1>6. LoginTypes'
  BY <1>2, <1>5 DEF LoginTypes
<1>7. InOrder'
  <2> SUFFICES ASSUME NEW i \in 1..(last - k)
               PROVE  failures'[i] <= loginTime /\ \A j \in 1..i : failures'[j] <= failures'[i]
    BY <1>2, <1>5 DEF InOrder
  <2>1. \A j \in 1..i : j \in 1..(last - k) /\ j + k \in 1..(i + k)
    BY <1>4
  <2> QED
    BY <1>3, <1>5, <2>1 DEF InOrder
<1>8. ASSUME NEW n \in 1..(last - k), NEW j \in 1..n, NEW i \in n..(last - k), Early(i, j, n)'
      PROVE  i - n + Cardinality(Unaware(j, n)') < Cardinality(Logins)
  <2>1. /\ n + k \in DOMAIN failures /\ j + k \in 1..(n + k) /\ i + k \in (n + k)..Len(failures)
        /\ j \in 1..(last - k) /\ i \in 1..(last - k)
    BY <1>3, <1>4
  <2>2. (n + k) - (j + k) + 1 = n - j + 1 /\ (i + k) - (n + k) = i - n /\ (i = n => i + k = n + k)
    BY <1>3, <1>4
  <2>3. failures'[n] = failures[n + k] /\ failures'[j] = failures[j + k] /\ failures'[i] = failures[i + k]
    BY <1>5, <2>1
  <2>4. Early(i + k, j + k, n + k)
    BY <1>8, <2>2, <2>3 DEF Early
  <2>5. \A l \in Logins : Knows(l, j, n)' <=> Knows(l, j + k, n + k)
    BY <1>2, <2>2, <2>3 DEF Knows
  <2>6. Unaware(j, n)' = Unaware(j + k, n + k)
    BY <1>2, <2>3, <2>5 DEF Unaware
  <2>7. (i + k) - (n + k) + Cardinality(Unaware(j + k, n + k)) < Cardinality(Logins)
    BY <2>1, <2>4 DEF FewEarly
  <2> QED
    BY <2>2, <2>6, <2>7
<1>9. FewEarly'
  BY <1>5, <1>8 DEF FewEarly
<1> QED
  BY <1>6, <1>7, <1>9

LEMMA LoginTickLogin ==
  ASSUME LoginInv, LoginTick
  PROVE  LoginInv'
<1> USE DEF LoginInv
<1>1. UNCHANGED <<failures, loginCalls>> /\ loginTime' = loginTime + 1 /\ loginTime \in Nat
  BY DEF LoginTick, LoginTypes
<1>2. LoginTypes'
  BY <1>1 DEF LoginTypes
<1>3. \A i \in DOMAIN failures : failures[i] \in Nat
  BY DEF LoginTypes
<1>4. InOrder'
  BY <1>1, <1>3 DEF InOrder
<1>5. ASSUME NEW n \in DOMAIN failures, NEW j \in 1..n, NEW l \in Unaware(j, n)'
      PROVE  l \in Unaware(j, n)
  <2>1. PICK b \in Nat : b = Backoff(n - j + 1)
    <3>1. n - j + 1 \in Int /\ n - j + 1 <= n - j + 1
      BY DEF LoginTypes
    <3> QED
      BY <3>1, BackoffGrows
  <2>2. j \in DOMAIN failures
    BY DEF LoginTypes
  <2>3. Window \in Nat
    BY LockoutBounds
  <2>4. PICK now \in Nat : now = loginTime'
    BY <1>1
  <2>5. l \in Logins /\ now - failures[j] < Window /\ ~Knows(l, j, n)'
    BY <1>1, <1>5, <2>4 DEF Unaware
  <2>6. loginTime - failures[j] < Window
    BY <1>1, <1>3, <2>2, <2>3, <2>4, <2>5
  <2>7. loginTime - failures[n] >= b => now - failures[n] >= b
    BY <1>1, <1>3, <2>4
  <2>8. ASSUME Knows(l, j, n)
        PROVE  Knows(l, j, n)'
    <3>1. loginCalls'[l] = loginCalls[l] /\ failures' = failures
      BY <1>1
    <3>2. loginCalls[l].pc = "recordFailure" => now - failures[n] >= Backoff(n - j + 1)
      BY <2>1, <2>7, <2>8 DEF Knows
    <3>3. loginCalls[l].pc = "check" =>
            loginCalls[l].count >= n - j + 1 /\ loginCalls[l].lastFail >= failures[n]
      BY <2>8 DEF Knows
    <3> QED
      BY ONLY <2>4, <3>1, <3>2, <3>3 DEF Knows
  <2> QED
    BY <2>5, <2>6, <2>8 DEF Unaware
<1>6. FewEarly'
  BY <1>1, <1>5, NoMoreUnaware
<1> QED
  BY <1>2, <1>4, <1>6

LEMMA NextLoginInv ==
  LoginInv /\ [LoginNext]_loginVars => LoginInv'
<1> SUFFICES ASSUME LoginInv, [LoginNext]_loginVars
             PROVE  LoginInv'
  OBVIOUS
<1>1. ASSUME NEW l \in Logins, CountFailures(l) \/ Check(l) \/ RecordFailure(l) \/ RecordSuccess(l)
      PROVE  LoginInv'
  BY <1>1, CountFailuresLogin, CheckLogin, RecordFailureLogin, RecordSuccessLogin
<1>2. CASE UNCHANGED loginVars
  <2>1. UNCHANGED <<failures, loginCalls, loginTime>>
    BY <1>2 DEF loginVars
  <2>2. LoginTypes' /\ InOrder'
    BY <2>1 DEF LoginInv, LoginTypes, InOrder
  <2>3. \A n \in DOMAIN failures : \A j \in 1..n : Unaware(j, n)' \subseteq Unaware(j, n)
    BY <2>1 DEF Unaware, Knows
  <2> QED
    BY <2>1, <2>2, <2>3, NoMoreUnaware DEF LoginInv
<1> QED
  BY <1>1, <1>2, DeleteOldLogin, LoginTickLogin DEF LoginNext

LEMMA InvGuessingSlow == LoginInv => GuessingSlow
<1> SUFFICES ASSUME LoginInv
             PROVE  GuessingSlow
  OBVIOUS
<1> USE DEF LoginInv
<1> DEFINE flight == Cardinality(Logins)
           locked(k) == Min({BaseBackoff * 2 ^ Min({k - Threshold, 16}), MaxBackoff})
<1>1. PICK last \in Nat : last = Len(failures) /\ DOMAIN failures = 1..last
  BY DEF LoginTypes
<1>2. flight \in Nat
  BY SomeUnaware
<1>3. Threshold \in Nat \ {0}
  BY LockoutBounds
<1>4. ASSUME NEW k \in Threshold..last
      PROVE  Backoff(k) = locked(k)
  <2>1. ~(k < Threshold)
    BY <1>3
  <2> QED
    BY ONLY <2>1 DEF Backoff
<1> HIDE DEF locked
<1>5. ASSUME NEW first \in 1..last, NEW k \in Threshold..last,
             first + k - 1 + flight \in 1..last,
             failures[first + k - 1 + flight] - failures[first] < Window
      PROVE  failures[first + k - 1 + flight] - failures[first + k - 1] >= locked(k)
  <2>1. PICK n \in Nat : n = first + k - 1
    BY <1>3
  <2>2. PICK later \in 1..last : later = n + flight
    BY <1>5, <2>1
  <2>3. n \in 1..last /\ first \in 1..n /\ later \in n..Len(failures) /\ n - first + 1 = k
    BY <1>1, <1>2, <1>3, <2>1, <2>2
  <2>4. Cardinality(Unaware(first, n)) \in Nat
    <3>1. Unaware(first, n) \in SUBSET Logins
      BY DEF Unaware
    <3> QED
      BY <3>1, SomeUnaware
  <2>5. ~Early(later, first, n)
    <3> SUFFICES ASSUME Early(later, first, n)
                 PROVE  FALSE
      OBVIOUS
    <3>1. later - n + Cardinality(Unaware(first, n)) < Cardinality(Logins)
      BY <1>1, <2>3 DEF FewEarly
    <3> QED
      BY <1>2, <2>2, <2>4, <3>1
  <2>6. ~(failures[later] - failures[n] < Backoff(k))
    BY <1>5, <2>1, <2>2, <2>3, <2>5 DEF Early
  <2>7. PICK b \in Nat : b = Backoff(k)
    <3>1. k \in Int /\ k <= k
      BY <1>3
    <3> QED
      BY <3>1, BackoffGrows
  <2>8. failures[later] \in Nat /\ failures[n] \in Nat
    BY <1>1, <2>3 DEF LoginTypes
  <2>9. failures[later] - failures[n] >= b
    BY <2>6, <2>7, <2>8
  <2> QED
    BY <1>4, <2>1, <2>2, <2>7, <2>9
<1> QED
  BY <1>1, <1>5 DEF GuessingSlow, locked

\* Guessing is slow: however many logins of one name Authenticate serves at the
\* same time, in every window the failure that follows the k-th by as many as
\* run at once comes no sooner than the backoff for k failures.
THEOREM GuessesAreSlow == LoginSpec => []GuessingSlow
<1>1. LoginInv /\ [LoginNext]_loginVars => LoginInv'
  BY NextLoginInv
<1> QED
  BY InitLoginInv, <1>1, InvGuessingSlow, PTL DEF LoginSpec
=============================================================================
