------------------------------ MODULE RateLimit ------------------------------
(***************************************************************************)
(* The rate limiter: a map from keys to token buckets and a doubly linked  *)
(* list of the same entries, most recently seen first, from whose tail the *)
(* limiter evicts when the map is full and collects what was idle.  Map    *)
(* and list change under the mutex.  A request takes its entry under it    *)
(* and uses the bucket after it was released, so that the entry may have   *)
(* left the map by then.                                                   *)
(*                                                                         *)
(* Tokens are counted in units: a request costs Cost of them, and a tick   *)
(* of the clock brings one.                                                *)
(***************************************************************************)
LOCAL INSTANCE Integers
LOCAL INSTANCE FiniteSets
LOCAL INSTANCE SequencesExt
LOCAL INSTANCE FiniteSetsExt

CONSTANTS
  LimitKeys,           \* the callers: users, or addresses
  LimitHandlers,       \* concurrent requests
  MaxEntries,          \* defaultMaxEntries
  Burst, Cost,         \* the rule
  Idle,                \* defaultIdle
  Stall,               \* how long a request may take after its entry was last seen
  LimitRequests, LimitClock  \* bounds

\* A bucket that is collected would be full again by then.
ASSUME LimitBounds ==
  /\ {MaxEntries, Burst, Cost} \subseteq Nat \ {0} /\ {Stall, LimitRequests, LimitClock} \subseteq Nat
  /\ Idle \in Nat /\ Idle - Stall >= Burst * Cost

Nil == 0
Pointers == 1..(MaxEntries + Cardinality(LimitHandlers))

VARIABLES
  limiter,   \* buckets, head, tail, and the entries by their pointer
  calls,     \* the requests in progress
  admitted,  \* of each key, the requests that were let through
  evicted,   \* the keys that a full map has pushed out
  limitTime, limitCount

limitVars == <<limiter, calls, admitted, evicted, limitTime, limitCount>>

NoEntry == [key |-> Nil, prev |-> Nil, next |-> Nil, lastSeen |-> 0, tokens |-> 0, last |-> 0, lastEvent |-> 0]
NoCall == [pc |-> "idle", entry |-> Nil, timeToAct |-> 0]

LimitInit ==
  /\ limiter = [buckets |-> [k \in LimitKeys |-> Nil], head |-> Nil, tail |-> Nil,
                entry |-> [e \in Pointers |-> NoEntry]]
  /\ calls = [h \in LimitHandlers |-> NoCall]
  /\ admitted = [k \in LimitKeys |-> 0] /\ evicted = {}
  /\ limitTime = 0 /\ limitCount = 0

-----------------------------------------------------------------------------
(* The list                                                                *)

\* writes through a pointer that may be nil
SetPrev(l, e, p) == IF e = Nil THEN l ELSE [l EXCEPT !.entry[e].prev = p]
SetNext(l, e, n) == IF e = Nil THEN l ELSE [l EXCEPT !.entry[e].next = n]

PushFront(l, e) ==
  LET linked == SetPrev(SetNext(SetPrev(l, e, Nil), e, l.head), l.head, e)
  IN [linked EXCEPT !.head = e, !.tail = IF @ = Nil THEN e ELSE @]

UnlinkHead(l, e) ==  \* mutant: the last entry stays the tail
  LET p == l.entry[e].prev  n == l.entry[e].next
  IN [SetNext(SetPrev(SetPrev(SetNext(l, p, n), n, p), e, Nil), e, Nil)
        EXCEPT !.head = IF p = Nil THEN n ELSE @]
Unlink(l, e) ==
  LET p == l.entry[e].prev  n == l.entry[e].next
  IN [SetNext(SetPrev(SetPrev(SetNext(l, p, n), n, p), e, Nil), e, Nil)
        EXCEPT !.head = IF p = Nil THEN n ELSE @, !.tail = IF n = Nil THEN p ELSE @]

MoveToFront(l, e) == IF l.head = e THEN l ELSE PushFront(Unlink(l, e), e)

DropTail(l) == [Unlink(l, l.tail) EXCEPT !.buckets[l.entry[l.tail].key] = Nil]

Live(l) == {l.buckets[k] : k \in LimitKeys} \ {Nil}
Full(l) == Cardinality(Live(l)) >= MaxEntries
EvictOldest(l) == IF l.tail = Nil THEN l ELSE DropTail(l)

-----------------------------------------------------------------------------
(* golang.org/x/time/rate                                                  *)

Capacity == Burst * Cost
Advance(e) == Min({Capacity, e.tokens + (limitTime - e.last)})

NewLimiter(e, k) ==
  [e EXCEPT !.key = k, !.lastSeen = limitTime, !.tokens = Capacity, !.last = limitTime, !.lastEvent = limitTime]

\* Reserve takes the tokens at once, and says when the caller may act.
Reserved(e) ==
  LET left == Advance(e) - Cost
  IN [e EXCEPT !.tokens = left, !.last = limitTime, !.lastEvent = limitTime + Max({0, -left})]

\* Cancel gives back what no later reservation was based on.
Cancelled(e, act) ==
  LET restored == Cost - (e.lastEvent - act)
      previous == act - Cost
  IN IF act < limitTime \/ restored <= 0 THEN e
     ELSE [e EXCEPT !.tokens = Min({Capacity, Advance(e) + restored}), !.last = limitTime,
                    !.lastEvent = IF act = @ /\ previous >= limitTime THEN previous ELSE @]

-----------------------------------------------------------------------------
(* Requests: Middleware, Allow and AllowRequest                            *)

Free == CHOOSE e \in Pointers : e \notin Live(limiter) \cup {calls[h].entry : h \in LimitHandlers}

Bucket(h, k) ==
  LET l == limiter
      room == IF Full(l) THEN EvictOldest(l) ELSE l
      e == IF l.buckets[k] # Nil THEN l.buckets[k] ELSE Free
  IN /\ calls[h].pc = "idle" /\ limitCount < LimitRequests
     /\ limitCount' = limitCount + 1
     /\ limiter' = IF l.buckets[k] # Nil
                   THEN MoveToFront([l EXCEPT !.entry[e].lastSeen = limitTime], e)
                   ELSE PushFront([room EXCEPT !.buckets[k] = e, !.entry[e] = NewLimiter(NoEntry, k)], e)
     /\ evicted' = IF l.buckets[k] = Nil /\ Full(l) THEN evicted \cup {l.entry[l.tail].key} ELSE evicted
     /\ calls' = [calls EXCEPT ![h] = [pc |-> "reserve", entry |-> e, timeToAct |-> 0]]
     /\ UNCHANGED <<admitted, limitTime>>

Reserve(h) ==
  LET e == calls[h].entry
      after == Reserved(limiter.entry[e])
  IN /\ calls[h].pc = "reserve"
     /\ limiter' = [limiter EXCEPT !.entry[e] = after]
     /\ calls' = [calls EXCEPT ![h].pc = "delay", ![h].timeToAct = after.lastEvent]
     /\ UNCHANGED <<admitted, evicted, limitTime, limitCount>>

\* Delay reads the clock again; a request that is refused cancels.
Decide(h) ==
  LET e == calls[h].entry
      act == calls[h].timeToAct
  IN /\ calls[h].pc = "delay"
     /\ \/ /\ act <= limitTime
           /\ admitted' = [admitted EXCEPT ![limiter.entry[e].key] = @ + 1] /\ UNCHANGED limiter
        \/ /\ act > limitTime
           /\ limiter' = [limiter EXCEPT !.entry[e] = Cancelled(@, act)] /\ UNCHANGED admitted
     /\ calls' = [calls EXCEPT ![h] = NoCall]
     /\ UNCHANGED <<evicted, limitTime, limitCount>>

StaleNow(e) == e.lastSeen < limitTime  \* mutant: everything that is not in use is collected
Stale(e) == e.lastSeen < limitTime - Idle

\* The loop ends at the first entry from the tail that is not stale.
Collected(l, i) == IF l.tail # Nil /\ Stale(l.entry[l.tail]) THEN DropTail(l) ELSE l
GcOnce ==
  /\ limiter.tail # Nil /\ Stale(limiter.entry[limiter.tail])
  /\ limiter' = FoldLeft(Collected, limiter, [i \in 1..MaxEntries |-> i])
  /\ UNCHANGED <<calls, admitted, evicted, limitTime, limitCount>>

LimitTick ==
  /\ limitTime < LimitClock /\ limitTime' = limitTime + 1
  /\ \A h \in LimitHandlers :
       calls[h].pc # "idle" => limitTime < limiter.entry[calls[h].entry].lastSeen + Stall
  /\ UNCHANGED <<limiter, calls, admitted, evicted, limitCount>>

LimitNext ==
  \/ \E h \in LimitHandlers :
       \/ \E k \in LimitKeys : Bucket(h, k)
       \/ Reserve(h) \/ Decide(h)
  \/ GcOnce \/ LimitTick

-----------------------------------------------------------------------------
(* Properties                                                              *)

\* The list holds the entries of the map, linked both ways, the most recently
\* seen first, which is what lets gcOnce stop at the first entry that is not
\* idle and eviction take the oldest.
WellLinked ==
  \E order \in SetToSeqs(Live(limiter)) :
    LET At(i) == IF i \in DOMAIN order THEN order[i] ELSE Nil
        n == Cardinality(Live(limiter))
    IN /\ n <= MaxEntries /\ limiter.head = At(1) /\ limiter.tail = At(n)
       /\ \A i \in 1..n : LET e == limiter.entry[At(i)]
                          IN /\ e.prev = At(i - 1) /\ e.next = At(i + 1) /\ limiter.buckets[e.key] = At(i)
                             /\ i < n => e.lastSeen >= limiter.entry[At(i + 1)].lastSeen

\* The limiter does its work: over any run a key is let through no more often
\* than the rule allows, although a reservation that must wait is cancelled
\* while others are made, and idle buckets are thrown away and start full.
\* Only a key that a full map has pushed out may start anew.
RateLimited ==
  /\ WellLinked
  /\ \A k \in LimitKeys \ evicted : admitted[k] * Cost <= Capacity + limitTime
=============================================================================
