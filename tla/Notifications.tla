---------------------------- MODULE Notifications ----------------------------
(***************************************************************************)
(* The notifications of one account.  Whoever changes them reads the       *)
(* number of unread ones in a second statement, and publishes it in a      *)
(* third step to the streams that are subscribed.  A channel holds a few   *)
(* events, and Publish drops what does not fit.  A stream subscribes       *)
(* first and then publishes the count, so that nothing falls in between.   *)
(***************************************************************************)
EXTENDS Integers, Sequences, FiniteSets

CONSTANTS
  Streams,          \* SSE connections that the pages of the account open
  Publishers,       \* concurrent calls of Emit, MarkRead and MarkAllRead
  ChannelSize,      \* the buffer of a subscription
  NoteRequests, NoteFaults  \* bounds

ASSUME NoteBounds == ChannelSize \in Nat \ {0} /\ {NoteRequests, NoteFaults} \subseteq Nat

VARIABLES
  notes,     \* cp_notification: "unread" or "read", in the order of their ids, or "pruned"
  subs,      \* the channels of the Broadcaster, by stream
  shown,     \* the count that each stream has written last, or Nothing
  streamPc,  \* the streams
  noteCalls, \* the publishers, and each stream as one: pc, the count that was read,
             \* and whether the notifications have changed since (a ghost)
  off,       \* ghost: the streams that missed the last change
  noteCount, noteFaults

noteVars == <<notes, subs, shown, streamPc, noteCalls, off, noteCount, noteFaults>>

Nothing == -1
NoteActors == Publishers \cup Streams
NoNoteCall == [pc |-> "idle", unread |-> 0, old |-> FALSE]
Unread == Cardinality({n \in DOMAIN notes : notes[n] = "unread"})

NoteInit ==
  /\ notes = <<>> /\ subs = <<>> /\ shown = [s \in Streams |-> Nothing]
  /\ streamPc = [s \in Streams |-> "closed"]
  /\ noteCalls = [a \in NoteActors |-> NoNoteCall]
  /\ off = {} /\ noteCount = 0 /\ noteFaults = 0

NoteGo(calls, a, pc, unread) == noteCalls' = [calls EXCEPT ![a] = [pc |-> pc, unread |-> unread, old |-> FALSE]]
Outdated == [a \in NoteActors |-> [noteCalls[a] EXCEPT !.old = (noteCalls[a].pc = "publish")]]
NoteStop(a) == noteCalls' = [noteCalls EXCEPT ![a] = NoNoteCall]

-----------------------------------------------------------------------------
(* Emit, MarkRead, MarkAllRead, Prune                                      *)

CountsFirst(p) == NoteGo(Outdated, p, "publish", Unread)  \* mutant: the count is read before the change
CountsNext(p) == NoteGo(Outdated, p, "count", 0)

\* Create; MarkRead, which also publishes when there was nothing to mark; and
\* MarkAllRead
Change(p) ==
  /\ noteCalls[p].pc = "idle" /\ noteCount < NoteRequests /\ noteCount' = noteCount + 1
  /\ \/ notes' = Append(notes, "unread")
     \/ \E n \in DOMAIN notes : notes' = [notes EXCEPT ![n] = IF @ = "unread" THEN "read" ELSE @]
     \/ notes' = [n \in DOMAIN notes |-> IF notes[n] = "unread" THEN "read" ELSE notes[n]]
  /\ CountsNext(p)
  /\ UNCHANGED <<subs, shown, streamPc, off, noteFaults>>

\* The rows go without a word to the streams.
Prune ==
  \E n \in DOMAIN notes :
    /\ noteCount < NoteRequests /\ noteCount' = noteCount + 1
    /\ \A m \in 1..n : notes[m] # "pruned"
    /\ notes' = [m \in DOMAIN notes |-> IF m <= n THEN "pruned" ELSE notes[m]]
    /\ off' = DOMAIN subs /\ noteCalls' = Outdated
    /\ UNCHANGED <<subs, shown, streamPc, noteFaults>>

\* UnreadCount, which may fail: the call returns, or PublishUnread logs
CountUnread(a) ==
  /\ noteCalls[a].pc = "count"
  /\ \/ NoteGo(noteCalls, a, "publish", Unread) /\ UNCHANGED <<off, noteFaults>>
     \/ /\ noteFaults < NoteFaults /\ noteFaults' = noteFaults + 1
        /\ NoteStop(a) /\ off' = DOMAIN subs
  /\ UNCHANGED <<notes, subs, shown, streamPc, noteCount>>

Fits(s) == Len(subs[s]) < ChannelSize

\* Publish, to every channel with room
Publish(a) ==
  LET unread == noteCalls[a].unread
  IN /\ noteCalls[a].pc = "publish"
     /\ subs' = [s \in DOMAIN subs |-> IF Fits(s) THEN Append(subs[s], unread) ELSE subs[s]]
     /\ off' = IF noteCalls[a].old THEN DOMAIN subs ELSE {s \in DOMAIN subs : ~Fits(s)}
     /\ NoteStop(a)
     /\ UNCHANGED <<notes, shown, streamPc, noteCount, noteFaults>>

-----------------------------------------------------------------------------
(* The stream                                                              *)

\* Subscribe, and then PublishUnread, which tells every stream
OpenStream(s) ==
  /\ streamPc[s] = "closed" /\ noteCount < NoteRequests /\ noteCount' = noteCount + 1
  /\ subs' = [t \in DOMAIN subs \cup {s} |-> IF t = s THEN <<>> ELSE subs[t]]
  /\ NoteGo(noteCalls, s, "count", 0) /\ streamPc' = [streamPc EXCEPT ![s] = "hello"]
  /\ UNCHANGED <<notes, shown, off, noteFaults>>

\* PublishUnread has returned: the loop starts.
Listen(s) ==
  /\ streamPc[s] = "hello" /\ noteCalls[s].pc = "idle"
  /\ streamPc' = [streamPc EXCEPT ![s] = "open"]
  /\ UNCHANGED <<notes, subs, shown, noteCalls, off, noteCount, noteFaults>>

Deliver(s) ==
  /\ streamPc[s] = "open" /\ subs[s] # <<>>
  /\ shown' = [shown EXCEPT ![s] = Head(subs[s])]
  /\ subs' = [subs EXCEPT ![s] = Tail(@)]
  /\ UNCHANGED <<notes, streamPc, noteCalls, off, noteCount, noteFaults>>

\* The page goes away: the deferred unsubscribe.
CloseStream(s) ==
  /\ streamPc[s] = "open"
  /\ streamPc' = [streamPc EXCEPT ![s] = "closed"] /\ shown' = [shown EXCEPT ![s] = Nothing]
  /\ subs' = [t \in DOMAIN subs \ {s} |-> subs[t]] /\ off' = off \ {s}
  /\ UNCHANGED <<notes, noteCalls, noteCount, noteFaults>>

NoteNext ==
  \/ \E p \in Publishers : Change(p)
  \/ \E a \in NoteActors : CountUnread(a) \/ Publish(a)
  \/ \E s \in Streams : OpenStream(s) \/ Listen(s) \/ Deliver(s) \/ CloseStream(s)
  \/ Prune

-----------------------------------------------------------------------------
(* Properties                                                              *)

\* The badge is right: when no call is under way and a stream has written what
\* it was sent, it shows the number of unread notifications, however its
\* subscription fell between the statements of others.  The exceptions are a
\* stream whose channel was full, a change that nobody announced (a prune, a
\* failed count), and a last announcement that another change had made old
\* before it was made.
BadgeCurrent ==
  (\A a \in NoteActors : noteCalls[a].pc = "idle")
    => \A s \in Streams \ off : streamPc[s] = "open" /\ subs[s] = <<>> => shown[s] = Unread
=============================================================================
