------------------------------- MODULE Tickets -------------------------------
(***************************************************************************)
(* Support tickets.  A handler reads the ticket, checks on what it read    *)
(* whether the operation is allowed, and then writes in a transaction that *)
(* does not look at the ticket again; players and staff do so at once.     *)
(***************************************************************************)
EXTENDS Integers, Sequences, FiniteSets, FiniteSetsExt

CONSTANTS
  Players, Staff,
  Categories, Subjects,
  Permits,              \* the categories each member of the staff works on
  Handlers,             \* concurrent requests
  Ops,                  \* the operations that this instance lets happen
  MaxOpenPerPlayer,
  TicketOpenCooldown,
  MaxRequests, MaxClock \* bounds

ASSUME TicketsBounds ==
  /\ MaxOpenPerPlayer \in Nat \ {0} /\ {TicketOpenCooldown, MaxRequests, MaxClock} \subseteq Nat
  /\ Permits \in [Staff -> SUBSET Categories] /\ Players \cap Staff = {}
  /\ "" \notin Staff          \* closed_by is an account id, or NULL
  /\ IsFiniteSet(Handlers)

VARIABLES
  tickets,   \* cp_tickets by id
  messages,  \* cp_ticket_messages of each ticket, in the order of their commits
  views,     \* cp_ticket_views: when a user saw a ticket last
  pc, op,    \* the handlers: the call that is next, and what they know
  clock, requests

dbVars == <<tickets, messages, views>>
vars   == <<dbVars, pc, op, clock, requests>>

Users == Players \cup Staff
NoTicket == [status |-> "none"]
NoOp == [kind |-> "none", user |-> "", id |-> 0, cat |-> "", subj |-> "", read |-> NoTicket, at |-> 0]

Init ==
  /\ tickets = <<>> /\ messages = <<>>
  /\ views = [u \in Users |-> [t \in 1..MaxRequests |-> 0]]
  /\ pc = [h \in Handlers |-> "idle"] /\ op = [h \in Handlers |-> NoOp]
  /\ clock = 1 /\ requests = 0

IsTerminal(t) == t.status \in {"resolved", "closed"}
CanPlayerReply(t) == ~IsTerminal(t) /\ t.actor = "staff"

Stop(h) == pc' = [pc EXCEPT ![h] = "idle"] /\ op' = [op EXCEPT ![h] = NoOp]
Go(h, call, o) == pc' = [pc EXCEPT ![h] = call] /\ op' = [op EXCEPT ![h] = o]

-----------------------------------------------------------------------------
(* OpenTicket                                                              *)

CountOpenForPlayer(u) == Cardinality({t \in DOMAIN tickets : tickets[t].owner = u /\ tickets[t].status = "open"})
MostRecentOpenedAt(u) == Max({0} \cup {tickets[t].created : t \in {s \in DOMAIN tickets : tickets[s].owner = u}})

RoomForTwo(n) == n <= MaxOpenPerPlayer  \* mutant: off by one
Room(n) == n < MaxOpenPerPlayer

\* checkOpenGate's two queries
CheckOpenCount(h) ==
  /\ pc[h] = "count"
  /\ IF Room(CountOpenForPlayer(op[h].user)) THEN Go(h, "recent", op[h]) ELSE Stop(h)
  /\ UNCHANGED <<dbVars, clock, requests>>

CheckCooldown(h) ==
  LET last == MostRecentOpenedAt(op[h].user)
  IN /\ pc[h] = "recent"
     /\ IF last = 0 \/ clock - last >= TicketOpenCooldown
        THEN Go(h, "author", op[h]) ELSE Stop(h)
     /\ UNCHANGED <<dbVars, clock, requests>>

\* users.GetByID of OpenTicket, or the start of deferMarkViewed, and then s.now()
TakeTime(h) ==
  /\ pc[h] \in {"author", "page"}
  /\ Go(h, IF pc[h] = "author" THEN "create" ELSE "write", [op[h] EXCEPT !.at = clock])
  /\ UNCHANGED <<dbVars, clock, requests>>

Message(o, visibility, event) == [by |-> o.user, visibility |-> visibility, event |-> event]

Create(h) ==
  LET o == op[h]
  IN /\ pc[h] = "create"
     /\ tickets' = Append(tickets, [owner |-> o.user, cat |-> o.cat, subj |-> o.subj, status |-> "open",
                                    actor |-> "player", count |-> 1, active |-> o.at, closedBy |-> "",
                                    created |-> o.at])
     /\ messages' = Append(messages, <<Message(o, "public", "")>>)
     /\ Stop(h)
     /\ UNCHANGED <<views, clock, requests>>

-----------------------------------------------------------------------------
(* The reads before a write                                                *)

\* assertCategoryAllowed, and staffDetail, which reads the ticket only once
AssertCategoryAllowed(h) ==
  /\ pc[h] = "permit"
  /\ IF tickets[op[h].id].cat \in Permits[op[h].user]
     THEN Go(h, IF op[h].kind = "view" THEN "page" ELSE "get", op[h]) ELSE Stop(h)
  /\ UNCHANGED <<dbVars, clock, requests>>

\* what the transitions of the domain require of the ticket that was read
Allowed(o, t) ==
  CASE o.kind = "playerReply"  -> t.owner = o.user /\ CanPlayerReply(t)
    [] o.kind = "recategorize" -> ~IsTerminal(t) /\ o.cat # t.cat
    [] o.kind = "editSubject"  -> ~IsTerminal(t) /\ o.subj # t.subj
    [] o.kind = "view"         -> t.owner = o.user
    [] OTHER                   -> ~IsTerminal(t)

Get(h) ==
  LET t == tickets[op[h].id]
  IN /\ pc[h] = "get"
     /\ CASE ~Allowed(op[h], t)    -> Stop(h)
          [] op[h].kind = "view"    -> Go(h, "page", op[h])
          [] OTHER                  -> Go(h, "write", [op[h] EXCEPT !.read = t, !.at = clock])
     /\ UNCHANGED <<dbVars, clock, requests>>

-----------------------------------------------------------------------------
(* The writes                                                              *)

Write(h, kinds) == pc[h] = "write" /\ op[h].kind \in kinds /\ Stop(h) /\ UNCHANGED <<clock, requests>>
Log(o, m) == messages' = [messages EXCEPT ![o.id] = Append(@, m)]

CountedAsRead(t, o) ==  \* mutant: the ticket that AppendPublic made of the one it read is saved
  [t EXCEPT !.actor = IF o.user \in Staff THEN "staff" ELSE "player", !.count = o.read.count + 1, !.active = o.at]
Counted(t, o) ==
  [t EXCEPT !.actor = IF o.user \in Staff THEN "staff" ELSE "player", !.count = @ + 1, !.active = o.at]

AppendPublicMessage(h) ==
  LET o == op[h]
  IN /\ Write(h, {"playerReply", "staffReply"})
     /\ tickets' = [tickets EXCEPT ![o.id] = Counted(@, o)]
     /\ Log(o, Message(o, "public", ""))
     /\ UNCHANGED views

AppendInternalNote(h) ==
  /\ Write(h, {"note"})
  /\ Log(op[h], Message(op[h], "internal", ""))
  /\ UNCHANGED <<tickets, views>>

\* Category and subject are both written, one of them as it was read.
Edited(t, o) ==
  [t EXCEPT !.cat = IF o.kind = "recategorize" THEN o.cat ELSE o.read.cat,
            !.subj = IF o.kind = "editSubject" THEN o.subj ELSE o.read.subj,
            !.active = o.at]
EditedStatus(t, o) == [Edited(t, o) EXCEPT !.status = o.read.status]  \* mutant: the status is written too
EditedWhole(t, o) ==  \* mutant: every column is
  [EditedStatus(t, o) EXCEPT !.closedBy = o.read.closedBy, !.actor = o.read.actor]
SaveEdit(t, o) == Edited(t, o)

AppendSystemEvent(h) ==
  LET o == op[h]
  IN /\ Write(h, {"recategorize", "editSubject"})
     /\ tickets' = [tickets EXCEPT ![o.id] = SaveEdit(@, o)]
     /\ Log(o, Message(o, "system", o.kind))
     /\ UNCHANGED views

SetTerminal(h) ==
  LET o == op[h]
  IN /\ Write(h, {"resolve", "close"})
     /\ tickets' = [tickets EXCEPT ![o.id].status = IF o.kind = "resolve" THEN "resolved" ELSE "closed",
                                   ![o.id].closedBy = o.user, ![o.id].active = o.at]
     /\ Log(o, Message(o, "system", o.kind))
     /\ UNCHANGED views

\* deferMarkViewed runs in a goroutine of its own, after the page was read.
LastViewedSet(old, at) == at  \* mutant
LastViewed(old, at) == IF old > at THEN old ELSE at
MarkViewed(h) ==
  /\ Write(h, {"view"})
  /\ views' = [views EXCEPT ![op[h].user][op[h].id] = LastViewed(@, op[h].at)]
  /\ UNCHANGED <<tickets, messages>>

-----------------------------------------------------------------------------
(* Requests                                                                *)

Request(h, call, o) ==
  /\ pc[h] = "idle" /\ o.kind \in Ops
  /\ requests < MaxRequests /\ requests' = requests + 1
  /\ Go(h, call, o) /\ UNCHANGED <<dbVars, clock>>

\* playerCreate, playerReply, playerDetail
PlayerRequest(h) ==
  \E u \in Players :
    \/ \E c \in Categories, s \in Subjects :
         Request(h, "count", [NoOp EXCEPT !.kind = "open", !.user = u, !.cat = c, !.subj = s])
    \/ \E t \in DOMAIN tickets, kind \in {"playerReply", "view"} :
         Request(h, "get", [NoOp EXCEPT !.kind = kind, !.user = u, !.id = t])

\* staffMutate and staffDetail
StaffRequest(h) ==
  \E u \in Staff, t \in DOMAIN tickets :
    LET o == [NoOp EXCEPT !.user = u, !.id = t]
    IN \/ \E kind \in {"staffReply", "note", "resolve", "close", "view"} :
            Request(h, "permit", [o EXCEPT !.kind = kind])
       \/ \E c \in Categories : Request(h, "permit", [o EXCEPT !.kind = "recategorize", !.cat = c])
       \/ \E s \in Subjects : Request(h, "permit", [o EXCEPT !.kind = "editSubject", !.subj = s])

\* Any call may fail, and the panel may stop: what was not committed is gone.
HandlerFails(h) == pc[h] # "idle" /\ Stop(h) /\ UNCHANGED <<dbVars, clock, requests>>

Tick == clock < MaxClock /\ clock' = clock + 1 /\ UNCHANGED <<dbVars, pc, op, requests>>

Next ==
  \/ \E h \in Handlers :
       \/ PlayerRequest(h) \/ StaffRequest(h) \/ HandlerFails(h)
       \/ CheckOpenCount(h) \/ CheckCooldown(h) \/ TakeTime(h) \/ Create(h)
       \/ AssertCategoryAllowed(h) \/ Get(h)
       \/ AppendPublicMessage(h) \/ AppendInternalNote(h) \/ AppendSystemEvent(h) \/ SetTerminal(h)
       \/ MarkViewed(h)
  \/ Tick

Spec == Init /\ [][Next]_vars

-----------------------------------------------------------------------------
(* Properties                                                              *)

\* Tickets are well formed, and closed_by is set exactly when the ticket is
\* closed or resolved.
TypeOK ==
  /\ tickets \in Seq([owner : Players, cat : Categories, subj : Subjects, status : {"open", "resolved", "closed"},
                      actor : {"player", "staff"}, count : Nat, active : Nat, closedBy : Staff \cup {""}, created : Nat])
  /\ Len(messages) = Len(tickets)
  /\ \A t \in DOMAIN tickets : IsTerminal(tickets[t]) <=> tickets[t].closedBy # ""
  /\ \A h \in Handlers : pc[h] \in {"permit", "get", "page", "write"} => op[h].id \in DOMAIN tickets

\* message_count is the number of public messages, which the tabs of the staff
\* list rely on, also when two replies are written at the same time.
CountMatchesThread ==
  \A t \in DOMAIN tickets :
    tickets[t].count = Cardinality({m \in DOMAIN messages[t] : messages[t][m].visibility = "public"})

\* Tickets and their threads are consistent, whatever was written at once.
Consistent == TypeOK /\ CountMatchesThread

\* A ticket that is closed or resolved never opens again: no operation that
\* read it while it was open writes its old status back.
NeverReopened == [][\A t \in DOMAIN tickets : IsTerminal(tickets[t]) => IsTerminal(tickets'[t])]_vars

\* The check of the limit and the INSERT are not one step, so concurrent
\* requests of a player may exceed it, but only by the requests in flight.
OpenBounded ==
  \A u \in Players : CountOpenForPlayer(u) < MaxOpenPerPlayer + Cardinality(Handlers)

\* What a user has seen of a ticket never becomes unseen, although the pages
\* of two tabs record their views in any order.
ViewsGrow == [][\A u \in Users, t \in 1..MaxRequests : views'[u][t] >= views[u][t]]_vars
=============================================================================
