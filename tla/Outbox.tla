------------------------------- MODULE Outbox -------------------------------
(***************************************************************************)
(* How a committed change of an order reaches the screens.  Every command  *)
(* writes an OrderOutboxEvent in its transaction; overlapping runs of the  *)
(* publisher task send the events to the channel layer, which may fail or  *)
(* drop a message; a screen that hears of an event or sees a new revision  *)
(* in a heartbeat fetches a snapshot of the orders.  Staff sockets also    *)
(* expire after five minutes and fetch on reconnecting; pickup displays    *)
(* stay connected, and nothing here counts on a reconnection.              *)
(*                                                                         *)
(* event[i]     the i-th event by created_at: DRAWN when its transaction   *)
(*              has stamped it and not yet committed                       *)
(* order[o]     NONE before it is created, LIVE, or DELETED                *)
(* changes      how many changes of orders were committed                  *)
(* todo[p], holds[p]   the events a publisher listed, and the one whose    *)
(*              row it has locked, with whether it was sent                *)
(* sent[i], broken[i]   how often event i was sent, and how often a        *)
(*              publisher stopped between sending it and recording that    *)
(* screen[t], dirty[t], known[t]   how many changes a screen shows,        *)
(*              whether it has yet to fetch, and the revision its last     *)
(*              heartbeat reported                                         *)
(* failures     crashes and channel failures so far                        *)
(* overtaken    an event was committed after one with a later created_at   *)
(***************************************************************************)
EXTENDS Naturals, FiniteSetsExt

CONSTANTS
  Orders, Publishers,
  Screens,
  MaxEvents,         \* bound: events written
  MaxFailures        \* bound: crashes and failures of the channel layer

Events == 1..MaxEvents

ASSUME OutboxAssumption == Orders # {} /\ MaxEvents \in Nat /\ MaxFailures \in Nat

VARIABLES event, order, changes, todo, holds, sent, broken,
          screen, dirty, known, failures, overtaken

rows == <<event, order, changes, overtaken>>
publishing == <<todo, holds, sent, broken>>
watching == <<screen, dirty, known>>
vars == <<rows, publishing, watching, failures>>

Hold == [id: 0..MaxEvents, sent: BOOLEAN]
Free == [id |-> 0, sent |-> FALSE]

EventRow == [state: {"NONE", "DRAWN", "PENDING", "WAITING", "PUBLISHED", "GONE"},
             order: Orders, kind: {"CHANGED", "DELETED"}]

TypeOK ==
  /\ event \in [Events -> EventRow]
  /\ order \in [Orders -> {"NONE", "LIVE", "DELETED"}] /\ changes \in Nat
  /\ todo \in [Publishers -> SUBSET Events]
  /\ holds \in [Publishers -> Hold]
  /\ sent \in [Events -> Nat] /\ broken \in [Events -> Nat]
  /\ screen \in [Screens -> Nat] /\ dirty \in [Screens -> BOOLEAN]
  /\ known \in [Screens -> 0..MaxEvents]
  /\ failures \in 0..MaxFailures /\ overtaken \in BOOLEAN

Init ==
  /\ event = [i \in Events |-> [state |-> "NONE", order |-> CHOOSE o \in Orders : TRUE,
                               kind |-> "CHANGED"]]
  /\ order = [o \in Orders |-> "NONE"] /\ changes = 0
  /\ todo = [p \in Publishers |-> {}] /\ holds = [p \in Publishers |-> Free]
  /\ sent = [i \in Events |-> 0] /\ broken = [i \in Events |-> 0]
  /\ screen = [t \in Screens |-> 0] /\ dirty = [t \in Screens |-> FALSE]
  /\ known = [t \in Screens |-> 0]
  /\ failures = 0 /\ overtaken = FALSE

-----------------------------------------------------------------------------
(* Transactions that write events.                                         *)

Committed(i) == event[i].state \in {"PENDING", "WAITING", "PUBLISHED"}
Drawn(o) == {i \in Events : event[i].state = "DRAWN" /\ event[i].order = o}
Held(i) == \E p \in Publishers : holds[p].id = i

\* The next created_at.
IsNext(i) ==
  /\ event[i].state = "NONE"
  /\ \A j \in Events : j < i => event[j].state # "NONE"

\* mutate and checkout hold the outlet's lock from before they stamp the event until
\* they commit, so among themselves events are committed in the order of their stamps.
Command(o, i) ==
  /\ order[o] # "DELETED" /\ Drawn(o) = {}
  /\ IsNext(i)
  /\ event' = [event EXCEPT ![i] = [state |-> "PENDING", order |-> o, kind |-> "CHANGED"]]
  /\ order' = [order EXCEPT ![o] = "LIVE"]
  /\ changes' = changes + 1
  /\ UNCHANGED <<overtaken, publishing, watching, failures>>

\* CancelView holds only the order's lock: other orders' commands may commit between
\* its stamp and its commit, which waits for the outlet's row.
Draw(o, i) ==
  /\ order[o] = "LIVE" /\ Drawn(o) = {}
  /\ IsNext(i)
  /\ event' = [event EXCEPT ![i] = [state |-> "DRAWN", order |-> o, kind |-> "CHANGED"]]
  /\ UNCHANGED <<order, changes, overtaken, publishing, watching, failures>>

CommitDrawn(i) ==
  /\ event[i].state = "DRAWN"
  /\ event' = [event EXCEPT ![i].state = "PENDING"]
  /\ changes' = changes + 1
  /\ overtaken' = (overtaken \/ \E j \in Events : j > i /\ Committed(j))
  /\ UNCHANGED <<order, publishing, watching, failures>>

\* Rows a publisher has locked cannot be removed under it.
Fault_EventsUnlocked(o) == TRUE

EventsUnlocked(o) == \A i \in Events : event[i].order = o => ~Held(i)

\* delete_order removes the order's events with it and leaves one that refers to none.
Delete(o, i) ==
  /\ order[o] = "LIVE" /\ Drawn(o) = {}
  /\ EventsUnlocked(o)
  /\ IsNext(i)
  /\ event' = [j \in Events |->
       IF j = i THEN [state |-> "PENDING", order |-> o, kind |-> "DELETED"]
       ELSE IF event[j].order = o /\ Committed(j) THEN [event[j] EXCEPT !.state = "GONE"]
       ELSE event[j]]
  /\ order' = [order EXCEPT ![o] = "DELETED"]
  /\ changes' = changes + 1
  /\ UNCHANGED <<overtaken, publishing, watching, failures>>

-----------------------------------------------------------------------------
(* publish_pos_events.                                                     *)

\* Read the due events, without a lock.
List(p) ==
  /\ todo[p] = {} /\ holds[p] = Free
  /\ {i \in Events : event[i].state = "PENDING"} # {}
  /\ todo' = [todo EXCEPT ![p] = {i \in Events : event[i].state = "PENDING"}]
  /\ UNCHANGED <<rows, holds, sent, broken, watching, failures>>

\* Whether a listed event is still to be sent, read under its row lock.
Fault_TrustTheList(i) == event[i].state # "GONE"

StillDue(i) == event[i].state = "PENDING"

\* Lock the oldest listed event; skip it if another run has dealt with it.
Take(p) ==
  /\ todo[p] # {} /\ holds[p] = Free
  /\ ~Held(Min(todo[p]))
  /\ todo' = [todo EXCEPT ![p] = @ \ {Min(@)}]
  /\ holds' = [holds EXCEPT ![p] = IF StillDue(Min(todo[p]))
                                   THEN [id |-> Min(todo[p]), sent |-> FALSE] ELSE @]
  /\ UNCHANGED <<rows, sent, broken, watching, failures>>

\* The channel layer takes the message and delivers it to some of the screens.
Send(p, reached) ==
  LET i == holds[p].id
  IN /\ i # 0 /\ ~holds[p].sent
     /\ holds' = [holds EXCEPT ![p].sent = TRUE]
     /\ sent' = [sent EXCEPT ![i] = @ + 1]
     /\ dirty' = [t \in Screens |-> dirty[t] \/ t \in reached]
     /\ UNCHANGED <<rows, todo, broken, screen, known, failures>>

Finish(p) ==
  /\ holds[p].sent
  /\ event' = [event EXCEPT ![holds[p].id].state = "PUBLISHED"]
  /\ holds' = [holds EXCEPT ![p] = Free]
  /\ UNCHANGED <<order, changes, overtaken, todo, sent, broken, watching, failures>>

\* What is recorded of a send that raised: the event waits for its next attempt.
Fault_Failed == "FAILED"

AfterError == "WAITING"

Interrupted(p) ==
  /\ holds[p].id # 0 /\ failures < MaxFailures
  /\ failures' = failures + 1
  /\ holds' = [holds EXCEPT ![p] = Free]
  /\ broken' = [broken EXCEPT ![holds[p].id] = IF holds[p].sent THEN @ + 1 ELSE @]
  /\ UNCHANGED <<order, changes, overtaken, sent, watching>>

\* The channel layer fails on one of the groups, perhaps after others were served.
Fail(p) ==
  /\ Interrupted(p)
  /\ event' = [event EXCEPT ![holds[p].id].state = AfterError]
  /\ UNCHANGED todo

\* The worker dies; the lock and the transaction go with it.
Crash(p) ==
  /\ Interrupted(p)
  /\ todo' = [todo EXCEPT ![p] = {}]
  /\ UNCHANGED event

BackOff(i) ==
  /\ event[i].state = "WAITING"
  /\ event' = [event EXCEPT ![i].state = "PENDING"]
  /\ UNCHANGED <<order, changes, overtaken, publishing, watching, failures>>

-----------------------------------------------------------------------------
(* The screens.                                                            *)

Fetch(t) ==
  /\ dirty[t]
  /\ screen' = [screen EXCEPT ![t] = changes]
  /\ dirty' = [dirty EXCEPT ![t] = FALSE]
  /\ UNCHANGED <<rows, publishing, known, failures>>

\* The revision a heartbeat reports: the newest event by created_at.
Fault_Oldest == IF \E i \in Events : Committed(i) THEN Min({i \in Events : Committed(i)}) ELSE 0

Latest == IF \E i \in Events : Committed(i) THEN Max({i \in Events : Committed(i)}) ELSE 0

\* A screen fetches when the revision differs from the last one it was told.
Heartbeat(t) ==
  /\ known[t] # Latest
  /\ known' = [known EXCEPT ![t] = Latest]
  /\ dirty' = [dirty EXCEPT ![t] = TRUE]
  /\ UNCHANGED <<rows, publishing, screen, failures>>

Next ==
  \/ \E o \in Orders, i \in Events : Command(o, i) \/ Draw(o, i) \/ Delete(o, i)
  \/ \E i \in Events : CommitDrawn(i) \/ BackOff(i)
  \/ \E p \in Publishers :
       \/ List(p) \/ Take(p) \/ Finish(p) \/ Fail(p) \/ Crash(p)
       \/ \E reached \in SUBSET Screens : Send(p, reached)
  \/ \E t \in Screens : Fetch(t) \/ Heartbeat(t)

\* Transactions end, Celery beat starts the task every second, its workers run it,
\* back-offs expire, screens ping and fetch.  Nothing makes anybody change an order,
\* and the channel layer need not reach any screen.
Fairness ==
  /\ \A i \in Events : WF_vars(CommitDrawn(i)) /\ WF_vars(BackOff(i))
  /\ \A p \in Publishers :
       /\ WF_vars(List(p)) /\ WF_vars(Take(p)) /\ WF_vars(Finish(p))
       /\ WF_vars(\E reached \in SUBSET Screens : Send(p, reached))
  /\ \A t \in Screens : WF_vars(Fetch(t)) /\ WF_vars(Heartbeat(t))

Spec == Init /\ [][Next]_vars /\ Fairness

-----------------------------------------------------------------------------
(* What must hold.                                                         *)

\* However many runs of the publisher overlap, an event is sent again only after a
\* run was stopped between sending it and recording that it had.
SentOnce == \A i \in Events : sent[i] <= 1 + broken[i]

\* An event is recorded as published only after it was sent.
PublishedWasSent == \A i \in Events : event[i].state = "PUBLISHED" => sent[i] > 0

\* Once the screens were told that an order is deleted, no older event of it follows.
SilentAfterDeletion ==
  [][\A d \in Events :
       event[d].kind = "DELETED" /\ sent[d] > 0 =>
         \A i \in Events : i # d /\ event[i].order = event[d].order => sent'[i] = sent[i]]_vars

\* POS_IMPLEMENTATION.md:34: heartbeats compare the latest revision to recover missed
\* events, so a screen that has the latest one and nothing to fetch is up to date.
HeartbeatRecovers ==
  \A t \in Screens : known[t] = Latest /\ ~dirty[t] => screen[t] = changes

\* It does so as long as events are committed in the order of their created_at.
RecoversInOrder == overtaken \/ HeartbeatRecovers

\* Every committed event is published in the end, unless its order is deleted first.
EveryEventPublished ==
  <>[](\A i \in Events : event[i].state \in {"NONE", "PUBLISHED", "GONE"})

\* Every screen comes to show what was committed, even if no message ever reached it,
\* as long as events are committed in the order of their created_at.
ScreensCatchUp == \A t \in Screens : <>[](screen[t] = changes \/ overtaken)
=============================================================================
