------------------------------ MODULE Journeys ------------------------------
(***************************************************************************)
(* What an outlet learns of its website's visitors.  Browsers collect      *)
(* events and send them in batches, again when they were not answered;     *)
(* checkouts and staff commands add what became of an order, in their own  *)
(* transactions.  Everything goes to the outlet's own tables or to         *)
(* PostHog's queue, by a setting that a deployment may change.             *)
(*                                                                         *)
(* provider     WEBSITE_ANALYTICS_PROVIDER; switched, whether it changed   *)
(* session[s]   a JourneySession: its visitor, the span it covers, and     *)
(*              the moment a checkout opened it, if one did                *)
(* event[i]     the session that holds the browser's event of moment i     *)
(* visits       the WebsiteVisits, by the event they were recorded for     *)
(* order[o]     a website order: its status, whether it is paid in full    *)
(* journey[o]   its trusted JourneyEvents                                  *)
(* origin[o]    the session of its order_success                           *)
(* identity     the orders with a PostHogOrderIdentity                     *)
(* queued[o]    its PostHogDeliveries                                      *)
(***************************************************************************)
EXTENDS Naturals, FiniteSetsExt

CONSTANTS
  Visitors, Sessions, Orders,
  Unknown,
  MaxMoment,         \* bound: moments at which something happens
  Views              \* the events that are page views

Moments == 1..MaxMoment

ASSUME JourneysAssumption ==
  /\ Unknown \notin Visitors \cup Sessions \cup Nat
  /\ MaxMoment \in Nat /\ Views \subseteq Moments

VARIABLES provider, switched, session, event, visits, order, journey, origin, identity, queued

browsing == <<session, event, visits>>
outcomes == <<journey, origin, identity, queued>>
journeyVars == <<provider, switched, browsing, order, outcomes>>

NoSession == [visitor |-> Unknown, first |-> 0, last |-> 0, opened |-> Unknown]
NoOrder == [status |-> "none", paid |-> FALSE]
Outcomes == {"order_success", "order_confirmed", "payment_success"}
Session == [visitor: Visitors, first: Moments, last: Moments, opened: Moments \cup {Unknown}]

JourneysTypeOK ==
  /\ provider \in {"journeys", "posthog"} /\ switched \in BOOLEAN
  /\ session \in [Sessions -> Session \cup {NoSession}]
  /\ event \in [Moments -> Sessions \cup {Unknown}]
  /\ visits \subseteq Moments
  /\ order \in [Orders -> [status: {"none", "PENDING", "CONFIRMED", "CANCELLED", "deleted"},
                           paid: BOOLEAN]]
  /\ journey \in [Orders -> SUBSET Outcomes] /\ queued \in [Orders -> SUBSET Outcomes]
  /\ origin \in [Orders -> Sessions \cup {Unknown}]
  /\ identity \subseteq Orders

JourneysInit ==
  /\ provider \in {"journeys", "posthog"} /\ switched = FALSE
  /\ session = [s \in Sessions |-> NoSession]
  /\ event = [i \in Moments |-> Unknown] /\ visits = {}
  /\ order = [o \in Orders |-> NoOrder]
  /\ journey = [o \in Orders |-> {}] /\ queued = [o \in Orders |-> {}]
  /\ origin = [o \in Orders |-> Unknown] /\ identity = {}

-----------------------------------------------------------------------------
(* Browsers.                                                               *)

\* BatchInput: one event at least.
Batches == (SUBSET Moments) \ {{}}

Earlier(i, j) == IF i < j THEN i ELSE j
Later(i, j) == IF i > j THEN i ELSE j

\* A session that a batch E of events adds the events fresh to.
Fault_LastBatch(row, v, E, fresh) ==
  IF row = NoSession
  THEN [visitor |-> v, first |-> Min(E), last |-> Max(E), opened |-> Unknown]
  ELSE [row EXCEPT !.first = Earlier(@, Min(E)), !.last = Max(fresh)]

Extended(row, v, E, fresh) ==
  IF row = NoSession
  THEN [visitor |-> v, first |-> Min(E), last |-> Max(E), opened |-> Unknown]
  ELSE [row EXCEPT !.first = Earlier(@, Min(E)), !.last = Later(@, Max(fresh))]

\* record_visit, which counts an event once.
Visited(E) == visits \cup (E \cap Views)

\* ingest.  A batch is refused as a whole when the session is another visitor's or an
\* event another session's; a batch of which every event is known changes nothing.
Ingest(v, s, E) ==
  LET fresh == {i \in E : event[i] = Unknown} IN
  /\ provider = "journeys"
  /\ session[s] = NoSession \/ session[s].visitor = v
  /\ \A i \in E : event[i] \in {s, Unknown}
  /\ fresh # {}
  /\ session' = [session EXCEPT ![s] = Extended(@, v, E, fresh)]
  /\ event' = [i \in Moments |-> IF i \in E THEN s ELSE event[i]]
  /\ visits' = Visited(fresh)
  /\ UNCHANGED <<provider, switched, order, outcomes>>

\* WebsiteVisitView, which counts visits of kiosks and table codes with any provider.
CountVisit(i) ==
  /\ visits' = Visited({i})
  /\ UNCHANGED <<provider, switched, session, event, order, outcomes>>

-----------------------------------------------------------------------------
(* Orders.                                                                 *)

\* What may be told of an order besides order_success.  (PostHog is not told of a payment
\* after a refund; refunds are left out.)
Tellable(row) ==
  {n \in Outcomes : \/ n = "order_confirmed" /\ row.status \notin {"PENDING", "CANCELLED"}
                    \/ n = "payment_success" /\ row.paid}

\* attach_order: with the website's own identity, at moment m.
Attach(o, v, s, m) ==
  /\ session' = IF session[s] # NoSession THEN session
                ELSE [session EXCEPT ![s] =
                       [visitor |-> v, first |-> m, last |-> m, opened |-> m]]
  /\ IF session'[s].visitor = v
     THEN /\ journey' = [journey EXCEPT ![o] = {"order_success"}]
          /\ origin' = [origin EXCEPT ![o] = s]
     ELSE UNCHANGED <<journey, origin>>
  /\ UNCHANGED <<identity, queued>>

\* enqueue_order_event, which queues each event of an order once.
Enqueued(o, names) == [queued EXCEPT ![o] = @ \cup names]

\* attach_posthog_order.
AttachPosthog(o) ==
  /\ identity' = identity \cup {o}
  /\ queued' = Enqueued(o, {"order_success"})
  /\ UNCHANGED <<session, journey, origin>>

\* CheckoutView.post; the browser may send no identity, or none that PostHog can use.
CheckOut(o, v, s, m) ==
  /\ order[o] = NoOrder
  /\ order' = [order EXCEPT ![o].status = "PENDING"]
  /\ \/ provider = "journeys" /\ Attach(o, v, s, m)
     \/ provider = "posthog" /\ AttachPosthog(o)
     \/ UNCHANGED <<session, outcomes>>
  /\ UNCHANGED <<provider, switched, event, visits>>

\* sync_posthog_order, of an order that becomes row.
SyncPosthog(o, row) ==
  /\ queued' = IF o \in identity THEN Enqueued(o, Tellable(row)) ELSE queued
  /\ UNCHANGED journey

\* sync_order_outcomes.
Sync(o, row) ==
  /\ \/ provider = "posthog" /\ SyncPosthog(o, row)
     \/ /\ provider = "journeys"
        /\ journey' = IF "order_success" \notin journey[o] THEN journey
                      ELSE [journey EXCEPT ![o] = @ \cup Tellable(row)]
        /\ UNCHANGED queued
  /\ UNCHANGED <<origin, identity>>

\* Commands of staff (mutate) and collections of a customer's debt; an append may leave
\* an order that was paid in full with something to pay.
Command(o, row) ==
  /\ order[o].status \in {"PENDING", "CONFIRMED"}
  /\ row.status = "PENDING" => order[o].status = "PENDING"
  /\ row.status \in {"PENDING", "CONFIRMED", "CANCELLED"}
  /\ order' = [order EXCEPT ![o] = row]
  /\ Sync(o, row)
  /\ UNCHANGED <<provider, switched, browsing>>

\* CancelView, which tells nothing.
Withdraw(o) ==
  /\ order[o] = [status |-> "PENDING", paid |-> FALSE]
  /\ order' = [order EXCEPT ![o].status = "CANCELLED"]
  /\ UNCHANGED <<provider, switched, browsing, outcomes>>

\* delete_order: the journey's events keep no order, the rest goes with it.
Delete(o) ==
  /\ order[o].status \notin {"none", "deleted"}
  /\ order' = [order EXCEPT ![o] = [NoOrder EXCEPT !.status = "deleted"]]
  /\ journey' = [journey EXCEPT ![o] = {}] /\ origin' = [origin EXCEPT ![o] = Unknown]
  /\ identity' = identity \ {o} /\ queued' = [queued EXCEPT ![o] = {}]
  /\ UNCHANGED <<provider, switched, browsing>>

Switch ==
  /\ ~switched /\ switched' = TRUE
  /\ provider' = IF provider = "journeys" THEN "posthog" ELSE "journeys"
  /\ UNCHANGED <<browsing, order, outcomes>>

-----------------------------------------------------------------------------

OrderStep(o) ==
  \/ \E v \in Visitors, s \in Sessions, m \in Moments : CheckOut(o, v, s, m)
  \/ \E row \in [status: {"PENDING", "CONFIRMED", "CANCELLED"}, paid: BOOLEAN] : Command(o, row)
  \/ Withdraw(o) \/ Delete(o)

JourneysNext ==
  \/ \E v \in Visitors, s \in Sessions, E \in Batches : Ingest(v, s, E)
  \/ \E i \in Moments : CountVisit(i)
  \/ \E o \in Orders : OrderStep(o)
  \/ Switch

JourneysSpec == JourneysInit /\ [][JourneysNext]_journeyVars

-----------------------------------------------------------------------------
(* Properties.                                                             *)

\* A session covers exactly what happened in it, and every page view in it is a visit.
SessionsSpan ==
  /\ \A s \in Sessions :
       LET seen == {i \in Moments : event[i] = s \/ session[s].opened = i} IN
       IF session[s] = NoSession THEN seen = {}
       ELSE seen # {} /\ session[s].first = Min(seen) /\ session[s].last = Max(seen)
  /\ \A i \in Views : event[i] # Unknown => i \in visits

\* An order's outcomes are in one place, begin with order_success, and are complete
\* where the provider did not change.
OutcomesKept ==
  \A o \in Orders :
    /\ journey[o] = {} \/ queued[o] = {}
    /\ \A told \in {journey[o], queued[o]} : told # {} =>
         /\ "order_success" \in told
         /\ ~switched => Tellable(order[o]) \subseteq told
    /\ origin[o] # Unknown => session[origin[o]] # NoSession

\* What is told of an order now, and was not before, is so.
NothingTooSoon ==
  \A o \in Orders :
    LET news == (journey'[o] \cup queued'[o]) \ (journey[o] \cup queued[o]) IN
    /\ "order_confirmed" \in news => order'[o].status = "CONFIRMED"
    /\ "payment_success" \in news => order'[o].paid

\* What the outlet learns is what happened, whatever the order in which batches arrive
\* and however often, and whenever the provider is changed: sessions span their events,
\* outcomes are in one place and complete, and none is told of an order before it is so
\* (ingest, attach_order, sync_order_outcomes, attach_posthog_order, sync_posthog_order).
JourneysTrue == [](SessionsSpan /\ OutcomesKept) /\ [][NothingTooSoon]_journeyVars
=============================================================================
