--------------------------- MODULE Outbox_proofs ---------------------------
(***************************************************************************)
(* Theorems about Outbox for any number of orders, events, publishers and  *)
(* screens.  They are about safety, so they use no fairness.               *)
(***************************************************************************)
EXTENDS Outbox, WellFoundedInduction, TLAPS

-----------------------------------------------------------------------------
(* The first and the last event of a set.                                  *)

\* A set of naturals has a least element.
LEMMA LeastExists ==
  ASSUME NEW S, S \subseteq Nat, S # {}
  PROVE  \E x \in S : \A y \in S : x =< y
<1>1. \E x \in S : \A y \in S : ~ (<<y, x>> \in OpToRel(<, Nat))
  BY NatLessThanWellFounded, WFMin
<1>2. \A x, y \in Nat : <<y, x>> \in OpToRel(<, Nat) <=> y < x
  BY DEF OpToRel
<1>3. PICK x \in S : \A y \in S : ~ (y < x)
  BY <1>1, <1>2, Zenon
<1> QED
  BY <1>3

\* The publisher's next event is one it listed.
LEMMA OldestListed ==
  ASSUME NEW S, S \subseteq Events, S # {}
  PROVE  Min(S) \in S
<1>1. S \subseteq Nat
  BY OutboxAssumption DEF Events
<1>2. PICK x \in S : \A y \in S : x =< y
  BY <1>1, LeastExists
<1> QED
  BY <1>2 DEF Min

\* The newest of some events is one of them, and none is newer.
LEMMA NewestOf ==
  ASSUME NEW S, S \subseteq Events, S # {}
  PROVE  Max(S) \in S /\ \A y \in S : Max(S) >= y
<1> USE OutboxAssumption DEF Events
<1> DEFINE T == {MaxEvents - x : x \in S}
<1>1. T \subseteq Nat
  OBVIOUS
<1>2. T # {}
  OBVIOUS
<1>3. PICK t \in T : \A u \in T : t =< u
  BY <1>1, <1>2, LeastExists
<1>4. PICK x \in S : t = MaxEvents - x
  BY <1>3
<1>5. \A y \in S : x >= y
  BY <1>3, <1>4
<1> QED
  BY <1>4, <1>5 DEF Max

\* The revision a heartbeat reports is the newest committed event's, if there is any.
LatestNewest ==
  /\ Latest \in 0..MaxEvents
  /\ \A i \in Events : Committed(i) => Latest >= i
  /\ Latest # 0 => Latest \in Events /\ Committed(Latest)

LEMMA LatestIs == TypeOK => LatestNewest
<1> USE DEF LatestNewest
<1> DEFINE S == {i \in Events : Committed(i)}
<1>1. CASE S = {}
  BY <1>1, OutboxAssumption DEF Latest
<1>2. CASE S # {}
  <2>1. Max(S) \in S /\ \A y \in S : Max(S) >= y
    BY <1>2, NewestOf
  <2>2. Latest = Max(S)
    BY <1>2 DEF Latest
  <2> QED
    BY <2>1, <2>2, OutboxAssumption DEF Events
<1> QED
  BY <1>1, <1>2

-----------------------------------------------------------------------------
(* Types.                                                                  *)

LEMMA TypeInit == Init => TypeOK
<1> SUFFICES ASSUME Init PROVE TypeOK
  OBVIOUS
<1>1. (CHOOSE o \in Orders : TRUE) \in Orders
  BY OutboxAssumption
<1>2. event \in [Events -> EventRow]
  BY <1>1 DEF Init, EventRow
<1>3. holds \in [Publishers -> Hold]
  BY OutboxAssumption DEF Init, Free, Hold
<1>4. /\ order \in [Orders -> {"NONE", "LIVE", "DELETED"}] /\ changes \in Nat
      /\ todo \in [Publishers -> SUBSET Events]
      /\ sent \in [Events -> Nat] /\ broken \in [Events -> Nat]
  BY DEF Init
<1>5. /\ screen \in [Screens -> Nat] /\ dirty \in [Screens -> BOOLEAN]
      /\ known \in [Screens -> 0..MaxEvents]
  BY OutboxAssumption DEF Init
<1>6. failures \in 0..MaxFailures
  BY OutboxAssumption DEF Init
<1>7. overtaken \in BOOLEAN
  BY DEF Init
<1> QED
  BY <1>2, <1>3, <1>4, <1>5, <1>6, <1>7 DEF TypeOK

\* A publisher that holds nothing has sent nothing.
LEMMA FreeType == Free \in Hold /\ Free.id = 0 /\ ~Free.sent
BY OutboxAssumption DEF Free, Hold

\* What a publisher holds is an event.
LEMMA HoldsEvent ==
  ASSUME TypeOK, NEW p \in Publishers, holds[p].id # 0
  PROVE  holds[p].id \in Events
BY OutboxAssumption DEF TypeOK, Hold, Events

\* Every step keeps the types.
LEMMA TypeStep ==
  ASSUME TypeOK, [Next]_vars
  PROVE  TypeOK'
<1> USE DEF TypeOK
<1>1. CASE UNCHANGED vars
  BY <1>1 DEF vars, rows, publishing, watching
<1>2. ASSUME NEW o \in Orders, NEW i \in Events, Command(o, i)
      PROVE  TypeOK'
  <2>1. event' \in [Events -> EventRow]
    BY <1>2 DEF Command, EventRow
  <2> QED
    BY <1>2, <2>1 DEF Command, publishing, watching
<1>3. ASSUME NEW o \in Orders, NEW i \in Events, Draw(o, i)
      PROVE  TypeOK'
  <2>1. event' \in [Events -> EventRow]
    BY <1>3 DEF Draw, EventRow
  <2> QED
    BY <1>3, <2>1 DEF Draw, publishing, watching
<1>4. ASSUME NEW o \in Orders, NEW i \in Events, Delete(o, i)
      PROVE  TypeOK'
  <2>1. event' \in [Events -> EventRow]
    BY <1>4 DEF Delete, EventRow
  <2> QED
    BY <1>4, <2>1 DEF Delete, publishing, watching
<1>5. ASSUME NEW i \in Events, CommitDrawn(i)
      PROVE  TypeOK'
  <2>1. event' \in [Events -> EventRow]
    BY <1>5 DEF CommitDrawn, EventRow
  <2> QED
    BY <1>5, <2>1 DEF CommitDrawn, publishing, watching
<1>6. ASSUME NEW i \in Events, BackOff(i)
      PROVE  TypeOK'
  <2>1. event' \in [Events -> EventRow]
    BY <1>6 DEF BackOff, EventRow
  <2> QED
    BY <1>6, <2>1 DEF BackOff, publishing, watching
<1>7. ASSUME NEW p \in Publishers, List(p)
      PROVE  TypeOK'
  BY <1>7 DEF List, rows, watching
<1>8. ASSUME NEW p \in Publishers, Take(p)
      PROVE  TypeOK'
  <2>1. Min(todo[p]) \in Events
    BY <1>8, OldestListed DEF Take
  <2>2. [id |-> Min(todo[p]), sent |-> FALSE] \in Hold
    BY <2>1, OutboxAssumption DEF Hold, Events
  <2>3. holds' \in [Publishers -> Hold]
    BY <1>8, <2>2 DEF Take
  <2>4. todo' \in [Publishers -> SUBSET Events]
    BY <1>8 DEF Take
  <2> QED
    BY <1>8, <2>3, <2>4 DEF Take, rows, watching
<1>9. ASSUME NEW p \in Publishers, NEW reached \in SUBSET Screens, Send(p, reached)
      PROVE  TypeOK'
  <2>1. holds' \in [Publishers -> Hold]
    BY <1>9 DEF Send, Hold
  <2>2. dirty' \in [Screens -> BOOLEAN]
    BY <1>9 DEF Send
  <2>3. sent' \in [Events -> Nat]
    <3>1. holds[p].id \in Events /\ sent' = [sent EXCEPT ![holds[p].id] = @ + 1]
      BY <1>9, HoldsEvent DEF Send
    <3> QED
      BY <3>1
  <2> QED
    BY <1>9, <2>1, <2>2, <2>3 DEF Send, rows
<1>10. ASSUME NEW p \in Publishers, Finish(p)
       PROVE  TypeOK'
  <2>1. holds' \in [Publishers -> Hold]
    BY <1>10, FreeType DEF Finish
  <2>2. event' \in [Events -> EventRow]
    BY <1>10 DEF Finish, EventRow
  <2> QED
    BY <1>10, <2>1, <2>2 DEF Finish, watching
<1>11. ASSUME NEW p \in Publishers, Fail(p) \/ Crash(p)
       PROVE  TypeOK'
  <2>1. Interrupted(p)
    BY <1>11 DEF Fail, Crash
  <2>2. holds' \in [Publishers -> Hold]
    BY <2>1, FreeType DEF Interrupted
  <2>3. event' \in [Events -> EventRow]
    <3>1. CASE Fail(p)
      BY <3>1 DEF Fail, AfterError, EventRow
    <3>2. CASE Crash(p)
      BY <3>2 DEF Crash
    <3> QED
      BY <1>11, <3>1, <3>2
  <2>4. broken' \in [Events -> Nat]
    <3>1. /\ holds[p].id \in Events
          /\ broken' = [broken EXCEPT ![holds[p].id] = IF holds[p].sent THEN @ + 1 ELSE @]
      BY <2>1, HoldsEvent DEF Interrupted
    <3> QED
      BY <3>1
  <2>5. failures' \in 0..MaxFailures
    BY <2>1, OutboxAssumption DEF Interrupted
  <2>6. todo' \in [Publishers -> SUBSET Events]
    <3>1. CASE Fail(p)
      BY <3>1 DEF Fail
    <3>2. CASE Crash(p)
      BY <3>2 DEF Crash
    <3> QED
      BY <1>11, <3>1, <3>2
  <2> QED
    BY <2>1, <2>2, <2>3, <2>4, <2>5, <2>6 DEF Interrupted, watching
<1>12. ASSUME NEW t \in Screens, Fetch(t)
       PROVE  TypeOK'
  BY <1>12 DEF Fetch, rows, publishing
<1>13. ASSUME NEW t \in Screens, Heartbeat(t)
       PROVE  TypeOK'
  BY <1>13, LatestIs DEF LatestNewest, Heartbeat, rows, publishing
<1> QED
  BY <1>1, <1>2, <1>3, <1>4, <1>5, <1>6, <1>7, <1>8, <1>9, <1>10, <1>11, <1>12, <1>13
     DEF Next

\* The state is well-typed in every behaviour of the outbox.
THEOREM TypeCorrect == Spec => []TypeOK
<1>1. TypeOK /\ [Next]_vars => TypeOK'
  BY TypeStep
<1> QED
  BY <1>1, TypeInit, PTL DEF Spec

-----------------------------------------------------------------------------
(* Each event is sent once.                                                *)

\* A publisher has sent event i and not yet recorded it.
Sending(i) == \E p \in Publishers : holds[p].id = i /\ holds[p].sent

Settled(i) == event[i].state \in {"PUBLISHED", "GONE"}

\* A row is locked by one publisher.
HeldAlone ==
  \A p, q \in Publishers : holds[p].id # 0 /\ holds[p].id = holds[q].id => p = q

\* A locked row is due, and stays so as long as it is locked.
HeldDue ==
  \A p \in Publishers :
    /\ holds[p].id = 0 => ~holds[p].sent
    /\ holds[p].id # 0 => event[holds[p].id].state = "PENDING"

\* An event that is neither dealt with nor being sent was only sent by publishers that
\* were then stopped.
Counted ==
  \A i \in Events :
    /\ sent[i] <= 1 + broken[i]
    /\ ~Settled(i) /\ ~Sending(i) => sent[i] <= broken[i]
    /\ event[i].state = "PUBLISHED" \/ Sending(i) => sent[i] > 0

OnceInv == TypeOK /\ HeldAlone /\ HeldDue /\ Counted

LEMMA OnceInit == Init => OnceInv
<1> SUFFICES ASSUME Init PROVE OnceInv
  OBVIOUS
<1>1. /\ \A p \in Publishers : holds[p].id = 0 /\ ~holds[p].sent
      /\ \A i \in Events : event[i].state = "NONE" /\ sent[i] = 0 /\ broken[i] = 0
  BY DEF Init, Free
<1>2. \A i \in Events : ~Sending(i)
  BY <1>1 DEF Sending
<1>3. HeldAlone /\ HeldDue
  BY <1>1 DEF HeldAlone, HeldDue
<1>4. Counted
  BY <1>1, <1>2 DEF Counted
<1> QED
  BY TypeInit, <1>3, <1>4 DEF OnceInv

\* A step that leaves the publishers alone keeps the invariant if it changes no event
\* that is locked and neither publishes an event nor brings one back.
LEMMA OnceRows ==
  ASSUME OnceInv, TypeOK', UNCHANGED <<holds, sent, broken>>,
         \A i \in Events :
           /\ Held(i) => event'[i].state = event[i].state
           /\ event'[i].state = "PUBLISHED" => event[i].state = "PUBLISHED"
           /\ event[i].state \in {"PUBLISHED", "GONE"} =>
                event'[i].state \in {"PUBLISHED", "GONE"}
  PROVE  OnceInv'
<1>1. HeldAlone'
  BY DEF OnceInv, HeldAlone
<1>2. HeldDue'
  <2> SUFFICES ASSUME NEW p \in Publishers, holds[p].id # 0
               PROVE  event'[holds[p].id].state = "PENDING"
    BY DEF OnceInv, HeldDue
  <2>1. Held(holds[p].id) /\ holds[p].id \in Events
    BY HoldsEvent DEF Held, OnceInv
  <2> QED
    BY <2>1 DEF OnceInv, HeldDue
<1>3. \A i \in Events : Sending(i)' <=> Sending(i)
  BY DEF Sending
<1>4. Counted'
  BY <1>3 DEF OnceInv, Counted, Settled
<1> QED
  BY <1>1, <1>2, <1>4 DEF OnceInv

\* An event that is not due is not locked.
LEMMA NotDueFree ==
  ASSUME OnceInv, NEW i \in Events, event[i].state # "PENDING"
  PROVE  ~Held(i)
BY OutboxAssumption DEF OnceInv, HeldDue, Held, Events

\* Every step of a transaction or a back-off keeps it.
LEMMA OnceCommit ==
  ASSUME OnceInv, TypeOK',
         \/ \E o \in Orders, i \in Events : Command(o, i) \/ Draw(o, i) \/ Delete(o, i)
         \/ \E i \in Events : CommitDrawn(i) \/ BackOff(i)
  PROVE  OnceInv'
<1> USE DEF OnceInv, TypeOK
<1>1. ASSUME NEW o \in Orders, NEW i \in Events, Command(o, i) \/ Draw(o, i)
      PROVE  OnceInv'
  <2>1. event[i].state = "NONE" /\ ~Held(i)
    BY <1>1, NotDueFree DEF Command, Draw, IsNext
  <2>2. event'[i].state \in {"PENDING", "DRAWN"} /\ \A j \in Events : j # i => event'[j] = event[j]
    BY <1>1 DEF Command, Draw
  <2>3. UNCHANGED <<holds, sent, broken>>
    BY <1>1 DEF Command, Draw, publishing
  <2> QED
    BY <2>1, <2>2, <2>3, OnceRows
<1>2. ASSUME NEW o \in Orders, NEW i \in Events, Delete(o, i)
      PROVE  OnceInv'
  <2>1. event[i].state = "NONE" /\ ~Held(i)
    BY <1>2, NotDueFree DEF Delete, IsNext
  <2>2. event'[i].state = "PENDING"
    BY <1>2 DEF Delete
  <2>3. \A j \in Events :
          \/ j = i \/ event'[j] = event[j]
          \/ /\ ~Held(j)
             /\ event'[j].state = "GONE"
    <3> SUFFICES ASSUME NEW j \in Events, j # i, event'[j] # event[j]
                 PROVE  ~Held(j) /\ event'[j].state = "GONE"
      OBVIOUS
    <3>1. event[j].order = o /\ event'[j] = [event[j] EXCEPT !.state = "GONE"]
      BY <1>2 DEF Delete
    <3>2. ~Held(j)
      BY <1>2, <3>1 DEF Delete, EventsUnlocked
    <3> QED
      BY <3>1, <3>2 DEF EventRow
  <2>4. UNCHANGED <<holds, sent, broken>>
    BY <1>2 DEF Delete, publishing
  <2> QED
    BY <2>1, <2>2, <2>3, <2>4, OnceRows
<1>3. ASSUME NEW i \in Events, CommitDrawn(i) \/ BackOff(i)
      PROVE  OnceInv'
  <2>1. event[i].state \in {"DRAWN", "WAITING"} /\ ~Held(i)
    BY <1>3, NotDueFree DEF CommitDrawn, BackOff
  <2>2. event'[i].state = "PENDING" /\ \A j \in Events : j # i => event'[j] = event[j]
    BY <1>3 DEF CommitDrawn, BackOff, EventRow
  <2>3. UNCHANGED <<holds, sent, broken>>
    BY <1>3 DEF CommitDrawn, BackOff, publishing
  <2> QED
    BY <2>1, <2>2, <2>3, OnceRows
<1> QED
  BY <1>1, <1>2, <1>3

\* Taking a listed event locks a row that nobody has locked.
LEMMA OnceTake ==
  ASSUME OnceInv, TypeOK', NEW p \in Publishers, Take(p)
  PROVE  OnceInv'
<1> USE DEF OnceInv, TypeOK
<1>1. PICK i \in Events : i = Min(todo[p]) /\ ~Held(i)
  BY OldestListed DEF Take
<1>0. holds[p].id = 0 /\ ~holds[p].sent
  BY FreeType DEF Take
<1>2. UNCHANGED <<event, sent, broken>>
  BY DEF Take, rows
<1>3. /\ \A q \in Publishers : q # p => holds'[q] = holds[q]
      /\ ~holds'[p].sent
      /\ holds'[p].id # 0 => holds'[p].id = i /\ event[i].state = "PENDING"
  <2>1. holds' = [holds EXCEPT ![p] = IF StillDue(i) THEN [id |-> i, sent |-> FALSE] ELSE holds[p]]
    BY <1>1 DEF Take
  <2>2. \A q \in Publishers : q # p => holds'[q] = holds[q]
    BY <2>1
  <2>3. CASE StillDue(i)
    <3>1. holds'[p] = [id |-> i, sent |-> FALSE]
      BY <2>1, <2>3
    <3> QED
      BY <2>2, <2>3, <3>1 DEF StillDue
  <2>4. CASE ~StillDue(i)
    <3>1. holds'[p] = holds[p]
      BY <2>1, <2>4
    <3> QED
      BY <2>2, <3>1, <1>0
  <2> QED
    BY <2>3, <2>4
<1>4. HeldAlone'
  <2>1. i # 0
    BY <1>1, OutboxAssumption DEF Events
  <2> QED
    BY <1>1, <1>3, <2>1 DEF HeldAlone, Held
<1>5. HeldDue'
  BY <1>2, <1>3 DEF HeldDue
<1>6. \A j \in Events : Sending(j)' <=> Sending(j)
  BY <1>0, <1>3 DEF Sending
<1>7. Counted'
  BY <1>2, <1>6 DEF Counted, Settled
<1> QED
  BY <1>4, <1>5, <1>7

\* Sending: the publisher had not sent the event, so nobody had.
LEMMA OnceSend ==
  ASSUME OnceInv, TypeOK', NEW p \in Publishers, NEW reached \in SUBSET Screens,
         Send(p, reached)
  PROVE  OnceInv'
<1> USE DEF OnceInv
<1>1. PICK i \in Events : i = holds[p].id /\ i # 0 /\ ~holds[p].sent
  BY HoldsEvent DEF Send
<1>2. UNCHANGED <<event, broken>>
  BY DEF Send, rows
<1>3. /\ \A q \in Publishers : q # p => holds'[q] = holds[q]
      /\ holds'[p].sent /\ holds'[p].id = i
  BY <1>1 DEF Send, TypeOK, Hold
<1>4. /\ sent'[i] = sent[i] + 1
      /\ \A j \in Events : j # i => sent'[j] = sent[j]
  BY <1>1 DEF Send, TypeOK
<1>5. HeldAlone'
  BY <1>1, <1>3 DEF HeldAlone
<1>6. HeldDue'
  BY <1>1, <1>2, <1>3 DEF HeldDue
<1>7. ~Sending(i) /\ ~Settled(i)
  BY <1>1 DEF Sending, Settled, HeldAlone, HeldDue
<1>8. Sending(i)' /\ \A j \in Events : j # i => (Sending(j)' <=> Sending(j))
  BY <1>1, <1>3 DEF Sending
<1>9. sent[i] \in Nat /\ broken[i] \in Nat /\ sent[i] <= broken[i]
  BY <1>1, <1>7 DEF Counted, TypeOK
<1>10. Counted'
  <2> SUFFICES ASSUME NEW j \in Events
               PROVE  /\ sent'[j] <= 1 + broken[j]
                      /\ ~Settled(j) /\ ~Sending(j)' => sent'[j] <= broken[j]
                      /\ event[j].state = "PUBLISHED" \/ Sending(j)' => sent'[j] > 0
    BY <1>2 DEF Counted, Settled
  <2>1. CASE j = i
    BY <2>1, <1>4, <1>8, <1>9
  <2>2. CASE j # i
    BY <2>2, <1>4, <1>8 DEF Counted
  <2> QED
    BY <2>1, <2>2
<1> QED
  BY <1>5, <1>6, <1>10

\* Recording what was sent, or that a publisher was stopped, unlocks the row.
LEMMA OnceRelease ==
  ASSUME OnceInv, TypeOK', NEW p \in Publishers, Finish(p) \/ Fail(p) \/ Crash(p)
  PROVE  OnceInv'
<1> USE DEF OnceInv
<1>1. PICK i \in Events : i = holds[p].id /\ i # 0 /\ event[i].state = "PENDING"
  BY HoldsEvent, FreeType DEF Finish, Fail, Crash, Interrupted, HeldDue
<1>2. /\ holds' = [holds EXCEPT ![p] = Free] /\ sent' = sent
      /\ \A j \in Events : j # i => event'[j] = event[j] /\ broken'[j] = broken[j]
  BY <1>1 DEF Finish, Fail, Crash, Interrupted, TypeOK
<1>3. /\ \A q \in Publishers : q # p => holds'[q] = holds[q] /\ holds[q].id # i
      /\ holds'[p].id = 0 /\ ~holds'[p].sent
  BY <1>1, <1>2, FreeType DEF TypeOK, HeldAlone
<1>4. HeldAlone'
  BY <1>3 DEF HeldAlone
<1>5. HeldDue'
  <2> SUFFICES ASSUME NEW q \in Publishers, q # p
               PROVE  /\ holds[q].id = 0 => ~holds[q].sent
                      /\ holds[q].id # 0 => event'[holds[q].id].state = "PENDING"
    BY <1>3 DEF HeldDue
  <2>1. holds[q].id # 0 => holds[q].id \in Events /\ holds[q].id # i
    BY <1>3, HoldsEvent
  <2> QED
    BY <2>1, <1>2 DEF HeldDue
<1>6. ~Sending(i)' /\ \A j \in Events : j # i => (Sending(j)' <=> Sending(j))
  BY <1>1, <1>3 DEF Sending
<1>7. Sending(i) <=> holds[p].sent
  BY <1>1, <1>3 DEF Sending
<1>8. /\ sent'[i] <= 1 + broken'[i]
      /\ ~Settled(i)' => sent'[i] <= broken'[i]
      /\ event'[i].state = "PUBLISHED" => sent'[i] > 0
  <2>1. sent[i] \in Nat /\ broken[i] \in Nat
    BY <1>1 DEF TypeOK
  <2>2. /\ sent[i] <= 1 + broken[i]
        /\ ~holds[p].sent => sent[i] <= broken[i]
        /\ holds[p].sent => sent[i] > 0
    BY <1>1, <1>7 DEF Counted, Settled
  <2>3. CASE Finish(p)
    <3>1. event'[i].state = "PUBLISHED" /\ broken' = broken /\ holds[p].sent
      BY <2>3, <1>1 DEF Finish, TypeOK, EventRow
    <3> QED
      BY <3>1, <2>1, <2>2, <1>2 DEF Settled
  <2>4. CASE Fail(p) \/ Crash(p)
    <3>1. broken'[i] = IF holds[p].sent THEN broken[i] + 1 ELSE broken[i]
      BY <2>4, <1>1 DEF Fail, Crash, Interrupted, TypeOK
    <3>2. event'[i].state # "PUBLISHED"
      BY <2>4, <1>1 DEF Fail, Crash, TypeOK, EventRow, AfterError
    <3> QED
      BY <3>1, <3>2, <2>1, <2>2, <1>2
  <2> QED
    BY <2>3, <2>4
<1>9. ASSUME NEW j \in Events, j # i
      PROVE  /\ sent'[j] <= 1 + broken'[j]
             /\ ~Settled(j)' /\ ~Sending(j)' => sent'[j] <= broken'[j]
             /\ event'[j].state = "PUBLISHED" \/ Sending(j)' => sent'[j] > 0
  <2>1. event'[j] = event[j] /\ broken'[j] = broken[j] /\ sent'[j] = sent[j]
    BY <1>2, <1>9
  <2>2. Sending(j)' <=> Sending(j)
    BY <1>6, <1>9
  <2> QED
    BY <2>1, <2>2 DEF Counted, Settled
<1>10. Counted'
  BY <1>6, <1>8, <1>9 DEF Counted
<1> QED
  BY <1>4, <1>5, <1>10

\* The steps that touch neither the events nor the publishers' locks keep it.
LEMMA OnceElsewhere ==
  ASSUME OnceInv, TypeOK', UNCHANGED <<event, holds, sent, broken>>
  PROVE  OnceInv'
<1>1. \A i \in Events : event'[i] = event[i]
  OBVIOUS
<1> QED
  BY <1>1, OnceRows

\* Every step keeps the invariant.
LEMMA OnceStep ==
  ASSUME OnceInv, [Next]_vars
  PROVE  OnceInv'
<1>0. TypeOK'
  BY TypeStep DEF OnceInv
<1>1. CASE UNCHANGED vars
  BY <1>0, <1>1, OnceElsewhere DEF vars, rows, publishing
<1>2. CASE \/ \E o \in Orders, i \in Events : Command(o, i) \/ Draw(o, i) \/ Delete(o, i)
           \/ \E i \in Events : CommitDrawn(i) \/ BackOff(i)
  BY <1>0, <1>2, OnceCommit
<1>3. ASSUME NEW p \in Publishers, List(p)
      PROVE  OnceInv'
  BY <1>0, <1>3, OnceElsewhere DEF List, rows
<1>4. ASSUME NEW p \in Publishers, Take(p) \/ Finish(p) \/ Fail(p) \/ Crash(p)
      PROVE  OnceInv'
  BY <1>0, <1>4, OnceTake, OnceRelease
<1>5. ASSUME NEW p \in Publishers, NEW reached \in SUBSET Screens, Send(p, reached)
      PROVE  OnceInv'
  BY <1>0, <1>5, OnceSend
<1>6. ASSUME NEW t \in Screens, Fetch(t) \/ Heartbeat(t)
      PROVE  OnceInv'
  BY <1>0, <1>6, OnceElsewhere DEF Fetch, Heartbeat, rows, publishing
<1> QED
  BY <1>1, <1>2, <1>3, <1>4, <1>5, <1>6 DEF Next

\* Invariant of every behaviour.
LEMMA OnceInvariant == Spec => []OnceInv
<1>1. OnceInv /\ [Next]_vars => OnceInv'
  BY OnceStep
<1> QED
  BY <1>1, OnceInit, PTL DEF Spec

\* publish_pos_events: however many runs overlap, an event is sent again only after a
\* run was stopped between sending it and recording that it had.
THEOREM SentOncePerBreak == Spec => []SentOnce
<1>1. OnceInv => SentOnce
  BY DEF OnceInv, Counted, SentOnce
<1> QED
  BY <1>1, OnceInvariant, PTL

\* An event is recorded as published only after it was sent.
THEOREM PublishedOnlyIfSent == Spec => []PublishedWasSent
<1>1. OnceInv => PublishedWasSent
  BY DEF OnceInv, Counted, PublishedWasSent
<1> QED
  BY <1>1, OnceInvariant, PTL

-----------------------------------------------------------------------------
(* Nothing of an order follows its deletion.                               *)

\* An event that tells of a deletion is the last of its order: the order is deleted, and
\* the other events of the order are gone.
DeletedLast ==
  \A d, i \in Events :
    event[d].kind = "DELETED" =>
      /\ order[event[d].order] = "DELETED" /\ event[d].state # "NONE"
      /\ i # d /\ event[i].order = event[d].order => event[i].state \in {"NONE", "GONE"}

LEMMA DeletedInit == Init => DeletedLast
BY DEF Init, DeletedLast

\* Every step keeps it.
LEMMA DeletedStep ==
  ASSUME OnceInv, DeletedLast, [Next]_vars
  PROVE  DeletedLast'
<1> USE DEF TypeOK, OnceInv
<1>1. ASSUME UNCHANGED <<event, order>>
      PROVE  DeletedLast'
  BY <1>1 DEF DeletedLast
<1>2. ASSUME NEW o \in Orders, NEW i \in Events, Command(o, i) \/ Draw(o, i)
      PROVE  DeletedLast'
  <2>1. /\ order[o] # "DELETED" /\ event[i].state = "NONE"
        /\ event'[i].order = o /\ event'[i].kind = "CHANGED"
        /\ \A j \in Events : j # i => event'[j] = event[j]
    BY <1>2 DEF Command, Draw, IsNext
  <2>2. \A oo \in Orders : order[oo] = "DELETED" => order'[oo] = "DELETED"
    BY <1>2, <2>1 DEF Command, Draw
  <2>3. SUFFICES ASSUME NEW d \in Events, NEW j \in Events, event'[d].kind = "DELETED"
                 PROVE  /\ order'[event'[d].order] = "DELETED" /\ event'[d].state # "NONE"
                        /\ j # d /\ event'[j].order = event'[d].order
                             => event'[j].state \in {"NONE", "GONE"}
    BY DEF DeletedLast
  <2>4. d # i /\ event'[d] = event[d] /\ event[d].order \in Orders
    BY <2>1, <2>3 DEF EventRow
  <2>5. order[event[d].order] = "DELETED" /\ event[d].state # "NONE"
    BY <2>3, <2>4 DEF DeletedLast
  <2>6. j # d /\ event'[j].order = event'[d].order => event'[j].state \in {"NONE", "GONE"}
    BY <2>1, <2>3, <2>4, <2>5 DEF DeletedLast
  <2> QED
    BY <2>2, <2>4, <2>5, <2>6
<1>3. ASSUME NEW o \in Orders, NEW i \in Events, Delete(o, i)
      PROVE  DeletedLast'
  <2>1. order[o] = "LIVE" /\ event[i].state = "NONE"
    BY <1>3 DEF Delete, IsNext
  <2>2. /\ event'[i].order = o /\ event'[i].state = "PENDING"
        /\ order' = [order EXCEPT ![o] = "DELETED"]
    BY <1>3 DEF Delete
  <2>3. ASSUME NEW j \in Events, j # i, event[j].order = o
        PROVE  event'[j].state \in {"NONE", "GONE"} /\ event'[j].order = o
    <3>1. event[j].state # "DRAWN"
      BY <1>3, <2>3 DEF Delete, Drawn
    <3>2. event'[j] = IF Committed(j) THEN [event[j] EXCEPT !.state = "GONE"] ELSE event[j]
      BY <1>3, <2>3 DEF Delete
    <3> QED
      BY <3>1, <3>2, <2>3 DEF Committed, EventRow
  <2>4. \A j \in Events : j # i /\ event[j].order # o => event'[j] = event[j]
    BY <1>3 DEF Delete
  <2>5. \A j \in Events : event[j].kind = "DELETED" => event[j].order # o /\ j # i
    BY <2>1 DEF DeletedLast
  <2>6. SUFFICES ASSUME NEW d \in Events, NEW j \in Events, event'[d].kind = "DELETED"
                 PROVE  /\ order'[event'[d].order] = "DELETED" /\ event'[d].state # "NONE"
                        /\ j # d /\ event'[j].order = event'[d].order
                             => event'[j].state \in {"NONE", "GONE"}
    BY DEF DeletedLast
  <2>7. CASE d = i
    BY <2>2, <2>3, <2>4, <2>7 DEF EventRow
  <2>8. CASE d # i
    <3>1. event[d].kind = "DELETED"
      <4>1. event'[d] = event[d] \/ event'[d] = [event[d] EXCEPT !.state = "GONE"]
        BY <1>3, <2>8 DEF Delete
      <4> QED
        BY <4>1, <2>6 DEF EventRow
    <3>2. event[d].order # o /\ event'[d] = event[d]
      BY <3>1, <2>4, <2>5, <2>8
    <3>3. order[event[d].order] = "DELETED" /\ event[d].state # "NONE"
      BY <3>1 DEF DeletedLast
    <3>4. event[d].order \in Orders
      BY DEF EventRow
    <3>5. order'[event[d].order] = "DELETED"
      BY <2>2, <3>2, <3>3, <3>4
    <3>6. j # d /\ event'[j].order = event'[d].order => event'[j].state \in {"NONE", "GONE"}
      BY <2>2, <2>3, <2>4, <3>1, <3>2 DEF DeletedLast
    <3> QED
      BY <3>2, <3>3, <3>5, <3>6
  <2> QED
    BY <2>7, <2>8
<1>4. ASSUME UNCHANGED order, NEW i \in Events,
             event[i].state \notin {"NONE", "GONE"}, NEW s \in {"PENDING", "WAITING", "PUBLISHED"},
             event' = [event EXCEPT ![i].state = s]
      PROVE  DeletedLast'
  <2>1. /\ event'[i].state = s /\ event'[i].order = event[i].order
        /\ event'[i].kind = event[i].kind
        /\ \A j \in Events : j # i => event'[j] = event[j]
    BY <1>4 DEF EventRow
  <2>2. SUFFICES ASSUME NEW d \in Events, NEW j \in Events, event'[d].kind = "DELETED"
                 PROVE  /\ order[event'[d].order] = "DELETED" /\ event'[d].state # "NONE"
                        /\ j # d /\ event'[j].order = event'[d].order
                             => event'[j].state \in {"NONE", "GONE"}
    BY <1>4 DEF DeletedLast
  <2>3. event[d].kind = "DELETED" /\ event'[d].order = event[d].order
    BY <2>1, <2>2
  <2>4. event'[d].state # "NONE" /\ order[event'[d].order] = "DELETED"
    BY <1>4, <2>1, <2>3 DEF DeletedLast
  <2>5. j # d /\ event[j].order = event[d].order => j # i /\ event[j].state \in {"NONE", "GONE"}
    BY <1>4, <2>3 DEF DeletedLast
  <2>6. event'[j].order = event[j].order
    BY <2>1
  <2> QED
    BY <2>1, <2>3, <2>4, <2>5, <2>6
<1>5. CASE UNCHANGED vars
  BY <1>1, <1>5 DEF vars, rows
<1>6. ASSUME NEW i \in Events, CommitDrawn(i) \/ BackOff(i)
      PROVE  DeletedLast'
  BY <1>4, <1>6 DEF CommitDrawn, BackOff
<1>7. ASSUME NEW p \in Publishers, Finish(p) \/ Fail(p)
      PROVE  DeletedLast'
  <2>1. holds[p].id # 0
    BY <1>7 DEF Finish, Fail, Interrupted, HeldDue
  <2>2. PICK i \in Events : i = holds[p].id /\ event[i].state = "PENDING"
    BY <2>1, HoldsEvent DEF HeldDue
  <2>3. CASE Finish(p)
    BY <1>4, <2>2, <2>3 DEF Finish
  <2>4. CASE Fail(p)
    BY <1>4, <2>2, <2>4 DEF Fail, Interrupted, AfterError
  <2> QED
    BY <1>7, <2>3, <2>4
<1>8. ASSUME NEW p \in Publishers, List(p) \/ Take(p) \/ Crash(p)
      PROVE  DeletedLast'
  BY <1>1, <1>8 DEF List, Take, Crash, Interrupted, rows
<1>9. ASSUME NEW p \in Publishers, NEW reached \in SUBSET Screens, Send(p, reached)
      PROVE  DeletedLast'
  BY <1>1, <1>9 DEF Send, rows
<1>10. ASSUME NEW t \in Screens, Fetch(t) \/ Heartbeat(t)
       PROVE  DeletedLast'
  BY <1>1, <1>10 DEF Fetch, Heartbeat, rows
<1> HIDE DEF TypeOK, OnceInv
<1> QED
  BY <1>2, <1>3, <1>5, <1>6, <1>7, <1>8, <1>9, <1>10 DEF Next

LEMMA DeletedInvariant == Spec => []DeletedLast
<1>1. OnceInv /\ DeletedLast /\ [Next]_vars => DeletedLast'
  BY DeletedStep
<1> QED
  BY <1>1, DeletedInit, OnceInvariant, PTL DEF Spec

\* Only an event that is due is sent.
LEMMA SendsDue ==
  ASSUME OnceInv, [Next]_vars, NEW i \in Events, sent'[i] # sent[i]
  PROVE  event[i].state = "PENDING"
<1>1. PICK p \in Publishers : \E reached \in SUBSET Screens : Send(p, reached)
  BY DEF Next, Command, Draw, Delete, CommitDrawn, BackOff, List, Take, Finish, Fail, Crash,
         Interrupted, Fetch, Heartbeat, vars, publishing
<1>2. /\ holds[p].id # 0
      /\ sent' = [sent EXCEPT ![holds[p].id] = @ + 1]
  BY <1>1 DEF Send
<1>3. i = holds[p].id
  BY <1>2 DEF OnceInv, TypeOK
<1> QED
  BY <1>2, <1>3 DEF OnceInv, HeldDue

\* delete_order: once the screens were told that an order is deleted, no older event of
\* it is sent any more.
THEOREM DeletionIsLast == Spec => SilentAfterDeletion
<1>1. ASSUME OnceInv, DeletedLast, [Next]_vars
      PROVE  [\A d \in Events :
                event[d].kind = "DELETED" /\ sent[d] > 0 =>
                  \A i \in Events :
                    i # d /\ event[i].order = event[d].order => sent'[i] = sent[i]]_vars
  <2>1. ASSUME NEW d \in Events, NEW i \in Events, event[d].kind = "DELETED", i # d,
               event[i].order = event[d].order
        PROVE  sent'[i] = sent[i]
    <3>1. event[i].state \in {"NONE", "GONE"}
      BY <1>1, <2>1 DEF DeletedLast
    <3> QED
      BY <1>1, <3>1, SendsDue
  <2> QED
    BY <2>1
<1>2. OnceInv /\ DeletedLast /\ [Next]_vars =>
        [\A d \in Events :
           event[d].kind = "DELETED" /\ sent[d] > 0 =>
             \A i \in Events :
               i # d /\ event[i].order = event[d].order => sent'[i] = sent[i]]_vars
  BY <1>1
<1> QED
  BY <1>2, OnceInvariant, DeletedInvariant, PTL DEF Spec, SilentAfterDeletion

-----------------------------------------------------------------------------
(* Heartbeats recover what was missed.                                     *)

\* Events are stamped one after the other.
Prefix ==
  \A i, j \in Events : j < i /\ event[i].state # "NONE" => event[j].state # "NONE"

\* The revision a screen knows is that of an event that was committed.
KnownPast ==
  \A t \in Screens : known[t] # 0 => event[known[t]].state \notin {"NONE", "DRAWN"}

RecoverInv == TypeOK /\ Prefix /\ KnownPast /\ RecoversInOrder

LEMMA RecoverInit == Init => RecoverInv
<1> SUFFICES ASSUME Init PROVE RecoverInv
  OBVIOUS
<1>1. Prefix /\ KnownPast
  BY DEF Init, Prefix, KnownPast
<1>2. RecoversInOrder
  BY DEF Init, RecoversInOrder, HeartbeatRecovers
<1> QED
  BY TypeInit, <1>1, <1>2 DEF RecoverInv

\* A step that commits no event and changes nothing of the screens keeps it.
LEMMA RecoverQuiet ==
  ASSUME RecoverInv, TypeOK', UNCHANGED <<changes, overtaken, screen, known>>,
         \A t \in Screens : dirty[t] => dirty'[t],
         \A i \in Events : Committed(i)' <=> Committed(i),
         \A i \in Events : event[i].state # "NONE" => event'[i].state # "NONE",
         \A i \in Events : event[i].state \notin {"NONE", "DRAWN"} =>
                           event'[i].state \notin {"NONE", "DRAWN"},
         Prefix'
  PROVE  RecoverInv'
<1>1. KnownPast'
  <2> SUFFICES ASSUME NEW t \in Screens, known[t] # 0
               PROVE  event'[known[t]].state \notin {"NONE", "DRAWN"}
    BY DEF KnownPast
  <2>1. known[t] \in Events
    BY OutboxAssumption DEF RecoverInv, TypeOK, Events
  <2> QED
    BY <2>1 DEF RecoverInv, KnownPast
<1>2. Latest' = Latest
  <2>1. {i \in Events : Committed(i)'} = {i \in Events : Committed(i)}
    OBVIOUS
  <2>2. (\E i \in Events : Committed(i)') <=> (\E i \in Events : Committed(i))
    OBVIOUS
  <2> QED
    BY <2>1, <2>2, Zenon DEF Latest
<1>3. RecoversInOrder'
  BY <1>2 DEF RecoverInv, RecoversInOrder, HeartbeatRecovers
<1> QED
  BY <1>1, <1>3 DEF RecoverInv

\* A step that commits the newest event changes the revision to one no screen knows.
LEMMA RecoverCommit ==
  ASSUME RecoverInv, TypeOK', UNCHANGED <<screen, dirty, known>>,
         NEW i \in Events, event[i].state \in {"NONE", "DRAWN"}, Committed(i)',
         overtaken' \/ \A j \in Events : j > i => ~Committed(j)',
         \A j \in Events : event[j].state \notin {"NONE", "DRAWN"} =>
                           event'[j].state \notin {"NONE", "DRAWN"},
         Prefix'
  PROVE  RecoverInv'
<1>1. KnownPast'
  <2> SUFFICES ASSUME NEW t \in Screens, known[t] # 0
               PROVE  event'[known[t]].state \notin {"NONE", "DRAWN"}
    BY DEF KnownPast
  <2>1. known[t] \in Events
    BY OutboxAssumption DEF RecoverInv, TypeOK, Events
  <2> QED
    BY <2>1 DEF RecoverInv, KnownPast
<1>2. /\ Latest' \in 0..MaxEvents
      /\ \A j \in Events : Committed(j)' => Latest' >= j
      /\ Latest' # 0 => Latest' \in Events /\ Committed(Latest)'
  <2>1. LatestNewest'
    BY LatestIs, PTL
  <2> QED
    BY <2>1 DEF LatestNewest
<1>3. ASSUME ~overtaken'
      PROVE  \A t \in Screens : known[t] # Latest'
  <2>1. i \in Nat /\ i > 0 /\ Latest' >= i
    BY <1>2, OutboxAssumption DEF Events
  <2>2. Latest' \in Events /\ Committed(Latest)'
    BY <1>2, <2>1
  <2>3. Latest' = i
    BY <1>2, <1>3, <2>1, <2>2, OutboxAssumption DEF Committed
  <2>4. \A t \in Screens : known[t] # i
    BY <2>1 DEF RecoverInv, KnownPast
  <2> QED
    BY <2>3, <2>4
<1>4. RecoversInOrder'
  BY <1>3 DEF RecoversInOrder, HeartbeatRecovers
<1> QED
  BY <1>1, <1>4 DEF RecoverInv

\* A transaction that commits as it stamps commits the newest event.
LEMMA RecoverStamp ==
  ASSUME RecoverInv, TypeOK', NEW o \in Orders, NEW i \in Events,
         Command(o, i) \/ Delete(o, i)
  PROVE  RecoverInv'
<1>1. event[i].state = "NONE" /\ \A j \in Events : j < i => event[j].state # "NONE"
  BY DEF Command, Delete, IsNext
<1>2. event'[i].state = "PENDING"
  BY DEF Command, Delete, RecoverInv, TypeOK
<1>3. \A j \in Events : j # i =>
        \/ event'[j] = event[j]
        \/ /\ event[j].state # "NONE"
           /\ event'[j].state = "GONE"
  <2>1. CASE Command(o, i)
    BY <2>1 DEF Command, RecoverInv, TypeOK
  <2>2. CASE Delete(o, i)
    <3> SUFFICES ASSUME NEW j \in Events, j # i, event'[j] # event[j]
                 PROVE  event[j].state # "NONE" /\ event'[j].state = "GONE"
      OBVIOUS
    <3>1. Committed(j) /\ event'[j] = [event[j] EXCEPT !.state = "GONE"]
      BY <2>2 DEF Delete
    <3> QED
      BY <3>1 DEF Committed, RecoverInv, TypeOK, EventRow
  <2> QED
    BY <2>1, <2>2
<1>4. \A j \in Events : j > i => event'[j] = event[j] /\ event[j].state = "NONE"
  BY <1>1, <1>3, OutboxAssumption DEF RecoverInv, Prefix, Events
<1>5. Prefix'
  BY <1>1, <1>2, <1>3, <1>4, OutboxAssumption DEF RecoverInv, Prefix, Events
<1>6. Committed(i)' /\ \A j \in Events : j > i => ~Committed(j)'
  BY <1>2, <1>4 DEF Committed
<1>7. \A j \in Events : event[j].state \notin {"NONE", "DRAWN"} =>
                        event'[j].state \notin {"NONE", "DRAWN"}
  BY <1>1, <1>3
<1>8. UNCHANGED <<screen, dirty, known>>
  BY DEF Command, Delete, watching
<1> QED
  BY <1>1, <1>5, <1>6, <1>7, <1>8, RecoverCommit

\* A cancellation commits later; overtaken says whether its event is still the newest.
LEMMA RecoverDrawn ==
  ASSUME RecoverInv, TypeOK', NEW i \in Events, CommitDrawn(i)
  PROVE  RecoverInv'
<1>1. event[i].state = "DRAWN"
  BY DEF CommitDrawn
<1>2. /\ event'[i].state = "PENDING"
      /\ \A j \in Events : j # i => event'[j] = event[j]
  BY DEF CommitDrawn, RecoverInv, TypeOK, EventRow
<1>3. Prefix'
  BY <1>1, <1>2 DEF RecoverInv, Prefix
<1>4. Committed(i)'
  BY <1>2 DEF Committed
<1>5. overtaken' \/ \A j \in Events : j > i => ~Committed(j)'
  <2>1. \A j \in Events : j > i => (Committed(j)' <=> Committed(j))
    BY <1>2, OutboxAssumption DEF Committed, Events
  <2>2. overtaken' <=> (overtaken \/ \E j \in Events : j > i /\ Committed(j))
    BY DEF CommitDrawn
  <2> QED
    BY <2>1, <2>2
<1>6. UNCHANGED <<screen, dirty, known>>
  BY DEF CommitDrawn, watching
<1>7. \A j \in Events : event[j].state \notin {"NONE", "DRAWN"} =>
                        event'[j].state \notin {"NONE", "DRAWN"}
  BY <1>1, <1>2
<1> QED
  BY <1>1, <1>3, <1>4, <1>5, <1>6, <1>7, RecoverCommit

\* Stamping an event without committing it keeps it.
LEMMA RecoverDraw ==
  ASSUME RecoverInv, TypeOK', NEW o \in Orders, NEW i \in Events, Draw(o, i)
  PROVE  RecoverInv'
<1>1. event[i].state = "NONE" /\ \A j \in Events : j < i => event[j].state # "NONE"
  BY DEF Draw, IsNext
<1>2. /\ event'[i].state = "DRAWN"
      /\ \A j \in Events : j # i => event'[j] = event[j]
  BY DEF Draw, RecoverInv, TypeOK
<1>3. Prefix'
  BY <1>1, <1>2 DEF RecoverInv, Prefix
<1>4. \A j \in Events : Committed(j)' <=> Committed(j)
  BY <1>1, <1>2 DEF Committed
<1>5. UNCHANGED <<changes, overtaken, screen, known, dirty>>
  BY DEF Draw, watching
<1> QED
  BY <1>1, <1>2, <1>3, <1>4, <1>5, RecoverQuiet

\* The publishers and the back-offs commit nothing, and reach no screen that then shows
\* something else.
LEMMA RecoverPublish ==
  ASSUME OnceInv, RecoverInv, TypeOK',
         \/ \E i \in Events : BackOff(i)
         \/ \E p \in Publishers :
              \/ List(p) \/ Take(p) \/ Finish(p) \/ Fail(p) \/ Crash(p)
              \/ \E reached \in SUBSET Screens : Send(p, reached)
  PROVE  RecoverInv'
<1> DEFINE StillCommitted ==
      \A j \in Events : event'[j] = event[j] \/ (Committed(j) /\ Committed(j)')
<1>1. UNCHANGED <<changes, overtaken, screen, known>>
  BY DEF BackOff, List, Take, Finish, Fail, Crash, Interrupted, Send, rows, watching
<1>2. \A t \in Screens : dirty[t] => dirty'[t]
  BY DEF BackOff, List, Take, Finish, Fail, Crash, Interrupted, Send, watching
<1>3. StillCommitted
  <2>1. ASSUME NEW i \in Events, event[i].state \in {"PENDING", "WAITING"},
               NEW s \in {"PENDING", "WAITING", "PUBLISHED"},
               event' = [event EXCEPT ![i].state = s]
        PROVE  StillCommitted
    BY <2>1 DEF Committed, RecoverInv, TypeOK, EventRow
  <2>2. ASSUME NEW i \in Events, BackOff(i)
        PROVE  StillCommitted
    BY <2>1, <2>2 DEF BackOff
  <2>3. ASSUME NEW p \in Publishers, Finish(p) \/ Fail(p)
        PROVE  StillCommitted
    <3>1. holds[p].id # 0
      BY <2>3 DEF Finish, Fail, Interrupted, OnceInv, HeldDue
    <3>2. PICK i \in Events : i = holds[p].id /\ event[i].state = "PENDING"
      BY <3>1, HoldsEvent DEF OnceInv, HeldDue
    <3> QED
      BY <2>1, <2>3, <3>2 DEF Finish, Fail, AfterError
  <2>4. ASSUME UNCHANGED event
        PROVE  StillCommitted
    BY <2>4
  <2> HIDE DEF StillCommitted
  <2> QED
    BY <2>2, <2>3, <2>4 DEF List, Take, Crash, Send, rows
<1>4. \A j \in Events : Committed(j)' <=> Committed(j)
  BY <1>3 DEF Committed
<1>5. \A j \in Events : event[j].state \notin {"NONE", "DRAWN"} =>
                        event'[j].state \notin {"NONE", "DRAWN"}
  BY <1>3 DEF Committed
<1>6. \A j \in Events : event[j].state # "NONE" <=> event'[j].state # "NONE"
  BY <1>3 DEF Committed
<1>7. Prefix'
  BY <1>6 DEF RecoverInv, Prefix
<1> QED
  BY <1>1, <1>2, <1>4, <1>5, <1>6, <1>7, RecoverQuiet

\* A fetch shows a screen what was committed; a heartbeat that reports something new
\* makes it fetch.
LEMMA RecoverScreens ==
  ASSUME RecoverInv, TypeOK', NEW t \in Screens, Fetch(t) \/ Heartbeat(t)
  PROVE  RecoverInv'
<1>1. UNCHANGED <<event, changes, overtaken>>
  BY DEF Fetch, Heartbeat, rows
<1>2. Latest' = Latest
  BY <1>1 DEF Latest, Committed
<1>3. Prefix'
  BY <1>1 DEF RecoverInv, Prefix
<1>4. /\ \A u \in Screens : u # t => known'[u] = known[u] /\ screen'[u] = screen[u]
                                     /\ dirty'[u] = dirty[u]
      /\ known'[t] \in {known[t], Latest}
  BY DEF Fetch, Heartbeat, RecoverInv, TypeOK
<1>5. dirty'[t] \/ screen'[t] = changes
  <2>1. CASE Fetch(t)
    BY <2>1 DEF Fetch, RecoverInv, TypeOK
  <2>2. CASE Heartbeat(t)
    BY <2>2 DEF Heartbeat, RecoverInv, TypeOK
  <2> QED
    BY <2>1, <2>2
<1>6. KnownPast'
  <2>1. Latest # 0 => event[Latest].state \notin {"NONE", "DRAWN"}
    BY LatestIs DEF RecoverInv, LatestNewest, Committed
  <2> QED
    BY <1>1, <1>4, <2>1 DEF RecoverInv, KnownPast
<1>7. RecoversInOrder'
  BY <1>1, <1>2, <1>4, <1>5 DEF RecoverInv, RecoversInOrder, HeartbeatRecovers
<1> QED
  BY <1>3, <1>6, <1>7 DEF RecoverInv

\* Every step keeps it.
LEMMA RecoverStep ==
  ASSUME OnceInv, RecoverInv, [Next]_vars
  PROVE  RecoverInv'
<1>0. TypeOK'
  BY TypeStep DEF OnceInv
<1>1. CASE UNCHANGED vars
  <2>1. Prefix'
    BY <1>1 DEF RecoverInv, Prefix, vars, rows
  <2>2. UNCHANGED <<event, changes, overtaken, screen, known, dirty>>
    BY <1>1 DEF vars, rows, watching
  <2>3. \A i \in Events : Committed(i)' <=> Committed(i)
    BY <2>2 DEF Committed
  <2> QED
    BY <1>0, <2>1, <2>2, <2>3, RecoverQuiet
<1>2. ASSUME NEW o \in Orders, NEW i \in Events, Command(o, i) \/ Draw(o, i) \/ Delete(o, i)
      PROVE  RecoverInv'
  BY <1>0, <1>2, RecoverStamp, RecoverDraw
<1>3. ASSUME NEW i \in Events, CommitDrawn(i)
      PROVE  RecoverInv'
  BY <1>0, <1>3, RecoverDrawn
<1>4. CASE \/ \E i \in Events : BackOff(i)
           \/ \E p \in Publishers :
                \/ List(p) \/ Take(p) \/ Finish(p) \/ Fail(p) \/ Crash(p)
                \/ \E reached \in SUBSET Screens : Send(p, reached)
  BY <1>0, <1>4, RecoverPublish
<1>5. ASSUME NEW t \in Screens, Fetch(t) \/ Heartbeat(t)
      PROVE  RecoverInv'
  BY <1>0, <1>5, RecoverScreens
<1> QED
  BY <1>1, <1>2, <1>3, <1>4, <1>5 DEF Next

\* heartbeat.ping: as long as no event is committed after one with a later created_at, a
\* screen that knows the latest revision and has nothing to fetch is up to date.
THEOREM HeartbeatRecoversInOrder == Spec => []RecoversInOrder
<1>1. OnceInv /\ RecoverInv /\ [Next]_vars => RecoverInv'
  BY RecoverStep
<1>2. Spec => []RecoverInv
  BY <1>1, RecoverInit, OnceInvariant, PTL DEF Spec
<1>3. RecoverInv => RecoversInOrder
  BY DEF RecoverInv
<1> QED
  BY <1>2, <1>3, PTL
=============================================================================
