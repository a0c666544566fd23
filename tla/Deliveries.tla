----------------------------- MODULE Deliveries -----------------------------
(***************************************************************************)
(* The queues that leave the system: text messages with codes, pushes to   *)
(* staff devices for new orders and for chat messages, analytics events,   *)
(* and the reports built in the background.  Each is a table of rows that  *)
(* overlapping runs of a Celery task list and work through.  Text messages *)
(* and pushes are handed to the provider under the row's lock; analytics   *)
(* events and reports are claimed first, for a limited time (a lease), and *)
(* saved whole afterwards.                                                 *)
(*                                                                         *)
(* row[i]       a row: due, next_attempt_at has passed (of a CLAIMED one:  *)
(*              its lease has run out); old, the code has expired or the   *)
(*              alert is an hour old; wanted, the code is neither verified *)
(*              nor consumed; usable, the sender or the device may be      *)
(*              used; lapsed, saved, or asked for again, with a run at it  *)
(*              that had outlived its lease                                *)
(* run[k]       a task's run: the rows it listed, the one in hand, the     *)
(*              number of the attempt, and whether the provider has it     *)
(* owed[i]      hand-overs of row i its attempts do not count, but for     *)
(*              those of runs that were killed holding the row's lock      *)
(***************************************************************************)
EXTENDS Integers, FiniteSetsExt

CONSTANTS
  Rows, Runs,
  None,
  MaxAttempts        \* 4 in the code

ASSUME DeliveriesAssumption ==
  /\ None \notin Rows /\ IsFiniteSet(Runs)
  /\ MaxAttempts \in Nat /\ MaxAttempts > 1

VARIABLES row, run, owed
deliveryVars == <<row, run, owed>>

Locked == {"sms", "push", "chat"}
Leased == {"analytics", "report"}
Pushed == {"push", "chat"}
Kinds == Locked \cup Leased

Open == {"PENDING", "CLAIMED"}
Finished == {"SENT", "FAILED", "EXPIRED"}
Row == [kind: Kinds, status: {"NONE", "GONE"} \cup Open \cup Finished, attempts: Nat,
        due: BOOLEAN, old: BOOLEAN, wanted: BOOLEAN, usable: BOOLEAN, lapsed: BOOLEAN]

Resting == [task |-> None, listed |-> FALSE, todo |-> {}, row |-> None, attempt |-> 0, handed |-> FALSE]
Run == [task: Kinds \cup {None}, listed: BOOLEAN, todo: SUBSET Rows, row: Rows \cup {None},
        attempt: Nat, handed: BOOLEAN]

DeliveriesTypeOK ==
  /\ row \in [Rows -> Row]
  /\ run \in [Runs -> Run]
  /\ owed \in [Rows -> Nat]

DeliveriesInit ==
  /\ row \in [Rows -> {[kind |-> q, status |-> "NONE", attempts |-> 0, due |-> TRUE, old |-> FALSE,
                        wanted |-> TRUE, usable |-> TRUE, lapsed |-> FALSE] : q \in Kinds}]
  /\ run = [k \in Runs |-> Resting]
  /\ owed = [i \in Rows |-> 0]

-----------------------------------------------------------------------------
(* Rows are made, age and are withdrawn.                                   *)

\* A run that holds the row's lock while it waits for the provider.
InHand(i) == \E k \in Runs : run[k].row = i
RowLocked(i) == row[i].kind \in Locked /\ InHand(i)

\* The order, the chat message or the code is committed with its row; one push per
\* event and device, for the devices that may have it when the event is taken up.
Enqueue(i) ==
  /\ row[i].status = "NONE" /\ (row[i].kind \in Pushed => row[i].usable)
  /\ row' = [row EXCEPT ![i].status = "PENDING"]
  /\ UNCHANGED <<run, owed>>

ComesDue(i) ==
  /\ row[i].status \in Open /\ ~row[i].due
  /\ row' = [row EXCEPT ![i].due = TRUE]
  /\ UNCHANGED <<run, owed>>

GrowsOld(i) ==
  /\ row[i].kind \in Locked /\ row[i].status \in Open /\ ~row[i].old
  /\ row' = [row EXCEPT ![i].old = TRUE]
  /\ UNCHANGED <<run, owed>>

\* Text messages are switched on and off; a device is registered, deregistered, or
\* loses its access.
SetUsable(i, may) ==
  /\ row[i].kind \in Locked /\ row[i].status # "GONE" /\ row[i].usable # may
  /\ row' = [row EXCEPT ![i].usable = may]
  /\ UNCHANGED <<run, owed>>

CodeUsed(i) ==
  /\ row[i].kind = "sms" /\ row[i].status # "NONE" /\ row[i].wanted
  /\ row' = [row EXCEPT ![i].wanted = FALSE]
  /\ UNCHANGED <<run, owed>>

\* Deleting an order takes its pushes and its analytics events with it.
OrderDeleted(i) ==
  /\ row[i].kind \in {"push", "analytics"} /\ row[i].status \in Open \cup Finished
  /\ ~RowLocked(i)
  /\ row' = [row EXCEPT ![i].status = "GONE"]
  /\ UNCHANGED <<run, owed>>

\* prune_website_visits, days after any run has been killed by the time limit.
Prune(i) ==
  /\ \/ row[i].kind = "report" /\ row[i].status \in Open \cup Finished
     \/ row[i].kind = "analytics" /\ row[i].status = "SENT"
  /\ ~InHand(i)
  /\ row' = [row EXCEPT ![i].status = "GONE"]
  /\ UNCHANGED <<run, owed>>

\* A report asked for again.
Reopen(i) ==
  /\ row[i].kind = "report" /\ row[i].status \in {"SENT", "FAILED"}
  /\ row' = [row EXCEPT ![i].status = "PENDING", ![i].attempts = 0, ![i].due = TRUE,
                        ![i].lapsed = @ \/ InHand(i)]
  /\ UNCHANGED <<run, owed>>

-----------------------------------------------------------------------------
(* A run of a task.                                                        *)

CodeExpired(r) == r.kind = "sms" /\ r.old /\ r.status = "PENDING"
LeaseOver(r) == r.kind \in Leased /\ r.due /\ r.status = "CLAIMED"

\* Claims of workers that were killed are not taken back.
Fault_ClaimsKept(r) == CodeExpired(r)

Overdue(r) == CodeExpired(r) \/ LeaseOver(r)

\* One UPDATE, which waits for the rows that are locked.
Sweepable(q) == \A i \in Rows : row[i].kind = q /\ Overdue(row[i]) => ~RowLocked(i)

Sweep(k, q) ==
  /\ run[k].task = None
  /\ Sweepable(q)
  /\ row' = [i \in Rows |->
       IF row[i].kind = q /\ Overdue(row[i])
       THEN [row[i] EXCEPT !.status = IF q = "sms" THEN "EXPIRED" ELSE "PENDING"]
       ELSE row[i]]
  /\ run' = [run EXCEPT ![k].task = q]
  /\ UNCHANGED owed

\* A report killed at its last attempt is never listed again.
Due(r) == r.status = "PENDING" /\ r.due /\ (r.kind = "report" => r.attempts < MaxAttempts)

List(k) ==
  /\ run[k].task # None /\ ~run[k].listed
  /\ run' = [run EXCEPT ![k].listed = TRUE,
                        ![k].todo = {i \in Rows : row[i].kind = run[k].task /\ Due(row[i])}]
  /\ UNCHANGED <<row, owed>>

CanTake(k, i) == run[k].row = None /\ i \in run[k].todo /\ ~RowLocked(i)

\* The row is read again under its lock, except that a report's time is not.
StillDue(r) == r.status = "PENDING" /\ (r.due \/ r.kind = "report")

\* What is given up without calling the provider, and as what: a code that is of no use
\* any more, an alert nobody may have or that is too old, an event whose workers died.
SmsVerdict(r) ==
  IF r.old \/ ~r.wanted THEN "EXPIRED" ELSE IF r.usable THEN "PENDING" ELSE "FAILED"

PushVerdict(r) == IF r.attempts >= MaxAttempts \/ r.old \/ ~r.usable THEN "FAILED" ELSE "PENDING"

EventVerdict(r) == IF r.attempts >= MaxAttempts THEN "FAILED" ELSE "PENDING"

GivenUp(r) ==
  CASE r.kind = "sms"       -> SmsVerdict(r)
    [] r.kind \in Pushed    -> PushVerdict(r)
    [] r.kind = "analytics" -> EventVerdict(r)
    [] r.kind = "report"    -> "PENDING"

Without(k, i) == [run EXCEPT ![k].todo = @ \ {i}]

Skip(k, i) ==
  /\ CanTake(k, i) /\ ~StillDue(row[i])
  /\ run' = IF row[i].status = "GONE" /\ row[i].kind # "push"
            THEN [run EXCEPT ![k] = Resting]          \* get() raises
            ELSE Without(k, i)
  /\ UNCHANGED <<row, owed>>

GiveUp(k, i) ==
  /\ CanTake(k, i) /\ StillDue(row[i])
  /\ GivenUp(row[i]) # "PENDING"
  /\ row' = [row EXCEPT ![i].status = GivenUp(row[i])]
  /\ run' = Without(k, i)
  /\ UNCHANGED owed

\* What a claim commits before the lock is let go; the others hold on to the lock.
Claimed(r) ==
  IF r.kind \in Leased
  THEN [r EXCEPT !.status = "CLAIMED", !.attempts = @ + 1, !.due = FALSE]
  ELSE r

Take(k, i) ==
  /\ CanTake(k, i) /\ StillDue(row[i])
  /\ GivenUp(row[i]) = "PENDING"
  /\ row' = [row EXCEPT ![i] = Claimed(@)]
  /\ run' = [Without(k, i) EXCEPT ![k].row = i, ![k].attempt = row[i].attempts + 1]
  /\ UNCHANGED owed

Counted(k, i) == row[i].attempts >= run[k].attempt

HandOver(k) ==
  LET i == run[k].row IN
  /\ i # None /\ ~run[k].handed
  /\ run' = [run EXCEPT ![k].handed = TRUE]
  /\ owed' = [owed EXCEPT ![i] = @ + (IF Counted(k, i) \/ row[i].lapsed THEN 0 ELSE 1)]
  /\ UNCHANGED row

\* The attempt of which a failure is the last.
LastAttempt(q) == IF q = "report" THEN MaxAttempts - 1 ELSE MaxAttempts

Fault_RetriedForever(q, attempt, answer) ==
  CASE answer = "accepted" -> "SENT"
    [] answer = "refused"  -> "FAILED"
    [] answer = "error"    -> "PENDING"

Outcome(q, attempt, answer) ==
  CASE answer = "accepted" -> "SENT"
    [] answer = "refused"  -> "FAILED"
    [] answer = "error"    -> IF attempt >= LastAttempt(q) THEN "FAILED" ELSE "PENDING"

\* "refused": an answer that is not worth a retry; of a device, that its token is no
\* longer registered, which order pushes do not count as an attempt.
Answers(k) ==
  {"error"} \cup (IF run[k].handed THEN {"accepted"} ELSE {})
            \cup (IF run[k].handed /\ run[k].task # "report" THEN {"refused"} ELSE {})

Saved(r, attempt, answer, late) ==
  [r EXCEPT !.status = Outcome(r.kind, attempt, answer),
            !.attempts = IF r.kind = "push" /\ answer = "refused" THEN @ ELSE attempt,
            !.due = FALSE,
            !.usable = @ /\ ~(r.kind \in Pushed /\ answer = "refused"),
            !.lapsed = @ \/ late]

\* Another run may have the row by now.
Late(k) == LET r == row[run[k].row] IN
  r.kind \in Leased /\ (r.status # "CLAIMED" \/ r.attempts # run[k].attempt)

Record(k, answer) ==
  LET i == run[k].row
      a == run[k].attempt
  IN /\ i # None /\ answer \in Answers(k)
     /\ row' = IF row[i].status = "GONE" THEN row      \* refused by the database
               ELSE [row EXCEPT ![i] = Saved(@, a, answer, Late(k))]
     /\ run' = [run EXCEPT ![k].row = None, ![k].attempt = 0, ![k].handed = FALSE]
     /\ owed' = [owed EXCEPT ![i] =
                   @ - (IF run[k].handed /\ row[i].kind \in Locked /\ ~Counted(k, i)
                           /\ row'[i].attempts >= a THEN 1 ELSE 0)]

End(k) ==
  /\ run[k].listed /\ run[k].todo = {} /\ run[k].row = None
  /\ run' = [run EXCEPT ![k] = Resting]
  /\ UNCHANGED <<row, owed>>

\* The worker is killed: what it holds locked is rolled back, a claim stays.
Killed(k) ==
  LET i == run[k].row IN
  /\ run[k].task # None
  /\ run' = [run EXCEPT ![k] = Resting]
  /\ owed' = IF i # None /\ run[k].handed /\ row[i].kind \in Locked
             THEN [owed EXCEPT ![i] = @ - 1] ELSE owed
  /\ UNCHANGED row

-----------------------------------------------------------------------------
Aging(i) == ComesDue(i) \/ GrowsOld(i) \/ Prune(i)
Working(k, i) == Skip(k, i) \/ GiveUp(k, i) \/ Take(k, i)

DeliveriesNext ==
  \/ \E i \in Rows : \/ Enqueue(i) \/ Aging(i) \/ CodeUsed(i) \/ OrderDeleted(i) \/ Reopen(i)
                     \/ \E may \in BOOLEAN : SetUsable(i, may)
  \/ \E k \in Runs :
       \/ \E q \in Kinds : Sweep(k, q)
       \/ List(k) \/ HandOver(k) \/ End(k) \/ Killed(k)
       \/ \E i \in Rows : Working(k, i)
       \/ \E answer \in {"accepted", "refused", "error"} : Record(k, answer)

\* Time passes; beat starts every task every few seconds, and a run moves on or is
\* ended by the time limit of half an hour.  A worker is not killed every single time
\* before it reaches the row.
Fairness ==
  /\ \A i \in Rows :
       /\ WF_deliveryVars(Aging(i))
       /\ SF_deliveryVars(\E k \in Runs : Sweep(k, row[i].kind))
       /\ SF_deliveryVars(\E k \in Runs : run[k].task = row[i].kind /\ List(k))
       /\ SF_deliveryVars(\E k \in Runs : Working(k, i))
  /\ \A k \in Runs : WF_deliveryVars(List(k) \/ End(k) \/ (\E i \in Rows : Working(k, i))
                             \/ (\E answer \in Answers(k) : Record(k, answer)))

DeliveriesSpec == DeliveriesInit /\ [][DeliveriesNext]_deliveryVars /\ Fairness

-----------------------------------------------------------------------------
(* Properties.                                                             *)

Unreturned(i) == Quantify(Runs, LAMBDA k : run[k].row = i /\ run[k].handed)

\* A report's attempts are counted where it is listed, not where it is taken, so that
\* each run which listed it in time may take it once more.
Limit(q) == IF q = "report" THEN MaxAttempts - 1 + Cardinality(Runs) ELSE MaxAttempts

\* No attempt is made beyond the retry limit, whatever runs overlap or die and however
\* late they save the rows they read (tasks.py 59, 93-94, 114, 129-133, 158;
\* orders/tasks.py 133, 178).
WithinLimit ==
  \A i \in Rows :
    /\ row[i].attempts <= Limit(row[i].kind)
    /\ \A k \in Runs : run[k].row = i => run[k].attempt <= Limit(row[i].kind)

\* Every hand-over to a provider is counted against the retry limit: of a locked row
\* all but the one still in the air (or lost with a killed worker), of a claimed one
\* every single one, before it happens (tasks.py 46-77, 93-132, 152-156).  A run that
\* outlived its lease and saves its stale row over another's can undo the count and
\* the outcome: such rows are exempt, here and below, and may be sent again.
HandoversCounted ==
  \A i \in Rows :
    row[i].status \in Open /\ ~row[i].lapsed =>
      owed[i] <= IF row[i].kind \in Locked THEN Unreturned(i) ELSE 0

\* A message is not taken up again once it was sent, given up or erased with its code,
\* whatever runs overlap: short of a run that outlived its lease, or of a report that
\* is asked for again (tasks.py 39-48, 85-96, 128-139; orders/tasks.py 112-127).
FinishedStaysFinished ==
  [][\A i \in Rows :
       row[i].status \in Finished =>
         \/ row'[i].status \in {row[i].status, "GONE"}
         \/ row'[i].lapsed
         \/ row[i].kind = "report" /\ row'[i].attempts = 0]_deliveryVars

\* A row is attempted within its retry limit; and short of a run that outlived its
\* lease, every hand-over to the provider counts and none follows the row's end.
RetriesBounded == [](WithinLimit /\ HandoversCounted) /\ FinishedStaysFinished

\* No row waits for ever: workers that are killed, providers that never answer and
\* stale claims all end in a row that is sent, given up, expired or pruned.
EveryDeliveryResolves ==
  \A i \in Rows : row[i].status \in Open ~> row[i].status \notin Open
=============================================================================
