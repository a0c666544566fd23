------------------------------- MODULE Legacy -------------------------------
(***************************************************************************)
(* The endpoints from before the staff commands, which still serve kiosks  *)
(* and table checkouts: a guest's rounds on a running tab, the kitchen's   *)
(* status transitions, counter and gateway settlement with its invoice,    *)
(* and the riders' dispatches.  Only settlement locks the order row.  The  *)
(* others read the order, decide, and save the whole row they read, so     *)
(* each is two steps here; a save waits for the lock another transaction   *)
(* has on the row.  Two staff commands do not ask who manages an order and *)
(* so reach these orders too, under the row's lock: a customer's payment   *)
(* on account, and deletion.                                               *)
(*                                                                         *)
(* order[o]     Order: status, paid (payment_status is PAID), table,       *)
(*              session (table_session_id).  Its lines and amounts are     *)
(*              left out: what is charged is any amount the request says.  *)
(* session[t]   DiningTable.active_session_id, 0 is none                   *)
(* sessions     how many session ids were drawn                            *)
(* txn          the successful PaymentTransactions: order, idempotency_key *)
(*              and whether the counter or an account payment left it; an  *)
(*              order's payments on account are one                        *)
(* invoice      FiscalInvoice: the order under each of today's numbers     *)
(*              that stands.  Its amounts and payment method, which        *)
(*              correct_method rewrites, are left out.                     *)
(* deleted      the orders an ORDER_DELETED event was left of              *)
(* dispatch[o]  whether order o has a DeliveryDispatch, and whether a      *)
(*              rider ever reported it delivered (delivered_at is set).    *)
(*              Its status and rider, and whether the rider is busy, are   *)
(*              written by the handlers and read by none: they are left    *)
(*              out.                                                       *)
(* work[w]      what request w has read or computed, by its step           *)
(***************************************************************************)
EXTENDS Integers, FiniteSets

CONSTANTS
  Workers, Nobody, Orders, NoOrder, Tables, NoTable, Keys, NoKey,
  Named,       \* the orders that name a customer, who then has an account
  Deliveries,  \* bound: the orders a dispatch may be created for, in the code any
  Deletable,   \* bound: the orders that may be deleted, in the code any
  MaxSession   \* bound: session ids drawn

ASSUME LegacyAssumption ==
  /\ NoOrder \notin Orders /\ NoTable \notin Tables
  /\ NoKey \notin Keys /\ Nobody \notin Workers
  /\ Named \subseteq Orders /\ Deliveries \subseteq Orders /\ Deletable \subseteq Orders
  /\ MaxSession \in Nat

VARIABLES order, session, sessions, txn, invoice, deleted, dispatch, work

\* What the customer was charged and what the tax office is shown.
books == <<txn, invoice, deleted>>

vars == <<order, session, sessions, txn, invoice, deleted, dispatch, work>>

\* OPEN stands for PENDING, ACCEPTED, PREPARING and READY: a tab in any of them is
\* running, and each may move on to the next or be cancelled.
OrderStatus == {"ABSENT", "OPEN", "OUT_FOR_DELIVERY", "COMPLETED", "CANCELLED"}

OrderRow == [status: OrderStatus, paid: BOOLEAN, table: Tables \cup {NoTable},
             session: 0..MaxSession]
Dispatch == {"NONE", "CREATED", "DELIVERED"}
Payment == [order: Orders, key: Keys \cup {NoKey}, by: {"COUNTER", "ACCOUNT"}]

\* idle; seated: the table was read; ordering: the tab was looked up; moving: the
\* order was read for a transition; asked: the key was looked up; settling: the order
\* is locked and the invoice number taken.
Job == [step: {"idle", "seated", "ordering", "moving", "asked", "settling"},
        order: Orders \cup {NoOrder}, row: OrderRow, table: Tables \cup {NoTable},
        session: 0..MaxSession, opens: BOOLEAN, key: Keys \cup {NoKey}, number: Nat]

NoRow == [status |-> "ABSENT", paid |-> FALSE, table |-> NoTable, session |-> 0]
Idle == [step |-> "idle", order |-> NoOrder, row |-> NoRow, table |-> NoTable,
         session |-> 0, opens |-> FALSE, key |-> NoKey, number |-> 0]

TypeOK ==
  /\ order \in [Orders -> OrderRow]
  /\ session \in [Tables -> 0..MaxSession]
  /\ sessions \in 0..MaxSession
  /\ txn \subseteq Payment
  /\ IsFiniteSet(DOMAIN invoice) /\ DOMAIN invoice \subseteq Nat
  /\ invoice \in [DOMAIN invoice -> Orders]
  /\ deleted \subseteq Orders
  /\ dispatch \in [Orders -> Dispatch]
  /\ work \in [Workers -> Job]

Init ==
  /\ order = [o \in Orders |-> NoRow]
  /\ session = [t \in Tables |-> 0]
  /\ sessions = 0
  /\ txn = {} /\ invoice = <<>> /\ deleted = {}
  /\ dispatch = [o \in Orders |-> "NONE"]
  /\ work = [w \in Workers |-> Idle]

-----------------------------------------------------------------------------
\* The order rows and table rows that requests other than w have locked.
LockedOrder(w, o) ==
  \E v \in Workers \ {w} : work[v].step = "settling" /\ work[v].order = o

LockedTable(w, t) ==
  \E v \in Workers \ {w} : /\ work[v].table = t /\ t # NoTable
                           /\ work[v].step = "settling" \/ work[v].opens

\* order.save(): the whole row, waiting for the lock.  Where no row is left to update
\* it inserts one: a stale save brings a deleted order back.
SaveRow(w, o, row) ==
  /\ ~LockedOrder(w, o)
  /\ order' = [order EXCEPT ![o] = row]

\* table_close_dining_session: whatever session the table has by now.
CloseTable(w, t) ==
  /\ ~LockedTable(w, t)
  /\ session' = [u \in Tables |-> IF u = t THEN 0 ELSE session[u]]

Begin(w, job) ==
  /\ work[w] = Idle
  /\ work' = [work EXCEPT ![w] = job]

Done(w) == work' = [work EXCEPT ![w] = Idle]

\* A worker stops, a deadlock is broken or a request is refused: nothing is kept.
Abandon(w) ==
  /\ work[w] # Idle
  /\ Done(w)
  /\ UNCHANGED <<order, session, sessions, books, dispatch>>

-----------------------------------------------------------------------------
(* A guest orders.                                                         *)

\* CheckoutAPIView.post: the table of the QR code is read.
Sit(w, t) ==
  /\ Begin(w, [Idle EXCEPT !.step = "seated", !.table = t, !.session = session[t]])
  /\ UNCHANGED <<order, session, sessions, books, dispatch>>

\* table_open_dining_session: by the table that was read, not by the table that is.
OpenSession(w) ==
  IF work[w].session = 0
  THEN /\ sessions < MaxSession
       /\ ~LockedTable(w, work[w].table)
       /\ sessions' = sessions + 1
  ELSE sessions' = sessions

Running(t, s) ==
  {o \in Orders : /\ order[o].table = t /\ order[o].session = s
                  /\ order[o].status = "OPEN" /\ ~order[o].paid}

\* The running tab of the session is looked up, without a lock.
LookUpTab(w) ==
  /\ work[w].step = "seated"
  /\ OpenSession(w)
  /\ LET s == IF work[w].session = 0 THEN sessions' ELSE work[w].session
         tabs == Running(work[w].table, s)
     IN \E o \in IF tabs = {} THEN {NoOrder} ELSE tabs :
          work' = [work EXCEPT ![w] =
            [@ EXCEPT !.step = "ordering", !.order = o, !.session = s,
                      !.opens = (work[w].session = 0),
                      !.row = IF o = NoOrder THEN NoRow ELSE order[o]]]
  /\ UNCHANGED <<order, session, books, dispatch>>

\* Numbers of orders are not given twice.
Unused(o) == order[o] = NoRow /\ o \notin deleted

\* An opened session reaches the table with the commit.
SaveSession(w) ==
  session' = IF work[w].opens THEN [session EXCEPT ![work[w].table] = work[w].session]
             ELSE session

\* order_create_or_append_tab, appending.
AppendRound(w) ==
  LET o == work[w].order
  IN /\ work[w].step = "ordering" /\ o # NoOrder
     /\ SaveRow(w, o, work[w].row)
     /\ SaveSession(w)
     /\ Done(w)
     /\ UNCHANGED <<sessions, books, dispatch>>

NewRow(t, s) ==
  [status |-> "OPEN", paid |-> FALSE, table |-> t, session |-> s]

\* order_create_or_append_tab, creating.
CreateTab(w, o) ==
  /\ work[w].step = "ordering" /\ work[w].order = NoOrder
  /\ Unused(o)
  /\ order' = [order EXCEPT ![o] = NewRow(work[w].table, work[w].session)]
  /\ SaveSession(w)
  /\ Done(w)
  /\ UNCHANGED <<sessions, books, dispatch>>

\* An order without a table, and its dispatch if it is a delivery: the dispatch is a
\* later request, and any order may have one.
CreateAway(o) ==
  /\ Unused(o)
  /\ order' = [order EXCEPT ![o] = NewRow(NoTable, 0)]
  /\ UNCHANGED <<session, sessions, books, dispatch, work>>

-----------------------------------------------------------------------------
(* The kitchen moves an order along.                                       *)

Legal(from) ==
  CASE from = "OPEN" -> {"OPEN", "OUT_FOR_DELIVERY", "COMPLETED", "CANCELLED"}
    [] from = "OUT_FOR_DELIVERY" -> {"COMPLETED", "CANCELLED"}
    [] OTHER -> {}

\* OrderStatusTransitionAPIView.post
ReadOrder(w, o) ==
  /\ order[o] # NoRow
  /\ Begin(w, [Idle EXCEPT !.step = "moving", !.order = o, !.row = order[o]])
  /\ UNCHANGED <<order, session, sessions, books, dispatch>>

Fault_CompletedIsPaid(row, to) ==
  [row EXCEPT !.status = to, !.paid = @ \/ to = "COMPLETED"]

Moved(row, to) == [row EXCEPT !.status = to]

\* order_transition_status: judged and saved from the row that was read.
Transition(w, to) ==
  LET o == work[w].order
      row == work[w].row
  IN /\ work[w].step = "moving"
     /\ to \in Legal(row.status)
     /\ SaveRow(w, o, Moved(row, to))
     /\ IF to = "COMPLETED" THEN CloseTable(w, row.table) ELSE session' = session
     /\ Done(w)
     /\ UNCHANGED <<sessions, books, dispatch>>

-----------------------------------------------------------------------------
(* Settlement at the counter and by the gateways' callbacks.               *)

KeyUsed(k) == k # NoKey /\ \E p \in txn : p.key = k

\* PaymentSettleAPIView.post and PaymentWebhookAPIView.post: a key that was used is
\* answered from its payment, whichever order that paid.
AskToSettle(w, o, k) ==
  /\ order[o] # NoRow
  /\ ~KeyUsed(k)
  /\ Begin(w, [Idle EXCEPT !.step = "asked", !.order = o, !.key = k])
  /\ UNCHANGED <<order, session, sessions, books, dispatch>>

\* generate_invoice_number
NextNumber == Cardinality(DOMAIN invoice) + 1

\* order_settle_payment up to the insertion of the invoice: the order is locked and
\* read again, missing when deleted, refused when CANCELLED, answered when PAID; its
\* table's row is locked.
LockOrder(w) ==
  LET o == work[w].order
  IN /\ work[w].step = "asked"
     /\ ~LockedOrder(w, o) /\ ~LockedTable(w, order[o].table)
     /\ order[o].status \notin {"ABSENT", "CANCELLED"} /\ ~order[o].paid
     /\ work' = [work EXCEPT ![w] = [@ EXCEPT !.step = "settling", !.row = order[o],
                                              !.table = order[o].table, !.number = NextNumber]]
     /\ UNCHANGED <<order, session, sessions, books, dispatch>>

Invoiced(o) == \E n \in DOMAIN invoice : invoice[n] = o

Fault_NumberUnchecked(w) == ~KeyUsed(work[w].key) /\ ~Invoiced(work[w].order)

\* The unique columns: PaymentTransaction.idempotency_key, FiscalInvoice.order and
\* invoice_number.  An insertion they refuse rolls the settlement back.
Insertable(w) ==
  /\ ~KeyUsed(work[w].key)
  /\ work[w].number \notin DOMAIN invoice
  /\ ~Invoiced(work[w].order)

Settle(w) ==
  LET o == work[w].order
      n == work[w].number
  IN /\ work[w].step = "settling"
     /\ Insertable(w)
     /\ txn' = txn \cup {[order |-> o, key |-> work[w].key, by |-> "COUNTER"]}
     /\ invoice' = [m \in DOMAIN invoice \cup {n} |-> IF m = n THEN o ELSE invoice[m]]
     /\ SaveRow(w, o, [work[w].row EXCEPT !.status = "COMPLETED", !.paid = TRUE])
     /\ CloseTable(w, work[w].table)
     /\ Done(w)
     /\ UNCHANGED <<sessions, deleted, dispatch>>

-----------------------------------------------------------------------------
(* Staff commands that reach these orders.  Both lock and read the row.    *)

\* receive_customer_payment, what one order gets of it: some of what is due, which
\* leaves it unpaid, or all.  No invoice is made and the table is not closed.
PayOnAccount(o, all) ==
  /\ o \in Named
  /\ order[o].status \notin {"ABSENT", "CANCELLED"} /\ ~order[o].paid
  /\ txn' = txn \cup {[order |-> o, key |-> NoKey, by |-> "ACCOUNT"]}
  /\ SaveRow(Nobody, o, [order[o] EXCEPT !.paid = all])
  /\ UNCHANGED <<session, sessions, invoice, deleted, dispatch, work>>

\* Nobody else sits in the session of order o.
LastAtTable(o) ==
  \A p \in Orders \ {o} :
    order[p].table = order[o].table /\ order[p].session = order[o].session
      => order[p].status \in {"COMPLETED", "CANCELLED"}

\* delete_order: with its invoice, its payments and, by cascade, its dispatch; its
\* session ends unless others sit in it or the table has another by now.
DeleteOrder(o) ==
  /\ o \in Deletable
  /\ order[o] # NoRow
  /\ SaveRow(Nobody, o, NoRow)
  /\ txn' = {p \in txn : p.order # o}
  /\ invoice' = [n \in {m \in DOMAIN invoice : invoice[m] # o} |-> invoice[n]]
  /\ deleted' = deleted \cup {o}
  /\ dispatch' = [dispatch EXCEPT ![o] = "NONE"]
  /\ LET t == order[o].table
     IN IF t # NoTable /\ LastAtTable(o) /\ session[t] = order[o].session
        THEN CloseTable(Nobody, t)
        ELSE session' = session
  /\ UNCHANGED <<sessions, work>>

-----------------------------------------------------------------------------
(* Deliveries.  A dispatch locks its own row, never the order's.           *)

\* order_dispatch_create: one dispatch an order, which a rider delivers at some time.
CreateDispatch(o) ==
  /\ o \in Deliveries
  /\ order[o] # NoRow /\ dispatch[o] = "NONE"
  /\ dispatch' = [dispatch EXCEPT ![o] = "CREATED"]
  /\ UNCHANGED <<order, session, sessions, books, work>>

\* rider_update_dispatch_status: any status at any time; only the order's status and
\* payment_status are saved.  It is one transaction and one step, of no worker.
RiderUpdate(o, to) ==
  /\ dispatch[o] # "NONE"
  /\ IF to = "PICKED_UP"
     THEN /\ SaveRow(Nobody, o, [order[o] EXCEPT !.status = "OUT_FOR_DELIVERY"])
          /\ dispatch' = dispatch
     ELSE /\ SaveRow(Nobody, o, [order[o] EXCEPT !.status = "COMPLETED", !.paid = TRUE])
          /\ dispatch' = [dispatch EXCEPT ![o] = "DELIVERED"]
  /\ UNCHANGED <<session, sessions, books, work>>

-----------------------------------------------------------------------------
Next ==
  \/ \E w \in Workers :
       \/ \E t \in Tables : Sit(w, t)
       \/ LookUpTab(w) \/ AppendRound(w) \/ LockOrder(w) \/ Settle(w) \/ Abandon(w)
       \/ \E o \in Orders : CreateTab(w, o) \/ ReadOrder(w, o)
       \/ \E o \in Orders, k \in Keys \cup {NoKey} : AskToSettle(w, o, k)
       \/ \E to \in OrderStatus : Transition(w, to)
  \/ \E o \in Orders :
       \/ CreateAway(o) \/ CreateDispatch(o) \/ DeleteOrder(o)
       \/ \E all \in BOOLEAN : PayOnAccount(o, all)
       \/ \E to \in {"PICKED_UP", "DELIVERED"} : RiderUpdate(o, to)

Spec == Init /\ [][Next]_vars

-----------------------------------------------------------------------------
(* What must hold.                                                         *)

Book == INSTANCE FiscalBook WITH book <- invoice, charges <- txn, withdrawn <- deleted

\* Although stale saves may turn a settled order back to unpaid or a deleted one back
\* to life and it is then settled again, although two settlements may take the same
\* number, although a deletion leaves a gap and a number that was counted before it,
\* and although callbacks are repeated under one key, invoices and charges are those
\* of FiscalBook.
KeepsBook == Book!Spec

\* An order is marked paid by a payment that is on record, at the counter, at a gateway
\* or on account, or by a rider who delivered it, and by no path besides, also not by a
\* stale save: unless the save brought back an order whose payments went with it.
PaidExplained ==
  \A o \in Orders \ deleted :
    order[o].paid => dispatch[o] = "DELIVERED" \/ \E p \in txn : p.order = o
=============================================================================
