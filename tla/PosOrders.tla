----------------------------- MODULE PosOrders -----------------------------
(***************************************************************************)
(* Staff-managed orders of one outlet: the tables they occupy, the         *)
(* preparation rounds their lines travel through, and the billing facts    *)
(* that gate both.  A command takes the outlet's row lock first            *)
(* (orders/pos_services.py:269, self_service.py:44, deletion.py:28,        *)
(* customer_web/views.py:272) or, when a customer cancels, the order's     *)
(* (customer_web/views.py:378), and commits at once, so it is one step;    *)
(* the order of the commands of different people is arbitrary.             *)
(*                                                                         *)
(* order[o]   the Order row: its status, whether it came from the website, *)
(*            its fulfilment type, table and table_session_id, and the     *)
(*            money facts these commands branch on: billed (billed_at is   *)
(*            set, as it is whenever something was paid or put on credit)  *)
(*            and paid ("held" while paid_amount > refunded_amount,        *)
(*            "returned" once all of it was refunded).                     *)
(* item[l]    the OrderItem row: its order, round_number, requires_kitchen,*)
(*            kitchen_status, quantity and is_voided.                      *)
(* session[t] DiningTable.active_session_id.                               *)
(*                                                                         *)
(* The Fault_ operators are the plausible mistakes the properties are      *)
(* tested against; no action uses them.                                    *)
(*                                                                         *)
(* Amounts are in Settlement, ingredients in Stock, versions and request   *)
(* keys in Commands: the same commands, projected on other data.           *)
(***************************************************************************)
EXTENDS Naturals

CONSTANTS
  Orders,       \* order rows
  Lines,        \* order line rows
  Tables,       \* dining tables of the outlet
  Sessions,     \* values uuid4() may return
  NoOrder, NoTable, NoSession,
  Menu,         \* the values requires_kitchen takes on the outlet's menu
  MaxQuantity,  \* bound: units on one line
  MaxRounds     \* bound: rounds on one order

ASSUME SentinelAssumption ==
  NoOrder \notin Orders /\ NoTable \notin Tables /\ NoSession \notin Sessions
ASSUME BoundsAssumption ==
  MaxQuantity \in Nat \ {0} /\ MaxRounds \in Nat \ {0}
ASSUME MenuAssumption == Menu \subseteq BOOLEAN

VARIABLES order, item, session

vars == <<order, item, session>>

Active == {"PENDING", "ACCEPTED", "PREPARING", "READY", "OUT_FOR_DELIVERY"}
Status == Active \cup {"ABSENT", "COMPLETED", "CANCELLED"}
KitchenStatus == {"WAITING", "PREPARING", "READY", "SERVED"}
\* No condition of the commands tells a drive-thru order from a takeaway one.
Fulfillment == {"DINE_IN", "TAKEAWAY", "DELIVERY"}
Rounds == 1..MaxRounds
Quantities == 1..MaxQuantity

\* The lines one request adds: the rows it will create, and for each whether the
\* kitchen prepares it and how many units it asks for.
Baskets ==
  UNION {[new -> [kitchen: Menu, quantity: Quantities]] :
           new \in (SUBSET Lines) \ {{}}}

OrderRow ==
  [status: Status, web: BOOLEAN, fulfillment: Fulfillment,
   table: Tables \cup {NoTable}, session: Sessions \cup {NoSession},
   billed: BOOLEAN, paid: {"none", "held", "returned"}]
ItemRow ==
  [order: Orders \cup {NoOrder}, round: Nat, kitchen: BOOLEAN,
   status: KitchenStatus, quantity: Quantities, voided: BOOLEAN]

NoRow == [status |-> "ABSENT", web |-> FALSE, fulfillment |-> "TAKEAWAY",
          table |-> NoTable, session |-> NoSession,
          billed |-> FALSE, paid |-> "none"]
NoLine == [order |-> NoOrder, round |-> 0, kitchen |-> FALSE,
           status |-> "WAITING", quantity |-> 1, voided |-> FALSE]

TypeOK ==
  /\ order \in [Orders -> OrderRow]
  /\ item \in [Lines -> ItemRow]
  /\ session \in [Tables -> Sessions \cup {NoSession}]

Init ==
  /\ order = [o \in Orders |-> NoRow]
  /\ item = [l \in Lines |-> NoLine]
  /\ session = [t \in Tables |-> NoSession]

-----------------------------------------------------------------------------
(* Lines and rounds (orders/preparation.py).                               *)

LinesOf(its, o) == {l \in Lines : its[l].order = o}
Live(its, o) == {l \in LinesOf(its, o) : ~its[l].voided}
States(its, o) == {its[l].status : l \in Live(its, o)}
InRound(its, o, n) == {l \in Live(its, o) : its[l].round = n}

\* The state rounds() derives for a round that has live lines.
RoundState(its, o, n) ==
  LET states == {its[l].status : l \in InRound(its, o, n)}
  IN IF states = {"SERVED"} THEN "SERVED"
     ELSE IF states = {"WAITING"} THEN "WAITING"
     ELSE IF states \cap {"WAITING", "PREPARING"} # {} THEN "PREPARING"
     ELSE "READY"

\* sync_status: the order status that follows from its live lines.
Synced(its, o, current) ==
  LET states == States(its, o)
  IN IF states = {"SERVED"} THEN "COMPLETED"
     ELSE IF states = {"WAITING"} THEN "ACCEPTED"
     ELSE IF states \cap {"WAITING", "PREPARING"} # {} THEN "PREPARING"
     ELSE IF states # {} THEN "READY"
     ELSE current

\* The number add_lines gives a new round: one more than any round the order
\* ever had, removed lines included.
Fault_NextLiveRound(o, n) ==
  /\ \A l \in Live(item, o) : item[l].round < n
  /\ n = 1 \/ \E l \in Live(item, o) : item[l].round + 1 = n

IsNextRound(o, n) ==
  /\ \A l \in LinesOf(item, o) : item[l].round < n
  /\ n = 1 \/ \E l \in LinesOf(item, o) : item[l].round + 1 = n

\* add_lines: the basket becomes one new round; with nothing for the kitchen in
\* it the whole round is ready at once.
NeedsKitchen(b) == \E l \in DOMAIN b : b[l].kitchen

Fault_WithRoundPerLine(o, n, b) ==
  [l \in Lines |->
     IF l \in DOMAIN b
     THEN [order |-> o, round |-> n, kitchen |-> b[l].kitchen,
           status |-> IF b[l].kitchen THEN "WAITING" ELSE "READY",
           quantity |-> b[l].quantity, voided |-> FALSE]
     ELSE item[l]]

WithRound(o, n, b) ==
  [l \in Lines |->
     IF l \in DOMAIN b
     THEN [order |-> o, round |-> n, kitchen |-> b[l].kitchen,
           status |-> IF NeedsKitchen(b) THEN "WAITING" ELSE "READY",
           quantity |-> b[l].quantity, voided |-> FALSE]
     ELSE item[l]]

Unused(b) == \A l \in DOMAIN b : item[l].order = NoOrder

\* A table is free for an order when no other unfinished order sits there.
TableFreeFor(o, t) ==
  \A p \in Orders \ {o} : ~(order[p].table = t /\ order[p].status \in Active)

FreshSession(s) ==
  /\ \A o \in Orders : order[o].session # s
  /\ \A t \in Tables : session[t] # s

\* DiningTable.filter(pk=row.table, active_session_id=row.session).update(None)
Released(row) ==
  [t \in Tables |-> IF t = row.table /\ session[t] = row.session
                    THEN NoSession ELSE session[t]]

\* Save the row with the status sync_status derives from its lines, and release
\* the table if that status says the last round was handed over.
SaveSynced(o, row, its) ==
  LET status == Synced(its, o, row.status)
  IN /\ order' = [order EXCEPT ![o] = [row EXCEPT !.status = status]]
     /\ item' = its
     /\ session' = IF status = "COMPLETED" THEN Released(row) ELSE session

\* record_tenders on a non-empty list: either money was collected, or all of it
\* was put on credit.
TenderedRows(row) ==
  {[row EXCEPT !.billed = TRUE, !.paid = p] : p \in {"held", row.paid}}

-----------------------------------------------------------------------------
(* Commands that open an order or add a round to it.                       *)

OpenedRow(status, web, f) ==
  [NoRow EXCEPT !.status = status, !.web = web, !.fulfillment = f]

\* Insert the order, its first round, and the session of the table it sits at.
Open(o, row, t, b) ==
  /\ order[o].status = "ABSENT"
  /\ Unused(b)
  /\ item' = WithRound(o, 1, b)
  /\ \/ /\ t = NoTable
        /\ order' = [order EXCEPT ![o] = row]
        /\ UNCHANGED session
     \/ /\ t \in Tables
        /\ \E s \in Sessions :
             /\ FreshSession(s)
             /\ order' = [order EXCEPT ![o] = [row EXCEPT !.table = t, !.session = s]]
             /\ session' = [session EXCEPT ![t] = s]

OpeningStatus(b) == IF NeedsKitchen(b) THEN "ACCEPTED" ELSE "READY"

\* mutate(action='create'): staff open an order, possibly paying it at once.
StaffCreate(o, t, f, b) ==
  /\ (f = "DINE_IN") <=> (t # NoTable)
  /\ t # NoTable => TableFreeFor(o, t)
  /\ LET row == OpenedRow(OpeningStatus(b), FALSE, f)
     IN \E saved \in {row} \cup TenderedRows(row) : Open(o, saved, t, b)

\* checkout() without a running tab: a guest orders from the table's QR code or a
\* kiosk; sync_status gives the status.
SelfServiceCreate(o, t, b) ==
  /\ t # NoTable => TableFreeFor(o, t)
  /\ LET f == IF t = NoTable THEN "TAKEAWAY" ELSE "DINE_IN"
     IN Open(o, OpenedRow(OpeningStatus(b), FALSE, f), t, b)

\* CheckoutView.post: a website order waits for staff to verify its payment proof.
WebCheckout(o, t, f, b) ==
  /\ (f = "DINE_IN") <=> (t # NoTable)
  /\ t # NoTable => TableFreeFor(o, t)
  /\ Open(o, OpenedRow("PENDING", TRUE, f), t, b)

\* append_allowed
AppendAllowed(o) ==
  /\ order[o].status \in {"ACCEPTED", "PREPARING", "READY", "COMPLETED"}
  /\ ~order[o].web
  /\ ~order[o].billed

\* A finished, unbilled order is reopened by a new round and takes its table back,
\* unless another party sits there by now.
Fault_SeatNotChecked(o) == TRUE

SeatStillFree(o) ==
  order[o].status = "COMPLETED" /\ order[o].table # NoTable
    => TableFreeFor(o, order[o].table)

\* mutate(action='append')
Append(o, b) ==
  /\ AppendAllowed(o)
  /\ Unused(b)
  /\ SeatStillFree(o)
  /\ \E n \in Rounds :
       /\ IsNextRound(o, n)
       /\ item' = WithRound(o, n, b)
  /\ order' = [order EXCEPT ![o].status = Synced(item', o, @)]
  /\ session' = IF order[o].status = "COMPLETED" /\ order[o].table # NoTable
                THEN [session EXCEPT ![order[o].table] = order[o].session]
                ELSE session

\* checkout() on a table with a running tab: only the table's QR code may add.
SelfServiceAppend(o, b) ==
  /\ order[o].table # NoTable
  /\ order[o].status \in Active
  /\ AppendAllowed(o)
  /\ Unused(b)
  /\ \E n \in Rounds :
       /\ IsNextRound(o, n)
       /\ SaveSynced(o, order[o], WithRound(o, n, b))

-----------------------------------------------------------------------------
(* Kitchen commands.                                                       *)

Moved(lines, status) ==
  [l \in Lines |-> IF l \in lines THEN [item[l] EXCEPT !.status = status] ELSE item[l]]

LiveIn(o, statuses) == {l \in Live(item, o) : item[l].status \in statuses}

\* advance_round: one round takes its next step; delivery rounds leave together.
AdvanceRound(o, n, target) ==
  /\ order[o].status \in {"ACCEPTED", "PREPARING", "READY"}
  /\ InRound(item, o, n) # {}
  /\ <<RoundState(item, o, n), target>> \in
       {<<"WAITING", "PREPARING">>, <<"PREPARING", "READY">>, <<"READY", "SERVED">>}
  /\ ~(target = "SERVED" /\ order[o].fulfillment = "DELIVERY")
  /\ SaveSynced(o, order[o], Moved(InRound(item, o, n), target))

\* mutate(action='transition', status='ACCEPTED')
Accept(o) ==
  /\ order[o].status = "PENDING"
  /\ order' = [order EXCEPT ![o].status = "ACCEPTED"]
  /\ UNCHANGED <<item, session>>

\* status='PREPARING': every waiting line is started.
Prepare(o) ==
  /\ order[o].status = "ACCEPTED"
  /\ SaveSynced(o, [order[o] EXCEPT !.status = "PREPARING"],
                Moved(LiveIn(o, {"WAITING"}), "PREPARING"))

\* status='READY': every started line is finished; waiting ones keep waiting.
Fault_MarkReadyUnsynced(o) ==
  /\ order[o].status = "PREPARING"
  /\ LiveIn(o, {"PREPARING"}) # {}
  /\ order' = [order EXCEPT ![o].status = "READY"]
  /\ item' = Moved(LiveIn(o, {"PREPARING"}), "READY")
  /\ UNCHANGED session

MarkReady(o) ==
  /\ order[o].status = "PREPARING"
  /\ LiveIn(o, {"PREPARING"}) # {}
  /\ SaveSynced(o, [order[o] EXCEPT !.status = "READY"],
                Moved(LiveIn(o, {"PREPARING"}), "READY"))

\* status='OUT_FOR_DELIVERY'
Dispatch(o) ==
  /\ order[o].status = "READY"
  /\ order[o].fulfillment = "DELIVERY"
  /\ LiveIn(o, {"WAITING", "PREPARING"}) = {}
  /\ order' = [order EXCEPT ![o].status = "OUT_FOR_DELIVERY"]
  /\ UNCHANGED <<item, session>>

\* status='COMPLETED': hand everything over and release the table.
Complete(o) ==
  /\ order[o].status \in {"READY", "OUT_FOR_DELIVERY"}
  /\ LiveIn(o, {"WAITING", "PREPARING"}) = {}
  /\ order' = [order EXCEPT ![o].status = "COMPLETED"]
  /\ item' = Moved(Live(item, o), "SERVED")
  /\ session' = Released(order[o])

\* status='CANCELLED': only before cooking, and only once the money went back.
NothingStarted(o) ==
  /\ LiveIn(o, {"SERVED"}) = {}
  /\ \A l \in Live(item, o) : item[l].kitchen => item[l].status = "WAITING"

Cancel(o) ==
  /\ order[o].status \in {"PENDING", "ACCEPTED", "PREPARING", "READY"}
  /\ NothingStarted(o)
  /\ order[o].paid # "held"
  /\ order' = [order EXCEPT ![o].status = "CANCELLED"]
  /\ session' = Released(order[o])
  /\ UNCHANGED item

\* remove_order_item: take q units of a line off the order.  A round left with
\* nothing for the kitchen becomes ready.
WithoutUnits(o, l, q) ==
  LET cut == [item EXCEPT ![l].voided = (q = item[l].quantity),
                          ![l].quantity = IF q = item[l].quantity THEN @ ELSE @ - q]
      left == InRound(cut, o, item[l].round)
  IN IF \E m \in left : cut[m].kitchen
     THEN cut
     ELSE [m \in Lines |-> IF m \in left /\ cut[m].status = "WAITING"
                           THEN [cut[m] EXCEPT !.status = "READY"] ELSE cut[m]]

Fault_RemovalOpenBilled(o) ==
  /\ order[o].status \notin {"ABSENT", "OUT_FOR_DELIVERY", "CANCELLED"}
  /\ order[o].web => order[o].status = "PENDING"

RemovalOpen(o) ==
  /\ order[o].status \notin {"ABSENT", "OUT_FOR_DELIVERY", "CANCELLED"}
  /\ ~order[o].billed
  /\ order[o].web => order[o].status = "PENDING"

Removable(o, l) ==
  /\ l \in Live(item, o)
  /\ item[l].status = IF order[o].status = "COMPLETED" THEN "SERVED" ELSE "WAITING"

UnitsRemovable(o, l, q) ==
  /\ q \in 1..item[l].quantity
  /\ q = item[l].quantity => Live(item, o) # {l}

\* order_data: what the screens are told about a line.
Fault_CanRemoveFinal(o, l) ==
  /\ ~item[l].voided /\ ~order[o].billed
  /\ \/ order[o].status = "COMPLETED" /\ item[l].status = "SERVED"
     \/ /\ order[o].status \notin {"OUT_FOR_DELIVERY", "COMPLETED", "CANCELLED"}
        /\ item[l].status = "WAITING"
  /\ order[o].web => order[o].status = "PENDING"

CanRemove(o, l) ==
  /\ ~item[l].voided /\ ~order[o].billed
  /\ \/ order[o].status = "COMPLETED" /\ item[l].status = "SERVED"
     \/ /\ order[o].status \notin {"OUT_FOR_DELIVERY", "COMPLETED", "CANCELLED"}
        /\ item[l].status = "WAITING"
  /\ order[o].web => order[o].status = "PENDING"
  /\ item[l].quantity > 1 \/ \E m \in Live(item, o) : m # l

RemoveItem(o, l, q) ==
  /\ RemovalOpen(o)
  /\ Removable(o, l)
  /\ UnitsRemovable(o, l, q)
  /\ IF order[o].status = "PENDING"
     THEN item' = WithoutUnits(o, l, q) /\ UNCHANGED <<order, session>>
     ELSE SaveSynced(o, order[o], WithoutUnits(o, l, q))

-----------------------------------------------------------------------------
(* Billing commands, as far as the kitchen and the tables can tell.        *)

SaveRow(o, row) ==
  /\ order' = [order EXCEPT ![o] = row]
  /\ UNCHANGED <<item, session>>

\* mutate(action='bill')
Bill(o) ==
  /\ order[o].status \notin {"ABSENT", "CANCELLED"}
  /\ ~order[o].billed
  /\ SaveRow(o, [order[o] EXCEPT !.billed = TRUE])

\* mutate(action='settle')
Settle(o) ==
  /\ order[o].status \notin {"ABSENT", "CANCELLED"}
  /\ \E row \in TenderedRows(order[o]) : SaveRow(o, row)

\* mutate(action='refund'): part or all of what is still held goes back.
Refund(o) ==
  /\ order[o].paid = "held"
  /\ \E p \in {"held", "returned"} : SaveRow(o, [order[o] EXCEPT !.paid = p])

\* receive_customer_payment: a collection against the customer's account reaches
\* this order.
CollectOnAccount(o) ==
  /\ order[o].status \notin {"ABSENT", "CANCELLED"}
  /\ SaveRow(o, [order[o] EXCEPT !.billed = TRUE, !.paid = "held"])

-----------------------------------------------------------------------------
(* Corrections, cancellation by the customer, deletion.                    *)

\* correct_fulfillment: move the order to another table or fulfilment type.
CorrectFulfillment(o, t, f) ==
  /\ order[o].status \notin {"ABSENT", "CANCELLED", "OUT_FOR_DELIVERY"}
  /\ (f = "DINE_IN") <=> (t # NoTable)
  /\ t # NoTable => TableFreeFor(o, t)
  /\ UNCHANGED item
  /\ \/ /\ t = order[o].table
        /\ order' = [order EXCEPT ![o].fulfillment = f]
        /\ session' = IF t # NoTable /\ order[o].status \in Active
                      THEN [session EXCEPT ![t] = order[o].session] ELSE session
     \/ /\ t = NoTable /\ order[o].table # NoTable
        /\ order' = [order EXCEPT ![o] =
             [@ EXCEPT !.fulfillment = f, !.table = NoTable, !.session = NoSession]]
        /\ session' = Released(order[o])
     \/ /\ t # NoTable /\ t # order[o].table
        /\ \E s \in Sessions :
             /\ FreshSession(s)
             /\ order' = [order EXCEPT ![o] =
                  [@ EXCEPT !.fulfillment = f, !.table = t, !.session = s]]
             /\ session' = IF order[o].status \in Active
                           THEN [Released(order[o]) EXCEPT ![t] = s]
                           ELSE Released(order[o])

\* CancelView.post: the customer withdraws a website order nobody accepted yet.
\* It closes whatever session the table has.
CustomerCancel(o) ==
  /\ order[o].web
  /\ order[o].status = "PENDING"
  /\ order[o].paid = "none"
  /\ order' = [order EXCEPT ![o].status = "CANCELLED"]
  /\ session' = [t \in Tables |-> IF t = order[o].table THEN NoSession ELSE session[t]]
  /\ UNCHANGED item

\* delete_order: the row, its lines and its billing records disappear; its table
\* is released unless another unfinished order shares the session.
Delete(o) ==
  /\ order[o].status # "ABSENT"
  /\ order' = [order EXCEPT ![o] = NoRow]
  /\ item' = [l \in Lines |-> IF item[l].order = o THEN NoLine ELSE item[l]]
  /\ session' = IF \A p \in Orders \ {o} :
                     ~ /\ order[p].table = order[o].table
                       /\ order[p].session = order[o].session
                       /\ order[p].status \in Active
                THEN Released(order[o]) ELSE session

-----------------------------------------------------------------------------
Next ==
  \E o \in Orders :
    \/ \E t \in Tables \cup {NoTable}, f \in Fulfillment, b \in Baskets :
         StaffCreate(o, t, f, b) \/ WebCheckout(o, t, f, b)
    \/ \E t \in Tables \cup {NoTable}, b \in Baskets : SelfServiceCreate(o, t, b)
    \/ \E b \in Baskets : Append(o, b) \/ SelfServiceAppend(o, b)
    \/ \E n \in Rounds, target \in KitchenStatus : AdvanceRound(o, n, target)
    \/ Accept(o) \/ Prepare(o) \/ MarkReady(o) \/ Dispatch(o) \/ Complete(o) \/ Cancel(o)
    \/ \E l \in Lines, q \in Quantities : RemoveItem(o, l, q)
    \/ Bill(o) \/ Settle(o) \/ Refund(o) \/ CollectOnAccount(o)
    \/ \E t \in Tables \cup {NoTable}, f \in Fulfillment : CorrectFulfillment(o, t, f)
    \/ CustomerCancel(o) \/ Delete(o)

Spec == Init /\ [][Next]_vars

-----------------------------------------------------------------------------
(* What must hold.                                                         *)

\* A table never serves two parties: no two unfinished orders share a table,
\* whichever of staff, kiosk, QR and website opened, moved or reopened them.
TableExclusive ==
  \A o, p \in Orders :
    /\ o # p
    /\ order[o].status \in Active /\ order[p].status \in Active
    /\ order[o].table # NoTable
    => order[o].table # order[p].table

\* A table shows a session exactly while an unfinished order sits there, and the
\* session is that order's: no command frees or takes over another party's table.
TableSessionOwned ==
  /\ \A o \in Orders :
       order[o].status \in Active /\ order[o].table # NoTable
         => session[order[o].table] = order[o].session
  /\ \A t \in Tables :
       session[t] # NoSession
         => \E o \in Orders : order[o].table = t /\ order[o].status \in Active

\* Both together: a table is one party's, from its first round to its release.
TablesKept == TableExclusive /\ TableSessionOwned

\* The order status always agrees with the progress of its live lines: what the
\* kitchen screen, the counter and the customer read is the same story.  Only a
\* website order with nothing to cook may still read ACCEPTED while it is ready.
StatusFollowsRounds ==
  \A o \in Orders :
    LET states == States(item, o)
    IN CASE order[o].status = "COMPLETED" -> states = {"SERVED"}
         [] order[o].status = "READY" -> states \in {{"READY"}, {"READY", "SERVED"}}
         [] order[o].status = "OUT_FOR_DELIVERY" ->
              states \in {{"READY"}, {"READY", "SERVED"}}
         [] order[o].status = "PREPARING" ->
              states \cap {"WAITING", "PREPARING"} # {} /\ states # {"WAITING"}
         [] order[o].status = "ACCEPTED" ->
              states = {"WAITING"} \/ (order[o].web /\ states = {"READY"})
         [] OTHER -> states \cap {"PREPARING", "SERVED"} = {}

\* However an order was cut up: lines of one round move together, so a round has one
\* state to call, start or hand over; the final item leaves only by cancelling or
\* deleting the order; and "Cancellation after cooking begins is rejected": nothing of
\* a cancelled order was started and no collected money is held for it.
RoundsUniform(o) ==
  \A l, m \in Live(item, o) : item[l].round = item[m].round => item[l].status = item[m].status

NeverEmpty(o) == order[o].status # "ABSENT" => Live(item, o) # {}

CancelledClean(o) ==
  order[o].status = "CANCELLED" =>
    /\ \A l \in Live(item, o) : item[l].kitchen => item[l].status = "WAITING"
    /\ order[o].paid # "held"

RoundsSound == \A o \in Orders : RoundsUniform(o) /\ NeverEmpty(o) /\ CancelledClean(o)

\* "A bill or any payment locks further additions and removals": once an order is
\* billed, what it charges for stays as it is until the order is deleted, and one that
\* was also handed over, or cancelled, is not reopened by a new round.
BillLocks ==
  [][\A o \in Orders :
       order'[o].status # "ABSENT" =>
         /\ order[o].billed =>
              /\ Live(item', o) = Live(item, o)
              /\ \A l \in Live(item, o) : item'[l].quantity = item[l].quantity
         /\ order[o].status = "CANCELLED" \/ (order[o].status = "COMPLETED" /\ order[o].billed)
              => order'[o].status = order[o].status]_vars

\* Every screen offers to take a line off exactly when the command would accept it: the
\* offer is worked out for the screens (order_data) apart from the command's own
\* checks (remove_order_item).
OffersKept ==
  \A o \in Orders : \A l \in LinesOf(item, o) :
    CanRemove(o, l) <=>
      RemovalOpen(o) /\ Removable(o, l) /\ \E q \in Quantities : UnitsRemovable(o, l, q)

KitchenRank == [s \in KitchenStatus |->
  CASE s = "WAITING" -> 0 [] s = "PREPARING" -> 1 [] s = "READY" -> 2 [] OTHER -> 3]

\* A kitchen ticket stands.  Additions preserve the progress of earlier rounds: no
\* command moves a line backwards or to another round, and only an unstarted line, or
\* a served one of a finished order, leaves the order.  A new line never joins a round
\* that exists or existed: no ticket grows after it was printed or shares its number.
TicketsStand ==
  [][\A o \in Orders :
       /\ \A l \in Live(item, o) : order'[o].status # "ABSENT" =>
            /\ item'[l].order = o /\ item'[l].round = item[l].round
            /\ KitchenRank[item'[l].status] >= KitchenRank[item[l].status]
            /\ item'[l].voided => item[l].status \in {"WAITING", "SERVED"}
       /\ \A l \in LinesOf(item', o) \ LinesOf(item, o), m \in LinesOf(item, o) :
            item'[l].round > item[m].round]_vars
=============================================================================
