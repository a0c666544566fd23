-------------------------- MODULE PosOrders_proofs --------------------------
(***************************************************************************)
(* Theorems about PosOrders for any number of orders, lines, tables and    *)
(* session ids: its types, that a table is never shared or taken over, and *)
(* that statuses, rounds, tickets, the screens' offers and the billing lock *)
(* stand whatever the kitchen, the counter and the guests do.              *)
(***************************************************************************)
EXTENDS PosOrders, TLAPS

-----------------------------------------------------------------------------
(* What the helpers return.                                                *)

\* A request adds known lines, each of a kind on the menu and a legal quantity.
LEMMA BasketType ==
  ASSUME NEW b \in Baskets
  PROVE  /\ DOMAIN b \subseteq Lines /\ DOMAIN b # {}
         /\ \A l \in DOMAIN b : b[l].kitchen \in BOOLEAN /\ b[l].quantity \in Quantities
<1>1. PICK new \in (SUBSET Lines) \ {{}} : b \in [new -> [kitchen: Menu, quantity: Quantities]]
  BY DEF Baskets
<1>2. DOMAIN b = new /\ \A l \in new : b[l] \in [kitchen: Menu, quantity: Quantities]
  BY <1>1
<1> QED
  BY <1>1, <1>2, MenuAssumption

\* add_lines writes well-formed rows.
LEMMA WithRoundType ==
  ASSUME TypeOK, NEW o \in Orders, NEW n \in Nat, NEW b \in Baskets
  PROVE  WithRound(o, n, b) \in [Lines -> ItemRow]
<1> SUFFICES ASSUME NEW l \in Lines
             PROVE  WithRound(o, n, b)[l] \in ItemRow
  BY DEF WithRound
<1>1. CASE l \in DOMAIN b
  <2>1. b[l].kitchen \in BOOLEAN /\ b[l].quantity \in Quantities
    BY <1>1, BasketType
  <2> QED
    BY <1>1, <2>1 DEF WithRound, ItemRow, KitchenStatus
<1>2. CASE l \notin DOMAIN b
  BY <1>2 DEF WithRound, TypeOK
<1> QED
  BY <1>1, <1>2

\* A kitchen step writes well-formed rows.
LEMMA MovedType ==
  ASSUME TypeOK, NEW lines, NEW status \in KitchenStatus
  PROVE  Moved(lines, status) \in [Lines -> ItemRow]
BY DEF TypeOK, Moved, ItemRow

\* Removing units leaves a legal quantity on the line.
LEMMA WithoutUnitsType ==
  ASSUME TypeOK, NEW o \in Orders, NEW l \in Lines, NEW q \in 1..item[l].quantity
  PROVE  WithoutUnits(o, l, q) \in [Lines -> ItemRow]
<1> DEFINE cut == [item EXCEPT ![l].voided = (q = item[l].quantity),
                               ![l].quantity = IF q = item[l].quantity THEN @ ELSE @ - q]
<1>1. item[l].quantity \in Quantities
  BY DEF TypeOK, ItemRow
<1>2. (IF q = item[l].quantity THEN item[l].quantity ELSE item[l].quantity - q) \in Quantities
  BY <1>1, BoundsAssumption DEF Quantities
<1>3. cut \in [Lines -> ItemRow]
  <2>1. item \in [Lines -> ItemRow] /\ item[l] \in ItemRow
    BY DEF TypeOK
  <2>2. cut = [item EXCEPT ![l] = [item[l] EXCEPT
                 !.voided = (q = item[l].quantity),
                 !.quantity = IF q = item[l].quantity
                              THEN item[l].quantity ELSE item[l].quantity - q]]
    BY <2>1 DEF ItemRow
  <2>3. [item[l] EXCEPT
           !.voided = (q = item[l].quantity),
           !.quantity = IF q = item[l].quantity
                        THEN item[l].quantity ELSE item[l].quantity - q] \in ItemRow
    BY <1>2, <2>1 DEF ItemRow
  <2> QED
    BY <2>1, <2>2, <2>3
<1> HIDE DEF cut
<1>4. \A m \in Lines : [cut[m] EXCEPT !.status = "READY"] \in ItemRow
  BY <1>3 DEF ItemRow, KitchenStatus
<1>5. WithoutUnits(o, l, q) =
        LET left == InRound(cut, o, item[l].round)
        IN IF \E m \in left : cut[m].kitchen
           THEN cut
           ELSE [m \in Lines |-> IF m \in left /\ cut[m].status = "WAITING"
                                 THEN [cut[m] EXCEPT !.status = "READY"] ELSE cut[m]]
  BY DEF WithoutUnits, cut
<1> QED
  BY <1>3, <1>4, <1>5

\* sync_status always yields an order status.
LEMMA SyncedType ==
  ASSUME NEW its, NEW o, NEW current \in Status
  PROVE  Synced(its, o, current) \in Status
BY DEF Synced, Status, Active

\* Releasing a table leaves every table with a session or none.
LEMMA ReleasedType ==
  ASSUME TypeOK, NEW row
  PROVE  Released(row) \in [Tables -> Sessions \cup {NoSession}]
BY DEF TypeOK, Released

\* Saving a row together with its lines keeps the types.
LEMMA SaveSyncedType ==
  ASSUME TypeOK, NEW o \in Orders, NEW row \in OrderRow,
         NEW its \in [Lines -> ItemRow], SaveSynced(o, row, its)
  PROVE  TypeOK'
<1>1. row.status \in Status
  BY DEF OrderRow
<1>2. Synced(its, o, row.status) \in Status
  BY <1>1, SyncedType
<1>3. [row EXCEPT !.status = Synced(its, o, row.status)] \in OrderRow
  BY <1>2 DEF OrderRow
<1>4. order' \in [Orders -> OrderRow]
  BY <1>3 DEF TypeOK, SaveSynced
<1>5. session' \in [Tables -> Sessions \cup {NoSession}]
  BY ReleasedType DEF TypeOK, SaveSynced
<1> QED
  BY <1>4, <1>5 DEF TypeOK, SaveSynced

\* Opening an order keeps the types.
LEMMA OpenType ==
  ASSUME TypeOK, NEW o \in Orders, NEW row \in OrderRow,
         NEW t \in Tables \cup {NoTable}, NEW b \in Baskets, Open(o, row, t, b)
  PROVE  TypeOK'
<1>1. item' \in [Lines -> ItemRow]
  BY WithRoundType DEF Open
<1>2. CASE t = NoTable /\ order' = [order EXCEPT ![o] = row] /\ UNCHANGED session
  BY <1>1, <1>2 DEF TypeOK
<1>3. ASSUME t \in Tables, NEW s \in Sessions,
             order' = [order EXCEPT ![o] = [row EXCEPT !.table = t, !.session = s]],
             session' = [session EXCEPT ![t] = s]
      PROVE  TypeOK'
  <2>1. [row EXCEPT !.table = t, !.session = s] \in OrderRow
    BY <1>3 DEF OrderRow
  <2> QED
    BY <1>1, <1>3, <2>1 DEF TypeOK
<1> QED
  BY <1>2, <1>3 DEF Open

\* The row a command inserts is well formed, and so is what a payment makes of it.
LEMMA RowType ==
  /\ \A status \in Status, web \in BOOLEAN, f \in Fulfillment :
       OpenedRow(status, web, f) \in OrderRow
  /\ \A row \in OrderRow : TenderedRows(row) \subseteq OrderRow
  /\ \A b : OpeningStatus(b) \in Status
<1>1. NoRow \in OrderRow
  BY DEF NoRow, OrderRow, Status, Active, Fulfillment
<1>2. ASSUME NEW status \in Status, NEW web \in BOOLEAN, NEW f \in Fulfillment
      PROVE  OpenedRow(status, web, f) \in OrderRow
  BY <1>1 DEF OpenedRow, OrderRow
<1>3. ASSUME NEW row \in OrderRow, NEW p \in {"held", row.paid}
      PROVE  [row EXCEPT !.billed = TRUE, !.paid = p] \in OrderRow
  BY <1>3 DEF OrderRow
<1>4. \A b : OpeningStatus(b) \in Status
  BY DEF OpeningStatus, Status, Active
<1> QED
  BY <1>2, <1>3, <1>4 DEF TenderedRows

-----------------------------------------------------------------------------
(* Types.                                                                  *)

\* The commands that create an order keep the types.
LEMMA CreateType ==
  ASSUME TypeOK, NEW o \in Orders, NEW t \in Tables \cup {NoTable},
         NEW f \in Fulfillment, NEW b \in Baskets,
         \/ StaffCreate(o, t, f, b) \/ WebCheckout(o, t, f, b)
         \/ SelfServiceCreate(o, t, b)
  PROVE  TypeOK'
<1>1. CASE StaffCreate(o, t, f, b)
  <2> DEFINE row == OpenedRow(OpeningStatus(b), FALSE, f)
  <2>1. row \in OrderRow
    BY RowType
  <2>2. PICK saved \in {row} \cup TenderedRows(row) : Open(o, saved, t, b)
    BY <1>1 DEF StaffCreate
  <2>3. saved \in OrderRow
    BY <2>1, RowType
  <2> QED
    BY <2>2, <2>3, OpenType
<1>2. CASE WebCheckout(o, t, f, b)
  <2>1. OpenedRow("PENDING", TRUE, f) \in OrderRow
    BY RowType DEF Status, Active
  <2> QED
    BY <1>2, <2>1, OpenType DEF WebCheckout
<1>3. CASE SelfServiceCreate(o, t, b)
  <2> DEFINE g == IF t = NoTable THEN "TAKEAWAY" ELSE "DINE_IN"
  <2>1. OpenedRow(OpeningStatus(b), FALSE, g) \in OrderRow
    BY RowType DEF Fulfillment
  <2> QED
    BY <1>3, <2>1, OpenType DEF SelfServiceCreate
<1> QED
  BY <1>1, <1>2, <1>3

\* Every command keeps the types.
LEMMA TypeStep ==
  ASSUME TypeOK, [Next]_vars
  PROVE  TypeOK'
<1>1. CASE UNCHANGED vars
  BY <1>1 DEF vars, TypeOK
<1>2. ASSUME NEW o \in Orders, NEW t \in Tables \cup {NoTable},
             NEW f \in Fulfillment, NEW b \in Baskets,
             StaffCreate(o, t, f, b) \/ WebCheckout(o, t, f, b)
      PROVE  TypeOK'
  BY <1>2, CreateType
<1>3. ASSUME NEW o \in Orders, NEW t \in Tables \cup {NoTable}, NEW b \in Baskets,
             SelfServiceCreate(o, t, b)
      PROVE  TypeOK'
  <2>1. "DINE_IN" \in Fulfillment
    BY DEF Fulfillment
  <2> QED
    BY <1>3, <2>1, CreateType
<1>4. ASSUME NEW o \in Orders, NEW b \in Baskets, Append(o, b)
      PROVE  TypeOK'
  <2>1. PICK n \in Rounds : item' = WithRound(o, n, b)
    BY <1>4 DEF Append
  <2>2. item' \in [Lines -> ItemRow]
    BY <2>1, WithRoundType DEF Rounds
  <2>3. order[o] \in OrderRow /\ order[o].status \in Status
    BY DEF TypeOK, OrderRow
  <2>4. Synced(item', o, order[o].status) \in Status
    BY <2>3, SyncedType
  <2>5. order' \in [Orders -> OrderRow]
    BY <1>4, <2>3, <2>4 DEF Append, TypeOK, OrderRow
  <2>6. session' \in [Tables -> Sessions \cup {NoSession}]
    BY <1>4, <2>3 DEF Append, TypeOK, OrderRow
  <2> QED
    BY <2>2, <2>5, <2>6 DEF TypeOK
<1>5. ASSUME NEW o \in Orders, NEW b \in Baskets, SelfServiceAppend(o, b)
      PROVE  TypeOK'
  <2>1. PICK n \in Rounds : SaveSynced(o, order[o], WithRound(o, n, b))
    BY <1>5 DEF SelfServiceAppend
  <2>2. WithRound(o, n, b) \in [Lines -> ItemRow]
    BY WithRoundType DEF Rounds
  <2> QED
    BY <2>1, <2>2, SaveSyncedType DEF TypeOK
<1>6. ASSUME NEW o \in Orders, NEW n \in Rounds, NEW target \in KitchenStatus,
             AdvanceRound(o, n, target)
      PROVE  TypeOK'
  BY <1>6, MovedType, SaveSyncedType DEF AdvanceRound, TypeOK
<1>7. ASSUME NEW o \in Orders, Accept(o) \/ Dispatch(o)
      PROVE  TypeOK'
  BY <1>7 DEF Accept, Dispatch, TypeOK, OrderRow, Status, Active
<1>8. ASSUME NEW o \in Orders, Prepare(o)
      PROVE  TypeOK'
  <2>1. [order[o] EXCEPT !.status = "PREPARING"] \in OrderRow
    BY DEF TypeOK, OrderRow, Status, Active
  <2>2. Moved(LiveIn(o, {"WAITING"}), "PREPARING") \in [Lines -> ItemRow]
    BY MovedType DEF KitchenStatus
  <2> QED
    BY <1>8, <2>1, <2>2, SaveSyncedType DEF Prepare
<1>9. ASSUME NEW o \in Orders, MarkReady(o)
      PROVE  TypeOK'
  <2>1. [order[o] EXCEPT !.status = "READY"] \in OrderRow
    BY DEF TypeOK, OrderRow, Status, Active
  <2>2. Moved(LiveIn(o, {"PREPARING"}), "READY") \in [Lines -> ItemRow]
    BY MovedType DEF KitchenStatus
  <2> QED
    BY <1>9, <2>1, <2>2, SaveSyncedType DEF MarkReady
<1>10. ASSUME NEW o \in Orders, Complete(o)
       PROVE  TypeOK'
  <2>1. item' \in [Lines -> ItemRow]
    BY <1>10, MovedType DEF Complete, KitchenStatus
  <2>2. order' \in [Orders -> OrderRow]
    BY <1>10 DEF Complete, TypeOK, OrderRow, Status
  <2> QED
    BY <1>10, <2>1, <2>2, ReleasedType DEF Complete, TypeOK
<1>11. ASSUME NEW o \in Orders, Cancel(o) \/ CustomerCancel(o)
       PROVE  TypeOK'
  <2>1. order' \in [Orders -> OrderRow]
    BY <1>11 DEF Cancel, CustomerCancel, TypeOK, OrderRow, Status
  <2>2. session' \in [Tables -> Sessions \cup {NoSession}]
    BY <1>11, ReleasedType DEF Cancel, CustomerCancel, TypeOK
  <2> QED
    BY <1>11, <2>1, <2>2 DEF Cancel, CustomerCancel, TypeOK
<1>12. ASSUME NEW o \in Orders, NEW l \in Lines, NEW q \in Quantities, RemoveItem(o, l, q)
       PROVE  TypeOK'
  <2>1. WithoutUnits(o, l, q) \in [Lines -> ItemRow]
    BY <1>12, WithoutUnitsType DEF RemoveItem, UnitsRemovable
  <2>2. CASE SaveSynced(o, order[o], WithoutUnits(o, l, q))
    BY <2>1, <2>2, SaveSyncedType DEF TypeOK
  <2>3. CASE item' = WithoutUnits(o, l, q) /\ UNCHANGED <<order, session>>
    BY <2>1, <2>3 DEF TypeOK
  <2> QED
    BY <1>12, <2>2, <2>3 DEF RemoveItem
<1>13. ASSUME NEW o \in Orders, Bill(o) \/ Settle(o) \/ Refund(o) \/ CollectOnAccount(o)
       PROVE  TypeOK'
  <2>1. order[o] \in OrderRow
    BY DEF TypeOK
  <2>2. PICK row \in OrderRow : SaveRow(o, row)
    <3>1. CASE Settle(o)
      BY <2>1, <3>1, RowType DEF Settle
    <3>2. CASE Bill(o) \/ Refund(o) \/ CollectOnAccount(o)
      BY <2>1, <3>2 DEF Bill, Refund, CollectOnAccount, OrderRow
    <3> QED
      BY <1>13, <3>1, <3>2
  <2> QED
    BY <2>2 DEF SaveRow, TypeOK
<1>14. ASSUME NEW o \in Orders, NEW t \in Tables \cup {NoTable}, NEW f \in Fulfillment,
              CorrectFulfillment(o, t, f)
       PROVE  TypeOK'
  <2>1. order[o] \in OrderRow
    BY DEF TypeOK
  <2>2. \A s \in Sessions \cup {NoSession} :
          [order[o] EXCEPT !.fulfillment = f, !.table = t, !.session = s] \in OrderRow
    BY <2>1 DEF OrderRow
  <2>3. Released(order[o]) \in [Tables -> Sessions \cup {NoSession}]
    BY ReleasedType
  <2>4. CASE /\ t = order[o].table
             /\ order' = [order EXCEPT ![o].fulfillment = f]
             /\ session' = IF t # NoTable /\ order[o].status \in Active
                           THEN [session EXCEPT ![t] = order[o].session] ELSE session
    <3>1. order' \in [Orders -> OrderRow]
      BY <2>1, <2>4 DEF TypeOK, OrderRow
    <3>2. session' \in [Tables -> Sessions \cup {NoSession}]
      BY <2>1, <2>4 DEF TypeOK, OrderRow
    <3> QED
      BY <1>14, <3>1, <3>2 DEF CorrectFulfillment, TypeOK
  <2>5. CASE /\ t = NoTable
             /\ order' = [order EXCEPT ![o] =
                  [@ EXCEPT !.fulfillment = f, !.table = NoTable, !.session = NoSession]]
             /\ session' = Released(order[o])
    BY <1>14, <2>2, <2>3, <2>5 DEF CorrectFulfillment, TypeOK
  <2>6. ASSUME t # NoTable, NEW s \in Sessions,
               order' = [order EXCEPT ![o] =
                  [@ EXCEPT !.fulfillment = f, !.table = t, !.session = s]],
               session' = IF order[o].status \in Active
                          THEN [Released(order[o]) EXCEPT ![t] = s]
                          ELSE Released(order[o])
        PROVE  TypeOK'
    BY <1>14, <2>2, <2>3, <2>6 DEF CorrectFulfillment, TypeOK
  <2> QED
    BY <1>14, <2>4, <2>5, <2>6 DEF CorrectFulfillment
<1>15. ASSUME NEW o \in Orders, Delete(o)
       PROVE  TypeOK'
  <2>1. NoRow \in OrderRow /\ NoLine \in ItemRow
    BY BoundsAssumption DEF NoRow, NoLine, OrderRow, ItemRow, Status, Active,
       Fulfillment, KitchenStatus, Quantities
  <2> QED
    BY <1>15, <2>1, ReleasedType DEF Delete, TypeOK
<1> QED
  BY <1>1, <1>2, <1>3, <1>4, <1>5, <1>6, <1>7, <1>8, <1>9, <1>10, <1>11, <1>12,
     <1>13, <1>14, <1>15 DEF Next

\* Every row the commands of one outlet write is well formed, whoever issues them.
THEOREM TypeCorrect == Spec => []TypeOK
<1>1. Init => TypeOK
  BY BoundsAssumption DEF Init, TypeOK, NoRow, NoLine, OrderRow, ItemRow, Status,
     Active, Fulfillment, KitchenStatus, Quantities
<1>2. TypeOK /\ [Next]_vars => TypeOK'
  BY TypeStep
<1> QED
  BY <1>1, <1>2, PTL DEF Spec

-----------------------------------------------------------------------------
(* Seating.  TableExclusive and TableSessionOwned are not inductive alone: *)
(* releasing a table compares session ids, so no two orders may ever have  *)
(* had the same one, and removing an item from a finished order keeps it   *)
(* finished only because everything on it was served.                      *)

SeatHasSession ==
  \A o \in Orders : order[o].table # NoTable <=> order[o].session # NoSession

SessionsDistinct ==
  \A o, p \in Orders :
    o # p /\ order[o].session # NoSession => order[o].session # order[p].session

Seating == TypeOK /\ SeatHasSession /\ SessionsDistinct /\ TableExclusive /\ TableSessionOwned

CompletedServed ==
  \A o \in Orders : order[o].status = "COMPLETED" =>
    \A l \in Live(item, o) : item[l].status = "SERVED"

OthersKept(o) == \A p \in Orders \ {o} : order'[p] = order[p]

SameSeat(o) == order'[o].table = order[o].table /\ order'[o].session = order[o].session

\* A command that leaves tables and sessions alone and neither finishes nor reopens
\* an order keeps the seating.
LEMMA StaySeated ==
  ASSUME Seating, TypeOK', NEW o \in Orders, OthersKept(o), SameSeat(o),
         order'[o].status \in Active <=> order[o].status \in Active,
         UNCHANGED session
  PROVE  Seating'
<1>1. \A p \in Orders : /\ order'[p].table = order[p].table
                        /\ order'[p].session = order[p].session
                        /\ order'[p].status \in Active <=> order[p].status \in Active
  BY DEF OthersKept, SameSeat
<1>2. SeatHasSession'
  BY <1>1 DEF Seating, SeatHasSession
<1>3. SessionsDistinct'
  BY <1>1 DEF Seating, SessionsDistinct
<1>4. TableExclusive'
  BY <1>1 DEF Seating, TableExclusive
<1>5. TableSessionOwned'
  BY <1>1 DEF Seating, TableSessionOwned
<1> QED
  BY <1>2, <1>3, <1>4, <1>5 DEF Seating

\* Releasing an order's table keeps every other party's session.
LEMMA ReleasedOwn ==
  ASSUME Seating, NEW o \in Orders
  PROVE  /\ \A p \in Orders \ {o} :
              order[p].status \in Active /\ order[p].table # NoTable
                => Released(order[o])[order[p].table] = order[p].session
         /\ \A t \in Tables :
              Released(order[o])[t] # NoSession
                => /\ \E p \in Orders \ {o} : order[p].table = t /\ order[p].status \in Active
                   /\ Released(order[o])[t] = session[t]
<1>1. ASSUME NEW p \in Orders \ {o}, order[p].status \in Active, order[p].table # NoTable
      PROVE  Released(order[o])[order[p].table] = order[p].session
  <2>1. order[p].table \in Tables /\ order[p].session # NoSession
    BY <1>1 DEF Seating, TypeOK, OrderRow, SeatHasSession
  <2>2. session[order[p].table] = order[p].session
    BY <1>1 DEF Seating, TableSessionOwned
  <2>3. order[p].session # order[o].session
    BY <2>1 DEF Seating, SessionsDistinct
  <2> QED
    BY <2>1, <2>2, <2>3 DEF Released
<1>2. ASSUME NEW t \in Tables, Released(order[o])[t] # NoSession
      PROVE  /\ \E p \in Orders \ {o} : order[p].table = t /\ order[p].status \in Active
             /\ Released(order[o])[t] = session[t]
  <2>1. session[t] # NoSession /\ Released(order[o])[t] = session[t]
        /\ ~(t = order[o].table /\ session[t] = order[o].session)
    BY <1>2 DEF Released
  <2>2. PICK p \in Orders : order[p].table = t /\ order[p].status \in Active
    BY <2>1 DEF Seating, TableSessionOwned
  <2>3. t # NoTable
    BY SentinelAssumption
  <2>4. session[t] = order[p].session
    BY <2>2, <2>3 DEF Seating, TableSessionOwned
  <2> QED
    BY <2>1, <2>2, <2>4
<1> QED
  BY <1>1, <1>2

\* An order that finishes, leaves its table or disappears, and releases its table
\* if it was still sitting there, keeps the seating of everyone else.
LEMMA StandUp ==
  ASSUME Seating, TypeOK', NEW o \in Orders, OthersKept(o),
         \/ SameSeat(o) /\ order'[o].status \notin Active
         \/ order'[o].table = NoTable /\ order'[o].session = NoSession,
         \/ session' = Released(order[o])
         \/ order[o].status \notin Active /\ UNCHANGED session
  PROVE  Seating'
<1>1. SeatHasSession' /\ SessionsDistinct'
  BY DEF Seating, SeatHasSession, SessionsDistinct, OthersKept, SameSeat
<1>2. TableExclusive'
  BY DEF Seating, TableExclusive, OthersKept, SameSeat
<1>3. \A p \in Orders : order'[p].status \in Active /\ order'[p].table # NoTable
        => p # o /\ order'[p] = order[p]
  BY DEF OthersKept
<1>4. \A p \in Orders \ {o} : order[p].status \in Active /\ order[p].table # NoTable
        => session'[order[p].table] = order[p].session
  BY ReleasedOwn DEF Seating, TableSessionOwned
<1>5. \A t \in Tables : session'[t] # NoSession
        => \E p \in Orders \ {o} : order[p].table = t /\ order[p].status \in Active
  <2>1. CASE session' = Released(order[o])
    BY <2>1, ReleasedOwn
  <2>2. CASE order[o].status \notin Active /\ UNCHANGED session
    BY <2>2 DEF Seating, TableSessionOwned
  <2> QED
    BY <2>1, <2>2
<1>6. TableSessionOwned'
  BY <1>3, <1>4, <1>5 DEF TableSessionOwned, OthersKept
<1> QED
  BY <1>1, <1>2, <1>6 DEF Seating

\* An order that sits down at a free table under a fresh session keeps the seating.
LEMMA SitDown ==
  ASSUME Seating, TypeOK', NEW o \in Orders, OthersKept(o),
         NEW t \in Tables, NEW s \in Sessions, TableFreeFor(o, t), FreshSession(s),
         order'[o].table = t, order'[o].session = s, order'[o].status \in Active,
         NEW S, S = Released(order[o]) \/ (S = session /\ order[o].status \notin Active),
         session' = [S EXCEPT ![t] = s]
  PROVE  Seating'
<1>1. t # NoTable /\ s # NoSession
  BY SentinelAssumption
<1>2. SeatHasSession'
  BY <1>1 DEF Seating, SeatHasSession, OthersKept
<1>3. SessionsDistinct'
  BY <1>1 DEF Seating, SessionsDistinct, OthersKept, FreshSession
<1>4. TableExclusive'
  BY DEF Seating, TableExclusive, OthersKept, TableFreeFor
<1>5. S \in [Tables -> Sessions \cup {NoSession}]
  BY ReleasedType DEF Seating, TypeOK
<1>6. session'[t] = s /\ \A u \in Tables \ {t} : session'[u] = S[u]
  BY <1>5
<1>7. ASSUME NEW p \in Orders \ {o}, order[p].status \in Active, order[p].table # NoTable
      PROVE  session'[order[p].table] = order[p].session
  <2>1. order[p].table \in Tables \ {t}
    BY <1>7 DEF Seating, TypeOK, OrderRow, TableFreeFor
  <2>2. S[order[p].table] = order[p].session
    BY <1>7, ReleasedOwn DEF Seating, TableSessionOwned
  <2> QED
    BY <1>6, <2>1, <2>2
<1>8. ASSUME NEW u \in Tables \ {t}, session'[u] # NoSession
      PROVE  \E p \in Orders \ {o} : order[p].table = u /\ order[p].status \in Active
  <2>1. CASE S = Released(order[o])
    BY <1>6, <1>8, <2>1, ReleasedOwn
  <2>2. CASE S = session /\ order[o].status \notin Active
    BY <1>6, <1>8, <2>2 DEF Seating, TableSessionOwned
  <2> QED
    BY <2>1, <2>2
<1>9. TableSessionOwned'
  BY <1>6, <1>7, <1>8 DEF TableSessionOwned, OthersKept
<1> QED
  BY <1>2, <1>3, <1>4, <1>9 DEF Seating

-----------------------------------------------------------------------------
(* Lines of finished orders.                                               *)

\* The lines of other orders are untouched by `its'.
LinesKept(its, o) ==
  \A p \in Orders \ {o} :
    /\ Live(its, p) = Live(item, p)
    /\ \A l \in Live(item, p) : its[l].status = item[l].status

\* A new round, a kitchen step and a removal touch the lines of one order.
LEMMA WithRoundKept ==
  ASSUME TypeOK, NEW o \in Orders, NEW n, NEW b \in Baskets, Unused(b)
  PROVE  LinesKept(WithRound(o, n, b), o)
<1>1. DOMAIN b \subseteq Lines /\ \A l \in DOMAIN b : item[l].order \notin Orders
  BY BasketType, SentinelAssumption DEF Unused
<1> QED
  BY <1>1 DEF LinesKept, WithRound, Live, LinesOf

LEMMA MovedKept ==
  ASSUME TypeOK, NEW o \in Orders, NEW lines \in SUBSET Live(item, o), NEW status
  PROVE  /\ LinesKept(Moved(lines, status), o)
         /\ Live(Moved(lines, status), o) = Live(item, o)
<1>1. \A l \in Lines : item[l] \in ItemRow
  BY DEF TypeOK
<1>2. \A l \in Lines : /\ Moved(lines, status)[l].order = item[l].order
                       /\ Moved(lines, status)[l].voided = item[l].voided
                       /\ l \notin lines => Moved(lines, status)[l] = item[l]
  BY <1>1 DEF Moved, ItemRow
<1> QED
  BY <1>2 DEF LinesKept, Live, LinesOf

\* What removing q units of line l does to each line.
LEMMA WithoutUnitsFields ==
  ASSUME TypeOK, NEW o \in Orders, NEW l \in Live(item, o), NEW q \in 1..item[l].quantity,
         NEW m \in Lines
  PROVE  LET its == WithoutUnits(o, l, q)
         IN /\ its[m].order = item[m].order
            /\ its[m].voided = IF m = l THEN (q = item[l].quantity) ELSE item[m].voided
            /\ its[m].status # item[m].status
                 => /\ item[m].order = o
                    /\ item[m].status = "WAITING" /\ its[m].status = "READY"
<1> DEFINE cut == [item EXCEPT ![l].voided = (q = item[l].quantity),
                               ![l].quantity = IF q = item[l].quantity THEN @ ELSE @ - q]
           left == InRound(cut, o, item[l].round)
<1>1. l \in Lines /\ \A k \in Lines : item[k] \in ItemRow
  BY DEF TypeOK, Live, LinesOf
<1>2. /\ cut[m].order = item[m].order /\ cut[m].status = item[m].status
      /\ cut[m].voided = IF m = l THEN (q = item[l].quantity) ELSE item[m].voided
      /\ {"order", "status", "voided"} \subseteq DOMAIN cut[m]
  BY <1>1 DEF TypeOK, ItemRow
<1>3. WithoutUnits(o, l, q) =
        IF \E k \in left : cut[k].kitchen
        THEN cut
        ELSE [k \in Lines |-> IF k \in left /\ cut[k].status = "WAITING"
                              THEN [cut[k] EXCEPT !.status = "READY"] ELSE cut[k]]
  BY DEF WithoutUnits
<1>4. m \in left => cut[m].order = o
  BY DEF InRound, Live, LinesOf
<1> HIDE DEF cut, left
<1>5. CASE \E k \in left : cut[k].kitchen
  BY <1>2, <1>3, <1>5
<1>6. CASE ~\E k \in left : cut[k].kitchen
  <2>1. WithoutUnits(o, l, q)[m] =
          IF m \in left /\ cut[m].status = "WAITING"
          THEN [cut[m] EXCEPT !.status = "READY"] ELSE cut[m]
    BY <1>3, <1>6
  <2> QED
    BY <1>2, <1>4, <2>1
<1> QED
  BY <1>5, <1>6

LEMMA WithoutUnitsKept ==
  ASSUME TypeOK, NEW o \in Orders, NEW l \in Live(item, o), NEW q \in 1..item[l].quantity
  PROVE  LinesKept(WithoutUnits(o, l, q), o)
<1>1. \A m \in Lines : m # l =>
        /\ WithoutUnits(o, l, q)[m].order = item[m].order
        /\ WithoutUnits(o, l, q)[m].voided = item[m].voided
  BY WithoutUnitsFields
<1>2. WithoutUnits(o, l, q)[l].order = o /\ item[l].order = o /\ l \in Lines
  BY WithoutUnitsFields DEF Live, LinesOf
<1>3. \A m \in Lines : item[m].order # o =>
        WithoutUnits(o, l, q)[m].status = item[m].status
  BY WithoutUnitsFields
<1> QED
  BY <1>1, <1>2, <1>3 DEF LinesKept, Live, LinesOf

\* Removing units from an order whose items were all served leaves it COMPLETED,
\* since its final item cannot be removed.
LEMMA RemovalKeepsFinished ==
  ASSUME TypeOK, NEW o \in Orders, NEW l \in Live(item, o), NEW q, UnitsRemovable(o, l, q),
         \A m \in Live(item, o) : item[m].status = "SERVED"
  PROVE  Synced(WithoutUnits(o, l, q), o, "COMPLETED") = "COMPLETED"
<1> DEFINE its == WithoutUnits(o, l, q)
<1>1. q \in 1..item[l].quantity
  BY DEF UnitsRemovable
<1>2. \A m \in Lines : /\ its[m].order = item[m].order
                       /\ its[m].voided = IF m = l THEN (q = item[l].quantity)
                                          ELSE item[m].voided
                       /\ item[m].status = "SERVED" => its[m].status = "SERVED"
  BY <1>1, WithoutUnitsFields
<1>3. Live(its, o) \subseteq Live(item, o)
  BY <1>2 DEF Live, LinesOf
<1>4. \A m \in Live(its, o) : its[m].status = "SERVED"
  BY <1>2, <1>3 DEF Live, LinesOf
<1>5. Synced(its, o, "COMPLETED") = "COMPLETED"
  <2>1. States(its, o) \subseteq {"SERVED"}
    BY <1>4 DEF States
  <2> QED
    BY <2>1 DEF Synced
<1> QED
  BY <1>5

\* If only the lines of o change and o is not finished, or all its lines are
\* served, finished orders stay fully served.
LEMMA CompletedKept ==
  ASSUME CompletedServed, NEW o \in Orders, OthersKept(o), LinesKept(item', o),
         order'[o].status = "COMPLETED" =>
           \A l \in Live(item', o) : item'[l].status = "SERVED"
  PROVE  CompletedServed'
BY DEF CompletedServed, OthersKept, LinesKept

\* The status sync_status returns for an unfinished order is active or COMPLETED,
\* and COMPLETED only if everything on it is served.
LEMMA SyncedActive ==
  ASSUME NEW its, NEW o, NEW current \in Active \cup {"COMPLETED"}
  PROVE  /\ Synced(its, o, current) \in Active \cup {"COMPLETED"}
         /\ Synced(its, o, current) = "COMPLETED" =>
              \A l \in Live(its, o) : its[l].status = "SERVED"
<1>1. \A l \in Live(its, o) : its[l].status \in States(its, o)
  BY DEF States
<1> QED
  BY <1>1 DEF Synced, Active

-----------------------------------------------------------------------------
(* Every command keeps the seating.                                        *)

SeatingInv == Seating /\ CompletedServed

\* sync_status followed by save: an unfinished order keeps its seat or, handed over,
\* gives it up; a finished one that stays finished has none to give up.
LEMMA SaveSyncedSeating ==
  ASSUME SeatingInv, TypeOK', NEW o \in Orders, NEW row \in OrderRow, NEW its,
         SaveSynced(o, row, its), LinesKept(its, o),
         row.table = order[o].table, row.session = order[o].session,
         row.status \in Active \cup {"COMPLETED"},
         \/ order[o].status \in Active
         \/ Synced(its, o, row.status) = "COMPLETED"
  PROVE  SeatingInv'
<1> DEFINE status == Synced(its, o, row.status)
<1>1. /\ order'[o] = [row EXCEPT !.status = status] /\ OthersKept(o)
      /\ item' = its
      /\ session' = IF status = "COMPLETED" THEN Released(row) ELSE session
  BY DEF SeatingInv, Seating, TypeOK, SaveSynced, OthersKept
<1>2. order'[o].status = status /\ SameSeat(o)
  BY <1>1 DEF OrderRow, SameSeat
<1>3. /\ status \in Active \cup {"COMPLETED"}
      /\ status = "COMPLETED" => \A l \in Live(its, o) : its[l].status = "SERVED"
  BY SyncedActive
<1>4. Released(row) = Released(order[o])
  BY DEF Released
<1>5. CASE status = "COMPLETED"
  <2>1. order'[o].status \notin Active
    BY <1>2, <1>5 DEF Active
  <2> QED
    BY <1>1, <1>2, <1>3, <1>4, <1>5, <2>1, StandUp, CompletedKept DEF SeatingInv
<1>6. CASE status # "COMPLETED"
  <2>1. order[o].status \in Active /\ order'[o].status \in Active
    BY <1>2, <1>3, <1>6
  <2> QED
    BY <1>1, <1>2, <1>6, <2>1, StaySeated, CompletedKept DEF SeatingInv
<1> QED
  BY <1>5, <1>6

\* Opening an order: it sits down at a free table, or nowhere.
LEMMA OpenSeating ==
  ASSUME SeatingInv, TypeOK', NEW o \in Orders, NEW row \in OrderRow,
         NEW t \in Tables \cup {NoTable}, NEW b \in Baskets, Open(o, row, t, b),
         t # NoTable => TableFreeFor(o, t),
         row.status \in Active, row.table = NoTable, row.session = NoSession
  PROVE  SeatingInv'
<1>1. OthersKept(o) /\ LinesKept(item', o) /\ order[o].status \notin Active
  BY WithRoundKept DEF Open, OthersKept, SeatingInv, Seating, TypeOK, Active
<1>2. CASE t = NoTable /\ order' = [order EXCEPT ![o] = row] /\ UNCHANGED session
  <2>1. order'[o] = row
    BY <1>2 DEF SeatingInv, Seating, TypeOK
  <2>2. Seating'
    BY <1>1, <1>2, <2>1, StandUp DEF SeatingInv
  <2> QED
    BY <1>1, <2>1, <2>2, CompletedKept DEF SeatingInv, Active
<1>3. ASSUME t \in Tables, NEW s \in Sessions, FreshSession(s),
             order' = [order EXCEPT ![o] = [row EXCEPT !.table = t, !.session = s]],
             session' = [session EXCEPT ![t] = s]
      PROVE  SeatingInv'
  <2>1. order'[o] = [row EXCEPT !.table = t, !.session = s]
    BY <1>3 DEF SeatingInv, Seating, TypeOK
  <2>2. order'[o].table = t /\ order'[o].session = s /\ order'[o].status \in Active
    BY <2>1 DEF OrderRow
  <2>3. TableFreeFor(o, t)
    BY <1>3, SentinelAssumption
  <2>4. Seating'
    BY <1>1, <1>3, <2>2, <2>3, SitDown DEF SeatingInv
  <2> QED
    BY <1>1, <2>2, <2>4, CompletedKept DEF SeatingInv, Active
<1> QED
  BY <1>2, <1>3 DEF Open

\* Staff, guests and the website open orders.
LEMMA CreateSeating ==
  ASSUME SeatingInv, TypeOK', NEW o \in Orders, NEW t \in Tables \cup {NoTable},
         NEW f \in Fulfillment, NEW b \in Baskets,
         \/ StaffCreate(o, t, f, b) \/ WebCheckout(o, t, f, b)
         \/ SelfServiceCreate(o, t, b)
  PROVE  SeatingInv'
<1>1. t # NoTable => TableFreeFor(o, t)
  BY DEF StaffCreate, WebCheckout, SelfServiceCreate
<1>2. ASSUME NEW status \in Active, NEW web \in BOOLEAN, NEW g \in Fulfillment,
             NEW saved \in {OpenedRow(status, web, g)} \cup TenderedRows(OpenedRow(status, web, g))
      PROVE  /\ saved \in OrderRow /\ saved.status \in Active
             /\ saved.table = NoTable /\ saved.session = NoSession
  <2> DEFINE row == OpenedRow(status, web, g)
  <2>1. row \in OrderRow
    BY RowType DEF Status
  <2>2. row.status = status /\ row.table = NoTable /\ row.session = NoSession
    BY DEF OpenedRow, NoRow
  <2>3. ASSUME NEW p \in {"held", row.paid}
        PROVE  LET r == [row EXCEPT !.billed = TRUE, !.paid = p]
               IN r.status = status /\ r.table = NoTable /\ r.session = NoSession
    BY <2>1, <2>2 DEF OrderRow
  <2> HIDE DEF row
  <2>4. CASE saved = row
    BY <2>1, <2>2, <2>4
  <2>5. CASE saved \in TenderedRows(row)
    BY <2>1, <2>2, <2>3, <2>5, RowType DEF TenderedRows
  <2> QED
    BY <2>4, <2>5 DEF row
<1>3. OpeningStatus(b) \in Active /\ "PENDING" \in Active
  BY DEF OpeningStatus, Active
<1>4. CASE StaffCreate(o, t, f, b)
  BY <1>1, <1>2, <1>3, <1>4, OpenSeating DEF StaffCreate
<1>5. CASE WebCheckout(o, t, f, b)
  BY <1>1, <1>2, <1>3, <1>5, OpenSeating DEF WebCheckout
<1>6. CASE SelfServiceCreate(o, t, b)
  <2>1. (IF t = NoTable THEN "TAKEAWAY" ELSE "DINE_IN") \in Fulfillment
    BY DEF Fulfillment
  <2> QED
    BY <1>1, <1>2, <1>3, <1>6, <2>1, OpenSeating DEF SelfServiceCreate
<1> QED
  BY <1>4, <1>5, <1>6

\* A new round makes its order active: what it adds is not served yet.
LEMMA AppendActive ==
  ASSUME TypeOK, NEW o \in Orders, NEW n \in Nat, NEW b \in Baskets, NEW current
  PROVE  Synced(WithRound(o, n, b), o, current) \in Active
<1> DEFINE its == WithRound(o, n, b)
<1>1. PICK l \in Lines : l \in DOMAIN b
  BY BasketType
<1>2. its[l].order = o /\ ~its[l].voided /\ its[l].status \in {"WAITING", "READY"}
  BY <1>1 DEF WithRound
<1>3. its[l].status \in States(its, o)
  BY <1>2 DEF States, Live, LinesOf
<1> HIDE DEF its
<1> QED
  BY <1>2, <1>3 DEF Synced, Active, its

\* Rounds added to a running or a reopened order.
LEMMA AppendSeating ==
  ASSUME SeatingInv, TypeOK', NEW o \in Orders, NEW b \in Baskets,
         Append(o, b) \/ SelfServiceAppend(o, b)
  PROVE  SeatingInv'
<1> USE DEF SeatingInv
<1>1. order[o] \in OrderRow /\ TypeOK
  BY DEF Seating, TypeOK
<1>2. CASE SelfServiceAppend(o, b)
  <2>1. PICK n \in Rounds : SaveSynced(o, order[o], WithRound(o, n, b))
    BY <1>2 DEF SelfServiceAppend
  <2>2. LinesKept(WithRound(o, n, b), o)
    BY <1>1, <1>2, WithRoundKept DEF SelfServiceAppend
  <2> QED
    BY <1>1, <1>2, <2>1, <2>2, SaveSyncedSeating DEF SelfServiceAppend
<1>3. CASE Append(o, b)
  <2>1. PICK n \in Rounds : item' = WithRound(o, n, b)
    BY <1>3 DEF Append
  <2>2. LinesKept(item', o)
    BY <1>1, <1>3, <2>1, WithRoundKept DEF Append
  <2>3. order'[o] = [order[o] EXCEPT !.status = Synced(item', o, @)]
    BY <1>1, <1>3 DEF Append, TypeOK
  <2>4. OthersKept(o)
    BY <1>1, <1>3 DEF Append, TypeOK, OthersKept
  <2>5. SameSeat(o) /\ order'[o].status \in Active
    BY <1>1, <2>1, <2>3, AppendActive DEF Rounds, OrderRow, SameSeat
  <2>6. CompletedServed'
    BY <2>2, <2>4, <2>5, CompletedKept DEF Active
  <2>7. CASE order[o].status = "COMPLETED" /\ order[o].table # NoTable
    <3>1. session' = [session EXCEPT ![order[o].table] = order[o].session]
      BY <1>3, <2>7 DEF Append
    <3>2. TableFreeFor(o, order[o].table) /\ order[o].table \in Tables
      BY <1>1, <1>3, <2>7 DEF Append, SeatStillFree, OrderRow
    <3>3. SeatHasSession' /\ SessionsDistinct'
      BY <2>4, <2>5 DEF Seating, SeatHasSession, SessionsDistinct, OthersKept, SameSeat
    <3>4. TableExclusive'
      BY <2>4, <2>5, <3>2 DEF Seating, TableExclusive, OthersKept, SameSeat, TableFreeFor
    <3>5. session'[order[o].table] = order[o].session
          /\ \A t \in Tables \ {order[o].table} : session'[t] = session[t]
      BY <1>1, <3>1, <3>2 DEF TypeOK
    <3>6. \A p \in Orders \ {o} : order[p].status \in Active => order[p].table # order[o].table
      BY <3>2 DEF TableFreeFor
    <3>7. \A p \in Orders : order'[p].status \in Active /\ order'[p].table # NoTable
            => session'[order'[p].table] = order'[p].session
      <4> SUFFICES ASSUME NEW p \in Orders \ {o}, order[p].status \in Active,
                          order[p].table # NoTable
                   PROVE  session'[order[p].table] = order[p].session
        BY <2>4, <2>5, <3>5 DEF OthersKept, SameSeat
      <4>1. order[p].table \in Tables \ {order[o].table}
        BY <1>1, <3>6 DEF TypeOK, OrderRow
      <4> QED
        BY <3>5, <4>1 DEF Seating, TableSessionOwned
    <3>8. ASSUME NEW t \in Tables, session'[t] # NoSession
          PROVE  \E p \in Orders : order'[p].table = t /\ order'[p].status \in Active
      <4>1. CASE t = order[o].table
        BY <2>5, <4>1 DEF SameSeat
      <4>2. CASE t # order[o].table
        <5>1. PICK p \in Orders : order[p].table = t /\ order[p].status \in Active
          BY <3>5, <3>8, <4>2 DEF Seating, TableSessionOwned
        <5> QED
          BY <2>4, <4>2, <5>1 DEF OthersKept
      <4> QED
        BY <4>1, <4>2
    <3>9. TableSessionOwned'
      BY <3>7, <3>8 DEF TableSessionOwned
    <3> QED
      BY <2>6, <3>3, <3>4, <3>9 DEF Seating
  <2>8. CASE order[o].status = "COMPLETED" /\ order[o].table = NoTable
    <3>1. UNCHANGED session
      BY <1>3, <2>8 DEF Append
    <3>2. order'[o].table = NoTable /\ order'[o].session = NoSession
      BY <2>5, <2>8 DEF SameSeat, Seating, SeatHasSession
    <3>3. order[o].status \notin Active
      BY <2>8 DEF Active
    <3> QED
      BY <2>4, <2>6, <3>1, <3>2, <3>3, StandUp
  <2>9. CASE order[o].status # "COMPLETED"
    <3>1. UNCHANGED session /\ order[o].status \in Active
      BY <1>3, <2>9 DEF Append, AppendAllowed, Active
    <3> QED
      BY <2>4, <2>5, <2>6, <3>1, StaySeated
  <2> QED
    BY <2>7, <2>8, <2>9
<1> QED
  BY <1>2, <1>3

\* Moves to another table or to another fulfilment type.
LEMMA CorrectSeating ==
  ASSUME SeatingInv, TypeOK', NEW o \in Orders, NEW t \in Tables \cup {NoTable},
         NEW f \in Fulfillment, CorrectFulfillment(o, t, f)
  PROVE  SeatingInv'
<1>1. TypeOK /\ order[o] \in OrderRow /\ UNCHANGED item /\ OthersKept(o)
  BY DEF SeatingInv, Seating, TypeOK, CorrectFulfillment, OthersKept
<1>2. order'[o].status = order[o].status
  <2>1. CASE order' = [order EXCEPT ![o].fulfillment = f]
    BY <1>1, <2>1 DEF TypeOK, OrderRow
  <2>2. ASSUME NEW s, order' = [order EXCEPT ![o] =
                        [@ EXCEPT !.fulfillment = f, !.table = t, !.session = s]]
        PROVE  order'[o].status = order[o].status
    BY <1>1, <2>2 DEF TypeOK, OrderRow
  <2> QED
    BY <2>1, <2>2 DEF CorrectFulfillment
<1>3. CompletedServed'
  BY <1>1, <1>2, CompletedKept DEF SeatingInv, CompletedServed, LinesKept
<1>4. CASE /\ t = order[o].table
           /\ order' = [order EXCEPT ![o].fulfillment = f]
           /\ session' = IF t # NoTable /\ order[o].status \in Active
                         THEN [session EXCEPT ![t] = order[o].session] ELSE session
  <2>1. SameSeat(o)
    BY <1>1, <1>4 DEF SameSeat, TypeOK, OrderRow
  <2>2. ASSUME t # NoTable, order[o].status \in Active
        PROVE  [session EXCEPT ![t] = order[o].session] = session
    <3>1. session[t] = order[o].session
      BY <1>4, <2>2 DEF SeatingInv, Seating, TableSessionOwned
    <3> QED
      BY <1>1, <3>1 DEF TypeOK
  <2>3. UNCHANGED session
    BY <1>4, <2>2
  <2> QED
    BY <1>1, <1>2, <1>3, <2>1, <2>3, StaySeated DEF SeatingInv
<1>5. CASE /\ t = NoTable
           /\ order' = [order EXCEPT ![o] =
                [@ EXCEPT !.fulfillment = f, !.table = NoTable, !.session = NoSession]]
           /\ session' = Released(order[o])
  <2>1. order'[o].table = NoTable /\ order'[o].session = NoSession
    BY <1>1, <1>5 DEF TypeOK, OrderRow
  <2> QED
    BY <1>1, <1>3, <1>5, <2>1, StandUp DEF SeatingInv
<1>6. ASSUME t # NoTable, NEW s \in Sessions, FreshSession(s),
             order' = [order EXCEPT ![o] =
                [@ EXCEPT !.fulfillment = f, !.table = t, !.session = s]],
             session' = IF order[o].status \in Active
                        THEN [Released(order[o]) EXCEPT ![t] = s]
                        ELSE Released(order[o])
      PROVE  SeatingInv'
  <2>1. order'[o].table = t /\ order'[o].session = s /\ t \in Tables /\ TableFreeFor(o, t)
    BY <1>1, <1>6 DEF TypeOK, OrderRow, CorrectFulfillment
  <2>2. CASE order[o].status \in Active
    BY <1>1, <1>2, <1>3, <1>6, <2>1, <2>2, SitDown DEF SeatingInv
  <2>3. CASE order[o].status \notin Active
    \* A finished order only records where it would have sat: its old seat is given
    \* up, and the new table's session is not opened.
    <3>1. session' = Released(order[o])
      BY <1>6, <2>3
    <3>2. SeatHasSession' /\ SessionsDistinct'
      BY <1>1, <1>6, <2>1, SentinelAssumption
      DEF SeatingInv, Seating, SeatHasSession, SessionsDistinct, OthersKept, FreshSession
    <3>3. TableExclusive'
      BY <1>1, <1>2, <2>3 DEF SeatingInv, Seating, TableExclusive, OthersKept
    <3>4. \A p \in Orders : order'[p].status \in Active => p # o /\ order'[p] = order[p]
      BY <1>1, <1>2, <2>3 DEF OthersKept
    <3>5. TableSessionOwned'
      BY <1>1, <3>1, <3>4, ReleasedOwn DEF SeatingInv, TableSessionOwned, OthersKept
    <3> QED
      BY <1>3, <3>2, <3>3, <3>5 DEF SeatingInv, Seating
  <2> QED
    BY <2>2, <2>3
<1> QED
  BY <1>4, <1>5, <1>6 DEF CorrectFulfillment

\* Every command keeps the seating and the finished orders.
LEMMA SeatingStep ==
  ASSUME SeatingInv, [Next]_vars
  PROVE  SeatingInv'
<1>1. TypeOK /\ TypeOK'
  BY TypeStep DEF SeatingInv, Seating
<1>2. \A o \in Orders : order[o] \in OrderRow
  BY <1>1 DEF TypeOK
<1>3. CASE UNCHANGED vars
  BY <1>3 DEF vars, SeatingInv, Seating, TypeOK, SeatHasSession, SessionsDistinct,
     TableExclusive, TableSessionOwned, CompletedServed, Live, LinesOf
<1>4. ASSUME NEW o \in Orders, NEW t \in Tables \cup {NoTable},
             NEW f \in Fulfillment, NEW b \in Baskets,
             StaffCreate(o, t, f, b) \/ WebCheckout(o, t, f, b)
      PROVE  SeatingInv'
  BY <1>1, <1>4, CreateSeating
<1>16. ASSUME NEW o \in Orders, NEW t \in Tables \cup {NoTable}, NEW b \in Baskets,
              SelfServiceCreate(o, t, b)
       PROVE  SeatingInv'
  <2>1. "DINE_IN" \in Fulfillment
    BY DEF Fulfillment
  <2> QED
    BY <1>1, <1>16, <2>1, CreateSeating
<1>5. ASSUME NEW o \in Orders, NEW b \in Baskets, Append(o, b) \/ SelfServiceAppend(o, b)
      PROVE  SeatingInv'
  BY <1>1, <1>5, AppendSeating
<1>6. ASSUME NEW o \in Orders, NEW n \in Rounds, NEW target \in KitchenStatus,
             AdvanceRound(o, n, target)
      PROVE  SeatingInv'
  <2>1. LinesKept(Moved(InRound(item, o, n), target), o)
    BY <1>1, MovedKept DEF InRound
  <2>2. order[o].status \in Active
    BY <1>6 DEF AdvanceRound, Active
  <2> QED
    BY <1>1, <1>2, <1>6, <2>1, <2>2, SaveSyncedSeating DEF AdvanceRound
<1>7. ASSUME NEW o \in Orders, Accept(o) \/ Dispatch(o)
      PROVE  SeatingInv'
  <2>1. /\ OthersKept(o) /\ SameSeat(o) /\ UNCHANGED <<item, session>>
        /\ order[o].status \in Active /\ order'[o].status \in Active
    BY <1>1, <1>2, <1>7 DEF Accept, Dispatch, OthersKept, SameSeat, Active, TypeOK, OrderRow
  <2>2. Seating'
    BY <1>1, <2>1, StaySeated DEF SeatingInv
  <2> QED
    BY <2>1, <2>2, CompletedKept DEF SeatingInv, LinesKept, Active
<1>8. ASSUME NEW o \in Orders, Prepare(o) \/ MarkReady(o)
      PROVE  SeatingInv'
  <2>1. /\ LinesKept(Moved(LiveIn(o, {"WAITING"}), "PREPARING"), o)
        /\ LinesKept(Moved(LiveIn(o, {"PREPARING"}), "READY"), o)
    BY <1>1, MovedKept DEF LiveIn
  <2>2. \A s \in {"PREPARING", "READY"} :
          LET row == [order[o] EXCEPT !.status = s]
          IN /\ row \in OrderRow /\ row.status \in Active
             /\ row.table = order[o].table /\ row.session = order[o].session
    BY <1>2 DEF OrderRow, Active, Status
  <2>3. order[o].status \in Active
    BY <1>8 DEF Prepare, MarkReady, Active
  <2> QED
    BY <1>1, <1>8, <2>1, <2>2, <2>3, SaveSyncedSeating DEF Prepare, MarkReady
<1>9. ASSUME NEW o \in Orders, Complete(o)
      PROVE  SeatingInv'
  <2>1. LinesKept(item', o) /\ Live(item', o) = Live(item, o)
    BY <1>1, <1>9, MovedKept DEF Complete
  <2>2. \A l \in Live(item', o) : item'[l].status = "SERVED"
    BY <1>1, <1>9, <2>1 DEF Complete, Moved, Live, LinesOf, TypeOK, ItemRow
  <2>3. /\ OthersKept(o) /\ SameSeat(o) /\ order'[o].status \notin Active
        /\ session' = Released(order[o])
    BY <1>1, <1>2, <1>9 DEF Complete, OthersKept, SameSeat, Active, TypeOK, OrderRow
  <2> QED
    BY <1>1, <2>1, <2>2, <2>3, StandUp, CompletedKept DEF SeatingInv
<1>10. ASSUME NEW o \in Orders, Cancel(o)
       PROVE  SeatingInv'
  <2>1. /\ OthersKept(o) /\ SameSeat(o) /\ order'[o].status = "CANCELLED"
        /\ session' = Released(order[o]) /\ UNCHANGED item
    BY <1>1, <1>2, <1>10 DEF Cancel, OthersKept, SameSeat, TypeOK, OrderRow
  <2>2. Seating'
    BY <1>1, <2>1, StandUp DEF SeatingInv, Active
  <2> QED
    BY <2>1, <2>2, CompletedKept DEF SeatingInv, LinesKept
<1>11. ASSUME NEW o \in Orders, CustomerCancel(o)
       PROVE  SeatingInv'
  \* The order is unfinished, so the session it closes without looking is its own.
  <2>1. /\ OthersKept(o) /\ SameSeat(o) /\ order'[o].status = "CANCELLED" /\ UNCHANGED item
    BY <1>1, <1>2, <1>11 DEF CustomerCancel, OthersKept, SameSeat, TypeOK, OrderRow
  <2>2. ASSUME NEW t \in Tables, t = order[o].table
        PROVE  session[t] = order[o].session
    <3>1. order[o].table # NoTable /\ order[o].status \in Active
      BY <1>11, <2>2, SentinelAssumption DEF CustomerCancel, Active
    <3> QED
      BY <2>2, <3>1 DEF SeatingInv, Seating, TableSessionOwned
  <2>3. session' = Released(order[o])
    BY <1>11, <2>2 DEF CustomerCancel, Released
  <2>4. Seating'
    BY <1>1, <2>1, <2>3, StandUp DEF SeatingInv, Active
  <2> QED
    BY <2>1, <2>4, CompletedKept DEF SeatingInv, LinesKept
<1>12. ASSUME NEW o \in Orders, NEW l \in Lines, NEW q \in Quantities, RemoveItem(o, l, q)
       PROVE  SeatingInv'
  <2>1. l \in Live(item, o) /\ UnitsRemovable(o, l, q) /\ q \in 1..item[l].quantity
    BY <1>12 DEF RemoveItem, Removable, UnitsRemovable
  <2>2. LinesKept(WithoutUnits(o, l, q), o)
    BY <1>1, <2>1, WithoutUnitsKept
  <2>3. order[o].status \in Active \cup {"COMPLETED"}
    BY <1>2, <1>12 DEF RemoveItem, RemovalOpen, OrderRow, Status
  <2>4. CASE order[o].status = "PENDING"
    <3>1. item' = WithoutUnits(o, l, q) /\ UNCHANGED <<order, session>>
      BY <1>12, <2>4 DEF RemoveItem
    <3>2. OthersKept(o) /\ SameSeat(o)
      BY <3>1 DEF OthersKept, SameSeat
    <3>3. Seating'
      BY <1>1, <3>1, <3>2, StaySeated DEF SeatingInv
    <3> QED
      BY <2>2, <2>4, <3>1, <3>2, <3>3, CompletedKept DEF SeatingInv
  <2>5. CASE order[o].status = "COMPLETED"
    <3>1. Synced(WithoutUnits(o, l, q), o, order[o].status) = "COMPLETED"
      BY <1>1, <2>1, <2>5, RemovalKeepsFinished DEF SeatingInv, CompletedServed
    <3> QED
      BY <1>1, <1>2, <1>12, <2>2, <2>3, <2>5, <3>1, SaveSyncedSeating DEF RemoveItem
  <2>6. CASE order[o].status \notin {"PENDING", "COMPLETED"}
    BY <1>1, <1>2, <1>12, <2>2, <2>3, <2>6, SaveSyncedSeating DEF RemoveItem
  <2> QED
    BY <2>4, <2>5, <2>6
<1>13. ASSUME NEW o \in Orders, Bill(o) \/ Settle(o) \/ Refund(o) \/ CollectOnAccount(o)
       PROVE  SeatingInv'
  <2>1. PICK row : /\ SaveRow(o, row) /\ row.status = order[o].status
                   /\ row.table = order[o].table /\ row.session = order[o].session
    <3>1. CASE Settle(o)
      <4>1. PICK p \in {"held", order[o].paid} :
              SaveRow(o, [order[o] EXCEPT !.billed = TRUE, !.paid = p])
        BY <3>1 DEF Settle, TenderedRows
      <4>2. LET row == [order[o] EXCEPT !.billed = TRUE, !.paid = p]
            IN /\ SaveRow(o, row) /\ row.status = order[o].status
               /\ row.table = order[o].table /\ row.session = order[o].session
        BY <1>2, <4>1 DEF OrderRow
      <4> QED
        BY <4>2
    <3>2. CASE Bill(o)
      <4>1. LET row == [order[o] EXCEPT !.billed = TRUE]
            IN /\ SaveRow(o, row) /\ row.status = order[o].status
               /\ row.table = order[o].table /\ row.session = order[o].session
        BY <1>2, <3>2 DEF Bill, OrderRow
      <4> QED
        BY <4>1
    <3>3. CASE Refund(o)
      <4>1. PICK p \in {"held", "returned"} : SaveRow(o, [order[o] EXCEPT !.paid = p])
        BY <3>3 DEF Refund
      <4>2. LET row == [order[o] EXCEPT !.paid = p]
            IN /\ SaveRow(o, row) /\ row.status = order[o].status
               /\ row.table = order[o].table /\ row.session = order[o].session
        BY <1>2, <4>1 DEF OrderRow
      <4> QED
        BY <4>2
    <3>4. CASE CollectOnAccount(o)
      <4>1. LET row == [order[o] EXCEPT !.billed = TRUE, !.paid = "held"]
            IN /\ SaveRow(o, row) /\ row.status = order[o].status
               /\ row.table = order[o].table /\ row.session = order[o].session
        BY <1>2, <3>4 DEF CollectOnAccount, OrderRow
      <4> QED
        BY <4>1
    <3> QED
      BY <1>13, <3>1, <3>2, <3>3, <3>4
  <2>2. /\ OthersKept(o) /\ SameSeat(o) /\ order'[o].status = order[o].status
        /\ UNCHANGED <<item, session>>
    BY <1>1, <2>1 DEF SaveRow, OthersKept, SameSeat, TypeOK
  <2>3. Seating'
    BY <1>1, <2>2, StaySeated DEF SeatingInv
  <2> QED
    BY <2>2, <2>3, CompletedKept DEF SeatingInv, LinesKept, CompletedServed
<1>14. ASSUME NEW o \in Orders, NEW t \in Tables \cup {NoTable}, NEW f \in Fulfillment,
              CorrectFulfillment(o, t, f)
       PROVE  SeatingInv'
  BY <1>1, <1>14, CorrectSeating
<1>15. ASSUME NEW o \in Orders, Delete(o)
       PROVE  SeatingInv'
  <2>1. /\ OthersKept(o) /\ order'[o].table = NoTable /\ order'[o].session = NoSession
        /\ order'[o].status # "COMPLETED"
    BY <1>1, <1>15 DEF Delete, OthersKept, TypeOK, NoRow
  <2>2. session' = Released(order[o])
    <3>1. CASE order[o].table = NoTable
      BY <1>1, <1>15, <3>1, SentinelAssumption DEF Delete, Released, TypeOK
    <3>2. CASE order[o].table # NoTable
      BY <1>15, <3>2 DEF Delete, SeatingInv, Seating, SeatHasSession, SessionsDistinct
    <3> QED
      BY <3>1, <3>2
  <2>3. LinesKept(item', o)
    BY <1>1, <1>15, SentinelAssumption
    DEF Delete, LinesKept, Live, LinesOf, TypeOK, NoLine
  <2>4. Seating'
    BY <1>1, <2>1, <2>2, StandUp DEF SeatingInv
  <2> QED
    BY <2>1, <2>3, <2>4, CompletedKept DEF SeatingInv
<1> QED
  BY <1>3, <1>4, <1>5, <1>6, <1>7, <1>8, <1>9, <1>10, <1>11, <1>12, <1>13, <1>14, <1>15,
     <1>16 DEF Next

\* The invariant holds for every number of orders, tables and sessions.
LEMMA SeatingHolds == Spec => []SeatingInv
<1>1. Init => SeatingInv
  <2> SUFFICES ASSUME Init PROVE SeatingInv
    OBVIOUS
  <2>1. TypeOK
    BY BoundsAssumption DEF Init, TypeOK, NoRow, NoLine, OrderRow, ItemRow, Status,
       Active, Fulfillment, KitchenStatus, Quantities
  <2>2. \A o \in Orders : order[o] = NoRow
    BY DEF Init
  <2> QED
    BY <2>1, <2>2 DEF Init, SeatingInv, Seating, SeatHasSession, SessionsDistinct,
       TableExclusive, TableSessionOwned, CompletedServed, NoRow, Active
<1>2. SeatingInv /\ [Next]_vars => SeatingInv'
  BY SeatingStep
<1> QED
  BY <1>1, <1>2, PTL DEF Spec

\* However staff, guests and the website interleave their commands, a table never
\* serves two unfinished orders.
THEOREM TablesExclusive == Spec => []TableExclusive
<1>1. SeatingInv => TableExclusive
  BY DEF SeatingInv, Seating
<1> QED
  BY <1>1, SeatingHolds, PTL

\* However commands interleave, an occupied table's session is that of the one
\* unfinished order sitting there, and a table without one shows none.
THEOREM TableSessionsOwned == Spec => []TableSessionOwned
<1>1. SeatingInv => TableSessionOwned
  BY DEF SeatingInv, Seating
<1> QED
  BY <1>1, SeatingHolds, PTL

\* However commands interleave, a table belongs to one party at a time, which is the one
\* its session names.
THEOREM TablesAlwaysKept == Spec => []TablesKept
<1>1. TableExclusive /\ TableSessionOwned => TablesKept
  BY DEF TablesKept
<1> QED
  BY <1>1, TablesExclusive, TableSessionsOwned, PTL

-----------------------------------------------------------------------------
(* The kitchen.  The status follows from the lines only while the lines of  *)
(* a round move together, so that is part of the invariant, and with it     *)
(* what keeps it: a round that waits for the kitchen has something for it,  *)
(* a website order has a single round, and a line belongs to a known order. *)

Uniform(its, o) ==
  \A l, m \in Live(its, o) : its[l].round = its[m].round => its[l].status = its[m].status

Cooked(its, o) ==
  \A l \in Live(its, o) : its[l].status \in {"WAITING", "PREPARING"} =>
    \E m \in InRound(its, o, its[l].round) : its[m].kitchen

Unstarted(its, o) == \A l \in Live(its, o) : its[l].kitchen => its[l].status = "WAITING"

OneRound(its, o) == \A l \in LinesOf(its, o) : its[l].round = 1

\* The status r agrees with the lines: StatusFollowsRounds for one order.
Agrees(r, its, o) ==
  LET states == States(its, o)
  IN CASE r.status = "COMPLETED" -> states = {"SERVED"}
       [] r.status = "READY" -> states \in {{"READY"}, {"READY", "SERVED"}}
       [] r.status = "OUT_FOR_DELIVERY" -> states \in {{"READY"}, {"READY", "SERVED"}}
       [] r.status = "PREPARING" ->
            states \cap {"WAITING", "PREPARING"} # {} /\ states # {"WAITING"}
       [] r.status = "ACCEPTED" ->
            states = {"WAITING"} \/ (r.web /\ states = {"READY"})
       [] OTHER -> states \cap {"PREPARING", "SERVED"} = {}

KitchenSound(r, its, o) ==
  /\ r.status = "ABSENT" => LinesOf(its, o) = {} /\ ~r.billed
  /\ r.status # "ABSENT" => Live(its, o) # {}
  /\ Uniform(its, o) /\ Cooked(its, o)
  /\ r.status = "PENDING" => r.web
  /\ r.web => OneRound(its, o)
  /\ r.status \in {"PENDING", "CANCELLED"} => Unstarted(its, o)
  /\ r.status = "CANCELLED" => r.paid # "held"
  /\ Agrees(r, its, o)

KitchenInv == TypeOK /\ \A o \in Orders : KitchenSound(order[o], item, o)

\* What a command may do to the lines of its order, and to no others.
LinesStay(its, o) ==
  \A l \in Lines :
    /\ item[l].order # o /\ its[l].order # o => its[l] = item[l]
    /\ item[l].order \in Orders \ {o} => its[l].order # o
    /\ item[l].order = o => its[l].order \notin Orders \ {o}

Tickets(its, o) ==
  \A l \in Live(item, o) :
    /\ its[l].order = o /\ its[l].round = item[l].round
    /\ KitchenRank[its[l].status] >= KitchenRank[item[l].status]
    /\ its[l].voided => item[l].status \in {"WAITING", "SERVED"}

NewRounds(its, o) ==
  \A l \in LinesOf(its, o) \ LinesOf(item, o), m \in LinesOf(item, o) :
    its[l].round > item[m].round

Charged(its, o) ==
  /\ Live(its, o) = Live(item, o)
  /\ \A l \in Live(item, o) : its[l].quantity = item[l].quantity

Closed(r) == r.status = "CANCELLED" \/ (r.status = "COMPLETED" /\ r.billed)

TicketStep ==
  \A o \in Orders :
    /\ \A l \in Live(item, o) : order'[o].status # "ABSENT" =>
         /\ item'[l].order = o /\ item'[l].round = item[l].round
         /\ KitchenRank[item'[l].status] >= KitchenRank[item[l].status]
         /\ item'[l].voided => item[l].status \in {"WAITING", "SERVED"}
    /\ \A l \in LinesOf(item', o) \ LinesOf(item, o), m \in LinesOf(item, o) :
         item'[l].round > item[m].round

LockStep ==
  \A o \in Orders :
    order'[o].status # "ABSENT" =>
      /\ order[o].billed => Charged(item', o)
      /\ Closed(order[o]) => order'[o].status = order[o].status

LEMMA Ranks ==
  /\ KitchenRank["WAITING"] = 0 /\ KitchenRank["PREPARING"] = 1
  /\ KitchenRank["READY"] = 2 /\ KitchenRank["SERVED"] = 3
BY DEF KitchenRank, KitchenStatus

\* The states of an order's lines.
LEMMA StatesAre ==
  ASSUME NEW its \in [Lines -> ItemRow], NEW o
  PROVE  /\ States(its, o) \subseteq KitchenStatus
         /\ Live(its, o) # {} => States(its, o) # {}
         /\ \A l \in Live(its, o) : its[l].status \in States(its, o)
         /\ \A x \in States(its, o) : \E l \in Live(its, o) : its[l].status = x
BY DEF States, Live, LinesOf, ItemRow

\* The status sync_status returns for lines that exist agrees with them, and is that
\* of an order that is neither pending, cancelled nor absent.
LEMMA SyncedAgrees ==
  ASSUME NEW its \in [Lines -> ItemRow], NEW o, Live(its, o) # {}, NEW current,
         NEW r, r.status = Synced(its, o, current)
  PROVE  /\ Agrees(r, its, o)
         /\ r.status \in {"ACCEPTED", "PREPARING", "READY", "COMPLETED"}
<1> DEFINE states == States(its, o)
<1>1. states \subseteq {"WAITING", "PREPARING", "READY", "SERVED"} /\ states # {}
  BY StatesAre DEF KitchenStatus
<1>2. r.status = IF states = {"SERVED"} THEN "COMPLETED"
                 ELSE IF states = {"WAITING"} THEN "ACCEPTED"
                 ELSE IF states \cap {"WAITING", "PREPARING"} # {} THEN "PREPARING"
                 ELSE "READY"
  BY <1>1 DEF Synced
<1>3. Agrees(r, its, o) <=>
        CASE r.status = "COMPLETED" -> states = {"SERVED"}
          [] r.status = "READY" -> states \in {{"READY"}, {"READY", "SERVED"}}
          [] r.status = "OUT_FOR_DELIVERY" -> states \in {{"READY"}, {"READY", "SERVED"}}
          [] r.status = "PREPARING" ->
               states \cap {"WAITING", "PREPARING"} # {} /\ states # {"WAITING"}
          [] r.status = "ACCEPTED" ->
               states = {"WAITING"} \/ (r.web /\ states = {"READY"})
          [] OTHER -> states \cap {"PREPARING", "SERVED"} = {}
  BY DEF Agrees
<1> HIDE DEF states
<1>4. CASE states = {"SERVED"}
  BY <1>2, <1>3, <1>4
<1>5. CASE states = {"WAITING"}
  <2>1. r.status = "ACCEPTED"
    BY <1>2, <1>5
  <2> QED
    BY <1>3, <1>5, <2>1
<1>6. CASE states # {"SERVED"} /\ states # {"WAITING"} /\ states \cap {"WAITING", "PREPARING"} # {}
  <2>1. r.status = "PREPARING"
    BY <1>2, <1>6
  <2> QED
    BY <1>3, <1>6, <2>1
<1>7. CASE states # {"SERVED"} /\ states \cap {"WAITING", "PREPARING"} = {}
  <2>1. states # {"WAITING"}
    BY <1>7
  <2>2. r.status = "READY"
    BY <1>2, <1>7, <2>1
  <2>3. states = {"READY"} \/ states = {"READY", "SERVED"}
    BY <1>1, <1>7
  <2> QED
    BY <1>3, <2>2, <2>3
<1> QED
  BY <1>4, <1>5, <1>6, <1>7

\* A command that writes one order and its lines keeps what holds of the others.
LEMMA OneOrder ==
  ASSUME KitchenInv, TypeOK', NEW o \in Orders, OthersKept(o), LinesStay(item', o),
         KitchenSound(order'[o], item', o), NewRounds(item', o),
         order'[o].status # "ABSENT" =>
           /\ Tickets(item', o)
           /\ order[o].billed => Charged(item', o)
           /\ Closed(order[o]) => order'[o].status = order[o].status
  PROVE  KitchenInv' /\ TicketStep /\ LockStep
<1>1. ASSUME NEW p \in Orders \ {o}
      PROVE  /\ order'[p] = order[p] /\ LinesOf(item', p) = LinesOf(item, p)
             /\ Live(item', p) = Live(item, p)
             /\ \A l \in LinesOf(item, p) : item'[l] = item[l]
  <2>1. \A l \in Lines : item[l].order = p => item'[l] = item[l]
    BY <1>1 DEF LinesStay
  <2>2. \A l \in Lines : item'[l].order = p => item[l].order = p
    BY <1>1 DEF LinesStay
  <2>3. LinesOf(item', p) = LinesOf(item, p)
    BY <2>1, <2>2 DEF LinesOf
  <2>4. Live(item', p) = Live(item, p)
    BY <2>1, <2>3 DEF Live, LinesOf
  <2> QED
    BY <1>1, <2>1, <2>3, <2>4 DEF OthersKept, LinesOf
<1>2. ASSUME NEW p \in Orders \ {o}
      PROVE  KitchenSound(order'[p], item', p)
  <2>1. KitchenSound(order[p], item, p)
    BY DEF KitchenInv
  <2>2. \A l \in Live(item, p) : l \in LinesOf(item, p)
    BY DEF Live
  <2>3. States(item', p) = States(item, p)
    BY <1>1, <2>2 DEF States
  <2>5. Uniform(item', p) <=> Uniform(item, p)
    BY <1>1, <2>2 DEF Uniform
  <2>6. Unstarted(item', p) <=> Unstarted(item, p)
    BY <1>1, <2>2 DEF Unstarted
  <2>7. Cooked(item', p) <=> Cooked(item, p)
    <3>1. \A n : InRound(item', p, n) = InRound(item, p, n)
      BY <1>1, <2>2 DEF InRound
    <3>2. \A n : \A m \in InRound(item, p, n) : item'[m] = item[m]
      BY <1>1, <2>2 DEF InRound
    <3> QED
      BY <1>1, <2>2, <3>1, <3>2 DEF Cooked
  <2>8. OneRound(item', p) <=> OneRound(item, p)
    BY <1>1 DEF OneRound
  <2>9. Agrees(order'[p], item', p) <=> Agrees(order[p], item, p)
    BY <1>1, <2>3 DEF Agrees
  <2> QED
    BY <1>1, <2>1, <2>5, <2>6, <2>7, <2>8, <2>9 DEF KitchenSound
<1>3. KitchenInv'
  BY <1>2 DEF KitchenInv
<1>4. TicketStep
  <2> SUFFICES ASSUME NEW p \in Orders
               PROVE  /\ \A l \in Live(item, p) : order'[p].status # "ABSENT" =>
                           /\ item'[l].order = p /\ item'[l].round = item[l].round
                           /\ KitchenRank[item'[l].status] >= KitchenRank[item[l].status]
                           /\ item'[l].voided => item[l].status \in {"WAITING", "SERVED"}
                      /\ \A l \in LinesOf(item', p) \ LinesOf(item, p), m \in LinesOf(item, p) :
                           item'[l].round > item[m].round
    BY DEF TicketStep
  <2>1. CASE p = o
    BY <2>1 DEF Tickets, NewRounds
  <2>2. CASE p # o
    <3>1. \A l \in Live(item, p) : /\ item'[l] = item[l] /\ item[l].order = p /\ ~item[l].voided
                                   /\ item[l].status \in KitchenStatus
      BY <1>1, <2>2 DEF Live, LinesOf, KitchenInv, TypeOK, ItemRow
    <3>2. \A s \in KitchenStatus : KitchenRank[s] >= KitchenRank[s]
      BY Ranks DEF KitchenStatus
    <3> QED
      BY <1>1, <2>2, <3>1, <3>2
  <2> QED
    BY <2>1, <2>2
<1>5. LockStep
  <2>1. \A p \in Orders \ {o} : Charged(item', p)
    BY <1>1 DEF Charged, Live
  <2> QED
    BY <1>1, <2>1 DEF LockStep
<1> QED
  BY <1>3, <1>4, <1>5

\* sync_status followed by save.
LEMMA SaveSyncedKitchen ==
  ASSUME KitchenInv, TypeOK', NEW o \in Orders, NEW row \in OrderRow, NEW its \in [Lines -> ItemRow],
         SaveSynced(o, row, its), LinesStay(its, o), Live(its, o) # {},
         Uniform(its, o), Cooked(its, o), NewRounds(its, o), Tickets(its, o),
         row.web => OneRound(its, o),
         order[o].billed => Charged(its, o),
         Closed(order[o]) => Synced(its, o, row.status) = order[o].status
  PROVE  KitchenInv' /\ TicketStep /\ LockStep
<1>1. /\ order'[o] = [row EXCEPT !.status = Synced(its, o, row.status)]
      /\ OthersKept(o) /\ item' = its
  BY DEF KitchenInv, TypeOK, SaveSynced, OthersKept
<1>2. order'[o].status = Synced(its, o, row.status) /\ order'[o].web = row.web
  BY <1>1 DEF OrderRow
<1>3. /\ Agrees(order'[o], its, o)
      /\ order'[o].status \in {"ACCEPTED", "PREPARING", "READY", "COMPLETED"}
  BY <1>2, SyncedAgrees
<1>4. KitchenSound(order'[o], its, o)
  BY <1>2, <1>3 DEF KitchenSound
<1> QED
  BY <1>1, <1>2, <1>3, <1>4, OneOrder

-----------------------------------------------------------------------------
(* What the commands do to the lines.                                      *)

\* A kitchen step on whole rounds, forward.
LEMMA MovedLines ==
  ASSUME KitchenInv, NEW o \in Orders, NEW lines \in SUBSET Live(item, o), NEW target \in KitchenStatus,
         \A l \in lines, m \in Live(item, o) : item[l].round = item[m].round => m \in lines,
         \A l \in lines : KitchenRank[item[l].status] <= KitchenRank[target]
  PROVE  LET its == Moved(lines, target)
         IN /\ its \in [Lines -> ItemRow] /\ LinesStay(its, o)
            /\ LinesOf(its, o) = LinesOf(item, o) /\ Live(its, o) = Live(item, o)
            /\ \A l \in Lines : its[l].status = IF l \in lines THEN target ELSE item[l].status
            /\ Uniform(its, o) /\ Cooked(its, o) /\ NewRounds(its, o)
            /\ Tickets(its, o) /\ Charged(its, o)
            /\ OneRound(item, o) => OneRound(its, o)
<1> DEFINE its == Moved(lines, target)
<1>1. /\ \A l \in Lines : item[l] \in ItemRow
      /\ \A l \in Live(item, o) : l \in Lines /\ l \in LinesOf(item, o) /\ item[l].order = o /\ ~item[l].voided
      /\ Uniform(item, o) /\ Cooked(item, o)
  BY DEF KitchenInv, TypeOK, KitchenSound, Live, LinesOf
<1>2. its \in [Lines -> ItemRow]
  BY MovedType DEF KitchenInv
<1>3. \A l \in Lines :
        /\ its[l].status = IF l \in lines THEN target ELSE item[l].status
        /\ its[l].order = item[l].order /\ its[l].round = item[l].round
        /\ its[l].kitchen = item[l].kitchen /\ its[l].quantity = item[l].quantity
        /\ its[l].voided = item[l].voided
        /\ l \notin lines => its[l] = item[l]
  BY <1>1 DEF Moved, ItemRow
<1> HIDE DEF its
<1>4. LinesOf(its, o) = LinesOf(item, o)
  BY <1>3 DEF LinesOf
<1>5. Live(its, o) = Live(item, o)
  BY <1>3, <1>4 DEF Live, LinesOf
<1>6. LinesStay(its, o)
  BY <1>1, <1>3 DEF LinesStay
<1>7. Uniform(its, o)
  BY <1>1, <1>3, <1>5 DEF Uniform
<1>8. Cooked(its, o)
  <2> SUFFICES ASSUME NEW l \in Live(its, o), its[l].status \in {"WAITING", "PREPARING"}
               PROVE  \E m \in InRound(its, o, its[l].round) : its[m].kitchen
    BY DEF Cooked
  <2>1. l \in Live(item, o) /\ l \in Lines
    BY <1>1, <1>5
  <2>2. item[l].status \in {"WAITING", "PREPARING"}
    <3>1. CASE l \in lines
      <4>1. its[l].status = target
        BY <1>3, <2>1, <3>1
      <4>2. KitchenRank[item[l].status] <= KitchenRank[target] /\ item[l].status \in KitchenStatus
        BY <1>1, <2>1, <3>1 DEF ItemRow
      <4> QED
        BY <4>1, <4>2, Ranks DEF KitchenStatus
    <3>2. CASE l \notin lines
      BY <1>3, <2>1, <3>2
    <3> QED
      BY <3>1, <3>2
  <2>3. PICK m \in InRound(item, o, item[l].round) : item[m].kitchen
    BY <1>1, <2>1, <2>2 DEF Cooked
  <2>4. m \in Live(item, o) /\ m \in Lines /\ item[m].round = item[l].round
    BY <1>1 DEF InRound
  <2> QED
    BY <1>3, <1>5, <2>1, <2>3, <2>4 DEF InRound
<1>9. NewRounds(its, o)
  BY <1>4 DEF NewRounds
<1>10. Tickets(its, o)
  <2> SUFFICES ASSUME NEW l \in Live(item, o)
               PROVE  /\ its[l].order = o /\ its[l].round = item[l].round
                      /\ KitchenRank[its[l].status] >= KitchenRank[item[l].status]
                      /\ ~its[l].voided
    BY DEF Tickets
  <2>1. its[l].order = o /\ its[l].round = item[l].round /\ ~its[l].voided
    BY <1>1, <1>3
  <2>2. KitchenRank[its[l].status] >= KitchenRank[item[l].status]
    <3>1. item[l].status \in KitchenStatus
      BY <1>1 DEF ItemRow
    <3>2. CASE l \in lines
      <4>1. its[l].status = target /\ KitchenRank[item[l].status] <= KitchenRank[target]
        BY <1>1, <1>3, <3>2
      <4> QED
        BY <3>1, <4>1, Ranks DEF KitchenStatus
    <3>3. CASE l \notin lines
      <4>1. its[l].status = item[l].status
        BY <1>1, <1>3, <3>3
      <4> QED
        BY <3>1, <4>1, Ranks DEF KitchenStatus
    <3> QED
      BY <3>2, <3>3
  <2> QED
    BY <2>1, <2>2
<1>11. Charged(its, o)
  BY <1>1, <1>3, <1>5 DEF Charged
<1>12. OneRound(item, o) => OneRound(its, o)
  BY <1>3, <1>4 DEF OneRound, LinesOf
<1> QED
  BY <1>2, <1>3, <1>4, <1>5, <1>6, <1>7, <1>8, <1>9, <1>10, <1>11, <1>12 DEF its

\* A new round whose number no line of the order has.
LEMMA WithRoundLines ==
  ASSUME KitchenInv, NEW o \in Orders, NEW n \in Nat, NEW b \in Baskets, Unused(b),
         \A m \in LinesOf(item, o) : item[m].round < n
  PROVE  LET its == WithRound(o, n, b)
         IN /\ its \in [Lines -> ItemRow] /\ LinesStay(its, o)
            /\ LinesOf(its, o) = LinesOf(item, o) \cup DOMAIN b
            /\ Live(its, o) = Live(item, o) \cup DOMAIN b /\ DOMAIN b # {}
            /\ \A l \in DOMAIN b :
                 /\ its[l].status = IF NeedsKitchen(b) THEN "WAITING" ELSE "READY"
                 /\ its[l].kitchen => NeedsKitchen(b)
                 /\ its[l].round = n
            /\ Uniform(its, o) /\ Cooked(its, o) /\ NewRounds(its, o) /\ Tickets(its, o)
<1> DEFINE its == WithRound(o, n, b)
           s == IF NeedsKitchen(b) THEN "WAITING" ELSE "READY"
<1>1. /\ \A l \in Lines : item[l] \in ItemRow
      /\ \A l \in Live(item, o) : l \in Lines /\ l \in LinesOf(item, o) /\ item[l].order = o /\ ~item[l].voided
      /\ Uniform(item, o) /\ Cooked(item, o)
  BY DEF KitchenInv, TypeOK, KitchenSound, Live, LinesOf
<1>2. its \in [Lines -> ItemRow]
  BY WithRoundType DEF KitchenInv
<1>3. DOMAIN b \subseteq Lines /\ DOMAIN b # {} /\ \A l \in DOMAIN b : item[l].order \notin Orders
  BY BasketType, SentinelAssumption DEF Unused
<1>4. \A l \in DOMAIN b : /\ its[l].order = o /\ its[l].round = n /\ its[l].kitchen = b[l].kitchen
                          /\ its[l].status = s /\ ~its[l].voided
  BY <1>3 DEF WithRound
<1>5. \A l \in Lines \ DOMAIN b : its[l] = item[l]
  BY DEF WithRound
<1>6. \A l \in DOMAIN b : its[l].kitchen => NeedsKitchen(b)
  BY <1>4 DEF NeedsKitchen
<1>7. NeedsKitchen(b) => \E l \in DOMAIN b : its[l].kitchen
  BY <1>4 DEF NeedsKitchen
<1>8. s \in {"WAITING", "READY"} /\ (s = "WAITING" => NeedsKitchen(b))
  OBVIOUS
<1> HIDE DEF its, s
<1>9. LinesOf(its, o) = LinesOf(item, o) \cup DOMAIN b /\ LinesOf(item, o) \cap DOMAIN b = {}
  BY <1>3, <1>4, <1>5 DEF LinesOf
<1>10. Live(its, o) = Live(item, o) \cup DOMAIN b
  BY <1>3, <1>4, <1>5, <1>9 DEF Live, LinesOf
<1>11. LinesStay(its, o)
  BY <1>3, <1>4, <1>5 DEF LinesStay
<1>12. \A l \in LinesOf(item, o) : l \in Lines \ DOMAIN b /\ its[l] = item[l] /\ its[l].round < n
  BY <1>5, <1>9 DEF LinesOf
<1>13. \A l \in Live(item, o) : its[l] = item[l] /\ its[l].round < n
  BY <1>1, <1>12
<1>14. \A l \in Lines : item[l].round \in Nat
  BY <1>1 DEF ItemRow
<1>15. Uniform(its, o)
  <2> SUFFICES ASSUME NEW l \in Live(its, o), NEW m \in Live(its, o), its[l].round = its[m].round
               PROVE  its[l].status = its[m].status
    BY DEF Uniform
  <2>1. CASE l \in DOMAIN b /\ m \in DOMAIN b
    BY <1>4, <2>1
  <2>2. CASE l \in DOMAIN b /\ m \notin DOMAIN b
    BY <1>4, <1>10, <1>13, <1>14, <1>1, <2>2
  <2>3. CASE l \notin DOMAIN b /\ m \in DOMAIN b
    BY <1>4, <1>10, <1>13, <1>14, <1>1, <2>3
  <2>4. CASE l \notin DOMAIN b /\ m \notin DOMAIN b
    BY <1>1, <1>10, <1>13, <2>4 DEF Uniform
  <2> QED
    BY <2>1, <2>2, <2>3, <2>4
<1>16. Cooked(its, o)
  <2> SUFFICES ASSUME NEW l \in Live(its, o), its[l].status \in {"WAITING", "PREPARING"}
               PROVE  \E m \in InRound(its, o, its[l].round) : its[m].kitchen
    BY DEF Cooked
  <2>1. CASE l \in DOMAIN b
    <3>1. PICK m \in DOMAIN b : its[m].kitchen
      BY <1>4, <1>7, <1>8, <2>1
    <3> QED
      BY <1>4, <1>10, <2>1, <3>1 DEF InRound
  <2>2. CASE l \notin DOMAIN b
    <3>1. l \in Live(item, o) /\ its[l] = item[l]
      BY <1>10, <1>13, <2>2
    <3>2. PICK m \in InRound(item, o, item[l].round) : item[m].kitchen
      BY <1>1, <3>1 DEF Cooked
    <3>3. m \in Live(item, o) /\ item[m].round = item[l].round
      BY DEF InRound
    <3> QED
      BY <1>10, <1>13, <3>1, <3>2, <3>3 DEF InRound
  <2> QED
    BY <2>1, <2>2
<1>17. NewRounds(its, o)
  <2> SUFFICES ASSUME NEW l \in LinesOf(its, o) \ LinesOf(item, o), NEW m \in LinesOf(item, o)
               PROVE  its[l].round > item[m].round
    BY DEF NewRounds
  <2>1. its[l].round = n /\ item[m].round < n /\ item[m].round \in Nat
    BY <1>4, <1>9, <1>12, <1>14
  <2> QED
    BY <2>1
<1>18. Tickets(its, o)
  <2> SUFFICES ASSUME NEW l \in Live(item, o)
               PROVE  /\ its[l].order = o /\ its[l].round = item[l].round
                      /\ KitchenRank[its[l].status] >= KitchenRank[item[l].status]
                      /\ ~its[l].voided
    BY DEF Tickets
  <2>1. its[l] = item[l] /\ item[l].status \in KitchenStatus /\ item[l].order = o /\ ~item[l].voided
    BY <1>1, <1>13 DEF ItemRow
  <2>2. \A k \in KitchenStatus : KitchenRank[k] >= KitchenRank[k]
    BY Ranks DEF KitchenStatus
  <2> QED
    BY <2>1, <2>2
<1> QED
  BY <1>2, <1>3, <1>4, <1>6, <1>9, <1>10, <1>11, <1>15, <1>16, <1>17, <1>18 DEF its, s

\* Units taken off a line nobody started, or everybody was served of.
LEMMA WithoutUnitsLines ==
  ASSUME KitchenInv, NEW o \in Orders, NEW l \in Live(item, o), NEW q \in Nat, UnitsRemovable(o, l, q),
         item[l].status \in {"WAITING", "SERVED"}
  PROVE  LET its == WithoutUnits(o, l, q)
         IN /\ its \in [Lines -> ItemRow] /\ LinesStay(its, o) /\ Live(its, o) # {}
            /\ Live(its, o) \subseteq Live(item, o)
            /\ \A m \in Lines : its[m].status # item[m].status
                 => item[m].status = "WAITING" /\ its[m].status = "READY"
            /\ Uniform(its, o) /\ Cooked(its, o) /\ NewRounds(its, o) /\ Tickets(its, o)
            /\ OneRound(item, o) => OneRound(its, o)
            /\ Unstarted(item, o) => Unstarted(its, o)
<1> DEFINE cut == [item EXCEPT ![l].voided = (q = item[l].quantity),
                               ![l].quantity = IF q = item[l].quantity THEN @ ELSE @ - q]
           left == InRound(cut, o, item[l].round)
           bare == ~\E m \in left : cut[m].kitchen
           its == WithoutUnits(o, l, q)
<1>1. /\ \A m \in Lines : item[m] \in ItemRow
      /\ \A m \in Live(item, o) : m \in Lines /\ m \in LinesOf(item, o) /\ item[m].order = o /\ ~item[m].voided
      /\ Uniform(item, o) /\ Cooked(item, o) /\ l \in Lines
  BY DEF KitchenInv, TypeOK, KitchenSound, Live, LinesOf
<1>2. q \in 1..item[l].quantity /\ (q = item[l].quantity => Live(item, o) # {l})
  BY DEF UnitsRemovable
<1>3. its \in [Lines -> ItemRow]
  BY <1>1, <1>2, WithoutUnitsType DEF KitchenInv
<1>4. \A m \in Lines :
        /\ cut[m].order = item[m].order /\ cut[m].round = item[m].round
        /\ cut[m].kitchen = item[m].kitchen /\ cut[m].status = item[m].status
        /\ cut[m].voided = IF m = l THEN (q = item[l].quantity) ELSE item[m].voided
        /\ m # l => cut[m] = item[m]
        /\ {"order", "round", "kitchen", "status", "voided"} \subseteq DOMAIN cut[m]
  BY <1>1 DEF KitchenInv, TypeOK, ItemRow
<1>5. its = IF bare
            THEN [m \in Lines |-> IF m \in left /\ cut[m].status = "WAITING"
                                  THEN [cut[m] EXCEPT !.status = "READY"] ELSE cut[m]]
            ELSE cut
  BY DEF WithoutUnits
<1>6. left = {m \in Live(cut, o) : cut[m].round = item[l].round}
  BY DEF InRound
<1>7. bare = ~\E m \in left : cut[m].kitchen
  OBVIOUS
<1> HIDE DEF cut, left, bare, its
<1>8. \A m \in Lines :
        /\ its[m].order = item[m].order /\ its[m].round = item[m].round
        /\ its[m].kitchen = item[m].kitchen
        /\ its[m].voided = IF m = l THEN (q = item[l].quantity) ELSE item[m].voided
        /\ its[m].status = IF bare /\ m \in left /\ item[m].status = "WAITING"
                           THEN "READY" ELSE item[m].status
        /\ m # l /\ m \notin left => its[m] = item[m]
  <2> TAKE m \in Lines
  <2>1. CASE bare /\ m \in left /\ cut[m].status = "WAITING"
    <3>1. its[m] = [cut[m] EXCEPT !.status = "READY"]
      BY <1>5, <2>1
    <3> QED
      BY <1>4, <2>1, <3>1
  <2>2. CASE ~(bare /\ m \in left /\ cut[m].status = "WAITING")
    <3>1. its[m] = cut[m]
      BY <1>5, <2>2
    <3> QED
      BY <1>4, <2>2, <3>1
  <2> QED
    BY <2>1, <2>2
<1>9. Live(cut, o) = {m \in Live(item, o) : m # l \/ q # item[l].quantity}
  BY <1>1, <1>4 DEF Live, LinesOf
<1>10. Live(its, o) = {m \in Live(item, o) : m # l \/ q # item[l].quantity}
  BY <1>1, <1>8 DEF Live, LinesOf
<1>11. left = {m \in Live(its, o) : item[m].round = item[l].round}
  BY <1>1, <1>4, <1>6, <1>9, <1>10
<1>12. Live(its, o) \subseteq Live(item, o) /\ Live(its, o) # {}
  BY <1>2, <1>10
<1>13. \A m \in left : m \in Live(item, o) /\ m \in Lines /\ item[m].order = o
  BY <1>1, <1>11, <1>12
<1>14. LinesStay(its, o)
  BY <1>1, <1>8, <1>13 DEF LinesStay
<1>15. \A m \in Lines : its[m].status # item[m].status
         => item[m].status = "WAITING" /\ its[m].status = "READY"
  BY <1>8
<1>16. Uniform(its, o)
  <2> SUFFICES ASSUME NEW x \in Live(its, o), NEW y \in Live(its, o), its[x].round = its[y].round
               PROVE  its[x].status = its[y].status
    BY DEF Uniform
  <2>1. x \in Live(item, o) /\ y \in Live(item, o) /\ x \in Lines /\ y \in Lines
    BY <1>1, <1>12
  <2>2. item[x].round = item[y].round
    BY <1>8, <2>1
  <2>3. item[x].status = item[y].status
    BY <1>1, <2>1, <2>2 DEF Uniform
  <2>4. x \in left <=> y \in left
    BY <1>11, <2>2
  <2> QED
    BY <1>8, <2>1, <2>3, <2>4
<1>17. Cooked(its, o)
  <2> SUFFICES ASSUME NEW x \in Live(its, o), its[x].status \in {"WAITING", "PREPARING"}
               PROVE  \E m \in InRound(its, o, its[x].round) : its[m].kitchen
    BY DEF Cooked
  <2>1. x \in Live(item, o) /\ x \in Lines
    BY <1>1, <1>12
  <2>2. item[x].status \in {"WAITING", "PREPARING"} /\ its[x].round = item[x].round
    BY <1>8, <1>15, <2>1
  <2>3. CASE x \in left
    <3>1. item[x].status = item[l].status
      BY <1>1, <1>11, <2>1, <2>3 DEF Uniform
    <3>2. item[x].status = "WAITING"
      BY <2>2, <3>1
    <3>3. ~bare
      BY <1>8, <2>1, <2>3, <3>2
    <3>4. PICK m \in left : cut[m].kitchen
      BY <1>7, <3>3
    <3>5. m \in Lines /\ m \in Live(its, o) /\ its[m].kitchen /\ its[m].round = its[x].round
      BY <1>4, <1>8, <1>11, <1>13, <2>1, <2>3, <3>4
    <3> QED
      BY <3>5 DEF InRound
  <2>4. CASE x \notin left
    <3>1. item[x].round # item[l].round
      BY <1>11, <2>4
    <3>2. PICK m \in InRound(item, o, item[x].round) : item[m].kitchen
      BY <1>1, <2>1, <2>2 DEF Cooked
    <3>3. m \in Live(item, o) /\ item[m].round = item[x].round
      BY DEF InRound
    <3>4. m # l /\ m \in Lines
      BY <1>1, <3>1, <3>3
    <3>5. m \in Live(its, o) /\ its[m].kitchen /\ its[m].round = its[x].round
      BY <1>8, <1>10, <2>2, <3>2, <3>3, <3>4
    <3> QED
      BY <3>5 DEF InRound
  <2> QED
    BY <2>3, <2>4
<1>18. LinesOf(its, o) = LinesOf(item, o)
  BY <1>8 DEF LinesOf
<1>19. NewRounds(its, o)
  BY <1>18 DEF NewRounds
<1>20. Tickets(its, o)
  <2> SUFFICES ASSUME NEW x \in Live(item, o)
               PROVE  /\ its[x].order = o /\ its[x].round = item[x].round
                      /\ KitchenRank[its[x].status] >= KitchenRank[item[x].status]
                      /\ its[x].voided => item[x].status \in {"WAITING", "SERVED"}
    BY DEF Tickets
  <2>1. /\ its[x].order = o /\ its[x].round = item[x].round
        /\ its[x].voided => item[x].status \in {"WAITING", "SERVED"}
    BY <1>1, <1>8
  <2>2. /\ item[x].status \in KitchenStatus
        /\ its[x].status = item[x].status \/ (item[x].status = "WAITING" /\ its[x].status = "READY")
    BY <1>1, <1>15 DEF ItemRow
  <2>3. KitchenRank[its[x].status] >= KitchenRank[item[x].status]
    BY <2>2, Ranks DEF KitchenStatus
  <2> QED
    BY <2>1, <2>3
<1>21. OneRound(item, o) => OneRound(its, o)
  BY <1>8, <1>18 DEF OneRound, LinesOf
<1>22. Unstarted(item, o) => Unstarted(its, o)
  <2> SUFFICES ASSUME Unstarted(item, o), NEW x \in Live(its, o), its[x].kitchen
               PROVE  its[x].status = "WAITING"
    BY DEF Unstarted
  <2>1. x \in Live(item, o) /\ x \in Lines
    BY <1>1, <1>12
  <2>2. item[x].kitchen /\ item[x].status = "WAITING"
    BY <1>8, <2>1 DEF Unstarted
  <2>3. ~(bare /\ x \in left)
    BY <1>4, <1>7, <2>1, <2>2
  <2> QED
    BY <1>8, <2>1, <2>2, <2>3
<1> QED
  BY <1>3, <1>12, <1>14, <1>15, <1>16, <1>17, <1>19, <1>20, <1>21, <1>22 DEF its

-----------------------------------------------------------------------------
(* Every command keeps the kitchen's invariant, its tickets and the lock.  *)

\* A command that leaves the lines alone.
LEMMA RowKitchen ==
  ASSUME KitchenInv, TypeOK', NEW o \in Orders, OthersKept(o), UNCHANGED item,
         KitchenSound(order'[o], item, o),
         Closed(order[o]) => order'[o].status = order[o].status
  PROVE  KitchenInv' /\ TicketStep /\ LockStep
<1>1. LinesStay(item, o) /\ NewRounds(item, o) /\ Charged(item, o)
  BY DEF LinesStay, NewRounds, Charged
<1>2. Tickets(item, o)
  <2>1. \A l \in Live(item, o) : /\ item[l].order = o /\ ~item[l].voided
                                 /\ item[l].status \in KitchenStatus
    BY DEF Live, LinesOf, KitchenInv, TypeOK, ItemRow
  <2>2. \A s \in KitchenStatus : KitchenRank[s] >= KitchenRank[s]
    BY Ranks DEF KitchenStatus
  <2> QED
    BY <2>1, <2>2 DEF Tickets
<1> QED
  BY <1>1, <1>2, OneOrder

\* A command that changes neither the status nor the origin.
LEMMA SameStatusKitchen ==
  ASSUME KitchenInv, TypeOK', NEW o \in Orders, OthersKept(o), UNCHANGED item,
         order'[o].status = order[o].status, order'[o].web = order[o].web,
         order[o].status = "ABSENT" => order'[o].billed = order[o].billed,
         order[o].status = "CANCELLED" => order'[o].paid = order[o].paid
  PROVE  KitchenInv' /\ TicketStep /\ LockStep
<1>1. KitchenSound(order[o], item, o)
  BY DEF KitchenInv
<1>2. Agrees(order'[o], item, o)
  BY <1>1 DEF KitchenSound, Agrees
<1>3. KitchenSound(order'[o], item, o)
  BY <1>1, <1>2 DEF KitchenSound
<1> QED
  BY <1>3, RowKitchen

LEMMA OpenKitchen ==
  ASSUME KitchenInv, TypeOK', NEW o \in Orders, NEW row \in OrderRow,
         NEW t \in Tables \cup {NoTable}, NEW b \in Baskets, Open(o, row, t, b),
         \/ row.status = OpeningStatus(b) /\ ~row.web
         \/ row.status = "PENDING" /\ row.web
  PROVE  KitchenInv' /\ TicketStep /\ LockStep
<1> DEFINE its == WithRound(o, 1, b)
           s == IF NeedsKitchen(b) THEN "WAITING" ELSE "READY"
<1>1. LinesOf(item, o) = {} /\ Live(item, o) = {} /\ ~order[o].billed /\ order[o].status = "ABSENT"
  BY DEF KitchenInv, KitchenSound, Open, Live
<1>2. Unused(b) /\ item' = its
  BY DEF Open
<1>3. /\ its \in [Lines -> ItemRow] /\ LinesStay(its, o)
      /\ LinesOf(its, o) = DOMAIN b /\ Live(its, o) = DOMAIN b /\ DOMAIN b # {}
      /\ \A l \in DOMAIN b : /\ its[l].status = s /\ its[l].round = 1
                             /\ its[l].kitchen => NeedsKitchen(b)
      /\ Uniform(its, o) /\ Cooked(its, o) /\ NewRounds(its, o) /\ Tickets(its, o)
  <2>1. \A m \in LinesOf(item, o) : item[m].round < 1
    BY <1>1
  <2>2. /\ its \in [Lines -> ItemRow] /\ LinesStay(its, o)
        /\ LinesOf(its, o) = LinesOf(item, o) \cup DOMAIN b
        /\ Live(its, o) = Live(item, o) \cup DOMAIN b /\ DOMAIN b # {}
        /\ \A l \in DOMAIN b :
             /\ its[l].status = IF NeedsKitchen(b) THEN "WAITING" ELSE "READY"
             /\ its[l].kitchen => NeedsKitchen(b)
             /\ its[l].round = 1
        /\ Uniform(its, o) /\ Cooked(its, o) /\ NewRounds(its, o) /\ Tickets(its, o)
    BY <1>2, <2>1, WithRoundLines
  <2> HIDE DEF its
  <2> QED
    BY <1>1, <2>2
<1>4. OthersKept(o) /\ order'[o].status = row.status /\ order'[o].web = row.web
  <2>1. PICK saved \in OrderRow : /\ order' = [order EXCEPT ![o] = saved]
                                  /\ saved.status = row.status /\ saved.web = row.web
    <3>1. CASE order' = [order EXCEPT ![o] = row]
      BY <3>1
    <3>2. ASSUME NEW s1 \in Sessions, t \in Tables,
                 order' = [order EXCEPT ![o] = [row EXCEPT !.table = t, !.session = s1]]
          PROVE  \E saved \in OrderRow : /\ order' = [order EXCEPT ![o] = saved]
                                         /\ saved.status = row.status /\ saved.web = row.web
      <4>1. /\ [row EXCEPT !.table = t, !.session = s1] \in OrderRow
            /\ [row EXCEPT !.table = t, !.session = s1].status = row.status
            /\ [row EXCEPT !.table = t, !.session = s1].web = row.web
        BY <3>2 DEF OrderRow
      <4> QED
        BY <3>2, <4>1
    <3> QED
      BY <3>1, <3>2 DEF Open
  <2> QED
    BY <2>1 DEF KitchenInv, TypeOK, OthersKept
<1>5. NeedsKitchen(b) => s = "WAITING"
  OBVIOUS
<1>6. s \in {"WAITING", "READY"} /\ OpeningStatus(b) = IF s = "WAITING" THEN "ACCEPTED" ELSE "READY"
  BY DEF OpeningStatus
<1> HIDE DEF its, s
<1>7. States(its, o) = {s}
  BY <1>3 DEF States
<1>8. Agrees(order'[o], its, o)
  BY <1>4, <1>6, <1>7 DEF Agrees
<1>9. Unstarted(its, o) /\ OneRound(its, o)
  BY <1>3, <1>5 DEF Unstarted, OneRound
<1>10. KitchenSound(order'[o], its, o)
  BY <1>3, <1>4, <1>6, <1>8, <1>9 DEF KitchenSound
<1> QED
  BY <1>1, <1>2, <1>3, <1>4, <1>10, OneOrder DEF Closed

LEMMA CreateKitchen ==
  ASSUME KitchenInv, TypeOK', NEW o \in Orders, NEW t \in Tables \cup {NoTable},
         NEW f \in Fulfillment, NEW b \in Baskets,
         \/ StaffCreate(o, t, f, b) \/ WebCheckout(o, t, f, b)
         \/ SelfServiceCreate(o, t, b)
  PROVE  KitchenInv' /\ TicketStep /\ LockStep
<1>1. \A status, web, g : /\ OpenedRow(status, web, g).status = status
                          /\ OpenedRow(status, web, g).web = web
  BY DEF OpenedRow, NoRow
<1>2. CASE StaffCreate(o, t, f, b)
  <2> DEFINE row == OpenedRow(OpeningStatus(b), FALSE, f)
  <2>1. row \in OrderRow
    BY RowType
  <2>2. PICK saved \in {row} \cup TenderedRows(row) : Open(o, saved, t, b)
    BY <1>2 DEF StaffCreate
  <2>3. saved \in OrderRow
    BY <2>1, RowType
  <2>4. saved.status = row.status /\ saved.web = row.web
    <3>1. CASE saved = row
      BY <3>1
    <3>2. CASE saved \in TenderedRows(row)
      <4>1. PICK p \in {"held", row.paid} : saved = [row EXCEPT !.billed = TRUE, !.paid = p]
        BY <3>2 DEF TenderedRows
      <4> HIDE DEF row
      <4> QED
        BY <2>1, <4>1 DEF OrderRow
    <3> QED
      BY <2>2, <3>1, <3>2
  <2>5. saved.status = OpeningStatus(b) /\ ~saved.web
    BY <1>1, <2>4
  <2> QED
    BY <2>2, <2>3, <2>5, OpenKitchen
<1>3. CASE WebCheckout(o, t, f, b)
  <2>1. OpenedRow("PENDING", TRUE, f) \in OrderRow
    BY RowType DEF Status, Active
  <2> QED
    BY <1>1, <1>3, <2>1, OpenKitchen DEF WebCheckout
<1>4. CASE SelfServiceCreate(o, t, b)
  <2> DEFINE g == IF t = NoTable THEN "TAKEAWAY" ELSE "DINE_IN"
  <2>1. OpenedRow(OpeningStatus(b), FALSE, g) \in OrderRow
    BY RowType DEF Fulfillment
  <2>2. Open(o, OpenedRow(OpeningStatus(b), FALSE, g), t, b)
    BY <1>4 DEF SelfServiceCreate
  <2> HIDE DEF g
  <2> QED
    BY <1>1, <2>1, <2>2, OpenKitchen
<1> QED
  BY <1>2, <1>3, <1>4

LEMMA AppendKitchen ==
  ASSUME KitchenInv, TypeOK', NEW o \in Orders, NEW b \in Baskets,
         Append(o, b) \/ SelfServiceAppend(o, b)
  PROVE  KitchenInv' /\ TicketStep /\ LockStep
<1>1. /\ order[o] \in OrderRow /\ ~order[o].web /\ ~order[o].billed /\ Unused(b)
      /\ order[o].status \notin {"CANCELLED", "ABSENT"}
  BY DEF KitchenInv, TypeOK, Append, SelfServiceAppend, AppendAllowed
<1>2. PICK n \in Rounds : /\ IsNextRound(o, n) /\ item' = WithRound(o, n, b)
                          /\ Append(o, b) \/ SaveSynced(o, order[o], WithRound(o, n, b))
  BY DEF Append, SelfServiceAppend, SaveSynced
<1> DEFINE its == WithRound(o, n, b)
<1>3. n \in Nat /\ \A m \in LinesOf(item, o) : item[m].round < n
  BY <1>2, BoundsAssumption DEF Rounds, IsNextRound
<1>4. /\ its \in [Lines -> ItemRow] /\ LinesStay(its, o) /\ Live(its, o) # {}
      /\ Uniform(its, o) /\ Cooked(its, o) /\ NewRounds(its, o) /\ Tickets(its, o)
  BY <1>1, <1>3, WithRoundLines
<1>5. CASE Append(o, b)
  <2>1. OthersKept(o) /\ order'[o].status = Synced(item', o, order[o].status)
        /\ order'[o].web = order[o].web
    BY <1>1, <1>5 DEF Append, OthersKept, KitchenInv, TypeOK, OrderRow
  <2> HIDE DEF its
  <2>2. item' = its
    BY <1>2 DEF its
  <2>3. /\ Agrees(order'[o], its, o)
        /\ order'[o].status \in {"ACCEPTED", "PREPARING", "READY", "COMPLETED"}
    BY <1>4, <2>1, <2>2, SyncedAgrees
  <2>4. KitchenSound(order'[o], its, o)
    BY <1>1, <1>4, <2>1, <2>3 DEF KitchenSound
  <2> QED
    BY <1>1, <1>4, <2>1, <2>2, <2>4, OneOrder DEF Closed
<1>6. CASE SaveSynced(o, order[o], WithRound(o, n, b))
  BY <1>1, <1>4, <1>6, SaveSyncedKitchen DEF Closed
<1> QED
  BY <1>2, <1>5, <1>6

\* While a round moves together, the state rounds() derives for it is each line's.
LEMMA RoundIsUniform ==
  ASSUME KitchenInv, NEW o \in Orders, NEW n
  PROVE  \A l \in InRound(item, o, n) : item[l].status = RoundState(item, o, n)
<1> SUFFICES ASSUME NEW l \in InRound(item, o, n)
             PROVE  item[l].status = RoundState(item, o, n)
  OBVIOUS
<1>1. \A m \in InRound(item, o, n) : item[m].status = item[l].status
  BY DEF KitchenInv, KitchenSound, Uniform, InRound
<1>2. {item[m].status : m \in InRound(item, o, n)} = {item[l].status}
  BY <1>1
<1>3. item[l].status \in KitchenStatus
  BY DEF KitchenInv, TypeOK, ItemRow, InRound, Live, LinesOf
<1> DEFINE s == item[l].status
<1>4. RoundState(item, o, n) =
        IF {s} = {"SERVED"} THEN "SERVED"
        ELSE IF {s} = {"WAITING"} THEN "WAITING"
        ELSE IF {s} \cap {"WAITING", "PREPARING"} # {} THEN "PREPARING" ELSE "READY"
  BY <1>2 DEF RoundState
<1> HIDE DEF s
<1>5. s \in {"WAITING", "PREPARING", "READY", "SERVED"}
  BY <1>3 DEF KitchenStatus, s
<1>6. RoundState(item, o, n) = s
  <2>1. CASE s \in {"WAITING", "SERVED"}
    BY <1>4, <2>1
  <2>2. CASE s \in {"PREPARING", "READY"}
    <3>1. {s} # {"SERVED"} /\ {s} # {"WAITING"}
      BY <2>2
    <3>2. {s} \cap {"WAITING", "PREPARING"} # {} <=> s = "PREPARING"
      BY <2>2
    <3> QED
      BY <1>4, <2>2, <3>1, <3>2
  <2> QED
    BY <1>5, <2>1, <2>2
<1> QED
  BY <1>6 DEF s

\* advance_round, and the transitions that start or finish every line.
LEMMA AdvanceKitchen ==
  ASSUME KitchenInv, TypeOK', NEW o \in Orders, NEW n \in Rounds, NEW target \in KitchenStatus,
         AdvanceRound(o, n, target)
  PROVE  KitchenInv' /\ TicketStep /\ LockStep
<1> DEFINE lines == InRound(item, o, n)
           its == Moved(lines, target)
<1>1. lines \in SUBSET Live(item, o) /\ lines # {}
  BY DEF AdvanceRound, InRound
<1>2. \A l \in lines, m \in Live(item, o) : item[l].round = item[m].round => m \in lines
  BY DEF InRound
<1>3. \A l \in lines : KitchenRank[item[l].status] <= KitchenRank[target]
  BY RoundIsUniform, Ranks DEF AdvanceRound
<1>4. /\ its \in [Lines -> ItemRow] /\ LinesStay(its, o) /\ Live(its, o) = Live(item, o)
      /\ Uniform(its, o) /\ Cooked(its, o) /\ NewRounds(its, o)
      /\ Tickets(its, o) /\ Charged(its, o)
      /\ OneRound(item, o) => OneRound(its, o)
  <2> HIDE DEF lines
  <2> QED
    BY <1>1, <1>2, <1>3, MovedLines
<1>5. SaveSynced(o, order[o], its) /\ order[o] \in OrderRow /\ ~Closed(order[o])
  BY DEF AdvanceRound, KitchenInv, TypeOK, Closed
<1>6. order[o].web => OneRound(item, o)
  BY DEF KitchenInv, KitchenSound
<1> HIDE DEF its
<1> QED
  BY <1>1, <1>4, <1>5, <1>6, SaveSyncedKitchen

LEMMA StartKitchen ==
  ASSUME KitchenInv, TypeOK', NEW o \in Orders, Prepare(o) \/ MarkReady(o)
  PROVE  KitchenInv' /\ TicketStep /\ LockStep
<1>1. PICK from \in KitchenStatus, to \in KitchenStatus, status \in Status :
        /\ KitchenRank[from] <= KitchenRank[to]
        /\ order[o].status \in {"ACCEPTED", "PREPARING"}
        /\ SaveSynced(o, [order[o] EXCEPT !.status = status], Moved(LiveIn(o, {from}), to))
  <2>1. CASE Prepare(o)
    BY <2>1, Ranks DEF Prepare, KitchenStatus, Status, Active
  <2>2. CASE MarkReady(o)
    BY <2>2, Ranks DEF MarkReady, KitchenStatus, Status, Active
  <2> QED
    BY <2>1, <2>2
<1> DEFINE lines == LiveIn(o, {from})
           its == Moved(lines, to)
           row == [order[o] EXCEPT !.status = status]
<1>2. lines \in SUBSET Live(item, o) /\ \A l \in lines : item[l].status = from
  BY DEF LiveIn
<1>3. \A l \in lines, m \in Live(item, o) : item[l].round = item[m].round => m \in lines
  BY DEF LiveIn, KitchenInv, KitchenSound, Uniform
<1>4. \A l \in lines : KitchenRank[item[l].status] <= KitchenRank[to]
  BY <1>1, <1>2
<1>5. /\ its \in [Lines -> ItemRow] /\ LinesStay(its, o) /\ Live(its, o) = Live(item, o)
      /\ Uniform(its, o) /\ Cooked(its, o) /\ NewRounds(its, o)
      /\ Tickets(its, o) /\ Charged(its, o)
      /\ OneRound(item, o) => OneRound(its, o)
  <2> HIDE DEF lines
  <2> QED
    BY <1>2, <1>3, <1>4, MovedLines
<1>6. row \in OrderRow /\ row.web = order[o].web /\ ~Closed(order[o])
  BY <1>1 DEF KitchenInv, TypeOK, OrderRow, Closed
<1>7. (order[o].web => OneRound(item, o)) /\ Live(item, o) # {}
  BY <1>1 DEF KitchenInv, KitchenSound
<1>8. SaveSynced(o, row, its)
  BY <1>1
<1> HIDE DEF its, row
<1> QED
  BY <1>5, <1>6, <1>7, <1>8, SaveSyncedKitchen

\* The transitions that leave the lines alone.
LEMMA AcceptKitchen ==
  ASSUME KitchenInv, TypeOK', NEW o \in Orders, Accept(o) \/ Dispatch(o)
  PROVE  KitchenInv' /\ TicketStep /\ LockStep
<1>1. KitchenSound(order[o], item, o) /\ item \in [Lines -> ItemRow]
  BY DEF KitchenInv, TypeOK
<1>2. /\ OthersKept(o) /\ UNCHANGED item /\ order'[o].web = order[o].web
  BY DEF KitchenInv, TypeOK, OrderRow, Accept, Dispatch, OthersKept
<1>3. CASE Accept(o)
  <2>1. order[o].status = "PENDING" /\ order'[o].status = "ACCEPTED"
    BY <1>3 DEF KitchenInv, TypeOK, OrderRow, Accept
  <2>2. order[o].web /\ OneRound(item, o) /\ Live(item, o) # {}
        /\ States(item, o) \cap {"PREPARING", "SERVED"} = {}
    BY <1>1, <2>1 DEF KitchenSound, Agrees
  <2>3. PICK l \in Live(item, o) : TRUE
    BY <2>2
  <2>4. \A m \in Live(item, o) : item[m].status = item[l].status
    <3>1. \A m \in Live(item, o) : m \in LinesOf(item, o)
      BY DEF Live
    <3> QED
      BY <1>1, <2>2, <3>1 DEF KitchenSound, Uniform, OneRound
  <2>5. States(item, o) = {item[l].status}
    BY <2>4 DEF States
  <2>6. item[l].status \in {"WAITING", "READY"}
    BY <1>1, <2>2, <2>5, StatesAre DEF KitchenStatus
  <2>7. Agrees(order'[o], item, o)
    BY <1>2, <2>1, <2>2, <2>5, <2>6 DEF Agrees
  <2>8. KitchenSound(order'[o], item, o)
    BY <1>1, <1>2, <2>1, <2>2, <2>7 DEF KitchenSound
  <2> QED
    BY <1>2, <2>1, <2>8, RowKitchen DEF Closed
<1>4. CASE Dispatch(o)
  <2>1. order[o].status = "READY" /\ order'[o].status = "OUT_FOR_DELIVERY"
    BY <1>4 DEF KitchenInv, TypeOK, OrderRow, Dispatch
  <2>2. Agrees(order'[o], item, o)
    BY <1>1, <2>1 DEF KitchenSound, Agrees
  <2>3. KitchenSound(order'[o], item, o)
    BY <1>1, <1>2, <2>1, <2>2 DEF KitchenSound
  <2> QED
    BY <1>2, <2>1, <2>3, RowKitchen DEF Closed
<1> QED
  BY <1>3, <1>4

LEMMA CompleteKitchen ==
  ASSUME KitchenInv, TypeOK', NEW o \in Orders, Complete(o)
  PROVE  KitchenInv' /\ TicketStep /\ LockStep
<1> DEFINE lines == Live(item, o)
           its == Moved(lines, "SERVED")
<1>1. "SERVED" \in KitchenStatus /\ \A l \in lines : l \in Lines /\ item[l].status \in KitchenStatus
  BY DEF KitchenStatus, KitchenInv, TypeOK, ItemRow, Live, LinesOf
<1>2. \A l \in lines : KitchenRank[item[l].status] <= KitchenRank["SERVED"]
  BY <1>1, Ranks DEF KitchenStatus
<1>3. /\ its \in [Lines -> ItemRow] /\ LinesStay(its, o) /\ Live(its, o) = Live(item, o)
      /\ \A l \in Lines : its[l].status = IF l \in lines THEN "SERVED" ELSE item[l].status
      /\ Uniform(its, o) /\ Cooked(its, o) /\ NewRounds(its, o)
      /\ Tickets(its, o) /\ Charged(its, o)
      /\ OneRound(item, o) => OneRound(its, o)
  BY <1>1, <1>2, MovedLines
<1>4. /\ OthersKept(o) /\ item' = its /\ order'[o].web = order[o].web
      /\ order'[o].status = "COMPLETED" /\ order[o].status \in {"READY", "OUT_FOR_DELIVERY"}
  BY DEF Complete, KitchenInv, TypeOK, OrderRow, OthersKept
<1>5. KitchenSound(order[o], item, o)
  BY DEF KitchenInv
<1> HIDE DEF its
<1>6. \A l \in Live(its, o) : its[l].status = "SERVED"
  BY <1>1, <1>3
<1>7. Live(its, o) # {}
  BY <1>3, <1>4, <1>5 DEF KitchenSound
<1>8. States(its, o) = {"SERVED"}
  BY <1>6, <1>7 DEF States
<1>9. Agrees(order'[o], its, o)
  BY <1>4, <1>8 DEF Agrees
<1>10. KitchenSound(order'[o], its, o)
  BY <1>3, <1>4, <1>5, <1>7, <1>9 DEF KitchenSound
<1> QED
  BY <1>3, <1>4, <1>10, OneOrder DEF Closed

LEMMA CancelKitchen ==
  ASSUME KitchenInv, TypeOK', NEW o \in Orders, Cancel(o) \/ CustomerCancel(o)
  PROVE  KitchenInv' /\ TicketStep /\ LockStep
<1>1. KitchenSound(order[o], item, o) /\ item \in [Lines -> ItemRow]
  BY DEF KitchenInv, TypeOK
<1>2. /\ OthersKept(o) /\ UNCHANGED item /\ order'[o].web = order[o].web
      /\ order'[o].status = "CANCELLED" /\ order'[o].paid = order[o].paid
      /\ order[o].status \notin {"ABSENT", "CANCELLED", "COMPLETED"} /\ order[o].paid # "held"
  BY DEF KitchenInv, TypeOK, OrderRow, Cancel, CustomerCancel, OthersKept
<1>3. Unstarted(item, o) /\ States(item, o) \cap {"PREPARING", "SERVED"} = {}
  <2>1. CASE Cancel(o)
    <3>1. Unstarted(item, o) /\ \A l \in Live(item, o) : item[l].status # "SERVED"
      BY <2>1 DEF Cancel, NothingStarted, Unstarted, LiveIn
    <3>2. \A l \in Live(item, o) : item[l].status # "PREPARING"
      <4> SUFFICES ASSUME NEW l \in Live(item, o), item[l].status = "PREPARING" PROVE FALSE
        OBVIOUS
      <4>1. PICK m \in InRound(item, o, item[l].round) : item[m].kitchen
        BY <1>1 DEF KitchenSound, Cooked
      <4>2. m \in Live(item, o) /\ item[m].round = item[l].round
        BY DEF InRound
      <4>3. item[m].status = "PREPARING" /\ item[m].status = "WAITING"
        BY <1>1, <3>1, <4>1, <4>2 DEF KitchenSound, Uniform, Unstarted
      <4> QED
        BY <4>3
    <3> QED
      BY <3>1, <3>2 DEF States
  <2>2. CASE CustomerCancel(o)
    BY <1>1, <2>2 DEF CustomerCancel, KitchenSound, Agrees
  <2> QED
    BY <2>1, <2>2
<1>4. Agrees(order'[o], item, o)
  BY <1>2, <1>3 DEF Agrees
<1>5. KitchenSound(order'[o], item, o)
  BY <1>1, <1>2, <1>3, <1>4 DEF KitchenSound
<1> QED
  BY <1>2, <1>5, RowKitchen DEF Closed

LEMMA RemoveKitchen ==
  ASSUME KitchenInv, TypeOK', NEW o \in Orders, NEW l \in Lines, NEW q \in Quantities, RemoveItem(o, l, q)
  PROVE  KitchenInv' /\ TicketStep /\ LockStep
<1> DEFINE its == WithoutUnits(o, l, q)
<1>1. KitchenSound(order[o], item, o) /\ order[o] \in OrderRow
  BY DEF KitchenInv, TypeOK
<1>2. /\ order[o].status \notin {"ABSENT", "CANCELLED"} /\ ~order[o].billed
      /\ l \in Live(item, o) /\ item[l].status \in {"WAITING", "SERVED"}
      /\ UnitsRemovable(o, l, q) /\ q \in Nat
  BY BoundsAssumption DEF RemoveItem, RemovalOpen, Removable, Quantities
<1>3. /\ its \in [Lines -> ItemRow] /\ LinesStay(its, o) /\ Live(its, o) # {}
      /\ Live(its, o) \subseteq Live(item, o)
      /\ \A m \in Lines : its[m].status # item[m].status
           => item[m].status = "WAITING" /\ its[m].status = "READY"
      /\ Uniform(its, o) /\ Cooked(its, o) /\ NewRounds(its, o) /\ Tickets(its, o)
      /\ OneRound(item, o) => OneRound(its, o)
      /\ Unstarted(item, o) => Unstarted(its, o)
  BY <1>2, WithoutUnitsLines
<1>4. ~Closed(order[o])
  BY <1>2 DEF Closed
<1>5. CASE order[o].status = "PENDING"
  <2>1. item' = its /\ order' = order
    BY <1>5 DEF RemoveItem
  <2> HIDE DEF its
  <2>2. \A m \in Live(its, o) : its[m].status \notin {"PREPARING", "SERVED"}
    <3> SUFFICES ASSUME NEW m \in Live(its, o) PROVE its[m].status \notin {"PREPARING", "SERVED"}
      OBVIOUS
    <3>1. m \in Live(item, o) /\ m \in Lines
      BY <1>3 DEF Live, LinesOf
    <3>2. item[m].status \in States(item, o)
      BY <3>1 DEF States
    <3>3. States(item, o) \cap {"PREPARING", "SERVED"} = {}
      BY <1>1, <1>5 DEF KitchenSound, Agrees
    <3>4. item[m].status \notin {"PREPARING", "SERVED"}
      BY <3>2, <3>3
    <3> QED
      BY <1>3, <3>1, <3>4
  <2>3. Agrees(order[o], its, o)
    <3>1. States(its, o) \cap {"PREPARING", "SERVED"} = {}
      BY <2>2 DEF States
    <3> QED
      BY <1>5, <3>1 DEF Agrees
  <2>4. KitchenSound(order'[o], item', o)
    BY <1>1, <1>3, <1>5, <2>1, <2>3 DEF KitchenSound
  <2> QED
    BY <1>2, <1>3, <1>4, <2>1, <2>4, OneOrder DEF OthersKept
<1>6. CASE order[o].status # "PENDING"
  <2>1. SaveSynced(o, order[o], its)
    BY <1>6 DEF RemoveItem
  <2>2. order[o].web => OneRound(its, o)
    <3> HIDE DEF its
    <3> QED
      BY <1>1, <1>3 DEF KitchenSound
  <2> HIDE DEF its
  <2> QED
    BY <1>1, <1>2, <1>3, <1>4, <2>1, <2>2, SaveSyncedKitchen
<1> QED
  BY <1>5, <1>6

\* The commands that only write the row's money facts or its seat.
LEMMA SameStatusSteps ==
  ASSUME KitchenInv, TypeOK', NEW o \in Orders, NEW t, NEW f,
         \/ Bill(o) \/ Settle(o) \/ Refund(o) \/ CollectOnAccount(o)
         \/ CorrectFulfillment(o, t, f)
  PROVE  KitchenInv' /\ TicketStep /\ LockStep
<1>1. order[o] \in OrderRow /\ order \in [Orders -> OrderRow]
      /\ (order[o].status = "CANCELLED" => order[o].paid # "held")
  BY DEF KitchenInv, TypeOK, KitchenSound
<1>2. CASE Bill(o)
  BY <1>1, <1>2, SameStatusKitchen DEF Bill, SaveRow, OthersKept, OrderRow
<1>3. CASE Settle(o)
  <2>1. PICK p \in {"held", order[o].paid} :
          SaveRow(o, [order[o] EXCEPT !.billed = TRUE, !.paid = p])
    BY <1>3 DEF Settle, TenderedRows
  <2> QED
    BY <1>1, <1>3, <2>1, SameStatusKitchen DEF Settle, SaveRow, OthersKept, OrderRow
<1>4. CASE Refund(o)
  <2>1. PICK p \in {"held", "returned"} : SaveRow(o, [order[o] EXCEPT !.paid = p])
    BY <1>4 DEF Refund
  <2>2. order[o].status # "CANCELLED"
    BY <1>1, <1>4 DEF Refund
  <2> QED
    BY <1>1, <2>1, <2>2, SameStatusKitchen DEF SaveRow, OthersKept, OrderRow
<1>5. CASE CollectOnAccount(o)
  BY <1>1, <1>5, SameStatusKitchen DEF CollectOnAccount, SaveRow, OthersKept, OrderRow
<1>6. CASE CorrectFulfillment(o, t, f)
  <2>1. PICK row : /\ order' = [order EXCEPT ![o] = row] /\ row.status = order[o].status
                   /\ row.web = order[o].web /\ row.billed = order[o].billed
                   /\ row.paid = order[o].paid
    <3>1. ASSUME NEW s, order' = [order EXCEPT ![o] =
                          [@ EXCEPT !.fulfillment = f, !.table = t, !.session = s]]
          PROVE  \E row : /\ order' = [order EXCEPT ![o] = row] /\ row.status = order[o].status
                          /\ row.web = order[o].web /\ row.billed = order[o].billed
                          /\ row.paid = order[o].paid
      <4> DEFINE row == [order[o] EXCEPT !.fulfillment = f, !.table = t, !.session = s]
      <4>1. order' = [order EXCEPT ![o] = row]
        BY <1>1, <3>1
      <4>2. /\ row.status = order[o].status
            /\ row.web = order[o].web /\ row.billed = order[o].billed
            /\ row.paid = order[o].paid
        BY <1>1 DEF OrderRow
      <4> QED
        BY <4>1, <4>2
    <3>2. CASE order' = [order EXCEPT ![o].fulfillment = f]
      <4> DEFINE row == [order[o] EXCEPT !.fulfillment = f]
      <4>1. order' = [order EXCEPT ![o] = row]
        BY <1>1, <3>2
      <4>2. /\ row.status = order[o].status
            /\ row.web = order[o].web /\ row.billed = order[o].billed
            /\ row.paid = order[o].paid
        BY <1>1 DEF OrderRow
      <4> QED
        BY <4>1, <4>2
    <3>3. CASE t = NoTable /\ order' = [order EXCEPT ![o] =
                 [@ EXCEPT !.fulfillment = f, !.table = NoTable, !.session = NoSession]]
      BY <3>1, <3>3
    <3> QED
      BY <1>6, <3>1, <3>2, <3>3 DEF CorrectFulfillment
  <2>2. UNCHANGED item
    BY <1>6 DEF CorrectFulfillment
  <2> QED
    BY <1>1, <2>1, <2>2, SameStatusKitchen DEF OthersKept
<1> QED
  BY <1>2, <1>3, <1>4, <1>5, <1>6

LEMMA DeleteKitchen ==
  ASSUME KitchenInv, TypeOK', NEW o \in Orders, Delete(o)
  PROVE  KitchenInv' /\ TicketStep /\ LockStep
<1>1. /\ OthersKept(o) /\ order'[o] = NoRow
      /\ item' = [l \in Lines |-> IF item[l].order = o THEN NoLine ELSE item[l]]
  BY DEF Delete, KitchenInv, TypeOK, OthersKept
<1>2. NoLine.order = NoOrder /\ NoOrder \notin Orders
  BY SentinelAssumption DEF NoLine
<1>3. LinesStay(item', o)
  BY <1>1, <1>2 DEF LinesStay
<1>4. LinesOf(item', o) = {}
  BY <1>1, <1>2 DEF LinesOf
<1>5. Live(item', o) = {} /\ States(item', o) = {}
  BY <1>4 DEF Live, States
<1>6. NoRow.status = "ABSENT" /\ NoRow.billed = FALSE /\ NoRow.web = FALSE
  BY DEF NoRow
<1>7. Agrees(NoRow, item', o)
  BY <1>5, <1>6 DEF Agrees
<1>8. KitchenSound(NoRow, item', o)
  BY <1>4, <1>5, <1>6, <1>7 DEF KitchenSound, Uniform, Cooked, OneRound
<1>9. NewRounds(item', o)
  BY <1>4 DEF NewRounds
<1> QED
  BY <1>1, <1>3, <1>6, <1>8, <1>9, OneOrder

LEMMA KitchenStep ==
  ASSUME KitchenInv, Next
  PROVE  KitchenInv' /\ TicketStep /\ LockStep
<1>1. TypeOK'
  BY TypeStep DEF KitchenInv
<1>2. ASSUME NEW o \in Orders, NEW t \in Tables \cup {NoTable},
             NEW f \in Fulfillment, NEW b \in Baskets,
             StaffCreate(o, t, f, b) \/ WebCheckout(o, t, f, b)
      PROVE  KitchenInv' /\ TicketStep /\ LockStep
  BY <1>1, <1>2, CreateKitchen
<1>3. ASSUME NEW o \in Orders, NEW t \in Tables \cup {NoTable}, NEW b \in Baskets,
             SelfServiceCreate(o, t, b)
      PROVE  KitchenInv' /\ TicketStep /\ LockStep
  <2>1. "DINE_IN" \in Fulfillment
    BY DEF Fulfillment
  <2> QED
    BY <1>1, <1>3, <2>1, CreateKitchen
<1>4. ASSUME NEW o \in Orders, NEW b \in Baskets, Append(o, b) \/ SelfServiceAppend(o, b)
      PROVE  KitchenInv' /\ TicketStep /\ LockStep
  BY <1>1, <1>4, AppendKitchen
<1>5. ASSUME NEW o \in Orders, NEW n \in Rounds, NEW target \in KitchenStatus,
             AdvanceRound(o, n, target)
      PROVE  KitchenInv' /\ TicketStep /\ LockStep
  BY <1>1, <1>5, AdvanceKitchen
<1>6. ASSUME NEW o \in Orders,
             Accept(o) \/ Prepare(o) \/ MarkReady(o) \/ Dispatch(o) \/ Complete(o) \/ Cancel(o)
      PROVE  KitchenInv' /\ TicketStep /\ LockStep
  BY <1>1, <1>6, AcceptKitchen, StartKitchen, CompleteKitchen, CancelKitchen
<1>7. ASSUME NEW o \in Orders, NEW l \in Lines, NEW q \in Quantities, RemoveItem(o, l, q)
      PROVE  KitchenInv' /\ TicketStep /\ LockStep
  BY <1>1, <1>7, RemoveKitchen
<1>8. ASSUME NEW o \in Orders, Bill(o) \/ Settle(o) \/ Refund(o) \/ CollectOnAccount(o)
      PROVE  KitchenInv' /\ TicketStep /\ LockStep
  BY <1>1, <1>8, SameStatusSteps
<1>9. ASSUME NEW o \in Orders, NEW t \in Tables \cup {NoTable}, NEW f \in Fulfillment,
             CorrectFulfillment(o, t, f)
      PROVE  KitchenInv' /\ TicketStep /\ LockStep
  BY <1>1, <1>9, SameStatusSteps
<1>10. ASSUME NEW o \in Orders, CustomerCancel(o) \/ Delete(o)
       PROVE  KitchenInv' /\ TicketStep /\ LockStep
  BY <1>1, <1>10, CancelKitchen, DeleteKitchen
<1> QED
  BY <1>2, <1>3, <1>4, <1>5, <1>6, <1>7, <1>8, <1>9, <1>10 DEF Next

LEMMA KitchenHolds == Spec => []KitchenInv
<1>1. Init => KitchenInv
  <2> SUFFICES ASSUME Init PROVE KitchenInv
    OBVIOUS
  <2>1. TypeOK
    BY BoundsAssumption DEF Init, TypeOK, NoRow, NoLine, OrderRow, ItemRow, Status,
       Active, Fulfillment, KitchenStatus, Quantities
  <2>2. ASSUME NEW o \in Orders PROVE KitchenSound(order[o], item, o)
    <3>1. order[o] = NoRow /\ \A l \in Lines : item[l].order = NoOrder
      BY DEF Init, NoLine
    <3>2. LinesOf(item, o) = {}
      BY <3>1, SentinelAssumption DEF LinesOf
    <3>3. Live(item, o) = {} /\ States(item, o) = {}
      BY <3>2 DEF Live, States
    <3>4. NoRow.status = "ABSENT" /\ NoRow.billed = FALSE /\ NoRow.web = FALSE
      BY DEF NoRow
    <3>5. Agrees(NoRow, item, o)
      BY <3>3, <3>4 DEF Agrees
    <3> QED
      BY <3>1, <3>2, <3>3, <3>4, <3>5 DEF KitchenSound, Uniform, Cooked, OneRound
  <2> QED
    BY <2>1, <2>2 DEF KitchenInv
<1>2. KitchenInv /\ [Next]_vars => KitchenInv'
  <2>1. ASSUME KitchenInv, UNCHANGED vars PROVE KitchenInv'
    <3>1. order' = order /\ item' = item /\ session' = session
      BY <2>1 DEF vars
    <3>2. TypeOK'
      BY <2>1, <3>1 DEF KitchenInv, TypeOK
    <3> QED
      BY <2>1, <3>1, <3>2 DEF KitchenInv
  <2> QED
    BY <2>1, KitchenStep
<1> QED
  BY <1>1, <1>2, PTL DEF Spec

\* Whatever is added, removed, started or handed over, an order's status is the one its
\* live lines justify (sync_status).
THEOREM StatusAlwaysFollows == Spec => []StatusFollowsRounds
<1>1. KitchenInv => StatusFollowsRounds
  BY DEF KitchenInv, KitchenSound, Agrees, StatusFollowsRounds
<1> QED
  BY <1>1, KitchenHolds, PTL

\* The lines of a round share a state, the final item stays, and nothing of a cancelled
\* order was started or is still paid for (preparation.rounds, remove_order_item, cancel).
THEOREM RoundsAlwaysSound == Spec => []RoundsSound
<1>1. KitchenInv => RoundsSound
  BY DEF KitchenInv, KitchenSound, Uniform, Unstarted, RoundsSound, RoundsUniform, NeverEmpty, CancelledClean
<1> QED
  BY <1>1, KitchenHolds, PTL

\* The screens' offer to remove a line and the command's own checks always agree.
THEOREM OffersAlwaysKept == Spec => []OffersKept
<1>1. KitchenInv => OffersKept
  <2> SUFFICES ASSUME KitchenInv, NEW o \in Orders, NEW l \in LinesOf(item, o)
               PROVE  CanRemove(o, l) <=>
                        RemovalOpen(o) /\ Removable(o, l) /\ \E q \in Quantities : UnitsRemovable(o, l, q)
    BY DEF OffersKept
  <2>1. l \in Lines /\ item[l].quantity \in Quantities /\ order[o].status # "ABSENT"
    BY DEF KitchenInv, TypeOK, ItemRow, KitchenSound, LinesOf
  <2>2. Quantities = 1..MaxQuantity /\ MaxQuantity \in Nat
    BY BoundsAssumption DEF Quantities
  <2>3. l \in Live(item, o) <=> ~item[l].voided
    BY DEF Live
  <2>4. (\E q \in Quantities : UnitsRemovable(o, l, q))
          <=> item[l].quantity > 1 \/ Live(item, o) # {l}
    <3>1. ASSUME item[l].quantity > 1 \/ Live(item, o) # {l}
          PROVE  \E q \in Quantities : UnitsRemovable(o, l, q)
      BY <2>1, <2>2, <3>1 DEF UnitsRemovable
    <3>2. ASSUME NEW q \in Quantities, UnitsRemovable(o, l, q)
          PROVE  item[l].quantity > 1 \/ Live(item, o) # {l}
      BY <2>1, <2>2, <3>2 DEF UnitsRemovable
    <3> QED
      BY <3>1, <3>2
  <2>5. l \in Live(item, o) => (Live(item, o) # {l} <=> \E m \in Live(item, o) : m # l)
    OBVIOUS
  <2> QED
    BY <2>1, <2>3, <2>4, <2>5 DEF CanRemove, RemovalOpen, Removable
<1> QED
  BY <1>1, KitchenHolds, PTL

\* A billed order's lines and quantities stay, and a closed order is not reopened.
THEOREM BillsAlwaysLock == Spec => BillLocks
<1> DEFINE Step == \A o \in Orders :
       order'[o].status # "ABSENT" =>
         /\ order[o].billed =>
              /\ Live(item', o) = Live(item, o)
              /\ \A l \in Live(item, o) : item'[l].quantity = item[l].quantity
         /\ order[o].status = "CANCELLED" \/ (order[o].status = "COMPLETED" /\ order[o].billed)
              => order'[o].status = order[o].status
<1>1. LockStep => Step
  BY DEF LockStep, Charged, Closed
<1>2. KitchenInv /\ [Next]_vars => [Step]_vars
  BY <1>1, KitchenStep
<1> QED
  BY <1>2, KitchenHolds, PTL DEF Spec, BillLocks

\* No command moves a started line back or to another round, and new lines form a round
\* of their own, numbered above all earlier ones (add_lines, advance_round).
THEOREM TicketsAlwaysStand == Spec => TicketsStand
<1>1. KitchenInv /\ [Next]_vars => [TicketStep]_vars
  BY KitchenStep
<1> QED
  BY <1>1, KitchenHolds, PTL DEF Spec, TicketsStand, TicketStep
=============================================================================
