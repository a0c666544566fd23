--------------------------- MODULE Legacy_proofs ---------------------------
(***************************************************************************)
(* Theorems about Legacy for any number of requests, orders, tables, keys  *)
(* and session ids: settlement implements FiscalBook, and whatever is      *)
(* marked paid was paid for; and about Deliveries for any rows, any number *)
(* of overlapping runs and any limit of attempts.                          *)
(***************************************************************************)
EXTENDS Legacy, Deliveries, FiniteSetTheorems, TLAPS

-----------------------------------------------------------------------------
(* Types.                                                                  *)

\* An order is absent or made for a table and a session that were read.
LEMMA NewRowType ==
  ASSUME NEW t \in Tables \cup {NoTable}, NEW s \in 0..MaxSession
  PROVE  NewRow(t, s) \in OrderRow
BY DEF NewRow, OrderRow, OrderStatus

LEMMA RowType ==
  ASSUME TypeOK, NEW o \in Orders
  PROVE  order[o] \in OrderRow
BY DEF TypeOK

LEMMA NullTypes == NoRow \in OrderRow /\ Idle \in Job
<1>1. NoRow \in OrderRow
  BY LegacyAssumption DEF NoRow, OrderRow, OrderStatus
<1> QED
  BY <1>1, LegacyAssumption DEF Idle, Job

\* A request that takes another job, or is done, keeps the types.
LEMMA JobType ==
  ASSUME TypeOK, NEW w, NEW job \in Job
  PROVE  [work EXCEPT ![w] = job] \in [Workers -> Job]
BY DEF TypeOK

\* A row is saved whole, and a table closed.
LEMMA SaveType ==
  ASSUME TypeOK
  PROVE  /\ \A w, o, saved : saved \in OrderRow /\ SaveRow(w, o, saved) => order' \in [Orders -> OrderRow]
         /\ \A w, t : CloseTable(w, t) => session' \in [Tables -> 0..MaxSession]
         /\ \A w \in Workers : Done(w) => work' \in [Workers -> Job]
<1>1. \A w, o, saved : saved \in OrderRow /\ SaveRow(w, o, saved) => order' \in [Orders -> OrderRow]
  BY DEF TypeOK, SaveRow
<1>2. \A w, t : CloseTable(w, t) => session' \in [Tables -> 0..MaxSession]
  BY LegacyAssumption DEF TypeOK, CloseTable
<1>3. \A w \in Workers : Done(w) => work' \in [Workers -> Job]
  BY NullTypes, JobType DEF Done
<1> QED
  BY <1>1, <1>2, <1>3

-----------------------------------------------------------------------------
(* What a step does to the types: one lemma for the guests' steps, one for *)
(* the kitchen's and the settlement's, one for the riders'.                *)

\* What a request has read or computed is of the types it was read from.
LEMMA JobFields ==
  ASSUME TypeOK, NEW w \in Workers
  PROVE  /\ work[w].order \in Orders \cup {NoOrder} /\ work[w].row \in OrderRow
         /\ work[w].table \in Tables \cup {NoTable} /\ work[w].session \in 0..MaxSession
         /\ work[w].key \in Keys \cup {NoKey} /\ work[w].number \in Nat
BY DEF TypeOK, Job

\* The tab of a session is one of those running at its table, or none.
LEMMA LookedUp ==
  ASSUME NEW w \in Workers, LookUpTab(w)
  PROVE  LET s == IF work[w].session = 0 THEN sessions' ELSE work[w].session
         IN \E o \in IF Running(work[w].table, s) = {} THEN {NoOrder} ELSE Running(work[w].table, s) :
              work' = [work EXCEPT ![w] =
                [@ EXCEPT !.step = "ordering", !.order = o, !.session = s,
                          !.opens = (work[w].session = 0),
                          !.row = IF o = NoOrder THEN NoRow ELSE order[o]]]
BY DEF LookUpTab

\* Sitting down and looking up the tab keep the types.
LEMMA GuestType ==
  ASSUME TypeOK, NEW w \in Workers,
         (\E t \in Tables : Sit(w, t)) \/ LookUpTab(w)
  PROVE  TypeOK'
<1>1. CASE \E t \in Tables : Sit(w, t)
  <2> PICK t \in Tables : Sit(w, t)
    BY <1>1
  <2>1. [Idle EXCEPT !.step = "seated", !.table = t, !.session = session[t]] \in Job
    BY NullTypes DEF TypeOK, Job, Idle
  <2> QED
    BY <2>1, JobType DEF Sit, Begin, TypeOK, books
<1>2. CASE LookUpTab(w)
  <2> DEFINE s == IF work[w].session = 0 THEN sessions' ELSE work[w].session
  <2>1. sessions' \in 0..MaxSession
    <3>1. OpenSession(w)
      BY <1>2 DEF LookUpTab
    <3>2. sessions \in 0..MaxSession /\ MaxSession \in Nat
      BY LegacyAssumption DEF TypeOK
    <3> QED
      BY <3>1, <3>2 DEF OpenSession
  <2>2. s \in 0..MaxSession
    BY <2>1, JobFields
  <2>3. PICK o \in IF Running(work[w].table, s) = {} THEN {NoOrder} ELSE Running(work[w].table, s) :
          work' = [work EXCEPT ![w] =
            [@ EXCEPT !.step = "ordering", !.order = o, !.session = s,
                      !.opens = (work[w].session = 0),
                      !.row = IF o = NoOrder THEN NoRow ELSE order[o]]]
    BY <1>2, LookedUp
  <2>4. o \in Orders \cup {NoOrder}
    BY DEF Running
  <2>5. (IF o = NoOrder THEN NoRow ELSE order[o]) \in OrderRow
    BY <2>4, NullTypes, RowType
  <2> DEFINE job == [work[w] EXCEPT !.step = "ordering", !.order = o, !.session = s,
                      !.opens = (work[w].session = 0),
                      !.row = IF o = NoOrder THEN NoRow ELSE order[o]]
  <2>6. job \in Job
    <3>1. work[w] \in Job
      BY DEF TypeOK
    <3> QED
      BY <2>2, <2>4, <2>5, <3>1 DEF Job
  <2>7. work' = [work EXCEPT ![w] = job]
    BY <2>3
  <2> HIDE DEF job
  <2> QED
    BY <1>2, <2>1, <2>6, <2>7, JobType DEF LookUpTab, TypeOK, books
<1> QED
  BY <1>1, <1>2

\* A tab is created or saved with its session.
LEMMA TabType ==
  ASSUME TypeOK, NEW w \in Workers,
         AppendRound(w) \/ (\E o \in Orders : CreateTab(w, o))
  PROVE  TypeOK'
<1>1. SaveSession(w) => session' \in [Tables -> 0..MaxSession]
  BY JobFields DEF SaveSession, TypeOK
<1>2. CASE AppendRound(w)
  BY <1>1, <1>2, SaveType, JobFields DEF AppendRound, TypeOK, books
<1>3. CASE \E o \in Orders : CreateTab(w, o)
  <2> PICK o \in Orders : CreateTab(w, o)
    BY <1>3
  <2>1. NewRow(work[w].table, work[w].session) \in OrderRow
    BY NewRowType, JobFields
  <2>2. order' \in [Orders -> OrderRow]
    BY <2>1 DEF CreateTab, TypeOK
  <2> QED
    BY <1>1, <2>2, SaveType DEF CreateTab, TypeOK, books
<1> QED
  BY <1>2, <1>3

\* The kitchen reads an order and moves it along.
LEMMA KitchenType ==
  ASSUME TypeOK, NEW w \in Workers,
         (\E o \in Orders : ReadOrder(w, o)) \/ (\E to \in OrderStatus : Transition(w, to))
  PROVE  TypeOK'
<1>1. CASE \E o \in Orders : ReadOrder(w, o)
  <2> PICK o \in Orders : ReadOrder(w, o)
    BY <1>1
  <2>1. [Idle EXCEPT !.step = "moving", !.order = o, !.row = order[o]] \in Job
    BY NullTypes, RowType DEF Job, Idle
  <2> QED
    BY <2>1, JobType DEF ReadOrder, Begin, TypeOK, books
<1>2. CASE \E to \in OrderStatus : Transition(w, to)
  <2> PICK to \in OrderStatus : Transition(w, to)
    BY <1>2
  <2>1. Moved(work[w].row, to) \in OrderRow
    BY JobFields DEF Moved, OrderRow
  <2>2. order' \in [Orders -> OrderRow] /\ work' \in [Workers -> Job]
    BY <2>1, SaveType DEF Transition
  <2>3. session' \in [Tables -> 0..MaxSession]
    BY SaveType DEF Transition, TypeOK
  <2> QED
    BY <2>2, <2>3 DEF Transition, TypeOK, books
<1> QED
  BY <1>1, <1>2

-----------------------------------------------------------------------------
(* The inductive invariant.                                                *)

Count == Cardinality(DOMAIN invoice)

\* A settlement in progress took a number that was the next one when it locked the
\* order, and until an order is deleted invoices were only added since.
NumbersKnown ==
  \A w \in Workers :
    /\ work[w].step \in {"asked", "settling"} => work[w].order \in Orders
    /\ work[w].step = "settling" =>
         /\ work[w].number \in Nat \ {0}
         /\ deleted = {} => work[w].number <= Count + 1

\* What the counter was paid is what it invoiced, without gaps until an order is deleted.
BookMatches ==
  /\ \A p \in txn : p.by = "COUNTER" => Invoiced(p.order)
  /\ deleted = {} => DOMAIN invoice = 1..Count

\* The orders that a delivery, a payment or a deletion explains.
Explained ==
  {o \in Orders : o \in deleted \/ dispatch[o] = "DELIVERED" \/ \E p \in txn : p.order = o}

\* So is whatever a request read and may yet save.
CopiesExplained ==
  \A w \in Workers : work[w].row.paid => work[w].order \in Explained

IInv == TypeOK /\ NumbersKnown /\ BookMatches /\ PaidExplained /\ CopiesExplained

\* A day begins with no invoice.
LEMMA EmptyBook ==
  /\ DOMAIN << >> = {} /\ IsFiniteSet(DOMAIN << >>) /\ Cardinality(DOMAIN << >>) = 0
  /\ \A S : << >> \in [DOMAIN << >> -> S]
  /\ 1..0 = {}
<1>1. DOMAIN << >> = {} /\ 1..0 = {}
  OBVIOUS
<1>2. \A S : << >> \in [{} -> S]
  OBVIOUS
<1> QED
  BY <1>1, <1>2, FS_EmptySet

LEMMA InitIInv == Init => IInv
<1> SUFFICES ASSUME Init PROVE IInv
  OBVIOUS
<1>1. TypeOK
  <2>1. 0 \in 0..MaxSession
    BY LegacyAssumption
  <2> QED
    BY <2>1, NullTypes, EmptyBook DEF Init, TypeOK, Dispatch
<1>2. NumbersKnown /\ CopiesExplained
  BY DEF Init, NumbersKnown, CopiesExplained, Idle, NoRow
<1>3. BookMatches /\ PaidExplained
  <2>1. BookMatches
    BY EmptyBook DEF Init, BookMatches, Count
  <2> QED
    BY <2>1 DEF Init, PaidExplained, NoRow
<1> QED
  BY <1>1, <1>2, <1>3 DEF IInv

\* The counter asks for the key and locks the order.
LEMMA CounterType ==
  ASSUME TypeOK, NEW w \in Workers,
         (\E o \in Orders, k \in Keys \cup {NoKey} : AskToSettle(w, o, k)) \/ (LockOrder(w) /\ work[w].order \in Orders)
  PROVE  TypeOK'
<1>1. CASE \E o \in Orders, k \in Keys \cup {NoKey} : AskToSettle(w, o, k)
  <2> PICK o \in Orders, k \in Keys \cup {NoKey} : AskToSettle(w, o, k)
    BY <1>1
  <2>1. [Idle EXCEPT !.step = "asked", !.order = o, !.key = k] \in Job
    BY NullTypes DEF Job, Idle
  <2> QED
    BY <2>1, JobType DEF AskToSettle, Begin, TypeOK, books
<1>2. CASE LockOrder(w) /\ work[w].order \in Orders
  <2> DEFINE o == work[w].order
             job == [work[w] EXCEPT !.step = "settling", !.row = order[o],
                                    !.table = order[o].table, !.number = NextNumber]
  <2>1. order[o] \in OrderRow /\ order[o].table \in Tables \cup {NoTable}
    BY <1>2, RowType DEF OrderRow
  <2>2. NextNumber \in Nat
    BY FS_CardinalityType DEF NextNumber, TypeOK
  <2>3. work[w] \in Job
    BY DEF TypeOK
  <2>4. job \in Job
    BY <2>1, <2>2, <2>3 DEF Job
  <2>5. work' = [work EXCEPT ![w] = job]
    BY <1>2 DEF LockOrder
  <2> HIDE DEF job
  <2> QED
    BY <1>2, <2>4, <2>5, JobType DEF LockOrder, TypeOK, books
<1> QED
  BY <1>1, <1>2

\* Dispatches and riders.
LEMMA RiderType ==
  ASSUME TypeOK, NEW o \in Orders,
         CreateAway(o) \/ CreateDispatch(o) \/ (\E to \in {"PICKED_UP", "DELIVERED"} : RiderUpdate(o, to))
  PROVE  TypeOK'
<1>1. CASE CreateAway(o)
  <2>1. NewRow(NoTable, 0) \in OrderRow
    BY NewRowType, LegacyAssumption
  <2> QED
    BY <1>1, <2>1 DEF CreateAway, TypeOK, books
<1>2. CASE CreateDispatch(o)
  BY <1>2 DEF CreateDispatch, TypeOK, Dispatch, books
<1>3. CASE \E to \in {"PICKED_UP", "DELIVERED"} : RiderUpdate(o, to)
  <2>1. [order[o] EXCEPT !.status = "OUT_FOR_DELIVERY"] \in OrderRow
        /\ [order[o] EXCEPT !.status = "COMPLETED", !.paid = TRUE] \in OrderRow
    BY RowType DEF OrderRow, OrderStatus
  <2>2. order' \in [Orders -> OrderRow]
    BY <1>3, <2>1, SaveType DEF RiderUpdate
  <2>3. dispatch' \in [Orders -> Dispatch]
    BY <1>3 DEF RiderUpdate, TypeOK, Dispatch
  <2> QED
    BY <1>3, <2>2, <2>3 DEF RiderUpdate, TypeOK, books
<1> QED
  BY <1>1, <1>2, <1>3

-----------------------------------------------------------------------------
(* Steps.                                                                  *)

\* Three steps write the books.
Booked ==
  \/ \E w \in Workers : Settle(w)
  \/ \E o \in Orders : DeleteOrder(o) \/ \E all \in BOOLEAN : PayOnAccount(o, all)

\* Every other step leaves them alone.
LEMMA TypeStep ==
  ASSUME IInv, Next, ~Booked
  PROVE  TypeOK' /\ UNCHANGED books
<1> USE DEF IInv
<1>1. ASSUME NEW w \in Workers, NEW t \in Tables, Sit(w, t)
      PROVE  TypeOK' /\ UNCHANGED books
  BY <1>1, GuestType DEF Sit
<1>2. ASSUME NEW w \in Workers, LookUpTab(w)
      PROVE  TypeOK' /\ UNCHANGED books
  BY <1>2, GuestType DEF LookUpTab
<1>3. ASSUME NEW w \in Workers, AppendRound(w)
      PROVE  TypeOK' /\ UNCHANGED books
  BY <1>3, TabType DEF AppendRound
<1>4. ASSUME NEW w \in Workers, LockOrder(w)
      PROVE  TypeOK' /\ UNCHANGED books
  <2>1. work[w].order \in Orders
    BY <1>4 DEF LockOrder, NumbersKnown
  <2> QED
    BY <1>4, <2>1, CounterType DEF LockOrder
<1>5. ASSUME NEW w \in Workers, Abandon(w)
      PROVE  TypeOK' /\ UNCHANGED books
  BY <1>5, SaveType DEF Abandon, TypeOK, books
<1>6. ASSUME NEW w \in Workers, NEW o \in Orders, CreateTab(w, o)
      PROVE  TypeOK' /\ UNCHANGED books
  BY <1>6, TabType DEF CreateTab
<1>7. ASSUME NEW w \in Workers, NEW o \in Orders, ReadOrder(w, o)
      PROVE  TypeOK' /\ UNCHANGED books
  BY <1>7, KitchenType DEF ReadOrder
<1>8. ASSUME NEW w \in Workers, NEW o \in Orders, NEW k \in Keys \cup {NoKey}, AskToSettle(w, o, k)
      PROVE  TypeOK' /\ UNCHANGED books
  BY <1>8, CounterType DEF AskToSettle
<1>9. ASSUME NEW w \in Workers, NEW to \in OrderStatus, Transition(w, to)
      PROVE  TypeOK' /\ UNCHANGED books
  BY <1>9, KitchenType DEF Transition
<1>10. ASSUME NEW o \in Orders, CreateAway(o)
       PROVE  TypeOK' /\ UNCHANGED books
  BY <1>10, RiderType DEF CreateAway
<1>11. ASSUME NEW o \in Orders, CreateDispatch(o)
       PROVE  TypeOK' /\ UNCHANGED books
  BY <1>11, RiderType DEF CreateDispatch
<1>12. ASSUME NEW o \in Orders, NEW to \in {"PICKED_UP", "DELIVERED"}, RiderUpdate(o, to)
       PROVE  TypeOK' /\ UNCHANGED books
  BY <1>12, RiderType DEF RiderUpdate
<1> HIDE DEF IInv
<1> QED
  BY <1>1, <1>2, <1>3, <1>4, <1>5, <1>6, <1>7, <1>8, <1>9, <1>10, <1>11, <1>12 DEF Next, Booked

\* How many invoices there are.
LEMMA CountType == TypeOK => Count \in Nat
BY FS_CardinalityType DEF TypeOK, Count

\* A settlement enters its order under a free number, the next one until an order is
\* deleted.
LEMMA SettleStep ==
  ASSUME IInv, NEW w \in Workers, Settle(w)
  PROVE  /\ work[w].order \in Orders /\ work[w].key \in Keys \cup {NoKey}
         /\ work[w].number \notin DOMAIN invoice
         /\ deleted = {} => DOMAIN invoice' = 1..work[w].number
         /\ deleted' = deleted /\ Count' = Count + 1
         /\ TypeOK' /\ BookMatches'
<1> DEFINE o == work[w].order
           n == work[w].number
           p == [order |-> o, key |-> work[w].key, by |-> "COUNTER"]
<1>1. o \in Orders /\ work[w].key \in Keys \cup {NoKey} /\ p \in Payment
  BY JobFields DEF IInv, NumbersKnown, Settle, Payment
<1>2. n \in Nat \ {0} /\ n \notin DOMAIN invoice /\ (deleted = {} => n <= Count + 1)
  BY DEF IInv, NumbersKnown, Settle, Insertable
<1>3. /\ Count \in Nat /\ IsFiniteSet(DOMAIN invoice) /\ DOMAIN invoice \subseteq Nat
      /\ invoice \in [DOMAIN invoice -> Orders]
  BY CountType DEF IInv, TypeOK
<1>4. deleted = {} => n = Count + 1
  BY <1>2, <1>3 DEF IInv, BookMatches
<1>5. /\ invoice' = [m \in DOMAIN invoice \cup {n} |-> IF m = n THEN o ELSE invoice[m]]
      /\ txn' = txn \cup {p} /\ deleted' = deleted
  BY DEF Settle
<1> HIDE DEF o, n, p
<1>6. DOMAIN invoice' = DOMAIN invoice \cup {n} /\ invoice' \in [DOMAIN invoice' -> Orders]
  BY <1>1, <1>3, <1>5
<1>7. IsFiniteSet(DOMAIN invoice') /\ Count' = Count + 1
  <2>1. /\ IsFiniteSet(DOMAIN invoice \cup {n})
        /\ Cardinality(DOMAIN invoice \cup {n}) = Cardinality(DOMAIN invoice) + 1
    BY <1>2, <1>3, FS_AddElement
  <2> QED
    BY <1>6, <2>1 DEF Count
<1>8. \A m \in DOMAIN invoice : m \in DOMAIN invoice' /\ invoice'[m] = invoice[m]
  BY <1>2, <1>5
<1>9. n \in DOMAIN invoice' /\ invoice'[n] = o
  BY <1>5
<1>10. BookMatches'
  <2>1. ASSUME NEW q \in txn', q.by = "COUNTER" PROVE Invoiced(q.order)'
    <3>1. CASE q \in txn
      <4>1. PICK m \in DOMAIN invoice : invoice[m] = q.order
        BY <2>1, <3>1 DEF IInv, BookMatches, Invoiced
      <4> QED
        BY <1>8, <4>1 DEF Invoiced
    <3>2. CASE q = p
      BY <1>9, <3>2 DEF Invoiced, p
    <3> QED
      BY <1>5, <3>1, <3>2
  <2>2. ASSUME deleted' = {} PROVE DOMAIN invoice' = 1..Count'
    <3>1. DOMAIN invoice = 1..Count /\ n = Count + 1
      BY <1>4, <1>5, <2>2 DEF IInv, BookMatches
    <3>2. 1..Count \cup {Count + 1} = 1..(Count + 1)
      BY <1>3
    <3> QED
      BY <1>6, <1>7, <3>1, <3>2
  <2> QED
    BY <2>1, <2>2 DEF BookMatches
<1>11. TypeOK'
  <2>1. [work[w].row EXCEPT !.status = "COMPLETED", !.paid = TRUE] \in OrderRow
    BY JobFields DEF IInv, OrderRow, OrderStatus
  <2>2. order' \in [Orders -> OrderRow] /\ session' \in [Tables -> 0..MaxSession] /\ work' \in [Workers -> Job]
    BY <2>1, SaveType DEF IInv, Settle
  <2>3. DOMAIN invoice' \subseteq Nat
    BY <1>2, <1>3, <1>6
  <2>4. txn' \subseteq Payment
    BY <1>1, <1>5 DEF IInv, TypeOK
  <2>5. sessions' = sessions /\ dispatch' = dispatch
    BY DEF Settle
  <2> QED
    BY <1>5, <1>6, <1>7, <2>2, <2>3, <2>4, <2>5 DEF IInv, TypeOK
<1> QED
  BY <1>1, <1>2, <1>4, <1>5, <1>7, <1>10, <1>11 DEF o, n, BookMatches

\* A payment on account leaves the invoices alone.
LEMMA AccountStep ==
  ASSUME IInv, NEW o \in Orders, NEW all \in BOOLEAN, PayOnAccount(o, all)
  PROVE  TypeOK' /\ BookMatches' /\ UNCHANGED <<invoice, deleted>>
<1> DEFINE p == [order |-> o, key |-> NoKey, by |-> "ACCOUNT"]
<1>1. p \in Payment /\ txn' = txn \cup {p} /\ p.by # "COUNTER"
  BY DEF Payment, PayOnAccount
<1> HIDE DEF p
<1>2. invoice' = invoice /\ deleted' = deleted
  BY DEF PayOnAccount
<1>3. BookMatches'
  BY <1>1, <1>2 DEF IInv, BookMatches, Invoiced, Count
<1>4. [order[o] EXCEPT !.paid = all] \in OrderRow
  BY RowType DEF IInv, OrderRow
<1>5. order' \in [Orders -> OrderRow]
  BY <1>4, SaveType DEF IInv, PayOnAccount
<1> QED
  BY <1>1, <1>2, <1>3, <1>5 DEF IInv, TypeOK, PayOnAccount

\* A deletion takes the invoice and the payments of its order.
LEMMA DeleteStep ==
  ASSUME IInv, NEW o \in Orders, DeleteOrder(o)
  PROVE  TypeOK' /\ BookMatches' /\ deleted' = deleted \cup {o}
<1> DEFINE kept == {m \in DOMAIN invoice : invoice[m] # o}
<1>1. /\ invoice' = [n \in kept |-> invoice[n]] /\ txn' = {p \in txn : p.order # o}
      /\ deleted' = deleted \cup {o}
  BY DEF DeleteOrder
<1>2. /\ IsFiniteSet(DOMAIN invoice) /\ DOMAIN invoice \subseteq Nat
      /\ invoice \in [DOMAIN invoice -> Orders]
  BY DEF IInv, TypeOK
<1>3. kept \in SUBSET DOMAIN invoice
  OBVIOUS
<1>4. \A m \in kept : invoice[m] \in Orders
  BY <1>2
<1>5. \A m \in DOMAIN invoice : invoice[m] # o => m \in kept
  OBVIOUS
<1> HIDE DEF kept
<1>6. DOMAIN invoice' = kept /\ invoice' \in [kept -> Orders]
  BY <1>1, <1>4
<1>7. IsFiniteSet(kept)
  BY <1>2, <1>3, FS_Subset
<1>8. BookMatches'
  <2>1. ASSUME NEW q \in txn', q.by = "COUNTER" PROVE Invoiced(q.order)'
    <3>1. q \in txn /\ q.order # o
      BY <1>1
    <3>2. PICK m \in DOMAIN invoice : invoice[m] = q.order
      BY <2>1, <3>1 DEF IInv, BookMatches, Invoiced
    <3>3. m \in kept
      BY <1>5, <3>1, <3>2
    <3>4. m \in DOMAIN invoice' /\ invoice'[m] = q.order
      BY <1>1, <1>6, <3>2, <3>3
    <3> QED
      BY <3>4 DEF Invoiced
  <2>2. deleted' # {}
    BY <1>1
  <2> QED
    BY <2>1, <2>2 DEF BookMatches
<1>9. TypeOK'
  <2>1. order' \in [Orders -> OrderRow] /\ session' \in [Tables -> 0..MaxSession]
    <3>1. order' \in [Orders -> OrderRow]
      BY NullTypes, SaveType DEF IInv, DeleteOrder
    <3>2. CloseTable(Nobody, order[o].table) \/ session' = session
      BY DEF DeleteOrder
    <3> QED
      BY <3>1, <3>2, SaveType DEF IInv, TypeOK
  <2>2. dispatch' \in [Orders -> Dispatch]
    BY DEF IInv, TypeOK, Dispatch, DeleteOrder
  <2>3. sessions' = sessions /\ work' = work
    BY DEF DeleteOrder
  <2>4. DOMAIN invoice' \subseteq Nat /\ IsFiniteSet(DOMAIN invoice') /\ invoice' \in [DOMAIN invoice' -> Orders]
    BY <1>2, <1>3, <1>6, <1>7
  <2>5. txn' \subseteq Payment /\ deleted' \subseteq Orders
    BY <1>1 DEF IInv, TypeOK
  <2> QED
    BY <2>1, <2>2, <2>3, <2>4, <2>5 DEF IInv, TypeOK
<1> QED
  BY <1>1, <1>8, <1>9

\* What explains a paid order is never taken back but by its deletion, which explains
\* it too; and until a deletion invoices are only added.
LEMMA ExplainedStays ==
  ASSUME IInv, Next
  PROVE  /\ Explained \subseteq Explained'
         /\ Count \in Nat /\ Count' \in Nat
         /\ deleted' = {} => deleted = {} /\ Count <= Count'
<1>1. Count \in Nat
  BY CountType DEF IInv
<1>2. CASE \E w \in Workers : Settle(w)
  <2> PICK w \in Workers : Settle(w)
    BY <1>2
  <2>1. dispatch' = dispatch /\ deleted' = deleted /\ txn \subseteq txn'
    BY DEF Settle
  <2>2. Count' = Count + 1
    BY SettleStep
  <2> QED
    BY <1>1, <2>1, <2>2 DEF Explained
<1>3. CASE \E o \in Orders, all \in BOOLEAN : PayOnAccount(o, all)
  <2> PICK o \in Orders, all \in BOOLEAN : PayOnAccount(o, all)
    BY <1>3
  <2>1. dispatch' = dispatch /\ deleted' = deleted /\ txn \subseteq txn' /\ invoice' = invoice
    BY DEF PayOnAccount
  <2> QED
    BY <1>1, <2>1 DEF Explained, Count
<1>4. CASE \E o \in Orders : DeleteOrder(o)
  <2> PICK o \in Orders : DeleteOrder(o)
    BY <1>4
  <2>1. /\ deleted' = deleted \cup {o} /\ txn' = {p \in txn : p.order # o}
        /\ \A p \in Orders : p # o => dispatch'[p] = dispatch[p]
    BY DEF DeleteOrder, IInv, TypeOK
  <2>2. Count' \in Nat
    BY DeleteStep, FS_CardinalityType DEF TypeOK, Count
  <2> QED
    BY <1>1, <2>1, <2>2 DEF Explained
<1>5. CASE ~Booked
  <2>1. UNCHANGED <<txn, invoice, deleted>>
    BY <1>5, TypeStep DEF books
  <2>2. \A o \in Orders : dispatch[o] = "DELIVERED" => dispatch'[o] = "DELIVERED"
    <3>1. CASE dispatch' = dispatch
      BY <3>1
    <3>2. CASE \E o \in Orders : CreateDispatch(o)
      BY <3>2 DEF CreateDispatch, IInv, TypeOK
    <3>3. CASE \E o \in Orders, to \in {"PICKED_UP", "DELIVERED"} : RiderUpdate(o, to)
      BY <3>3 DEF RiderUpdate, IInv, TypeOK
    <3>4. ASSUME NEW w \in Workers, NEW t \in Tables, Sit(w, t) PROVE dispatch' = dispatch
      BY <3>4 DEF Sit
    <3>5. ASSUME NEW w \in Workers, LookUpTab(w) PROVE dispatch' = dispatch
      BY <3>5 DEF LookUpTab
    <3>6. ASSUME NEW w \in Workers, AppendRound(w) PROVE dispatch' = dispatch
      BY <3>6 DEF AppendRound
    <3>7. ASSUME NEW w \in Workers, LockOrder(w) PROVE dispatch' = dispatch
      BY <3>7 DEF LockOrder
    <3>8. ASSUME NEW w \in Workers, Abandon(w) PROVE dispatch' = dispatch
      BY <3>8 DEF Abandon
    <3>9. ASSUME NEW w \in Workers, NEW o \in Orders, CreateTab(w, o) PROVE dispatch' = dispatch
      BY <3>9 DEF CreateTab
    <3>10. ASSUME NEW w \in Workers, NEW o \in Orders, ReadOrder(w, o) PROVE dispatch' = dispatch
      BY <3>10 DEF ReadOrder
    <3>11. ASSUME NEW w \in Workers, NEW o \in Orders, NEW k \in Keys \cup {NoKey}, AskToSettle(w, o, k) PROVE dispatch' = dispatch
      BY <3>11 DEF AskToSettle
    <3>12. ASSUME NEW w \in Workers, NEW to \in OrderStatus, Transition(w, to) PROVE dispatch' = dispatch
      BY <3>12 DEF Transition
    <3>13. ASSUME NEW o \in Orders, CreateAway(o) PROVE dispatch' = dispatch
      BY <3>13 DEF CreateAway
    <3> QED
      BY <1>5, <3>1, <3>2, <3>3, <3>4, <3>5, <3>6, <3>7, <3>8,
         <3>9, <3>10, <3>11, <3>12, <3>13 DEF Next, Booked
  <2> QED
    BY <1>1, <2>1, <2>2 DEF Explained, Count
<1> QED
  BY <1>2, <1>3, <1>4, <1>5 DEF Booked

\* A request goes on with what is in order, and the others are as they were.
LEMMA JobsKept ==
  ASSUME IInv, Next, NEW w \in Workers, NEW job, work' = [work EXCEPT ![w] = job],
         job.row.paid => job.order \in Explained',
         job.step \in {"asked", "settling"} => job.order \in Orders,
         job.step = "settling" => job.number \in Nat \ {0} /\ (deleted' = {} => job.number <= Count' + 1)
  PROVE  NumbersKnown' /\ CopiesExplained'
<1>1. \A v \in Workers : work'[v] = IF v = w THEN job ELSE work[v]
  BY DEF IInv, TypeOK
<1>2. CopiesExplained'
  BY <1>1, ExplainedStays DEF IInv, CopiesExplained
<1>3. NumbersKnown'
  BY <1>1, ExplainedStays DEF IInv, NumbersKnown
<1> QED
  BY <1>2, <1>3

\* A request is over, and the rest stands.
LEMMA JobsDone ==
  ASSUME IInv, Next, NEW w \in Workers, Done(w)
  PROVE  NumbersKnown' /\ CopiesExplained'
BY JobsKept DEF Done, Idle, NoRow

\* No worker moves.
LEMMA JobsStay ==
  ASSUME IInv, Next, work' = work
  PROVE  NumbersKnown' /\ CopiesExplained'
<1>1. CopiesExplained'
  BY ExplainedStays DEF IInv, CopiesExplained
<1>2. NumbersKnown'
  BY ExplainedStays DEF IInv, NumbersKnown
<1> QED
  BY <1>1, <1>2

\* An order is saved that is not paid, or whose payment is explained.
LEMMA PaidKept ==
  ASSUME IInv, Next, NEW o \in Orders, NEW saved, order' = [order EXCEPT ![o] = saved],
         saved.paid => o \in Explained'
  PROVE  PaidExplained'
<1>1. \A p \in Orders : order'[p] = IF p = o THEN saved ELSE order[p]
  BY DEF IInv, TypeOK
<1>2. \A p \in Orders : order'[p].paid => p \in Explained'
  BY <1>1, ExplainedStays DEF IInv, PaidExplained, Explained
<1> QED
  BY <1>2 DEF PaidExplained, Explained

\* No order is saved.
LEMMA OrdersStay ==
  ASSUME IInv, Next, order' = order
  PROVE  PaidExplained'
<1>1. \A p \in Orders : order'[p].paid => p \in Explained'
  BY ExplainedStays DEF IInv, PaidExplained, Explained
<1> QED
  BY <1>1 DEF PaidExplained, Explained

\* What each step does to the orders and the requests.
LEMMA StepExplained ==
  ASSUME IInv, Next
  PROVE  NumbersKnown' /\ CopiesExplained' /\ PaidExplained'
<1> USE DEF IInv
<1>1. ASSUME NEW w \in Workers, NEW t \in Tables, Sit(w, t)
      PROVE  NumbersKnown' /\ CopiesExplained' /\ PaidExplained'
  BY <1>1, JobsKept, OrdersStay DEF Sit, Begin, Idle, NoRow
<1>2. ASSUME NEW w \in Workers, LookUpTab(w)
      PROVE  NumbersKnown' /\ CopiesExplained' /\ PaidExplained'
  <2> DEFINE s == IF work[w].session = 0 THEN sessions' ELSE work[w].session
  <2>1. PICK o \in IF Running(work[w].table, s) = {} THEN {NoOrder} ELSE Running(work[w].table, s) :
          work' = [work EXCEPT ![w] =
            [@ EXCEPT !.step = "ordering", !.order = o, !.session = s,
                      !.opens = (work[w].session = 0),
                      !.row = IF o = NoOrder THEN NoRow ELSE order[o]]]
    BY <1>2, LookedUp
  <2>2. ~(IF o = NoOrder THEN NoRow ELSE order[o]).paid
    BY DEF NoRow, Running
  <2> DEFINE job == [work[w] EXCEPT !.step = "ordering", !.order = o, !.session = s,
                      !.opens = (work[w].session = 0),
                      !.row = IF o = NoOrder THEN NoRow ELSE order[o]]
  <2>3. job.step = "ordering" /\ ~job.row.paid
    <3>1. work[w] \in Job
      BY DEF TypeOK
    <3> QED
      BY <2>2, <3>1 DEF Job
  <2>4. work' = [work EXCEPT ![w] = job]
    BY <2>1
  <2>5. order' = order
    BY <1>2 DEF LookUpTab
  <2> HIDE DEF job
  <2> QED
    BY <2>3, <2>4, <2>5, JobsKept, OrdersStay
<1>3. ASSUME NEW w \in Workers, AppendRound(w)
      PROVE  NumbersKnown' /\ CopiesExplained' /\ PaidExplained'
  <2>1. work[w].order \in Orders
    BY <1>3, JobFields DEF AppendRound
  <2>2. work[w].row.paid => work[w].order \in Explained'
    BY ExplainedStays DEF CopiesExplained
  <2> QED
    BY <1>3, <2>1, <2>2, PaidKept, JobsDone DEF AppendRound, SaveRow
<1>4. ASSUME NEW w \in Workers, LockOrder(w)
      PROVE  NumbersKnown' /\ CopiesExplained' /\ PaidExplained'
  <2> DEFINE o == work[w].order
             job == [work[w] EXCEPT !.step = "settling", !.row = order[o],
                                    !.table = order[o].table, !.number = NextNumber]
  <2>1. o \in Orders /\ order' = order /\ work' = [work EXCEPT ![w] = job]
        /\ invoice' = invoice /\ ~order[o].paid
    BY <1>4 DEF LockOrder, NumbersKnown, books
  <2>2. job.row = order[o] /\ job.order = o /\ job.number = Count + 1
    <3>1. work[w] \in Job
      BY DEF TypeOK
    <3> QED
      BY <3>1 DEF Job, NextNumber, Count
  <2>3. Count + 1 \in Nat \ {0} /\ (deleted' = {} => Count + 1 <= Count' + 1)
    BY ExplainedStays
  <2> HIDE DEF job
  <2> QED
    BY <2>1, <2>2, <2>3, JobsKept, OrdersStay
<1>5. ASSUME NEW w \in Workers, Abandon(w)
      PROVE  NumbersKnown' /\ CopiesExplained' /\ PaidExplained'
  BY <1>5, JobsDone, OrdersStay DEF Abandon
<1>6. ASSUME NEW w \in Workers, NEW o \in Orders, CreateTab(w, o)
      PROVE  NumbersKnown' /\ CopiesExplained' /\ PaidExplained'
  BY <1>6, JobsDone, PaidKept DEF CreateTab, NewRow
<1>7. ASSUME NEW w \in Workers, NEW o \in Orders, ReadOrder(w, o)
      PROVE  NumbersKnown' /\ CopiesExplained' /\ PaidExplained'
  <2>1. order[o].paid => o \in Explained'
    BY ExplainedStays DEF PaidExplained, Explained
  <2> QED
    BY <1>7, <2>1, JobsKept, OrdersStay DEF ReadOrder, Begin, Idle
<1>8. ASSUME NEW w \in Workers, NEW o \in Orders, NEW k \in Keys \cup {NoKey}, AskToSettle(w, o, k)
      PROVE  NumbersKnown' /\ CopiesExplained' /\ PaidExplained'
  BY <1>8, JobsKept, OrdersStay DEF AskToSettle, Begin, Idle, NoRow
<1>9. ASSUME NEW w \in Workers, NEW to \in OrderStatus, Transition(w, to)
      PROVE  NumbersKnown' /\ CopiesExplained' /\ PaidExplained'
  <2> DEFINE saved == Moved(work[w].row, to)
  <2>1. saved.paid = work[w].row.paid
    BY JobFields DEF Moved, OrderRow
  <2>2. work[w].row.paid => work[w].order \in Explained'
    BY ExplainedStays DEF CopiesExplained
  <2>3. order' = [order EXCEPT ![work[w].order] = saved]
    BY <1>9 DEF Transition, SaveRow
  <2>4. PaidExplained'
    <3>1. CASE work[w].order \in Orders
      <4> HIDE DEF saved
      <4> QED
        BY <2>1, <2>2, <2>3, <3>1, PaidKept
    <3>2. CASE work[w].order \notin Orders
      <4>1. order' = order
        BY <2>3, <3>2 DEF TypeOK
      <4> QED
        BY <4>1, OrdersStay
    <3> QED
      BY <3>1, <3>2
  <2> QED
    BY <1>9, <2>4, JobsDone DEF Transition
<1>10. ASSUME NEW w \in Workers, Settle(w)
       PROVE  NumbersKnown' /\ CopiesExplained' /\ PaidExplained'
  <2> DEFINE o == work[w].order
             saved == [work[w].row EXCEPT !.status = "COMPLETED", !.paid = TRUE]
  <2>1. o \in Orders
    BY <1>10, SettleStep
  <2>2. [order |-> o, key |-> work[w].key, by |-> "COUNTER"] \in txn'
    BY <1>10 DEF Settle
  <2>4. o \in Explained'
    BY <2>1, <2>2 DEF Explained
  <2>5. order' = [order EXCEPT ![o] = saved] /\ Done(w)
    BY <1>10 DEF Settle, SaveRow
  <2> HIDE DEF saved
  <2> QED
    BY <2>1, <2>4, <2>5, PaidKept, JobsDone
<1>11. ASSUME NEW o \in Orders, CreateAway(o)
       PROVE  NumbersKnown' /\ CopiesExplained' /\ PaidExplained'
  BY <1>11, JobsStay, PaidKept DEF CreateAway, NewRow
<1>12. ASSUME NEW o \in Orders, CreateDispatch(o)
       PROVE  NumbersKnown' /\ CopiesExplained' /\ PaidExplained'
  BY <1>12, JobsStay, OrdersStay DEF CreateDispatch
<1>13. ASSUME NEW o \in Orders, NEW to \in {"PICKED_UP", "DELIVERED"}, RiderUpdate(o, to)
       PROVE  NumbersKnown' /\ CopiesExplained' /\ PaidExplained'
  <2>1. CASE to = "PICKED_UP"
    <3> DEFINE saved == [order[o] EXCEPT !.status = "OUT_FOR_DELIVERY"]
    <3>1. saved.paid => o \in Explained'
      BY RowType, ExplainedStays DEF OrderRow, PaidExplained, Explained
    <3>2. order' = [order EXCEPT ![o] = saved] /\ work' = work
      BY <1>13, <2>1 DEF RiderUpdate, SaveRow
    <3> HIDE DEF saved
    <3> QED
      BY <3>1, <3>2, PaidKept, JobsStay
  <2>2. CASE to # "PICKED_UP"
    <3> DEFINE saved == [order[o] EXCEPT !.status = "COMPLETED", !.paid = TRUE]
    <3>1. o \in Explained'
      BY <1>13, <2>2 DEF RiderUpdate, Explained, TypeOK
    <3>2. order' = [order EXCEPT ![o] = saved] /\ work' = work
      BY <1>13, <2>2 DEF RiderUpdate, SaveRow
    <3> HIDE DEF saved
    <3> QED
      BY <3>1, <3>2, PaidKept, JobsStay
  <2> QED
    BY <2>1, <2>2
<1>14. ASSUME NEW o \in Orders, NEW all \in BOOLEAN, PayOnAccount(o, all)
       PROVE  NumbersKnown' /\ CopiesExplained' /\ PaidExplained'
  <2> DEFINE saved == [order[o] EXCEPT !.paid = all]
  <2>1. [order |-> o, key |-> NoKey, by |-> "ACCOUNT"] \in txn'
    BY <1>14 DEF PayOnAccount
  <2>2. o \in Explained'
    BY <2>1 DEF Explained
  <2>3. order' = [order EXCEPT ![o] = saved] /\ work' = work
    BY <1>14 DEF PayOnAccount, SaveRow
  <2> HIDE DEF saved
  <2> QED
    BY <2>2, <2>3, PaidKept, JobsStay
<1>15. ASSUME NEW o \in Orders, DeleteOrder(o)
       PROVE  NumbersKnown' /\ CopiesExplained' /\ PaidExplained'
  BY <1>15, JobsStay, PaidKept DEF DeleteOrder, SaveRow, NoRow
<1> HIDE DEF IInv
<1> QED
  BY <1>1, <1>2, <1>3, <1>4, <1>5, <1>6, <1>7, <1>8, <1>9, <1>10, <1>11, <1>12, <1>13,
     <1>14, <1>15 DEF Next

LEMMA NextIInv == IInv /\ [Next]_vars => IInv'
<1>1. ASSUME IInv, Next PROVE IInv'
  <2>1. TypeOK' /\ BookMatches'
    <3>1. CASE Booked
      BY <1>1, <3>1, SettleStep, AccountStep, DeleteStep DEF Booked
    <3>2. CASE ~Booked
      <4>1. TypeOK' /\ txn' = txn /\ invoice' = invoice /\ deleted' = deleted
        BY <1>1, <3>2, TypeStep DEF books
      <4> QED
        BY <1>1, <4>1 DEF IInv, BookMatches, Invoiced, Count
    <3> QED
      BY <3>1, <3>2
  <2> QED
    BY <1>1, <2>1, StepExplained DEF IInv
<1>2. ASSUME IInv, UNCHANGED vars PROVE IInv'
  BY <1>2 DEF IInv, vars, TypeOK, NumbersKnown, BookMatches, PaidExplained, CopiesExplained,
              Explained, Invoiced, Count
<1> QED
  BY <1>1, <1>2

-----------------------------------------------------------------------------
(* Theorems.                                                               *)

LEMMA AlwaysIInv == Spec => []IInv
BY InitIInv, NextIInv, PTL DEF Spec

\* Rows, tables, payments, invoices and requests keep their types.
THEOREM TypeCorrect == Spec => []TypeOK
<1>1. IInv => TypeOK
  BY DEF IInv
<1> QED
  BY <1>1, AlwaysIInv, PTL

\* Stale saves by the kitchen, by a guest's round and by riders never mark an order
\* paid that neither a settlement (order_settle_payment) nor a delivery paid for.
THEOREM PaidAlwaysExplained == Spec => []PaidExplained
<1>1. IInv => PaidExplained
  BY DEF IInv
<1> QED
  BY <1>1, AlwaysIInv, PTL

\* The counter and the gateways' callbacks (order_settle_payment and the unique columns
\* it relies on), payments on account and deletions implement FiscalBook: numbers that
\* name one order for as long as it stands, without gaps until an order is deleted, and
\* every order charged at the counter at most once and exactly when it is invoiced.
THEOREM LegacyKeepsBook == Spec => KeepsBook
<1>1. Init => Book!Init
  BY DEF Init, Book!Init
<1>2. ASSUME IInv, Next PROVE [Book!Next]_(Book!vars)
  <2>1. CASE \E w \in Workers : Settle(w)
    <3> PICK w \in Workers : Settle(w)
      BY <2>1
    <3> DEFINE o == work[w].order
               k == work[w].key
               n == work[w].number
    <3>1. /\ o \in Orders /\ k \in Keys \cup {NoKey} /\ n \notin DOMAIN invoice
          /\ deleted = {} => DOMAIN invoice' = 1..n
      BY <1>2, SettleStep
    <3>2. /\ invoice' = [m \in DOMAIN invoice \cup {n} |-> IF m = n THEN o ELSE invoice[m]]
          /\ txn' = txn \cup {[order |-> o, key |-> k, by |-> "COUNTER"]}
          /\ deleted' = deleted /\ ~KeyUsed(k) /\ ~Invoiced(o)
      BY DEF Settle, Insertable
    <3>3. ~\E p \in txn : p.order = o /\ p.by = "COUNTER"
      BY <1>2, <3>2 DEF IInv, BookMatches
    <3> HIDE DEF o, k, n
    <3>4. Book!EntersAs(o, n) /\ n \in DOMAIN invoice'
      BY <3>1, <3>2 DEF Book!EntersAs
    <3>5. Book!Issue(o, k)
      BY <3>2, <3>3, <3>4 DEF Book!Issue, Book!Charged, Book!Entered, Book!KeyUsed, KeyUsed, Invoiced
    <3> QED
      BY <3>1, <3>5 DEF Book!Next
  <2>2. CASE \E o \in Orders, all \in BOOLEAN : PayOnAccount(o, all)
    BY <2>2 DEF PayOnAccount, Book!PayOnAccount, Book!Next
  <2>3. CASE \E o \in Orders : DeleteOrder(o)
    BY <2>3 DEF DeleteOrder, Book!Withdraw, Book!Next
  <2>4. CASE ~Booked
    BY <1>2, <2>4, TypeStep DEF books, Book!vars
  <2> QED
    BY <2>1, <2>2, <2>3, <2>4 DEF Booked
<1>3. IInv /\ [Next]_vars => [Book!Next]_(Book!vars)
  BY <1>2 DEF vars, Book!vars
<1> QED
  BY <1>1, <1>3, AlwaysIInv, PTL DEF Spec, KeepsBook, Book!Spec

-----------------------------------------------------------------------------
(* Deliveries.                                                             *)

\* What a run has in hand: a locked row is its alone, and not counted yet; a claim is
\* counted, unless it was outlived.
Held(k) ==
  /\ run[k].row = None => ~run[k].handed
  /\ \A i \in Rows : run[k].row = i =>
       /\ row[i].kind \in Locked =>
            /\ row[i].status = "PENDING" /\ run[k].attempt = row[i].attempts + 1
            /\ \A l \in Runs : run[l].row = i => l = k
       /\ row[i].kind \in Leased => row[i].lapsed \/ Counted(k, i)

InTheAir(i) == \E k \in Runs : run[k].row = i /\ run[k].handed

\* What a row owes: a locked one the hand-over that is in the air, a claimed one nothing.
Owing(i) ==
  /\ row[i].kind \in Locked =>
       /\ ~row[i].lapsed /\ row[i].status # "CLAIMED"
       /\ row[i].status \in {"NONE", "PENDING"} => owed[i] = IF InTheAir(i) THEN 1 ELSE 0
  /\ row[i].kind \in Leased => owed[i] = 0

DeliveriesInv ==
  /\ DeliveriesTypeOK
  /\ \A k \in Runs : Held(k)
  /\ \A i \in Rows : Owing(i)

\* FinishedStaysFinished of one row.
StaysFinished(i) ==
  row[i].status \in Finished =>
    \/ row'[i].status \in {row[i].status, "GONE"}
    \/ row'[i].lapsed
    \/ row[i].kind = "report" /\ row'[i].attempts = 0

LEMMA DeliveryTypes ==
  /\ None \notin Rows /\ Resting \in Run /\ Resting.row = None /\ Resting.handed = FALSE
  /\ \A r \in Row : /\ r.kind \in Locked \/ r.kind \in Leased
                    /\ r.kind \in Locked => r.kind \notin Leased
                    /\ r.attempts \in Nat /\ r.due \in BOOLEAN /\ r.lapsed \in BOOLEAN /\ r.usable \in BOOLEAN
BY DeliveriesAssumption DEF Resting, Run, Row, Kinds, Locked, Leased, Pushed

LEMMA InitDeliveries == DeliveriesInit => DeliveriesInv
<1> SUFFICES ASSUME DeliveriesInit PROVE DeliveriesInv
  OBVIOUS
<1>1. ASSUME NEW i \in Rows
      PROVE  row[i] \in Row /\ row[i].lapsed = FALSE /\ row[i].status = "NONE"
  <2>1. PICK q \in Kinds : row[i] = [kind |-> q, status |-> "NONE", attempts |-> 0, due |-> TRUE,
                                  old |-> FALSE, wanted |-> TRUE, usable |-> TRUE, lapsed |-> FALSE]
    BY DEF DeliveriesInit
  <2> QED
    BY <2>1 DEF Row
<1>2. DeliveriesTypeOK
  <2>1. row \in [Rows -> Row]
    BY <1>1 DEF DeliveriesInit
  <2> QED
    BY <2>1, DeliveryTypes DEF DeliveriesInit, DeliveriesTypeOK
<1>3. \A k \in Runs : run[k].row = None /\ run[k].handed = FALSE
  BY DeliveryTypes DEF DeliveriesInit
<1>4. \A k \in Runs : Held(k)
  BY <1>3, DeliveryTypes DEF Held
<1>5. \A i \in Rows : Owing(i)
  BY <1>1, <1>3, DeliveryTypes DEF Owing, InTheAir, DeliveriesInit
<1> QED
  BY <1>2, <1>4, <1>5 DEF DeliveriesInv

\* Changes of rows that leave what runs have in hand as it is.
Fits(i) ==
  /\ row'[i] \in Row /\ row'[i].kind = row[i].kind
  /\ row[i].kind \in Locked =>
       /\ ~row'[i].lapsed /\ row'[i].status # "CLAIMED"
       /\ row'[i].status \in {"NONE", "PENDING"} => row[i].status \in {"NONE", "PENDING"}
       /\ InHand(i) => row'[i].status = row[i].status /\ row'[i].attempts = row[i].attempts
  /\ row[i].kind \in Leased =>
       /\ row[i].lapsed => row'[i].lapsed
       /\ InHand(i) => row'[i].lapsed \/ row'[i].attempts >= row[i].attempts

HandsKept ==
  /\ run' \in [Runs -> Run]
  /\ \A k \in Runs : /\ run'[k].row = run[k].row /\ run'[k].handed = run[k].handed
                     /\ run[k].row # None => run'[k].attempt = run[k].attempt

LEMMA SameRowFits ==
  ASSUME DeliveriesInv, NEW i \in Rows, row'[i] = row[i]
  PROVE  Fits(i)
<1>1. row[i] \in Row /\ Owing(i)
  BY DEF DeliveriesInv, DeliveriesTypeOK
<1> QED
  BY <1>1, DeliveryTypes DEF Owing, Fits

LEMMA RowsChange ==
  ASSUME DeliveriesInv, row' \in [Rows -> Row], \A i \in Rows : Fits(i), HandsKept, UNCHANGED owed
  PROVE  DeliveriesInv'
<1>1. DeliveriesTypeOK'
  BY DEF DeliveriesInv, DeliveriesTypeOK, HandsKept
<1>2. ASSUME NEW k \in Runs
      PROVE  Held(k)'
  <2>1. Held(k) /\ run[k] \in Run /\ \A l \in Runs : run'[l].row = run[l].row
    BY DEF DeliveriesInv, DeliveriesTypeOK, HandsKept
  <2>2. run'[k].row = None => ~run'[k].handed
    BY <2>1 DEF Held, HandsKept
  <2>3. ASSUME NEW i \in Rows, run'[k].row = i
        PROVE  /\ row'[i].kind \in Locked =>
                    /\ row'[i].status = "PENDING" /\ run'[k].attempt = row'[i].attempts + 1
                    /\ \A l \in Runs : run'[l].row = i => l = k
               /\ row'[i].kind \in Leased => row'[i].lapsed \/ row'[i].attempts >= run'[k].attempt
    <3>1. run[k].row = i /\ InHand(i) /\ run'[k].attempt = run[k].attempt
      BY <2>1, <2>3, DeliveryTypes DEF HandsKept, InHand
    <3>2. Fits(i) /\ row[i] \in Row /\ row'[i] \in Row /\ run[k].attempt \in Nat
      BY <2>1 DEF DeliveriesInv, DeliveriesTypeOK, Run
    <3>3. CASE row[i].kind \in Locked
      BY <2>1, <3>1, <3>2, <3>3, DeliveryTypes DEF Held, Fits
    <3>4. CASE row[i].kind \in Leased
      <4>1. row[i].lapsed \/ row[i].attempts >= run[k].attempt
        BY <2>1, <3>1, <3>4 DEF Held, Counted
      <4>2. row'[i].kind \notin Locked
        BY <3>2, <3>4, DeliveryTypes DEF Fits
      <4>3. row'[i].lapsed \/ row'[i].attempts >= row[i].attempts
        BY <3>1, <3>2, <3>4 DEF Fits
      <4> QED
        BY <3>1, <3>2, <3>4, <4>1, <4>2, <4>3, DeliveryTypes DEF Fits
    <3> QED
      BY <3>2, <3>3, <3>4, DeliveryTypes
  <2> QED
    BY <2>2, <2>3 DEF Held, Counted
<1>3. ASSUME NEW i \in Rows
      PROVE  Owing(i)'
  <2>1. InTheAir(i)' <=> InTheAir(i)
    BY DEF InTheAir, HandsKept
  <2>2. Owing(i) /\ Fits(i)
    BY DEF DeliveriesInv
  <2> QED
    BY <2>1, <2>2 DEF Owing, Fits
<1> QED
  BY <1>1, <1>2, <1>3 DEF DeliveriesInv

\* The same of a single row.
LEMMA RowChanges ==
  ASSUME DeliveriesInv, NEW i \in Rows, NEW to \in Row, row' = [row EXCEPT ![i] = to],
         Fits(i), HandsKept, UNCHANGED owed
  PROVE  DeliveriesInv'
<1>1. row \in [Rows -> Row]
  BY DEF DeliveriesInv, DeliveriesTypeOK
<1>2. row' \in [Rows -> Row] /\ \A j \in Rows : j # i => row'[j] = row[j]
  BY <1>1
<1>3. \A j \in Rows : Fits(j)
  BY <1>2, SameRowFits
<1> QED
  BY <1>2, <1>3, RowsChange

LEMMA HandsStay == ASSUME DeliveriesInv, UNCHANGED run PROVE HandsKept
BY DEF DeliveriesInv, DeliveriesTypeOK, HandsKept

LEMMA SameRowStays ==
  ASSUME NEW i \in Rows, NEW j \in Rows, row \in [Rows -> Row], NEW to, row' = [row EXCEPT ![i] = to],
         i = j => StaysFinished(i)
  PROVE  StaysFinished(j)
<1>1. CASE i = j
  BY <1>1
<1>2. CASE i # j
  BY <1>2 DEF StaysFinished
<1> QED
  BY <1>1, <1>2

-----------------------------------------------------------------------------
\* The row alone changes: in what does not matter here, or it is enqueued, goes, or is
\* asked for again.
Turns(i, to) ==
  /\ to.kind = row[i].kind
  /\ \/ to.status = row[i].status /\ to.attempts = row[i].attempts /\ to.lapsed = row[i].lapsed
     \/ /\ row[i].status = "NONE" /\ to.status = "PENDING"
        /\ to.attempts = row[i].attempts /\ to.lapsed = row[i].lapsed
     \/ /\ row[i].status # "NONE" /\ ~RowLocked(i) /\ to.status = "GONE"
        /\ to.attempts = row[i].attempts /\ to.lapsed = row[i].lapsed
     \/ /\ row[i].kind = "report" /\ row[i].status \in {"SENT", "FAILED"}
        /\ to.status = "PENDING" /\ to.attempts = 0 /\ (to.lapsed <=> row[i].lapsed \/ InHand(i))

RowStep(i) ==
  \/ Enqueue(i) \/ Aging(i) \/ CodeUsed(i) \/ OrderDeleted(i) \/ Reopen(i)
  \/ \E may \in BOOLEAN : SetUsable(i, may)

LEMMA RowStepIs ==
  ASSUME DeliveriesInv, NEW i \in Rows, RowStep(i)
  PROVE  /\ UNCHANGED <<run, owed>>
         /\ \E to \in Row : row' = [row EXCEPT ![i] = to] /\ Turns(i, to)
<1>1. row[i] \in Row /\ row \in [Rows -> Row]
  BY DEF DeliveriesInv, DeliveriesTypeOK
<1>2. CASE Enqueue(i)
  <2> DEFINE to == [row[i] EXCEPT !.status = "PENDING"]
  <2>1. row' = [row EXCEPT ![i] = to]
    BY <1>1, <1>2 DEF Enqueue
  <2>2. to \in Row /\ to.kind = row[i].kind /\ to.status = "PENDING" /\ to.attempts = row[i].attempts /\ to.lapsed = row[i].lapsed
    BY <1>1 DEF Row, Open
  <2> HIDE DEF to
  <2> QED
    BY <1>2, <2>1, <2>2 DEF Enqueue, Turns
<1>3. CASE ComesDue(i)
  <2> DEFINE to == [row[i] EXCEPT !.due = TRUE]
  <2>1. row' = [row EXCEPT ![i] = to]
    BY <1>1, <1>3 DEF ComesDue
  <2>2. to \in Row /\ to.kind = row[i].kind /\ to.status = row[i].status /\ to.attempts = row[i].attempts /\ to.lapsed = row[i].lapsed
    BY <1>1 DEF Row
  <2> HIDE DEF to
  <2> QED
    BY <1>3, <2>1, <2>2 DEF ComesDue, Turns
<1>4. CASE GrowsOld(i)
  <2> DEFINE to == [row[i] EXCEPT !.old = TRUE]
  <2>1. row' = [row EXCEPT ![i] = to]
    BY <1>1, <1>4 DEF GrowsOld
  <2>2. to \in Row /\ to.kind = row[i].kind /\ to.status = row[i].status /\ to.attempts = row[i].attempts /\ to.lapsed = row[i].lapsed
    BY <1>1 DEF Row
  <2> HIDE DEF to
  <2> QED
    BY <1>4, <2>1, <2>2 DEF GrowsOld, Turns
<1>5. CASE CodeUsed(i)
  <2> DEFINE to == [row[i] EXCEPT !.wanted = FALSE]
  <2>1. row' = [row EXCEPT ![i] = to]
    BY <1>1, <1>5 DEF CodeUsed
  <2>2. to \in Row /\ to.kind = row[i].kind /\ to.status = row[i].status /\ to.attempts = row[i].attempts /\ to.lapsed = row[i].lapsed
    BY <1>1 DEF Row
  <2> HIDE DEF to
  <2> QED
    BY <1>5, <2>1, <2>2 DEF CodeUsed, Turns
<1>6. ASSUME NEW may \in BOOLEAN, SetUsable(i, may)
      PROVE  /\ UNCHANGED <<run, owed>>
             /\ \E to \in Row : row' = [row EXCEPT ![i] = to] /\ Turns(i, to)
  <2> DEFINE to == [row[i] EXCEPT !.usable = may]
  <2>1. row' = [row EXCEPT ![i] = to]
    BY <1>1, <1>6 DEF SetUsable
  <2>2. to \in Row /\ to.kind = row[i].kind /\ to.status = row[i].status /\ to.attempts = row[i].attempts /\ to.lapsed = row[i].lapsed
    BY <1>1 DEF Row
  <2> HIDE DEF to
  <2> QED
    BY <1>6, <2>1, <2>2 DEF SetUsable, Turns
<1>7. CASE OrderDeleted(i) \/ Prune(i)
  <2> DEFINE to == [row[i] EXCEPT !.status = "GONE"]
  <2>1. row' = [row EXCEPT ![i] = to]
    BY <1>1, <1>7 DEF OrderDeleted, Prune
  <2>2. to \in Row /\ to.kind = row[i].kind /\ to.status = "GONE" /\ to.attempts = row[i].attempts /\ to.lapsed = row[i].lapsed
    BY <1>1 DEF Row
  <2>3. row[i].status # "NONE" /\ ~RowLocked(i) /\ UNCHANGED <<run, owed>>
    BY <1>7 DEF OrderDeleted, Prune, Open, Finished, RowLocked
  <2> HIDE DEF to
  <2> QED
    BY <2>1, <2>2, <2>3 DEF Turns
<1>8. CASE Reopen(i)
  <2> DEFINE was == row[i].lapsed \/ InHand(i)
             to == [row[i] EXCEPT !.status = "PENDING", !.attempts = 0, !.due = TRUE, !.lapsed = was]
  <2>1. row' = [row EXCEPT ![i] = to]
    BY <1>1, <1>8 DEF Reopen
  <2>2. was \in BOOLEAN
    BY <1>1, DeliveryTypes DEF InHand
  <2> HIDE DEF was
  <2>3. to \in Row /\ to.kind = row[i].kind /\ to.status = "PENDING" /\ to.attempts = 0 /\ to.lapsed = was
    BY <1>1, <2>2 DEF Row, Open
  <2> HIDE DEF to
  <2> QED
    BY <1>8, <2>1, <2>3 DEF Reopen, was, Turns
<1> QED
  BY <1>2, <1>3, <1>4, <1>5, <1>6, <1>7, <1>8 DEF RowStep, Aging

LEMMA RowStepKeeps ==
  ASSUME DeliveriesInv, NEW i \in Rows, RowStep(i)
  PROVE  DeliveriesInv' /\ \A j \in Rows : StaysFinished(j)
<1>1. row[i] \in Row /\ row \in [Rows -> Row] /\ Owing(i)
  BY DEF DeliveriesInv, DeliveriesTypeOK
<1>2. UNCHANGED <<run, owed>>
  BY RowStepIs
<1>3. PICK to \in Row : row' = [row EXCEPT ![i] = to] /\ Turns(i, to)
  BY RowStepIs
<1>4. row'[i] = to
  BY <1>1, <1>3
<1>5. row[i].kind \in Locked => row[i].kind # "report"
  BY DEF Locked
<1>6. row[i].kind \in Locked /\ InHand(i) => row[i].status = "PENDING"
  BY DEF InHand, DeliveriesInv, Held
<1>7. Fits(i)
  <2>1. CASE row[i].kind \in Locked
    BY <1>1, <1>3, <1>4, <1>5, <1>6, <2>1, DeliveryTypes DEF Fits, Owing, RowLocked, Turns
  <2>2. CASE row[i].kind \in Leased
    BY <1>1, <1>3, <1>4, <2>2, DeliveryTypes DEF Fits, Turns
  <2> QED
    BY <1>1, <2>1, <2>2, DeliveryTypes
<1>8. DeliveriesInv'
  BY <1>2, <1>3, <1>7, HandsStay, RowChanges
<1>9. StaysFinished(i)
  BY <1>3, <1>4 DEF StaysFinished, Finished, Turns
<1> QED
  BY <1>1, <1>3, <1>8, <1>9, SameRowStays

-----------------------------------------------------------------------------
\* The row a run has not in hand yet is nobody's, if it is locked when it is worked on.
LEMMA FreeRow ==
  ASSUME DeliveriesInv, NEW k \in Runs, NEW i \in Rows, CanTake(k, i)
  PROVE  /\ run[k].row = None /\ run[k].handed = FALSE /\ run[k] \in Run
         /\ row[i].kind \in Locked => ~InHand(i)
BY DEF CanTake, RowLocked, DeliveriesInv, DeliveriesTypeOK, Held, Run

\* A run that goes on, or rests, with nothing in hand.
LEMMA FreeHands ==
  ASSUME DeliveriesInv, NEW k \in Runs, NEW job \in Run, run' = [run EXCEPT ![k] = job],
         run[k].row = None \/ job.attempt = run[k].attempt,
         job.row = run[k].row, job.handed = run[k].handed
  PROVE  HandsKept
BY DEF DeliveriesInv, DeliveriesTypeOK, HandsKept

LEMMA SweepKeeps ==
  ASSUME DeliveriesInv, NEW k \in Runs, NEW q \in Kinds, Sweep(k, q)
  PROVE  DeliveriesInv' /\ \A i \in Rows : StaysFinished(i)
<1>1. row \in [Rows -> Row] /\ run \in [Runs -> Run] /\ \A i \in Rows : Owing(i)
  BY DEF DeliveriesInv, DeliveriesTypeOK
<1>2. Sweepable(q) /\ run' = [run EXCEPT ![k].task = q] /\ UNCHANGED owed
  BY DEF Sweep
<1>3. ASSUME NEW i \in Rows
      PROVE  row'[i] \in Row /\ Fits(i) /\ StaysFinished(i)
  <2>1. CASE ~(row[i].kind = q /\ Overdue(row[i]))
    <3>1. row'[i] = row[i]
      BY <2>1 DEF Sweep
    <3>2. row[i] \in Row
      BY <1>1
    <3> QED
      BY <3>1, <3>2, SameRowFits DEF StaysFinished
  <2>2. CASE row[i].kind = q /\ Overdue(row[i])
    <3> DEFINE status == IF q = "sms" THEN "EXPIRED" ELSE "PENDING"
               to == [row[i] EXCEPT !.status = status]
    <3>1. row'[i] = to
      BY <2>2 DEF Sweep
    <3>2. status \in Open \cup Finished
      BY DEF Open, Finished
    <3>3. /\ row[i].status \in Open
          /\ q = "sms" \/ row[i].kind \in Leased
          /\ q = "sms" => status = "EXPIRED" /\ q \in Locked
      BY <2>2 DEF Overdue, CodeExpired, LeaseOver, Open, Locked
    <3> HIDE DEF status
    <3>4. to \in Row /\ to.kind = row[i].kind /\ to.status = status /\ to.attempts = row[i].attempts /\ to.lapsed = row[i].lapsed
      <4>1. row[i] \in Row
        BY <1>1
      <4> QED
        BY <3>2, <4>1 DEF Row
    <3> HIDE DEF to
    <3>5. row[i].kind \in Locked => q = "sms" /\ ~InHand(i) /\ ~row[i].lapsed
      BY <1>1, <1>2, <2>2, <3>3, DeliveryTypes DEF Sweepable, RowLocked, Owing
    <3>6. Fits(i)
      <4>1. CASE row[i].kind \in Locked
        BY <3>1, <3>3, <3>4, <3>5, <4>1, <1>1, DeliveryTypes DEF Fits
      <4>2. CASE row[i].kind \in Leased
        BY <3>1, <3>4, <4>2, <1>1, DeliveryTypes DEF Fits
      <4> QED
        BY <1>1, <4>1, <4>2, DeliveryTypes
    <3>7. StaysFinished(i)
      BY <3>3 DEF StaysFinished, Open, Finished
    <3> QED
      BY <3>1, <3>4, <3>6, <3>7
  <2> QED
    BY <2>1, <2>2
<1>4. row' \in [Rows -> Row]
  <2>1. row' = [i \in Rows |-> row'[i]]
    BY DEF Sweep
  <2> QED
    BY <1>3, <2>1
<1>5. HandsKept
  <2> DEFINE job == [run[k] EXCEPT !.task = q]
  <2>1. run' = [run EXCEPT ![k] = job]
    BY <1>1, <1>2
  <2>2. run[k] \in Run
    BY <1>1
  <2>3. job \in Run /\ job.row = run[k].row /\ job.handed = run[k].handed /\ job.attempt = run[k].attempt
    BY <2>2 DEF Run
  <2> HIDE DEF job
  <2> QED
    BY <2>1, <2>3, FreeHands
<1> QED
  BY <1>2, <1>3, <1>4, <1>5, RowsChange

\* A run lists rows, passes one by, ends.
LEMMA RunAloneKeeps ==
  ASSUME DeliveriesInv, HandsKept, UNCHANGED <<row, owed>>
  PROVE  DeliveriesInv' /\ \A i \in Rows : StaysFinished(i)
<1>1. row' \in [Rows -> Row]
  BY DEF DeliveriesInv, DeliveriesTypeOK
<1>2. DeliveriesInv'
  BY <1>1, RowsChange, SameRowFits
<1> QED
  BY <1>2 DEF StaysFinished

LEMMA ListKeeps ==
  ASSUME DeliveriesInv, NEW k \in Runs, List(k)
  PROVE  DeliveriesInv' /\ \A i \in Rows : StaysFinished(i)
<1> DEFINE due == {i \in Rows : row[i].kind = run[k].task /\ Due(row[i])}
           job == [run[k] EXCEPT !.listed = TRUE, !.todo = due]
<1>1. run \in [Runs -> Run] /\ run[k] \in Run
  BY DEF DeliveriesInv, DeliveriesTypeOK
<1>2. run' = [run EXCEPT ![k] = job] /\ UNCHANGED <<row, owed>>
  BY <1>1 DEF List
<1>3. due \subseteq Rows
  OBVIOUS
<1> HIDE DEF due
<1>4. job \in Run /\ job.row = run[k].row /\ job.handed = run[k].handed /\ job.attempt = run[k].attempt
  BY <1>1, <1>3 DEF Run
<1> HIDE DEF job
<1> QED
  BY <1>2, <1>4, FreeHands, RunAloneKeeps

\* What a run becomes that is through with a row of its list.
LEMMA WithoutIs ==
  ASSUME DeliveriesInv, NEW k \in Runs, NEW i \in Rows
  PROVE  /\ Without(k, i) \in [Runs -> Run]
         /\ Without(k, i)[k].row = run[k].row /\ Without(k, i)[k].handed = run[k].handed
         /\ Without(k, i)[k].attempt = run[k].attempt
         /\ \A l \in Runs : l # k => Without(k, i)[l] = run[l]
<1> DEFINE job == [run[k] EXCEPT !.todo = run[k].todo \ {i}]
<1>1. run \in [Runs -> Run] /\ run[k] \in Run
  BY DEF DeliveriesInv, DeliveriesTypeOK
<1>2. Without(k, i) = [run EXCEPT ![k] = job]
  BY <1>1 DEF Without
<1>3. job \in Run /\ job.row = run[k].row /\ job.handed = run[k].handed /\ job.attempt = run[k].attempt
  BY <1>1 DEF Run
<1> HIDE DEF job
<1> QED
  BY <1>1, <1>2, <1>3

LEMMA SkipKeeps ==
  ASSUME DeliveriesInv, NEW k \in Runs, NEW i \in Rows, Skip(k, i)
  PROVE  DeliveriesInv' /\ \A j \in Rows : StaysFinished(j)
<1>1. run[k].row = None /\ run[k].handed = FALSE /\ UNCHANGED <<row, owed>>
  BY FreeRow DEF Skip
<1>2. CASE run' = [run EXCEPT ![k] = Resting]
  BY <1>1, <1>2, DeliveryTypes, FreeHands, RunAloneKeeps
<1>3. CASE run' = Without(k, i)
  <2>1. HandsKept
    BY <1>1, <1>3, WithoutIs DEF HandsKept
  <2> QED
    BY <1>1, <2>1, RunAloneKeeps
<1> QED
  BY <1>2, <1>3 DEF Skip

LEMMA EndKeeps ==
  ASSUME DeliveriesInv, NEW k \in Runs, End(k)
  PROVE  DeliveriesInv' /\ \A i \in Rows : StaysFinished(i)
<1>1. run[k].row = None /\ run[k].handed = FALSE /\ run' = [run EXCEPT ![k] = Resting] /\ UNCHANGED <<row, owed>>
  BY DEF End, DeliveriesInv, DeliveriesTypeOK, Held, Run
<1> QED
  BY <1>1, DeliveryTypes, FreeHands, RunAloneKeeps

LEMMA GiveUpKeeps ==
  ASSUME DeliveriesInv, NEW k \in Runs, NEW i \in Rows, GiveUp(k, i)
  PROVE  DeliveriesInv' /\ \A j \in Rows : StaysFinished(j)
<1> DEFINE to == [row[i] EXCEPT !.status = GivenUp(row[i])]
<1>1. /\ row \in [Rows -> Row] /\ row[i] \in Row /\ Owing(i)
      /\ CanTake(k, i) /\ row[i].status = "PENDING" /\ run' = Without(k, i) /\ UNCHANGED owed
  BY DEF GiveUp, DeliveriesInv, DeliveriesTypeOK, StillDue
<1>2. row' = [row EXCEPT ![i] = to] /\ row'[i] = to
  BY <1>1 DEF GiveUp
<1>3. GivenUp(row[i]) \in {"EXPIRED", "FAILED"}
  <2>1. row[i].kind \in {"sms", "push", "chat", "analytics", "report"}
    BY <1>1 DEF Row, Kinds, Locked, Leased
  <2> QED
    BY <2>1 DEF GiveUp, GivenUp, SmsVerdict, PushVerdict, EventVerdict, Pushed
<1>4. to \in Row /\ to.kind = row[i].kind /\ to.status \in {"EXPIRED", "FAILED"} /\ to.attempts = row[i].attempts /\ to.lapsed = row[i].lapsed
  BY <1>1, <1>3 DEF Row, Finished
<1> HIDE DEF to
<1>5. row[i].kind \in Locked => ~InHand(i) /\ ~row[i].lapsed
  BY <1>1, FreeRow DEF Owing
<1>6. Fits(i)
  <2>1. CASE row[i].kind \in Locked
    BY <1>1, <1>2, <1>4, <1>5, <2>1, DeliveryTypes DEF Fits
  <2>2. CASE row[i].kind \in Leased
    BY <1>1, <1>2, <1>4, <2>2, DeliveryTypes DEF Fits
  <2> QED
    BY <1>1, <2>1, <2>2, DeliveryTypes
<1>7. HandsKept
  BY <1>1, WithoutIs DEF HandsKept
<1>8. StaysFinished(i)
  BY <1>1 DEF StaysFinished, Finished
<1> QED
  BY <1>1, <1>2, <1>4, <1>6, <1>7, <1>8, RowChanges, SameRowStays

\* A run and the row it has, takes or lets go change together.
LEMMA RunAndRow ==
  ASSUME DeliveriesInv, NEW k \in Runs, NEW i \in Rows, DeliveriesTypeOK',
         \A j \in Rows : j # i => row'[j] = row[j] /\ owed'[j] = owed[j],
         \A l \in Runs : l # k => run'[l] = run[l],
         run[k].row \in {i, None}, run'[k].row \in {i, None},
         row'[i].kind = row[i].kind,
         row[i].kind \in Locked => \A l \in Runs : run[l].row = i => l = k,
         row[i].kind \in Leased => /\ row[i].lapsed => row'[i].lapsed
                                   /\ row'[i].lapsed \/ row'[i].attempts >= row[i].attempts,
         Held(k)', Owing(i)'
  PROVE  DeliveriesInv'
<1>1. ASSUME NEW l \in Runs, l # k
      PROVE  Held(l)'
  <2>1. Held(l) /\ run'[l] = run[l] /\ run[l] \in Run
    BY <1>1 DEF DeliveriesInv, DeliveriesTypeOK
  <2>2. ASSUME NEW j \in Rows, run[l].row = j, row'[j].kind \in Locked
        PROVE  /\ row'[j].status = "PENDING" /\ run[l].attempt = row'[j].attempts + 1
               /\ \A m \in Runs : run'[m].row = j => m = l
    <3>1. j # i
      BY <1>1, <2>2
    <3>2. run'[k].row # j
      BY <3>1, DeliveryTypes
    <3> QED
      BY <2>1, <2>2, <3>1, <3>2 DEF Held
  <2>3. ASSUME NEW j \in Rows, run[l].row = j, row'[j].kind \in Leased
        PROVE  row'[j].lapsed \/ row'[j].attempts >= run[l].attempt
    <3>1. row'[j].kind = row[j].kind
      BY DEF DeliveriesInv
    <3>2. row[j].lapsed \/ row[j].attempts >= run[l].attempt
      BY <2>1, <2>3, <3>1 DEF Held, Counted
    <3>3. row[j].attempts \in Nat /\ row'[j].attempts \in Nat /\ run[l].attempt \in Nat
      BY <2>1, DeliveryTypes DEF DeliveriesInv, DeliveriesTypeOK, Run
    <3>4. CASE j = i
      <4>1. (row[j].lapsed => row'[j].lapsed) /\ (row'[j].lapsed \/ row'[j].attempts >= row[j].attempts)
        <5>1. row[i].kind \in Leased
          BY <2>3, <3>1, <3>4
        <5> QED
          BY <3>4, <5>1
      <4>2. CASE row[j].lapsed
        BY <4>1, <4>2
      <4>3. CASE row[j].attempts >= run[l].attempt
        <5>1. CASE row'[j].lapsed
          BY <5>1
        <5>2. CASE row'[j].attempts >= row[j].attempts
          BY <3>3, <4>3, <5>2
        <5> QED
          BY <4>1, <5>1, <5>2
      <4> QED
        BY <3>2, <4>2, <4>3
    <3>5. CASE j # i
      BY <3>2, <3>5
    <3> QED
      BY <3>4, <3>5
  <2> QED
    BY <2>1, <2>2, <2>3 DEF Held, Counted
<1>2. ASSUME NEW j \in Rows, j # i
      PROVE  Owing(j)'
  <2>1. Owing(j) /\ run[k].row # j /\ run'[k].row # j
    BY <1>2, DeliveryTypes DEF DeliveriesInv
  <2>2. InTheAir(j)' <=> InTheAir(j)
    BY <2>1 DEF InTheAir
  <2> QED
    BY <1>2, <2>1, <2>2 DEF Owing
<1> QED
  BY <1>1, <1>2 DEF DeliveriesInv

\* The run that has a locked row knows whether the row is in the air.
LEMMA Alone ==
  ASSUME DeliveriesInv, NEW k \in Runs, NEW i \in Rows, run[k].row = i, row[i].kind \in Locked
  PROVE  /\ row[i].status = "PENDING" /\ run[k].attempt = row[i].attempts + 1
         /\ \A l \in Runs : run[l].row = i => l = k
         /\ owed[i] = IF run[k].handed THEN 1 ELSE 0
<1>1. Held(k) /\ Owing(i)
  BY DEF DeliveriesInv
<1> QED
  BY <1>1 DEF Held, Owing, InTheAir

LEMMA TakeKeeps ==
  ASSUME DeliveriesInv, NEW k \in Runs, NEW i \in Rows, Take(k, i)
  PROVE  DeliveriesInv' /\ \A j \in Rows : StaysFinished(j)
<1> DEFINE to == Claimed(row[i])
           job == [Without(k, i)[k] EXCEPT !.row = i, !.attempt = row[i].attempts + 1]
<1>1. /\ row \in [Rows -> Row] /\ row[i] \in Row /\ owed \in [Rows -> Nat] /\ Owing(i)
      /\ CanTake(k, i) /\ row[i].status = "PENDING" /\ UNCHANGED owed
  BY DEF Take, DeliveriesInv, DeliveriesTypeOK, StillDue
<1>2. row' = [row EXCEPT ![i] = to] /\ row'[i] = to
  BY <1>1 DEF Take
<1>3. run' = [Without(k, i) EXCEPT ![k] = job]
  BY WithoutIs DEF Take
<1>4. /\ to \in Row /\ to.kind = row[i].kind /\ to.lapsed = row[i].lapsed
      /\ row[i].kind \in Locked => to = row[i]
      /\ row[i].kind \in Leased => to.attempts = row[i].attempts + 1
  <2>1. CASE row[i].kind \in Locked
    BY <1>1, <2>1, DeliveryTypes DEF Claimed
  <2>2. CASE row[i].kind \in Leased
    <3>1. to = [row[i] EXCEPT !.status = "CLAIMED", !.attempts = row[i].attempts + 1, !.due = FALSE]
      BY <2>2 DEF Claimed
    <3>2. row[i].attempts + 1 \in Nat
      BY <1>1, DeliveryTypes
    <3> HIDE DEF to
    <3>3. to \in Row /\ to.kind = row[i].kind /\ to.lapsed = row[i].lapsed /\ to.attempts = row[i].attempts + 1
      BY <1>1, <3>1, <3>2 DEF Row, Open
    <3> QED
      BY <1>1, <2>2, <3>3, DeliveryTypes
  <2> QED
    BY <1>1, <2>1, <2>2, DeliveryTypes
<1> HIDE DEF to
<1>5. /\ run[k].row = None /\ run[k].handed = FALSE /\ row[i].attempts \in Nat
      /\ row[i].kind \in Locked => ~InHand(i)
  BY <1>1, FreeRow, DeliveryTypes
<1>6. job \in Run /\ job.row = i /\ job.handed = FALSE /\ job.attempt = row[i].attempts + 1
  <2>1. Without(k, i) \in [Runs -> Run] /\ Without(k, i)[k].handed = run[k].handed
    BY WithoutIs
  <2>2. Without(k, i)[k] \in Run /\ Without(k, i)[k].handed = FALSE
    BY <1>5, <2>1
  <2>3. row[i].attempts + 1 \in Nat
    BY <1>5
  <2> QED
    BY <2>2, <2>3 DEF Run
<1> HIDE DEF job
<1>7. run' \in [Runs -> Run] /\ run'[k] = job /\ \A l \in Runs : l # k => run'[l] = run[l]
  BY <1>3, <1>6, WithoutIs
<1>8. DeliveriesTypeOK'
  BY <1>1, <1>2, <1>4, <1>7 DEF DeliveriesTypeOK
<1>9. row[i].kind \in Locked => \A l \in Runs : run[l].row # i
  BY <1>5 DEF InHand
<1>10. Held(k)'
  <2>1. CASE row[i].kind \in Locked
    BY <1>1, <1>2, <1>4, <1>6, <1>7, <1>9, <2>1, DeliveryTypes DEF Held
  <2>2. CASE row[i].kind \in Leased
    BY <1>1, <1>2, <1>4, <1>5, <1>6, <1>7, <2>2, DeliveryTypes DEF Held, Counted
  <2> QED
    BY <1>1, <2>1, <2>2, DeliveryTypes
<1>11. Owing(i)'
  <2>1. CASE row[i].kind \in Locked
    <3>1. InTheAir(i) = FALSE /\ InTheAir(i)' = FALSE
      BY <1>6, <1>7, <1>9, <2>1 DEF InTheAir
    <3> QED
      BY <1>1, <1>2, <1>4, <2>1, <3>1, DeliveryTypes DEF Owing
  <2>2. CASE row[i].kind \in Leased
    BY <1>1, <1>2, <1>4, <2>2, DeliveryTypes DEF Owing
  <2> QED
    BY <1>1, <2>1, <2>2, DeliveryTypes
<1>12. DeliveriesInv'
  <2>1. \A j \in Rows : j # i => row'[j] = row[j] /\ owed'[j] = owed[j]
    BY <1>1, <1>2
  <2>2. row[i].kind \in Leased => /\ row[i].lapsed => row'[i].lapsed
                                  /\ row'[i].lapsed \/ row'[i].attempts >= row[i].attempts
    BY <1>2, <1>4, <1>5
  <2> QED
    BY <1>2, <1>4, <1>5, <1>6, <1>7, <1>8, <1>9, <1>10, <1>11, <2>1, <2>2, RunAndRow
<1>13. StaysFinished(i)
  BY <1>1 DEF StaysFinished, Finished
<1> QED
  BY <1>1, <1>2, <1>12, <1>13, SameRowStays

LEMMA HandOverKeeps ==
  ASSUME DeliveriesInv, NEW k \in Runs, HandOver(k)
  PROVE  DeliveriesInv' /\ \A j \in Rows : StaysFinished(j)
<1> DEFINE i == run[k].row
           more == IF Counted(k, i) \/ row[i].lapsed THEN 0 ELSE 1
           job == [run[k] EXCEPT !.handed = TRUE]
<1>1. /\ row \in [Rows -> Row] /\ run \in [Runs -> Run] /\ run[k] \in Run /\ owed \in [Rows -> Nat]
      /\ i \in Rows /\ ~run[k].handed
  BY DEF HandOver, DeliveriesInv, DeliveriesTypeOK, Run
<1>2. run' = [run EXCEPT ![k] = job] /\ owed' = [owed EXCEPT ![i] = owed[i] + more] /\ UNCHANGED row
  BY <1>1 DEF HandOver
<1>3. job \in Run /\ job.row = run[k].row /\ job.handed = TRUE /\ job.attempt = run[k].attempt
  BY <1>1 DEF Run
<1>4. more \in {0, 1}
  OBVIOUS
<1>5. row[i] \in Row /\ Held(k) /\ Owing(i) /\ run[k].attempt \in Nat
  BY <1>1 DEF DeliveriesInv, Run
<1>6. /\ row[i].kind \in Leased => more = 0
      /\ row[i].kind \in Locked => more = 1
  <2>1. CASE row[i].kind \in Leased
    <3>1. row[i].lapsed \/ Counted(k, i)
      BY <1>1, <1>5, <2>1, Zenon DEF Held
    <3>2. more = 0
      BY <3>1, Zenon
    <3>3. row[i].kind \notin Locked
      BY <1>5, <2>1, DeliveryTypes
    <3> QED
      BY <3>2, <3>3
  <2>2. CASE row[i].kind \in Locked
    <3>1. run[k].attempt = row[i].attempts + 1 /\ ~row[i].lapsed /\ row[i].attempts \in Nat
      BY <1>1, <1>5, <2>2, Alone, DeliveryTypes DEF Owing
    <3> QED
      BY <1>5, <2>2, <3>1, DeliveryTypes DEF Counted
  <2> QED
    BY <1>5, <2>1, <2>2, DeliveryTypes
<1> HIDE DEF job, more
<1>7. run' \in [Runs -> Run] /\ run'[k] = job /\ \A l \in Runs : l # k => run'[l] = run[l]
  BY <1>1, <1>2, <1>3
<1>8. /\ owed' \in [Rows -> Nat] /\ owed'[i] = owed[i] + more
      /\ \A j \in Rows : j # i => owed'[j] = owed[j]
  <2>1. owed[i] + more \in Nat
    BY <1>1, <1>4
  <2> QED
    BY <1>1, <1>2, <2>1
<1>9. DeliveriesTypeOK'
  BY <1>1, <1>2, <1>7, <1>8 DEF DeliveriesTypeOK
<1> DEFINE n == i
<1>10. \A l \in Runs : run'[l].row = run[l].row /\ run'[l].attempt = run[l].attempt
  BY <1>3, <1>7
<1>11. Held(k)'
  BY <1>1, <1>2, <1>3, <1>5, <1>7, <1>10, DeliveryTypes DEF Held, Counted
<1>12. row[i].kind \in Locked => \A l \in Runs : run[l].row = i => l = k
  BY <1>1, Alone
<1>13. ASSUME NEW j \in Rows, j = i
       PROVE  Owing(j)'
  <2>1. InTheAir(j)'
    BY <1>3, <1>7, <1>13 DEF InTheAir
  <2>2. row[j].kind \in Locked => owed[j] = 0
    BY <1>1, <1>13, Alone
  <2> QED
    BY <1>2, <1>5, <1>6, <1>8, <1>13, <2>1, <2>2, DeliveryTypes DEF Owing
<1>14. ASSUME NEW j \in Rows, j = i
       PROVE  DeliveriesInv'
  <2>1. row[j].attempts \in Nat
    BY <1>5, <1>14, DeliveryTypes
  <2>2. row[j].kind \in Leased => row'[j].lapsed \/ row'[j].attempts >= row[j].attempts
    BY <1>2, <2>1
  <2> QED
    BY <1>2, <1>7, <1>8, <1>9, <1>10, <1>11, <1>12, <1>13, <1>14, <2>2, RunAndRow
<1> QED
  BY <1>1, <1>2, <1>14 DEF StaysFinished

LEMMA KilledKeeps ==
  ASSUME DeliveriesInv, NEW k \in Runs, Killed(k)
  PROVE  DeliveriesInv' /\ \A j \in Rows : StaysFinished(j)
<1>1. /\ row \in [Rows -> Row] /\ run \in [Runs -> Run] /\ run[k] \in Run /\ owed \in [Rows -> Nat]
      /\ Held(k) /\ run[k].row \in Rows \cup {None}
  BY DEF DeliveriesInv, DeliveriesTypeOK, Run
<1>2. run' = [run EXCEPT ![k] = Resting] /\ UNCHANGED row
  BY DEF Killed
<1>3. CASE run[k].row = None
  <2>1. run[k].handed = FALSE
    BY <1>1, <1>3 DEF Held, Run
  <2>2. UNCHANGED owed
    BY <1>3 DEF Killed
  <2> QED
    BY <1>2, <1>3, <2>1, <2>2, DeliveryTypes, FreeHands, RunAloneKeeps
<1>4. ASSUME NEW i \in Rows, run[k].row = i
      PROVE  DeliveriesInv'
  <2> DEFINE lost == IF run[k].handed /\ row[i].kind \in Locked THEN 1 ELSE 0
  <2>1. /\ row[i].kind \in Locked => /\ owed[i] = lost
                                     /\ \A l \in Runs : run[l].row = i => l = k
        /\ row[i].kind \notin Locked => lost = 0
    BY <1>4, Alone
  <2>2. row[i] \in Row /\ Owing(i) /\ owed[i] \in Nat /\ i # None
    BY <1>1, DeliveryTypes DEF DeliveriesInv
  <2>3. /\ owed'[i] = owed[i] - lost
        /\ \A j \in Rows : j # i => owed'[j] = owed[j]
        /\ DOMAIN owed' = Rows /\ owed' = [j \in Rows |-> owed'[j]]
    <3>1. CASE run[k].handed /\ row[i].kind \in Locked
      BY <1>1, <1>4, <2>2, <3>1 DEF Killed
    <3>2. CASE ~(run[k].handed /\ row[i].kind \in Locked)
      BY <1>1, <1>4, <2>2, <3>2 DEF Killed
    <3> QED
      BY <3>1, <3>2
  <2> HIDE DEF lost
  <2>4. owed'[i] \in Nat /\ (row[i].kind \in Locked => owed'[i] = 0) /\ (row[i].kind \in Leased => owed'[i] = owed[i])
    BY <2>1, <2>2, <2>3, DeliveryTypes
  <2>5. owed' \in [Rows -> Nat]
    BY <1>1, <2>3, <2>4
  <2>6. run' \in [Runs -> Run] /\ run'[k] = Resting /\ \A l \in Runs : l # k => run'[l] = run[l]
    BY <1>1, <1>2, DeliveryTypes
  <2>7. DeliveriesTypeOK'
    BY <1>1, <1>2, <2>5, <2>6 DEF DeliveriesTypeOK
  <2>8. Held(k)'
    BY <2>6, DeliveryTypes DEF Held
  <2>9. Owing(i)'
    <3>1. CASE row[i].kind \in Locked
      <4>1. ~InTheAir(i)'
        BY <2>1, <2>6, <3>1, DeliveryTypes DEF InTheAir
      <4> QED
        BY <1>2, <2>2, <2>4, <3>1, <4>1, DeliveryTypes DEF Owing
    <3>2. CASE row[i].kind \in Leased
      BY <1>2, <2>2, <2>4, <3>2, DeliveryTypes DEF Owing
    <3> QED
      BY <2>2, <3>1, <3>2, DeliveryTypes
  <2>10. row[i].attempts \in Nat
    BY <2>2, DeliveryTypes
  <2>11. row'[i].lapsed \/ row'[i].attempts >= row[i].attempts
    BY <1>2, <2>10
  <2> QED
    BY <1>2, <1>4, <2>1, <2>3, <2>6, <2>7, <2>8, <2>9, <2>11, DeliveryTypes, RunAndRow
<1> QED
  BY <1>1, <1>2, <1>3, <1>4 DEF StaysFinished

\* What an answer makes of the row of a run.
LEMMA SavedIs ==
  ASSUME NEW r \in Row, NEW a \in Nat, NEW late \in BOOLEAN,
         NEW answer \in {"accepted", "refused", "error"},
         NEW to, to = Saved(r, a, answer, late)
  PROVE  /\ to \in Row /\ to.kind = r.kind
         /\ to.lapsed <=> r.lapsed \/ late
         /\ to.status \in {"PENDING", "SENT", "FAILED"}
         /\ to.attempts = (IF r.kind = "push" /\ answer = "refused" THEN r.attempts ELSE a)
         /\ to.status = "PENDING" => answer = "error"
<1> DEFINE status == Outcome(r.kind, a, answer)
           attempts == IF r.kind = "push" /\ answer = "refused" THEN r.attempts ELSE a
           usable == r.usable /\ ~(r.kind \in Pushed /\ answer = "refused")
           lapsed == r.lapsed \/ late
<1>1. status \in {"PENDING", "SENT", "FAILED"} /\ (status = "PENDING" => answer = "error")
  BY DEF Outcome
<1>2. attempts \in Nat /\ usable \in BOOLEAN /\ lapsed \in BOOLEAN
  BY DeliveryTypes
<1>3. to = [r EXCEPT !.status = status, !.attempts = attempts, !.due = FALSE, !.usable = usable,
                     !.lapsed = lapsed]
  BY DEF Saved
<1> HIDE DEF status, attempts, usable, lapsed
<1>4. to \in Row /\ to.kind = r.kind /\ to.status = status /\ to.attempts = attempts /\ to.lapsed = lapsed
  BY <1>1, <1>2, <1>3 DEF Row, Open, Finished
<1>5. to.lapsed <=> r.lapsed \/ late
  BY <1>4 DEF lapsed
<1> QED
  BY <1>1, <1>4, <1>5 DEF attempts

LEMMA RecordKeeps ==
  ASSUME DeliveriesInv, NEW k \in Runs, NEW answer \in {"accepted", "refused", "error"}, Record(k, answer)
  PROVE  DeliveriesInv' /\ \A j \in Rows : StaysFinished(j)
<1> DEFINE a == run[k].attempt
           job == [run[k] EXCEPT !.row = None, !.attempt = 0, !.handed = FALSE]
<1>1. PICK i \in Rows : run[k].row = i
  BY DEF Record, DeliveriesInv, DeliveriesTypeOK, Run
<1> DEFINE less == IF run[k].handed /\ row[i].kind \in Locked /\ ~Counted(k, i) /\ row'[i].attempts >= a
                   THEN 1 ELSE 0
           to == Saved(row[i], a, answer, Late(k))
<1>2. /\ row \in [Rows -> Row] /\ run \in [Runs -> Run] /\ run[k] \in Run /\ owed \in [Rows -> Nat]
      /\ row[i] \in Row /\ a \in Nat /\ owed[i] \in Nat /\ Held(k) /\ Owing(i) /\ row[i].attempts \in Nat
  BY DeliveryTypes DEF DeliveriesInv, DeliveriesTypeOK, Run
<1>3. /\ row' = IF row[i].status = "GONE" THEN row ELSE [row EXCEPT ![i] = to]
      /\ answer = "accepted" \/ answer = "refused" => run[k].handed
      /\ run' = [run EXCEPT ![k] = job]
      /\ owed' = [owed EXCEPT ![i] = owed[i] - less]
  <2>1. row' = IF row[i].status = "GONE" THEN row ELSE [row EXCEPT ![i] = to]
    BY <1>1, <1>2 DEF Record
  <2>2. run' = [run EXCEPT ![k] = job]
    BY <1>2 DEF Record
  <2>3. owed' = [owed EXCEPT ![i] = owed[i] - less]
    BY <1>1, <1>2 DEF Record
  <2>4. answer = "accepted" \/ answer = "refused" => run[k].handed
    BY DEF Record, Answers
  <2> QED
    BY <2>1, <2>2, <2>3, <2>4
<1>4. job \in Run /\ job.row = None /\ job.handed = FALSE
  BY <1>2 DEF Run
<1>5. /\ to \in Row /\ to.kind = row[i].kind /\ (to.lapsed <=> row[i].lapsed \/ Late(k))
      /\ to.status \in {"PENDING", "SENT", "FAILED"}
      /\ to.attempts = (IF row[i].kind = "push" /\ answer = "refused" THEN row[i].attempts ELSE a)
      /\ to.status = "PENDING" => answer = "error"
  <2>1. Late(k) \in BOOLEAN
    BY DEF Late
  <2>2. row[i] \in Row /\ a \in Nat /\ to = Saved(row[i], a, answer, Late(k))
    BY <1>2
  <2> HIDE DEF a, to
  <2>3. /\ to \in Row /\ to.kind = row[i].kind
        /\ to.status \in {"PENDING", "SENT", "FAILED"}
        /\ to.attempts = (IF row[i].kind = "push" /\ answer = "refused" THEN row[i].attempts ELSE a)
        /\ to.status = "PENDING" => answer = "error"
    BY <2>1, <2>2, SavedIs
  <2>4. to.lapsed <=> row[i].lapsed \/ Late(k)
    BY <2>1, <2>2, SavedIs
  <2> QED
    BY <2>3, <2>4, Zenon
<1>6. less \in {0, 1} /\ (row[i].kind \notin Locked => less = 0)
  OBVIOUS
<1>7. row[i].kind \in Locked => less = IF run[k].handed /\ row'[i].attempts >= a THEN 1 ELSE 0
  <2>1. ASSUME row[i].kind \in Locked
        PROVE  ~Counted(k, i)
    <3>1. a = row[i].attempts + 1
      BY <1>1, <2>1, Alone
    <3> QED
      BY <1>2, <3>1 DEF Counted
  <2> QED
    BY <2>1
<1>8. /\ row[i].kind \in Leased /\ row[i].status # "CLAIMED" => Late(k)
      /\ row[i].kind \in Leased /\ row[i].attempts # a => Late(k)
  BY <1>1 DEF Late
<1> HIDE DEF job, to, less, a
<1>9. run' \in [Runs -> Run] /\ run'[k] = job /\ \A l \in Runs : l # k => run'[l] = run[l]
  BY <1>2, <1>3, <1>4
<1>10. row' \in [Rows -> Row] /\ \A j \in Rows : j # i => row'[j] = row[j]
  BY <1>2, <1>3, <1>5
<1>11. row'[i] = IF row[i].status = "GONE" THEN row[i] ELSE to
  BY <1>2, <1>3
<1>12. owed'[i] = owed[i] - less /\ \A j \in Rows : j # i => owed'[j] = owed[j]
  BY <1>2, <1>3
<1>13. ASSUME row[i].kind \in Locked
       PROVE  /\ owed'[i] \in Nat /\ Owing(i)'
              /\ row[i].status = "PENDING" /\ \A l \in Runs : run[l].row = i => l = k
  <2>1. /\ row[i].status = "PENDING" /\ a = row[i].attempts + 1
        /\ \A l \in Runs : run[l].row = i => l = k
        /\ owed[i] = IF run[k].handed THEN 1 ELSE 0
    BY <1>1, <1>13, Alone DEF a
  <2>2. row'[i] = to
    BY <1>11, <2>1
  <2>3. less = IF run[k].handed /\ to.attempts >= a THEN 1 ELSE 0
    BY <1>7, <1>13, <2>2
  <2>4. owed'[i] \in Nat /\ (to.attempts = a => owed'[i] = 0)
    BY <1>2, <1>12, <2>1, <2>3
  <2>5. to.status = "PENDING" => owed'[i] = 0
    BY <1>5, <2>4
  <2>6. ~InTheAir(i)'
    BY <1>4, <1>9, <2>1, DeliveryTypes DEF InTheAir
  <2>7. ~row[i].lapsed /\ row[i].kind \notin Leased
    BY <1>2, <1>13, DeliveryTypes DEF Owing
  <2>8. ~Late(k)
    BY <1>1, <2>7 DEF Late
  <2>9. Owing(i)'
    BY <1>5, <2>2, <2>5, <2>6, <2>7, <2>8 DEF Owing
  <2> QED
    BY <2>1, <2>4, <2>9
<1>14. ASSUME row[i].kind \in Leased
       PROVE  /\ owed'[i] \in Nat /\ Owing(i)'
              /\ row[i].lapsed => row'[i].lapsed
              /\ row'[i].lapsed \/ row'[i].attempts >= row[i].attempts
  <2>1. row[i].kind \notin Locked /\ row[i].kind # "push"
    BY <1>14 DEF Leased, Locked
  <2>2. owed'[i] = 0 /\ row'[i].kind = row[i].kind
    BY <1>2, <1>5, <1>6, <1>11, <1>12, <1>14, <2>1 DEF Owing
  <2>3. Owing(i)'
    BY <2>1, <2>2 DEF Owing
  <2>4. row[i].lapsed => row'[i].lapsed
    BY <1>5, <1>11
  <2>5. row'[i].lapsed \/ row'[i].attempts >= row[i].attempts
    <3>1. CASE row[i].status = "GONE"
      BY <1>2, <1>11, <3>1
    <3>2. CASE row[i].status # "GONE" /\ row[i].attempts # a
      BY <1>5, <1>8, <1>11, <1>14, <3>2
    <3>3. CASE row[i].status # "GONE" /\ row[i].attempts = a
      BY <1>2, <1>5, <1>11, <2>1, <3>3
    <3> QED
      BY <3>1, <3>2, <3>3
  <2> QED
    BY <2>2, <2>3, <2>4, <2>5
<1>15. row[i].kind \in Locked \/ row[i].kind \in Leased
  BY <1>2, DeliveryTypes
<1>16. DeliveriesTypeOK'
  <2>1. owed'[i] \in Nat
    BY <1>13, <1>14, <1>15
  <2>2. owed' \in [Rows -> Nat]
    BY <1>2, <1>3, <1>12, <2>1
  <2> QED
    BY <1>9, <1>10, <2>2 DEF DeliveriesTypeOK
<1>17. Held(k)'
  BY <1>4, <1>9, DeliveryTypes DEF Held
<1>18. DeliveriesInv'
  <2>1. row'[i].kind = row[i].kind /\ run'[k].row = None
    BY <1>4, <1>5, <1>9, <1>11
  <2>2. row[i].kind \in Locked => \A l \in Runs : run[l].row = i => l = k
    BY <1>13
  <2>3. row[i].kind \in Leased =>
          /\ row[i].lapsed => row'[i].lapsed
          /\ row'[i].lapsed \/ row'[i].attempts >= row[i].attempts
    BY <1>14
  <2>4. Owing(i)'
    BY <1>13, <1>14, <1>15
  <2> QED
    BY <1>1, <1>9, <1>10, <1>12, <1>16, <1>17, <2>1, <2>2, <2>3, <2>4, RunAndRow
<1>19. StaysFinished(i)
  <2>1. CASE row[i].kind \in Locked
    BY <1>13, <2>1 DEF StaysFinished, Finished
  <2>2. CASE row[i].kind \in Leased
    BY <1>5, <1>8, <1>11, <2>2 DEF StaysFinished, Finished
  <2> QED
    BY <1>15, <2>1, <2>2
<1> QED
  BY <1>10, <1>18, <1>19 DEF StaysFinished

LEMMA NextDeliveries ==
  DeliveriesInv /\ [DeliveriesNext]_deliveryVars => DeliveriesInv' /\ \A i \in Rows : StaysFinished(i)
<1> SUFFICES ASSUME DeliveriesInv, [DeliveriesNext]_deliveryVars
             PROVE  DeliveriesInv' /\ \A i \in Rows : StaysFinished(i)
  OBVIOUS
<1>1. ASSUME NEW i \in Rows, RowStep(i)
      PROVE  DeliveriesInv' /\ \A j \in Rows : StaysFinished(j)
  BY <1>1, RowStepKeeps
<1>2. ASSUME NEW k \in Runs, NEW q \in Kinds, Sweep(k, q)
      PROVE  DeliveriesInv' /\ \A j \in Rows : StaysFinished(j)
  BY <1>2, SweepKeeps
<1>3. ASSUME NEW k \in Runs, List(k) \/ HandOver(k) \/ End(k) \/ Killed(k)
      PROVE  DeliveriesInv' /\ \A j \in Rows : StaysFinished(j)
  BY <1>3, ListKeeps, HandOverKeeps, EndKeeps, KilledKeeps
<1>4. ASSUME NEW k \in Runs, NEW i \in Rows, Working(k, i)
      PROVE  DeliveriesInv' /\ \A j \in Rows : StaysFinished(j)
  BY <1>4, SkipKeeps, GiveUpKeeps, TakeKeeps DEF Working
<1>5. ASSUME NEW k \in Runs, NEW answer \in {"accepted", "refused", "error"}, Record(k, answer)
      PROVE  DeliveriesInv' /\ \A j \in Rows : StaysFinished(j)
  BY <1>5, RecordKeeps
<1>6. CASE UNCHANGED deliveryVars
  <2>1. HandsKept /\ UNCHANGED <<row, owed>>
    BY <1>6, HandsStay DEF deliveryVars
  <2> QED
    BY <2>1, RunAloneKeeps
<1>7. ASSUME NEW i \in Rows,
             \/ Enqueue(i) \/ Aging(i) \/ CodeUsed(i) \/ OrderDeleted(i) \/ Reopen(i)
             \/ \E may \in BOOLEAN : SetUsable(i, may)
      PROVE  RowStep(i)
  BY <1>7 DEF RowStep
<1> QED
  BY <1>1, <1>2, <1>3, <1>4, <1>5, <1>6, <1>7 DEF DeliveriesNext

\* A locked row owes what is in the air, and that is what its runs have not returned.
LEMMA CountedOf == DeliveriesInv => HandoversCounted
<1> SUFFICES ASSUME DeliveriesInv, NEW i \in Rows, row[i].status \in Open, ~row[i].lapsed
             PROVE  owed[i] <= IF row[i].kind \in Locked THEN Unreturned(i) ELSE 0
  BY DEF HandoversCounted
<1>1. Owing(i) /\ row[i] \in Row
  BY DEF DeliveriesInv, DeliveriesTypeOK
<1>2. CASE row[i].kind \in Leased
  BY <1>1, <1>2, DeliveryTypes DEF Owing
<1>3. CASE row[i].kind \in Locked
  <2> DEFINE hands == {k \in Runs : run[k].row = i /\ run[k].handed}
  <2>1. owed[i] = IF InTheAir(i) THEN 1 ELSE 0
    BY <1>1, <1>3 DEF Owing, Open
  <2>2. Unreturned(i) = Cardinality(hands)
    BY DEF Unreturned, Quantify
  <2>3. CASE InTheAir(i)
    <3>1. PICK k \in Runs : run[k].row = i /\ run[k].handed
      BY <2>3 DEF InTheAir
    <3>2. hands = {k}
      BY <1>3, <3>1, Alone
    <3>3. Cardinality({k}) = 1
      BY FS_Singleton
    <3> QED
      <4>1. owed[i] = 1 /\ Unreturned(i) = 1
        BY <2>1, <2>2, <2>3, <3>2, <3>3
      <4> QED
        BY <1>3, <4>1
  <2>4. CASE ~InTheAir(i)
    <3>1. hands = {}
      BY <2>4 DEF InTheAir
    <3>2. Cardinality({}) = 0
      BY FS_EmptySet
    <3> QED
      <4>1. owed[i] = 0 /\ Unreturned(i) = 0
        BY <2>1, <2>2, <2>4, <3>1, <3>2
      <4> QED
        BY <1>3, <4>1
  <2> QED
    BY <2>3, <2>4
<1> QED
  BY <1>1, <1>2, <1>3, DeliveryTypes

-----------------------------------------------------------------------------
(* The retry limit.                                                        *)

\* A row that may be taken still has attempts left; a report one for every run that
\* has listed it already.
Listers(i) == {k \in Runs : i \in run[k].todo}
Waits(r) == r.status \in {"NONE"} \cup Open

Within(i) ==
  /\ row[i].attempts <= Limit(row[i].kind)
  /\ row[i].kind \in Locked /\ Waits(row[i]) => row[i].attempts < MaxAttempts
  /\ row[i].kind = "report" /\ Waits(row[i]) =>
       row[i].attempts + Cardinality(Listers(i)) <= Limit("report")
  /\ \A k \in Runs : run[k].row = i => run[k].attempt <= Limit(row[i].kind)

LimitsInv == \A i \in Rows : Within(i)

LEMMA SomeRuns ==
  ASSUME NEW S \in SUBSET Runs, NEW T \in SUBSET S
  PROVE  /\ IsFiniteSet(S) /\ Cardinality(S) \in Nat /\ Cardinality(T) \in Nat
         /\ Cardinality(T) <= Cardinality(S) /\ Cardinality(S) <= Cardinality(Runs)
<1>1. IsFiniteSet(Runs)
  BY DeliveriesAssumption
<1>2. IsFiniteSet(S) /\ Cardinality(S) <= Cardinality(Runs)
  BY <1>1, FS_Subset
<1>3. IsFiniteSet(T) /\ Cardinality(T) <= Cardinality(S)
  BY <1>2, FS_Subset
<1> QED
  BY <1>2, <1>3, FS_CardinalityType

LEMMA LimitIs ==
  /\ Cardinality(Runs) \in Nat /\ MaxAttempts \in Nat /\ MaxAttempts > 1
  /\ \A q : /\ Limit(q) \in Nat /\ Limit(q) >= MaxAttempts - 1
            /\ Limit(q) = IF q = "report" THEN MaxAttempts - 1 + Cardinality(Runs) ELSE MaxAttempts
<1>1. Cardinality(Runs) \in Nat
  BY SomeRuns
<1> QED
  BY <1>1, DeliveriesAssumption DEF Limit

LEMMA InitLimits == DeliveriesInit => LimitsInv
<1> SUFFICES ASSUME DeliveriesInit, NEW i \in Rows PROVE Within(i)
  BY DEF LimitsInv
<1>1. row[i].attempts = 0
  BY DEF DeliveriesInit
<1>2. \A k \in Runs : run[k].row = None /\ run[k].todo = {}
  BY DEF DeliveriesInit, Resting
<1>3. Cardinality(Listers(i)) = 0
  <2>1. Listers(i) = {}
    BY <1>2 DEF Listers
  <2> QED
    BY <2>1, FS_EmptySet
<1> QED
  BY <1>1, <1>2, <1>3, LimitIs, DeliveriesAssumption DEF Within

\* A row that is attempted no more than it was, and waits only if it did, listed by no
\* other runs and in no other hands.
LEMMA StillWithin ==
  ASSUME DeliveriesInv, LimitsInv, NEW i \in Rows,
         row'[i].kind = row[i].kind, row'[i].attempts = row[i].attempts,
         Waits(row'[i]) => Waits(row[i]),
         \A k \in Runs : /\ i \in run'[k].todo => i \in run[k].todo
                         /\ run'[k].row = i => run[k].row = i /\ run'[k].attempt = run[k].attempt
  PROVE  Within(i)'
<1>1. Within(i) /\ row[i].attempts \in Nat
  BY DeliveryTypes DEF LimitsInv, DeliveriesInv, DeliveriesTypeOK
<1> DEFINE now == {k \in Runs : i \in run'[k].todo}
<1>2. now \subseteq Listers(i) /\ Listers(i) \subseteq Runs
  BY DEF Listers
<1>3. Cardinality(now) \in Nat /\ Cardinality(Listers(i)) \in Nat /\ Cardinality(now) <= Cardinality(Listers(i))
  BY <1>2, SomeRuns
<1>4. Listers(i)' = now
  BY DEF Listers
<1> HIDE DEF now
<1>5. row'[i].kind = "report" /\ Waits(row'[i]) => row'[i].attempts + Cardinality(now) <= Limit("report")
  BY <1>1, <1>3, LimitIs DEF Within
<1>6. row'[i].kind \in Locked /\ Waits(row'[i]) => row'[i].attempts < MaxAttempts
  BY <1>1 DEF Within
<1>7. row'[i].attempts <= Limit(row'[i].kind)
  BY <1>1 DEF Within
<1>8. \A k \in Runs : run'[k].row = i => run'[k].attempt <= Limit(row'[i].kind)
  BY <1>1 DEF Within
<1> QED
  BY <1>4, <1>5, <1>6, <1>7, <1>8 DEF Within, Waits, Limit

\* A row with an attempt to spare, whatever runs have listed it.
LEMMA SpareWithin ==
  ASSUME NEW i \in Rows, NEW q, row'[i].kind = q, row'[i].attempts \in Nat, row'[i].attempts <= MaxAttempts - 1,
         \A k \in Runs : run'[k].row = i => run'[k].attempt <= Limit(q)
  PROVE  Within(i)'
<1> DEFINE now == {k \in Runs : i \in run'[k].todo}
<1>1. Cardinality(now) \in Nat /\ Cardinality(now) <= Cardinality(Runs)
  BY SomeRuns
<1>2. Listers(i)' = now
  BY DEF Listers
<1> HIDE DEF now
<1>3. row'[i].attempts + Cardinality(now) <= Limit("report")
  BY <1>1, LimitIs
<1>4. row'[i].attempts < MaxAttempts /\ row'[i].attempts <= Limit(row'[i].kind)
  BY LimitIs
<1> QED
  BY <1>2, <1>3, <1>4 DEF Within, Waits, Limit

\* Rows change and what is in hand stays.
LEMMA HandsWithin ==
  ASSUME DeliveriesInv, LimitsInv, HandsKept,
         \A i \in Rows : /\ row'[i].kind = row[i].kind /\ row'[i].attempts = row[i].attempts
                         /\ Waits(row'[i]) => Waits(row[i]),
         \A i \in Rows, k \in Runs : i \in run'[k].todo => i \in run[k].todo
  PROVE  LimitsInv'
<1> SUFFICES ASSUME NEW i \in Rows PROVE Within(i)'
  BY DEF LimitsInv
<1>1. i # None
  BY DeliveriesAssumption
<1>2. \A k \in Runs : run'[k].row = i => run[k].row = i /\ run'[k].attempt = run[k].attempt
  BY <1>1 DEF HandsKept
<1> QED
  BY <1>2, StillWithin

LEMMA RowStepWithin ==
  ASSUME DeliveriesInv, LimitsInv, NEW i \in Rows, RowStep(i)
  PROVE  LimitsInv'
<1>1. row \in [Rows -> Row] /\ \A j \in Rows : Within(j)
  BY DEF DeliveriesInv, DeliveriesTypeOK, LimitsInv
<1>2. UNCHANGED <<run, owed>>
  BY RowStepIs
<1>3. PICK to \in Row : row' = [row EXCEPT ![i] = to] /\ Turns(i, to)
  BY RowStepIs
<1>4. row'[i] = to /\ \A j \in Rows : j # i => row'[j] = row[j]
  BY <1>1, <1>3
<1>5. \A k \in Runs : run'[k] = run[k]
  BY <1>2
<1>6. \A j \in Rows : j # i => Within(j)'
  BY <1>4, <1>5, StillWithin
<1>7. Within(i)'
  <2>1. CASE to.attempts = row[i].attempts /\ (Waits(to) => Waits(row[i]))
    BY <1>3, <1>4, <1>5, <2>1, StillWithin DEF Turns
  <2>2. CASE to.attempts = 0
    <3>1. row'[i].attempts \in Nat /\ row'[i].attempts <= MaxAttempts - 1 /\ row'[i].kind = row[i].kind
      BY <1>3, <1>4, <2>2, DeliveriesAssumption DEF Turns
    <3>2. \A k \in Runs : run'[k].row = i => run'[k].attempt <= Limit(row[i].kind)
      BY <1>1, <1>5 DEF Within
    <3> QED
      BY <3>1, <3>2, SpareWithin
  <2> QED
    BY <1>3, <2>1, <2>2 DEF Turns, Waits, Open
<1> QED
  BY <1>6, <1>7 DEF LimitsInv

LEMMA SweepWithin ==
  ASSUME DeliveriesInv, LimitsInv, NEW k \in Runs, NEW q \in Kinds, Sweep(k, q)
  PROVE  LimitsInv'
<1>1. row \in [Rows -> Row] /\ run \in [Runs -> Run]
  BY DEF DeliveriesInv, DeliveriesTypeOK
<1>2. ASSUME NEW i \in Rows
      PROVE  /\ row'[i].kind = row[i].kind /\ row'[i].attempts = row[i].attempts
             /\ Waits(row'[i]) => Waits(row[i])
  <2>1. row[i] \in Row
    BY <1>1
  <2>2. CASE ~(row[i].kind = q /\ Overdue(row[i]))
    BY <2>2 DEF Sweep
  <2>3. CASE row[i].kind = q /\ Overdue(row[i])
    <3> DEFINE status == IF q = "sms" THEN "EXPIRED" ELSE "PENDING"
               to == [row[i] EXCEPT !.status = status]
    <3>1. row'[i] = to
      BY <2>3 DEF Sweep
    <3>2. to.kind = row[i].kind /\ to.attempts = row[i].attempts
      BY <2>1 DEF Row
    <3>3. Waits(row[i])
      BY <2>3 DEF Overdue, CodeExpired, LeaseOver, Waits, Open
    <3> QED
      BY <3>1, <3>2, <3>3
  <2> QED
    BY <2>2, <2>3
<1>3. ASSUME NEW l \in Runs
      PROVE  run'[l].row = run[l].row /\ run'[l].handed = run[l].handed /\ run'[l].attempt = run[l].attempt
             /\ run'[l].todo = run[l].todo
  BY <1>1 DEF Sweep, Run
<1>4. HandsKept
  <2>1. \A r \in Run : [r EXCEPT !.task = q] \in Run
    BY DEF Run
  <2>2. run' = [run EXCEPT ![k] = [run[k] EXCEPT !.task = q]] /\ run[k] \in Run
    BY <1>1 DEF Sweep
  <2>3. run' \in [Runs -> Run]
    BY <1>1, <2>1, <2>2
  <2> QED
    BY <1>3, <2>3 DEF HandsKept
<1> QED
  BY <1>2, <1>3, <1>4, HandsWithin

LEMMA ListWithin ==
  ASSUME DeliveriesInv, LimitsInv, NEW k \in Runs, List(k)
  PROVE  LimitsInv'
<1> DEFINE due == {i \in Rows : row[i].kind = run[k].task /\ Due(row[i])}
<1>1. row \in [Rows -> Row] /\ run \in [Runs -> Run] /\ UNCHANGED row
  BY DEF DeliveriesInv, DeliveriesTypeOK, List
<1>2. /\ \A l \in Runs : run'[l].row = run[l].row /\ run'[l].attempt = run[l].attempt
      /\ \A l \in Runs : l # k => run'[l].todo = run[l].todo
      /\ run'[k].todo = due
  BY <1>1 DEF List, Run
<1> SUFFICES ASSUME NEW i \in Rows PROVE Within(i)'
  BY DEF LimitsInv
<1>3. Within(i) /\ row[i] \in Row /\ row[i].attempts \in Nat
  BY <1>1, DeliveryTypes DEF LimitsInv
<1>4. CASE i \in due /\ row[i].kind = "report"
  <2>1. row'[i].attempts <= MaxAttempts - 1
    BY <1>1, <1>3, <1>4, DeliveriesAssumption DEF Due
  <2>2. \A l \in Runs : run'[l].row = i => run'[l].attempt <= Limit(row[i].kind)
    BY <1>2, <1>3 DEF Within
  <2> QED
    BY <1>1, <1>3, <2>1, <2>2, SpareWithin
<1>5. CASE i \notin due
  BY <1>1, <1>2, <1>5, StillWithin
<1>6. CASE row[i].kind # "report"
  BY <1>1, <1>2, <1>3, <1>6 DEF Within, Waits, Limit
<1> QED
  BY <1>4, <1>5, <1>6

\* A run that goes on without a row, or rests.
LEMMA RestWithin ==
  ASSUME DeliveriesInv, LimitsInv, NEW k \in Runs, run' = [run EXCEPT ![k] = Resting], UNCHANGED row
  PROVE  LimitsInv'
<1>1. run \in [Runs -> Run]
  BY DEF DeliveriesInv, DeliveriesTypeOK
<1>2. run'[k] = Resting /\ \A l \in Runs : l # k => run'[l] = run[l]
  BY <1>1
<1>3. Resting.todo = {} /\ Resting.row = None
  BY DEF Resting
<1> SUFFICES ASSUME NEW i \in Rows PROVE Within(i)'
  BY DEF LimitsInv
<1>4. i # None
  BY DeliveriesAssumption
<1>5. \A l \in Runs : /\ i \in run'[l].todo => i \in run[l].todo
                      /\ run'[l].row = i => run[l].row = i /\ run'[l].attempt = run[l].attempt
  BY <1>2, <1>3, <1>4
<1> QED
  BY <1>5, StillWithin

LEMMA WithoutLists ==
  ASSUME DeliveriesInv, NEW k \in Runs, NEW i \in Rows
  PROVE  /\ Without(k, i)[k].todo = run[k].todo \ {i}
         /\ \A l \in Runs : l # k => Without(k, i)[l] = run[l]
BY DEF Without, DeliveriesInv, DeliveriesTypeOK, Run

LEMMA PassWithin ==
  ASSUME DeliveriesInv, LimitsInv, NEW k \in Runs, NEW i \in Rows, Skip(k, i) \/ GiveUp(k, i)
  PROVE  LimitsInv'
<1>1. row \in [Rows -> Row] /\ run[k].row = None
  BY DEF DeliveriesInv, DeliveriesTypeOK, Skip, GiveUp, CanTake
<1>2. CASE run' = [run EXCEPT ![k] = Resting] /\ UNCHANGED row
  BY <1>2, RestWithin
<1>3. CASE run' = Without(k, i)
  <2>1. HandsKept
    BY <1>1, <1>3, WithoutIs DEF HandsKept
  <2>2. ASSUME NEW j \in Rows
        PROVE  /\ row'[j].kind = row[j].kind /\ row'[j].attempts = row[j].attempts
               /\ Waits(row'[j]) => Waits(row[j])
    <3>1. row[j] \in Row
      BY <1>1
    <3>2. CASE row'[j] = row[j]
      BY <3>2
    <3>3. CASE GiveUp(k, i) /\ j = i
      <4>1. row'[i] = [row[i] EXCEPT !.status = GivenUp(row[i])] /\ Waits(row[i])
        BY <1>1, <3>3 DEF GiveUp, StillDue, Waits, Open
      <4> QED
        BY <3>1, <3>3, <4>1 DEF Row
    <3> QED
      BY <1>1, <3>2, <3>3 DEF Skip, GiveUp
  <2>3. \A j \in Rows, l \in Runs : j \in run'[l].todo => j \in run[l].todo
    BY <1>3, WithoutLists
  <2> QED
    BY <2>1, <2>2, <2>3, HandsWithin
<1> QED
  BY <1>2, <1>3 DEF Skip, GiveUp

LEMMA TakeWithin ==
  ASSUME DeliveriesInv, LimitsInv, NEW k \in Runs, NEW i \in Rows, Take(k, i)
  PROVE  LimitsInv'
<1>1. /\ row \in [Rows -> Row] /\ row[i] \in Row /\ row[i].attempts \in Nat /\ Within(i)
      /\ row[i].status = "PENDING" /\ i \in run[k].todo /\ run[k].row = None /\ Waits(row[i])
  BY DeliveryTypes DEF DeliveriesInv, DeliveriesTypeOK, LimitsInv, Take, StillDue, CanTake, Waits, Open
<1>2. row' = [row EXCEPT ![i] = Claimed(row[i])]
  BY <1>1 DEF Take
<1>3. /\ run'[k].row = i /\ run'[k].attempt = row[i].attempts + 1 /\ run'[k].todo = run[k].todo \ {i}
      /\ \A l \in Runs : l # k => run'[l] = run[l]
  <2>1. /\ Without(k, i) \in [Runs -> Run] /\ Without(k, i)[k].todo = run[k].todo \ {i}
        /\ \A l \in Runs : l # k => Without(k, i)[l] = run[l]
    BY WithoutIs, WithoutLists
  <2>2. run' = [Without(k, i) EXCEPT ![k] = [Without(k, i)[k] EXCEPT !.row = i, !.attempt = row[i].attempts + 1]]
    BY <2>1 DEF Take
  <2>3. Without(k, i)[k] \in Run
    BY <2>1
  <2> QED
    BY <2>1, <2>2, <2>3 DEF Run
<1>4. /\ row'[i].kind = row[i].kind
      /\ row[i].kind \in Locked => row'[i] = row[i]
      /\ row[i].kind \in Leased => row'[i].attempts = row[i].attempts + 1
      /\ \A j \in Rows : j # i => row'[j] = row[j]
  BY <1>1, <1>2, DeliveryTypes DEF Claimed, Row
<1>5. ASSUME NEW j \in Rows, j # i
      PROVE  Within(j)'
  <2>1. \A l \in Runs : /\ j \in run'[l].todo => j \in run[l].todo
                        /\ run'[l].row = j => run[l].row = j /\ run'[l].attempt = run[l].attempt
    BY <1>3, <1>5
  <2> QED
    BY <1>4, <1>5, <2>1, StillWithin
<1>6. ASSUME row[i].attempts + 1 <= Limit(row[i].kind)
      PROVE  \A l \in Runs : run'[l].row = i => run'[l].attempt <= Limit(row[i].kind)
  BY <1>1, <1>3, <1>6 DEF Within
<1>7. ASSUME row[i].kind \in Locked
      PROVE  Within(i)'
  <2>1. row[i].kind # "report" /\ row[i].attempts < MaxAttempts
    BY <1>1, <1>7 DEF Within, Locked
  <2>2. row[i].attempts + 1 <= Limit(row[i].kind)
    BY <1>1, <2>1, LimitIs
  <2>3. row'[i].attempts \in Nat /\ row'[i].attempts <= MaxAttempts - 1
    BY <1>1, <1>4, <1>7, <2>1, LimitIs
  <2> QED
    BY <1>4, <1>6, <2>2, <2>3, SpareWithin
<1>8. ASSUME row[i].kind = "analytics"
      PROVE  Within(i)'
  <2>1. row[i].attempts < MaxAttempts
    BY <1>1, <1>8, DeliveriesAssumption DEF Take, GivenUp, EventVerdict, Pushed
  <2>2. row[i].attempts + 1 <= Limit("analytics") /\ row'[i].attempts = row[i].attempts + 1
    BY <1>1, <1>4, <1>8, <2>1, LimitIs DEF Leased
  <2>3. row'[i].kind \notin Locked /\ row'[i].kind # "report"
    BY <1>4, <1>8 DEF Locked
  <2> QED
    BY <1>4, <1>6, <1>8, <2>2, <2>3 DEF Within, Limit
<1>9. ASSUME row[i].kind = "report"
      PROVE  Within(i)'
  <2> DEFINE now == Listers(i) \ {k}
  <2>1. Listers(i)' = now
    BY <1>1, <1>3 DEF Listers
  <2>2. k \in Listers(i) /\ IsFiniteSet(Listers(i)) /\ Cardinality(Listers(i)) \in Nat
    <3>1. Listers(i) \subseteq Runs /\ k \in Listers(i)
      BY <1>1 DEF Listers
    <3> QED
      BY <3>1, SomeRuns
  <2>3. Cardinality(now) = Cardinality(Listers(i)) - 1
    BY <2>2, FS_RemoveElement
  <2>4. Cardinality(now) \in Nat
    <3>1. now \subseteq Runs
      BY DEF Listers
    <3> QED
      BY <3>1, SomeRuns
  <2> HIDE DEF now
  <2>5. row[i].attempts + 1 + Cardinality(now) <= Limit("report")
    BY <1>1, <1>9, <2>2, <2>3, <2>4, LimitIs DEF Within
  <2>6. row'[i].attempts = row[i].attempts + 1 /\ row'[i].kind \notin Locked
    BY <1>4, <1>9 DEF Leased, Locked
  <2>7. row[i].attempts + 1 <= Limit("report")
    BY <1>1, <2>4, <2>5, LimitIs
  <2>8. Cardinality(Listers(i)') = Cardinality(now)
    BY <2>1
  <2> QED
    BY <1>4, <1>6, <1>9, <2>5, <2>6, <2>7, <2>1 DEF Within, Limit
<1> QED
  BY <1>1, <1>5, <1>7, <1>8, <1>9, DeliveryTypes DEF LimitsInv, Leased

LEMMA RecordWithin ==
  ASSUME DeliveriesInv, LimitsInv, NEW k \in Runs, NEW answer \in {"accepted", "refused", "error"}, Record(k, answer)
  PROVE  LimitsInv'
<1>1. PICK i \in Rows : run[k].row = i
  BY DEF Record, DeliveriesInv, DeliveriesTypeOK, Run
<1> DEFINE a == run[k].attempt
           to == Saved(row[i], a, answer, Late(k))
<1>2. /\ row \in [Rows -> Row] /\ run \in [Runs -> Run] /\ row[i] \in Row /\ a \in Nat
      /\ row[i].attempts \in Nat /\ Within(i)
  BY DeliveryTypes DEF DeliveriesInv, DeliveriesTypeOK, Run, LimitsInv
<1>3. /\ row' = IF row[i].status = "GONE" THEN row ELSE [row EXCEPT ![i] = to]
      /\ run' = [run EXCEPT ![k] = [run[k] EXCEPT !.row = None, !.attempt = 0, !.handed = FALSE]]
  <2>1. row' = IF row[i].status = "GONE" THEN row ELSE [row EXCEPT ![i] = to]
    BY <1>1, <1>2 DEF Record
  <2>2. run' = [run EXCEPT ![k] = [run[k] EXCEPT !.row = None, !.attempt = 0, !.handed = FALSE]]
    BY <1>2 DEF Record
  <2> QED
    BY <2>1, <2>2
<1>4. /\ run'[k].row = None /\ run'[k].todo = run[k].todo
      /\ \A l \in Runs : l # k => run'[l] = run[l]
  BY <1>2, <1>3 DEF Run
<1>5. ASSUME NEW j \in Rows
      PROVE  \A l \in Runs : /\ j \in run'[l].todo => j \in run[l].todo
                             /\ run'[l].row = j => run[l].row = j /\ run'[l].attempt = run[l].attempt
  BY <1>4, DeliveriesAssumption
<1>6. \A j \in Rows : j # i => row'[j] = row[j]
  BY <1>2, <1>3
<1>7. \A j \in Rows : j # i => Within(j)'
  BY <1>5, <1>6, StillWithin
<1>8. CASE row[i].status = "GONE"
  BY <1>3, <1>5, <1>7, <1>8, StillWithin DEF LimitsInv
<1>9. CASE row[i].status # "GONE"
  <2>1. row'[i] = to
    BY <1>2, <1>3, <1>9
  <2>2. Late(k) \in BOOLEAN
    BY DEF Late
  <2>3. a <= Limit(row[i].kind)
    BY <1>1, <1>2 DEF Within
  <2>4. to.status = "PENDING" => answer = "error" /\ a < LastAttempt(row[i].kind)
    <3>1. to.status = Outcome(row[i].kind, a, answer)
      BY <1>2 DEF Saved, Row
    <3>2. LastAttempt(row[i].kind) \in Int
      BY DeliveriesAssumption DEF LastAttempt
    <3> QED
      BY <1>2, <3>1, <3>2 DEF Outcome
  <2>5. row[i] \in Row /\ a \in Nat /\ to = Saved(row[i], a, answer, Late(k))
    BY <1>2
  <2> HIDE DEF to, a
  <2>6. /\ to.kind = row[i].kind /\ to.status \in {"PENDING", "SENT", "FAILED"}
        /\ to.attempts = (IF row[i].kind = "push" /\ answer = "refused" THEN row[i].attempts ELSE a)
    BY <2>2, <2>5, SavedIs
  <2>7. \A l \in Runs : run'[l].row = i => run'[l].attempt <= Limit(row[i].kind)
    BY <1>2, <1>5 DEF Within
  <2>8. ASSUME to.status = "PENDING"
        PROVE  Within(i)'
    <3>1. to.attempts = a /\ a <= MaxAttempts - 1
      BY <1>2, <2>4, <2>6, <2>8, DeliveriesAssumption DEF LastAttempt
    <3> QED
      BY <1>2, <2>1, <2>6, <2>7, <3>1, SpareWithin
  <2>9. ASSUME to.status # "PENDING"
        PROVE  Within(i)'
    <3>1. ~Waits(to)
      BY <2>6, <2>9 DEF Waits, Open
    <3>2. to.attempts <= Limit(row[i].kind)
      BY <1>2, <2>3, <2>6 DEF Within
    <3>3. ~Waits(row'[i]) /\ row'[i].attempts <= Limit(row'[i].kind)
      BY <2>1, <2>6, <3>1, <3>2
    <3>4. \A l \in Runs : run'[l].row = i => run'[l].attempt <= Limit(row'[i].kind)
      BY <2>1, <2>6, <2>7
    <3> QED
      BY <3>3, <3>4 DEF Within, Waits, Limit
  <2>10. Within(i)'
    BY <2>8, <2>9
  <2> QED
    BY <1>7, <2>10 DEF LimitsInv
<1> QED
  BY <1>8, <1>9

LEMMA NextWithin ==
  DeliveriesInv /\ LimitsInv /\ [DeliveriesNext]_deliveryVars => LimitsInv'
<1> SUFFICES ASSUME DeliveriesInv, LimitsInv, [DeliveriesNext]_deliveryVars PROVE LimitsInv'
  OBVIOUS
<1>1. ASSUME NEW i \in Rows, RowStep(i) PROVE LimitsInv'
  BY <1>1, RowStepWithin
<1>2. ASSUME NEW k \in Runs, NEW q \in Kinds, Sweep(k, q) PROVE LimitsInv'
  BY <1>2, SweepWithin
<1>3. ASSUME NEW k \in Runs, HandOver(k) PROVE LimitsInv'
  <2>1. run \in [Runs -> Run] /\ run[k] \in Run /\ UNCHANGED row
    BY <1>3 DEF DeliveriesInv, DeliveriesTypeOK, HandOver
  <2>2. run' = [run EXCEPT ![k] = [run[k] EXCEPT !.handed = TRUE]]
    BY <1>3, <2>1 DEF HandOver
  <2>3. \A l \in Runs : run'[l].todo = run[l].todo /\ run'[l].row = run[l].row /\ run'[l].attempt = run[l].attempt
    BY <2>1, <2>2 DEF Run
  <2> QED
    BY <2>1, <2>3, StillWithin DEF LimitsInv
<1>4. ASSUME NEW k \in Runs, End(k) \/ Killed(k) PROVE LimitsInv'
  BY <1>4, RestWithin DEF End, Killed
<1>5. ASSUME NEW k \in Runs, NEW i \in Rows, Working(k, i) PROVE LimitsInv'
  BY <1>5, PassWithin, TakeWithin DEF Working
<1>6. ASSUME NEW k \in Runs, NEW answer \in {"accepted", "refused", "error"}, Record(k, answer) PROVE LimitsInv'
  BY <1>6, RecordWithin
<1>7. CASE UNCHANGED deliveryVars
  BY <1>7, StillWithin DEF deliveryVars, LimitsInv
<1>8. ASSUME NEW i \in Rows,
             \/ Enqueue(i) \/ Aging(i) \/ CodeUsed(i) \/ OrderDeleted(i) \/ Reopen(i)
             \/ \E may \in BOOLEAN : SetUsable(i, may)
      PROVE  RowStep(i)
  BY <1>8 DEF RowStep
<1> QED
  BY <1>1, <1>2, <1>3, <1>4, <1>5, <1>6, <1>7, <1>8, ListWithin DEF DeliveriesNext

-----------------------------------------------------------------------------
\* No attempt is made beyond the retry limit, a report's counted where it is listed; and
\* short of a run that outlived its lease and saves its stale row, every hand-over to a
\* provider counts as an attempt and none follows the row's end, whatever runs overlap
\* or die (tasks.py of the queues).
THEOREM RetriesAlwaysBounded == DeliveriesSpec => RetriesBounded
<1> DEFINE Kept == \A i \in Rows : row[i].status \in Finished =>
                     \/ row'[i].status \in {row[i].status, "GONE"}
                     \/ row'[i].lapsed
                     \/ row[i].kind = "report" /\ row'[i].attempts = 0
<1>1. DeliveriesInv /\ [DeliveriesNext]_deliveryVars => DeliveriesInv' /\ [Kept]_deliveryVars
  BY NextDeliveries DEF StaysFinished
<1>2. LimitsInv => WithinLimit
  BY DEF LimitsInv, Within, WithinLimit
<1> QED
  BY <1>1, <1>2, InitDeliveries, InitLimits, NextWithin, CountedOf, PTL
  DEF DeliveriesSpec, RetriesBounded, FinishedStaysFinished
=============================================================================
