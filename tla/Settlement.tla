----------------------------- MODULE Settlement -----------------------------
(***************************************************************************)
(* The money of staff-managed orders: totals, cash rounding, discounts,    *)
(* tenders, khata (credit), refunds, collections against a customer's      *)
(* account, and the corrections allowed afterwards.  As in PosOrders every *)
(* command is one transaction under the outlet's lock; what the kitchen    *)
(* and the tables do is left to that module, so an order here is PENDING   *)
(* (a website order nobody accepted yet), OPEN (accepted, whatever the     *)
(* kitchen made of it), CANCELLED or DELETED.  Tips are zero.              *)
(*                                                                         *)
(* Amounts are integers in the smallest unit; UnitsPerRupee is 100 in the  *)
(* code.  bill[o] is the Order row with, beside its own amounts, the sums  *)
(* of its ledger rows:                                                     *)
(*   received, collected   SUCCESS PaymentTransactions, and those of them  *)
(*                         that belong to a CustomerCollection             *)
(*   returned              REFUNDED PaymentTransactions                    *)
(*   khata                 the signed sum of its PosCreditEntries          *)
(*   paidBy                the methods among its SUCCESS payments          *)
(* collections is the sum of the customer's CustomerCollection amounts and *)
(* allocated[o] what their snapshots say reached order o: both outlive the *)
(* order.                                                                  *)
(***************************************************************************)
EXTENDS Integers, FiniteSets, Functions

CONSTANTS
  MaxOrders,       \* bound: orders opened
  MaxSubtotal,     \* bound: price of what all orders hold together
  Methods,         \* payment methods money is collected with
  UnitsPerRupee,   \* 100 in the code
  ServicePercent,  \* pricing_policy service_rate
  Rewards          \* loyalty discounts an order may be offered; 0: none

ASSUME MoneyAssumption ==
  /\ MaxOrders \in Nat \ {0} /\ MaxSubtotal \in Nat /\ UnitsPerRupee \in Nat \ {0}
  /\ ServicePercent \in Nat /\ Rewards \subseteq Nat
ASSUME MethodAssumption == {"CASH", "FONEPAY"} \subseteq Methods /\ {"CREDIT", "SPLIT"} \cap Methods = {}

VARIABLES bill, collections, allocated

account == <<collections, allocated>>
vars == <<bill, account>>

Orders == 1..MaxOrders
Amounts == 0..MaxSubtotal
OrderMethods == Methods \cup {"CREDIT", "SPLIT"}

BillRow ==
  [status: {"NONE", "PENDING", "OPEN", "CANCELLED", "DELETED"}, web: BOOLEAN,
   named: BOOLEAN, subtotal: Nat, manual: Nat, discount: Nat, total: Nat,
   method: OrderMethods, billed: BOOLEAN, payment: {"UNPAID", "PAID", "REFUNDED"},
   paid: Nat, credit: Nat, refunded: Nat,
   received: Nat, collected: Nat, returned: Nat, khata: Int, paidBy: SUBSET Methods]

NoBill ==
  [status |-> "NONE", web |-> FALSE, named |-> FALSE, subtotal |-> 0, manual |-> 0,
   discount |-> 0, total |-> 0, method |-> "CASH", billed |-> FALSE,
   payment |-> "UNPAID", paid |-> 0, credit |-> 0, refunded |-> 0,
   received |-> 0, collected |-> 0, returned |-> 0, khata |-> 0, paidBy |-> {}]

TypeOK ==
  /\ bill \in [Orders -> BillRow]
  /\ collections \in Nat /\ allocated \in [Orders -> Nat]

Init ==
  /\ bill = [o \in Orders |-> NoBill]
  /\ collections = 0 /\ allocated = [o \in Orders |-> 0]

-----------------------------------------------------------------------------
(* Totals.                                                                 *)

AtLeast(a, b) == IF a >= b THEN a ELSE b
AtMost(a, b) == IF a <= b THEN a ELSE b

\* The price with service charge (rounded half up), before cash rounding.
Net(subtotal, discount) ==
  LET n == subtotal - discount IN n + (n * ServicePercent + 50) \div 100

\* totals(): an order billed in cash is rounded down to whole rupees.
Total(subtotal, discount, method) ==
  LET n == Net(subtotal, discount)
  IN IF method = "CASH" THEN n - (n % UnitsPerRupee) ELSE n

\* The condition under which order_totals keeps the discount as it is.
Frozen(r) == r.billed \/ r.paid > 0 \/ r.credit > 0 \/ r.web

Fault_PaidByAnyTender(paid, total) == IF paid > 0 THEN "PAID" ELSE "UNPAID"

PaymentStatus(paid, total) == IF paid >= total THEN "PAID" ELSE "UNPAID"

\* order_totals: the larger of the staff's discount and the customer's reward, while
\* the order is not frozen.
Fault_DiscountRecomputed(r, manual, reward) == AtLeast(manual, reward)

DiscountOf(r, manual, reward) ==
  IF Frozen(r) THEN r.discount ELSE AtLeast(manual, reward)

\* apply_totals with a manual discount; totals() rejects one above the subtotal.
Priceable(r, manual, reward) == DiscountOf(r, manual, reward) \in 0..r.subtotal

Retotalled(r, manual, reward) ==
  LET d == DiscountOf(r, manual, reward)
      total == Total(r.subtotal, d, r.method)
  IN [r EXCEPT !.discount = d, !.manual = IF Frozen(r) THEN @ ELSE manual,
               !.total = total, !.payment = PaymentStatus(r.paid, total)]

-----------------------------------------------------------------------------
(* record_tenders.                                                         *)

\* The order's payment_method after its payments changed.
MethodOf(by, credit, old) ==
  LET methods == by \cup (IF credit > 0 THEN {"CREDIT"} ELSE {})
  IN IF methods = {} THEN old
     ELSE IF \E m \in methods : methods = {m} THEN CHOOSE m \in methods : TRUE
     ELSE "SPLIT"

\* `cash' is collected now and `credit' put on khata, which needs a known customer.
Fault_TenderIgnoresKhata(r, cash, credit) ==
  /\ cash + credit > 0
  /\ r.paid + cash + credit <= r.total
  /\ credit > 0 => r.named

TenderAllowed(r, cash, credit) ==
  /\ cash + credit > 0
  /\ r.paid + cash + credit <= r.total
  /\ credit > 0 => r.paid + r.credit + cash + credit <= r.total /\ r.named

\* Money collected clears khata of the same order first.
Tendered(r, cash, credit, used) ==
  LET cleared == AtMost(cash, r.credit)
  IN [r EXCEPT !.paid = @ + cash, !.credit = @ + credit - cleared, !.billed = TRUE,
               !.payment = PaymentStatus(r.paid + cash, r.total),
               !.method = MethodOf(r.paidBy \cup used, r.credit + credit - cleared, @),
               !.received = @ + cash, !.khata = @ + credit - cleared,
               !.paidBy = @ \cup used]

\* What the tenders of one request may amount to on this row.
TenderOutcomes(r) ==
  {Tendered(r, a[1], a[2], a[3]) :
     a \in {x \in (0..r.total) \X (0..r.total) \X SUBSET Methods :
              /\ TenderAllowed(r, x[1], x[2])
              /\ x[3] = {} <=> x[1] = 0
              /\ Cardinality(x[3]) <= x[1]}}

-----------------------------------------------------------------------------
(* Orders.                                                                 *)

Save(o, r) == bill' = [bill EXCEPT ![o] = r] /\ UNCHANGED account

\* The bound: what the orders other than o hold leaves this much for it.
RoomFor(o) == MaxSubtotal - SumFunctionOnSet([p \in Orders |-> bill[p].subtotal], Orders \ {o})

IsNew(o) == bill[o].status = "NONE" /\ \A p \in Orders : p < o => bill[p].status # "NONE"

\* mutate(action='create') by staff and checkout() by guests, who cannot discount or pay.
Create(o, subtotal, manual, reward, method, named) ==
  /\ IsNew(o) /\ subtotal <= RoomFor(o)
  /\ AtLeast(manual, reward) <= subtotal
  /\ LET r == [NoBill EXCEPT !.status = "OPEN", !.named = named, !.subtotal = subtotal,
                             !.manual = manual, !.method = method,
                             !.discount = AtLeast(manual, reward),
                             !.total = Total(subtotal, AtLeast(manual, reward), method)]
     IN \E saved \in {r} \cup TenderOutcomes(r) : Save(o, saved)

\* CheckoutView.post: always FONEPAY and always with a phone number.
WebCheckout(o, subtotal, reward) ==
  /\ IsNew(o) /\ subtotal <= RoomFor(o)
  /\ reward <= subtotal
  /\ Save(o, [NoBill EXCEPT !.status = "PENDING", !.web = TRUE, !.named = TRUE,
                            !.subtotal = subtotal, !.method = "FONEPAY",
                            !.discount = reward,
                            !.total = Total(subtotal, reward, "FONEPAY")])

Accept(o) ==
  /\ bill[o].status = "PENDING"
  /\ Save(o, [bill[o] EXCEPT !.status = "OPEN"])

\* Rounds are added until the order is billed, and never to a website order.
Append(o, price, reward) ==
  /\ bill[o].status = "OPEN" /\ ~Frozen(bill[o])
  /\ bill[o].subtotal + price <= RoomFor(o)
  /\ LET r == [bill[o] EXCEPT !.subtotal = @ + price]
     IN Priceable(r, r.manual, reward) /\ Save(o, Retotalled(r, r.manual, reward))

\* remove_order_item: the same lock, except that a pending website order may shrink.
RemoveItem(o, price, reward) ==
  /\ \/ bill[o].status = "OPEN" /\ ~Frozen(bill[o])
     \/ bill[o].status = "PENDING" /\ ~Frozen([bill[o] EXCEPT !.web = FALSE])
  /\ price < bill[o].subtotal
  /\ LET r == [bill[o] EXCEPT !.subtotal = @ - price]
     IN Priceable(r, r.manual, reward) /\ Save(o, Retotalled(r, r.manual, reward))

\* settle and bill share this prelude: once billed or paid the discount and the
\* customer are fixed, and what is already paid or promised must fit the total.
BillableRow(o, manual, reward, named) ==
  LET r == bill[o]
      frozen == r.billed \/ r.paid > 0 \/ r.credit > 0
  IN IF frozen THEN Retotalled(r, r.manual, reward)
     ELSE Retotalled([r EXCEPT !.named = named], manual, reward)

Billable(o, manual, reward, named) ==
  /\ bill[o].status \in {"PENDING", "OPEN"}
  /\ Priceable(bill[o], manual, reward)
  /\ LET r == BillableRow(o, manual, reward, named) IN r.paid + r.credit <= r.total

Bill(o, manual, reward, named) ==
  /\ ~bill[o].billed
  /\ Billable(o, manual, reward, named)
  /\ Save(o, [BillableRow(o, manual, reward, named) EXCEPT !.billed = TRUE])

Settle(o, manual, reward, named) ==
  /\ Billable(o, manual, reward, named)
  /\ \E saved \in TenderOutcomes(BillableRow(o, manual, reward, named)) : Save(o, saved)

\* mutate(action='refund')
Refund(o, amount) ==
  /\ amount \in 1..(bill[o].paid - bill[o].refunded)
  /\ Save(o, [bill[o] EXCEPT !.refunded = @ + amount, !.returned = @ + amount,
                             !.payment = "REFUNDED"])

\* Staff cancel only what was paid back, and write off the order's khata.
Fault_CancelWithoutEntry(o) ==
  /\ bill[o].status \in {"PENDING", "OPEN"}
  /\ bill[o].paid <= bill[o].refunded
  /\ Save(o, [bill[o] EXCEPT !.status = "CANCELLED", !.credit = 0])

Cancel(o) ==
  /\ bill[o].status \in {"PENDING", "OPEN"}
  /\ bill[o].paid <= bill[o].refunded
  /\ Save(o, [bill[o] EXCEPT !.status = "CANCELLED", !.credit = 0, !.khata = @ - bill[o].credit])

\* CancelView.post
Withdrawable(r) == r.web /\ r.status = "PENDING" /\ r.paid = 0

CustomerCancel(o) ==
  /\ Withdrawable(bill[o])
  /\ Save(o, [bill[o] EXCEPT !.status = "CANCELLED"])

\* mutate(action='customer'): correct the customer, billed or not, and reprice.
NameAllowed(r, named) == r.credit > 0 => named

CorrectCustomer(o, named, reward) ==
  /\ bill[o].status \notin {"NONE", "DELETED"}
  /\ NameAllowed(bill[o], named)
  /\ LET r == [bill[o] EXCEPT !.named = named]
     IN IF r.status = "CANCELLED" THEN Save(o, r)
        ELSE Priceable(r, r.manual, reward) /\ Save(o, Retotalled(r, r.manual, reward))

\* correct_method: one payment was made with another method; `left' holds if another
\* payment by the old method remains.  A refund's method is not the order's.
CorrectMethod(o, old, new, left) ==
  /\ old # new
  /\ \/ /\ old \in bill[o].paidBy
        /\ LET by == (IF left THEN bill[o].paidBy ELSE bill[o].paidBy \ {old}) \cup {new}
           IN Save(o, [bill[o] EXCEPT !.paidBy = by, !.method = MethodOf(by, bill[o].credit, @)])
     \/ /\ bill[o].returned > 0
        /\ Save(o, [bill[o] EXCEPT !.method = MethodOf(bill[o].paidBy, bill[o].credit, @)])

\* delete_order, whatever was paid or is owed: payments, refunds, credit entries and
\* the row itself go, the customer's collections and their snapshots stay.
Gone == [NoBill EXCEPT !.status = "DELETED"]

Delete(o) ==
  /\ bill[o].status \notin {"NONE", "DELETED"}
  /\ Save(o, Gone)

-----------------------------------------------------------------------------
(* receive_customer_payment: one payment against everything the customer   *)
(* owes, or only against khata, oldest order first.                        *)

Due(o) == IF bill[o].status \in {"PENDING", "OPEN"} /\ bill[o].named
          THEN AtLeast(bill[o].total - bill[o].paid, 0) ELSE 0

Limit(o, scope) == IF scope = "CREDIT" THEN AtMost(bill[o].credit, Due(o)) ELSE Due(o)

Available(orders, scope) == SumFunctionOnSet([o \in Orders |-> Limit(o, scope)], orders)

\* The part of `amount' that reaches order o.
Applied(o, amount, scope) ==
  AtMost(Limit(o, scope), AtLeast(amount - Available({p \in Orders : p < o}, scope), 0))

Collect(amount, scope, method) ==
  /\ amount \in 1..Available(Orders, scope)
  /\ bill' = [o \in Orders |->
       LET applied == Applied(o, amount, scope)
       IN IF applied = 0 THEN bill[o]
          ELSE [Tendered(bill[o], applied, 0, {method}) EXCEPT !.collected = @ + applied]]
  /\ collections' = collections + amount
  /\ allocated' = [o \in Orders |-> allocated[o] + Applied(o, amount, scope)]

-----------------------------------------------------------------------------
Next ==
  \/ \E o \in Orders, reward \in Rewards :
       \/ \E subtotal \in Amounts \ {0}, manual \in Amounts, method \in Methods, named \in BOOLEAN :
            Create(o, subtotal, manual, reward, method, named)
       \/ \E subtotal \in Amounts \ {0} : WebCheckout(o, subtotal, reward)
       \/ \E price \in Amounts \ {0} : Append(o, price, reward) \/ RemoveItem(o, price, reward)
       \/ \E manual \in Amounts, named \in BOOLEAN :
            Bill(o, manual, reward, named) \/ Settle(o, manual, reward, named)
       \/ \E named \in BOOLEAN : CorrectCustomer(o, named, reward)
  \/ \E o \in Orders :
       \/ Accept(o) \/ Cancel(o) \/ CustomerCancel(o) \/ Delete(o)
       \/ \E amount \in 1..bill[o].total : Refund(o, amount)
       \/ \E old, new \in Methods, left \in BOOLEAN : CorrectMethod(o, old, new, left)
  \/ \E scope \in {"DUE", "CREDIT"}, method \in Methods :
       \E amount \in 1..Available(Orders, scope) : Collect(amount, scope, method)

Spec == Init /\ [][Next]_vars

-----------------------------------------------------------------------------
(* What must hold.                                                         *)

\* The amounts on the order are the sums of its ledger: what it says was paid,
\* refunded and owed on khata is backed by payments and credit entries, through
\* split tenders, collections, refunds and cancellations.  What was received against the
\* customer's account is accounted for, order by order, to the last unit; it is among
\* the payments of every order that stands, and only of a deleted order is the
\* account's record all that is left.
LedgerAgrees ==
  /\ \A o \in Orders :
       /\ bill[o].paid = bill[o].received
       /\ bill[o].refunded = bill[o].returned
       /\ bill[o].credit = bill[o].khata
  /\ collections = SumFunction(allocated)
  /\ \A o \in Orders : bill[o].status # "DELETED" => bill[o].collected = allocated[o]

\* No sequence of tenders, collections and corrections takes, or promises to take,
\* more than the order's price before cash rounding, or returns more than was paid.
NeverOverCollected ==
  \A o \in Orders :
    /\ bill[o].paid + bill[o].credit <= Net(bill[o].subtotal, bill[o].discount)
    /\ bill[o].refunded <= bill[o].paid

\* What an order says of its standing is justified by its money, whatever was corrected
\* since: "A bill alone never marks an order paid", nor does khata or the kitchen (PAID
\* means that payments cover the total as it stands now); khata always has a debtor;
\* no money stays behind on a cancelled order, whoever cancelled it.
PaidMeansCovered(r) == r.payment = "PAID" => r.received >= r.total
CreditHasDebtor(r) == r.credit > 0 => r.named
CancelledHoldsNothing(r) == r.status = "CANCELLED" => r.paid = r.refunded

StandingJustified ==
  \A o \in Orders :
    PaidMeansCovered(bill[o]) /\ CreditHasDebtor(bill[o]) /\ CancelledHoldsNothing(bill[o])

\* Once billed, paid or on khata, what the order charges for and its discount stay,
\* and its total moves by less than a rupee (the cash rounding), whatever is
\* corrected later, until it is deleted.
Charged(r) == r.billed \/ r.paid > 0 \/ r.credit > 0

BillFrozen ==
  [][\A o \in Orders :
       Charged(bill[o]) /\ bill'[o].status # "DELETED" =>
         /\ bill'[o].subtotal = bill[o].subtotal
         /\ bill'[o].discount = bill[o].discount
         /\ bill'[o].total - bill[o].total \in (1 - UnitsPerRupee)..(UnitsPerRupee - 1)]_vars
=============================================================================
