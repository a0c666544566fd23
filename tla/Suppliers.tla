------------------------------ MODULE Suppliers ------------------------------
(***************************************************************************)
(* Suppliers' accounts: bills with what was paid on receipt, payments and  *)
(* their reversals, and the daybook entry each payment keeps.  What the    *)
(* bills bring into the store room is in Stock.  As in Daybook, a request  *)
(* holds the outlet's lock and is one step.                                *)
(*                                                                         *)
(* supplier[s]  Supplier: known, opening_balance, credit_balance           *)
(* bill         PurchaseInvoice, in the order they were entered:           *)
(*              supplier, purchase_date, total_amount, initial_paid_amount,*)
(*              paid_amount; due_amount is total - paid.  Its own method,  *)
(*              which no other record repeats, is left out.                *)
(* payment      SupplierPayment: supplier, amount, method, voided_at and   *)
(*              daybook_entry (a place in entry)                           *)
(* khata[s]     the sum of cr_amount less dr_amount of the supplier's      *)
(*              DaybookAccountEntry vouchers                               *)
(***************************************************************************)
EXTENDS Daybook

CONSTANTS
  Suppliers,
  Small,                  \* bound: the amounts of order payments and manual entries
  Openings,               \* bound: the opening balances entered
  Dates,                  \* bound: purchase dates
  MaxBills,               \* bound
  MaxRows                 \* bound: bills, payments of orders, entries and corrections

ASSUME SuppliersAssumption ==
  /\ Small \subseteq Rupees
  /\ Openings \subseteq Int /\ 0 \in Openings
  /\ Dates \subseteq Nat
  /\ MaxBills \in Nat /\ MaxRows \in Nat

VARIABLES supplier, bill, payment, khata

booksVars == <<dayVars, supplier, bill, payment, khata>>

\* The methods a supplier's payment may have.
PurchaseMethods == {"CASH", "FONEPAY", "BANK_TRANSFER", "CHEQUE"} \cap Methods

SupplierRow == [known: BOOLEAN, opening: Openings, balance: Int]
Invoice == [supplier: Suppliers, date: Dates, total: Rupees, initial: Rupees \cup {0},
         paid: Nat]
Payment == [supplier: Suppliers, amount: Rupees, method: Methods, voided: BOOLEAN,
            entry: Nat \ {0}]

BooksTypeOK ==
  /\ DayTypeOK
  /\ supplier \in [Suppliers -> SupplierRow]
  /\ bill \in Seq(Invoice)
  /\ payment \in Seq(Payment)
  /\ khata \in [Suppliers -> Int]

BooksInit ==
  /\ DayInit
  /\ supplier = [s \in Suppliers |-> [known |-> FALSE, opening |-> 0, balance |-> 0]]
  /\ bill = <<>> /\ payment = <<>>
  /\ khata = [s \in Suppliers |-> 0]

-----------------------------------------------------------------------------
(* reconcile_supplier.                                                     *)

Least(a, b) == IF a < b THEN a ELSE b
AtLeast0(a) == IF a < 0 THEN 0 ELSE a

BillsOf(s, bills) == {b \in DOMAIN bills : bills[b].supplier = s}
Standing(s, payments) == {p \in DOMAIN payments : payments[p].supplier = s /\ ~payments[p].voided}

AmountOf(payments) == [p \in DOMAIN payments |-> payments[p].amount]
PaidLater(s, payments) == SumFunctionOnSet(AmountOf(payments), Standing(s, payments))

\* Ordered by purchase_date, then as entered.
Before(a, b, bills) ==
  \/ bills[a].date < bills[b].date
  \/ bills[a].date = bills[b].date /\ a < b

PaidAtOnce(r) == Least(r.total, r.initial)
Unpaid(r) == r.total - PaidAtOnce(r)
Overpaid(r) == AtLeast0(r.initial - r.total)

UnpaidOf(bills) == [b \in DOMAIN bills |-> Unpaid(bills[b])]
OverpaidOf(bills) == [b \in DOMAIN bills |-> Overpaid(bills[b])]

Fault_OpeningForgotten(s, opening, bills, payments) ==
  AtLeast0(PaidLater(s, payments) + SumFunctionOnSet(OverpaidOf(bills), BillsOf(s, bills)))

\* What payments and overpaid bills leave for bills once the opening balance is paid.
Pool(s, opening, bills, payments) ==
  AtLeast0(PaidLater(s, payments) - opening + SumFunctionOnSet(OverpaidOf(bills), BillsOf(s, bills)))

Fault_NewestFirst(b, pool, bills) ==
  LET later == {a \in BillsOf(bills[b].supplier, bills) : Before(b, a, bills)}
      rest == pool - SumFunctionOnSet(UnpaidOf(bills), later)
  IN Least(AtLeast0(rest), Unpaid(bills[b]))

\* Bill b receives what the bills before it leave of the pool.
Allocated(b, pool, bills) ==
  LET earlier == {a \in BillsOf(bills[b].supplier, bills) : Before(a, b, bills)}
      rest == pool - SumFunctionOnSet(UnpaidOf(bills), earlier)
  IN Least(AtLeast0(rest), Unpaid(bills[b]))

Reconcile(s, row, bills, payments) ==
  LET pool == Pool(s, row.opening, bills, payments)
      charge == [b \in DOMAIN bills |-> bills[b].total - bills[b].initial]
  IN /\ bill' = [b \in DOMAIN bills |->
          IF bills[b].supplier = s
          THEN [bills[b] EXCEPT !.paid = PaidAtOnce(bills[b]) + Allocated(b, pool, bills)]
          ELSE bills[b]]
     /\ supplier' = [supplier EXCEPT ![s] =
          [row EXCEPT !.balance = row.opening + SumFunctionOnSet(charge, BillsOf(s, bills))
                                  - PaidLater(s, payments)]]

-----------------------------------------------------------------------------
(* Requests.                                                               *)

\* supplier_create: a supplier of that name keeps the account it has.
Register(s, opening) ==
  /\ ~supplier[s].known
  /\ supplier' = [supplier EXCEPT ![s] =
                    [known |-> TRUE, opening |-> opening, balance |-> opening]]
  /\ UNCHANGED <<dayVars, bill, payment, khata>>

\* purchase_invoice_create: an unknown supplier is registered, the voucher is for what
\* was due on receipt.
Purchase(s, date, total, initial) ==
  LET row == IF supplier[s].known THEN supplier[s]
             ELSE [known |-> TRUE, opening |-> 0, balance |-> 0]
      new == [supplier |-> s, date |-> date, total |-> total, initial |-> initial,
              paid |-> initial]
  IN /\ khata' = [khata EXCEPT ![s] = @ + AtLeast0(total - initial)]
     /\ Reconcile(s, row, Append(bill, new), payment)
     /\ UNCHANGED <<dayVars, payment>>

\* supplier_mutate, payment: only on the balance the client saw.
Pay(s, amount, method, expected) ==
  LET row == [supplier |-> s, amount |-> amount, method |-> method, voided |-> FALSE,
              entry |-> Len(entry) + 1]
  IN /\ supplier[s].known
     /\ expected = supplier[s].balance
     /\ entry' = Append(entry, NewEntry(amount, method, "SUPPLIER", 0))
     /\ payment' = Append(payment, row)
     /\ khata' = [khata EXCEPT ![s] = @ - amount]
     /\ Reconcile(s, supplier[s], bill, payment')
     /\ UNCHANGED <<taking, correction>>

\* supplier_mutate, void.
VoidPayment(p) ==
  LET s == payment[p].supplier
  IN /\ ~payment[p].voided
     /\ payment' = [payment EXCEPT ![p].voided = TRUE]
     /\ entry' = [entry EXCEPT ![payment[p].entry].voided = TRUE]
     /\ khata' = [khata EXCEPT ![s] = @ + payment[p].amount]
     /\ Reconcile(s, supplier[s], bill, payment')
     /\ UNCHANGED <<taking, correction>>

\* correct_method on an entry reaches the supplier's payment it belongs to.
CorrectBooked(e, expected, new) ==
  /\ CorrectEntry(e, expected, new)
  /\ payment' = [p \in DOMAIN payment |->
       IF payment[p].entry = e THEN [payment[p] EXCEPT !.method = new] ELSE payment[p]]
  /\ UNCHANGED <<supplier, bill, khata>>

Day ==
  /\ \/ \E amount \in Small, method \in TakingMethods, kind \in Kinds, o \in PaidOrders,
           collected \in BOOLEAN : Take(amount, method, kind, o, collected)
     \/ \E o \in PaidOrders : DeleteOrder(o)
     \/ \E amount \in Small, method \in Methods : Write(amount, method)
     \/ \E e \in DOMAIN entry : Void(e)
     \/ \E xs \in SUBSET DOMAIN taking, kind \in Kinds : Import(xs, kind)
     \/ \E x \in DOMAIN taking, expected \in TakingMethods, new \in Methods :
          CorrectTaking(x, expected, new)
  /\ UNCHANGED <<supplier, bill, payment, khata>>

Records == Len(bill) + Len(taking) + Len(entry) + Len(correction)

Step ==
  \/ Day
  \/ \E s \in Suppliers :
       \/ \E opening \in Openings : Register(s, opening)
       \/ \E date \in Dates, total \in Rupees,
             initial \in Rupees \cup {0} :
            Purchase(s, date, total, initial)
       \/ \E amount \in Rupees, method \in PurchaseMethods :
            Pay(s, amount, method, supplier[s].balance)
  \/ \E p \in DOMAIN payment : VoidPayment(p)
  \/ \E e \in DOMAIN entry, expected \in Methods, new \in Methods :
       CorrectBooked(e, expected, new)

\* Bills and the payments of orders, which nothing relates, are bounded apart.
Bounded ==
  /\ Len(bill) <= MaxBills /\ Records <= MaxRows
  /\ bill = <<>> \/ taking = <<>>

BooksNext == Step /\ Bounded'

BooksSpec == BooksInit /\ [][BooksNext]_booksVars

-----------------------------------------------------------------------------
(* What must hold.                                                         *)

Due(s) == SumFunctionOnSet([b \in DOMAIN bill |-> bill[b].total - bill[b].paid], BillsOf(s, bill))

\* The bills show what the account owes: together they are due the balance, but for
\* an opening balance not yet paid, which no bill shows, and nothing while the
\* supplier holds an advance; no bill is due less than nothing or more than its total.
\* The vouchers tell that balance apart from the opening balance and what was paid over
\* a bill's value on receipt, for which there is none.
AccountsAgree ==
  \A s \in Suppliers :
    LET unpaid == SumFunctionOnSet(UnpaidOf(bill), BillsOf(s, bill))
        overpaid == SumFunctionOnSet(OverpaidOf(bill), BillsOf(s, bill))
    IN /\ Due(s) = Least(unpaid, AtLeast0(supplier[s].balance))
       /\ \A b \in BillsOf(s, bill) : bill[b].paid \in PaidAtOnce(bill[b])..bill[b].total
       /\ supplier[s].balance = supplier[s].opening + khata[s] - overpaid

\* An account pays its oldest bills first, by purchase date: a bill entered late with
\* an old date takes over money from newer ones, a reversed payment takes it back from
\* the newest.
OldestPaidFirst ==
  \A a, b \in DOMAIN bill :
    /\ bill[a].supplier = bill[b].supplier
    /\ Before(a, b, bill)
    /\ bill[b].paid > PaidAtOnce(bill[b])
    => bill[a].paid = bill[a].total

\* Each payment to a supplier has its own entry in the daybook, of the same amount and
\* method, reversed exactly when the payment is; and so have the payments of orders that
\* were imported (EntriesFollowPayments).
DaybookAgrees ==
  /\ EntriesFollowPayments
  /\ \A p \in DOMAIN payment :
       LET e == entry[payment[p].entry]
       IN /\ e.source = "SUPPLIER" /\ e.kept
          /\ e.amount = payment[p].amount
          /\ e.method = payment[p].method
          /\ e.voided = payment[p].voided
  /\ \A p, q \in DOMAIN payment : payment[p].entry = payment[q].entry => p = q

\* The supplier's account, its bills and the daybook tell the same story after any order
\* of bills, payments, reversals, imports and corrections, and the corrections of a payment
\* explain its method.
BooksAgree == AccountsAgree /\ DaybookAgrees /\ CorrectionsExplainMethod
=============================================================================
