----------------------------- MODULE FiscalBook -----------------------------
(***************************************************************************)
(* What the counter settlement promises the tax office and the guest: a    *)
(* book of invoices in which each order stands at most once, each number   *)
(* names one order for as long as it stands, no entry is moved to another  *)
(* number or order, and the counter charges an order exactly when it       *)
(* enters it, once, whatever requests are repeated.  An entry and the      *)
(* charges of its order leave only together, with the order, and numbers   *)
(* follow one another until the first order is withdrawn.                  *)
(*                                                                         *)
(* book       the invoiced orders, by invoice number                       *)
(* charges    the successful payments: which order each paid, the          *)
(*            idempotency key it came with, and whether the counter took   *)
(*            it or it was paid on account, which enters nothing           *)
(* withdrawn  the orders that were ever withdrawn                          *)
(***************************************************************************)
EXTENDS Naturals

CONSTANTS Orders, Keys, NoKey

VARIABLES book, charges, withdrawn

vars == <<book, charges, withdrawn>>

Init == book = <<>> /\ charges = {} /\ withdrawn = {}

Entered(o) == \E n \in DOMAIN book : book[n] = o
Charged(o) == \E c \in charges : c.order = o /\ c.by = "COUNTER"
KeyUsed(k) == k # NoKey /\ \E c \in charges : c.key = k

\* The book with order o under number n, a number that is free and, as long as nothing
\* was withdrawn, the next.
EntersAs(o, n) ==
  /\ n \notin DOMAIN book
  /\ withdrawn = {} => DOMAIN book' = 1..n
  /\ book' = [m \in DOMAIN book \cup {n} |-> IF m = n THEN o ELSE book[m]]

\* Charge an order that is not charged, under a key no order is charged with, and
\* enter it.
Issue(o, k) ==
  /\ ~Charged(o) /\ ~Entered(o) /\ ~KeyUsed(k)
  /\ charges' = charges \cup {[order |-> o, key |-> k, by |-> "COUNTER"]}
  /\ \E n \in DOMAIN book' : EntersAs(o, n)
  /\ UNCHANGED withdrawn

\* Take money on a customer's account for an order.
PayOnAccount(o) ==
  /\ charges' = charges \cup {[order |-> o, key |-> NoKey, by |-> "ACCOUNT"]}
  /\ UNCHANGED <<book, withdrawn>>

\* Take an order out of the book and of the charges.
Withdraw(o) ==
  /\ charges' = {c \in charges : c.order # o}
  /\ book' = [n \in {m \in DOMAIN book : book[m] # o} |-> book[n]]
  /\ withdrawn' = withdrawn \cup {o}

Next == \E o \in Orders : \/ PayOnAccount(o) \/ Withdraw(o)
                          \/ \E k \in Keys \cup {NoKey} : Issue(o, k)

Spec == Init /\ [][Next]_vars
=============================================================================
