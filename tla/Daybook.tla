------------------------------- MODULE Daybook -------------------------------
(***************************************************************************)
(* The outlet's daybook: entries written by hand, entries imported from    *)
(* what orders were paid or refunded, and entries other books keep here.   *)
(* Every request holds the outlet's lock from its first read to its        *)
(* commit, so each is one step; clients act on lists they loaded earlier.  *)
(* A request repeated under its Idempotency-Key finds the answer saved     *)
(* with it and changes nothing, so keys are left out: Commands has them.   *)
(*                                                                         *)
(* taking       PaymentTransaction, in the order they were made: amount,   *)
(*              payment_method (and the one it was made with: first), kind *)
(*              (SALE is SUCCESS, REFUND is REFUNDED), order, whether it   *)
(*              is part of a customer's account collection, and whether it *)
(*              is kept (deleted with its order otherwise)                 *)
(* entry        DaybookEntry, in the order they were made: amount,         *)
(*              payment_method, source, payment (a place in taking, 0 is   *)
(*              none), voided_at, and kept                                 *)
(* correction   PaymentMethodCorrection: what was corrected, the previous  *)
(*              method and the new one                                     *)
(***************************************************************************)
EXTENDS Integers, SequencesExt

CONSTANTS
  Methods,        \* the serializer's METHODS without CREDIT
  Foreign,        \* methods payments have but the daybook does not list
  PaidOrders,
  Rupees         \* bound: the amounts of takings and entries

ASSUME DaybookAssumption ==
  /\ {"CASH", "OTHER"} \subseteq Methods
  /\ Foreign \cap (Methods \cup {"CREDIT"}) = {} /\ "CREDIT" \notin Methods
  /\ Rupees \subseteq Nat \ {0}

VARIABLES taking, entry, correction

dayVars == <<taking, entry, correction>>

TakingMethods == Methods \cup Foreign \cup {"CREDIT"}
Kinds == {"SALE", "REFUND"}
Sources == Kinds \cup {"MANUAL", "SUPPLIER"}

Taking == [amount: Rupees, method: TakingMethods, first: TakingMethods, kind: Kinds,
           order: PaidOrders, collected: BOOLEAN, kept: BOOLEAN]
Entry == [amount: Rupees, method: Methods, source: Sources, taking: Nat,
          voided: BOOLEAN, kept: BOOLEAN]
Correction == [kind: {"payment", "daybook"}, target: Nat \ {0},
               from: TakingMethods, to: TakingMethods]

DayTypeOK ==
  /\ taking \in Seq(Taking)
  /\ entry \in Seq(Entry)
  /\ correction \in Seq(Correction)

DayInit == taking = <<>> /\ entry = <<>> /\ correction = <<>>

-----------------------------------------------------------------------------
(* Payments and their orders.                                              *)

\* An order is paid or refunded: Settlement and Legacy say when.  A payment on account
\* commits its entry with it; here that entry is an Import of its own, the next step or
\* a later one.
Take(amount, method, kind, o, collected) ==
  /\ \A x \in DOMAIN taking : taking[x].order = o => taking[x].kept
  /\ collected => kind = "SALE" /\ method \in Methods
  /\ taking' = Append(taking, [amount |-> amount, method |-> method, first |-> method,
                               kind |-> kind, order |-> o, collected |-> collected,
                               kept |-> TRUE])
  /\ UNCHANGED <<entry, correction>>

\* delete_order: its payments go, and with them their entries.
DeleteOrder(o) ==
  /\ \E x \in DOMAIN taking : taking[x].order = o /\ taking[x].kept
  /\ taking' = [x \in DOMAIN taking |->
       IF taking[x].order = o THEN [taking[x] EXCEPT !.kept = FALSE] ELSE taking[x]]
  /\ entry' = [e \in DOMAIN entry |->
       IF entry[e].taking # 0 /\ taking[entry[e].taking].order = o
       THEN [entry[e] EXCEPT !.kept = FALSE] ELSE entry[e]]
  /\ UNCHANGED correction

-----------------------------------------------------------------------------
(* Entries.                                                                *)

NewEntry(amount, method, source, x) ==
  [amount |-> amount, method |-> method, source |-> source, taking |-> x,
   voided |-> FALSE, kept |-> TRUE]

Write(amount, method) ==
  /\ entry' = Append(entry, NewEntry(amount, method, "MANUAL", 0))
  /\ UNCHANGED <<taking, correction>>

\* An entry of a supplier's payment is reversed at the supplier, one of a customer's
\* collection by a refund.  Reversing twice keeps the first reversal.
Void(e) ==
  /\ e \in DOMAIN entry /\ entry[e].kept
  /\ entry[e].source # "SUPPLIER"
  /\ entry[e].taking # 0 => ~taking[entry[e].taking].collected
  /\ entry' = [entry EXCEPT ![e].voided = TRUE]
  /\ UNCHANGED <<taking, correction>>

Importable(x, kind) ==
  taking[x].kept /\ taking[x].kind = kind /\ taking[x].method # "CREDIT"

Imported(x) == \E e \in DOMAIN entry : entry[e].taking = x /\ entry[e].kept

\* The daybook lists fewer methods than payments have.
Listed(method) == IF method \in Methods THEN method ELSE "OTHER"

\* xs were picked from a list loaded earlier; those imported since are passed over.
Import(xs, kind) ==
  LET new == {x \in xs : ~Imported(x)}
      places == SetToSeq(new)
      row(x) == NewEntry(taking[x].amount, Listed(taking[x].method), kind, x)
  IN /\ xs # {}
     /\ \A x \in xs : Importable(x, kind)
     /\ entry' = entry \o [i \in DOMAIN places |-> row(places[i])]
     /\ UNCHANGED <<taking, correction>>

-----------------------------------------------------------------------------
(* correct_method: the method of something recorded was wrong.             *)

\* `expected' is the method the client saw.  What already has the new method is
\* left alone, and nothing is logged.
Correctable(old, expected, new) ==
  /\ old # "CREDIT"
  /\ old = expected /\ old # new

Log(kind, target, old, new) ==
  correction' = Append(correction, [kind |-> kind, target |-> target, from |-> old, to |-> new])

\* A payment and the entry imported from it, voided or not.
SetTakingMethod(x, new) ==
  /\ taking' = [taking EXCEPT ![x].method = new]
  /\ entry' = [e \in DOMAIN entry |->
       IF entry[e].taking = x /\ entry[e].kept THEN [entry[e] EXCEPT !.method = new]
       ELSE entry[e]]

CorrectTaking(x, expected, new) ==
  /\ x \in DOMAIN taking /\ taking[x].kept
  /\ Correctable(taking[x].method, expected, new)
  /\ SetTakingMethod(x, new)
  /\ Log("payment", x, taking[x].method, new)

CorrectEntry(e, expected, new) ==
  /\ e \in DOMAIN entry /\ entry[e].kept /\ ~entry[e].voided
  /\ Correctable(entry[e].method, expected, new)
  /\ IF entry[e].taking # 0
     THEN SetTakingMethod(entry[e].taking, new)
     ELSE /\ entry' = [entry EXCEPT ![e].method = new]
          /\ UNCHANGED taking
  /\ Log("daybook", e, entry[e].method, new)

-----------------------------------------------------------------------------
(* What must hold.                                                         *)

\* Whatever is imported, corrected, voided or deleted, in whatever order and from
\* whatever list: no payment has two entries, no entry has a payment that is gone, and
\* an entry says of its payment the amount and the method the payment has.
EntriesFollowPayments ==
  \A e \in DOMAIN entry : entry[e].kept /\ entry[e].taking # 0 =>
    LET x == entry[e].taking
    IN /\ taking[x].kept
       /\ entry[e].amount = taking[x].amount
       /\ entry[e].method = Listed(taking[x].method)
       /\ entry[e].source = taking[x].kind
       /\ \A f \in DOMAIN entry : entry[f].kept /\ entry[f].taking = x => f = e

\* The places in `correction' that tell of payment x: corrected itself, or through
\* the entry imported from it.
About(x) ==
  {i \in DOMAIN correction :
     \/ correction[i].kind = "payment" /\ correction[i].target = x
     \/ correction[i].kind = "daybook" /\ entry[correction[i].target].taking = x}

Latest(places) == CHOOSE j \in places : \A k \in places : k <= j

\* The method of payment x before the correction in place i.
MethodBefore(x, i) ==
  LET earlier == {j \in About(x) : j < i}
  IN IF earlier = {} THEN taking[x].first ELSE correction[Latest(earlier)].to

\* The audit trail is complete: the corrections of a payment, made at the payment or
\* in the daybook, lead step by step from the method it was made with to the one it
\* has.  The daybook's name for a method it does not list is OTHER.
CorrectionsExplainMethod ==
  \A x \in DOMAIN taking :
    /\ \A i \in About(x) : correction[i].from \in {MethodBefore(x, i), Listed(MethodBefore(x, i))}
    /\ taking[x].method = MethodBefore(x, Len(correction) + 1)
=============================================================================
