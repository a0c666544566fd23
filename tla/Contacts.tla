------------------------------ MODULE Contacts ------------------------------
(***************************************************************************)
(* The customers an outlet knows.  Nobody files an order with a customer:  *)
(* whenever an order is saved, signals look its phone or name up in the    *)
(* directory, enter it if it is new, link the order to what they found and *)
(* record what the order earned on the loyalty programme.  Managers rename *)
(* customers, give them discounts and take payments on their accounts.     *)
(*                                                                         *)
(* contact      CustomerContact, in the order of ids: phone, name_key (""  *)
(*              when there is a phone), and whether discount_percent is    *)
(*              above zero.  The name shown is left out.                   *)
(* sale[s]      an Order: its standing, customer_phone, customer_name,     *)
(*              khata (credit_amount > 0), what was paid (all or none),    *)
(*              customer_contact (0: none) and its LoyaltyPurchase; and    *)
(*              two ghosts: its account was renamed since it was last      *)
(*              saved, its last save overlapped with another change        *)
(* stray        a request without the outlet's lock, between two of its    *)
(*              steps: a customer's cancellation or a rider's report       *)
(*                                                                         *)
(* Phones and names stand for what contact_phone and contact_name make of  *)
(* them; Mobiles are those normalized_phone accepts.  Commands hold the    *)
(* outlet's lock and are one step, whatever else of the order they change. *)
(***************************************************************************)
EXTENDS Naturals, FiniteSets, SequencesExt

CONSTANTS
  Sales, Phones, Mobiles, Names, NoPhone, NoName,
  MaxContacts

ASSUME ContactsAssumption ==
  /\ Sales \subseteq Nat /\ IsFiniteSet(Sales) /\ 0 \notin Sales
  /\ Mobiles \subseteq Phones /\ NoPhone \notin Phones /\ NoName \notin Names
  /\ MaxContacts \in Nat

VARIABLES contact, sale, stray

directory == <<contact, sale, stray>>

AnyPhone == Phones \cup {NoPhone}
AnyName == Names \cup {NoName}

\* What the directory knows a customer by.
Identity(phone, name) == [phone |-> phone, key |-> IF phone = NoPhone THEN name ELSE NoName]
Nobody0 == Identity(NoPhone, NoName)
Customer(row) == Identity(row.phone, row.name)

NoPurchase == [phone |-> NoPhone, earned |-> FALSE]
NoSale == [standing |-> "none", phone |-> NoPhone, name |-> NoName, khata |-> FALSE, paid |-> "no",
           account |-> 0, purchase |-> NoPurchase, renamed |-> FALSE, raced |-> FALSE]
NoStray == [does |-> "nothing", sale |-> 0, copy |-> NoSale, found |-> 0, raced |-> FALSE]

SaleRow ==
  [standing: {"none", "pending", "open", "cancelled", "deleted"}, phone: AnyPhone, name: AnyName,
   khata: BOOLEAN, paid: {"no", "yes", "refunded"}, account: 0..MaxContacts,
   purchase: [phone: AnyPhone, earned: BOOLEAN], renamed: BOOLEAN, raced: BOOLEAN]

ContactsTypeOK ==
  /\ Len(contact) <= MaxContacts
  /\ Range(contact) \subseteq [phone: AnyPhone, key: AnyName, discount: BOOLEAN]
  /\ sale \in [Sales -> SaleRow]
  /\ stray \in [does: {"nothing", "cancel", "ride", "deliver"}, sale: Sales \cup {0}, copy: SaleRow,
                found: 0..MaxContacts, raced: BOOLEAN]

ContactsInit ==
  contact = <<>> /\ sale = [s \in Sales |-> NoSale] /\ stray = NoStray

-----------------------------------------------------------------------------
(* What saving an order sets off (order_contact, order_purchase).          *)

Entry(book, who) ==
  LET at == {n \in DOMAIN book : book[n].phone = who.phone /\ book[n].key = who.key}
  IN IF at = {} THEN 0 ELSE CHOOSE n \in at : TRUE

Remembered(book, who) ==
  IF who = Nobody0 \/ Entry(book, who) # 0 THEN book
  ELSE Append(book, [phone |-> who.phone, key |-> who.key, discount |-> FALSE])

\* record_purchase: what a settled order counts for, under the phone it has now.
Earned(row) ==
  IF row.phone \notin Mobiles THEN NoPurchase
  ELSE [phone |-> row.phone, earned |-> row.paid = "yes" /\ row.standing # "cancelled"]

\* The row as it is after the signals, when book is what they left.
Filed(book, row) ==
  [row EXCEPT !.account = Entry(book, Customer(row)), !.purchase = Earned(row),
              !.renamed = FALSE, !.raced = FALSE]

\* A rider's report reads the order before it waits for its row.
Overlaps(changed) ==
  IF stray.does = "ride" /\ stray.sale \in changed THEN [stray EXCEPT !.raced = TRUE] ELSE stray

\* The request holds the lock on the order's row.
Free(s) == stray.sale # s \/ stray.does = "ride"

SaveSale(s, row) ==
  /\ Free(s)
  /\ contact' = Remembered(contact, Customer(row))
  /\ Len(contact') <= MaxContacts
  /\ sale' = [sale EXCEPT ![s] = Filed(contact', row)]
  /\ stray' = Overlaps({s})

-----------------------------------------------------------------------------
(* Commands of staff, table guests and website checkouts.                  *)

Made(s) == sale[s].standing \in {"pending", "open", "cancelled"}

Creditable(row) == row.phone # NoPhone /\ row.name # NoName

File(s, standing, phone, name) ==
  /\ sale[s].standing = "none"
  /\ standing = "pending" => phone # NoPhone
  /\ SaveSale(s, [NoSale EXCEPT !.standing = standing, !.phone = phone, !.name = name])

\* Every command saves the order: rounds, removals, corrections of the fulfillment, and
\* accepting a website order.
Touch(s) ==
  /\ sale[s].standing \in {"pending", "open"}
  /\ SaveSale(s, [sale[s] EXCEPT !.standing = "open"])

CorrectCustomer(s, phone, name) ==
  LET row == [sale[s] EXCEPT !.phone = phone, !.name = name] IN
  /\ Made(s)
  /\ row.khata => Creditable(row)
  /\ SaveSale(s, row)

\* The customer may still be entered with the first tender.
Settle(s, phone, name, tender) ==
  LET row == [sale[s] EXCEPT !.phone = phone, !.name = name] IN
  /\ sale[s].standing \in {"pending", "open"} /\ sale[s].paid = "no"
  /\ sale[s].khata => phone = sale[s].phone /\ name = sale[s].name
  /\ \/ /\ tender = "khata" /\ Creditable(row)
        /\ SaveSale(s, [row EXCEPT !.khata = TRUE])
     \/ /\ tender = "paid"
        /\ SaveSale(s, [row EXCEPT !.khata = FALSE, !.paid = "yes"])

Refund(s) ==
  /\ Made(s) /\ sale[s].paid = "yes"
  /\ SaveSale(s, [sale[s] EXCEPT !.paid = "refunded"])

CancelOrder(s) ==
  /\ sale[s].standing \in {"pending", "open"} /\ sale[s].paid # "yes"
  /\ SaveSale(s, [sale[s] EXCEPT !.standing = "cancelled", !.khata = FALSE])

DeleteSale(s) ==
  /\ Made(s) /\ Free(s)
  /\ sale' = [sale EXCEPT ![s] = [NoSale EXCEPT !.standing = "deleted"]]
  /\ UNCHANGED <<contact, stray>>

\* How far a payment on account covers an order.
Covered(row, how) ==
  CASE how = "all" -> [row EXCEPT !.paid = "yes", !.khata = FALSE]
    [] how = "khata" -> [row EXCEPT !.khata = FALSE]
    [] how = "part" -> row

\* One order of a payment on account is saved, with the signals.
PaidUp(covers, s, done) ==
  LET row == Covered(done.sale[s], covers[s])
      book == Remembered(done.book, Customer(row))
  IN [book |-> book, sale |-> [done.sale EXCEPT ![s] = Filed(book, row)]]

\* A payment on account saves one order after the other, the oldest first: a renamed
\* customer's orders leave the account while they are being paid.
Collect(c, covers) ==
  LET Pay(s, done) == PaidUp(covers, s, done)
      after == MapThenFoldSet(Pay, [book |-> contact, sale |-> sale],
                              LAMBDA s : s, Max, DOMAIN covers)
  IN /\ \A s \in DOMAIN covers :
          /\ Free(s)
          /\ sale[s].account = c /\ sale[s].standing \in {"pending", "open"} /\ sale[s].paid = "no"
     /\ contact' = after.book /\ Len(contact') <= MaxContacts
     /\ sale' = after.sale
     /\ stray' = Overlaps(DOMAIN covers)

-----------------------------------------------------------------------------
(* Managers.                                                               *)

Fault_DebtorsForgotten(c) == ~contact[c].discount

\* Whether a customer may be left without a phone.
Droppable(c) == ~contact[c].discount /\ \A s \in Sales : sale[s].account = c => ~sale[s].khata

EditIdentity(c, phone, name) ==
  LET who == Identity(phone, name) IN
  /\ who # Nobody0
  /\ phone = NoPhone => Droppable(c)
  /\ Entry(contact, who) \in {0, c}
  /\ contact' = [contact EXCEPT ![c].phone = who.phone, ![c].key = who.key]
  /\ sale' = [s \in Sales |-> [sale[s] EXCEPT !.renamed = @ \/ (sale[s].account = c /\ contact' # contact)]]
  /\ stray' = [stray EXCEPT !.raced = @ \/ (stray.found = c /\ contact' # contact)]

SaveDiscount(c, discount) ==
  /\ discount => contact[c].phone # NoPhone
  /\ contact' = [contact EXCEPT ![c].discount = discount]
  /\ UNCHANGED <<sale, stray>>

CreateMember(phone, discount) ==
  /\ Entry(contact, Identity(phone, NoName)) = 0
  /\ Len(contact) < MaxContacts
  /\ contact' = Append(contact, [phone |-> phone, key |-> NoName, discount |-> discount])
  /\ UNCHANGED <<sale, stray>>

\* record_login: customers who log in are entered too.
Login(phone) ==
  /\ contact' = Remembered(contact, Identity(phone, NoName))
  /\ Len(contact') <= MaxContacts
  /\ UNCHANGED <<sale, stray>>

-----------------------------------------------------------------------------
(* Without the outlet's lock, a contact is found by its phone or name and  *)
(* locked by its id; it may be renamed in between.                         *)

\* CancelView has locked the order.
CancelBegin(s) ==
  LET row == [sale[s] EXCEPT !.standing = "cancelled"]
      found == Entry(contact, Customer(row))
  IN /\ sale[s].standing = "pending" /\ sale[s].paid = "no"
     /\ IF found = 0 THEN SaveSale(s, row)
        ELSE /\ Free(s) /\ stray = NoStray
             /\ stray' = [does |-> "cancel", sale |-> s, copy |-> row, found |-> found, raced |-> FALSE]
             /\ UNCHANGED <<contact, sale>>

CancelEnd ==
  /\ stray.does = "cancel"
  /\ sale' = [sale EXCEPT ![stray.sale] =
       [stray.copy EXCEPT !.account = stray.found, !.purchase = Earned(stray.copy),
                          !.renamed = FALSE, !.raced = stray.raced]]
  /\ stray' = NoStray
  /\ UNCHANGED contact

\* rider_update_dispatch_status has locked the dispatch, and reads the order.
RideBegin(s) ==
  /\ stray = NoStray /\ Made(s)
  /\ stray' = [NoStray EXCEPT !.does = "ride", !.sale = s, !.copy = [sale[s] EXCEPT !.standing = "open"]]
  /\ UNCHANGED <<contact, sale>>

\* It saves the status alone; the signals see the order as it was read.
RideSave ==
  LET who == Customer(stray.copy) IN
  /\ stray.does = "ride" /\ Made(stray.sale)
  /\ contact' = Remembered(contact, who)
  /\ Len(contact') <= MaxContacts
  /\ stray' = [stray EXCEPT !.does = "deliver", !.found = Entry(contact', who)]
  /\ UNCHANGED sale

RideEnd ==
  LET row == sale[stray.sale] IN
  /\ stray.does = "deliver"
  /\ sale' = [sale EXCEPT ![stray.sale] =
       [row EXCEPT !.standing = "open", !.purchase = Earned(stray.copy),
                   !.account = IF stray.found = stray.copy.account THEN row.account ELSE stray.found,
                   !.renamed = row.renamed /\ stray.raced, !.raced = stray.raced]]
  /\ stray' = NoStray
  /\ UNCHANGED contact

\* The order was deleted.
RideFail ==
  /\ stray.does = "ride" /\ ~Made(stray.sale)
  /\ stray' = NoStray
  /\ UNCHANGED <<contact, sale>>

-----------------------------------------------------------------------------

SaleStep(s) ==
  \/ Touch(s) \/ Refund(s) \/ CancelOrder(s) \/ DeleteSale(s) \/ CancelBegin(s) \/ RideBegin(s)
  \/ \E phone \in AnyPhone, name \in AnyName :
       \/ CorrectCustomer(s, phone, name)
       \/ \E standing \in {"pending", "open"} : File(s, standing, phone, name)
       \/ \E tender \in {"khata", "paid"} : Settle(s, phone, name, tender)

DirectoryStep ==
  \/ \E c \in DOMAIN contact :
       \/ \E S \in SUBSET Sales \ {{}} : \E covers \in [S -> {"all", "khata", "part"}] : Collect(c, covers)
       \/ \E phone \in AnyPhone, name \in AnyName : EditIdentity(c, phone, name)
       \/ \E discount \in BOOLEAN : SaveDiscount(c, discount)
  \/ \E phone \in Phones : Login(phone) \/ \E discount \in BOOLEAN : CreateMember(phone, discount)

ContactsNext ==
  \/ \E s \in Sales : SaleStep(s)
  \/ DirectoryStep
  \/ CancelEnd \/ RideSave \/ RideEnd \/ RideFail

ContactsSpec == ContactsInit /\ [][ContactsNext]_directory

-----------------------------------------------------------------------------
(* Properties.                                                             *)

\* Whoever is in the directory is there once, and an order is in the account of the
\* customer it names and counts on the loyalty programme for what it earned, unless that
\* customer was renamed since the order was saved, or saving it overlapped with a change
\* (order_contact, order_purchase).
OrdersFiled ==
  /\ \A c, d \in DOMAIN contact : c # d => contact[c].phone # contact[d].phone \/ contact[c].key # contact[d].key
  /\ \A s \in Sales : Made(s) /\ ~sale[s].raced =>
       /\ ~sale[s].renamed => sale[s].account = Entry(contact, Customer(sale[s]))
       /\ sale[s].purchase = Earned(sale[s])

\* Who owes money or has a discount can be called, however customers are renamed and
\* orders move from one account to another (edit_customer_identity, record_tenders).
DebtorsReachable ==
  /\ \A c \in DOMAIN contact : contact[c].discount => contact[c].phone # NoPhone
  /\ \A s \in Sales : sale[s].khata /\ ~sale[s].raced =>
       sale[s].account # 0 /\ contact[sale[s].account].phone # NoPhone

\* The directory of customers and the orders say the same of who owes and who earned.
DirectoryTrue == OrdersFiled /\ DebtorsReachable
=============================================================================
