---------------------------- MODULE MCCommands ----------------------------
(* Two workers of the server and two orders at one outlet, the request      *)
(* keys given in the cfg; and the directory of customers with one order.    *)
(* The two share no state, so a behaviour is of the one or of the other.    *)
EXTENDS Commands, Contacts, TLC

Symmetry == Permutations(Workers) \cup Permutations(Orders) \cup Permutations(StaffKeys)

NoContacts == ContactsInit /\ UNCHANGED directory
NoCommand == Init /\ UNCHANGED vars

SomeReceive == NoContacts /\ \E w \in Workers, r \in Requests : Receive(w, r)
SomeLock == NoContacts /\ \E w \in Workers : LockUser(w) \/ LockBranch(w) \/ LockOrder(w)
SomeLook == NoContacts /\ \E w \in Workers : Look(w)
SomeAnswered == NoContacts /\ \E w \in Workers : Answered(w)
SomeTableRefused == NoContacts /\ \E w \in Workers : TableRefused(w)
SomeNotFound == NoContacts /\ \E w \in Workers : NotFound(w)
SomeOpen == NoContacts /\ \E w \in Workers, o \in Orders : Open(w, o)
SomeJoin == NoContacts /\ \E w \in Workers, o \in Orders : Join(w, o)
SomeChange == NoContacts /\ \E w \in Workers : Change(w)
SomeStale == NoContacts /\ \E w \in Workers : Stale(w)
SomeForbidden == NoContacts /\ \E w \in Workers : Forbidden(w)
SomeCancel == NoContacts /\ \E w \in Workers : Cancel(w)
SomeAbort == NoContacts /\ \E w \in Workers : Abort(w)

OrderFiled ==
  NoCommand /\ \E s \in Sales, standing \in {"pending", "open"}, phone \in AnyPhone, name \in AnyName :
    File(s, standing, phone, name)
OrderTouched == NoCommand /\ \E s \in Sales : Touch(s)
CustomerCorrected ==
  NoCommand /\ \E s \in Sales, phone \in AnyPhone, name \in AnyName : CorrectCustomer(s, phone, name)
OrderSettled ==
  NoCommand /\ \E s \in Sales, phone \in AnyPhone, name \in AnyName, tender \in {"khata", "paid"} :
    Settle(s, phone, name, tender)
OrderRefunded == NoCommand /\ \E s \in Sales : Refund(s)
OrderCancelled == NoCommand /\ \E s \in Sales : CancelOrder(s)
OrderDeleted == NoCommand /\ \E s \in Sales : DeleteSale(s)
AccountPaid ==
  NoCommand /\ \E c \in DOMAIN contact, S \in SUBSET Sales \ {{}} :
    \E covers \in [S -> {"all", "khata", "part"}] : Collect(c, covers)
CustomerRenamed ==
  NoCommand /\ \E c \in DOMAIN contact, phone \in AnyPhone, name \in AnyName : EditIdentity(c, phone, name)
DiscountSaved == NoCommand /\ \E c \in DOMAIN contact, discount \in BOOLEAN : SaveDiscount(c, discount)
MemberCreated == NoCommand /\ \E phone \in Phones, discount \in BOOLEAN : CreateMember(phone, discount)
LoggedIn == NoCommand /\ \E phone \in Phones : Login(phone)
WithdrawalBegun == NoCommand /\ \E s \in Sales : CancelBegin(s)
WithdrawalEnded == NoCommand /\ CancelEnd
RideBegun == NoCommand /\ \E s \in Sales : RideBegin(s)
RideSaved == NoCommand /\ RideSave
RideEnded == NoCommand /\ RideEnd
RideFailed == NoCommand /\ RideFail

MCNext ==
  \/ SomeReceive \/ SomeLock \/ SomeLook \/ SomeAnswered \/ SomeTableRefused \/ SomeNotFound
  \/ SomeOpen \/ SomeJoin \/ SomeChange \/ SomeStale \/ SomeForbidden \/ SomeCancel \/ SomeAbort
  \/ OrderFiled \/ OrderTouched \/ CustomerCorrected \/ OrderSettled \/ OrderRefunded
  \/ OrderCancelled \/ OrderDeleted \/ AccountPaid \/ CustomerRenamed \/ DiscountSaved
  \/ MemberCreated \/ LoggedIn \/ WithdrawalBegun \/ WithdrawalEnded
  \/ RideBegun \/ RideSaved \/ RideEnded \/ RideFailed

MCInit == Init /\ ContactsInit

MCSpec == MCInit /\ [][MCNext]_<<vars, directory>>
=============================================================================
