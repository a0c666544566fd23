------------------------------ MODULE MCCarts ------------------------------
(* A customer's cart with its checkouts, and the customer's address book.   *)
(* The two share no state, so a behaviour is of the one or of the other.    *)
EXTENDS Carts, Addresses, TLC

Symmetry == Permutations(Lines) \cup Permutations(Devices) \cup Permutations(Keys)
            \cup Permutations(Requests) \cup Permutations(Places)

NoBook == AddressesInit /\ UNCHANGED book
NoCart == Init /\ UNCHANGED vars

CartFetch == NoBook /\ \E d \in Devices : Fetch(d)
CartMerge == NoBook /\ \E d \in Devices, answered \in BOOLEAN : Merge(d, answered)
CartSave ==
  NoBook /\ \E d \in Devices, answered \in BOOLEAN, items \in Items : Save(d, items, answered)
CartCompose == NoBook /\ \E d \in Devices, k \in Keys : Compose(k, d)
CartArrive == NoBook /\ \E q \in Requests, k \in Keys : Arrive(q, k)
CartLockOutlet == NoBook /\ \E q \in Requests : LockOutlet(q)
CartCommit == NoBook /\ \E q \in Requests : Commit(q)
CartFail == NoBook /\ \E q \in Requests : Fail(q)
CartDeleteOrder == NoBook /\ \E k \in Keys : DeleteOrder(k)

BookAdd == NoCart /\ \E place \in Places, wish \in Wish : AddAddress(place, wish)
BookEdit ==
  NoCart /\ \E n \in DOMAIN address, place \in Places, wish \in Wish : EditAddress(n, place, wish)
BookDelete == NoCart /\ \E n \in DOMAIN address : DeleteAddress(n)

MCNext ==
  \/ CartFetch \/ CartMerge \/ CartSave \/ CartCompose \/ CartArrive \/ CartLockOutlet
  \/ CartCommit \/ CartFail \/ CartDeleteOrder
  \/ BookAdd \/ BookEdit \/ BookDelete

MCInit == Init /\ AddressesInit

MCSpec == MCInit /\ [][MCNext]_<<vars, book>>

\* What is sent again is not done again: checkouts and merged carts (OrderedOnce), and
\* the creation of an address (AddedOnce).
DoneOnce == OrderedOnce /\ AddedOnce
=============================================================================
