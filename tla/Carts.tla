------------------------------- MODULE Carts -------------------------------
(***************************************************************************)
(* A customer's cart at one outlet, shared by the customer's devices, and  *)
(* the checkouts that consume it.  Devices save the cart whole, against    *)
(* the version they hold; the cart a device filled before it logged in is  *)
(* attached once; a checkout is sent again under its key until it is       *)
(* answered, and so may be handled by several requests at once.            *)
(*                                                                         *)
(* cart         the account's cart: the quantity of each line, 0 of one    *)
(*              that is not there                                          *)
(* device[d]    the cart as the device last had it from the server, and    *)
(*              what it holds from before it logged in                     *)
(* attached[d]  how often the device's own cart was taken over             *)
(* checkout[k]  what was sent under key k: who pays, and for which lines   *)
(* link[k]      CustomerOrder: whether k's order exists; DELETED once its  *)
(*              order was deleted for good                                 *)
(* ordered[k]   how many orders were ever made of k                        *)
(* request[q]   a request: the key it serves and the locks it has          *)
(***************************************************************************)
EXTENDS Naturals, FiniteSets

CONSTANTS
  Lines, Devices, Keys, Requests,
  None,
  MaxQuantity,       \* bound: units of a line (100 in the code)
  MaxVersion         \* bound: changes of the cart

ASSUME CartsAssumption ==
  None \notin Keys /\ MaxQuantity \in Nat /\ MaxVersion \in Nat

VARIABLES cart, device, attached, checkout, link, ordered, request

devices == <<device, attached>>
orders == <<checkout, link, ordered, request>>
vars == <<cart, devices, orders>>

Items == [Lines -> 0..MaxQuantity]
Nothing == [l \in Lines |-> 0]

Cart == [items: Items, version: Nat]
Device == [items: Items, version: Nat, guest: Items]
Checkout == [by: {"nobody", "customer", "guest"}, items: Items]
Idle == [key |-> None, locked |-> FALSE]

TypeOK ==
  /\ cart \in Cart
  /\ device \in [Devices -> Device] /\ attached \in [Devices -> Nat]
  /\ checkout \in [Keys -> Checkout]
  /\ link \in [Keys -> {"NONE", "LIVE", "DELETED"}] /\ ordered \in [Keys -> Nat]
  /\ request \in [Requests -> [key: Keys \cup {None}, locked: BOOLEAN]]

\* Before logging in a device has a line of its own, or nothing.
Init ==
  /\ cart = [items |-> Nothing, version |-> 0]
  /\ device \in [Devices -> {[items |-> Nothing, version |-> 0, guest |-> g] :
                               g \in {f \in Items : Cardinality({l \in Lines : f[l] > 0}) <= 1}}]
  /\ attached = [d \in Devices |-> 0]
  /\ checkout = [k \in Keys |-> [by |-> "nobody", items |-> Nothing]]
  /\ link = [k \in Keys |-> "NONE"] /\ ordered = [k \in Keys |-> 0]
  /\ request = [q \in Requests |-> Idle]

-----------------------------------------------------------------------------
(* The cart.  Everything that changes it holds the customer's row.         *)

CustomerLocked == \E q \in Requests : request[q].key # None /\ checkout[request[q].key].by = "customer"
OutletLocked == \E q \in Requests : request[q].locked

\* A cart that is saved as it was keeps its version.
Replaced(items) ==
  IF items = cart.items THEN cart ELSE [items |-> items, version |-> cart.version + 1]

Shown(d, c) == [device[d] EXCEPT !.items = c.items, !.version = c.version]

Fetch(d) ==
  /\ device' = [device EXCEPT ![d] = Shown(d, cart)]
  /\ UNCHANGED <<cart, attached, orders>>

Current(d) == device[d].version = cart.version

\* PUT.  The answer may be lost: the device then sends it again, against a version that
\* is no longer the cart's, or fetches.
Save(d, items, answered) ==
  /\ ~CustomerLocked /\ Current(d)
  /\ items # cart.items /\ cart.version < MaxVersion
  /\ cart' = Replaced(items)
  /\ device' = IF answered THEN [device EXCEPT ![d] = Shown(d, cart')] ELSE device
  /\ UNCHANGED <<attached, orders>>

\* POST with the device's merge_id: lines are added unless the cart has them, and a
\* merge that was answered or not is not done again.
Unmerged(d) == attached[d] = 0

Joined(items) == [l \in Lines |-> IF cart.items[l] > 0 THEN cart.items[l] ELSE items[l]]

Merge(d, answered) ==
  /\ ~CustomerLocked /\ device[d].guest # Nothing
  /\ cart.version < MaxVersion
  /\ cart' = IF Unmerged(d) THEN Replaced(Joined(device[d].guest)) ELSE cart
  /\ attached' = [attached EXCEPT ![d] = @ + (IF Unmerged(d) THEN 1 ELSE 0)]
  /\ device' = IF answered THEN [device EXCEPT ![d] = [Shown(d, cart') EXCEPT !.guest = Nothing]]
               ELSE device
  /\ UNCHANGED orders

-----------------------------------------------------------------------------
(* Checking out.                                                           *)

\* A device orders what it shows, or what it holds without an account.
Compose(k, d) ==
  /\ checkout[k].by = "nobody"
  /\ \/ /\ device[d].items # Nothing
        /\ checkout' = [checkout EXCEPT ![k] = [by |-> "customer", items |-> device[d].items]]
     \/ /\ device[d].guest # Nothing
        /\ checkout' = [checkout EXCEPT ![k] = [by |-> "guest", items |-> device[d].guest]]
  /\ UNCHANGED <<cart, devices, link, ordered, request>>

\* The customer's row is locked, a guest has none; a key that has its order is answered
\* with it.  What the outlet offers is read here, before its row is locked.
Arrive(q, k) ==
  /\ request[q] = Idle /\ checkout[k].by # "nobody"
  /\ checkout[k].by = "customer" => ~CustomerLocked
  /\ link[k] # "LIVE"
  /\ request' = [request EXCEPT ![q].key = k]
  /\ UNCHANGED <<cart, devices, checkout, link, ordered>>

LockOutlet(q) ==
  /\ request[q].key # None /\ ~OutletLocked
  /\ request' = [request EXCEPT ![q].locked = TRUE]
  /\ UNCHANGED <<cart, devices, checkout, link, ordered>>

\* The key of a deleted order stays taken, and the database admits one order per key.
Orderable(k) == link[k] = "NONE"

\* consume_cart: what was bought leaves the cart, whatever the cart has become.
Fault_VersionKept(items) ==
  [cart EXCEPT !.items = [l \in Lines |-> IF @[l] > items[l] THEN @[l] - items[l] ELSE 0]]
Fault_CartEmptied(items) == [items |-> Nothing, version |-> cart.version + 1]

Consumed(items) ==
  [items |-> [l \in Lines |-> IF cart.items[l] > items[l] THEN cart.items[l] - items[l] ELSE 0],
   version |-> cart.version + 1]

Commit(q) ==
  LET k == request[q].key IN
  /\ request[q].locked /\ Orderable(k)
  /\ cart.version < MaxVersion
  /\ link' = [link EXCEPT ![k] = "LIVE"]
  /\ ordered' = [ordered EXCEPT ![k] = @ + 1]
  /\ cart' = IF checkout[k].by = "customer" THEN Consumed(checkout[k].items) ELSE cart
  /\ request' = [request EXCEPT ![q] = Idle]
  /\ UNCHANGED <<devices, checkout>>

\* Refused: the outlet is closed, the total has changed, the key is taken; or the
\* worker died.  Nothing is left.
Fail(q) ==
  /\ request[q].key # None
  /\ request' = [request EXCEPT ![q] = Idle]
  /\ UNCHANGED <<cart, devices, checkout, link, ordered>>

\* delete_order: the order goes, a marker of its key stays.
DeleteOrder(k) ==
  /\ link[k] = "LIVE" /\ ~OutletLocked
  /\ link' = [link EXCEPT ![k] = "DELETED"]
  /\ UNCHANGED <<cart, devices, checkout, ordered, request>>

-----------------------------------------------------------------------------

CartStep ==
  \E d \in Devices :
    \/ Fetch(d)
    \/ \E answered \in BOOLEAN : Merge(d, answered) \/ \E items \in Items : Save(d, items, answered)
    \/ \E k \in Keys : Compose(k, d)

CheckoutStep ==
  \/ \E q \in Requests : \/ \E k \in Keys : Arrive(q, k)
                         \/ LockOutlet(q) \/ Commit(q) \/ Fail(q)
  \/ \E k \in Keys : DeleteOrder(k)

Next == CartStep \/ CheckoutStep

Spec == Init /\ [][Next]_vars

-----------------------------------------------------------------------------
(* Properties.                                                             *)

\* A device that holds the cart's version holds the cart: so no save overwrites a line
\* that its device has not seen, whether another device, a merge or a checkout of the
\* customer changed the cart in between (save_cart, consume_cart).
VersionsIdentify ==
  \A d \in Devices : device[d].version = cart.version => device[d].items = cart.items

\* An order takes no units from the cart but those it bought: a line added while the
\* checkout was on its way stays (consume_cart, CheckoutView.post).
NothingVanishes ==
  [][ordered' # ordered =>
       \A l \in Lines :
         cart'.items[l] < cart.items[l] =>
           \E k \in Keys : /\ ordered'[k] > ordered[k]
                           /\ cart.items[l] - cart'.items[l] <= checkout[k].items[l]]_vars

\* What is sent again is not done again: a checkout makes one order, also for a guest,
\* whose requests hold no lock before the outlet's, and also after the order was
\* deleted; and a device's own cart is attached once (CheckoutView.post,
\* deleted_web_key, CustomerOrder's constraints, CustomerCartMerge).
OrderedOnce ==
  /\ \A k \in Keys : ordered[k] <= 1
  /\ \A d \in Devices : attached[d] <= 1
=============================================================================
