---------------------------- MODULE Carts_proofs ----------------------------
(***************************************************************************)
(* Theorems about Carts for any number of lines, devices, checkouts and    *)
(* requests, any quantities and any number of changes; about Addresses for *)
(* any places and any number of addresses; and about Journeys for any      *)
(* visitors, sessions, orders and moments.                                 *)
(***************************************************************************)
EXTENDS MCCarts, Journeys, WellFoundedInduction, TLAPS

-----------------------------------------------------------------------------
(* Types.                                                                  *)

LEMMA NothingType == Nothing \in Items
BY CartsAssumption DEF Nothing, Items

\* Whatever a save, a merge or a checkout makes of the cart is a cart, and is newer
\* unless it is the cart as it was.
LEMMA CartsMade ==
  ASSUME TypeOK, NEW items \in Items
  PROVE  /\ Replaced(items) \in Cart /\ Consumed(items) \in Cart
         /\ Replaced(items) = cart \/ Replaced(items).version > cart.version
         /\ Consumed(items).version > cart.version
         /\ Joined(items) \in Items
<1>1. cart.items \in Items /\ cart.version \in Nat /\ cart \in Cart
  BY DEF TypeOK, Cart
<1>2. Replaced(items) \in Cart /\ (Replaced(items) = cart \/ Replaced(items).version > cart.version)
  <2>1. [items |-> items, version |-> cart.version + 1] \in Cart
    BY <1>1 DEF Cart
  <2> QED
    BY <1>1, <2>1 DEF Replaced
<1>3. Consumed(items) \in Cart /\ Consumed(items).version > cart.version
  <2>1. [l \in Lines |-> IF cart.items[l] > items[l] THEN cart.items[l] - items[l] ELSE 0] \in Items
    BY <1>1, CartsAssumption DEF Items
  <2> QED
    BY <1>1, <2>1 DEF Consumed, Cart
<1>4. Joined(items) \in Items
  BY <1>1 DEF Joined, Items
<1> QED
  BY <1>2, <1>3, <1>4

\* What a device is shown is what it then holds.
LEMMA ShownType ==
  ASSUME TypeOK, NEW d \in Devices, NEW c \in Cart
  PROVE  /\ Shown(d, c) \in Device
         /\ [Shown(d, c) EXCEPT !.guest = Nothing] \in Device
         /\ Shown(d, c).items = c.items /\ Shown(d, c).version = c.version
         /\ [Shown(d, c) EXCEPT !.guest = Nothing].items = c.items
         /\ [Shown(d, c) EXCEPT !.guest = Nothing].version = c.version
<1>1. device[d] \in Device /\ c.items \in Items /\ c.version \in Nat
  BY DEF TypeOK, Cart
<1>2. Shown(d, c) \in Device /\ Shown(d, c).items = c.items /\ Shown(d, c).version = c.version
  BY <1>1 DEF Shown, Device
<1> QED
  BY <1>2, NothingType DEF Device

-----------------------------------------------------------------------------
(* The inductive invariant.                                                *)

\* A device never holds a version the cart has not had.
VersionsReached == \A d \in Devices : device[d].version <= cart.version

\* An order exists only under a key whose link says so, and a merge is counted once.
LinksKnow ==
  /\ \A k \in Keys : ordered[k] = IF link[k] = "NONE" THEN 0 ELSE 1
  /\ \A d \in Devices : attached[d] <= 1

\* The outlet's row is locked for a checkout.
LocksServe == \A q \in Requests : request[q].locked => request[q].key \in Keys

IInv == TypeOK /\ VersionsReached /\ VersionsIdentify /\ LinksKnow /\ LocksServe

LEMMA InitIInv == Init => IInv
<1> SUFFICES ASSUME Init PROVE IInv
  OBVIOUS
<1>1. device \in [Devices -> Device] /\ \A d \in Devices : device[d].version = 0 /\ device[d].items = Nothing
  <2> DEFINE start == {[items |-> Nothing, version |-> 0, guest |-> g] :
                         g \in {f \in Items : Cardinality({l \in Lines : f[l] > 0}) <= 1}}
  <2>1. \A x \in start : x \in Device /\ x.version = 0 /\ x.items = Nothing
    <3> TAKE x \in start
    <3> PICK g \in Items : x = [items |-> Nothing, version |-> 0, guest |-> g]
      OBVIOUS
    <3> QED
      BY NothingType DEF Device
  <2>2. device \in [Devices -> start]
    BY DEF Init
  <2> HIDE DEF start
  <2> QED
    BY <2>1, <2>2
<1>2. TypeOK
  BY <1>1, NothingType DEF Init, TypeOK, Cart, Checkout, Idle
<1>3. VersionsReached /\ VersionsIdentify /\ LinksKnow /\ LocksServe
  BY <1>1 DEF Init, Idle, VersionsReached, VersionsIdentify, LinksKnow, LocksServe
<1> QED
  BY <1>2, <1>3 DEF IInv

\* A device that is not shown the cart keeps what it holds, one that is shown it holds it,
\* and the cart does not change under its version.
LEMMA VersionsKept ==
  ASSUME TypeOK, VersionsReached, VersionsIdentify,
         NEW c \in Cart, cart' = c, c = cart \/ c.version > cart.version,
         \A d \in Devices :
           \/ device'[d] = device[d]
           \/ device'[d].items = c.items /\ device'[d].version = c.version
  PROVE  (VersionsReached /\ VersionsIdentify)'
<1>1. /\ cart.version \in Nat /\ c.version \in Nat /\ cart.version <= c.version
      /\ \A d \in Devices : device[d].version \in Nat
  BY DEF TypeOK, Cart, Device
<1>2. \A d \in Devices :
        /\ device'[d].version <= c.version
        /\ device'[d].version = c.version => device'[d].items = c.items
  <2> TAKE d \in Devices
  <2>1. CASE device'[d] = device[d]
    BY <1>1, <2>1 DEF VersionsReached, VersionsIdentify
  <2>2. CASE device'[d].items = c.items /\ device'[d].version = c.version
    BY <1>1, <2>2
  <2> QED
    BY <2>1, <2>2
<1> QED
  BY <1>2 DEF VersionsReached, VersionsIdentify

-----------------------------------------------------------------------------
(* One lemma for the steps on the cart, one for the steps of a checkout.   *)

LEMMA CartSteps ==
  ASSUME IInv, CartStep
  PROVE  IInv' /\ ordered' = ordered
<1> PICK d \in Devices :
      \/ Fetch(d)
      \/ \E answered \in BOOLEAN : Merge(d, answered) \/ \E items \in Items : Save(d, items, answered)
      \/ \E k \in Keys : Compose(k, d)
  BY DEF CartStep
<1>0. /\ TypeOK /\ VersionsReached /\ VersionsIdentify /\ LinksKnow /\ LocksServe
      /\ cart \in Cart /\ device[d] \in Device /\ attached[d] \in Nat
  BY DEF IInv, TypeOK
<1>1. CASE Fetch(d)
  <2>1. cart' = cart /\ device' = [device EXCEPT ![d] = Shown(d, cart)] /\ UNCHANGED <<attached, orders>>
    BY <1>1 DEF Fetch
  <2>2. device' \in [Devices -> Device]
    BY <1>0, <2>1, ShownType DEF TypeOK
  <2>3. (VersionsReached /\ VersionsIdentify)'
    BY <1>0, <2>1, ShownType, VersionsKept DEF TypeOK
  <2> QED
    BY <1>0, <2>1, <2>2, <2>3 DEF IInv, TypeOK, LinksKnow, LocksServe, orders
<1>2. ASSUME NEW answered \in BOOLEAN, NEW items \in Items, Save(d, items, answered)
      PROVE  IInv' /\ ordered' = ordered
  <2>1. cart' = Replaced(items) /\ UNCHANGED <<attached, orders>>
        /\ device' = IF answered THEN [device EXCEPT ![d] = Shown(d, cart')] ELSE device
    BY <1>2 DEF Save
  <2>2. cart' \in Cart /\ (cart' = cart \/ cart'.version > cart.version)
    BY <1>0, <2>1, CartsMade
  <2>3. device' \in [Devices -> Device]
    BY <1>0, <2>1, <2>2, ShownType DEF TypeOK
  <2>4. \A e \in Devices : \/ device'[e] = device[e]
                           \/ device'[e].items = cart'.items /\ device'[e].version = cart'.version
    BY <1>0, <2>1, <2>2, ShownType DEF TypeOK
  <2>5. (VersionsReached /\ VersionsIdentify)'
    BY <1>0, <2>2, <2>4, VersionsKept
  <2> QED
    BY <1>0, <2>1, <2>2, <2>3, <2>5 DEF IInv, TypeOK, LinksKnow, LocksServe, orders
<1>3. ASSUME NEW answered \in BOOLEAN, Merge(d, answered)
      PROVE  IInv' /\ ordered' = ordered
  <2>1. /\ cart' = IF Unmerged(d) THEN Replaced(Joined(device[d].guest)) ELSE cart
        /\ attached' = [attached EXCEPT ![d] = @ + (IF Unmerged(d) THEN 1 ELSE 0)]
        /\ device' = IF answered THEN [device EXCEPT ![d] = [Shown(d, cart') EXCEPT !.guest = Nothing]]
                     ELSE device
        /\ UNCHANGED orders
    BY <1>3 DEF Merge
  <2>2. Joined(device[d].guest) \in Items
    BY <1>0, CartsMade DEF Device
  <2>3. cart' \in Cart /\ (cart' = cart \/ cart'.version > cart.version)
    BY <1>0, <2>1, <2>2, CartsMade
  <2>4. device' \in [Devices -> Device]
    BY <1>0, <2>1, <2>3, ShownType DEF TypeOK
  <2>5. \A e \in Devices : \/ device'[e] = device[e]
                           \/ device'[e].items = cart'.items /\ device'[e].version = cart'.version
    BY <1>0, <2>1, <2>3, ShownType DEF TypeOK
  <2>6. (VersionsReached /\ VersionsIdentify)'
    BY <1>0, <2>3, <2>5, VersionsKept
  <2>7. attached' \in [Devices -> Nat] /\ \A e \in Devices : attached'[e] <= 1
    BY <1>0, <2>1 DEF TypeOK, LinksKnow, Unmerged
  <2> QED
    BY <1>0, <2>1, <2>3, <2>4, <2>6, <2>7 DEF IInv, TypeOK, LinksKnow, LocksServe, orders
<1>4. ASSUME NEW k \in Keys, Compose(k, d)
      PROVE  IInv' /\ ordered' = ordered
  <2>1. /\ UNCHANGED <<cart, devices, link, ordered, request>>
        /\ \E c \in Checkout : checkout' = [checkout EXCEPT ![k] = c]
    <3>1. device[d].items \in Items /\ device[d].guest \in Items
      BY <1>0 DEF Device
    <3> QED
      BY <1>4, <3>1 DEF Compose, Checkout
  <2> QED
    BY <1>0, <2>1 DEF IInv, TypeOK, VersionsReached, VersionsIdentify, LinksKnow, LocksServe, devices
<1> QED
  BY <1>1, <1>2, <1>3, <1>4

\* A checkout takes from the cart what was bought, and is made once.
LEMMA CheckoutSteps ==
  ASSUME IInv, CheckoutStep
  PROVE  /\ IInv'
         /\ \/ UNCHANGED <<cart, ordered>>
            \/ \E k \in Keys :
                 /\ ordered' = [ordered EXCEPT ![k] = @ + 1]
                 /\ \/ checkout[k].by = "customer" /\ cart' = Consumed(checkout[k].items)
                    \/ cart' = cart
<1>0. TypeOK /\ VersionsReached /\ VersionsIdentify /\ LinksKnow /\ LocksServe
  BY DEF IInv
<1>1. ASSUME NEW q \in Requests, NEW k \in Keys, Arrive(q, k)
      PROVE  IInv' /\ UNCHANGED <<cart, ordered>>
  BY <1>0, <1>1
  DEF Arrive, IInv, TypeOK, VersionsReached, VersionsIdentify, LinksKnow, LocksServe, devices
<1>2. ASSUME NEW q \in Requests, LockOutlet(q)
      PROVE  IInv' /\ UNCHANGED <<cart, ordered>>
  BY <1>0, <1>2
  DEF LockOutlet, IInv, TypeOK, VersionsReached, VersionsIdentify, LinksKnow, LocksServe, devices
<1>3. ASSUME NEW q \in Requests, Fail(q)
      PROVE  IInv' /\ UNCHANGED <<cart, ordered>>
  BY <1>0, <1>3
  DEF Fail, Idle, IInv, TypeOK, VersionsReached, VersionsIdentify, LinksKnow, LocksServe, devices
<1>4. ASSUME NEW k \in Keys, DeleteOrder(k)
      PROVE  IInv' /\ UNCHANGED <<cart, ordered>>
  BY <1>0, <1>4
  DEF DeleteOrder, IInv, TypeOK, VersionsReached, VersionsIdentify, LinksKnow, LocksServe, devices
<1>5. ASSUME NEW q \in Requests, Commit(q)
      PROVE  /\ IInv'
             /\ \E k \in Keys :
                  /\ ordered' = [ordered EXCEPT ![k] = @ + 1]
                  /\ \/ checkout[k].by = "customer" /\ cart' = Consumed(checkout[k].items)
                     \/ cart' = cart
  <2> DEFINE k == request[q].key
  <2>1. /\ Orderable(k) /\ request[q].locked
        /\ link' = [link EXCEPT ![k] = "LIVE"]
        /\ ordered' = [ordered EXCEPT ![k] = @ + 1]
        /\ cart' = IF checkout[k].by = "customer" THEN Consumed(checkout[k].items) ELSE cart
        /\ request' = [request EXCEPT ![q] = Idle]
        /\ UNCHANGED <<devices, checkout>>
    BY <1>5 DEF Commit
  <2>2. k \in Keys
    BY <1>0, <2>1 DEF LocksServe
  <2>3. checkout[k].items \in Items
    BY <1>0, <2>2 DEF TypeOK, Checkout
  <2>4. cart' \in Cart /\ (cart' = cart \/ cart'.version > cart.version)
    BY <1>0, <2>1, <2>3, CartsMade DEF TypeOK
  <2>5. (VersionsReached /\ VersionsIdentify)'
    BY <1>0, <2>1, <2>4, VersionsKept DEF devices
  <2>6. (LinksKnow /\ LocksServe)'
    BY <1>0, <2>1, <2>2 DEF TypeOK, LinksKnow, LocksServe, Orderable, Idle, devices
  <2>7. TypeOK'
    BY <1>0, <2>1, <2>2, <2>4 DEF TypeOK, Idle, devices
  <2> HIDE DEF k
  <2> QED
    BY <2>1, <2>2, <2>5, <2>6, <2>7 DEF IInv
<1> QED
  BY <1>1, <1>2, <1>3, <1>4, <1>5 DEF CheckoutStep

LEMMA NextIInv == IInv /\ [Next]_vars => IInv'
<1>1. ASSUME IInv, Next PROVE IInv'
  BY <1>1, CartSteps, CheckoutSteps DEF Next
<1>2. ASSUME IInv, UNCHANGED vars PROVE IInv'
  BY <1>2 DEF IInv, vars, devices, orders, TypeOK, VersionsReached, VersionsIdentify, LinksKnow, LocksServe
<1> QED
  BY <1>1, <1>2

-----------------------------------------------------------------------------
(* Theorems.                                                               *)

LEMMA AlwaysIInv == Spec => []IInv
BY InitIInv, NextIInv, PTL DEF Spec

\* The cart, what the devices hold, the checkouts and the requests keep their types.
THEOREM TypeCorrect == Spec => []TypeOK
<1>1. IInv => TypeOK
  BY DEF IInv
<1> QED
  BY <1>1, AlwaysIInv, PTL

\* Whoever changes the cart and however many answers are lost, a device that holds the
\* cart's version holds the cart, so save_cart overwrites nothing unseen.
THEOREM VersionsAlwaysIdentify == Spec => []VersionsIdentify
<1>1. IInv => VersionsIdentify
  BY DEF IInv
<1> QED
  BY <1>1, AlwaysIInv, PTL

\* A checkout that is sent again makes no second order, and a device's own cart is
\* attached once, for customers and guests (CheckoutView.post, CustomerCartMerge).
THEOREM AlwaysOrderedOnce == Spec => []OrderedOnce
<1>1. IInv => OrderedOnce
  BY DEF IInv, LinksKnow, OrderedOnce
<1> QED
  BY <1>1, AlwaysIInv, PTL

\* A checkout takes no more of a line from the cart than it bought (consume_cart).
THEOREM NothingEverVanishes == Spec => NothingVanishes
<1> DEFINE Taken ==
      ordered' # ordered =>
        \A l \in Lines :
          cart'.items[l] < cart.items[l] =>
            \E k \in Keys : /\ ordered'[k] > ordered[k]
                            /\ cart.items[l] - cart'.items[l] <= checkout[k].items[l]
<1>1. ASSUME IInv, Next PROVE Taken
  <2> SUFFICES ASSUME ordered' # ordered, NEW l \in Lines, cart'.items[l] < cart.items[l]
               PROVE  \E k \in Keys : /\ ordered'[k] > ordered[k]
                                      /\ cart.items[l] - cart'.items[l] <= checkout[k].items[l]
    OBVIOUS
  <2>1. cart \in Cart /\ ordered \in [Keys -> Nat] /\ checkout \in [Keys -> Checkout]
    BY <1>1 DEF IInv, TypeOK
  <2>2. cart.items[l] \in Nat
    BY <2>1 DEF Cart, Items
  <2>3. PICK k \in Keys :
          /\ ordered' = [ordered EXCEPT ![k] = @ + 1]
          /\ \/ checkout[k].by = "customer" /\ cart' = Consumed(checkout[k].items)
             \/ cart' = cart
    BY <1>1, CartSteps, CheckoutSteps DEF Next
  <2>4. cart' = Consumed(checkout[k].items)
    BY <2>2, <2>3
  <2>5. checkout[k].items[l] \in Nat
    BY <2>1 DEF Checkout, Items
  <2>6. cart.items[l] - cart'.items[l] <= checkout[k].items[l]
    BY <2>2, <2>4, <2>5 DEF Consumed
  <2>7. ordered'[k] > ordered[k]
    BY <2>1, <2>3
  <2> QED
    BY <2>6, <2>7
<1>2. IInv /\ [Next]_vars => [Taken]_vars
  BY <1>1
<1> QED
  BY <1>2, AlwaysIInv, PTL DEF Spec, NothingVanishes

-----------------------------------------------------------------------------
(* The address book.                                                       *)

BookRows == address \in Seq(AddressRow)

BookInv == AddressesTypeOK /\ BookRows /\ AddedOnce

\* Some natural of a set is its smallest.
LEMMA SmallestExists ==
  ASSUME NEW S, S \subseteq Nat, S # {}
  PROVE  \E x \in S : \A y \in S : x =< y
<1>1. \E x \in S : \A y \in S : ~ (<<y, x>> \in OpToRel(<, Nat))
  BY NatLessThanWellFounded, WFMin
<1>2. \A x, y \in Nat : <<y, x>> \in OpToRel(<, Nat) <=> y < x
  BY DEF OpToRel
<1>3. PICK x \in S : \A y \in S : ~ (y < x)
  BY <1>1, <1>2, Zenon
<1> QED
  BY <1>3

\* What AddedOnce says of rows, apart from the default that was declined.
Single(rows) ==
  \A n, m \in DOMAIN rows : n # m =>
    /\ rows[n].place = rows[m].place => rows[n].edited \/ rows[m].edited
    /\ ~(rows[n].default /\ rows[m].default)

\* Among any rows there is a foremost one.
LEMMA ForemostIsOne ==
  ASSUME BookInv, NEW S \in SUBSET DOMAIN address, S # {}
  PROVE  Foremost(S) \in S
<1>1. /\ DOMAIN address = 1..Len(address) /\ Len(address) \in Nat
      /\ \A n \in DOMAIN address : address[n] \in AddressRow
  BY DEF BookInv, BookRows
<1>2. \A n, m \in DOMAIN address : n # m => ~(address[n].default /\ address[m].default)
  BY DEF BookInv, AddedOnce
<1>3. \E n \in S : \A m \in S \ {n} :
        IF address[n].default # address[m].default THEN address[n].default ELSE n < m
  <2>1. CASE \E n \in S : address[n].default
    <3>1. PICK n \in S : address[n].default
      BY <2>1
    <3>2. \A m \in S \ {n} : ~address[m].default
      BY <1>2, <3>1
    <3> QED
      BY <3>1, <3>2
  <2>2. CASE \A n \in S : ~address[n].default
    <3>1. S \subseteq Nat
      BY <1>1
    <3>2. PICK n \in S : \A m \in S : n =< m
      BY <3>1, SmallestExists
    <3>3. \A m \in S \ {n} : n < m
      BY <3>1, <3>2
    <3>4. \A m \in S \ {n} : address[n].default = address[m].default
      BY <1>1, <2>2 DEF AddressRow
    <3> QED
      BY <3>3, <3>4
  <2> QED
    BY <2>1, <2>2
<1> QED
  BY <1>3 DEF Foremost

\* A save keeps the book true: the row it writes is at the place it had, or marked as
\* edited, and a default it writes takes over.
LEMMA SaveKeeps ==
  ASSUME BookInv, NEW n \in DOMAIN address, NEW place \in Places, NEW wish \in Wish,
         SaveAddress(n, place, wish)
  PROVE  BookInv'
<1> DEFINE row == [place |-> place, default |-> Becomes(address[n].default, wish),
                   edited |-> address[n].edited \/ place # address[n].place]
<1>1. /\ DOMAIN address = 1..Len(address) /\ Len(address) \in Nat /\ Len(address) <= MaxAddresses
      /\ \A m \in DOMAIN address : address[m] \in AddressRow
      /\ Single(address) /\ declined \in BOOLEAN /\ address # <<>>
  BY DEF BookInv, BookRows, AddressesTypeOK, AddedOnce, Single
<1>2. address' = Written(n, row) /\ declined' = ((declined \/ address[n].default) /\ ~HasDefault(address'))
  BY DEF SaveAddress
<1>3. row \in AddressRow
  BY <1>1 DEF AddressRow, Becomes, Wish
<1>4. /\ row.place = place /\ (row.edited <=> address[n].edited \/ place # address[n].place)
      /\ row.default \in BOOLEAN
  BY <1>3 DEF AddressRow
<1> HIDE DEF row
<1>5. /\ address' = [m \in 1..Len(address) |-> address'[m]]
      /\ DOMAIN address' = DOMAIN address /\ address'[n] = row
      /\ \A m \in DOMAIN address \ {n} :
           /\ address'[m] \in AddressRow
           /\ address'[m].place = address[m].place
           /\ address'[m].edited <=> address[m].edited
           /\ address'[m].default <=> (address[m].default /\ ~row.default)
  BY <1>1, <1>2, <1>3 DEF Written, AddressRow
<1>6. address' \in Seq(AddressRow) /\ Len(address') = Len(address)
  BY <1>1, <1>3, <1>5
<1>7. Single(address')
  <2> SUFFICES ASSUME NEW k \in DOMAIN address, NEW m \in DOMAIN address, k # m
               PROVE  /\ address'[k].place = address'[m].place => address'[k].edited \/ address'[m].edited
                      /\ ~(address'[k].default /\ address'[m].default)
    BY <1>5 DEF Single
  <2>1. CASE k # n /\ m # n
    BY <1>1, <1>5, <2>1 DEF Single
  <2>2. CASE k = n
    BY <1>1, <1>4, <1>5, <2>2 DEF Single
  <2>3. CASE m = n
    BY <1>1, <1>4, <1>5, <2>3 DEF Single
  <2> QED
    BY <2>1, <2>2, <2>3
<1>8. HasDefault(address') \/ declined'
  <2>1. CASE address[n].default \/ row.default
    BY <1>2, <1>5, <2>1 DEF HasDefault
  <2>2. CASE ~address[n].default /\ ~row.default
    BY <1>1, <1>2, <1>5, <2>2 DEF HasDefault, BookInv, AddedOnce
  <2> QED
    BY <2>1, <2>2
<1>9. declined' \in BOOLEAN /\ Range(address') \subseteq AddressRow
  BY <1>2, <1>6 DEF Range
<1> QED
  BY <1>1, <1>6, <1>7, <1>8, <1>9 DEF BookInv, BookRows, AddressesTypeOK, AddedOnce, Single

LEMMA AddKeeps ==
  ASSUME BookInv, NEW place \in Places, NEW wish \in Wish, AddAddress(place, wish)
  PROVE  BookInv'
<1>1. CASE ~IsNewPlace(place)
  <2>1. Twins(place) \in SUBSET DOMAIN address /\ Twins(place) # {}
    BY <1>1 DEF IsNewPlace, Twins
  <2>2. Foremost(Twins(place)) \in DOMAIN address
    BY <2>1, ForemostIsOne
  <2> QED
    BY <1>1, <2>2, SaveKeeps DEF AddAddress
<1>2. CASE IsNewPlace(place)
  <2> DEFINE row == [place |-> place, default |-> Becomes(FALSE, wish), edited |-> FALSE]
             L == Len(address)
             rows == Written(0, row)
  <2>1. /\ DOMAIN address = 1..L /\ L \in Nat /\ L < MaxAddresses
        /\ \A m \in DOMAIN address : address[m] \in AddressRow /\ address[m].place # place
        /\ Single(address) /\ declined \in BOOLEAN
    <3>1. L < MaxAddresses
      BY <1>2 DEF AddAddress
    <3>2. \A m \in DOMAIN address : address[m].place # place
      BY <1>2 DEF IsNewPlace, Twins
    <3> QED
      BY <3>1, <3>2 DEF BookInv, BookRows, AddressesTypeOK, AddedOnce, Single
  <2>2. address' = Append(rows, row) /\ declined' = (declined /\ ~row.default)
    BY <1>2 DEF AddAddress
  <2>3. row \in AddressRow
    BY DEF AddressRow, Becomes, Wish
  <2>4. row.place = place /\ row.default = Becomes(FALSE, wish) /\ row.default \in BOOLEAN
    BY <2>3 DEF AddressRow
  <2> HIDE DEF row
  <2>5. /\ rows = [m \in 1..L |-> rows[m]]
        /\ \A m \in 1..L :
             /\ rows[m] \in AddressRow
             /\ rows[m].place = address[m].place
             /\ rows[m].edited <=> address[m].edited
             /\ rows[m].default <=> (address[m].default /\ ~row.default)
    <3>1. \A m \in 1..L : m # 0
      BY <2>1
    <3>2. rows = [m \in 1..L |-> IF row.default THEN [address[m] EXCEPT !.default = FALSE]
                                  ELSE address[m]]
      BY <2>1, <3>1 DEF Written
    <3> HIDE DEF rows
    <3> QED
      BY <2>1, <2>4, <3>2 DEF AddressRow
  <2>6. rows \in Seq(AddressRow) /\ Len(rows) = L
    BY <2>1, <2>5
  <2> HIDE DEF rows
  <2>7. /\ address' \in Seq(AddressRow) /\ Len(address') = L + 1 /\ address'[L + 1] = row
        /\ \A m \in 1..L : address'[m] = rows[m]
        /\ DOMAIN address' = 1..(L + 1)
    BY <2>1, <2>2, <2>3, <2>6
  <2>8. Single(address')
    <3> SUFFICES ASSUME NEW k \in 1..(L + 1), NEW m \in 1..(L + 1), k # m
                 PROVE  /\ address'[k].place = address'[m].place => address'[k].edited \/ address'[m].edited
                        /\ ~(address'[k].default /\ address'[m].default)
      BY <2>7 DEF Single
    <3>1. CASE k \in 1..L /\ m \in 1..L
      BY <2>1, <2>5, <2>7, <3>1 DEF Single
    <3>2. CASE k = L + 1
      <4>1. m \in 1..L
        BY <2>1, <3>2
      <4> QED
        BY <2>1, <2>4, <2>5, <2>7, <3>2, <4>1
    <3>3. CASE m = L + 1
      <4>1. k \in 1..L
        BY <2>1, <3>3
      <4> QED
        BY <2>1, <2>4, <2>5, <2>7, <3>3, <4>1
    <3> QED
      BY <2>1, <3>1, <3>2, <3>3
  <2>9. HasDefault(address') \/ declined'
    <3>1. CASE row.default
      BY <2>1, <2>7, <3>1 DEF HasDefault
    <3>2. CASE ~row.default
      <4>1. address # <<>>
        BY <2>4, <3>2 DEF Becomes
      <4>2. CASE declined
        BY <2>2, <3>2, <4>2
      <4>3. CASE HasDefault(address)
        <5>1. PICK m \in 1..L : address[m].default
          BY <2>1, <4>3 DEF HasDefault
        <5>2. address'[m].default /\ m \in DOMAIN address'
          BY <2>1, <2>5, <2>7, <3>2, <5>1
        <5> QED
          BY <5>2 DEF HasDefault
      <4> QED
        BY <4>1, <4>2, <4>3 DEF BookInv, AddedOnce
    <3> QED
      BY <3>1, <3>2
  <2>10. declined' \in BOOLEAN /\ Range(address') \subseteq AddressRow /\ Len(address') <= MaxAddresses
    BY <2>1, <2>2, <2>4, <2>7, AddressesAssumption DEF Range
  <2> QED
    BY <2>7, <2>8, <2>9, <2>10 DEF BookInv, BookRows, AddressesTypeOK, AddedOnce, Single
<1> QED
  BY <1>1, <1>2

LEMMA DeleteKeeps ==
  ASSUME BookInv, NEW n \in DOMAIN address, DeleteAddress(n)
  PROVE  BookInv'
<1> DEFINE L == Len(address)
           rest == DOMAIN address \ {n}
           heirs == IF address[n].default /\ rest # {} THEN {Foremost(rest)} ELSE {}
           kept == [m \in DOMAIN address |-> [address[m] EXCEPT !.default = @ \/ m \in heirs]]
           old(m) == IF m < n THEN m ELSE m + 1
<1>1. /\ DOMAIN address = 1..L /\ L \in Nat /\ L <= MaxAddresses /\ n \in 1..L
      /\ \A m \in DOMAIN address : address[m] \in AddressRow
      /\ Single(address) /\ declined \in BOOLEAN
  BY DEF BookInv, BookRows, AddressesTypeOK, AddedOnce, Single
<1>2. address' = RemoveAt(kept, n) /\ declined' = (declined /\ L > 1)
  BY DEF DeleteAddress, Without
<1>3. heirs \subseteq rest /\ \A k, m \in heirs : k = m
  BY ForemostIsOne
<1>4. heirs # {} => address[n].default
  OBVIOUS
<1>5. address[n].default /\ rest # {} => heirs # {}
  OBVIOUS
<1> HIDE DEF heirs
<1>6. /\ kept = [m \in 1..L |-> kept[m]]
      /\ \A m \in 1..L :
           /\ kept[m] \in AddressRow
           /\ kept[m].place = address[m].place
           /\ kept[m].edited <=> address[m].edited
           /\ kept[m].default <=> (address[m].default \/ m \in heirs)
  BY <1>1 DEF AddressRow
<1> HIDE DEF kept
<1>7. kept \in Seq(AddressRow) /\ Len(kept) = L
  <2>1. kept \in [1..L -> AddressRow]
    BY <1>6
  <2> QED
    BY <1>1, <2>1
<1>8. /\ address' \in Seq(AddressRow) /\ Len(address') = L - 1 /\ L - 1 \in Nat
      /\ DOMAIN address' = 1..(L - 1)
      /\ \A m \in 1..(L - 1) : address'[m] = kept[old(m)]
  <2> DEFINE before == SubSeq(kept, 1, n - 1)
             after == SubSeq(kept, n + 1, L)
  <2>1. /\ before \in Seq(AddressRow) /\ Len(before) = n - 1
        /\ \A m \in 1..(n - 1) : before[m] = kept[m]
    BY <1>1, <1>7
  <2>2. /\ after \in Seq(AddressRow) /\ Len(after) = L - n
        /\ \A m \in 1..(L - n) : after[m] = kept[n + m]
    BY <1>1, <1>7
  <2>3. address' = before \o after
    BY <1>2, <1>7 DEF RemoveAt
  <2> HIDE DEF before, after
  <2>4. address' \in Seq(AddressRow) /\ Len(address') = L - 1
    <3>1. address' \in Seq(AddressRow) /\ Len(address') = Len(before) + Len(after)
      BY <2>1, <2>2, <2>3
    <3> QED
      BY <1>1, <2>1, <2>2, <3>1
  <2>5. ASSUME NEW m \in 1..(L - 1) PROVE address'[m] = kept[old(m)]
    <3>1. CASE m < n
      BY <1>1, <2>1, <2>2, <2>3, <3>1
    <3>2. CASE ~(m < n)
      <4>1. address'[m] = after[m - (n - 1)] /\ m - (n - 1) \in 1..(L - n)
        BY <1>1, <2>1, <2>2, <2>3, <3>2
      <4>2. n + (m - (n - 1)) = m + 1
        BY <1>1
      <4> QED
        BY <2>2, <3>2, <4>1, <4>2
    <3> QED
      BY <3>1, <3>2
  <2> QED
    BY <1>1, <2>4, <2>5
<1>9. \A m \in 1..(L - 1) : old(m) \in 1..L /\ old(m) # n
  BY <1>1
<1>10. \A k, m \in 1..(L - 1) : k # m => old(k) # old(m)
  BY <1>1
<1>11. \A k \in rest : \E m \in 1..(L - 1) : old(m) = k
  <2> TAKE k \in rest
  <2>1. CASE k < n
    BY <1>1, <2>1
  <2>2. CASE ~(k < n)
    <3>1. k - 1 \in 1..(L - 1) /\ old(k - 1) = k
      BY <1>1, <2>2
    <3> QED
      BY <3>1
  <2> QED
    BY <2>1, <2>2
<1> HIDE DEF old
<1>12. Single(address')
  <2> SUFFICES ASSUME NEW k \in 1..(L - 1), NEW m \in 1..(L - 1), k # m
               PROVE  /\ address'[k].place = address'[m].place => address'[k].edited \/ address'[m].edited
                      /\ ~(address'[k].default /\ address'[m].default)
    BY <1>8 DEF Single
  <2>1. old(k) \in 1..L /\ old(m) \in 1..L /\ old(k) # old(m) /\ old(k) # n /\ old(m) # n
    BY <1>9, <1>10
  <2>2. /\ address[old(k)].place = address[old(m)].place => address[old(k)].edited \/ address[old(m)].edited
        /\ ~(address[old(k)].default /\ address[old(m)].default)
        /\ ~(address[old(k)].default /\ address[n].default)
        /\ ~(address[old(m)].default /\ address[n].default)
    BY <1>1, <2>1 DEF Single
  <2> QED
    BY <1>3, <1>4, <1>6, <1>8, <2>1, <2>2
<1>13. HasDefault(address') \/ address' = <<>> \/ declined'
  <2>1. \A k \in rest : kept[k].default => HasDefault(address')
    BY <1>8, <1>11 DEF HasDefault
  <2>2. CASE rest = {}
    <3>1. L = 1
      BY <1>1, <2>2
    <3> QED
      BY <1>8, <3>1
  <2>3. CASE rest # {} /\ address[n].default
    <3>1. PICK k \in heirs : TRUE
      BY <1>5, <2>3
    <3> QED
      BY <1>1, <1>3, <1>6, <2>1, <3>1
  <2>4. CASE rest # {} /\ ~address[n].default
    <3>1. L > 1
      BY <1>1, <2>4
    <3>2. HasDefault(address) \/ declined
      BY <1>1, <3>1 DEF BookInv, AddedOnce
    <3>3. CASE HasDefault(address)
      <4>1. PICK k \in rest : address[k].default
        BY <2>4, <3>3 DEF HasDefault
      <4> QED
        BY <1>1, <1>6, <2>1, <4>1
    <3> QED
      BY <1>2, <3>1, <3>2, <3>3
  <2> QED
    BY <2>2, <2>3, <2>4
<1>14. declined' \in BOOLEAN /\ Range(address') \subseteq AddressRow /\ Len(address') <= MaxAddresses
  BY <1>1, <1>2, <1>8, AddressesAssumption DEF Range
<1> QED
  BY <1>8, <1>12, <1>13, <1>14 DEF BookInv, BookRows, AddressesTypeOK, AddedOnce, Single

LEMMA NextBookInv == BookInv /\ [AddressesNext]_book => BookInv'
<1>1. ASSUME BookInv, AddressesNext PROVE BookInv'
  <2>1. CASE \E place \in Places, wish \in Wish : AddAddress(place, wish)
    BY <1>1, <2>1, AddKeeps
  <2>2. CASE \E n \in DOMAIN address :
               DeleteAddress(n) \/ \E place \in Places, wish \in Wish : EditAddress(n, place, wish)
    BY <1>1, <2>2, SaveKeeps, DeleteKeeps DEF EditAddress
  <2> QED
    BY <1>1, <2>1, <2>2 DEF AddressesNext
<1>2. ASSUME BookInv, UNCHANGED book PROVE BookInv'
  BY <1>2 DEF BookInv, BookRows, AddressesTypeOK, AddedOnce, HasDefault, book
<1> QED
  BY <1>1, <1>2

LEMMA InitBookInv == AddressesInit => BookInv
<1> SUFFICES ASSUME AddressesInit PROVE BookInv
  OBVIOUS
<1>1. address = <<>> /\ declined = FALSE
  BY DEF AddressesInit
<1>2. address \in Seq(AddressRow) /\ Len(address) = 0 /\ DOMAIN address = {}
  BY <1>1
<1>3. Range(address) = {}
  BY <1>2 DEF Range
<1>4. AddressesTypeOK
  <2>1. Len(address) <= MaxAddresses
    BY <1>2, AddressesAssumption
  <2>2. Range(address) \subseteq AddressRow
    BY <1>3
  <2> QED
    BY <1>1, <2>1, <2>2 DEF AddressesTypeOK
<1>5. AddedOnce
  BY <1>1, <1>2 DEF AddedOnce
<1> QED
  BY <1>2, <1>4, <1>5 DEF BookInv, BookRows

\* What is sent again is not done again, for carts, checkouts and addresses alike: a
\* customer's orders and addresses are there once (CheckoutView.post, save_address).
THEOREM AlwaysDoneOnce == MCSpec => []DoneOnce
<1>1. MCInit => IInv /\ BookInv
  BY InitIInv, InitBookInv DEF MCInit
<1>2. IInv /\ BookInv /\ [MCNext]_<<vars, book>> => IInv' /\ BookInv'
  <2> SUFFICES ASSUME IInv, BookInv, [MCNext]_<<vars, book>> PROVE IInv' /\ BookInv'
    OBVIOUS
  <2>1. CASE CartFetch \/ CartMerge \/ CartSave \/ CartCompose
    <3>1. CartStep /\ UNCHANGED book
      BY <2>1 DEF CartFetch, CartMerge, CartSave, CartCompose, CartStep, NoBook
    <3> QED
      BY <3>1, NextIInv, NextBookInv DEF Next
  <2>2. CASE CartArrive \/ CartLockOutlet \/ CartCommit \/ CartFail \/ CartDeleteOrder
    <3>1. CheckoutStep /\ UNCHANGED book
      BY <2>2 DEF CartArrive, CartLockOutlet, CartCommit, CartFail, CartDeleteOrder, CheckoutStep, NoBook
    <3> QED
      BY <3>1, NextIInv, NextBookInv DEF Next
  <2>3. CASE BookAdd \/ BookEdit \/ BookDelete
    <3>1. AddressesNext /\ UNCHANGED vars
      BY <2>3 DEF BookAdd, BookEdit, BookDelete, AddressesNext, NoCart
    <3> QED
      BY <3>1, NextIInv, NextBookInv
  <2>4. CASE UNCHANGED <<vars, book>>
    BY <2>4, NextIInv, NextBookInv
  <2> QED
    BY <2>1, <2>2, <2>3, <2>4 DEF MCNext
<1>3. IInv /\ BookInv => DoneOnce
  BY DEF IInv, LinksKnow, OrderedOnce, BookInv, DoneOnce, TypeOK
<1> QED
  BY <1>1, <1>2, <1>3, PTL DEF MCSpec

-----------------------------------------------------------------------------
(* Journeys.                                                               *)

\* The first and the last of some moments.
LEMMA Extremes ==
  ASSUME NEW S \in SUBSET Moments, S # {}
  PROVE  /\ Min(S) \in S /\ Max(S) \in S /\ \A i \in S : Min(S) <= i /\ i <= Max(S)
<1>1. \A i \in S : i \in Nat /\ i <= MaxMoment
  BY JourneysAssumption DEF Moments
<1>2. \E i \in S : \A j \in S : i <= j
  BY <1>1, SmallestExists
<1> DEFINE Gaps == {d \in Nat : \E i \in S : d = MaxMoment - i}
<1>3. \A i \in S : MaxMoment - i \in Nat
  BY <1>1, JourneysAssumption
<1>4. Gaps # {}
  <2>1. PICK i \in S : TRUE
    OBVIOUS
  <2>2. MaxMoment - i \in Gaps
    BY <1>3
  <2> QED
    BY <2>2
<1>5. PICK d \in Gaps : \A e \in Gaps : d <= e
  BY <1>4, SmallestExists
<1>6. PICK i \in S : d = MaxMoment - i
  OBVIOUS
<1>7. \A j \in S : d <= MaxMoment - j
  BY <1>3, <1>5
<1> HIDE DEF Gaps
<1>8. \A j \in S : j <= i
  BY <1>1, <1>6, <1>7, JourneysAssumption
<1>9. \E k \in S : \A j \in S : k >= j
  BY <1>1, <1>8
<1> QED
  BY <1>1, <1>2, <1>9 DEF Min, Max

LEMMA Extreme ==
  ASSUME NEW S \in SUBSET Moments, NEW i \in S
  PROVE  /\ (\A j \in S : i <= j) => Min(S) = i
         /\ (\A j \in S : j <= i) => Max(S) = i
<1>1. \A j \in S : j \in Nat
  BY JourneysAssumption DEF Moments
<1> QED
  BY <1>1, Extremes

\* The moments of a session, and SessionsSpan of it.
Seen(s) == {i \in Moments : event[i] = s \/ session[s].opened = i}

Spanned(s) ==
  IF session[s] = NoSession THEN Seen(s) = {}
  ELSE Seen(s) # {} /\ session[s].first = Min(Seen(s)) /\ session[s].last = Max(Seen(s))

LEMMA Spans ==
  SessionsSpan <=> /\ \A s \in Sessions : Spanned(s)
                   /\ \A i \in Views : event[i] # Unknown => i \in visits
BY DEF SessionsSpan, Spanned, Seen

\* What was told of an order: in one place, by the provider of the day, and all of it.
Told(o) ==
  /\ journey[o] # {} => "order_success" \in journey[o] /\ o \notin identity
  /\ queued[o] # {} => "order_success" \in queued[o] /\ o \in identity
  /\ o \in identity => queued[o] # {}
  /\ ~switched => /\ journey[o] # {} => provider = "journeys" /\ Tellable(order[o]) \subseteq journey[o]
                  /\ queued[o] # {} => provider = "posthog" /\ Tellable(order[o]) \subseteq queued[o]
  /\ order[o].status \in {"none", "deleted"} => journey[o] = {} /\ queued[o] = {}
  /\ origin[o] # Unknown => session[origin[o]] # NoSession

JourneysInv ==
  /\ JourneysTypeOK
  /\ \A s \in Sessions : Spanned(s)
  /\ \A i \in Views : event[i] # Unknown => i \in visits
  /\ \A o \in Orders : Told(o)

LEMMA NoSessionIs ==
  /\ NoSession \notin Session
  /\ NoSession.opened = Unknown /\ Unknown \notin Moments /\ Unknown \notin Sessions
  /\ \A r \in Session : r.first \in Moments /\ r.last \in Moments
<1>1. Unknown \notin Visitors /\ Unknown \notin Moments /\ Unknown \notin Sessions
  BY JourneysAssumption DEF Moments
<1> QED
  BY <1>1 DEF NoSession, Session

LEMMA InitJourneys == JourneysInit => JourneysInv
<1> SUFFICES ASSUME JourneysInit PROVE JourneysInv
  OBVIOUS
<1>1. JourneysTypeOK
  BY DEF JourneysInit, JourneysTypeOK, NoOrder
<1>2. ASSUME NEW s \in Sessions PROVE Spanned(s)
  <2>1. Seen(s) = {} /\ session[s] = NoSession
    BY NoSessionIs DEF Seen, JourneysInit
  <2> QED
    BY <2>1 DEF Spanned
<1>3. \A i \in Views : event[i] = Unknown
  BY JourneysAssumption DEF JourneysInit
<1>4. \A o \in Orders : Told(o)
  BY DEF JourneysInit, Told, NoOrder
<1> QED
  BY <1>1, <1>2, <1>3, <1>4 DEF JourneysInv

LEMMA IngestKeeps ==
  ASSUME JourneysInv, NEW v \in Visitors, NEW s \in Sessions, NEW E \in Batches, Ingest(v, s, E)
  PROVE  JourneysInv'
<1> DEFINE fresh == {i \in E : event[i] = Unknown}
           to == Extended(session[s], v, E, fresh)
<1>1. /\ \A i \in E : event[i] \in {s, Unknown}
      /\ fresh # {} /\ session' = [session EXCEPT ![s] = to]
      /\ event' = [i \in Moments |-> IF i \in E THEN s ELSE event[i]]
      /\ visits' = Visited(fresh)
      /\ UNCHANGED <<provider, switched, order, journey, origin, identity, queued>>
  BY DEF Ingest, outcomes
<1>2. E \in SUBSET Moments /\ E # {} /\ fresh \in SUBSET E /\ fresh \in SUBSET Moments
  <2>1. E \in SUBSET Moments /\ E # {}
    BY DEF Batches
  <2>2. fresh \in SUBSET E
    OBVIOUS
  <2> QED
    BY <2>1, <2>2
<1>3. /\ session \in [Sessions -> Session \cup {NoSession}]
      /\ event \in [Moments -> Sessions \cup {Unknown}] /\ Spanned(s)
  BY DEF JourneysInv, JourneysTypeOK
<1>4. \A i \in Moments : i \in Nat
  BY DEF Moments
<1>5. /\ Min(E) \in E /\ Max(E) \in E /\ \A i \in E : Min(E) <= i /\ i <= Max(E)
      /\ Max(fresh) \in fresh /\ \A i \in fresh : i <= Max(fresh)
  BY <1>1, <1>2, Extremes
<1> HIDE DEF fresh
<1>6. /\ to \in Session /\ to # NoSession
      /\ session[s] = NoSession => to.first = Min(E) /\ to.last = Max(E) /\ to.opened = Unknown
      /\ session[s] # NoSession => /\ to.first = Earlier(session[s].first, Min(E))
                                   /\ to.last = Later(session[s].last, Max(fresh))
                                   /\ to.opened = session[s].opened
  <2>1. CASE session[s] = NoSession
    <3>1. to = [visitor |-> v, first |-> Min(E), last |-> Max(E), opened |-> Unknown]
      BY <2>1 DEF Extended
    <3>2. to \in Session
      BY <1>2, <1>5, <3>1 DEF Session
    <3> QED
      BY <2>1, <3>1, <3>2, NoSessionIs
  <2>2. CASE session[s] # NoSession
    <3>1. session[s] \in Session
      BY <1>3, <2>2
    <3>2. to = [session[s] EXCEPT !.first = Earlier(session[s].first, Min(E)), !.last = Later(session[s].last, Max(fresh))]
      BY <2>2 DEF Extended
    <3>3. Earlier(session[s].first, Min(E)) \in Moments /\ Later(session[s].last, Max(fresh)) \in Moments
      BY <1>2, <1>5, <3>1 DEF Session, Earlier, Later
    <3>4. to \in Session /\ to.first = Earlier(session[s].first, Min(E)) /\ to.last = Later(session[s].last, Max(fresh))
          /\ to.opened = session[s].opened
      BY <3>1, <3>2, <3>3 DEF Session
    <3> QED
      BY <2>2, <3>4, NoSessionIs
  <2> QED
    BY <2>1, <2>2
<1> HIDE DEF to
<1>7. session' \in [Sessions -> Session \cup {NoSession}] /\ session'[s] = to
      /\ \A t \in Sessions : t # s => session'[t] = session[t]
  BY <1>1, <1>3, <1>6
<1>8. event' \in [Moments -> Sessions \cup {Unknown}]
  BY <1>1, <1>3
<1>9. JourneysTypeOK'
  <2>1. visits' \subseteq Moments
    BY <1>1, <1>2 DEF Visited, JourneysInv, JourneysTypeOK
  <2> QED
    BY <1>1, <1>7, <1>8, <2>1 DEF JourneysInv, JourneysTypeOK
<1>10. Spanned(s)'
  <2>1. Seen(s) \in SUBSET Moments /\ \A i \in E : i \in Seen(s) \/ i \in fresh
    BY <1>1, <1>2 DEF Seen, fresh
  <2>2. CASE session[s] = NoSession
    <3>1. Seen(s) = {}
      BY <1>3, <2>2 DEF Spanned
    <3>2. Seen(s)' = E
      BY <1>1, <1>2, <1>6, <1>7, <2>2, <3>1, NoSessionIs DEF Seen
    <3> QED
      BY <1>2, <1>6, <1>7, <2>2, <3>2 DEF Spanned
  <2>3. CASE session[s] # NoSession
    <3>1. Seen(s) # {} /\ session[s].first = Min(Seen(s)) /\ session[s].last = Max(Seen(s))
      BY <1>3, <2>3 DEF Spanned
    <3>2. Seen(s)' = Seen(s) \cup E
      BY <1>1, <1>2, <1>6, <1>7, <2>3 DEF Seen
    <3>3. Min(Seen(s)) \in Seen(s) /\ Max(Seen(s)) \in Seen(s) /\ \A i \in Seen(s) : Min(Seen(s)) <= i /\ i <= Max(Seen(s))
      BY <2>1, <3>1, Extremes
    <3> DEFINE S == Seen(s) \cup E
    <3>4. S \in SUBSET Moments
      BY <1>2, <2>1
    <3>5. to.first \in S /\ \A i \in S : to.first <= i
      BY <1>2, <1>4, <1>5, <1>6, <2>1, <2>3, <3>1, <3>3 DEF Earlier
    <3>6. to.last \in S /\ \A i \in S : i <= to.last
      BY <1>2, <1>4, <1>5, <1>6, <2>1, <2>3, <3>1, <3>3 DEF Later
    <3>7. Min(S) = to.first /\ Max(S) = to.last
      BY <3>4, <3>5, <3>6, Extreme
    <3> QED
      BY <1>6, <1>7, <3>1, <3>2, <3>7 DEF Spanned
  <2> QED
    BY <2>2, <2>3
<1>11. ASSUME NEW t \in Sessions, t # s
       PROVE  Spanned(t)'
  <2>1. \A i \in Moments : event'[i] = t <=> event[i] = t
    BY <1>1, <1>11, NoSessionIs
  <2>2. Seen(t)' = Seen(t)
    BY <1>7, <1>11, <2>1 DEF Seen
  <2>3. Spanned(t)
    BY DEF JourneysInv
  <2> QED
    BY <1>7, <1>11, <2>2, <2>3 DEF Spanned
<1>12. ASSUME NEW i \in Views, event'[i] # Unknown
       PROVE  i \in visits'
  <2>1. i \in Moments
    BY JourneysAssumption
  <2>2. CASE event[i] # Unknown
    BY <1>1, <2>2 DEF Visited, JourneysInv
  <2>3. CASE event[i] = Unknown
    <3>1. i \in fresh
      BY <1>1, <1>12, <2>1, <2>3 DEF fresh
    <3> QED
      BY <1>1, <3>1 DEF Visited
  <2> QED
    BY <2>2, <2>3
<1>13. ASSUME NEW o \in Orders
       PROVE  Told(o)'
  <2>1. origin[o] # Unknown => origin[o] \in Sessions
    BY DEF JourneysInv, JourneysTypeOK
  <2>2. origin[o] # Unknown => session'[origin[o]] # NoSession
    BY <1>6, <1>7, <2>1 DEF JourneysInv, Told
  <2> QED
    BY <1>1, <2>2 DEF JourneysInv, Told
<1> QED
  BY <1>9, <1>10, <1>11, <1>12, <1>13 DEF JourneysInv

LEMMA CountVisitKeeps ==
  ASSUME JourneysInv, NEW i \in Moments, CountVisit(i)
  PROVE  JourneysInv'
<1>1. visits' = visits \cup ({i} \cap Views)
      /\ UNCHANGED <<provider, switched, session, event, order, journey, origin, identity, queued>>
  BY DEF CountVisit, Visited, outcomes
<1>2. JourneysTypeOK'
  BY <1>1 DEF JourneysInv, JourneysTypeOK
<1>3. \A s \in Sessions : Spanned(s)'
  BY <1>1 DEF JourneysInv, Spanned, Seen
<1>4. \A o \in Orders : Told(o)'
  BY <1>1 DEF JourneysInv, Told
<1> QED
  BY <1>1, <1>2, <1>3, <1>4 DEF JourneysInv

\* Steps of orders leave the browsers' events and the sessions there are.
LEMMA SessionsStay ==
  ASSUME JourneysInv, UNCHANGED browsing
  PROVE  /\ \A s \in Sessions : Spanned(s)'
         /\ \A i \in Views : event'[i] # Unknown => i \in visits'
BY DEF JourneysInv, browsing, Spanned, Seen

\* attach_order: the session is there, or a checkout opens it.
LEMMA AttachKeeps ==
  ASSUME JourneysInv, NEW o \in Orders, NEW v \in Visitors, NEW s \in Sessions, NEW m \in Moments,
         Attach(o, v, s, m), UNCHANGED <<event, visits>>
  PROVE  /\ session' \in [Sessions -> Session \cup {NoSession}] /\ session'[s] # NoSession
         /\ \A t \in Sessions : session[t] # NoSession => session'[t] # NoSession
         /\ \A t \in Sessions : Spanned(t)'
<1> DEFINE to == [visitor |-> v, first |-> m, last |-> m, opened |-> m]
<1>1. session \in [Sessions -> Session \cup {NoSession}] /\ UNCHANGED <<event, visits>>
  BY DEF JourneysInv, JourneysTypeOK
<1>2. CASE session[s] # NoSession
  <2>1. session' = session
    BY <1>2 DEF Attach
  <2> QED
    BY <1>1, <1>2, <2>1 DEF JourneysInv, Spanned, Seen
<1>3. CASE session[s] = NoSession
  <2>1. to \in Session /\ to # NoSession /\ to.first = m /\ to.last = m /\ to.opened = m
    <3>1. to \in Session
      BY DEF Session
    <3> QED
      BY <3>1, NoSessionIs
  <2> HIDE DEF to
  <2>2. session' = [session EXCEPT ![s] = to]
    BY <1>3 DEF Attach, to
  <2>3. /\ session' \in [Sessions -> Session \cup {NoSession}] /\ session'[s] = to
        /\ \A t \in Sessions : t # s => session'[t] = session[t]
    BY <1>1, <2>1, <2>2
  <2>4. Seen(s) = {} /\ Seen(s)' = {m}
    <3>1. Seen(s) = {}
      BY <1>3 DEF JourneysInv, Spanned
    <3> QED
      BY <1>1, <2>1, <2>3, <3>1 DEF Seen
  <2>5. Spanned(s)'
    <3>1. Min({m}) = m /\ Max({m}) = m
      BY Extremes, {m} \in SUBSET Moments
    <3> QED
      BY <2>1, <2>3, <2>4, <3>1 DEF Spanned
  <2>6. ASSUME NEW t \in Sessions, t # s
        PROVE  Spanned(t)'
    <3>1. Seen(t)' = Seen(t) /\ session'[t] = session[t]
      BY <1>1, <2>3, <2>6 DEF Seen
    <3>2. Spanned(t)
      BY DEF JourneysInv
    <3> QED
      BY <3>1, <3>2 DEF Spanned
  <2> QED
    BY <1>3, <2>1, <2>3, <2>5, <2>6
<1> QED
  BY <1>2, <1>3

LEMMA CheckOutKeeps ==
  ASSUME JourneysInv, NEW o \in Orders, NEW v \in Visitors, NEW s \in Sessions, NEW m \in Moments,
         CheckOut(o, v, s, m)
  PROVE  JourneysInv'
<1> DEFINE row == [order[o] EXCEPT !.status = "PENDING"]
<1>1. /\ order[o] = NoOrder /\ order' = [order EXCEPT ![o] = row]
      /\ UNCHANGED <<provider, switched, event, visits>>
  BY DEF CheckOut
<1>2. row.status = "PENDING" /\ row.paid = FALSE
  BY <1>1 DEF NoOrder
<1>3. Tellable(row) = {}
  BY <1>2 DEF Tellable
<1> HIDE DEF row
<1>4. JourneysTypeOK /\ Told(o) /\ \A p \in Orders : Told(p)
  BY DEF JourneysInv
<1>5. journey[o] = {} /\ queued[o] = {} /\ o \notin identity
  BY <1>1, <1>4 DEF Told, NoOrder
<1>6. /\ order' \in [Orders -> [status: {"none", "PENDING", "CONFIRMED", "CANCELLED", "deleted"},
                               paid: BOOLEAN]]
      /\ order'[o] = row /\ \A p \in Orders : p # o => order'[p] = order[p]
  <2>1. row \in [status: {"none", "PENDING", "CONFIRMED", "CANCELLED", "deleted"}, paid: BOOLEAN]
    <3>1. row = [NoOrder EXCEPT !.status = "PENDING"]
      BY <1>1 DEF row
    <3>2. row = [status |-> "PENDING", paid |-> FALSE]
      BY <3>1 DEF NoOrder
    <3> QED
      BY <3>2
  <2> QED
    BY <1>1, <1>4, <2>1 DEF JourneysTypeOK
<1>7. "order_success" \in Outcomes
  BY DEF Outcomes
<1>8. CASE provider = "journeys" /\ Attach(o, v, s, m)
  <2>1. /\ session' \in [Sessions -> Session \cup {NoSession}] /\ session'[s] # NoSession
        /\ \A t \in Sessions : session[t] # NoSession => session'[t] # NoSession
        /\ \A t \in Sessions : Spanned(t)'
    BY <1>1, <1>8, AttachKeeps
  <2>2. /\ UNCHANGED <<identity, queued>>
        /\ \/ /\ journey' = [journey EXCEPT ![o] = {"order_success"}]
              /\ origin' = [origin EXCEPT ![o] = s]
           \/ UNCHANGED <<journey, origin>>
    BY <1>8 DEF Attach
  <2>3. JourneysTypeOK'
    BY <1>1, <1>4, <1>6, <1>7, <2>1, <2>2 DEF JourneysTypeOK
  <2>4. Told(o)'
    BY <1>1, <1>2, <1>3, <1>4, <1>5, <1>6, <1>8, <2>1, <2>2 DEF JourneysTypeOK, Told
  <2>5. ASSUME NEW p \in Orders, p # o
        PROVE  Told(p)'
    <3>1. journey'[p] = journey[p] /\ queued'[p] = queued[p] /\ origin'[p] = origin[p] /\ identity' = identity
      BY <1>4, <2>2, <2>5 DEF JourneysTypeOK
    <3>2. origin[p] # Unknown => session'[origin[p]] # NoSession
      BY <1>4, <2>1 DEF JourneysTypeOK, Told
    <3> QED
      BY <1>1, <1>4, <1>6, <2>5, <3>1, <3>2 DEF Told
  <2> QED
    BY <1>1, <2>1, <2>3, <2>4, <2>5 DEF JourneysInv
<1>9. CASE provider = "posthog" /\ AttachPosthog(o)
  <2>1. /\ identity' = identity \cup {o} /\ queued' = [queued EXCEPT ![o] = queued[o] \cup {"order_success"}]
        /\ UNCHANGED <<session, journey, origin>>
    BY <1>9 DEF AttachPosthog, Enqueued
  <2>2. JourneysTypeOK'
    BY <1>1, <1>4, <1>6, <1>7, <2>1 DEF JourneysTypeOK
  <2>3. Told(o)'
    BY <1>1, <1>2, <1>3, <1>4, <1>5, <1>6, <1>9, <2>1 DEF JourneysTypeOK, Told
  <2>4. ASSUME NEW p \in Orders, p # o
        PROVE  Told(p)'
    BY <1>1, <1>4, <1>6, <2>1, <2>4 DEF JourneysTypeOK, Told
  <2>5. UNCHANGED browsing
    BY <1>1, <2>1 DEF browsing
  <2> QED
    BY <2>2, <2>3, <2>4, <2>5, SessionsStay DEF JourneysInv
<1>10. CASE UNCHANGED <<session, outcomes>>
  <2>1. UNCHANGED <<session, journey, origin, identity, queued>> /\ UNCHANGED browsing
    BY <1>1, <1>10 DEF outcomes, browsing
  <2>2. JourneysTypeOK'
    BY <1>1, <1>4, <1>6, <2>1 DEF JourneysTypeOK
  <2>3. ASSUME NEW p \in Orders
        PROVE  Told(p)'
    BY <1>1, <1>2, <1>4, <1>5, <1>6, <2>1 DEF Told
  <2> QED
    BY <2>1, <2>2, <2>3, SessionsStay DEF JourneysInv
<1> QED
  BY <1>8, <1>9, <1>10 DEF CheckOut

\* sync_order_outcomes: what was told is brought up to the order's new row.
LEMMA CommandKeeps ==
  ASSUME JourneysInv, NEW o \in Orders,
         NEW row \in [status: {"PENDING", "CONFIRMED", "CANCELLED"}, paid: BOOLEAN],
         Command(o, row)
  PROVE  JourneysInv'
<1>1. /\ order[o].status \in {"PENDING", "CONFIRMED"}
      /\ order' = [order EXCEPT ![o] = row] /\ Sync(o, row)
      /\ UNCHANGED <<provider, switched, session, event, visits, origin, identity>>
  BY DEF Command, browsing, Sync
<1>2. UNCHANGED browsing
  BY <1>1 DEF browsing
<1>3. JourneysTypeOK /\ \A p \in Orders : Told(p)
  BY DEF JourneysInv
<1>4. /\ order' \in [Orders -> [status: {"none", "PENDING", "CONFIRMED", "CANCELLED", "deleted"},
                               paid: BOOLEAN]]
      /\ order'[o] = row /\ \A p \in Orders : p # o => order'[p] = order[p]
  BY <1>1, <1>3 DEF JourneysTypeOK
<1>5. /\ journey \in [Orders -> SUBSET Outcomes] /\ queued \in [Orders -> SUBSET Outcomes]
      /\ Tellable(row) \subseteq Outcomes
  BY <1>3 DEF JourneysTypeOK, Tellable
<1>6. /\ \A p \in Orders : p # o => journey'[p] = journey[p] /\ queued'[p] = queued[p]
      /\ journey' \in [Orders -> SUBSET Outcomes] /\ queued' \in [Orders -> SUBSET Outcomes]
      /\ \/ /\ provider = "posthog" /\ journey'[o] = journey[o]
            /\ queued'[o] = IF o \in identity THEN queued[o] \cup Tellable(row) ELSE queued[o]
         \/ /\ provider = "journeys" /\ queued'[o] = queued[o]
            /\ journey'[o] = IF "order_success" \notin journey[o] THEN journey[o]
                             ELSE journey[o] \cup Tellable(row)
  <2>1. CASE provider = "posthog" /\ SyncPosthog(o, row)
    <3>1. journey' = journey
          /\ queued' = IF o \in identity THEN [queued EXCEPT ![o] = queued[o] \cup Tellable(row)] ELSE queued
      BY <2>1 DEF SyncPosthog, Enqueued
    <3> QED
      BY <1>5, <2>1, <3>1
  <2>2. CASE /\ provider = "journeys"
             /\ journey' = IF "order_success" \notin journey[o] THEN journey
                           ELSE [journey EXCEPT ![o] = journey[o] \cup Tellable(row)]
             /\ UNCHANGED queued
    BY <1>5, <2>2
  <2> QED
    BY <1>1, <2>1, <2>2 DEF Sync
<1>7. JourneysTypeOK'
  BY <1>1, <1>3, <1>4, <1>6 DEF JourneysTypeOK
<1>8. Told(o)'
  BY <1>1, <1>3, <1>4, <1>6 DEF Told
<1>9. ASSUME NEW p \in Orders, p # o
      PROVE  Told(p)'
  BY <1>1, <1>3, <1>4, <1>6, <1>9 DEF Told
<1> QED
  BY <1>2, <1>7, <1>8, <1>9, SessionsStay DEF JourneysInv

LEMMA WithdrawKeeps ==
  ASSUME JourneysInv, NEW o \in Orders, Withdraw(o)
  PROVE  JourneysInv'
<1> DEFINE row == [order[o] EXCEPT !.status = "CANCELLED"]
<1>1. /\ order[o] = [status |-> "PENDING", paid |-> FALSE] /\ order' = [order EXCEPT ![o] = row]
      /\ UNCHANGED <<provider, switched, session, event, visits, journey, origin, identity, queued>>
  BY DEF Withdraw, browsing, outcomes
<1>2. row = [status |-> "CANCELLED", paid |-> FALSE]
  <2> DEFINE r == [status |-> "PENDING", paid |-> FALSE]
  <2>1. row = [r EXCEPT !.status = "CANCELLED"]
    BY <1>1
  <2> HIDE DEF row
  <2> QED
    BY <2>1
<1> HIDE DEF row
<1>3. JourneysTypeOK /\ \A p \in Orders : Told(p)
  BY DEF JourneysInv
<1>4. /\ order' \in [Orders -> [status: {"none", "PENDING", "CONFIRMED", "CANCELLED", "deleted"},
                               paid: BOOLEAN]]
      /\ order'[o] = row /\ \A p \in Orders : p # o => order'[p] = order[p]
  BY <1>1, <1>2, <1>3 DEF JourneysTypeOK
<1>5. Tellable(row) = {}
  BY <1>2 DEF Tellable
<1>6. JourneysTypeOK'
  BY <1>1, <1>3, <1>4 DEF JourneysTypeOK
<1>7. Told(o)'
  BY <1>1, <1>2, <1>3, <1>4, <1>5 DEF Told
<1>8. ASSUME NEW p \in Orders, p # o
      PROVE  Told(p)'
  BY <1>1, <1>3, <1>4, <1>8 DEF Told
<1>9. UNCHANGED browsing
  BY <1>1 DEF browsing
<1> QED
  BY <1>6, <1>7, <1>8, <1>9, SessionsStay DEF JourneysInv

LEMMA DeletionKeeps ==
  ASSUME JourneysInv, NEW o \in Orders, Delete(o)
  PROVE  JourneysInv'
<1> DEFINE row == [NoOrder EXCEPT !.status = "deleted"]
<1>1. /\ order' = [order EXCEPT ![o] = row]
      /\ journey' = [journey EXCEPT ![o] = {}] /\ origin' = [origin EXCEPT ![o] = Unknown]
      /\ identity' = identity \ {o} /\ queued' = [queued EXCEPT ![o] = {}]
      /\ UNCHANGED <<provider, switched, session, event, visits>>
  BY DEF Delete, browsing
<1>2. row = [status |-> "deleted", paid |-> FALSE]
  <2>1. row = [NoOrder EXCEPT !.status = "deleted"]
    OBVIOUS
  <2> HIDE DEF row
  <2> QED
    BY <2>1 DEF NoOrder
<1> HIDE DEF row
<1>3. JourneysTypeOK /\ \A p \in Orders : Told(p)
  BY DEF JourneysInv
<1>4. /\ order' \in [Orders -> [status: {"none", "PENDING", "CONFIRMED", "CANCELLED", "deleted"},
                               paid: BOOLEAN]]
      /\ order'[o] = row /\ \A p \in Orders : p # o => order'[p] = order[p]
  BY <1>1, <1>2, <1>3 DEF JourneysTypeOK
<1>5. JourneysTypeOK'
  BY <1>1, <1>3, <1>4 DEF JourneysTypeOK
<1>6. Told(o)'
  BY <1>1, <1>3 DEF JourneysTypeOK, Told
<1>7. ASSUME NEW p \in Orders, p # o
      PROVE  Told(p)'
  BY <1>1, <1>3, <1>4, <1>7 DEF JourneysTypeOK, Told
<1>8. UNCHANGED browsing
  BY <1>1 DEF browsing
<1> QED
  BY <1>5, <1>6, <1>7, <1>8, SessionsStay DEF JourneysInv

LEMMA NextJourneys == JourneysInv /\ [JourneysNext]_journeyVars => JourneysInv'
<1> SUFFICES ASSUME JourneysInv, [JourneysNext]_journeyVars PROVE JourneysInv'
  OBVIOUS
<1>1. ASSUME NEW v \in Visitors, NEW s \in Sessions, NEW E \in Batches, Ingest(v, s, E)
      PROVE  JourneysInv'
  BY <1>1, IngestKeeps
<1>2. ASSUME NEW i \in Moments, CountVisit(i)
      PROVE  JourneysInv'
  BY <1>2, CountVisitKeeps
<1>3. ASSUME NEW o \in Orders, OrderStep(o)
      PROVE  JourneysInv'
  BY <1>3, CheckOutKeeps, CommandKeeps, WithdrawKeeps, DeletionKeeps DEF OrderStep
<1>4. CASE Switch
  <2>1. /\ switched' = TRUE /\ provider' \in {"journeys", "posthog"}
        /\ UNCHANGED <<session, event, visits, order, journey, origin, identity, queued>>
    BY <1>4 DEF Switch, browsing, outcomes
  <2>2. JourneysTypeOK'
    BY <2>1 DEF JourneysInv, JourneysTypeOK
  <2>3. \A o \in Orders : Told(o)'
    BY <2>1 DEF JourneysInv, Told
  <2>4. UNCHANGED browsing
    BY <2>1 DEF browsing
  <2> QED
    BY <2>2, <2>3, <2>4, SessionsStay DEF JourneysInv
<1>5. CASE UNCHANGED journeyVars
  <2>1. /\ UNCHANGED <<provider, switched, session, event, visits, order, journey, origin, identity, queued>>
        /\ UNCHANGED browsing
    BY <1>5 DEF journeyVars, browsing, outcomes
  <2>2. JourneysTypeOK'
    BY <2>1 DEF JourneysInv, JourneysTypeOK
  <2>3. \A o \in Orders : Told(o)'
    BY <2>1 DEF JourneysInv, Told
  <2> QED
    BY <2>1, <2>2, <2>3, SessionsStay DEF JourneysInv
<1> QED
  BY <1>1, <1>2, <1>3, <1>4, <1>5 DEF JourneysNext

\* News of an order come from a command that makes them so; a checkout tells of
\* nothing but itself.
LEMMA NewsAreTrue == JourneysInv /\ [JourneysNext]_journeyVars => [NothingTooSoon]_journeyVars
<1> DEFINE News(o) == (journey'[o] \cup queued'[o]) \ (journey[o] \cup queued[o])
           Fair(o) == /\ "order_confirmed" \in News(o) => order'[o].status = "CONFIRMED"
                      /\ "payment_success" \in News(o) => order'[o].paid
<1> SUFFICES ASSUME JourneysInv, JourneysNext, NEW o \in Orders PROVE Fair(o)
  BY DEF NothingTooSoon
<1>1. JourneysTypeOK
  BY DEF JourneysInv
<1>2. ASSUME UNCHANGED <<journey, queued>>
      PROVE  Fair(o)
  BY <1>2
<1>3. ASSUME NEW p \in Orders, OrderStep(p)
      PROVE  Fair(o)
  <2>1. ASSUME NEW v \in Visitors, NEW s \in Sessions, NEW m \in Moments, CheckOut(p, v, s, m)
        PROVE  Fair(o)
    <3>1. /\ journey' \in {journey, [journey EXCEPT ![p] = {"order_success"}]}
          /\ queued' \in {queued, [queued EXCEPT ![p] = queued[p] \cup {"order_success"}]}
      BY <2>1 DEF CheckOut, Attach, AttachPosthog, Enqueued, outcomes
    <3>2. journey'[o] \subseteq journey[o] \cup {"order_success"} /\ queued'[o] \subseteq queued[o] \cup {"order_success"}
      BY <1>1, <3>1 DEF JourneysTypeOK
    <3> QED
      BY <3>2
  <2>2. ASSUME NEW row \in [status: {"PENDING", "CONFIRMED", "CANCELLED"}, paid: BOOLEAN], Command(p, row)
        PROVE  Fair(o)
    <3>1. order' = [order EXCEPT ![p] = row]
          /\ journey' \in {journey, [journey EXCEPT ![p] = journey[p] \cup Tellable(row)]}
          /\ queued' \in {queued, [queued EXCEPT ![p] = queued[p] \cup Tellable(row)]}
      BY <2>2 DEF Command, Sync, SyncPosthog, Enqueued
    <3>2. CASE o # p
      BY <1>1, <3>1, <3>2 DEF JourneysTypeOK
    <3>3. CASE o = p
      <4>1. order'[o] = row /\ News(o) \subseteq Tellable(row)
        BY <1>1, <3>1, <3>3 DEF JourneysTypeOK
      <4>2. /\ "order_confirmed" \in Tellable(row) => row.status = "CONFIRMED"
            /\ "payment_success" \in Tellable(row) => row.paid
        BY DEF Tellable
      <4> QED
        BY <4>1, <4>2
    <3> QED
      BY <3>2, <3>3
  <2>3. ASSUME Withdraw(p)
        PROVE  Fair(o)
    BY <1>2, <2>3 DEF Withdraw, outcomes
  <2>4. ASSUME Delete(p)
        PROVE  Fair(o)
    <3>1. journey'[o] \subseteq journey[o] /\ queued'[o] \subseteq queued[o]
      BY <1>1, <2>4 DEF Delete, JourneysTypeOK
    <3> QED
      BY <3>1
  <2> QED
    BY <1>3, <2>1, <2>2, <2>3, <2>4 DEF OrderStep
<1>4. ASSUME NEW v \in Visitors, NEW s \in Sessions, NEW E \in Batches, Ingest(v, s, E)
      PROVE  Fair(o)
  BY <1>2, <1>4 DEF Ingest, outcomes
<1>5. ASSUME NEW i \in Moments, CountVisit(i)
      PROVE  Fair(o)
  BY <1>2, <1>5 DEF CountVisit, outcomes
<1>6. CASE Switch
  BY <1>2, <1>6 DEF Switch, outcomes
<1> QED
  BY <1>3, <1>4, <1>5, <1>6 DEF JourneysNext

LEMMA OutcomesOf == JourneysInv => SessionsSpan /\ OutcomesKept
<1> SUFFICES ASSUME JourneysInv PROVE SessionsSpan /\ OutcomesKept
  OBVIOUS
<1>1. SessionsSpan
  BY Spans DEF JourneysInv
<1>2. OutcomesKept
  BY DEF JourneysInv, Told, OutcomesKept
<1> QED
  BY <1>1, <1>2

\* What an outlet learns of its visitors is what happened, however batches arrive and
\* whenever the provider is changed (ingest, attach_order, sync_order_outcomes).
THEOREM JourneysAlwaysTrue == JourneysSpec => JourneysTrue
BY InitJourneys, NextJourneys, NewsAreTrue, OutcomesOf, PTL DEF JourneysSpec, JourneysTrue
=============================================================================
