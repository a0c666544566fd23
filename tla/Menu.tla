-------------------------------- MODULE Menu --------------------------------
(***************************************************************************)
(* The menu of one outlet: what managers do to products, combos,           *)
(* categories, outlet overrides and the happy-hour schedule, the revision  *)
(* each change leaves, and how screens get the compiled menu through a     *)
(* cache that several requests fill at once.                               *)
(*                                                                         *)
(* A change is one transaction that ends in menu_changed and locks the     *)
(* revision row, so it is one step.  A request is not: it reads the        *)
(* revision, then the cache, then products and overrides by queries of     *)
(* their own, while changes commit between them.                           *)
(*                                                                         *)
(* product[p]    Product: state, price (base_price) and, of a combo, its   *)
(*               parts (one of each) and its deal                          *)
(* closed        the archived categories                                   *)
(* override[p]   OutletProductOverride: on (is_available, which the code   *)
(*               only reads together with that of the product), price,     *)
(*               hidden (a visibility flag set to False)                   *)
(* schedule      whether the outlet's schedule exists and is active; it    *)
(*               holds in odd minutes and takes HappyPercent off           *)
(* stocked       the products whose recipe the outlet's stock can serve    *)
(* revision      MenuRevision.revision, 0 before the first change          *)
(* cache         the menus compiled this minute, by revision               *)
(* screen[s]     the menu that screen s shows, with its ETag               *)
(* request[s]    the request of screen s in flight                         *)
(*                                                                         *)
(* The lock a builder takes on a key expires after ten seconds whether it  *)
(* is done or not, and a cached menu may be evicted or the cache be down:  *)
(* a request that finds no menu may always build one, and one that finds   *)
(* the key locked gives up, so the lock has no state here.                 *)
(* The event of a revision is published as those of Outbox are; a screen   *)
(* may ask at any time, so nothing depends on it.                          *)
(* One channel and one outlet; variants, modifiers, the product's own time *)
(* slots and images are left out.                                          *)
(***************************************************************************)
EXTENDS Integers, FiniteSets, Functions

CONSTANTS
  Plain, Combos, Categories, CategoryOf,
  BasePrices, OutletPrices, NoPrice,
  Deals,         \* combo_discount_type and combo_discount_value
  HappyPercent,  \* what the schedule takes off
  Screens,
  MaxRevision,   \* bound: revisions
  Scarce,        \* bound: the products whose stock may run out
  MaxMinute      \* bound: minutes

Products == Plain \cup Combos

ASSUME MenuAssumption ==
  /\ Plain \cap Combos = {} /\ CategoryOf \in [Products -> Categories]
  /\ IsFiniteSet(Plain) /\ BasePrices # {}
  /\ BasePrices \subseteq Nat /\ OutletPrices \subseteq Nat /\ NoPrice \notin Nat
  /\ Deals \subseteq [kind: {"percentage", "fixed_price", "amount_off"}, value: Nat]
  /\ \A d \in Deals : d.kind = "percentage" => d.value <= 100
  /\ HappyPercent \in 0..100
  /\ MaxRevision \in Nat /\ MaxMinute \in Nat

VARIABLES product, closed, override, schedule, stocked,
          revision, minute, cache, screen, request

catalogue == <<product, closed, override, schedule, stocked>>
delivery == <<minute, cache, request>>
menuVars == <<catalogue, revision, screen, delivery>>

NoDeal == [kind |-> "none", value |-> 0]
ProductRow == [state: {"absent", "active", "archived"}, price: Nat,
               parts: SUBSET Plain, deal: Deals \cup {NoDeal}]
OverrideRow == [on: BOOLEAN, price: OutletPrices \cup {NoPrice}, hidden: BOOLEAN]
NoOverride == [on |-> TRUE, price |-> NoPrice, hidden |-> FALSE]

Row == [shown: BOOLEAN, available: BOOLEAN, stocked: BOOLEAN, price: Nat]
Compiled == [revision: Nat, until: Nat, rows: [Products -> Row]]
NoMenu == [revision |-> 0, until |-> 0, rows |-> <<>>]
Revisions == 0..MaxRevision
Keys == [revision: Revisions, minute: 0..MaxMinute]

Step == {"idle", "asked", "products", "overrides"}
\* What a request has read: the overrides last.
Request ==
  [step: Step, key: Keys,
   product: [Products -> ProductRow] \cup {<<>>}, closed: SUBSET Categories,
   stocked: SUBSET Products, override: [Products -> OverrideRow] \cup {<<>>}]
NoRequest == [step |-> "idle", key |-> [revision |-> 0, minute |-> 0],
              product |-> <<>>, closed |-> {}, stocked |-> {}, override |-> <<>>]

MenuTypeOK ==
  /\ product \in [Products -> ProductRow] /\ closed \subseteq Categories
  /\ override \in [Products -> OverrideRow] /\ schedule \in BOOLEAN /\ stocked \subseteq Products
  /\ revision \in 0..MaxRevision /\ minute \in 0..MaxMinute
  /\ cache \in [Revisions -> Compiled \cup {NoMenu}]
  /\ screen \in [Screens -> Compiled \cup {NoMenu}]
  /\ request \in [Screens -> Request]

-----------------------------------------------------------------------------
(* Prices.                                                                 *)

AtLeast0(n) == IF n < 0 THEN 0 ELSE n
Percent(n, percent) == (n * percent + 50) \div 100

\* What a deal makes of the value of its parts, rounded half up.
Deal(deal, value) ==
  CASE deal.kind = "percentage" -> Percent(value, 100 - deal.value)
    [] deal.kind = "fixed_price" -> deal.value
    [] OTHER -> AtLeast0(value - deal.value)

PriceOfParts(price) == SumFunctionOnSet(price, DOMAIN price)

\* The combo in `row' priced from the base prices in `products'.
Repriced(row, products) ==
  [row EXCEPT !.price = Deal(row.deal, PriceOfParts([q \in row.parts |-> products[q].price]))]

\* pricing.py base_price, available, visible
BasePrice(products, overrides, p) ==
  IF overrides[p].price # NoPrice THEN overrides[p].price ELSE products[p].price

OnSale(products, shut, overrides, p) ==
  /\ products[p].state = "active"
  /\ CategoryOf[p] \notin shut /\ overrides[p].on

\* combo_baseline, which raises unless every part is still on the menu.
Whole(products, shut, c) ==
  \A q \in products[c].parts : products[q].state = "active" /\ CategoryOf[q] \notin shut

Baseline(products, overrides, c) ==
  Deal(products[c].deal,
       PriceOfParts([q \in products[c].parts |-> BasePrice(products, overrides, q)]))

\* item_price without variants and modifiers; a combo's own override comes first.
Happy(sched, m) == sched /\ m % 2 = 1

ItemPrice(products, overrides, p, sched, m) ==
  LET amount == IF p \in Combos /\ overrides[p].price = NoPrice
                THEN Baseline(products, overrides, p) ELSE BasePrice(products, overrides, p)
  IN IF Happy(sched, m) THEN Percent(amount, 100 - HappyPercent) ELSE amount

-----------------------------------------------------------------------------
(* The same menu twice: as the snapshot shows it and as an order is priced.*)

RowOf(products, shut, stock, overrides, sched, m, p) ==
  LET whole == p \in Plain \/ Whole(products, shut, p)
      parts == products[p].parts
  IN [shown |-> /\ products[p].state = "active" /\ CategoryOf[p] \notin shut
                /\ ~overrides[p].hidden,
      available |-> /\ OnSale(products, shut, overrides, p) /\ whole
                    /\ \A q \in parts : OnSale(products, shut, overrides, q),
      stocked |-> {p} \cup parts \subseteq stock,
      price |-> IF whole THEN ItemPrice(products, overrides, p, sched, m)
                ELSE IF Happy(sched, m) THEN Percent(products[p].price, 100 - HappyPercent)
                ELSE products[p].price]

\* next_price_change: the schedule begins and ends with every minute.
Until(sched, m) == IF sched THEN m + 1 ELSE 0

\* _compile_menu
Compile(key, products, shut, stock, overrides, sched) ==
  [revision |-> key.revision, until |-> Until(sched, key.minute),
   rows |-> [p \in Products |-> RowOf(products, shut, stock, overrides, sched, key.minute, p)]]

Fault_PartsUnchecked(p) ==
  /\ OnSale(product, closed, override, p) /\ ~override[p].hidden
  /\ p \in Combos => Whole(product, closed, p)

\* quote_items and quote_combo_components for one unmodified unit of p, as checkout
\* prices it: refused, or at what price.
Quotable(p) ==
  /\ OnSale(product, closed, override, p) /\ ~override[p].hidden
  /\ p \in Combos => /\ Whole(product, closed, p)
                     /\ \A q \in product[p].parts : OnSale(product, closed, override, q)

Quote(p) == ItemPrice(product, override, p, schedule, minute)

-----------------------------------------------------------------------------
(* Changes.                                                                *)

\* A menu loaded before anyone edits it: every plain product, and combos priced as saving
\* them would have.
Loaded(parts, deal) ==
  LET plain == [p \in Products |->
        [state |-> IF p \in Plain THEN "active" ELSE "absent",
         price |-> IF p \in Plain THEN CHOOSE n \in BasePrices : TRUE ELSE 0,
         parts |-> {}, deal |-> NoDeal]]
  IN [p \in Products |->
        IF p \in Plain \/ parts = {} THEN plain[p]
        ELSE Repriced([plain[p] EXCEPT !.state = "active", !.parts = parts, !.deal = deal], plain)]

MenuInit ==
  /\ \E parts \in {{}, Plain}, deal \in Deals : product = Loaded(parts, deal)
  /\ closed = {} /\ override = [p \in Products |-> NoOverride]
  /\ schedule = FALSE /\ stocked = Products
  /\ revision = 0 /\ minute = 0
  /\ cache = [n \in Revisions |-> NoMenu]
  /\ screen = [s \in Screens |-> NoMenu]
  /\ request = [s \in Screens |-> NoRequest]

\* menu_changed: the row is created with 1, then incremented.
MenuChanged ==
  LET n == (IF revision = 0 THEN 1 ELSE revision) + 1
  IN /\ n <= MaxRevision
     /\ revision' = n

\* What _combo accepts.
Composable(row, products) ==
  /\ row.parts # {}
  /\ \A q \in row.parts : products[q].state = "active" /\ CategoryOf[q] \notin closed

Containing(p) == {c \in Combos \ {p} : product[c].state = "active" /\ p \in product[c].parts}

Fault_NoRepricing(p, with) == with

\* Saving p prices every active combo it is part of again.
Following(p, with) == [c \in Products |-> IF c \in Containing(p) THEN Repriced(with[c], with) ELSE with[c]]

\* _save_product, under the restaurant's lock.
SaveProduct(p, row) ==
  LET saved == IF p \in Combos THEN Repriced(row, product) ELSE row
      with == [product EXCEPT ![p] = saved]
  IN /\ CategoryOf[p] \notin closed
     /\ p \in Combos => Composable(row, product)
     /\ \A c \in Containing(p) : Composable(with[c], with)
     /\ product' = Following(p, with)
     /\ MenuChanged
     /\ UNCHANGED <<closed, override, schedule, stocked, screen, delivery>>

ProductCreate(p, price, parts, deal) ==
  /\ product[p].state = "absent"
  /\ SaveProduct(p, [state |-> "active", price |-> price, parts |-> parts, deal |-> deal])

ProductUpdate(p) ==
  /\ product[p].state = "active"
  /\ \/ \E price \in BasePrices : SaveProduct(p, [product[p] EXCEPT !.price = price])
     \/ /\ p \in Combos
        /\ \E parts \in SUBSET Plain, deal \in Deals :
             SaveProduct(p, [product[p] EXCEPT !.parts = parts, !.deal = deal])

\* product_archive: not while an active combo has it.
Archivable(p) == Containing(p) = {}

ProductArchive(p) ==
  /\ product[p].state = "active" /\ Archivable(p)
  /\ product' = [product EXCEPT ![p].state = "archived"]
  /\ MenuChanged
  /\ UNCHANGED <<closed, override, schedule, stocked, screen, delivery>>

\* category_update: nothing asks what is in it.
CategoryUpdate(k, archived) ==
  /\ closed' = IF archived THEN closed \cup {k} ELSE closed \ {k}
  /\ MenuChanged
  /\ UNCHANGED <<product, override, schedule, stocked, screen, delivery>>

\* outlet_update_product sets the fields it is given.
OutletUpdate(p) ==
  /\ product[p].state = "active"
  /\ \/ \E on \in BOOLEAN : override' = [override EXCEPT ![p].on = on]
     \/ \E price \in OutletPrices \cup {NoPrice} : override' = [override EXCEPT ![p].price = price]
     \/ \E hidden \in BOOLEAN : override' = [override EXCEPT ![p].hidden = hidden]
  /\ MenuChanged
  /\ UNCHANGED <<product, closed, schedule, stocked, screen, delivery>>

\* schedule_save and schedule_delete
ScheduleChange(active) ==
  /\ schedule' = active
  /\ MenuChanged
  /\ UNCHANGED <<product, closed, override, stocked, screen, delivery>>

\* Stock runs out or comes back, for p or for everything: orders and their removal call
\* menu_changed; restocks, purchases and recounts do not.
OrderStock(stock) ==
  /\ stocked' = stock
  /\ MenuChanged
  /\ UNCHANGED <<product, closed, override, schedule, screen, delivery>>

StoreStock(stock) ==
  /\ stock # stocked
  /\ stocked' = stock
  /\ UNCHANGED <<product, closed, override, schedule, revision, screen, delivery>>

\* The minute is part of the key: nobody asks for the menus of the last one any more.
MinutePasses ==
  /\ minute < MaxMinute
  /\ minute' = minute + 1
  /\ cache' = [n \in Revisions |-> NoMenu]
  /\ UNCHANGED <<catalogue, revision, screen, request>>

-----------------------------------------------------------------------------
(* get_outlet_menu, one request of a screen at a time.                   *)

\* Requested at s: OutletMenuAPIView answers 304 when the ETag is the one s has.
Answer(s, menu) ==
  LET same(known) == /\ known # NoMenu
                     /\ menu.revision = known.revision /\ menu.until = known.until
  IN /\ screen' = [screen EXCEPT ![s] = IF same(@) THEN @ ELSE menu]
     /\ request' = [request EXCEPT ![s] = NoRequest]

Unchanged == UNCHANGED <<catalogue, revision, minute>>

Ask(s) ==
  /\ request[s].step = "idle"
  /\ request' = [request EXCEPT ![s] =
       [NoRequest EXCEPT !.step = "asked", !.key = [revision |-> revision, minute |-> minute]]]
  /\ Unchanged /\ UNCHANGED <<cache, screen>>

Hit(s) ==
  /\ request[s].step = "asked" /\ request[s].key.minute = minute
  /\ cache[request[s].key.revision] # NoMenu
  /\ Answer(s, cache[request[s].key.revision])
  /\ Unchanged /\ UNCHANGED cache

\* Another client's request, which read revision n when it was current (some request holds
\* it still) and everything else now, caches what it built.
BuildElsewhere(n) ==
  /\ n = revision \/ \E s \in Screens : request[s].step # "idle" /\ request[s].key.revision = n
  /\ cache' = [cache EXCEPT ![n] = Compile([revision |-> n, minute |-> minute],
                                           product, closed, stocked, override, schedule)]
  /\ Unchanged /\ UNCHANGED <<screen, request>>

\* The key is locked (503), or the worker died.
GiveUp(s) ==
  /\ request[s].step # "idle"
  /\ request' = [request EXCEPT ![s] = NoRequest]
  /\ Unchanged /\ UNCHANGED <<cache, screen>>

\* No menu under the key, or no cache to ask: catalog_context reads the products with their
\* categories and recipes, ...
ReadProducts(s) ==
  /\ request[s].step = "asked"
  /\ request' = [request EXCEPT ![s] = [@ EXCEPT !.step = "products", !.product = product,
                                                 !.closed = closed, !.stocked = stocked]]
  /\ Unchanged /\ UNCHANGED <<cache, screen>>

\* ... then the overrides, ...
ReadOverrides(s) ==
  /\ request[s].step = "products"
  /\ request' = [request EXCEPT ![s] = [@ EXCEPT !.step = "overrides", !.override = override]]
  /\ Unchanged /\ UNCHANGED <<cache, screen>>

Fault_LateKey(s) == [request[s].key EXCEPT !.revision = revision]

\* The revision the menu is labelled with is the one read before everything else.
Label(s) == request[s].key

\* ... then the schedules.  The menu is cached, if the cache takes it, and answered.
Finish(s) ==
  LET r == request[s]
      menu == Compile(Label(s), r.product, r.closed, r.stocked, r.override, schedule)
  IN /\ r.step = "overrides"
     /\ \/ /\ r.key.minute = minute
           /\ cache' = [cache EXCEPT ![r.key.revision] = menu]
        \/ UNCHANGED cache
     /\ Answer(s, menu)
     /\ Unchanged

-----------------------------------------------------------------------------
Change ==
  \/ \E p \in Plain, price \in BasePrices : ProductCreate(p, price, {}, NoDeal)
  \/ \E p \in Combos, parts \in SUBSET Plain, deal \in Deals : ProductCreate(p, 0, parts, deal)
  \/ \E p \in Products : ProductUpdate(p) \/ ProductArchive(p) \/ OutletUpdate(p)
  \/ \E k \in Categories, archived \in BOOLEAN : CategoryUpdate(k, archived)
  \/ \E active \in BOOLEAN : ScheduleChange(active)
  \/ \E gone \in SUBSET Scarce : OrderStock(Products \ gone) \/ StoreStock(stocked \ gone)

Serve(s) == Ask(s) \/ Hit(s) \/ GiveUp(s) \/ ReadProducts(s) \/ ReadOverrides(s) \/ Finish(s)

MenuNext ==
  \/ Change \/ MinutePasses
  \/ \E s \in Screens : Serve(s)
  \/ \E n \in Revisions : BuildElsewhere(n)

MenuSpec == MenuInit /\ [][MenuNext]_menuVars

-----------------------------------------------------------------------------
(* What must hold.                                                         *)

Now == Compile([revision |-> revision, minute |-> minute], product, closed, stocked, override, schedule)

\* The ETag of a screen names the menu as it is.
UpToDate(s) == screen[s].revision = Now.revision /\ screen[s].until = Now.until

Offered(row) == [shown |-> row.shown, available |-> row.available, price |-> row.price]

\* A screen whose ETag is current shows the current menu: although menus are put together
\* from queries between which managers commit, although builders overlap and cached menus
\* outlive changes, nothing older than its revision is ever shown, or kept by a 304.
ETagHonest ==
  \A s \in Screens : screen[s] # NoMenu /\ UpToDate(s) =>
    \A p \in Products : Offered(screen[s].rows[p]) = Offered(Now.rows[p])

\* Checkout prices what the menu shows: after any edits exactly the items shown as available
\* can be ordered, at the price shown, combos with overridden or retired parts included.
MenuMatchesQuote ==
  \A p \in Products :
    LET row == Now.rows[p]
    IN /\ Quotable(p) <=> row.shown /\ row.available
       /\ Quotable(p) => Quote(p) = row.price

\* The stored price of every active combo follows its parts, whichever of them was edited
\* last, and none of its parts was archived.
CombosFollowParts ==
  \A c \in Combos : product[c].state = "active" =>
    /\ product[c] = Repriced(product[c], product)
    /\ product[c].parts # {} /\ \A q \in product[c].parts : product[q].state = "active"
=============================================================================
