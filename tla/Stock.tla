------------------------------- MODULE Stock -------------------------------
(***************************************************************************)
(* Ingredients, their store room and the orders that use them.  A new      *)
(* order line consumes its recipe and keeps what it took in                *)
(* stock_consumption; lines removed or cancelled before preparation give   *)
(* it back; deleting an order may undo its stock movements.  Order         *)
(* commands, restocks, purchases and recounts are transactions that hold   *)
(* the row locks of the items they change until they commit, so each is    *)
(* one step here.  Editing an item in the inventory screen is not: it      *)
(* reads the item without a lock and saves the whole row.                  *)
(*                                                                         *)
(* listed       the InventoryItems that exist                              *)
(* stock[i]     InventoryItem.current_stock                                *)
(* draft        the item an edit has read, and the stock it had then       *)
(* recipe[p]    the sum of quantity_required of the RecipeItems of one     *)
(*              product, per item                                          *)
(* line[l]      OrderItem: its order, what it took (used), quantity,       *)
(*              requires_kitchen, progress (STARTED is PREPARING or READY) *)
(*              and is_voided                                              *)
(* order[o]     its status (ACTIVE is ACCEPTED, PREPARING or READY), and   *)
(*              whether it came from the website and was billed            *)
(* moved[o][i]  the sum of the StockTransactions that reference order o    *)
(* other[i]     the stock that no order's transactions explain: the sum of *)
(*              the other StockTransactions, what edits wrote over, and    *)
(*              what deleted orders used and did not give back             *)
(***************************************************************************)
EXTENDS Integers, FiniteSets, Functions

CONSTANTS
  Items, Products, Lines, Orders, NoOrder,
  NoItem,
  MaxRecipe,    \* bound: how much of an item one unit of a product needs
  MaxQuantity,  \* bound: units on one line
  MaxStock      \* bound: what a delivery or a count brings the stock to

ASSUME StockAssumption ==
  /\ NoOrder \notin Orders /\ NoItem \notin Items
  /\ MaxQuantity \in Nat \ {0} /\ MaxStock \in Nat /\ MaxRecipe \in Nat
  /\ IsFiniteSet(Lines) /\ IsFiniteSet(Orders)

VARIABLES listed, stock, draft, recipe, line, order, moved, other

store == <<listed, draft, recipe>>
vars == <<store, stock, line, order, moved, other>>

Quantities == 1..MaxQuantity
Open == {"PENDING", "ACTIVE", "DISPATCHED"}

LineRow == [order: Orders \cup {NoOrder}, used: [Items -> Nat], quantity: Quantities,
            kitchen: BOOLEAN, state: {"WAITING", "STARTED", "SERVED"}, voided: BOOLEAN]
OrderRow == [status: Open \cup {"ABSENT", "COMPLETED", "CANCELLED", "DELETED"},
             web: BOOLEAN, billed: BOOLEAN]

Nothing == [i \in Items |-> 0]
NoDraft == [item |-> NoItem, stock |-> 0]
Amounts == 0..MaxStock
Recipes == [Items -> 0..MaxRecipe]
NoLine == [order |-> NoOrder, used |-> Nothing, quantity |-> 1, kitchen |-> FALSE,
           state |-> "WAITING", voided |-> FALSE]
NoRow == [status |-> "ABSENT", web |-> FALSE, billed |-> FALSE]

TypeOK ==
  /\ listed \subseteq Items
  /\ draft \in [item: Items \cup {NoItem}, stock: Int]
  /\ stock \in [Items -> Int]
  /\ recipe \in [Products -> Recipes]
  /\ line \in [Lines -> LineRow]
  /\ order \in [Orders -> OrderRow]
  /\ moved \in [Orders -> [Items -> Int]]
  /\ other \in [Items -> Int]

Init ==
  /\ listed = {} /\ stock = Nothing /\ draft = NoDraft
  /\ recipe = [p \in Products |-> Nothing]
  /\ line = [l \in Lines |-> NoLine]
  /\ order = [o \in Orders |-> NoRow]
  /\ moved = [o \in Orders |-> Nothing]
  /\ other = stock

-----------------------------------------------------------------------------
LinesOf(o) == {l \in Lines : line[l].order = o}
Live(o) == {l \in LinesOf(o) : ~line[l].voided}

\* The sum of what `take' says of each of `lines', per item.
Total(lines, take) == [i \in Items |-> SumFunctionOnSet([l \in lines |-> take[l][i]], lines)]

Plus(a, b) == [i \in Items |-> a[i] + b[i]]
Minus(a, b) == [i \in Items |-> a[i] - b[i]]

\* Write a movement of `given' (back into the stock) for order o.
GiveBack(o, given) ==
  /\ stock' = Plus(stock, given)
  /\ moved' = [moved EXCEPT ![o] = Plus(@, given)]
  /\ UNCHANGED <<store, other>>

\* consume_stock over every line of a request; one line the stock cannot supply
\* rolls back the whole request.
Suffices(needs) == \A i \in Items : needs[i] > 0 => needs[i] <= stock[i]

Baskets ==
  UNION {[new -> [product: Products, quantity: Quantities, kitchen: BOOLEAN]] :
           new \in (SUBSET Lines) \ {{}}}

\* add_lines
AddLines(o, b) ==
  LET needs == [l \in DOMAIN b |-> [i \in Items |-> recipe[b[l].product][i] * b[l].quantity]]
      cooked == \E l \in DOMAIN b : b[l].kitchen
      total == Total(DOMAIN b, needs)
  IN /\ \A l \in DOMAIN b : line[l].order = NoOrder
     /\ Suffices(total)
     /\ line' = [l \in Lines |->
          IF l \in DOMAIN b
          THEN [order |-> o, used |-> needs[l], quantity |-> b[l].quantity,
                kitchen |-> b[l].kitchen,
                state |-> IF cooked THEN "WAITING" ELSE "STARTED", voided |-> FALSE]
          ELSE line[l]]
     /\ GiveBack(o, Minus(Nothing, total))

\* Staff and guests open ACTIVE orders, the website PENDING ones.
Create(o, web, b) ==
  /\ order[o].status = "ABSENT"
  /\ order' = [order EXCEPT ![o] = [status |-> IF web THEN "PENDING" ELSE "ACTIVE",
                                    web |-> web, billed |-> FALSE]]
  /\ AddLines(o, b)

AppendItems(o, b) ==
  /\ order[o].status \in {"ACTIVE", "COMPLETED"} /\ ~order[o].web /\ ~order[o].billed
  /\ order' = [order EXCEPT ![o].status = "ACTIVE"]
  /\ AddLines(o, b)

Accept(o) ==
  /\ order[o].status = "PENDING"
  /\ order' = [order EXCEPT ![o].status = "ACTIVE"]
  /\ UNCHANGED <<stock, store, line, moved, other>>

Bill(o) ==
  /\ order[o].status \in Open \cup {"COMPLETED"} /\ ~order[o].billed
  /\ order' = [order EXCEPT ![o].billed = TRUE]
  /\ UNCHANGED <<stock, store, line, moved, other>>

-----------------------------------------------------------------------------
(* The kitchen, which moves no stock.                                      *)

Progress(lines, state) ==
  line' = [l \in Lines |-> IF l \in lines THEN [line[l] EXCEPT !.state = state] ELSE line[l]]

\* A round, or every waiting line, is started.
Start(o, lines) ==
  /\ order[o].status = "ACTIVE"
  /\ lines # {} /\ lines \subseteq {l \in Live(o) : line[l].state = "WAITING"}
  /\ Progress(lines, "STARTED")
  /\ UNCHANGED <<stock, store, order, moved, other>>

\* A finished round is handed over; with the last one the order is completed.
Serve(o, lines) ==
  /\ order[o].status = "ACTIVE"
  /\ lines # {} /\ lines \subseteq {l \in Live(o) : line[l].state = "STARTED"}
  /\ Progress(lines, "SERVED")
  /\ order' = [order EXCEPT ![o].status =
       IF \A l \in Live(o) \ lines : line[l].state = "SERVED" THEN "COMPLETED" ELSE @]
  /\ UNCHANGED <<stock, store, moved, other>>

\* A delivery leaves when nothing waits, and is completed later.
Dispatch(o) ==
  /\ order[o].status = "ACTIVE"
  /\ \A l \in Live(o) : line[l].state = "STARTED"
  /\ order' = [order EXCEPT ![o].status = "DISPATCHED"]
  /\ UNCHANGED <<stock, store, line, moved, other>>

Deliver(o) ==
  /\ order[o].status = "DISPATCHED"
  /\ order' = [order EXCEPT ![o].status = "COMPLETED"]
  /\ Progress(Live(o), "SERVED")
  /\ UNCHANGED <<stock, store, moved, other>>

-----------------------------------------------------------------------------
(* Stock given back.                                                       *)

\* restore_stock: q units of a line, if its preparation has not started.
Share(l, q) == [i \in Items |-> (line[l].used[i] * q) \div line[l].quantity]

Fault_RestoredPrepared(l, q) == Share(l, q)

Restored(l, q) == IF line[l].state = "WAITING" THEN Share(l, q) ELSE Nothing

\* remove_order_item.  What stays recorded on the line shrinks with it, also when
\* a served item of a finished order is removed and nothing goes back.
RecordLeft(l, q) ==
  IF q = line[l].quantity THEN line[l].used ELSE Minus(line[l].used, Share(l, q))

\* Removing the whole line voids it and leaves its quantity readable.
UnitsLeft(l, q) == IF q = line[l].quantity THEN line[l].quantity ELSE line[l].quantity - q

RemoveItem(o, l, q) ==
  /\ order[o].status \in {"PENDING", "ACTIVE", "COMPLETED"} /\ ~order[o].billed
  /\ order[o].web => order[o].status = "PENDING"
  /\ l \in Live(o)
  /\ line[l].state = IF order[o].status = "COMPLETED" THEN "SERVED" ELSE "WAITING"
  /\ q \in 1..line[l].quantity
  /\ q = line[l].quantity => Live(o) # {l}
  /\ GiveBack(o, Restored(l, q))
  /\ LET cut == [line EXCEPT ![l] =
           [@ EXCEPT !.used = RecordLeft(l, q), !.voided = (q = line[l].quantity),
                     !.quantity = UnitsLeft(l, q)]]
     IN \* a round left without kitchen lines is ready; which lines share a round is
        \* in PosOrders, here any of the order's other waiting drinks may be in it
        \E ready \in SUBSET {m \in Live(o) : line[m].state = "WAITING" /\ ~line[m].kitchen
                                             /\ ~cut[m].voided} :
          line' = [m \in Lines |-> IF m \in ready THEN [cut[m] EXCEPT !.state = "STARTED"]
                                   ELSE cut[m]]
  /\ order' = [order EXCEPT ![o].status =
       IF @ = "PENDING" THEN @
       ELSE IF \A m \in Lines : line'[m].order = o /\ ~line'[m].voided => line'[m].state = "SERVED"
            THEN "COMPLETED" ELSE @]

\* mutate: staff cancel an order of which nothing was cooked or served.
Cancel(o) ==
  /\ order[o].status \in {"PENDING", "ACTIVE"}
  /\ \A l \in Live(o) : line[l].state # "SERVED"
  /\ \A l \in Live(o) : line[l].kitchen => line[l].state = "WAITING"
  /\ order' = [order EXCEPT ![o].status = "CANCELLED"]
  /\ GiveBack(o, Total(Live(o), [l \in Lines |-> Restored(l, line[l].quantity)]))
  /\ UNCHANGED line

\* CancelView.post: the customer cancels a pending website order; every line of it
\* goes through restore_stock, also those staff removed before.
CustomerCancel(o) ==
  /\ order[o].web /\ order[o].status = "PENDING"
  /\ order' = [order EXCEPT ![o].status = "CANCELLED"]
  /\ GiveBack(o, Total(LinesOf(o), [l \in Lines |-> Restored(l, line[l].quantity)]))
  /\ UNCHANGED line

\* delete_order: with `restore' the order's movements are undone; either way they
\* are erased with it.
Fault_UndoTwice(o, restore) ==
  /\ stock' = IF restore THEN Plus(stock, Minus(Nothing, Plus(moved[o], moved[o]))) ELSE stock
  /\ other' = IF restore THEN other ELSE Plus(other, moved[o])

Undo(o, restore) ==
  /\ stock' = IF restore THEN Minus(stock, moved[o]) ELSE stock
  /\ other' = IF restore THEN other ELSE Plus(other, moved[o])

Delete(o, restore) ==
  /\ order[o].status \notin {"ABSENT", "DELETED"}
  /\ Undo(o, restore)
  /\ moved' = [moved EXCEPT ![o] = Nothing]
  /\ order' = [order EXCEPT ![o] = [NoRow EXCEPT !.status = "DELETED"]]
  /\ line' = [l \in Lines |-> IF line[l].order = o THEN NoLine ELSE line[l]]
  /\ UNCHANGED store

-----------------------------------------------------------------------------
(* The store room and the menu.                                            *)

\* A StockTransaction without an order.
Booked(i, change) == other' = [other EXCEPT ![i] = @ + change]

\* inventory_item_create; the SKU is unique.
RegisterItem(i, n) ==
  /\ i \notin listed
  /\ listed' = listed \cup {i}
  /\ stock' = [stock EXCEPT ![i] = n]
  /\ Booked(i, n)
  /\ UNCHANGED <<draft, recipe, line, order, moved>>

Deliverable(i) == {q \in Amounts \ {0} : stock[i] + q <= MaxStock}

\* inventory_item_restock
Restock(i, q) ==
  /\ i \in listed /\ q \in Deliverable(i)
  /\ stock' = [stock EXCEPT ![i] = @ + q]
  /\ Booked(i, q)
  /\ UNCHANGED <<store, line, order, moved>>

Bills == [Items -> Amounts]

\* purchase_invoice_create: what the lines of a bill add up to per item.  An item nobody
\* knows is created by the line that names it.
Receive(got) ==
  /\ got # Nothing /\ \A i \in Items : got[i] \in Deliverable(i) \cup {0}
  /\ listed' = listed \cup {i \in Items : got[i] > 0}
  /\ stock' = Plus(stock, got) /\ other' = Plus(other, got)
  /\ UNCHANGED <<draft, recipe, line, order, moved>>

\* inventory_reconcile_audit: the items counted, whatever they held.
Recount(counted) ==
  /\ DOMAIN counted \subseteq listed
  /\ stock' = [i \in Items |-> IF i \in DOMAIN counted THEN counted[i] ELSE stock[i]]
  /\ other' = Plus(other, Minus(stock', stock))
  /\ UNCHANGED <<store, line, order, moved>>

\* InventoryItemDetailAPIView.patch reads an item ...
ReadItem(i) ==
  /\ i \in listed /\ draft = NoDraft
  /\ draft' = [item |-> i, stock |-> stock[i]]
  /\ UNCHANGED <<listed, recipe, stock, line, order, moved, other>>

\* The stock that the edit is told, or else the one it read.
SavedStock == Amounts \cup {draft.stock}

\* ... and saves the item whole, without a transaction.
SaveItem ==
  LET i == draft.item
  IN /\ draft # NoDraft /\ draft' = NoDraft
     /\ \E n \in SavedStock :
          stock' = [stock EXCEPT ![i] = n] /\ Booked(i, n - stock[i])
     /\ UNCHANGED <<listed, recipe, line, order, moved>>

\* recipe_item_create: one row more, also for an item the recipe has.
AddIngredient(p, i, n) ==
  /\ i \in listed /\ recipe[p][i] + n <= MaxRecipe
  /\ recipe' = [recipe EXCEPT ![p][i] = @ + n]
  /\ UNCHANGED <<listed, draft, stock, line, order, moved, other>>

\* _sync_children: a product is saved with other recipe_ingredients, while orders that
\* used the old ones are open.
EditRecipe(p, r) ==
  /\ r # recipe[p] /\ \A i \in Items : r[i] > 0 => i \in listed
  /\ recipe' = [recipe EXCEPT ![p] = r]
  /\ UNCHANGED <<listed, draft, stock, line, order, moved, other>>

StoreStep ==
  \/ \E i \in Items, n \in Amounts : RegisterItem(i, n) \/ Restock(i, n)
  \/ \E got \in Bills : Receive(got)
  \/ \E counted \in UNION {[some -> Amounts] : some \in SUBSET Items \ {{}}} : Recount(counted)
  \/ \E i \in Items : ReadItem(i)
  \/ SaveItem
  \/ \E p \in Products, i \in Items, n \in 1..MaxRecipe : AddIngredient(p, i, n)
  \/ \E p \in Products, r \in Recipes : EditRecipe(p, r)

Next ==
  \/ \E o \in Orders :
       \/ \E b \in Baskets : (\E web \in BOOLEAN : Create(o, web, b)) \/ AppendItems(o, b)
       \/ \E lines \in SUBSET Lines : Start(o, lines) \/ Serve(o, lines)
       \/ \E l \in Lines, q \in Quantities : RemoveItem(o, l, q)
       \/ Accept(o) \/ Bill(o) \/ Dispatch(o) \/ Deliver(o) \/ Cancel(o) \/ CustomerCancel(o)
       \/ \E restore \in BOOLEAN : Delete(o, restore)
  \/ StoreStep

Spec == Init /\ [][Next]_vars

-----------------------------------------------------------------------------
(* What must hold.                                                         *)

\* The lines of an order whose ingredients did not go back.
Charged(o) ==
  {l \in LinesOf(o) : ~ /\ line[l].state = "WAITING"
                        /\ line[l].voided \/ order[o].status = "CANCELLED"}

\* No stock from nothing: whatever was removed, cancelled or edited, an order taken
\* by staff or at the table still holds at least what its charged lines recorded.
\* Nothing is lost either: exactly that, while nothing of the order was served.
HeldAsRecorded ==
  \A o \in Orders, i \in Items : ~order[o].web =>
    LET recorded == Total(Charged(o), [l \in Lines |-> line[l].used])[i]
        unserved == \A l \in LinesOf(o) : line[l].state # "SERVED"
    IN /\ recorded <= -moved[o][i]
       /\ unserved => recorded = -moved[o][i]

\* The stock is what deliveries and counts left, less what the movements of the
\* orders explain, through deletions with and without restoring.
MovementsExplainStock ==
  \A i \in Items : stock[i] = other[i] + SumFunction([o \in Orders |-> moved[o][i]])
=============================================================================
