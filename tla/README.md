# Crunchy Bites back end: a verification project in TLA+

The program is the back end of a restaurant chain: a Django/DRF application with
WebSocket consumers (Channels), background tasks (Celery beat and workers) and one SQL
database. Staff terminals, guests at a table's QR code or a kiosk, website customers,
riders and managers send commands; a command is a database transaction, or several where
the code says so; screens learn of it through an outbox. This directory holds TLA+ models
of the program, TLC runs over small instances and TLAPS proofs for all instances. Paths
below are relative to `src/apps/`; `PROJECT.json` maps every definition to its lines.

## 1. Inventory

| component | state | operations | what is hard, and what makes it correct | module |
|---|---|---|---|---|
| Staff-managed orders (`orders/pos_services.py`, `preparation.py`, `pos_selectors.py`, `self_service.py`, `customer_web/views.py`) | `Order`, `OrderItem`, `DiningTable.active_session_id` | create, append, round and status transitions, void, bill, settle, refund, corrections, cancel, delete | five kinds of senders share tables and orders; a long series of legal commands. No table shared, or freed under a party; rounds, status and bill tell one story | PosOrders |
| Settlement (`pos_services.py`, `payments/corrections.py`, `customer_web/account_services.py`) | amounts on `Order`, `PaymentTransaction`, `PosCreditEntry`, `CustomerCollection` | totals, tenders, khata, refund, payment on account, corrections, deletion | cash rounding depends on the method, which tenders change; deletion takes payments and leaves collections. The books agree, nothing is over-collected | Settlement |
| Stock (`pos_services.py`, `orders/deletion.py`, `inventory/services.py`, `views.py`) | `InventoryItem.current_stock`, `OrderItem.stock_consumption`, `StockTransaction`, `RecipeItem` | consume, restore, delete with restore, restock, purchase, recount, item and recipe edits | partial removals, cancellation and deletion each give stock back; nothing is invented or lost | Stock |
| Command protocol (`PosMutation`, `CustomerOrder`, row locks) | request keys, versions, locks | idempotent replay, version check, locking, scrubbing on deletion | lost answers, repeated and delayed requests, aborts, guests who join a table without naming its order. A request takes effect once, every answer is true | Commands, ExactlyOnce |
| Event outbox and screens (`orders/tasks.py`, `pos_consumers.py`, `consumers.py`) | `OrderOutboxEvent`, channel layer, the revision a screen knows | publish, back off, heartbeat, fetch | overlapping runs, crashes, dropped messages, commit order. What is committed is published and seen | Outbox |
| Legacy orders, counter settlement, delivery (`orders/services.py`, `payments/services.py`, `delivery/services.py`) | the same order rows with `is_pos_managed = False`, invoices, dispatches | append to tab, transition, settle, dispatch, rider updates; of the staff commands, payment on account and deletion | saves of stale copies beside a settlement; numbers that are counted without a lock, and after a deletion. Orders are invoiced and charged once | Legacy, FiscalBook |
| Suppliers and daybook (`inventory/supplier_services.py`, `daybook/services.py`, `payments/corrections.py`) | `PurchaseInvoice`, `SupplierPayment`, balances, `DaybookEntry`, `PaymentMethodCorrection` | purchase, payment, void, reconcile, import, edit, correct | advances, late bills and reversals in any order; lists that are out of date. Balances and copies agree | Suppliers, Daybook |
| Attendance and staff meals (`daybook/attendance.py`, `khaja.py`) | revisioned cells and days | write from a revision | several editors, repeated requests. No edit is lost unseen | Attendance |
| Menu (`catalog/`) | products, combos, overrides, schedules, `MenuRevision`, cache | edits, compilation, quote | a menu compiled while changes commit. Its label promises no more than it holds | Menu |
| Cart and checkout, addresses (`customer_web/services.py`, `views.py`) | `CustomerCart`, `CustomerCartMerge`, `CustomerOrder`, `CustomerAddress` | save, merge, consume, add, edit, remove | two devices and checkouts in flight; repeats. Nothing vanishes, nothing is done twice | Carts, Addresses |
| Customer accounts (`customer_web/otp.py`, `auth.py`, `auth_accounts.py`, `user_accounts/services.py`) | `SignupChallenge`, `User`, `Employee` | issue, verify, spend a code; hire, edit, remove staff | codes raced by two requests, accounts raised to staff meanwhile | Accounts |
| Outbound queues (`customer_web/tasks.py`, `orders/tasks.py`, `messaging/tasks.py`) | five tables of rows with attempts and leases | list, claim, send, record, give up | leases that expire under a slow worker, killed workers | Deliveries |
| Website journeys (`customer_web/journey_services.py`, `posthog_services.py`) | sessions, events, visits, order outcomes | ingest, checkout, settle, delete | repeated and late batches. A span and an outcome come out the same | Journeys |
| Chat (`messaging/`) | `Message`, `Conversation`, receipts, events | send, read, page, heartbeat | ids that commit in order, lost events | Chat |
| Outlets (`restaurants/services.py`, `selectors.py`) | `Branch` switches, the status cache | create, edit, pause | rows saved whole from stale reads; a cache dropped before the commit | Outlets |
| Customer directory (`customer_web/account_services.py`, `contact_signals.py`, `loyalty/signals.py`) | `CustomerContact`, the links of orders, `LoyaltyPurchase` | file, rename, discount, collect | orders follow a renamed customer at their next save. Whoever owes stays reachable | Contacts |
| Tables and QR codes, loyalty programme, permissions, receipts, reports, reviews, deployment | configuration, read models, snapshots | | no protocol of their own | section 7 |

Commands meet in the database. Staff and guest commands lock the outlet's `Branch` row,
then the order; a website checkout of a customer locks the customer, then the outlet; a
customer's cancellation locks only the order. Every command writes its events in its own
transaction. Celery beat starts the publishers and sweeps (`crunchy_backend/settings.py`);
`deploy/crunchy-celery.service` runs two workers, so runs overlap.

## 2. Modules

The order commands are modelled in several projections, each on the data one question is
about, because their product is out of TLC's reach: tables and rounds (`PosOrders`),
amounts (`Settlement`), ingredients (`Stock`), versions and keys (`Commands`), events
(`Outbox`), accounts (`Contacts`). A projection that leaves a condition out allows more
behaviours, never fewer.

**PosOrders.** `order`, `item` and `session` are the columns of `Order`, `OrderItem` and
`DiningTable` that decide about tables and rounds. Each action is one command with all it
calls: the branches of `mutate` (`StaffCreate`, `Append`, `AdvanceRound`, `Accept`,
`Prepare`, `MarkReady`, `Dispatch`, `Complete`, `Cancel`, `RemoveItem`, `Bill`, `Settle`,
`Refund`, `CorrectFulfillment`), `checkout` (`SelfServiceCreate`, `SelfServiceAppend`), the
website's views (`WebCheckout`, `CustomerCancel`), `receive_customer_payment`
(`CollectOnAccount`) and `delete_order` (`Delete`). `Synced`, `WithRound` and
`WithoutUnits` are `sync_status`, `add_lines` and the tail of `remove_order_item`. A
command is one step: it holds the outlet's row lock, or the order's, and reads nothing
another command could change while it waits.

**Settlement.** `bill[o]` is the money of an order beside the sums of its ledger rows;
`collections` is what a customer paid on account and `allocated[o]` what the collections'
snapshots say reached order `o`. `Delete` takes an order with its payments and credit
entries; collections and snapshots stay. `Total` rounds a cash order down to
whole rupees, `Tendered` is `record_tenders`, `Retotalled` is `apply_totals`; `Applied`
and `Collect` hand a payment on account to the orders, oldest first.

**Stock.** Two ghosts, `moved[o]`, the sum of the transactions that refer to an order, and
`other`, the stock that no order explains. An edit of an item is two steps
(`ReadItem`, `SaveItem`), everything else holds the item's row lock.

**Commands** is a worker's way through a request: key look-up, locks in the code's order,
decision, commit, with an abort possible at every step; what a change does is reduced to a
version and a status. A request of kind `scan` is a guest's `checkout` without a tracking
token: it opens an order at a free table and joins the one that runs at a taken one
(`Join`), on whatever version that has. With a token it is an `update` like any other. **ExactlyOnce** is the abstract promise: the requests that took
effect on each order and the last answer. `KeepsPromise` is the refinement; `history` and
`answer` are ghosts with the meaning they have there.

**Outbox.** The events, the publishers' lists and locked rows, the screens. An event is
DRAWN once its transaction has stamped it; `CancelView` may commit late. `Send` reaches
any subset of the screens. A screen's reaction to a heartbeat is that of the documented
client, which is not in this repository (external).

**Legacy** interleaves unlocked requests statement by statement: what a worker read
(`work[w].row`), and the row it saves. Two staff commands do not ask who manages an order
and reach legacy ones: `PayOnAccount`, which leaves a payment and no invoice, and
`DeleteOrder`, after which a stale save inserts the row again. **FiscalBook** is what
remains of the counter's promise: an order is entered and charged in one step, once; a
number names one order while that stands; an order paid on account is not entered; only a
deletion takes entries and charges out, those of one order together; and until the first
deletion the numbers have no gap. `KeepsBook` is the refinement. What an invoice says
(amounts, the method that `correct_method` rewrites) is not modelled, only that it is there.

**Daybook** and **Suppliers** (which extends it) hold the outlet's lock in every request;
what varies is the list a client acts on. **Attendance** is the revision protocol of the
sheet and the meal plan. **Menu** splits a request for the menu into its queries
(revision, cache, products, overrides), with changes between them. **Carts**,
**Addresses**, **Accounts**, **Deliveries**, **Journeys**, **Chat**, **Outlets** and
**Contacts** have their state listed in their headers; requests that read before they lock
take several steps there, the others one.

`MC*` modules give TLC symmetry sets and definitions. Some run two components together
(Suppliers and Attendance, Deliveries and Journeys, Carts and Addresses, Commands and
Contacts, Chat and Outlets). These share no state and the code couples them by nothing
that is modelled, so the sum and not the product of their behaviours is explored: each
action of the one requires the other to be in an initial state. A behaviour is of the one or
of the other.

The `Fault_` operators are plausible mistakes; one in place of the definition it stands
next to violates the property it is meant for. No action uses them. `TypeOK` is in every
module; a run does not check it where a theorem does.

## 3. Runs

| run | instance | why it is enough |
|---|---|---|
| `pos` | 2 orders, 3 lines of one unit, 1 table, 2 sessions, 2 rounds, kitchen and other lines | two orders compete for a table; a line alone in a round, two in one, and a round that reopens a finished order; a second session for a move |
| `settlement` | 2 orders, together worth at most 2, cash and another method, 2 units to the rupee, 50 % service, rewards of 0 and 1 | rounding loses 0 or 1 units, the service charge rounds half up, tenders split two ways, a payment on account spans two orders, of which one may be deleted |
| `stock` | 1 ingredient, 1 product of recipe 0 or 1, 2 lines of 1 or 2 units, 2 orders, stock to 3 | ingredients meet in no formula; one line is removed in part or whole while the other stays; a unit of a line of two is half of what it took |
| `commands` | 2 workers, 2 orders, 2 staff keys, 1 customer key; 1 sale, 2 phones of which 1 mobile, 1 name, 2 contacts | a lock is between two; two keys let a change follow the request it is confused with; the other contact is whom an order moves to |
| `outbox` | 2 orders, 3 events, 2 publishers, 1 failure, 1 screen | runs overlap; three events put a late one between two others; screens do not interact |
| `legacy` | 2 workers, 2 orders of which one names a customer, may be a delivery and may be deleted, 1 table, 1 key, 1 session | two requests race on a row, a number or a key; the other order has the later number or the earlier one when the deletable one goes |
| `suppliers` | openings -1, 0, 1, amounts 1 and 2, 2 dates, 2 bills, 4 rows, payments of 1 order; 2 editors, 1 cell, 1 day, 1 product, revision 3 | a bill entered late is older than one before it; an advance and a debt; a third revision is one an editor missed |
| `menu` | a product and a combo in 2 categories, prices 2 and 4, outlet price 1, half-price hour, 3 revisions, 1 screen, 2 minutes | a change falls between any two queries and a second one after it |
| `accounts` | 2 brands, 2 accounts, 3 codes, 2 requests, 2 tries, 2 staff edits | a code is raced, replaced and one of the other brand remains |
| `deliveries` | a row of any of the five kinds, 2 runs, 4 attempts; 2 visitors, 2 sessions, 1 order, 3 moments, 2 page views | rows do not interact; runs overlap, and one may list a report before the other has used up its attempts |
| `carts` | 1 line of at most 2 units, 2 devices, 2 keys, 2 requests, version 4; 3 places, 3 addresses | lines meet in no formula; two checkouts sent twice |
| `chat` | 1 app, 3 messages, 2 handlers, 4 ids, pages of 1; 2 outlets of which dashboards show 1, 2 edits, 1 order, 1 dashboard | an id may be lost to a rollback; two edits overlap |

What each run shows is in `PROJECT.json`; all of them pass. Bounds are named where they are
declared (`\* bound`); they stand in guards or in the sets inputs are drawn from.
`MaxAttempts`, `MaxTries` and `MaxAddresses` are constants of the code. Symmetry covers
what no formula tells apart and is used in no run with liveness. Deadlock is checked in
`pos`, `stock`, `commands` and `carts`; the other systems come to rest when their bounds
are used up, everything is delivered or, in `settlement`, every order is deleted.

**Fairness** is assumed where the deployment gives it, and only there. *Outbox*:
transactions end, beat starts the publisher and a worker runs it, back-offs expire, a
connected screen pings and fetches. *Deliveries*: rows come due and grow old, beat starts
the sweep, a started run goes on, and it is not at every attempt killed (strong fairness of
`Sweep`, `List` and `Working`, since overlapping runs and killed workers disable them
again and again). *Chat*: an open app pings and fetches. *Outlets*: a cache entry times
out. Nobody is assumed to send a command, no failure to happen or to stop but by the
bound, and no message to arrive: `ScreensCatchUp` and `MessagesReach` rest on heartbeats
alone.

## 4. What is proved

Eight modules of proofs, each for every value of the constants that satisfies the
assumption of the module it is about (sentinels are no members, bounds are naturals; the
lines and orders of Stock, the outlets of a brand and the orders of Contacts are finitely
many, the ids of the latter above zero). In each, an inductive invariant is stated
first, was checked by TLC, and is shown to hold initially and to survive every action;
the theorems follow from it.

| module | theorems | inductive invariant, besides types |
|---|---|---|
| PosOrders | `TablesAlwaysKept`, `StatusAlwaysFollows`, `RoundsAlwaysSound`, `OffersAlwaysKept`, `BillsAlwaysLock`, `TicketsAlwaysStand` | `SeatingInv`, `KitchenInv` |
| Settlement | `LedgerAlwaysAgrees`, `NeverTooMuch`, `AlwaysJustified`, `BillsStayFrozen` | `Sound` of every bill, `Shared` |
| Menu (in Settlement_proofs) | `ETagAlwaysHonest`, `MenuAlwaysMatches`, `CombosAlwaysFollow` | `Labelled`, `Reads`, `PlainAlone` |
| Stock | `StockAlwaysExplained`, `AlwaysHeldAsRecorded` | `StockSound` of every order, `NewItemsUntouched` |
| Daybook and Suppliers (in Stock_proofs) | `BooksAlwaysAgree`, `OldestAlwaysFirst` | `Places`, `HasEntry` of every payment, `Account` of every supplier |
| Commands | `AtMostOnce`, `CommandsKeepPromise` | `OrdersKnow`, `RepliesKnow`, `WorkersServe`, `LocksHeld`, `FindingsStand` |
| Contacts (in Commands_proofs) | `DirectoryAlwaysTrue` | `SaleOK` of every order, `BookOK`, `StrayOK` |
| Outbox | `SentOncePerBreak`, `PublishedOnlyIfSent`, `DeletionIsLast`, `HeartbeatRecoversInOrder` | `OnceInv`, `DeletedLast`, `RecoverInv` |
| Legacy | `PaidAlwaysExplained`, `LegacyKeepsBook` | `NumbersKnown`, `BookMatches`, `CopiesExplained` |
| Carts | `VersionsAlwaysIdentify`, `AlwaysOrderedOnce`, `NothingEverVanishes` | `VersionsReached`, `LinksKnow`, `LocksServe` |
| Addresses (in Carts_proofs) | `AlwaysDoneOnce`, together with Carts | `AddedOnce` itself |
| Journeys (in Carts_proofs) | `JourneysAlwaysTrue` | `Spanned` of every session, `Told` of every order |
| Deliveries (in Legacy_proofs) | `RetriesAlwaysBounded` | `Held` of every run, `Owing` and `Within` of every row |
| Accounts | `AlwaysOneCodeOneUse`, `StaffAlwaysUntouched` | `CodesInv`, `AccountsHeld` |
| Outlets (in Accounts_proofs) | `AlwaysOneMainOutlet`, `PauseAlwaysHolds` | `OrdersHold`, `LocksApart`, `EditAlone` |
| Attendance (in Accounts_proofs) | `EditsAlwaysSeen` | `EditorsSaw` |
| Chat (in Accounts_proofs) | `AlwaysOneOrder` | `InOrder`, `OneSender`, `NoGap` |

Those with a module of their own have `TypeCorrect` as well; for the others types are part of the invariant.

*PosOrders, tables.* Releasing a table clears it only if its session is the order's
(`pos_services.py:400`), so no two orders may ever have had the same session
(`SessionsDistinct`) and an order has one exactly if it has a table (`SeatHasSession`). A
finished order keeps neither; a step must not make it active by accident: removing an item
derives the status again, and it stays COMPLETED only because every line left was served
(`CompletedServed`). *Rounds.* `Agrees` is `StatusFollowsRounds` strengthened by what the
commands rely on: a round is uniform, a round that waits for or is with the kitchen has a
kitchen line (`Cooked`; without it the kitchen would have nothing to finish), a website order has one round, pending and
cancelled orders have nothing started. Since a command writes the lines of one order, one
lemma frames the others.

*Settlement.* `Sound` is the three properties of the bill together with `total` being one
of the two prices an order can have, rounded or not (`Prices`), which is what freezes
the total up to the rounding, and with what an unopened or deleted order is. `Shared` needs
sums: a payment on account is handed out oldest first, and the lemma `Spread` shows that
the shares add up to the payment. They are those of the collections' snapshots, which
outlive the order, so a deletion moves no term of the sum.

*Stock.* The property speaks of the charged lines of an order, a set that every command
changes. The proof counts every line of the outlet with what it charges (`Charge`, zero
if nothing), so that each command moves known terms of one sum: a new line adds what it
took, a removal takes off the share it returns, a cancellation what the waiting lines held,
progress nothing. `Portion` is the arithmetic of shares: the part of a line returned is
between nothing and all of it, and all units return all. `NewItemsUntouched` is needed
because registering an item sets its stock instead of adding to it.

*Menu.* A change numbers itself beyond every label that was given out, so a menu labelled with the
current revision is the current one of some minute (`Labelled`), and while a schedule is
active the minute is part of the ETag. A request under way has read what is still current
unless the revision has moved on since it read that (`Reads`); this is why the order of its
reads matters. Combos rest on plain products having no parts (`PlainAlone`).

*Daybook and Suppliers.* Daybook's two properties are inductive once what places name
exists (`Places`): an import takes each payment once, and a correction extends the trail of
one payment and of no other (`TrailGrows`, `TrailAside`). `Account` says what
`reconcile_supplier` left: each bill has what it received at once and its allocation, the
balance and the vouchers are sums over bills and payments. That the bills are due the
balance is then `PoolSpent`: bills taken with all that come before them receive the pool
or all they are owed, whichever is less, by induction on how many they are, the last one by
date being taken out (`LastBill`). Only a payment's own reversal or correction reaches its
entry (`HasEntry`), because the daybook refuses to void it.

*Commands.* A change is committed only under locks whose protection the proof has to name:
what a worker has found out under the customer's or the outlet's lock is still so when it
commits (`FindingsStand`, from `LocksHeld`), and the reply saved under a key is that of the
one request with the key that had an effect (`RepliesKnow`). `AtMostOnce` holds for all
senders and allows one deviation, `RefusedTwice`: a website guest who taps twice may be
told that the order is refused, by their own order. A scan that joins a table is one effect
on an order whose opener stands at its head and that nothing has ended since; it needs the
outlet's lock and the order's row, and no version. `CommandsKeepPromise` states the
refinement proper where there is no such guest, which is also the instance `commands` runs.

*Contacts.* An order that was saved on its own is in the account its customer is found
under, or that customer was renamed since (`SaleOK`); the directory has each customer once
(`BookOK`), so what was found stays found when it grows. `StrayOK` says what a cancellation
or a rider's report that reads before it locks may still rely on when it saves. A payment on
account saves its orders one by one: `PaidOK` is what holds after some of them, and the
induction is over how many.

*Outbox.* A row is locked by one publisher and is due (`HeldAlone`, `HeldDue`); an event
neither dealt with nor being sent was only sent by runs that were then stopped
(`Counted`). The event of a deletion is the last of its order (`DeletedLast`). Events are
stamped one after the other and a screen knows only committed revisions (`Prefix`,
`KnownPast`).

*Legacy.* The refinement survives saves of stale copies because only a settlement, a payment
on account and a deletion write invoices and payments, and those read the row they lock. A
settlement holds a number that was next when it began: until the first deletion it is at
most one beyond the invoices there are (`NumbersKnown`), which are numbered from one
(`BookMatches`), and the insertion fails if it is taken. `BookMatches` also says that what
the counter charged is invoiced, so that the unique order of an invoice keeps charges
single. `CopiesExplained` says that a copy that reads paid was explained when it was read;
explanations go away only with the order.

*Carts.* A device that holds a version of the cart never holds one the cart has not had.
*Accounts.* A request that spends a code holds its row, one that issues holds the brand's;
`CodesApart` and `ReplacesAll` say that these rows are enough to keep codes single.

*Addresses.* `AddedOnce` is inductive once the book is known to be a sequence of rows; the
rest is that among any rows there is a foremost one, which heirs and twins rely on.
*Outlets.* `LocksApart` keeps an edit that has saved its row and an order that holds it
apart, so what a live order read stays what is committed until it is placed. A main
outlet is single as long as the one edit under way demotes all others (`EditAlone`).
*Attendance.* An editor's revision is never ahead of the entry, and equal only if the value
is the one they saw; a request sent again is behind by then.
*Chat.* The thread's row is locked by one sender at a time (`OneSender`), whose message has the
newest id drawn, so ids commit in their order (`InOrder`). An app pages from the newest it
shows or back from the oldest, and neither leaves a message out between two it shows.

*Journeys.* That a batch moves a session's ends to the first and last of its events needs
what was seen before: a batch adds only events nobody had seen (`Spanned`). An order has an
identity at PostHog exactly if something was queued for it (`Told`), so its outcomes are in
one place whatever the provider was when it was made. *Deliveries.* A locked row is in the
hands of one run, which knows its attempts, so what it owes is one if that run has handed
it over and nothing otherwise (`Owing`); a claim is counted before it is handed over, and
stays so unless a run outlived its lease, which the row remembers (`Held`). The limit itself
holds whatever runs do (`Within`): a row that may be taken has attempts left, and a
report, whose attempts are not checked when it is taken, one for every run that has listed
it. `RetriesBounded` is then three statements: the limit, without exemption; and the count
and the end of a row, short of saves by runs that outlived their lease.

**Sums and induction.** The provers cannot instantiate theorems that take an operator, so
the library's induction rules and fold theorems are out of reach. `LeastExists`
(from well-founded induction on the naturals) gives a least counterexample on the size of
a finite set, and everything about sums is proved that way: that the recursive function
behind `SumFunctionOnSet` exists and is unique, that any member may be added first, that sums
of sums and of zeros behave; so is the fold that pays the orders of an account
(`PaysExists`, `PaidAll`).

**Only model-checked.** Liveness (`EveryEventPublished`, `ScreensCatchUp`,
`EveryDeliveryResolves`, `MessagesReach`, `StatusSettles`), since fairness and ENABLED are
out of the prover's reach. Every other property of the runs is proved.

## 5. Where the code and its documents differ

- `orders/pos_services.py:325`: the customer correction prices a billed order again with
  the method its tenders left on it, so cash rounding appears or disappears; the comment at
  :323 says that financial history stays frozen. `BillFrozen` says how far it moves.
- `customer_web/views.py:383`: a customer's cancellation restores lines staff had removed
  before, so their ingredients go back twice; POS_IMPLEMENTATION.md:25 says "Unprepared
  voids restore their recorded ingredient quantities". `HeldAsRecorded` leaves website
  orders out for this reason.
- `customer_web/views.py:266`: of two taps by a guest that pass the look-up together one is
  refused, while ARCHITECTURE.md:57 promises a replay. It takes effect once all the same.
- `customer_web/views.py:378`: the lock order of a cancellation is not that of
  POS_IMPLEMENTATION.md:24. The database breaks a deadlock and one command has no effect.
- `orders/pos_consumers.py:18`: a heartbeat tells the newest stamp, so a change that
  commits after one with a later stamp is not noticed by it, against
  POS_IMPLEMENTATION.md:34; `RecoversInOrder` has the condition.
- `orders/self_service.py:77`: the version is compared only if the guest sends a tracking
  token, so a scan without one joins whatever order runs at the table, while
  POS_IMPLEMENTATION.md:24 says "Updates require the current order version"
  (ORDER_PREPARATION_ROUNDS.md:22 says "when available"). `ExactlyOnce` asks for a version
  only of requests that name an order.
- `orders/deletion.py:62`: an order is deleted with its payments, and the
  `CustomerCollection` they were part of stays with its full amount and a snapshot that
  names the order. `LedgerAgrees` counts what reached deleted orders by the snapshots.
- `orders/deletion.py:61`: the invoice goes with the order, as `test_deletion.py:55` wants,
  although `payments/models.py:93` calls its number a "Sequential official tax receipt
  number". The next number is a count plus one (`payments/services.py:24`), so after a
  deletion in the middle it is a number that still stands, and every settlement of the
  outlet fails until the day is over or later invoices are deleted too. `FiscalBook` promises
  numbers without a gap only until the first deletion.
- `orders/services.py:260`: a transition that read a legacy order before it was deleted
  inserts the row again, perhaps paid, without its payments; `PaidExplained` exempts it.
- `customer_web/account_services.py:53`: a legacy order paid on account gets no invoice. Paid
  in full, it is answered as settled without one; paid in part, a settlement charges the
  whole amount once more. `payments/corrections.py:88` rewrites the method on an invoice.
- `customer_web/tasks.py:135`: a report's attempts are tested when it is listed and not
  again under its lock, so runs that listed it earlier take it beyond the third attempt,
  once each; `Limit` says how far. `customer_web/tasks.py:116`: a worker that outlived its
  lease saves the row it read over the outcome of the one that took over, which may send an
  event twice; attempts stay bounded.
- `customer_web/views.py:271`: a website checkout tests the switches on a row it read before
  it locks the outlet, so it is accepted after a pause was committed. `PauseHolds` holds at
  the counter and the tables only.
- `catalog/views.py:109`: stock running out changes the menu without a revision or an
  event, against ARCHITECTURE.md:66. `ETagHonest` allows for it.
- `tables/services.py:30`, `restaurants/services.py:234`: edits save the whole row as read.
  A renewed QR salt, a pause or an ended session is undone by an edit that began before.
- `user_accounts/services.py:334`: an edit of an employee saves the account it read, so one
  deleted meanwhile is inserted again.
- `self_service.remove_table_item` imports `remove_waiting_item`, which does not exist, so
  guests cannot remove a waiting item as `ORDER_PREPARATION_ROUNDS.md:21` says.
- Smaller ones: a customer's cancellation leaves `credit_amount` on an order staff had put
  on khata; a customer correction after a refund overwrites REFUNDED; orders of a renamed
  customer leave the account at their next save, even while they are being paid by
  `receive_customer_payment`; a rider's partial save records a purchase from the order as
  read; a repeated first creation of an address with `is_default` false takes its default
  away; the `landing_path` of a new session is that of the first event listed, not the
  earliest.

## 6. Plan

The modules of the plan are written, and every property of the runs but liveness is proved.
What would say more about the system:

1. An abstract queue (each message at most so many times, in order per order) that Outbox
   and Deliveries implement, as Legacy implements FiscalBook.
2. The safety half of the liveness properties: that a row, an event or a message which is
   not dealt with can always be taken up by some step, stated without ENABLED.
3. Parallel pairs such as Settlement and Daybook over one order's money, whose properties
   are proved of each module and not of both together.

## 7. Not modelled

Authorisation, receipts, reports, announcements, reviews, images and the geo tracker: they
read, format or compute without a protocol. Signing and password hashing are assumed to
work. Time is order only: timeouts and back-offs happen at any moment or never.

Left out of modelled components: tips; the amounts and the payment method of an invoice; the moving average cost of an ingredient, negative
initial stock, and `deduct_inventory_for_order`, which nothing calls; variants, modifiers
and tier prices of the menu; carts of more than a hundred lines; hourly and daily limits of
codes, PIN lockout, the uniqueness of user names and e-mail addresses; codes that two
brands send to one number; attribution, returning visitors, pruning and
the refund filter of PostHog; starting a conversation, typing notices and attachments; the
assignment of riders and their counters; table layout, QR salts and the edits of a table's
row; versions of the loyalty programme and its tiers; organisation profiles and the
outlets' status socket.
