------------------------------ MODULE Outlets ------------------------------
(***************************************************************************)
(* The outlets of a brand: their managers open them, rename them, make one *)
(* the main outlet and pause the kitchen, each time by reading a row and   *)
(* later saving all of it; orders are taken meanwhile, and dashboards read *)
(* the outlet's state through a cache.                                     *)
(*                                                                         *)
(* outlet[b]    the committed Branch row: whether it exists, whether it is *)
(*              the main one, and accepting, which stands for its switches *)
(*              (accepting_orders, is_active and the channels)             *)
(* edit[w]      a request that changes an outlet: the row as it read it    *)
(*              with its changes made, whether it asks to be the main one, *)
(*              and, once its transaction has saved the row, the rows it   *)
(*              made no longer main                                        *)
(* order[o]     a request for an order, taken at the counter or a table    *)
(*              (live) or on the website, and whether the row it goes by   *)
(*              accepts it                                                 *)
(* cache[b]     the cached state, or Nothing                                *)
(* summary[d]   a dashboard request that missed the cache: what it read    *)
(* asked        edits so far; mixed, whether two of them overlapped        *)
(***************************************************************************)
EXTENDS Naturals, FiniteSets

CONSTANTS
  Branches, Edits, OrderRequests, Dashboards,
  Nothing, Kept,     \* no value; a value that an edit leaves as it is
  Watched,           \* bound: the outlets that dashboards show
  MaxAsked           \* bound: edits asked for

ASSUME OutletsAssumption ==
  /\ Nothing \notin Branches \cup BOOLEAN /\ Kept \notin BOOLEAN
  /\ IsFiniteSet(Branches) /\ Watched \subseteq Branches
  /\ MaxAsked \in Nat

VARIABLES outlet, edit, order, cache, summary, asked, mixed

status == <<cache, summary>>
outletVars == <<outlet, edit, order, status, asked, mixed>>

Branch == [exists: BOOLEAN, main: BOOLEAN, accepting: BOOLEAN]
NoRow == [exists |-> FALSE, main |-> FALSE, accepting |-> TRUE]
Edit == [does: {"create", "update", "toggle", Nothing}, branch: Branches \cup {Nothing}, row: Branch,
         main: BOOLEAN, saved: BOOLEAN, demoted: SUBSET Branches]
NoEdit == [does |-> Nothing, branch |-> Nothing, row |-> NoRow, main |-> FALSE,
           saved |-> FALSE, demoted |-> {}]
NoOrder == [by |-> Nothing, branch |-> Nothing, step |-> "none", accepted |-> FALSE]
Order == [by: {"live", "web", Nothing}, branch: Branches \cup {Nothing},
          step: {"none", "read", "locked", "placed", "refused"}, accepted: BOOLEAN]

OutletsTypeOK ==
  /\ outlet \in [Branches -> Branch]
  /\ edit \in [Edits -> Edit]
  /\ order \in [OrderRequests -> Order]
  /\ cache \in [Branches -> BOOLEAN \cup {Nothing}]
  /\ summary \in [Dashboards -> [branch: Branches \cup {Nothing}, accepting: BOOLEAN]]
  /\ asked \in 0..MaxAsked /\ mixed \in BOOLEAN

Mains == {b \in Branches : outlet[b].exists /\ outlet[b].main}

NoSummary == [branch |-> Nothing, accepting |-> FALSE]

OutletsInit ==
  /\ outlet \in [Branches -> {r \in Branch : r.exists \/ r = NoRow}]
  /\ Cardinality(Mains) <= 1
  /\ edit = [w \in Edits |-> NoEdit]
  /\ order = [o \in OrderRequests |-> NoOrder]
  /\ cache = [b \in Branches |-> Nothing]
  /\ summary = [d \in Dashboards |-> NoSummary]
  /\ asked = 0 /\ mixed = FALSE

-----------------------------------------------------------------------------
(* Outlets are changed.                                                    *)

\* A row is locked by the transaction that saved it, by one that made it no longer
\* main, and by an order of the outlet.
Fault_NeverLocked(b) == FALSE

Locked(b) ==
  \/ \E w \in Edits : edit[w].saved /\ b \in {edit[w].branch} \cup edit[w].demoted
  \/ \E o \in OrderRequests : order[o].step = "locked" /\ order[o].branch = b

Chosen(new, old) == IF new = Kept THEN old ELSE new

\* A view reads the outlet's row and makes its changes, before any transaction.
Ask(w, b, does, main, accepting) ==
  /\ edit[w] = NoEdit /\ asked < MaxAsked
  /\ (does = "create") <=> ~outlet[b].exists
  /\ does = "toggle" => main = Kept
  /\ edit' = [edit EXCEPT ![w] =
       [NoEdit EXCEPT !.does = does, !.branch = b, !.main = main = TRUE,
                      !.row = [exists |-> TRUE, main |-> Chosen(main, outlet[b].main),
                               accepting |-> Chosen(accepting, outlet[b].accepting)]]]
  /\ asked' = asked + 1
  /\ mixed' = (mixed \/ \E v \in Edits : edit[v] # NoEdit)
  /\ UNCHANGED <<outlet, order, status>>

\* branch_create refuses a name or a code that is taken, the database one that two
\* transactions take at once.
Insertable(w) ==
  edit[w].does = "create" =>
    /\ ~outlet[edit[w].branch].exists
    /\ \A v \in Edits : ~(edit[v].saved /\ edit[v].branch = edit[w].branch)

\* branch_create and branch_update: the other outlets are no longer main.
Fault_OthersKept(w) == {}

Demoted(w) == IF edit[w].main THEN Mains \ {edit[w].branch} ELSE {}

\* outlet_update_operational_status drops what is cached before it commits.
Dropped(w) ==
  IF edit[w].does = "toggle" THEN [cache EXCEPT ![edit[w].branch] = Nothing] ELSE cache

\* The transaction updates the other rows, then saves all of the row that was read.
Save(w) ==
  /\ edit[w].does # Nothing /\ ~edit[w].saved
  /\ Insertable(w)
  /\ \A b \in {edit[w].branch} \cup Demoted(w) : ~Locked(b)
  /\ edit' = [edit EXCEPT ![w].saved = TRUE, ![w].demoted = Demoted(w)]
  /\ cache' = Dropped(w)
  /\ UNCHANGED <<outlet, order, summary, asked, mixed>>

CommitEdit(w) ==
  /\ edit[w].saved
  /\ outlet' = [b \in Branches |->
       IF b = edit[w].branch THEN edit[w].row
       ELSE IF b \in edit[w].demoted THEN [outlet[b] EXCEPT !.main = FALSE] ELSE outlet[b]]
  /\ edit' = [edit EXCEPT ![w] = NoEdit]
  /\ UNCHANGED <<order, status, asked, mixed>>

\* The request is refused, or it fails and its transaction is rolled back.
Drop(w) ==
  /\ edit[w].does # Nothing
  /\ edit' = [edit EXCEPT ![w] = NoEdit]
  /\ UNCHANGED <<outlet, order, status, asked, mixed>>

-----------------------------------------------------------------------------
(* Orders are taken.                                                       *)

\* CheckoutView.post goes by the row branch_for read before the lock.  `accepting' is
\* all of an outlet's switches taken together.
Begin(o, b) ==
  /\ order[o] = NoOrder /\ outlet[b].exists
  /\ order' = [order EXCEPT ![o] = [by |-> "web", branch |-> b, step |-> "read",
                                    accepted |-> outlet[b].accepting]]
  /\ UNCHANGED <<outlet, edit, status, asked, mixed>>

LockForWeb(o) ==
  /\ order[o].step = "read" /\ ~Locked(order[o].branch)
  /\ order' = [order EXCEPT ![o].step = "locked"]
  /\ UNCHANGED <<outlet, edit, status, asked, mixed>>

\* Staff (mutate) and guests at a table or kiosk (checkout) go by the row they lock.
Lock(o, b) ==
  /\ order[o] = NoOrder /\ outlet[b].exists /\ ~Locked(b)
  /\ order' = [order EXCEPT ![o] = [by |-> "live", branch |-> b, step |-> "locked",
                                    accepted |-> outlet[b].accepting]]
  /\ UNCHANGED <<outlet, edit, status, asked, mixed>>

Place(o) ==
  /\ order[o].step = "locked"
  /\ order' = [order EXCEPT ![o] =
       [NoOrder EXCEPT !.step = IF order[o].accepted THEN "placed" ELSE "refused"]]
  /\ UNCHANGED <<outlet, edit, status, asked, mixed>>

-----------------------------------------------------------------------------
(* Dashboards read through the cache (get_outlet_live_status).             *)

Miss(d, b) ==
  /\ summary[d] = NoSummary /\ cache[b] = Nothing /\ outlet[b].exists
  /\ summary' = [summary EXCEPT ![d] = [branch |-> b, accepting |-> outlet[b].accepting]]
  /\ UNCHANGED <<outlet, edit, order, cache, asked, mixed>>

Fill(d) ==
  /\ summary[d] # NoSummary
  /\ cache' = [cache EXCEPT ![summary[d].branch] = summary[d].accepting]
  /\ summary' = [summary EXCEPT ![d] = NoSummary]
  /\ UNCHANGED <<outlet, edit, order, asked, mixed>>

\* timeout=15; without one the entry would stay.
Fault_NoTimeout(b) == cache

Lapsed(b) == [cache EXCEPT ![b] = Nothing]

Expire(b) ==
  /\ cache[b] # Nothing
  /\ cache' = Lapsed(b)
  /\ UNCHANGED <<outlet, edit, order, summary, asked, mixed>>

-----------------------------------------------------------------------------

EditStep(w) ==
  \/ \E b \in Branches, does \in {"create", "update", "toggle"},
        main \in BOOLEAN \cup {Kept}, accepting \in BOOLEAN \cup {Kept} :
       Ask(w, b, does, main, accepting)
  \/ Save(w) \/ CommitEdit(w) \/ Drop(w)

OrderStep(o) ==
  \/ \E b \in Branches : Begin(o, b) \/ Lock(o, b)
  \/ LockForWeb(o) \/ Place(o)

StatusStep == \/ \E d \in Dashboards : Fill(d) \/ \E b \in Watched : Miss(d, b)
              \/ \E b \in Branches : Expire(b)

OutletsNext ==
  (\E w \in Edits : EditStep(w)) \/ (\E o \in OrderRequests : OrderStep(o)) \/ StatusStep

\* The cache drops its entries in time; nothing else is asked of anybody.
OutletsFairness == \A b \in Branches : WF_outletVars(Expire(b))

OutletsSpec == OutletsInit /\ [][OutletsNext]_outletVars /\ OutletsFairness

-----------------------------------------------------------------------------
(* Properties.                                                             *)

\* A pause holds from the moment it is committed: no member of staff and no guest at a
\* table opens an order after that, however their requests overlap with the pause, and
\* the website only finishes checkouts that began before (mutate, checkout,
\* CheckoutView.post).
PauseHolds ==
  [][\A o \in OrderRequests :
       order[o].step # "placed" /\ order'[o].step = "placed" =>
         order[o].by = "web" \/ outlet[order[o].branch].accepting]_outletVars

\* A brand has one main outlet at most, as long as changes of its outlets do not overlap;
\* when they do, each saves a row the other has changed (branch_update).
OneMainOutlet == mixed \/ Cardinality(Mains) <= 1

\* What is cached comes to be the outlet's state, although it is dropped before the
\* change commits, so that a dashboard may put the old state back, and although
\* branch_update does not drop it at all (get_outlet_live_status).
StatusSettles ==
  \A b \in Branches : <>[](cache[b] \in {Nothing, outlet[b].accepting})
=============================================================================
