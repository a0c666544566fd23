------------------------------ MODULE Commands ------------------------------
(***************************************************************************)
(* How order commands reach the orders: the server's workers, the row      *)
(* locks they take and the request keys they check, under a network that   *)
(* loses, delays and repeats requests and workers that fail.  What the     *)
(* commands do to an order is in PosOrders; here an update only raises the *)
(* version.  Three kinds of sender follow three protocols: staff and table *)
(* guests (mutate, checkout, delete_order), signed-in website customers    *)
(* and website guests (CheckoutView).  A customer's cancellation           *)
(* (CancelView) has neither key nor version, and a guest who scans the     *)
(* code of a table (checkout without a tracking token) names no order and  *)
(* no version: the round joins whatever order runs at the table by then.   *)
(*                                                                         *)
(* worker[w]    what a worker is doing, and for which request              *)
(* branchLock, orderLock[o], userLock   who holds the row lock             *)
(* order[o]     status, version, whether it sits at the outlet's one table *)
(*              and who opened it                                          *)
(* saved[k]     PosMutation or CustomerOrder with request key k: the       *)
(*              request it came with, its order, and whether the snapshot  *)
(*              was scrubbed because the order was deleted                 *)
(* history, answer   as in ExactlyOnce, the specification this implements  *)
(***************************************************************************)
EXTENDS Naturals, FiniteSets, SequencesExt

CONSTANTS
  Workers, Nobody,
  Orders, NoOrder,
  StaffKeys, UserKeys, GuestKeys,  \* request keys by who draws them
  NoKey, NoAnswer

Keys == StaffKeys \cup UserKeys \cup GuestKeys

ASSUME CommandsAssumption ==
  /\ Nobody \notin Workers /\ NoOrder \notin Orders /\ NoKey \notin Keys
  /\ StaffKeys \cap UserKeys = {} /\ StaffKeys \cap GuestKeys = {}
  /\ UserKeys \cap GuestKeys = {}

VARIABLES worker, branchLock, orderLock, userLock, order, saved, history, answer

locks == <<branchLock, orderLock, userLock>>
vars == <<worker, locks, order, saved, history, answer>>

\* A key raises a version at most once and only an order still at its first version is
\* cancelled, so with two keys or more no version exceeds their number.
Versions == 0..Cardinality(Keys)

\* Only a scan of the table's code may find the table taken and join its order.
AtTable == {"seat", "scan"}
Opening == AtTable \cup {"takeaway"}
Openings == [key: Keys, kind: {"seat", "takeaway"}, order: {NoOrder}, version: {0}]
              \cup [key: StaffKeys, kind: {"scan"}, order: {NoOrder}, version: {0}]
Changes == [key: StaffKeys, kind: {"update", "complete", "delete"}, order: Orders,
            version: Versions]
Cancellations == [key: {NoKey}, kind: {"cancel"}, order: Orders, version: {0}]
Requests == Openings \cup Changes \cup Cancellations

NoRequest == [key |-> NoKey, kind |-> "none", order |-> NoOrder, version |-> 0]
Idle == [at |-> "idle", request |-> NoRequest]
Unused == [request |-> NoRequest, order |-> NoOrder, scrubbed |-> FALSE]
Absent == [status |-> "absent", version |-> 0, seated |-> FALSE, by |-> "staff"]

Statuses == {"absent", "pending", "open", "completed", "cancelled", "deleted"}
Outcomes == {"done", "gone", "reused", "stale", "refused"}

TypeOK ==
  /\ worker \in [Workers -> [at: {"idle", "user", "look", "branch", "decide", "order", "commit"},
                             request: Requests \cup {NoRequest}]]
  /\ branchLock \in Workers \cup {Nobody}
  /\ orderLock \in [Orders -> Workers \cup {Nobody}]
  /\ userLock \in Workers \cup {Nobody}
  /\ order \in [Orders -> [status: Statuses, version: Nat, seated: BOOLEAN,
                         by: {"staff", "user", "guest"}]]
  /\ saved \in [Keys -> [request: Requests \cup {NoRequest}, order: Orders \cup {NoOrder},
                         scrubbed: BOOLEAN]]
  /\ history \in [Orders -> Seq(Requests)]
  /\ answer \in [request: Requests, outcome: Outcomes] \cup {NoAnswer}

Init ==
  /\ worker = [w \in Workers |-> Idle]
  /\ branchLock = Nobody /\ userLock = Nobody /\ orderLock = [o \in Orders |-> Nobody]
  /\ order = [o \in Orders |-> Absent]
  /\ saved = [k \in Keys |-> Unused]
  /\ history = [o \in Orders |-> <<>>]
  /\ answer = NoAnswer

-----------------------------------------------------------------------------
(* Arrival and locks.                                                      *)

\* A request a client may have sent: it names only orders and versions it has seen,
\* and a signed-in customer cancels only an order of their own.
Known(r) ==
  /\ r.order # NoOrder =>
       order[r.order].status # "absent" /\ r.version <= order[r.order].version
  /\ r.kind = "cancel" => order[r.order].by = "user"

Goto(w, step) == worker' = [worker EXCEPT ![w].at = step]

\* A worker takes up a request that some client sent, now or long ago, the first or
\* the tenth copy of it.
Receive(w, r) ==
  /\ worker[w] = Idle /\ Known(r)
  /\ worker' = [worker EXCEPT ![w] =
       [at |-> CASE r.kind = "cancel" -> "order"
                 [] r.key \in UserKeys -> "user"
                 [] r.key \in GuestKeys -> "look"
                 [] OTHER -> "branch",
        request |-> r]]
  /\ answer' = NoAnswer
  /\ UNCHANGED <<locks, order, saved, history>>

\* A signed-in customer's row is locked before the key is looked up.
LockUser(w) ==
  /\ worker[w].at = "user" /\ userLock = Nobody
  /\ userLock' = w
  /\ Goto(w, "look")
  /\ answer' = NoAnswer
  /\ UNCHANGED <<branchLock, orderLock, order, saved, history>>

LockBranch(w) ==
  /\ worker[w].at = "branch" /\ branchLock = Nobody
  /\ branchLock' = w
  /\ Goto(w, "decide")
  /\ answer' = NoAnswer
  /\ UNCHANGED <<orderLock, userLock, order, saved, history>>

Release(w) ==
  /\ worker' = [worker EXCEPT ![w] = Idle]
  /\ branchLock' = IF branchLock = w THEN Nobody ELSE branchLock
  /\ userLock' = IF userLock = w THEN Nobody ELSE userLock
  /\ orderLock' = [o \in Orders |-> IF orderLock[o] = w THEN Nobody ELSE orderLock[o]]

\* The worker dies, the database breaks a deadlock or a constraint fails: the
\* transaction is rolled back and the client hears nothing it could rely on.
Abort(w) ==
  /\ worker[w] # Idle
  /\ Release(w)
  /\ answer' = NoAnswer
  /\ UNCHANGED <<order, saved, history>>

\* The request ends without an effect.
Refuse(w, outcome) ==
  /\ Release(w)
  /\ answer' = [request |-> worker[w].request, outcome |-> outcome]
  /\ UNCHANGED <<order, saved, history>>

\* It ends with an effect on order o.
Commit(w, o) ==
  /\ Release(w)
  /\ history' = [history EXCEPT ![o] = Append(@, worker[w].request)]
  /\ answer' = [request |-> worker[w].request, outcome |-> "done"]

-----------------------------------------------------------------------------
(* Keys.                                                                   *)

\* What a used key answers: another request's key, a deleted order, or the saved reply.
Replay(w) ==
  LET r == worker[w].request
      s == saved[r.key]
  IN Refuse(w, IF s.request # r THEN "reused" ELSE IF s.scrubbed THEN "gone" ELSE "done")

\* CheckoutView looks for the customer's earlier order before it locks the outlet;
\* the row is deleted with the order, and only a marker without its body remains.
Look(w) ==
  LET s == saved[worker[w].request.key]
  IN /\ worker[w].at = "look"
     /\ IF s # Unused /\ ~s.scrubbed
        THEN Replay(w)
        ELSE /\ Goto(w, "branch")
             /\ answer' = NoAnswer
             /\ UNCHANGED <<locks, order, saved, history>>

\* PosMutation for staff, CustomerOrder for the website.
Save(k, r, o) == [saved EXCEPT ![k] = [request |-> r, order |-> o, scrubbed |-> FALSE]]

TableTaken(except) ==
  \E o \in Orders \ {except} : order[o].seated /\ order[o].status \in {"pending", "open"}

-----------------------------------------------------------------------------
(* Decisions under the outlet's lock.                                      *)

Answered(w) ==
  LET r == worker[w].request
      s == saved[r.key]
  IN /\ worker[w].at = "decide"
     /\ s # Unused
     /\ IF r.key \in StaffKeys THEN Replay(w)
        ELSE s.scrubbed /\ Refuse(w, "gone")

Sender(k) ==
  IF k \in StaffKeys THEN "staff" ELSE IF k \in UserKeys THEN "user" ELSE "guest"

\* No saved reply settles the request: its key is unused or, on the website, was not
\* scrubbed.
Undecided(w) ==
  LET s == saved[worker[w].request.key]
  IN /\ worker[w].at = "decide"
     /\ IF worker[w].request.key \in StaffKeys THEN s = Unused ELSE ~s.scrubbed

\* A new order.  On the website the unique constraint on the key is what stops a
\* second order that Look missed: the insert fails and everything is rolled back.
Open(w, o) ==
  LET r == worker[w].request
  IN /\ Undecided(w) /\ r.kind \in Opening
     /\ ~(r.kind \in AtTable /\ TableTaken(NoOrder))
     /\ saved[r.key] = Unused
     /\ order[o] = Absent
     /\ order' = [order EXCEPT ![o] =
          [status |-> IF r.key \in StaffKeys THEN "open" ELSE "pending", version |-> 1,
           seated |-> (r.kind \in AtTable), by |-> Sender(r.key)]]
     /\ saved' = Save(r.key, r, o)
     /\ Commit(w, o)

\* Staff and kiosks do not get a taken table.  A guest at it does not either if the tab
\* is a website order or is billed already, which this model leaves open.
TableRefused(w) ==
  /\ Undecided(w) /\ worker[w].request.kind \in AtTable /\ TableTaken(NoOrder)
  /\ Refuse(w, "refused")

\* A scan adds its round to the order that runs at the table, whatever its version:
\* the guest has perhaps never seen it.
Join(w, o) ==
  LET r == worker[w].request
  IN /\ Undecided(w) /\ r.kind = "scan"
     /\ order[o].seated /\ order[o].status = "open" /\ order[o].by = "staff"
     /\ orderLock[o] = Nobody
     /\ order' = [order EXCEPT ![o].version = @ + 1]
     /\ saved' = Save(r.key, r, o)
     /\ Commit(w, o)

\* The row of the order to be changed is locked next.
LockOrder(w) ==
  LET r == worker[w].request
  IN /\ \/ Undecided(w) /\ r.order # NoOrder
        \/ worker[w].at = "order"
     /\ order[r.order].status # "deleted"
     /\ orderLock[r.order] = Nobody
     /\ orderLock' = [orderLock EXCEPT ![r.order] = w]
     /\ Goto(w, "commit")
     /\ answer' = NoAnswer
     /\ UNCHANGED <<branchLock, userLock, order, saved, history>>

NotFound(w) ==
  LET r == worker[w].request
  IN /\ \/ Undecided(w) /\ r.order # NoOrder
        \/ worker[w].at = "order"
     /\ order[r.order].status = "deleted"
     /\ Refuse(w, "gone")

-----------------------------------------------------------------------------
(* Changes under both locks.                                               *)

VersionSeen(r) == r.version = order[r.order].version

Stale(w) ==
  /\ worker[w].at = "commit" /\ worker[w].request.key \in Keys
  /\ ~VersionSeen(worker[w].request)
  /\ Refuse(w, "stale")

\* An addition reopens a completed order, if nobody else sits at its table by now.
Allowed(r) ==
  LET o == order[r.order]
  IN CASE r.kind = "update" -> \/ o.status \in {"pending", "open"}
                               \/ o.status = "completed" /\ o.by = "staff"
                                  /\ (o.seated => ~TableTaken(r.order))
       [] r.kind = "complete" -> o.status = "open"
       [] r.kind = "delete" -> TRUE

\* Deleting an order scrubs the saved replies of every command on it, and keeps its
\* own under its own key.
Fault_ScrubNothing(r) == saved

Scrubbed(r) ==
  [j \in Keys |->
     IF saved[j].order = r.order /\ saved[j].request.kind # "delete"
     THEN [saved[j] EXCEPT !.scrubbed = TRUE] ELSE saved[j]]

Change(w) ==
  LET r == worker[w].request
  IN /\ worker[w].at = "commit" /\ r.key \in Keys
     /\ VersionSeen(r) /\ Allowed(r)
     /\ order' = [order EXCEPT
          ![r.order].version = @ + 1,
          ![r.order].status = CASE r.kind = "update" -> "open"
                                [] r.kind = "complete" -> "completed"
                                [] r.kind = "delete" -> "deleted"]
     /\ saved' = [(IF r.kind = "delete" THEN Scrubbed(r) ELSE saved) EXCEPT ![r.key] =
          [request |-> r, order |-> r.order, scrubbed |-> FALSE]]
     /\ Commit(w, r.order)

Forbidden(w) ==
  /\ worker[w].at = "commit" /\ worker[w].request.key \in Keys
  /\ VersionSeen(worker[w].request) /\ ~Allowed(worker[w].request)
  /\ Refuse(w, "refused")

\* CancelView.  Its new rows refer to the outlet, so committing them waits until
\* nobody holds the outlet's row lock.
Cancel(w) ==
  LET o == worker[w].request.order
  IN /\ worker[w].at = "commit" /\ worker[w].request.kind = "cancel"
     /\ \/ /\ order[o].status = "pending"
           /\ branchLock = Nobody
           /\ order' = [order EXCEPT ![o].status = "cancelled", ![o].version = @ + 1]
           /\ Commit(w, o)
           /\ UNCHANGED saved
        \/ /\ order[o].status = "cancelled"
           /\ Refuse(w, "done")
        \/ /\ order[o].status \notin {"pending", "cancelled"}
           /\ Refuse(w, "refused")

Next ==
  \E w \in Workers :
    \/ \E r \in Requests : Receive(w, r)
    \/ LockUser(w) \/ Look(w) \/ LockBranch(w) \/ LockOrder(w)
    \/ Answered(w) \/ TableRefused(w) \/ NotFound(w)
    \/ \E o \in Orders : Open(w, o) \/ Join(w, o)
    \/ Change(w) \/ Stale(w) \/ Forbidden(w) \/ Cancel(w)
    \/ Abort(w)

Spec == Init /\ [][Next]_vars

-----------------------------------------------------------------------------
(* What must hold.                                                         *)

\* However often a request arrives and wherever a worker dies, it takes effect at
\* most once and every answer is true.  A request that names an order takes effect on
\* the version its sender saw; a scan joins an order only while that runs at the table.
Promise == INSTANCE ExactlyOnce WITH history <- history, answer <- answer
KeepsPromise == Promise!Spec
=============================================================================
