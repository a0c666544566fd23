--------------------------- MODULE Commands_proofs ---------------------------
(***************************************************************************)
(* Commands implements ExactlyOnce, for any number of workers, orders and  *)
(* request keys.  After it Contacts, the directory of customers the        *)
(* commands keep, for any number of orders and customers.                  *)
(***************************************************************************)
EXTENDS Commands, Contacts, SequenceTheorems, FiniteSetTheorems, WellFoundedInduction, TLAPS

-----------------------------------------------------------------------------
(* Requests and sequences.                                                 *)

\* Which senders' requests name an order and a key.
LEMMA RequestFacts ==
  ASSUME NEW r \in Requests
  PROVE  /\ r.key \in Keys \cup {NoKey} /\ r.order \in Orders \cup {NoOrder} /\ r.kind # "none"
         /\ r.kind = "cancel" <=> r.key \notin Keys
         /\ r.kind = "cancel" <=> r.key = NoKey
         /\ r.kind = "cancel" => r = [key |-> NoKey, kind |-> "cancel", order |-> r.order, version |-> 0]
         /\ r.kind \in Opening <=> r.order = NoOrder
         /\ r.kind \in Opening <=> r.order \notin Orders
         /\ r.kind \notin Opening /\ r.kind # "cancel" =>
              r.key \in StaffKeys /\ r.kind \in {"update", "complete", "delete"}
         /\ r.kind = "scan" => r.key \in StaffKeys
<1>1. CASE r \in Openings
  BY <1>1, CommandsAssumption DEF Openings, Opening, AtTable, Keys
<1>2. CASE r \in Changes
  BY <1>2, CommandsAssumption DEF Changes, Opening, AtTable, Keys
<1>3. CASE r \in Cancellations
  BY <1>3, CommandsAssumption DEF Cancellations, Opening, AtTable
<1> QED
  BY <1>1, <1>2, <1>3 DEF Requests

LEMMA Appended ==
  ASSUME NEW S, NEW s \in Seq(S), NEW x \in S
  PROVE  /\ Append(s, x) \in Seq(S) /\ Append(s, x) # <<>>
         /\ Len(Append(s, x)) = Len(s) + 1 /\ Last(Append(s, x)) = x
         /\ Range(Append(s, x)) = Range(s) \cup {x}
         /\ Head(Append(s, x)) = IF s = <<>> THEN x ELSE Head(s)
<1>1. /\ Append(s, x) \in Seq(S) /\ Len(Append(s, x)) = Len(s) + 1
      /\ \A i \in 1..Len(s) : Append(s, x)[i] = s[i]
      /\ Append(s, x)[Len(s) + 1] = x
  BY AppendProperties
<1>2. Len(s) \in Nat /\ DOMAIN s = 1..Len(s) /\ DOMAIN Append(s, x) = 1..(Len(s) + 1)
  BY <1>1, LenProperties
<1>3. Range(Append(s, x)) = Range(s) \cup {x}
  BY <1>1, <1>2 DEF Range
<1>4. Append(s, x) # <<>>
  BY <1>1, <1>2, EmptySeq
<1>5. Head(Append(s, x)) = Append(s, x)[1]
  BY <1>1, <1>4, HeadTailProperties
<1>6. CASE s = <<>>
  BY <1>1, <1>3, <1>4, <1>5, <1>6, EmptySeq DEF Last
<1>7. CASE s # <<>>
  <2>1. Head(s) = s[1] /\ Len(s) # 0
    BY <1>7, HeadTailProperties, EmptySeq
  <2>2. Head(Append(s, x)) = Head(s)
    BY <1>1, <1>2, <1>5, <2>1
  <2> QED
    BY <1>1, <1>3, <1>4, <1>7, <2>2 DEF Last
<1> QED
  BY <1>6, <1>7

-----------------------------------------------------------------------------
(* The inductive invariant.                                                *)

Past(o) == Range(history[o])

\* What is known of the orders, of the effects and of the saved replies.
OrdersKnow ==
  \A o \in Orders :
    /\ order[o].version = Len(history[o])
    /\ order[o].status = "absent" <=> history[o] = <<>>
    /\ order[o].status = "deleted" <=> history[o] # <<>> /\ Last(history[o]).kind = "delete"
    /\ order[o].status = "cancelled" => \E r \in Past(o) : r.kind = "cancel"
    /\ order[o].status \notin {"cancelled", "deleted"} => \A r \in Past(o) : r.kind # "cancel"
    /\ \A r \in Past(o) : r.order \in {NoOrder, o}
    /\ order[o].status = "open" => Last(history[o]).kind \notin {"complete", "cancel", "delete"}
    /\ order[o].seated => Head(history[o]).kind # "takeaway"

\* The reply saved under a key is that of the one request with this key that had an
\* effect, and it is scrubbed once the order is deleted.
RepliesKnow ==
  /\ \A o \in Orders, k \in Keys : \A r \in Past(o) :
       r.key = k => saved[k].request = r /\ saved[k].order = o
  /\ \A k \in Keys : saved[k] # Unused =>
       /\ saved[k].order \in Orders
       /\ saved[k].request \in Past(saved[k].order) /\ saved[k].request.key = k
       /\ saved[k].scrubbed <=> /\ order[saved[k].order].status = "deleted"
                                /\ saved[k].request.kind # "delete"

\* The request a worker serves, by how far it is.
WorkersServe ==
  \A w \in Workers :
    LET r == worker[w].request
    IN /\ worker[w].at = "idle" => worker[w] = Idle
       /\ worker[w].at # "idle" => r \in Requests
       /\ r.order \in Orders => order[r.order].status # "absent"
       /\ worker[w].at = "user" => r.key \in UserKeys
       /\ worker[w].at = "look" => r.key \in UserKeys \cup GuestKeys
       /\ worker[w].at \in {"branch", "decide"} => r.key \in Keys
       /\ worker[w].at = "order" => r.kind = "cancel"
       /\ worker[w].at = "commit" => r.order \in Orders

\* What it holds by then.
LocksHeld ==
  \A w \in Workers :
    LET r == worker[w].request
    IN /\ worker[w].at = "decide" => branchLock = w
       /\ worker[w].at = "commit" /\ r.key \in Keys => branchLock = w
       /\ worker[w].at \in {"look", "branch", "decide"} /\ r.key \in UserKeys => userLock = w
       /\ worker[w].at = "commit" => orderLock[r.order] = w /\ order[r.order].status # "deleted"

\* And what it has found out that is still so: under the customer's row lock, that a
\* key has no reply that would do; under the outlet's, that it has none.
FindingsStand ==
  \A w \in Workers :
    LET r == worker[w].request
    IN /\ worker[w].at \in {"branch", "decide"} /\ r.key \in UserKeys =>
            saved[r.key] = Unused \/ saved[r.key].scrubbed
       /\ worker[w].at = "commit" /\ r.key \in Keys => saved[r.key] = Unused

IInv == TypeOK /\ OrdersKnow /\ RepliesKnow /\ WorkersServe /\ LocksHeld /\ FindingsStand

-----------------------------------------------------------------------------
(* Steps that have no effect on an order.                                  *)

LEMMA Kept ==
  ASSUME OrdersKnow, RepliesKnow, UNCHANGED <<order, saved, history>>
  PROVE  (OrdersKnow /\ RepliesKnow)'
BY DEF OrdersKnow, RepliesKnow, Past, Range, Last

LEMMA Types ==
  ASSUME TypeOK
  PROVE  /\ \A w \in Workers : worker[w].request \in Requests \cup {NoRequest}
         /\ \A o \in Orders : history[o] \in Seq(Requests) /\ order[o].version \in Nat
         /\ \A k \in Keys : saved[k].order \in Orders \cup {NoOrder} /\ saved[k].scrubbed \in BOOLEAN
BY DEF TypeOK

\* A worker that is done holds nothing, and the others what they held.
LEMMA Released ==
  ASSUME TypeOK, NEW w \in Workers, Release(w)
  PROVE  /\ worker' \in [Workers -> [at: {"idle", "user", "look", "branch", "decide", "order", "commit"},
                                     request: Requests \cup {NoRequest}]]
         /\ branchLock' \in Workers \cup {Nobody} /\ userLock' \in Workers \cup {Nobody}
         /\ orderLock' \in [Orders -> Workers \cup {Nobody}]
         /\ worker'[w] = Idle
         /\ \A v \in Workers \ {w} :
              /\ worker'[v] = worker[v]
              /\ branchLock = v => branchLock' = v
              /\ userLock = v => userLock' = v
              /\ \A o \in Orders : orderLock[o] = v => orderLock'[o] = v
<1>1. Idle \in [at: {"idle", "user", "look", "branch", "decide", "order", "commit"},
                request: Requests \cup {NoRequest}]
  BY DEF Idle
<1> QED
  BY <1>1, CommandsAssumption DEF TypeOK, Release

LEMMA EndKeeps ==
  ASSUME IInv, NEW w \in Workers, Release(w), UNCHANGED <<order, saved, history>>,
         answer' \in [request: Requests, outcome: Outcomes] \cup {NoAnswer}
  PROVE  IInv'
<1> USE DEF IInv
<1>1. TypeOK'
  BY Released DEF TypeOK
<1>2. (OrdersKnow /\ RepliesKnow)'
  BY Kept
<1>3. WorkersServe'
  BY Released, CommandsAssumption DEF WorkersServe, Idle, NoRequest
<1>4. LocksHeld'
  BY Released DEF LocksHeld, WorkersServe, Idle, NoRequest
<1>5. FindingsStand'
  BY Released DEF FindingsStand, Idle
<1> QED
  BY <1>1, <1>2, <1>3, <1>4, <1>5

\* A worker goes on to another step of its request: the locks it had it keeps.
LEMMA StepKeeps ==
  ASSUME IInv, NEW w \in Workers, UNCHANGED <<order, saved, history>>, answer' = NoAnswer,
         NEW job \in [at: {"user", "look", "branch", "decide", "order", "commit"}, request: Requests],
         worker' = [worker EXCEPT ![w] = job],
         branchLock' \in Workers \cup {Nobody}, userLock' \in Workers \cup {Nobody},
         orderLock' \in [Orders -> Workers \cup {Nobody}],
         \A v \in Workers \ {w} :
              /\ branchLock = v => branchLock' = v
              /\ userLock = v => userLock' = v
              /\ \A o \in Orders : orderLock[o] = v => orderLock'[o] = v,
         job.request.order \in Orders => order[job.request.order].status # "absent",
         job.at = "user" => job.request.key \in UserKeys,
         job.at = "look" => job.request.key \in UserKeys \cup GuestKeys,
         job.at \in {"branch", "decide"} => job.request.key \in Keys,
         job.at = "order" => job.request.kind = "cancel",
         job.at = "commit" => job.request.order \in Orders,
         job.at = "decide" => branchLock' = w,
         job.at = "commit" /\ job.request.key \in Keys => branchLock' = w /\ saved[job.request.key] = Unused,
         job.at \in {"look", "branch", "decide"} /\ job.request.key \in UserKeys => userLock' = w,
         job.at = "commit" => /\ orderLock'[job.request.order] = w
                              /\ order[job.request.order].status # "deleted",
         job.at \in {"branch", "decide"} /\ job.request.key \in UserKeys =>
            saved[job.request.key] = Unused \/ saved[job.request.key].scrubbed
  PROVE  IInv'
<1> USE DEF IInv
<1>1. \A v \in Workers : worker'[v] = IF v = w THEN job ELSE worker[v]
  BY DEF TypeOK
<1>2. TypeOK'
  BY DEF TypeOK
<1>3. (OrdersKnow /\ RepliesKnow)'
  BY Kept
<1>4. WorkersServe'
  BY <1>1 DEF WorkersServe
<1>5. LocksHeld'
  BY <1>1 DEF LocksHeld, WorkersServe
<1>6. FindingsStand'
  BY <1>1 DEF FindingsStand
<1> QED
  BY <1>2, <1>3, <1>4, <1>5, <1>6

LEMMA ReceiveKeeps ==
  ASSUME IInv, NEW w \in Workers, NEW r \in Requests, Receive(w, r)
  PROVE  IInv'
<1> DEFINE at == CASE r.kind = "cancel" -> "order"
                   [] r.key \in UserKeys -> "user"
                   [] r.key \in GuestKeys -> "look"
                   [] OTHER -> "branch"
           job == [at |-> at, request |-> r]
<1>1. worker' = [worker EXCEPT ![w] = job] /\ UNCHANGED <<locks, order, saved, history>> /\ answer' = NoAnswer
  BY DEF Receive
<1>2. Known(r)
  BY DEF Receive
<1>3. at \in {"order", "user", "look", "branch"}
  OBVIOUS
<1>4. /\ at = "order" => r.kind = "cancel"
      /\ at # "order" => r.kind # "cancel"
      /\ at = "user" => r.key \in UserKeys
      /\ at = "look" => r.key \in GuestKeys /\ r.key \notin UserKeys
      /\ at = "branch" => r.key \notin UserKeys
  <2>1. CASE r.kind = "cancel"
    <3>1. r.key \notin UserKeys /\ r.key \notin GuestKeys
      BY <2>1, RequestFacts DEF Keys
    <3> QED
      BY <2>1, <3>1
  <2>2. CASE r.kind # "cancel" /\ r.key \in UserKeys
    <3>1. r.key \notin GuestKeys
      BY <2>2, CommandsAssumption
    <3> QED
      BY <2>2, <3>1
  <2>3. CASE r.kind # "cancel" /\ r.key \notin UserKeys
    BY <2>3
  <2> QED
    BY <2>1, <2>2, <2>3
<1> HIDE DEF at
<1>5. job \in [at: {"user", "look", "branch", "decide", "order", "commit"}, request: Requests]
  BY <1>3
<1>6. job.at = at /\ job.request = r
  OBVIOUS
<1> HIDE DEF job
<1>7. r.order \in Orders => order[r.order].status # "absent"
  BY <1>2, CommandsAssumption DEF Known
<1>8. at # "order" => r.key \in Keys
  BY <1>4, RequestFacts
<1>9. branchLock' \in Workers \cup {Nobody} /\ userLock' \in Workers \cup {Nobody}
      /\ orderLock' \in [Orders -> Workers \cup {Nobody}] /\ UNCHANGED <<branchLock, userLock, orderLock>>
  BY <1>1 DEF locks, IInv, TypeOK
<1> QED
  BY <1>1, <1>3, <1>4, <1>5, <1>6, <1>7, <1>8, <1>9, StepKeeps

\* What a busy worker's request is.
LEMMA Busy ==
  ASSUME IInv, NEW w \in Workers, worker[w].at # "idle"
  PROVE  /\ worker[w].request \in Requests
         /\ worker[w].request.order \in Orders => order[worker[w].request.order].status # "absent"
         /\ \A step \in {"user", "look", "branch", "decide", "order", "commit"} :
              [worker[w] EXCEPT !.at = step] = [at |-> step, request |-> worker[w].request]
<1>1. worker[w].request \in Requests
      /\ (worker[w].request.order \in Orders => order[worker[w].request.order].status # "absent")
  BY DEF IInv, WorkersServe
<1>2. worker[w] \in [at: {"idle", "user", "look", "branch", "decide", "order", "commit"},
                     request: Requests \cup {NoRequest}]
  BY DEF IInv, TypeOK
<1> QED
  BY <1>1, <1>2

LEMMA LockUserKeeps ==
  ASSUME IInv, NEW w \in Workers, LockUser(w)
  PROVE  IInv'
<1> DEFINE r == worker[w].request
           job == [at |-> "look", request |-> r]
<1>1. /\ worker[w].at = "user" /\ userLock = Nobody /\ userLock' = w
      /\ UNCHANGED <<branchLock, orderLock, order, saved, history>> /\ answer' = NoAnswer
      /\ worker' = [worker EXCEPT ![w] = [worker[w] EXCEPT !.at = "look"]]
  BY DEF LockUser, Goto
<1>2. r \in Requests /\ (r.order \in Orders => order[r.order].status # "absent")
      /\ worker' = [worker EXCEPT ![w] = job]
  BY <1>1, Busy
<1>3. r.key \in UserKeys
  BY <1>1 DEF IInv, WorkersServe
<1> HIDE DEF r
<1>4. job \in [at: {"user", "look", "branch", "decide", "order", "commit"}, request: Requests]
      /\ job.at = "look" /\ job.request = r
  BY <1>2
<1> HIDE DEF job
<1>5. branchLock' \in Workers \cup {Nobody} /\ userLock' \in Workers \cup {Nobody}
      /\ orderLock' \in [Orders -> Workers \cup {Nobody}]
  BY <1>1 DEF IInv, TypeOK
<1>6. Nobody \notin Workers
  BY CommandsAssumption
<1> QED
  BY <1>1, <1>2, <1>3, <1>4, <1>5, <1>6, StepKeeps

LEMMA LockBranchKeeps ==
  ASSUME IInv, NEW w \in Workers, LockBranch(w)
  PROVE  IInv'
<1> DEFINE r == worker[w].request
           job == [at |-> "decide", request |-> r]
<1>1. /\ worker[w].at = "branch" /\ branchLock = Nobody /\ branchLock' = w
      /\ UNCHANGED <<userLock, orderLock, order, saved, history>> /\ answer' = NoAnswer
      /\ worker' = [worker EXCEPT ![w] = [worker[w] EXCEPT !.at = "decide"]]
  BY DEF LockBranch, Goto
<1>2. r \in Requests /\ (r.order \in Orders => order[r.order].status # "absent")
      /\ worker' = [worker EXCEPT ![w] = job]
  BY <1>1, Busy
<1>3. /\ r.key \in Keys
      /\ r.key \in UserKeys => userLock = w /\ (saved[r.key] = Unused \/ saved[r.key].scrubbed)
  BY <1>1 DEF IInv, WorkersServe, LocksHeld, FindingsStand
<1> HIDE DEF r
<1>4. job \in [at: {"user", "look", "branch", "decide", "order", "commit"}, request: Requests]
      /\ job.at = "decide" /\ job.request = r
  BY <1>2
<1> HIDE DEF job
<1>5. branchLock' \in Workers \cup {Nobody} /\ userLock' \in Workers \cup {Nobody}
      /\ orderLock' \in [Orders -> Workers \cup {Nobody}]
  BY <1>1 DEF IInv, TypeOK
<1>6. Nobody \notin Workers
  BY CommandsAssumption
<1> QED
  BY <1>1, <1>2, <1>3, <1>4, <1>5, <1>6, StepKeeps

\* A customer's key that Look lets pass has no reply that would do, and nobody else can
\* make one while the customer's row is locked.
LEMMA LookKeeps ==
  ASSUME IInv, NEW w \in Workers, Look(w)
  PROVE  IInv'
<1> DEFINE r == worker[w].request
           s == saved[r.key]
           job == [at |-> "branch", request |-> r]
<1>1. worker[w].at = "look"
  BY DEF Look
<1>2. r \in Requests /\ (r.order \in Orders => order[r.order].status # "absent")
      /\ [worker[w] EXCEPT !.at = "branch"] = job
  BY <1>1, Busy
<1>3. CASE s # Unused /\ ~s.scrubbed
  <2>1. Release(w) /\ UNCHANGED <<order, saved, history>>
    BY <1>3 DEF Look, Replay, Refuse
  <2>2. answer' \in [request: Requests, outcome: Outcomes]
    BY <1>2, <1>3 DEF Look, Replay, Refuse, Outcomes
  <2> QED
    BY <2>1, <2>2, EndKeeps
<1>4. CASE ~(s # Unused /\ ~s.scrubbed)
  <2>1. /\ worker' = [worker EXCEPT ![w] = job] /\ answer' = NoAnswer
        /\ UNCHANGED <<locks, order, saved, history>>
    BY <1>2, <1>4 DEF Look, Goto
  <2>2. /\ r.key \in Keys
        /\ r.key \in UserKeys => userLock = w
    BY <1>1 DEF IInv, WorkersServe, LocksHeld, Keys
  <2>3. s = Unused \/ s.scrubbed
    BY <1>4
  <2> HIDE DEF r, s
  <2>4. job \in [at: {"user", "look", "branch", "decide", "order", "commit"}, request: Requests]
        /\ job.at = "branch" /\ job.request = r
    BY <1>2
  <2> HIDE DEF job
  <2>5. branchLock' \in Workers \cup {Nobody} /\ userLock' \in Workers \cup {Nobody}
        /\ orderLock' \in [Orders -> Workers \cup {Nobody}] /\ UNCHANGED <<branchLock, userLock, orderLock>>
    BY <2>1 DEF IInv, TypeOK, locks
  <2> QED
    BY <1>2, <2>1, <2>2, <2>3, <2>4, <2>5, StepKeeps DEF s
<1> QED
  BY <1>3, <1>4

LEMMA LockOrderKeeps ==
  ASSUME IInv, NEW w \in Workers, LockOrder(w)
  PROVE  IInv'
<1> DEFINE r == worker[w].request
           job == [at |-> "commit", request |-> r]
<1>1. /\ worker[w].at \in {"decide", "order"}
      /\ worker[w].at = "decide" => r.order # NoOrder /\ Undecided(w)
      /\ order[r.order].status # "deleted" /\ orderLock[r.order] = Nobody
      /\ orderLock' = [orderLock EXCEPT ![r.order] = w]
      /\ UNCHANGED <<branchLock, userLock, order, saved, history>> /\ answer' = NoAnswer
      /\ worker' = [worker EXCEPT ![w] = [worker[w] EXCEPT !.at = "commit"]]
  BY DEF LockOrder, Goto, Undecided
<1>2. r \in Requests /\ (r.order \in Orders => order[r.order].status # "absent")
      /\ worker' = [worker EXCEPT ![w] = job]
  BY <1>1, Busy
<1>3. worker[w].at = "order" => r.kind = "cancel"
  BY DEF IInv, WorkersServe
<1>4. r.order \in Orders
  BY <1>1, <1>2, <1>3, RequestFacts DEF Opening, AtTable
<1>5. r.key \in Keys => branchLock = w /\ saved[r.key] = Unused
  <2>1. SUFFICES ASSUME r.key \in Keys PROVE branchLock = w /\ saved[r.key] = Unused
    OBVIOUS
  <2>2. r.kind # "cancel" /\ r.key \in StaffKeys /\ worker[w].at = "decide"
    BY <1>1, <1>2, <1>3, <1>4, <2>1, RequestFacts
  <2> QED
    BY <1>1, <2>2 DEF Undecided, IInv, LocksHeld
<1> HIDE DEF r
<1>6. job \in [at: {"user", "look", "branch", "decide", "order", "commit"}, request: Requests]
      /\ job.at = "commit" /\ job.request = r
  BY <1>2
<1> HIDE DEF job
<1>7. /\ branchLock' \in Workers \cup {Nobody} /\ userLock' \in Workers \cup {Nobody}
      /\ orderLock' \in [Orders -> Workers \cup {Nobody}] /\ orderLock'[r.order] = w
  BY <1>1, <1>4, CommandsAssumption DEF IInv, TypeOK
<1>8. \A v \in Workers \ {w} : /\ branchLock = v => branchLock' = v
                               /\ userLock = v => userLock' = v
                               /\ \A o \in Orders : orderLock[o] = v => orderLock'[o] = v
  BY <1>1, <1>4, CommandsAssumption DEF IInv, TypeOK
<1>9. /\ job.request.order \in Orders /\ order[job.request.order].status \notin {"absent", "deleted"}
      /\ job.request.key \in Keys => branchLock' = w /\ saved[job.request.key] = Unused
      /\ orderLock'[job.request.order] = w
  BY <1>1, <1>2, <1>4, <1>5, <1>6, <1>7
<1>10. UNCHANGED <<order, saved, history>> /\ answer' = NoAnswer /\ worker' = [worker EXCEPT ![w] = job]
  BY <1>1, <1>2
<1> QED
  BY <1>6, <1>7, <1>8, <1>9, <1>10, StepKeeps

\* A request that ends without an effect.
LEMMA RefuseKeeps ==
  ASSUME IInv, NEW w \in Workers, NEW outcome \in Outcomes, worker[w].at # "idle", Refuse(w, outcome)
  PROVE  IInv'
<1>1. answer' \in [request: Requests, outcome: Outcomes]
  BY Busy DEF Refuse
<1> QED
  BY <1>1, EndKeeps DEF Refuse

LEMMA AbortKeeps ==
  ASSUME IInv, NEW w \in Workers, Abort(w)
  PROVE  IInv'
<1>1. answer' \in [request: Requests, outcome: Outcomes] \cup {NoAnswer}
  BY DEF Abort
<1>2. Release(w) /\ UNCHANGED <<order, saved, history>>
  BY DEF Abort
<1> QED
  BY <1>1, <1>2, EndKeeps

-----------------------------------------------------------------------------
(* Steps that have an effect on an order.                                  *)

\* The request of w has its effect on o: row is what becomes of the order, and the reply
\* is saved under its key, if it has one.
LEMMA EffectKeeps ==
  ASSUME IInv, NEW w \in Workers, NEW o \in Orders, worker[w].at # "idle", Commit(w, o),
         NEW row \in [status: Statuses, version: Nat, seated: BOOLEAN, by: {"staff", "user", "guest"}],
         order' = [order EXCEPT ![o] = row],
         row.version = order[o].version + 1, row.status # "absent",
         row.status = "deleted" <=> worker[w].request.kind = "delete",
         row.status = "cancelled" <=> worker[w].request.kind = "cancel",
         worker[w].request.kind # "cancel" /\ row.status # "deleted" => order[o].status # "cancelled",
         order[o].status # "deleted",
         row.status = "deleted" => orderLock[o] = w,
         worker[w].request.order \in {NoOrder, o},
         IF worker[w].request.kind = "cancel" THEN saved' = saved
         ELSE /\ branchLock = w /\ saved[worker[w].request.key] = Unused
              /\ worker[w].request.key \in UserKeys => userLock = w
              /\ saved' = [(IF worker[w].request.kind = "delete" THEN Scrubbed(worker[w].request) ELSE saved)
                            EXCEPT ![worker[w].request.key] =
                              [request |-> worker[w].request, order |-> o, scrubbed |-> FALSE]],
         worker[w].request.kind = "delete" => worker[w].request.order = o,
         row.status = "open" => worker[w].request.kind \notin {"complete", "cancel", "delete"},
         row.seated => order[o].seated \/ order[o].status = "absent",
         row.seated /\ order[o].status = "absent" => worker[w].request.kind # "takeaway"
  PROVE  IInv'
<1> DEFINE r == worker[w].request
           k == r.key
<1>1. r \in Requests /\ Release(w) /\ history' = [history EXCEPT ![o] = Append(@, r)]
  BY Busy DEF Commit
<1>2. /\ \A x \in Orders : history'[x] = IF x = o THEN Append(history[o], r) ELSE history[x]
      /\ \A x \in Orders : order'[x] = IF x = o THEN row ELSE order[x]
      /\ history[o] \in Seq(Requests)
  BY <1>1 DEF IInv, TypeOK
<1>3. /\ Append(history[o], r) \in Seq(Requests) /\ Append(history[o], r) # <<>>
      /\ Len(Append(history[o], r)) = Len(history[o]) + 1 /\ Last(Append(history[o], r)) = r
      /\ Range(Append(history[o], r)) = Range(history[o]) \cup {r}
      /\ Head(Append(history[o], r)) = IF history[o] = <<>> THEN r ELSE Head(history[o])
  BY <1>1, <1>2, Appended
<1>4. \A x \in Orders : Past(x)' = IF x = o THEN Past(o) \cup {r} ELSE Past(x)
  BY <1>2, <1>3 DEF Past
<1>5. r.order \in {NoOrder, o} /\ \A x \in Orders : x # NoOrder
  BY CommandsAssumption
<1> HIDE DEF r
<1>6. OrdersKnow'
  <2> SUFFICES ASSUME NEW x \in Orders
               PROVE  /\ order'[x].version = Len(history'[x])
                      /\ order'[x].status = "absent" <=> history'[x] = <<>>
                      /\ order'[x].status = "deleted" <=> history'[x] # <<>> /\ Last(history'[x]).kind = "delete"
                      /\ order'[x].status = "cancelled" => \E q \in Past(x)' : q.kind = "cancel"
                      /\ order'[x].status \notin {"cancelled", "deleted"} =>
                           \A q \in Past(x)' : q.kind # "cancel"
                      /\ \A q \in Past(x)' : q.order \in {NoOrder, x}
                      /\ order'[x].status = "open" =>
                           Last(history'[x]).kind \notin {"complete", "cancel", "delete"}
                      /\ order'[x].seated => Head(history'[x]).kind # "takeaway"
    BY DEF OrdersKnow
  <2>1. CASE x # o
    BY <1>2, <1>4, <2>1 DEF IInv, OrdersKnow
  <2>2. CASE x = o
    <3>1. order'[x] = row /\ history'[x] = Append(history[o], r) /\ Past(x)' = Past(o) \cup {r}
      BY <1>2, <1>4, <2>2
    <3>2. /\ order[o].version = Len(history[o])
          /\ order[o].status \notin {"cancelled", "deleted"} => \A q \in Past(o) : q.kind # "cancel"
          /\ \A q \in Past(o) : q.order \in {NoOrder, o}
      BY DEF IInv, OrdersKnow
    <3>3. /\ row.version = Len(history'[x]) /\ row.status # "absent" /\ history'[x] # <<>>
          /\ row.status = "deleted" <=> Last(history'[x]).kind = "delete"
      BY <1>3, <3>1, <3>2 DEF r
    <3>4. row.status = "cancelled" => \E q \in Past(x)' : q.kind = "cancel"
      BY <3>1 DEF r
    <3>5. row.status \notin {"cancelled", "deleted"} => \A q \in Past(x)' : q.kind # "cancel"
      BY <3>1, <3>2 DEF r
    <3>6. \A q \in Past(x)' : q.order \in {NoOrder, x}
      BY <1>5, <2>2, <3>1, <3>2
    <3>7. order'[x].status = "open" => Last(history'[x]).kind \notin {"complete", "cancel", "delete"}
      BY <1>3, <3>1 DEF r
    <3>8. order'[x].seated => Head(history'[x]).kind # "takeaway"
      <4>1. /\ order[o].status = "absent" <=> history[o] = <<>>
            /\ order[o].seated => Head(history[o]).kind # "takeaway"
        BY DEF IInv, OrdersKnow
      <4> QED
        BY <1>3, <3>1, <4>1 DEF r
    <3> QED
      BY <3>1, <3>3, <3>4, <3>5, <3>6, <3>7, <3>8
  <2> QED
    BY <2>1, <2>2
<1>7. r.kind # "cancel" =>
        /\ k \in Keys
        /\ \A j \in Keys :
             /\ j = k => saved'[j] = [request |-> r, order |-> o, scrubbed |-> FALSE]
             /\ j # k => saved'[j] = IF /\ r.kind = "delete" /\ saved[j].order = o
                                        /\ saved[j].request.kind # "delete"
                                     THEN [saved[j] EXCEPT !.scrubbed = TRUE] ELSE saved[j]
  <2> SUFFICES ASSUME r.kind # "cancel"
               PROVE  /\ k \in Keys
                      /\ \A j \in Keys :
                           /\ j = k => saved'[j] = [request |-> r, order |-> o, scrubbed |-> FALSE]
                           /\ j # k => saved'[j] = IF /\ r.kind = "delete" /\ saved[j].order = o
                                                      /\ saved[j].request.kind # "delete"
                                                   THEN [saved[j] EXCEPT !.scrubbed = TRUE] ELSE saved[j]
    OBVIOUS
  <2>1. k \in Keys
    BY <1>1, RequestFacts
  <2> DEFINE base == IF r.kind = "delete" THEN Scrubbed(r) ELSE saved
  <2>2. saved' = [base EXCEPT ![k] = [request |-> r, order |-> o, scrubbed |-> FALSE]]
    BY DEF r
  <2>3. DOMAIN base = Keys
    BY DEF Scrubbed, IInv, TypeOK
  <2>4. r.kind = "delete" => r.order = o
    BY DEF r
  <2>5. \A j \in Keys : base[j] = IF /\ r.kind = "delete" /\ saved[j].order = o
                                     /\ saved[j].request.kind # "delete"
                                  THEN [saved[j] EXCEPT !.scrubbed = TRUE] ELSE saved[j]
    BY <2>4 DEF Scrubbed
  <2> HIDE DEF base, k
  <2> QED
    BY <2>1, <2>2, <2>3, <2>5
<1>8. \A j \in Keys :
        /\ saved[j].order \in Orders =>
             /\ saved'[j].request = saved[j].request /\ saved'[j].order = saved[j].order
             /\ saved[j].scrubbed => saved'[j].scrubbed
        /\ saved[j] = Unused => saved'[j] = Unused \/ (j = k /\ r.kind # "cancel")
        /\ saved[j].scrubbed => saved'[j].scrubbed
        /\ saved'[j] \in [request: Requests \cup {NoRequest}, order: Orders \cup {NoOrder}, scrubbed: BOOLEAN]
  <2> TAKE j \in Keys
  <2>1. saved[j] \in [request: Requests \cup {NoRequest}, order: Orders \cup {NoOrder}, scrubbed: BOOLEAN]
    BY DEF IInv, TypeOK
  <2>2. Unused.order = NoOrder /\ ~Unused.scrubbed
    BY DEF Unused
  <2>3. CASE r.kind = "cancel"
    <3>1. saved' = saved
      BY <2>3 DEF r
    <3> QED
      BY <2>1, <3>1
  <2>4. CASE r.kind # "cancel" /\ j = k
    <3>1. saved'[j] = [request |-> r, order |-> o, scrubbed |-> FALSE]
      BY <1>7, <2>4
    <3>2. saved[j] = Unused
      BY <2>4 DEF r
    <3> QED
      BY <1>1, <1>5, <2>2, <2>4, <3>1, <3>2
  <2>5. CASE r.kind # "cancel" /\ j # k
    <3>1. \/ saved'[j] = [saved[j] EXCEPT !.scrubbed = TRUE] /\ saved[j].order = o
          \/ saved'[j] = saved[j]
      BY <1>7, <2>5
    <3> QED
      BY <1>5, <2>1, <2>2, <3>1
  <2> QED
    BY <2>3, <2>4, <2>5
<1>9. RepliesKnow'
  <2>1. ASSUME NEW x \in Orders, NEW j \in Keys, NEW q \in Past(x)', q.key = j
        PROVE  saved'[j].request = q /\ saved'[j].order = x
    <3>1. CASE q \in Past(x)
      <4>1. saved[j].request = q /\ saved[j].order = x
        BY <2>1, <3>1 DEF IInv, RepliesKnow
      <4>2. saved[j].order \in Orders
        BY <4>1
      <4>3. saved'[j].request = saved[j].request /\ saved'[j].order = saved[j].order
        BY <1>8, <4>2
      <4> QED
        BY <4>1, <4>3
    <3>2. CASE q \notin Past(x)
      <4>1. x = o /\ q = r
        BY <1>4, <2>1, <3>2
      <4>2. r.kind # "cancel" /\ j = k
        BY <1>1, <2>1, <4>1, RequestFacts
      <4>3. saved'[j] = [request |-> r, order |-> o, scrubbed |-> FALSE]
        BY <1>7, <4>2
      <4> QED
        BY <4>1, <4>3
    <3> QED
      BY <3>1, <3>2
  <2>2. ASSUME NEW j \in Keys, saved'[j] # Unused
        PROVE  /\ saved'[j].order \in Orders
               /\ saved'[j].request.key = j
               /\ \A x \in Orders : x = saved'[j].order =>
                    /\ saved'[j].request \in Past(x)'
                    /\ saved'[j].scrubbed <=> order'[x].status = "deleted" /\ saved'[j].request.kind # "delete"
    <3>1. CASE r.kind # "cancel" /\ j = k
      <4>1. saved'[j] = [request |-> r, order |-> o, scrubbed |-> FALSE]
        BY <1>7, <3>1
      <4>2. order'[o].status = "deleted" <=> r.kind = "delete"
        BY <1>2 DEF r
      <4> QED
        BY <1>4, <3>1, <4>1, <4>2
    <3>2. CASE r.kind = "cancel" \/ j # k
      <4>1. saved[j] # Unused
        BY <1>8, <2>2, <3>2
      <4>0. saved[j].order \in Orders
        BY <4>1 DEF IInv, RepliesKnow
      <4> PICK x \in Orders : x = saved[j].order
        BY <4>0
      <4>2. /\ saved[j].request \in Past(x) /\ saved[j].request.key = j
            /\ saved[j].scrubbed <=> order[x].status = "deleted" /\ saved[j].request.kind # "delete"
        BY <4>1 DEF IInv, RepliesKnow
      <4>3. saved'[j].order = x /\ saved'[j].request = saved[j].request /\ saved[j].request \in Past(x)'
        BY <1>4, <1>8, <4>2
      <4>4. saved'[j].scrubbed <=> order'[x].status = "deleted" /\ saved[j].request.kind # "delete"
        <5>0. saved[j] \in [request: Requests \cup {NoRequest}, order: Orders \cup {NoOrder}, scrubbed: BOOLEAN]
          BY DEF IInv, TypeOK
        <5>1. CASE x # o
          <6>1. saved'[j] = saved[j]
            BY <1>7, <3>2, <5>1 DEF r
          <6> QED
            BY <1>2, <4>2, <5>1, <6>1
        <5>2. CASE x = o
          <6>1. order'[x] = row /\ ~saved[j].scrubbed
            BY <1>2, <4>2, <5>2
          <6>2. CASE r.kind = "delete" /\ saved[j].request.kind # "delete"
            <7>1. saved'[j] = [saved[j] EXCEPT !.scrubbed = TRUE]
              BY <1>7, <3>2, <5>2, <6>2
            <7>2. saved'[j].scrubbed
              BY <5>0, <7>1
            <7> QED
              BY <6>1, <6>2, <7>2 DEF r
          <6>3. CASE ~(r.kind = "delete" /\ saved[j].request.kind # "delete")
            <7>1. saved'[j] = saved[j]
              BY <1>7, <3>2, <6>3 DEF r
            <7> QED
              BY <6>1, <6>3, <7>1 DEF r
          <6> QED
            BY <6>2, <6>3
        <5> QED
          BY <5>1, <5>2
      <4> QED
        BY <4>2, <4>3, <4>4
    <3> QED
      BY <3>1, <3>2
  <2> QED
    BY <2>1, <2>2 DEF RepliesKnow, Past
<1>10. /\ worker'[w] = Idle
       /\ \A v \in Workers \ {w} :
            /\ worker'[v] = worker[v]
            /\ branchLock = v => branchLock' = v
            /\ userLock = v => userLock' = v
            /\ \A x \in Orders : orderLock[x] = v => orderLock'[x] = v
  BY <1>1, Released DEF IInv
<1>11. WorkersServe'
  <2>1. \A x \in Orders : order[x].status # "absent" => order'[x].status # "absent"
    BY <1>2
  <2> QED
    BY <1>10, <2>1, CommandsAssumption DEF IInv, WorkersServe, Idle, NoRequest
<1>12. LocksHeld'
  <2> SUFFICES ASSUME NEW v \in Workers \ {w}
               PROVE  /\ worker[v].at = "decide" => branchLock' = v
                      /\ worker[v].at = "commit" /\ worker[v].request.key \in Keys => branchLock' = v
                      /\ worker[v].at \in {"look", "branch", "decide"} /\ worker[v].request.key \in UserKeys =>
                           userLock' = v
                      /\ worker[v].at = "commit" => /\ orderLock'[worker[v].request.order] = v
                                                    /\ order'[worker[v].request.order].status # "deleted"
    BY <1>10 DEF LocksHeld, Idle
  <2>1. worker[v].at = "commit" => /\ orderLock'[worker[v].request.order] = v
                                   /\ order'[worker[v].request.order].status # "deleted"
    <3> SUFFICES ASSUME worker[v].at = "commit"
                 PROVE  /\ orderLock'[worker[v].request.order] = v
                        /\ order'[worker[v].request.order].status # "deleted"
      OBVIOUS
    <3>1. /\ worker[v].request.order \in Orders /\ orderLock[worker[v].request.order] = v
          /\ order[worker[v].request.order].status # "deleted"
      BY DEF IInv, WorkersServe, LocksHeld
    <3> QED
      BY <1>2, <1>10, <3>1
  <2> QED
    BY <1>10, <2>1 DEF IInv, LocksHeld
<1>13. FindingsStand'
  <2> SUFFICES ASSUME NEW v \in Workers \ {w}
               PROVE  /\ worker[v].at \in {"branch", "decide"} /\ worker[v].request.key \in UserKeys =>
                           saved'[worker[v].request.key] = Unused \/ saved'[worker[v].request.key].scrubbed
                      /\ worker[v].at = "commit" /\ worker[v].request.key \in Keys =>
                           saved'[worker[v].request.key] = Unused
    BY <1>10 DEF FindingsStand, Idle
  <2> DEFINE j == worker[v].request.key
  <2>1. ASSUME worker[v].at \in {"branch", "decide"}, j \in UserKeys
        PROVE  saved'[j] = Unused \/ saved'[j].scrubbed
    <3>1. j \in Keys /\ userLock = v /\ (saved[j] = Unused \/ saved[j].scrubbed)
      BY <2>1 DEF IInv, LocksHeld, FindingsStand, Keys
    <3>2. ~(j = k /\ r.kind # "cancel")
      BY <2>1, <3>1 DEF r
    <3> QED
      BY <1>8, <3>1, <3>2
  <2>2. ASSUME worker[v].at = "commit", j \in Keys
        PROVE  saved'[j] = Unused
    <3>1. branchLock = v /\ saved[j] = Unused
      BY <2>2 DEF IInv, LocksHeld, FindingsStand
    <3>2. r.kind = "cancel"
      BY <3>1 DEF r
    <3> QED
      BY <1>8, <2>2, <3>1, <3>2
  <2> QED
    BY <2>1, <2>2
<1>14. TypeOK'
  <2>1. order' \in [Orders -> [status: Statuses, version: Nat, seated: BOOLEAN, by: {"staff", "user", "guest"}]]
    BY DEF IInv, TypeOK
  <2>2. history' \in [Orders -> Seq(Requests)]
    BY <1>1, <1>3 DEF IInv, TypeOK
  <2>3. saved' \in [Keys -> [request: Requests \cup {NoRequest}, order: Orders \cup {NoOrder}, scrubbed: BOOLEAN]]
    <3>1. saved' = [j \in Keys |-> saved'[j]]
      <4>1. saved = [j \in Keys |-> saved[j]]
        BY DEF IInv, TypeOK
      <4>2. Scrubbed(r) = [j \in Keys |-> Scrubbed(r)[j]]
        BY DEF Scrubbed
      <4> QED
        BY <4>1, <4>2 DEF r
    <3> QED
      BY <1>8, <3>1
  <2>4. answer' \in [request: Requests, outcome: Outcomes]
    BY <1>1 DEF Commit, Outcomes, r
  <2> QED
    BY <1>1, <2>1, <2>2, <2>3, <2>4, Released DEF IInv, TypeOK
<1> QED
  BY <1>6, <1>9, <1>11, <1>12, <1>13, <1>14 DEF IInv

\* What a request at its decision has found: the outlet is locked, and so is the row of
\* a signed-in customer.
LEMMA OpenKeeps ==
  ASSUME IInv, NEW w \in Workers, NEW o \in Orders, Open(w, o)
  PROVE  IInv'
<1> DEFINE r == worker[w].request
           row == [status |-> IF r.key \in StaffKeys THEN "open" ELSE "pending", version |-> 1,
                   seated |-> (r.kind \in AtTable), by |-> Sender(r.key)]
<1>1. /\ worker[w].at = "decide" /\ r.kind \in Opening /\ saved[r.key] = Unused /\ order[o] = Absent
      /\ order' = [order EXCEPT ![o] = row] /\ Commit(w, o)
      /\ saved' = [saved EXCEPT ![r.key] = [request |-> r, order |-> o, scrubbed |-> FALSE]]
  BY DEF Open, Undecided, Save
<1>2. r \in Requests /\ r.order = NoOrder /\ r.kind \notin {"cancel", "delete", "complete"}
  BY <1>1, Busy, RequestFacts DEF Opening, AtTable
<1>3. branchLock = w /\ (r.key \in UserKeys => userLock = w)
  BY <1>1 DEF IInv, LocksHeld
<1>4. row \in [status: Statuses, version: Nat, seated: BOOLEAN, by: {"staff", "user", "guest"}]
  BY DEF Statuses, Sender
<1>5. /\ row.version = 1 /\ row.status \in {"open", "pending"}
      /\ row.seated => r.kind # "takeaway"
  BY DEF AtTable
<1>6. order[o].version = 0 /\ order[o].status = "absent"
  BY <1>1 DEF Absent
<1>7. row.version = order[o].version + 1
  BY <1>5, <1>6
<1> HIDE DEF r, row
<1>8. /\ row.status = "deleted" <=> r.kind = "delete"
      /\ row.status = "cancelled" <=> r.kind = "cancel"
      /\ row.status \notin {"absent", "deleted"} /\ order[o].status \notin {"cancelled", "deleted"}
      /\ r.order \in {NoOrder, o} /\ r.kind # "delete" /\ r.kind # "cancel"
      /\ row.status = "open" => r.kind \notin {"complete", "cancel", "delete"}
      /\ row.seated => order[o].seated \/ order[o].status = "absent"
      /\ row.seated /\ order[o].status = "absent" => r.kind # "takeaway"
  BY <1>2, <1>5, <1>6
<1>9. worker[w].at # "idle"
  BY <1>1
<1> QED
  BY <1>1, <1>3, <1>4, <1>7, <1>8, <1>9, EffectKeeps DEF r

Rows == [status: Statuses, version: Nat, seated: BOOLEAN, by: {"staff", "user", "guest"}]

\* An order at its next version.
LEMMA NextVersion ==
  ASSUME NEW q \in Rows,
         NEW st \in Statuses
  PROVE  [q EXCEPT !.version = q.version + 1, !.status = st] =
           [status |-> st, version |-> q.version + 1, seated |-> q.seated, by |-> q.by]
<1>1. [q EXCEPT !.version = q.version + 1, !.status = st] =
        [f \in {"status", "version", "seated", "by"} |->
           IF f = "status" THEN st ELSE IF f = "version" THEN q.version + 1 ELSE q[f]]
  BY DEF Rows
<1> QED
  BY <1>1

\* A guest's round joins the order at the table under the outlet's lock.
LEMMA JoinKeeps ==
  ASSUME IInv, NEW w \in Workers, NEW o \in Orders, Join(w, o)
  PROVE  IInv'
<1> DEFINE r == worker[w].request
           row == [order[o] EXCEPT !.version = @ + 1]
<1>1. /\ worker[w].at = "decide" /\ r.kind = "scan" /\ order[o].status = "open" /\ order[o].seated
      /\ Commit(w, o)
      /\ saved' = [saved EXCEPT ![r.key] = [request |-> r, order |-> o, scrubbed |-> FALSE]]
  BY DEF Join, Undecided, Save
<1>2. r \in Requests /\ r.order = NoOrder /\ r.key \in StaffKeys
  BY <1>1, Busy, RequestFacts DEF Opening, AtTable
<1>3. branchLock = w /\ saved[r.key] = Unused /\ r.key \notin UserKeys
  BY <1>1, <1>2, CommandsAssumption DEF Join, Undecided, IInv, LocksHeld
<1>4. order[o] \in Rows
  BY DEF IInv, TypeOK, Rows
<1>5. row \in Rows /\ row.version = order[o].version + 1 /\ row.status = "open" /\ row.seated
  BY <1>1, <1>4 DEF Rows
<1>6. order' = [order EXCEPT ![o] = row]
  BY DEF Join, IInv, TypeOK
<1> HIDE DEF r, row
<1>7. worker[w].at # "idle"
  BY <1>1
<1> QED
  BY <1>1, <1>2, <1>3, <1>5, <1>6, <1>7, EffectKeeps DEF r, Rows

LEMMA ChangeKeeps ==
  ASSUME IInv, NEW w \in Workers, Change(w)
  PROVE  IInv'
<1> DEFINE r == worker[w].request
           o == r.order
           st == CASE r.kind = "update" -> "open"
                   [] r.kind = "complete" -> "completed"
                   [] r.kind = "delete" -> "deleted"
           row == [order[o] EXCEPT !.version = @ + 1, !.status = st]
<1>1. /\ worker[w].at = "commit" /\ r.key \in Keys /\ Allowed(r)
      /\ order' = [order EXCEPT ![o] = row] /\ Commit(w, o)
      /\ saved' = [(IF r.kind = "delete" THEN Scrubbed(r) ELSE saved) EXCEPT ![r.key] =
                     [request |-> r, order |-> o, scrubbed |-> FALSE]]
  <2>1. worker[w].at = "commit" /\ r.key \in Keys /\ Allowed(r) /\ Commit(w, o)
    BY DEF Change
  <2>2. order' = [order EXCEPT ![o] = row]
    <3>1. order' = [order EXCEPT ![o].version = @ + 1, ![o].status = st]
      BY DEF Change
    <3>2. r \in Requests /\ o \in Orders
      BY <2>1, Busy DEF IInv, WorkersServe
    <3> HIDE DEF o, st, r
    <3> QED
      BY <3>1, <3>2 DEF IInv, TypeOK
  <2>3. saved' = [(IF r.kind = "delete" THEN Scrubbed(r) ELSE saved) EXCEPT ![r.key] =
                    [request |-> r, order |-> o, scrubbed |-> FALSE]]
    BY DEF Change
  <2> QED
    BY <2>1, <2>2, <2>3
<1>2. r \in Requests /\ o \in Orders
  BY <1>1, Busy DEF IInv, WorkersServe
<1>3. r.kind \in {"update", "complete", "delete"} /\ r.key \in StaffKeys
  BY <1>1, <1>2, RequestFacts
<1>4. /\ branchLock = w /\ saved[r.key] = Unused /\ r.key \notin UserKeys
      /\ orderLock[o] = w /\ order[o].status # "deleted"
  BY <1>1, <1>3, CommandsAssumption DEF IInv, LocksHeld, FindingsStand
<1>5. order[o] \in Rows
  BY <1>2 DEF IInv, TypeOK, Rows
<1>6. /\ row \in Rows
      /\ row.version = order[o].version + 1
      /\ row.status = IF r.kind = "update" THEN "open"
                      ELSE IF r.kind = "complete" THEN "completed" ELSE "deleted"
      /\ row.seated => order[o].seated
  <2>1. st \in Statuses
        /\ st = IF r.kind = "update" THEN "open"
                ELSE IF r.kind = "complete" THEN "completed" ELSE "deleted"
    BY <1>3 DEF Statuses
  <2> HIDE DEF o, st, r
  <2>2. row = [status |-> st, version |-> order[o].version + 1, seated |-> order[o].seated, by |-> order[o].by]
    BY <1>5, <2>1, NextVersion
  <2> HIDE DEF row
  <2>3. row \in Rows /\ row.version = order[o].version + 1 /\ row.status = st
        /\ (row.seated => order[o].seated)
    BY <1>5, <2>1, <2>2 DEF Rows
  <2> QED
    BY <2>1, <2>3
<1>7. r.kind # "delete" => order[o].status # "cancelled"
  BY <1>1, <1>3 DEF Allowed
<1> HIDE DEF row
<1>8. /\ row.status = "deleted" <=> r.kind = "delete"
      /\ row.status = "cancelled" <=> r.kind = "cancel"
      /\ row.status # "absent" /\ r.order \in {NoOrder, o} /\ r.kind # "cancel"
      /\ r.kind # "cancel" /\ row.status # "deleted" => order[o].status # "cancelled"
      /\ row.status = "open" => r.kind \notin {"complete", "cancel", "delete"}
      /\ row.seated => order[o].seated \/ order[o].status = "absent"
  BY <1>3, <1>6, <1>7
<1>9. worker[w].at # "idle" /\ r.kind # "takeaway"
  BY <1>1, <1>3
<1> HIDE DEF o
<1>10. r.order = o
  BY DEF o
<1> HIDE DEF r
<1> QED
  BY <1>1, <1>2, <1>4, <1>6, <1>8, <1>9, <1>10, EffectKeeps DEF r, Rows

LEMMA CancelKeeps ==
  ASSUME IInv, NEW w \in Workers, Cancel(w)
  PROVE  IInv'
<1> DEFINE r == worker[w].request
           o == r.order
<1>1. worker[w].at = "commit" /\ r.kind = "cancel"
  BY DEF Cancel
<1>2. r \in Requests /\ o \in Orders
  BY <1>1, Busy DEF IInv, WorkersServe
<1>3. CASE order[o].status = "pending" /\ Commit(w, o)
           /\ order' = [order EXCEPT ![o].status = "cancelled", ![o].version = @ + 1] /\ UNCHANGED saved
  <2> DEFINE row == [order[o] EXCEPT !.version = @ + 1, !.status = "cancelled"]
  <2>1. order[o] \in Rows
    BY <1>2 DEF IInv, TypeOK, Rows
  <2>2. /\ row \in Rows
        /\ row.version = order[o].version + 1 /\ row.status = "cancelled"
        /\ row.seated => order[o].seated
    <3>1. "cancelled" \in Statuses
      BY DEF Statuses
    <3> HIDE DEF o
    <3>2. row = [status |-> "cancelled", version |-> order[o].version + 1,
                 seated |-> order[o].seated, by |-> order[o].by]
      BY <2>1, <3>1, NextVersion
    <3> HIDE DEF row
    <3> QED
      BY <2>1, <3>1, <3>2 DEF Rows
  <2>3. order' = [order EXCEPT ![o] = row]
    BY <1>2, <1>3 DEF IInv, TypeOK
  <2> HIDE DEF row
  <2>4. worker[w].at # "idle" /\ saved' = saved /\ order[o].status \notin {"cancelled", "deleted"}
        /\ o \in {NoOrder, o}
    BY <1>1, <1>3
  <2> HIDE DEF o
  <2>5. r.order = o
    BY DEF o
  <2> HIDE DEF r
  <2> QED
    BY <1>1, <1>2, <1>3, <2>2, <2>3, <2>4, <2>5, EffectKeeps DEF r, Rows
<1>4. CASE Refuse(w, "done") \/ Refuse(w, "refused")
  BY <1>1, <1>4, RefuseKeeps DEF Outcomes
<1> QED
  BY <1>3, <1>4 DEF Cancel

-----------------------------------------------------------------------------
(* The invariant holds throughout.                                         *)

LEMMA InitIInv == Init => IInv
<1> SUFFICES ASSUME Init PROVE IInv
  OBVIOUS
<1> USE DEF Init
<1>1. TypeOK
  <2>1. Idle \in [at: {"idle", "user", "look", "branch", "decide", "order", "commit"},
                  request: Requests \cup {NoRequest}]
    BY DEF Idle
  <2>2. Absent \in [status: Statuses, version: Nat, seated: BOOLEAN, by: {"staff", "user", "guest"}]
    BY DEF Absent, Statuses
  <2>3. Unused \in [request: Requests \cup {NoRequest}, order: Orders \cup {NoOrder}, scrubbed: BOOLEAN]
    BY DEF Unused
  <2>4. <<>> \in Seq(Requests)
    BY EmptySeq
  <2> QED
    BY <2>1, <2>2, <2>3, <2>4 DEF TypeOK
<1>2. \A o \in Orders : Past(o) = {} /\ history[o] = <<>> /\ Len(history[o]) = 0
  BY EmptySeq DEF Past, Range
<1>3. OrdersKnow
  BY <1>2 DEF OrdersKnow, Absent
<1>4. RepliesKnow
  BY <1>2 DEF RepliesKnow
<1>5. WorkersServe /\ LocksHeld /\ FindingsStand
  BY CommandsAssumption DEF WorkersServe, LocksHeld, FindingsStand, Idle, NoRequest
<1> QED
  BY <1>1, <1>3, <1>4, <1>5 DEF IInv

LEMMA ReplayKeeps ==
  ASSUME IInv, NEW w \in Workers, worker[w].at # "idle", Replay(w)
  PROVE  IInv'
BY RefuseKeeps DEF Replay, Outcomes

LEMMA NextIInv ==
  ASSUME IInv, [Next]_vars
  PROVE  IInv'
<1>1. ASSUME NEW w \in Workers, NEW r \in Requests, Receive(w, r)
      PROVE  IInv'
  BY <1>1, ReceiveKeeps
<1>2. ASSUME NEW w \in Workers, LockUser(w) \/ Look(w) \/ LockBranch(w) \/ LockOrder(w) \/ Abort(w)
      PROVE  IInv'
  BY <1>2, LockUserKeeps, LookKeeps, LockBranchKeeps, LockOrderKeeps, AbortKeeps
<1>3. ASSUME NEW w \in Workers, Answered(w)
      PROVE  IInv'
  BY <1>3, ReplayKeeps, RefuseKeeps DEF Answered, Outcomes
<1>4. ASSUME NEW w \in Workers, TableRefused(w) \/ NotFound(w) \/ Stale(w) \/ Forbidden(w)
      PROVE  IInv'
  <2>1. worker[w].at # "idle" /\ \E outcome \in Outcomes : Refuse(w, outcome)
    BY <1>4 DEF TableRefused, NotFound, Stale, Forbidden, Undecided, Outcomes
  <2> QED
    BY <2>1, RefuseKeeps
<1>5. ASSUME NEW w \in Workers, NEW o \in Orders, Open(w, o) \/ Join(w, o)
      PROVE  IInv'
  BY <1>5, OpenKeeps, JoinKeeps
<1>6. ASSUME NEW w \in Workers, Change(w) \/ Cancel(w)
      PROVE  IInv'
  BY <1>6, ChangeKeeps, CancelKeeps
<1>7. CASE UNCHANGED vars
  BY <1>7 DEF vars, locks, IInv, TypeOK, OrdersKnow, RepliesKnow, WorkersServe, LocksHeld, FindingsStand,
              Past, Range, Last
<1> QED
  BY <1>1, <1>2, <1>3, <1>4, <1>5, <1>6, <1>7 DEF Next

\* The inductive invariant holds in every reachable state.
LEMMA AlwaysIInv == Spec => []IInv
BY InitIInv, NextIInv, PTL DEF Spec

\* The locks, the orders, the saved replies and the effects on record are of their
\* kinds, however many requests arrive and workers fail.
THEOREM TypeCorrect == Spec => []TypeOK
<1>1. IInv => TypeOK
  BY DEF IInv
<1> QED
  BY <1>1, AlwaysIInv, PTL

-----------------------------------------------------------------------------
(* Every step is one that ExactlyOnce allows.                              *)

\* A website guest's repeated request for a table may be answered "refused" because the
\* first one sits at it: Look missed the first one, which had not been committed yet,
\* and no row of the guest is locked before the outlet's.
RefusedTwice ==
  /\ UNCHANGED history
  /\ \E r \in Openings :
       r.key \in GuestKeys /\ r.kind \in AtTable /\ answer' = [request |-> r, outcome |-> "refused"]

LEMMA Meaning ==
  /\ \A r : Promise!Applied(r) <=> \E o \in Orders : r \in Past(o)
  /\ \A o : Promise!Deleted(o) <=> history[o] # <<>> /\ Last(history[o]).kind = "delete"
  /\ \A o : Promise!Exists(o) <=> history[o] # <<>>
  /\ \A o, k : Promise!KeyUsedOn(o, k) <=> \E r \in Past(o) : r.key = k
  /\ \A k : Promise!KeyUsed(k) <=> \E o \in Orders : \E r \in Past(o) : r.key = k
BY DEF Promise!Applied, Promise!Deleted, Promise!Exists, Promise!KeyUsedOn, Promise!KeyUsed,
       Promise!Range, Promise!Last, Past, Range, Last

\* What a request's sender is told is true.
LEMMA Told ==
  ASSUME NEW w \in Workers, NEW outcome \in Outcomes, Refuse(w, outcome),
         worker[w].request \in Requests,
         Promise!True([request |-> worker[w].request, outcome |-> outcome])
  PROVE  Promise!Next
<1> DEFINE a == [request |-> worker[w].request, outcome |-> outcome]
<1>1. answer' = a /\ UNCHANGED history
  BY DEF Refuse
<1>2. a \in Promise!Answers
  BY DEF Promise!Answers, Outcomes
<1> HIDE DEF a
<1>3. Promise!True(a)
  BY DEF a
<1>4. Promise!Tell(answer')
  BY <1>1, <1>3 DEF Promise!Tell
<1> QED
  BY <1>1, <1>2, <1>4 DEF Promise!Next

\* A request whose key is unused has had no effect.
LEMMA UnusedUnapplied ==
  ASSUME IInv, NEW r \in Requests, r.key \in Keys, saved[r.key] = Unused
  PROVE  ~Promise!KeyUsed(r.key) /\ ~Promise!Applied(r)
<1>1. \A o \in Orders : \A q \in Past(o) : q.key # r.key
  <2> SUFFICES ASSUME NEW o \in Orders, NEW q \in Past(o), q.key = r.key PROVE FALSE
    OBVIOUS
  <2>1. saved[r.key].order = o
    BY DEF IInv, RepliesKnow
  <2> QED
    BY <2>1, CommandsAssumption DEF Unused
<1> QED
  BY <1>1, Meaning

LEMMA ReplayTells ==
  ASSUME IInv, NEW w \in Workers, worker[w].request \in Requests, worker[w].request.key \in Keys,
         saved[worker[w].request.key] # Unused, Replay(w)
  PROVE  Promise!Next
<1> DEFINE r == worker[w].request
           s == saved[r.key]
           outcome == IF s.request # r THEN "reused" ELSE IF s.scrubbed THEN "gone" ELSE "done"
<1>1. Refuse(w, outcome) /\ outcome \in Outcomes
  BY DEF Replay, Outcomes
<1>2. /\ s.order \in Orders /\ s.request \in Past(s.order) /\ s.request.key = r.key
      /\ s.scrubbed <=> order[s.order].status = "deleted" /\ s.request.kind # "delete"
  BY DEF IInv, RepliesKnow
<1>3. order[s.order].status = "deleted" <=> Promise!Deleted(s.order)
  BY <1>2, Meaning DEF IInv, OrdersKnow
<1>4. \A o \in Orders : r \in Past(o) => s.request = r
  BY DEF IInv, RepliesKnow
<1>5. Promise!KeyUsed(r.key) /\ Promise!KeyUsedOn(s.order, r.key)
  BY <1>2, Meaning
<1> HIDE DEF s
<1>6. CASE s.request # r
  <2>1. ~Promise!Applied(r)
    BY <1>4, <1>6, Meaning
  <2>2. outcome = "reused"
    BY <1>6
  <2>3. Promise!True([request |-> r, outcome |-> "reused"])
    BY <1>5, <2>1 DEF Promise!True
  <2> QED
    BY <1>1, <2>2, <2>3, Told
<1>7. CASE s.request = r /\ s.scrubbed
  <2>1. outcome = "gone"
    BY <1>7
  <2>2. Promise!True([request |-> r, outcome |-> "gone"])
    BY <1>2, <1>3, <1>5, <1>7 DEF Promise!True
  <2> QED
    BY <1>1, <2>1, <2>2, Told
<1>8. CASE s.request = r /\ ~s.scrubbed
  <2>1. outcome = "done"
    BY <1>8
  <2>2. r \in Promise!Range(history[s.order])
    BY <1>2, <1>8 DEF Past, Promise!Range, Range
  <2>3. Promise!True([request |-> r, outcome |-> "done"])
    BY <1>2, <1>3, <1>8, <2>2 DEF Promise!True
  <2> QED
    BY <1>1, <2>1, <2>3, Told
<1> QED
  BY <1>6, <1>7, <1>8

LEMMA AnsweredTells ==
  ASSUME IInv, NEW w \in Workers, Answered(w)
  PROVE  Promise!Next
<1> DEFINE r == worker[w].request
           s == saved[r.key]
<1>1. worker[w].at = "decide" /\ s # Unused /\ (Replay(w) \/ (s.scrubbed /\ Refuse(w, "gone")))
  BY DEF Answered
<1>2. r \in Requests /\ r.key \in Keys
  BY <1>1, Busy DEF IInv, WorkersServe
<1>3. CASE Replay(w)
  BY <1>1, <1>2, <1>3, ReplayTells
<1>4. CASE s.scrubbed /\ Refuse(w, "gone")
  <2>1. /\ s.order \in Orders /\ s.request \in Past(s.order) /\ s.request.key = r.key
        /\ order[s.order].status = "deleted"
    BY <1>1, <1>2, <1>4 DEF IInv, RepliesKnow
  <2>2. Promise!Deleted(s.order) /\ Promise!KeyUsedOn(s.order, r.key)
    BY <2>1, Meaning DEF IInv, OrdersKnow
  <2>3. Promise!True([request |-> r, outcome |-> "gone"])
    BY <2>1, <2>2 DEF Promise!True
  <2> QED
    BY <1>2, <1>4, <2>3, Told DEF Outcomes
<1> QED
  BY <1>1, <1>3, <1>4

LEMMA LookTells ==
  ASSUME IInv, NEW w \in Workers, Look(w)
  PROVE  Promise!Next
<1> DEFINE r == worker[w].request
           s == saved[r.key]
<1>1. worker[w].at = "look"
  BY DEF Look
<1>2. r \in Requests /\ r.key \in Keys
  BY <1>1, Busy DEF IInv, WorkersServe, Keys
<1>3. CASE s # Unused /\ ~s.scrubbed
  BY <1>2, <1>3, ReplayTells DEF Look
<1>4. CASE ~(s # Unused /\ ~s.scrubbed)
  BY <1>4 DEF Look, Promise!Next, Promise!Silence
<1> QED
  BY <1>3, <1>4

LEMMA NotFoundTells ==
  ASSUME IInv, NEW w \in Workers, NotFound(w)
  PROVE  Promise!Next
<1> DEFINE r == worker[w].request
<1>1. /\ worker[w].at \in {"decide", "order"} /\ (worker[w].at = "decide" => r.order # NoOrder)
      /\ order[r.order].status = "deleted" /\ Refuse(w, "gone")
  BY DEF NotFound, Undecided
<1>2. r \in Requests /\ (worker[w].at = "order" => r.kind = "cancel")
  BY <1>1, Busy DEF IInv, WorkersServe
<1>3. r.order \in Orders
  BY <1>1, <1>2, RequestFacts DEF Opening, AtTable
<1>4. Promise!Deleted(r.order)
  BY <1>1, <1>3, Meaning DEF IInv, OrdersKnow
<1>5. Promise!True([request |-> r, outcome |-> "gone"])
  BY <1>3, <1>4 DEF Promise!True
<1> QED
  BY <1>1, <1>2, <1>5, Told DEF Outcomes

\* A table is refused to a request that has had no effect, but for a guest's.
LEMMA TableRefusedTells ==
  ASSUME IInv, NEW w \in Workers, TableRefused(w)
  PROVE  Promise!Next \/ RefusedTwice
<1> DEFINE r == worker[w].request
<1>1. worker[w].at = "decide" /\ Undecided(w) /\ r.kind \in AtTable /\ Refuse(w, "refused")
  BY DEF TableRefused, Undecided
<1>2. r \in Requests /\ r.key \in Keys
  BY <1>1, Busy DEF IInv, WorkersServe
<1>3. CASE r.key \notin GuestKeys
  <2>1. saved[r.key] = Unused
    BY <1>1, <1>2, <1>3 DEF Undecided, IInv, FindingsStand, Keys
  <2>2. Promise!True([request |-> r, outcome |-> "refused"])
    BY <1>2, <2>1, UnusedUnapplied DEF Promise!True
  <2> QED
    BY <1>1, <1>2, <2>2, Told DEF Outcomes
<1>4. CASE r.key \in GuestKeys
  <2>1. r \in Openings
    BY <1>1, <1>2 DEF Requests, Changes, Cancellations, AtTable
  <2> QED
    BY <1>1, <1>4, <2>1 DEF RefusedTwice, Refuse
<1> QED
  BY <1>3, <1>4

LEMMA StaleTells ==
  ASSUME IInv, NEW w \in Workers, Stale(w)
  PROVE  Promise!Next
<1> DEFINE r == worker[w].request
<1>1. worker[w].at = "commit" /\ r.key \in Keys /\ r.version # order[r.order].version /\ Refuse(w, "stale")
  BY DEF Stale, VersionSeen
<1>2. r \in Requests /\ r.order \in Orders /\ saved[r.key] = Unused
  BY <1>1, Busy DEF IInv, WorkersServe, FindingsStand
<1>3. r.version # Len(history[r.order]) /\ r.order # NoOrder
  BY <1>1, <1>2, CommandsAssumption DEF IInv, OrdersKnow
<1>4. Promise!True([request |-> r, outcome |-> "stale"])
  BY <1>1, <1>2, <1>3, UnusedUnapplied DEF Promise!True
<1> QED
  BY <1>1, <1>2, <1>4, Told DEF Outcomes

LEMMA ForbiddenTells ==
  ASSUME IInv, NEW w \in Workers, Forbidden(w)
  PROVE  Promise!Next
<1> DEFINE r == worker[w].request
<1>1. worker[w].at = "commit" /\ r.key \in Keys /\ Refuse(w, "refused")
  BY DEF Forbidden
<1>2. r \in Requests /\ saved[r.key] = Unused
  BY <1>1, Busy DEF IInv, FindingsStand
<1>3. Promise!True([request |-> r, outcome |-> "refused"])
  BY <1>1, <1>2, UnusedUnapplied DEF Promise!True
<1> QED
  BY <1>1, <1>2, <1>3, Told DEF Outcomes

LEMMA Applying ==
  ASSUME NEW w \in Workers, NEW o \in Orders, Commit(w, o), worker[w].request \in Requests,
         worker[w].request.key = NoKey \/ ~Promise!KeyUsed(worker[w].request.key),
         IF worker[w].request.order = NoOrder
         THEN ~Promise!Exists(o) \/ (worker[w].request.kind = "scan" /\ Promise!RunsAtTable(o))
         ELSE worker[w].request.order = o /\ Promise!Exists(o) /\ ~Promise!Deleted(o),
         worker[w].request.order # NoOrder /\ worker[w].request.key # NoKey =>
           worker[w].request.version = Len(history[o])
  PROVE  Promise!Next
<1> DEFINE r == worker[w].request
<1>1. answer' = [request |-> r, outcome |-> "done"] /\ history' = [history EXCEPT ![o] = Append(@, r)]
  BY DEF Commit
<1> HIDE DEF r
<1>2. r \in Requests
  BY DEF r
<1>3. answer' \in Promise!Answers /\ answer'.request = r
  BY <1>1, <1>2 DEF Promise!Answers
<1>4. Promise!Apply(r, o)
  BY <1>1 DEF Promise!Apply, r
<1> QED
  BY <1>3, <1>4 DEF Promise!Next

LEMMA OpenApplies ==
  ASSUME IInv, NEW w \in Workers, NEW o \in Orders, Open(w, o)
  PROVE  Promise!Next
<1> DEFINE r == worker[w].request
<1>1. /\ worker[w].at = "decide" /\ r.kind \in Opening /\ saved[r.key] = Unused /\ order[o] = Absent
      /\ Commit(w, o)
  BY DEF Open, Undecided
<1>2. r \in Requests /\ r.order = NoOrder /\ r.key \in Keys
  BY <1>1, Busy, RequestFacts DEF IInv, WorkersServe
<1>3. ~Promise!KeyUsed(r.key)
  BY <1>1, <1>2, UnusedUnapplied
<1>4. ~Promise!Exists(o)
  BY <1>1, Meaning DEF IInv, OrdersKnow, Absent
<1> QED
  BY <1>1, <1>2, <1>3, <1>4, Applying

LEMMA JoinApplies ==
  ASSUME IInv, NEW w \in Workers, NEW o \in Orders, Join(w, o)
  PROVE  Promise!Next
<1> DEFINE r == worker[w].request
<1>1. /\ worker[w].at = "decide" /\ r.kind = "scan" /\ order[o].status = "open" /\ order[o].seated
      /\ Commit(w, o)
  BY DEF Join, Undecided
<1>2. r \in Requests /\ r.order = NoOrder /\ r.key \in Keys /\ saved[r.key] = Unused
  BY <1>1, Busy, RequestFacts DEF Join, Undecided, IInv, WorkersServe, Opening, AtTable
<1>3. ~Promise!KeyUsed(r.key)
  BY <1>1, <1>2, UnusedUnapplied
<1>4. /\ history[o] # <<>> /\ Head(history[o]).kind # "takeaway"
      /\ Last(history[o]).kind \notin {"complete", "cancel", "delete"}
  BY <1>1 DEF IInv, OrdersKnow
<1>5. Promise!RunsAtTable(o)
  BY <1>4 DEF Promise!RunsAtTable, Promise!Exists, Promise!Last, Last
<1> QED
  BY <1>1, <1>2, <1>3, <1>5, Applying

LEMMA ChangeApplies ==
  ASSUME IInv, NEW w \in Workers, Change(w)
  PROVE  Promise!Next
<1> DEFINE r == worker[w].request
<1>1. worker[w].at = "commit" /\ r.key \in Keys /\ r.version = order[r.order].version /\ Commit(w, r.order)
  BY DEF Change, VersionSeen
<1>2. r \in Requests /\ r.order \in Orders /\ saved[r.key] = Unused
      /\ order[r.order].status \notin {"absent", "deleted"}
  BY <1>1, Busy DEF IInv, WorkersServe, FindingsStand, LocksHeld
<1>3. ~Promise!KeyUsed(r.key)
  BY <1>1, <1>2, UnusedUnapplied
<1>4. Promise!Exists(r.order) /\ ~Promise!Deleted(r.order) /\ r.version = Len(history[r.order])
  BY <1>1, <1>2, Meaning DEF IInv, OrdersKnow
<1>5. r.order # NoOrder
  BY <1>2, CommandsAssumption
<1> QED
  BY <1>1, <1>2, <1>3, <1>4, <1>5, Applying

\* All cancellations of one order are one request: whether it had its effect shows in
\* the order's status.
LEMMA CancelTells ==
  ASSUME IInv, NEW w \in Workers, Cancel(w)
  PROVE  Promise!Next
<1> DEFINE r == worker[w].request
           o == r.order
<1>1. worker[w].at = "commit" /\ r.kind = "cancel"
  BY DEF Cancel
<1>2. r \in Requests /\ o \in Orders /\ order[o].status \notin {"absent", "deleted"}
  BY <1>1, Busy DEF IInv, WorkersServe, LocksHeld
<1>3. /\ r.key = NoKey /\ o # NoOrder
      /\ r = [key |-> NoKey, kind |-> "cancel", order |-> o, version |-> 0]
  BY <1>1, <1>2, RequestFacts, CommandsAssumption
<1>4. Promise!Exists(o) /\ ~Promise!Deleted(o)
  BY <1>2, Meaning DEF IInv, OrdersKnow
<1>5. CASE order[o].status = "pending" /\ Commit(w, o)
  BY <1>2, <1>3, <1>4, <1>5, Applying
<1>6. CASE order[o].status = "cancelled" /\ Refuse(w, "done")
  <2>1. PICK q \in Past(o) : q.kind = "cancel"
    BY <1>2, <1>6 DEF IInv, OrdersKnow
  <2>2. q.order \in {NoOrder, o} /\ history[o] \in Seq(Requests)
    BY <1>2 DEF IInv, OrdersKnow, TypeOK
  <2>3. q \in Requests
    <3>1. PICK i \in DOMAIN history[o] : q = history[o][i]
      BY DEF Past, Range
    <3>2. DOMAIN history[o] = 1..Len(history[o])
      BY <2>2, LenProperties
    <3> QED
      BY <2>2, <3>1, <3>2, ElementOfSeq
  <2>4. q.order = o
    BY <2>1, <2>2, <2>3, RequestFacts DEF Opening, AtTable
  <2>5. q = [key |-> NoKey, kind |-> "cancel", order |-> o, version |-> 0]
    BY <2>1, <2>3, <2>4, RequestFacts
  <2>6. r \in Promise!Range(history[o])
    BY <1>3, <2>5 DEF Past, Range, Promise!Range
  <2>7. Promise!True([request |-> r, outcome |-> "done"])
    BY <1>2, <1>4, <2>6 DEF Promise!True
  <2> QED
    BY <1>2, <1>6, <2>7, Told DEF Outcomes
<1>7. CASE order[o].status \notin {"pending", "cancelled"} /\ Refuse(w, "refused")
  <2>1. \A x \in Orders : r \notin Past(x)
    <3> SUFFICES ASSUME NEW x \in Orders, r \in Past(x) PROVE FALSE
      OBVIOUS
    <3>1. r.order \in {NoOrder, x}
      BY DEF IInv, OrdersKnow
    <3>2. x = o
      BY <1>3, <3>1
    <3> QED
      BY <1>1, <1>2, <1>7, <3>2 DEF IInv, OrdersKnow
  <2>2. Promise!True([request |-> r, outcome |-> "refused"])
    BY <2>1, Meaning DEF Promise!True
  <2> QED
    BY <1>2, <1>7, <2>2, Told DEF Outcomes
<1> QED
  BY <1>5, <1>6, <1>7 DEF Cancel

LEMMA Steps ==
  ASSUME IInv, [Next]_vars
  PROVE  [Promise!Next \/ RefusedTwice]_<<history, answer>>
<1>1. ASSUME NEW w \in Workers, NEW r \in Requests, Receive(w, r)
      PROVE  Promise!Next
  BY <1>1 DEF Receive, Promise!Next, Promise!Silence
<1>2. ASSUME NEW w \in Workers, LockUser(w) \/ LockBranch(w) \/ LockOrder(w) \/ Abort(w)
      PROVE  Promise!Next
  BY <1>2 DEF LockUser, LockBranch, LockOrder, Abort, Promise!Next, Promise!Silence
<1>3. ASSUME NEW w \in Workers,
             Look(w) \/ Answered(w) \/ NotFound(w) \/ Stale(w) \/ Forbidden(w) \/ Change(w) \/ Cancel(w)
      PROVE  Promise!Next
  BY <1>3, LookTells, AnsweredTells, NotFoundTells, StaleTells, ForbiddenTells, ChangeApplies, CancelTells
<1>4. ASSUME NEW w \in Workers, TableRefused(w)
      PROVE  Promise!Next \/ RefusedTwice
  BY <1>4, TableRefusedTells
<1>5. ASSUME NEW w \in Workers, NEW o \in Orders, Open(w, o) \/ Join(w, o)
      PROVE  Promise!Next
  BY <1>5, OpenApplies, JoinApplies
<1>6. CASE UNCHANGED vars
  BY <1>6 DEF vars
<1> QED
  BY <1>1, <1>2, <1>3, <1>4, <1>5, <1>6 DEF Next

\* However often requests arrive and wherever workers fail, a request has at most one
\* effect - on the version of the order its sender saw, if it names one, and otherwise on
\* a new order or, for a scan, on the one running at the table - and every answer is
\* true, but for one: a guest of the website who taps twice may read that the table is
\* taken, by their own order.
THEOREM AtMostOnce ==
  Spec => Promise!Init /\ [][Promise!Next \/ RefusedTwice]_<<history, answer>>
<1>1. Init => Promise!Init
  BY DEF Init, Promise!Init
<1> QED
  BY <1>1, AlwaysIInv, Steps, PTL DEF Spec

\* Without website guests the commands implement ExactlyOnce.
THEOREM CommandsKeepPromise ==
  ASSUME GuestKeys = {}
  PROVE  Spec => KeepsPromise
<1>1. Init => Promise!Init
  BY DEF Init, Promise!Init
<1>2. ASSUME IInv, [Next]_vars
      PROVE  [Promise!Next]_<<history, answer>>
  <2>1. ~RefusedTwice
    BY DEF RefusedTwice
  <2> QED
    BY <1>2, <2>1, Steps
<1>3. Promise!vars = <<history, answer>>
  BY DEF Promise!vars
<1> QED
  BY <1>1, <1>2, <1>3, AlwaysIInv, PTL DEF Spec, KeepsPromise, Promise!Spec, Promise!vars

-----------------------------------------------------------------------------
(* The directory of customers: what its entries are and how it grows.      *)

ContactRow == [phone: AnyPhone, key: AnyName, discount: BOOLEAN]

IdentityRow == [phone: AnyPhone, key: AnyName]

\* Entry n of a directory is the one of a customer.
Denotes(book, n, who) == book[n].phone = who.phone /\ book[n].key = who.key

\* A customer is there once, under a phone or a name, and one with a discount has a phone.
BookOK(book) ==
  /\ book \in Seq(ContactRow)
  /\ \A n \in DOMAIN book : ~Denotes(book, n, Nobody0)
  /\ \A m, n \in DOMAIN book :
       m # n => book[m].phone # book[n].phone \/ book[m].key # book[n].key
  /\ \A n \in DOMAIN book : book[n].discount => book[n].phone # NoPhone

\* More was entered, and what was there has stayed.
Grown(old, new) ==
  /\ DOMAIN old \subseteq DOMAIN new
  /\ \A n \in DOMAIN old : new[n] = old[n]

LEMMA BookFacts ==
  ASSUME NEW book, BookOK(book)
  PROVE  /\ DOMAIN book = 1..Len(book) /\ Len(book) \in Nat
         /\ \A n \in DOMAIN book : book[n] \in ContactRow
BY DEF BookOK

LEMMA IdentityType ==
  ASSUME NEW phone \in AnyPhone, NEW name \in AnyName
  PROVE  Identity(phone, name) \in IdentityRow /\ Nobody0 \in IdentityRow
BY DEF Identity, Nobody0, IdentityRow, AnyPhone, AnyName

\* Entry finds the one row there is, or says that there is none.
LEMMA EntryFinds ==
  ASSUME NEW book, BookOK(book), NEW who
  PROVE  /\ Entry(book, who) \in DOMAIN book \cup {0}
         /\ Entry(book, who) # 0 => Denotes(book, Entry(book, who), who)
         /\ \A n \in DOMAIN book : Denotes(book, n, who) => Entry(book, who) = n
<1> DEFINE at == {n \in DOMAIN book : book[n].phone = who.phone /\ book[n].key = who.key}
<1>1. 0 \notin DOMAIN book
  BY BookFacts
<1>2. Entry(book, who) = IF at = {} THEN 0 ELSE CHOOSE n \in at : TRUE
  BY DEF Entry
<1>3. at # {} => Entry(book, who) \in at
  BY <1>2
<1>4. at = {} => Entry(book, who) = 0
  BY <1>2
<1>5. \A m, n \in at : m = n
  BY DEF BookOK
<1> QED
  BY <1>1, <1>3, <1>4, <1>5 DEF Denotes

\* Entering somebody who is not there.
LEMMA EnterKeeps ==
  ASSUME NEW book, BookOK(book), NEW new \in ContactRow,
         \A n \in DOMAIN book : ~Denotes(book, n, new),
         ~(new.phone = NoPhone /\ new.key = NoName),
         new.discount => new.phone # NoPhone
  PROVE  /\ BookOK(Append(book, new)) /\ Grown(book, Append(book, new))
         /\ Len(Append(book, new)) = Len(book) + 1
         /\ Denotes(Append(book, new), Len(book) + 1, new)
<1> DEFINE L == Len(book)
           after == Append(book, new)
<1>1. /\ DOMAIN book = 1..L /\ L \in Nat
      /\ book \in Seq(ContactRow)
  BY BookFacts DEF BookOK
<1>2. /\ after \in Seq(ContactRow) /\ Len(after) = L + 1
      /\ \A n \in 1..L : after[n] = book[n]
      /\ after[L + 1] = new
  BY <1>1, AppendProperties
<1>3. DOMAIN after = 1..(L + 1)
  BY <1>1, <1>2
<1> HIDE DEF after
<1>4. \A n \in DOMAIN after : ~Denotes(after, n, Nobody0)
  <2> TAKE n \in DOMAIN after
  <2>1. CASE n = L + 1
    BY <1>2, <2>1 DEF Denotes, Nobody0, Identity
  <2>2. CASE n \in 1..L
    BY <1>1, <1>2, <2>2 DEF Denotes, BookOK
  <2> QED
    BY <1>1, <1>3, <2>1, <2>2
<1>5. \A m, n \in DOMAIN after :
        m # n => after[m].phone # after[n].phone \/ after[m].key # after[n].key
  <2> SUFFICES ASSUME NEW m \in DOMAIN after, NEW n \in DOMAIN after, m # n
               PROVE  after[m].phone # after[n].phone \/ after[m].key # after[n].key
    OBVIOUS
  <2>1. CASE m \in 1..L /\ n \in 1..L
    BY <1>1, <1>2, <2>1 DEF BookOK
  <2>2. CASE m = L + 1 /\ n \in 1..L
    BY <1>1, <1>2, <2>2 DEF Denotes
  <2>3. CASE n = L + 1 /\ m \in 1..L
    BY <1>1, <1>2, <2>3 DEF Denotes
  <2> QED
    BY <1>1, <1>3, <2>1, <2>2, <2>3
<1>6. \A n \in DOMAIN after : after[n].discount => after[n].phone # NoPhone
  <2> TAKE n \in DOMAIN after
  <2>1. CASE n = L + 1
    BY <1>2, <2>1
  <2>2. CASE n \in 1..L
    BY <1>1, <1>2, <2>2 DEF BookOK
  <2> QED
    BY <1>1, <1>3, <2>1, <2>2
<1>7. BookOK(after)
  BY <1>2, <1>4, <1>5, <1>6 DEF BookOK
<1>8. Grown(book, after)
  BY <1>1, <1>2, <1>3 DEF Grown
<1> QED
  BY <1>2, <1>7, <1>8 DEF after, Denotes

\* Whoever an order names is found after the order's save.
LEMMA RememberedBook ==
  ASSUME NEW book, BookOK(book), NEW who \in IdentityRow
  PROVE  /\ BookOK(Remembered(book, who)) /\ Grown(book, Remembered(book, who))
         /\ Entry(Remembered(book, who), who) = 0 => who = Nobody0
<1> DEFINE new == [phone |-> who.phone, key |-> who.key, discount |-> FALSE]
<1>1. CASE who = Nobody0 \/ Entry(book, who) # 0
  <2>1. Remembered(book, who) = book
    BY <1>1 DEF Remembered
  <2> QED
    BY <1>1, <2>1 DEF Grown
<1>2. CASE who # Nobody0 /\ Entry(book, who) = 0
  <2>1. Remembered(book, who) = Append(book, new)
    BY <1>2 DEF Remembered
  <2>2. new \in ContactRow /\ new.phone = who.phone /\ new.key = who.key /\ ~new.discount
    BY DEF IdentityRow, ContactRow
  <2> HIDE DEF new
  <2>3. ~(new.phone = NoPhone /\ new.key = NoName)
    BY <1>2, <2>2 DEF Nobody0, Identity, IdentityRow
  <2>4. \A n \in DOMAIN book : ~Denotes(book, n, new)
    <3>1. 0 \notin DOMAIN book
      BY BookFacts
    <3>2. \A n \in DOMAIN book : ~Denotes(book, n, who)
      BY <1>2, <3>1, EntryFinds
    <3> QED
      BY <2>2, <3>2 DEF Denotes
  <2>5. /\ BookOK(Append(book, new)) /\ Grown(book, Append(book, new))
        /\ Len(Append(book, new)) = Len(book) + 1
        /\ Denotes(Append(book, new), Len(book) + 1, new)
    BY <2>2, <2>3, <2>4, EnterKeeps
  <2>6. Len(book) + 1 \in DOMAIN Append(book, new) /\ Len(book) + 1 # 0
    BY <2>5, BookFacts
  <2>7. Denotes(Append(book, new), Len(book) + 1, who)
    BY <2>2, <2>5 DEF Denotes
  <2>8. Entry(Append(book, new), who) # 0
    BY <2>5, <2>6, <2>7, EntryFinds
  <2> QED
    BY <2>1, <2>5, <2>8
<1> QED
  BY <1>1, <1>2

\* Whoever was found is found at the same place.
LEMMA GrownFinds ==
  ASSUME NEW old, NEW new, BookOK(old), BookOK(new), Grown(old, new), NEW who,
         Entry(old, who) # 0
  PROVE  Entry(new, who) = Entry(old, who)
<1>1. Entry(old, who) \in DOMAIN old /\ Denotes(old, Entry(old, who), who)
  BY EntryFinds
<1>2. Denotes(new, Entry(old, who), who) /\ Entry(old, who) \in DOMAIN new
  BY <1>1 DEF Grown, Denotes
<1> QED
  BY <1>2, EntryFinds

-----------------------------------------------------------------------------
(* What the directory, the orders and a request under way know of one      *)
(* another.                                                                *)

SaleAny ==
  [standing: {"none", "pending", "open", "cancelled", "deleted"}, phone: AnyPhone, name: AnyName,
   khata: BOOLEAN, paid: {"no", "yes", "refunded"}, account: Nat,
   purchase: [phone: AnyPhone, earned: BOOLEAN], renamed: BOOLEAN, raced: BOOLEAN]

MadeRow(row) == row.standing \in {"pending", "open", "cancelled"}

\* The account found is that of the customer; nobody has none.
FoundRight(book, found, who) == found = Entry(book, who) /\ (found = 0 => who = Nobody0)

SaleOK(book, row) ==
  /\ row.khata => Creditable(row)
  /\ row.account \in DOMAIN book \cup {0}
  /\ MadeRow(row) /\ ~row.raced =>
       /\ ~row.renamed => FoundRight(book, row.account, Customer(row))
       /\ row.purchase = Earned(row)
  /\ row.khata /\ ~row.raced => row.account # 0 /\ book[row.account].phone # NoPhone

DirectoryOK(book, sales) ==
  /\ BookOK(book)
  /\ sales \in [Sales -> SaleAny]
  /\ \A s \in Sales : SaleOK(book, sales[s])

\* What a rider's report read is still so, unless it was noticed to be raced.
Alike(copy, row) ==
  /\ copy.phone = row.phone /\ copy.name = row.name /\ copy.khata = row.khata
  /\ copy.paid = row.paid /\ copy.account = row.account

CancelOK(book, t) ==
  /\ t.copy.khata => Creditable(t.copy)
  /\ t.found # 0
  /\ ~t.raced => t.found = Entry(book, Customer(t.copy))

RideOK(sales, t) ==
  /\ t.copy.standing = "open"
  /\ MadeRow(sales[t.sale]) /\ ~t.raced => Alike(t.copy, sales[t.sale])

DeliverOK(book, sales, t) ==
  /\ MadeRow(sales[t.sale])
  /\ ~t.raced => FoundRight(book, t.found, Customer(t.copy))

StrayOK(book, sales, t) ==
  /\ t.does # "nothing" => t.sale \in Sales
  /\ t.found \in DOMAIN book \cup {0}
  /\ t.does = "cancel" => CancelOK(book, t)
  /\ t.does \in {"ride", "deliver"} => RideOK(sales, t)
  /\ t.does = "deliver" => DeliverOK(book, sales, t)

ContactsInv ==
  ContactsTypeOK /\ DirectoryOK(contact, sale) /\ StrayOK(contact, sale, stray)

LEMMA NobodyEntered ==
  ASSUME NEW book, BookOK(book)
  PROVE  Entry(book, Nobody0) = 0
BY EntryFinds DEF BookOK

LEMMA GrownFound ==
  ASSUME NEW old, NEW new, BookOK(old), BookOK(new), Grown(old, new), NEW found, NEW who,
         FoundRight(old, found, who)
  PROVE  FoundRight(new, found, who)
BY GrownFinds, NobodyEntered DEF FoundRight

LEMMA GrownSale ==
  ASSUME NEW old, NEW new, BookOK(old), BookOK(new), Grown(old, new), NEW row, SaleOK(old, row)
  PROVE  SaleOK(new, row)
<1>1. row.account \in DOMAIN new \cup {0}
  BY DEF SaleOK, Grown
<1>2. row.account # 0 => new[row.account] = old[row.account]
  BY DEF SaleOK, Grown
<1>3. FoundRight(old, row.account, Customer(row)) => FoundRight(new, row.account, Customer(row))
  BY GrownFound
<1> QED
  BY <1>1, <1>2, <1>3 DEF SaleOK

LEMMA GrownStray ==
  ASSUME NEW old, NEW new, BookOK(old), BookOK(new), Grown(old, new), NEW t,
         NEW sales, NEW sales2, StrayOK(old, sales, t),
         t.does # "nothing" => sales2[t.sale] = sales[t.sale]
  PROVE  StrayOK(new, sales2, t)
<1>1. t.found \in DOMAIN new \cup {0}
  BY DEF StrayOK, Grown
<1>2. ASSUME t.does = "cancel" PROVE CancelOK(new, t)
  <2>1. CancelOK(old, t)
    BY <1>2 DEF StrayOK
  <2>2. ~t.raced => t.found = Entry(new, Customer(t.copy))
    BY <2>1, GrownFinds DEF CancelOK
  <2> QED
    BY <2>1, <2>2 DEF CancelOK
<1>3. ASSUME t.does \in {"ride", "deliver"} PROVE RideOK(sales2, t)
  BY <1>3 DEF StrayOK, RideOK
<1>4. ASSUME t.does = "deliver" PROVE DeliverOK(new, sales2, t)
  BY <1>4, GrownFound DEF StrayOK, DeliverOK
<1> QED
  BY <1>1, <1>2, <1>3, <1>4 DEF StrayOK

\* An order is filed with its customer by each of its saves.
LEMMA FiledSale ==
  ASSUME NEW book, BookOK(book), NEW row \in SaleAny, row.khata => Creditable(row)
  PROVE  LET after == Remembered(book, Customer(row))
             filed == Filed(after, row) IN
         /\ BookOK(after) /\ Grown(book, after)
         /\ filed \in SaleAny /\ SaleOK(after, filed)
         /\ filed.account \in 0..Len(after)
         /\ filed.standing = row.standing
<1> DEFINE who == Customer(row)
           after == Remembered(book, who)
           filed == Filed(after, row)
<1>1. row.phone \in AnyPhone /\ row.name \in AnyName /\ row.khata \in BOOLEAN
  BY DEF SaleAny
<1>2. who \in IdentityRow
  BY <1>1, IdentityType DEF Customer
<1>3. BookOK(after) /\ Grown(book, after) /\ (Entry(after, who) = 0 => who = Nobody0)
  BY <1>2, RememberedBook
<1> HIDE DEF after
<1>4. /\ DOMAIN after = 1..Len(after) /\ Len(after) \in Nat
      /\ Entry(after, who) \in DOMAIN after \cup {0}
      /\ Entry(after, who) # 0 => Denotes(after, Entry(after, who), who)
  BY <1>3, BookFacts, EntryFinds
<1>5. Entry(after, who) \in 0..Len(after) /\ Entry(after, who) \in Nat
  BY <1>4
<1>6. Earned(row) \in [phone: AnyPhone, earned: BOOLEAN]
  BY <1>1, ContactsAssumption DEF Earned, NoPurchase, AnyPhone
<1>7. /\ filed = [row EXCEPT !.account = Entry(after, who), !.purchase = Earned(row),
                             !.renamed = FALSE, !.raced = FALSE]
  BY DEF Filed
<1> HIDE DEF filed, who
<1>8. /\ filed \in SaleAny
      /\ filed.account = Entry(after, who) /\ filed.purchase = Earned(row)
      /\ filed.standing = row.standing /\ filed.phone = row.phone /\ filed.name = row.name
      /\ filed.paid = row.paid /\ (filed.khata <=> row.khata)
  BY <1>5, <1>6, <1>7 DEF SaleAny
<1>9. Customer(filed) = who /\ Earned(filed) = Earned(row) /\ (Creditable(filed) <=> Creditable(row))
  BY <1>8 DEF Customer, Earned, Creditable, who
<1>10. filed.khata => filed.account # 0 /\ after[filed.account].phone # NoPhone
  <2> SUFFICES ASSUME filed.khata PROVE filed.account # 0 /\ after[filed.account].phone # NoPhone
    OBVIOUS
  <2>1. row.phone # NoPhone
    BY <1>8 DEF Creditable
  <2>2. who.phone = row.phone
    BY DEF who, Customer, Identity
  <2>3. who # Nobody0
    BY <2>1, <2>2 DEF Nobody0, Identity
  <2> QED
    BY <1>3, <1>4, <1>8, <2>1, <2>2, <2>3 DEF Denotes, who
<1>11. SaleOK(after, filed)
  BY <1>3, <1>4, <1>8, <1>9, <1>10 DEF SaleOK, FoundRight, who
<1> QED
  BY <1>3, <1>5, <1>8, <1>11 DEF after, filed, who

-----------------------------------------------------------------------------
(* Every command that saves one order.                                     *)

LEMMA InvFacts ==
  ASSUME ContactsInv
  PROVE  /\ BookOK(contact) /\ Len(contact) <= MaxContacts
         /\ sale \in [Sales -> SaleRow] /\ sale \in [Sales -> SaleAny]
         /\ \A s \in Sales : SaleOK(contact, sale[s])
         /\ StrayOK(contact, sale, stray)
         /\ stray \in [does: {"nothing", "cancel", "ride", "deliver"}, sale: Sales \cup {0}, copy: SaleRow,
                       found: 0..MaxContacts, raced: BOOLEAN]
BY DEF ContactsInv, ContactsTypeOK, DirectoryOK

LEMMA RowTypes ==
  /\ SaleRow \subseteq SaleAny
  /\ \A row \in SaleAny : row.account \in 0..MaxContacts => row \in SaleRow
<1>1. 0..MaxContacts \subseteq Nat
  BY ContactsAssumption
<1> QED
  BY <1>1 DEF SaleRow, SaleAny

\* What remains to be shown when the directory has grown and one order was saved.
LEMMA InvFrom ==
  ASSUME BookOK(contact'), Len(contact') <= MaxContacts,
         sale' \in [Sales -> SaleRow], \A s \in Sales : SaleOK(contact', sale'[s]),
         StrayOK(contact', sale', stray'),
         stray' \in [does: {"nothing", "cancel", "ride", "deliver"}, sale: Sales \cup {0}, copy: SaleRow,
                     found: 0..MaxContacts, raced: BOOLEAN]
  PROVE  ContactsInv'
<1>1. Range(contact') \subseteq ContactRow
  BY BookFacts DEF Range
<1>2. ContactsTypeOK'
  BY <1>1 DEF ContactsTypeOK, ContactRow
<1>3. sale' \in [Sales -> SaleAny]
  BY RowTypes
<1> QED
  BY <1>2, <1>3 DEF ContactsInv, DirectoryOK

\* A request that waits for the row of a saved order notices.
LEMMA OverlapsStray ==
  ASSUME ContactsInv, NEW changed \in SUBSET Sales, \A s \in changed : Free(s),
         NEW book, BookOK(book), Grown(contact, book),
         NEW sales, \A s \in Sales \ changed : sales[s] = sale[s]
  PROVE  /\ StrayOK(book, sales, Overlaps(changed))
         /\ Overlaps(changed) \in [does: {"nothing", "cancel", "ride", "deliver"}, sale: Sales \cup {0},
                                   copy: SaleRow, found: 0..MaxContacts, raced: BOOLEAN]
<1>1. /\ BookOK(contact) /\ StrayOK(contact, sale, stray)
      /\ stray \in [does: {"nothing", "cancel", "ride", "deliver"}, sale: Sales \cup {0}, copy: SaleRow,
                    found: 0..MaxContacts, raced: BOOLEAN]
  BY InvFacts
<1>2. CASE stray.does = "ride" /\ stray.sale \in changed
  <2> DEFINE t == [stray EXCEPT !.raced = TRUE]
  <2>1. Overlaps(changed) = t
    BY <1>2 DEF Overlaps
  <2>2. /\ t \in [does: {"nothing", "cancel", "ride", "deliver"}, sale: Sales \cup {0},
                  copy: SaleRow, found: 0..MaxContacts, raced: BOOLEAN]
        /\ t.does = "ride" /\ t.sale = stray.sale /\ t.copy = stray.copy /\ t.found = stray.found /\ t.raced
    BY <1>1, <1>2
  <2> HIDE DEF t
  <2>3. StrayOK(book, sales, t)
    BY <1>1, <1>2, <2>2 DEF StrayOK, RideOK, Grown
  <2> QED
    BY <2>1, <2>2, <2>3
<1>3. CASE ~(stray.does = "ride" /\ stray.sale \in changed)
  <2>1. Overlaps(changed) = stray
    BY <1>3 DEF Overlaps
  <2>2. stray.does # "nothing" => sales[stray.sale] = sale[stray.sale]
    <3> SUFFICES ASSUME stray.does # "nothing" PROVE sales[stray.sale] = sale[stray.sale]
      OBVIOUS
    <3>1. stray.sale \in Sales
      BY <1>1 DEF StrayOK
    <3>2. stray.sale \notin changed
      BY <1>3 DEF Free
    <3> QED
      BY <3>1, <3>2
  <2>3. StrayOK(book, sales, stray)
    BY <1>1, <2>2, GrownStray
  <2> QED
    BY <1>1, <2>1, <2>3
<1> QED
  BY <1>2, <1>3

LEMMA SaveKeeps ==
  ASSUME ContactsInv, NEW s \in Sales, NEW row \in SaleRow, row.khata => Creditable(row),
         SaveSale(s, row)
  PROVE  ContactsInv'
<1>1. /\ Free(s) /\ contact' = Remembered(contact, Customer(row)) /\ Len(contact') <= MaxContacts
      /\ sale' = [sale EXCEPT ![s] = Filed(contact', row)]
      /\ stray' = Overlaps({s})
  BY DEF SaveSale
<1>2. row \in SaleAny
  BY RowTypes
<1>3. /\ BookOK(contact') /\ Grown(contact, contact')
      /\ Filed(contact', row) \in SaleAny /\ SaleOK(contact', Filed(contact', row))
      /\ Filed(contact', row).account \in 0..Len(contact')
  BY <1>1, <1>2, InvFacts, FiledSale
<1>4. Filed(contact', row) \in SaleRow
  <2>1. Len(contact') \in Nat
    BY <1>3, BookFacts
  <2>2. Filed(contact', row).account \in 0..MaxContacts
    BY <1>1, <1>3, <2>1, ContactsAssumption
  <2> QED
    BY <1>3, <2>2, RowTypes
<1>5. /\ sale' \in [Sales -> SaleRow]
      /\ \A r \in Sales : sale'[r] = IF r = s THEN Filed(contact', row) ELSE sale[r]
  BY <1>1, <1>4, InvFacts
<1>6. \A r \in Sales : SaleOK(contact', sale'[r])
  <2> TAKE r \in Sales
  <2>1. CASE r = s
    BY <1>3, <1>5, <2>1
  <2>2. CASE r # s
    BY <1>3, <1>5, <2>2, InvFacts, GrownSale
  <2> QED
    BY <2>1, <2>2
<1>7. /\ StrayOK(contact', sale', stray')
      /\ stray' \in [does: {"nothing", "cancel", "ride", "deliver"}, sale: Sales \cup {0}, copy: SaleRow,
                     found: 0..MaxContacts, raced: BOOLEAN]
  <2>1. {s} \in SUBSET Sales /\ \A r \in Sales \ {s} : sale'[r] = sale[r]
    BY <1>5
  <2>2. \A r \in {s} : Free(r)
    BY <1>1
  <2> QED
    BY <1>1, <1>3, <2>1, <2>2, OverlapsStray
<1> QED
  BY <1>1, <1>3, <1>5, <1>6, <1>7, InvFrom

LEMMA SaleFacts ==
  ASSUME ContactsInv, NEW s \in Sales
  PROVE  /\ sale[s] \in SaleRow /\ SaleOK(contact, sale[s])
         /\ sale[s].khata => Creditable(sale[s])
BY InvFacts DEF SaleOK

LEMMA EmptyRow == NoSale \in SaleRow /\ ~NoSale.khata
BY ContactsAssumption DEF NoSale, SaleRow, AnyPhone, AnyName, NoPurchase

LEMMA CommandsKeepDirectory ==
  ASSUME ContactsInv, NEW s \in Sales,
         \/ Touch(s) \/ Refund(s) \/ CancelOrder(s)
         \/ \E phone \in AnyPhone, name \in AnyName :
              \/ CorrectCustomer(s, phone, name)
              \/ \E standing \in {"pending", "open"} : File(s, standing, phone, name)
              \/ \E tender \in {"khata", "paid"} : Settle(s, phone, name, tender)
  PROVE  ContactsInv'
<1>0. /\ NoPhone \in AnyPhone /\ NoName \in AnyName
      /\ sale[s] \in SaleRow /\ (sale[s].khata => Creditable(sale[s]))
  BY SaleFacts DEF AnyPhone, AnyName
<1>1. CASE Touch(s)
  <2> DEFINE to == [sale[s] EXCEPT !.standing = "open"]
  <2>1. SaveSale(s, to)
    BY <1>1 DEF Touch
  <2>2. to = [sale[s] EXCEPT !.standing = "open"]
    OBVIOUS
  <2> HIDE DEF to
  <2>3. to \in SaleRow /\ to.phone = sale[s].phone /\ to.name = sale[s].name /\ (to.khata <=> sale[s].khata)
    BY <1>0, <2>2 DEF SaleRow
  <2> QED
    BY <1>0, <2>1, <2>3, SaveKeeps DEF Creditable
<1>2. CASE Refund(s)
  <2> DEFINE to == [sale[s] EXCEPT !.paid = "refunded"]
  <2>1. SaveSale(s, to)
    BY <1>2 DEF Refund
  <2>2. to = [sale[s] EXCEPT !.paid = "refunded"]
    OBVIOUS
  <2> HIDE DEF to
  <2>3. to \in SaleRow /\ to.phone = sale[s].phone /\ to.name = sale[s].name /\ (to.khata <=> sale[s].khata)
    BY <1>0, <2>2 DEF SaleRow
  <2> QED
    BY <1>0, <2>1, <2>3, SaveKeeps DEF Creditable
<1>3. CASE CancelOrder(s)
  <2> DEFINE to == [sale[s] EXCEPT !.standing = "cancelled", !.khata = FALSE]
  <2>1. SaveSale(s, to)
    BY <1>3 DEF CancelOrder
  <2>2. to = [sale[s] EXCEPT !.standing = "cancelled", !.khata = FALSE]
    OBVIOUS
  <2> HIDE DEF to
  <2>3. to \in SaleRow /\ ~to.khata
    BY <1>0, <2>2 DEF SaleRow
  <2> QED
    BY <2>1, <2>3, SaveKeeps
<1>4. ASSUME NEW phone \in AnyPhone, NEW name \in AnyName, CorrectCustomer(s, phone, name)
      PROVE  ContactsInv'
  <2> DEFINE to == [sale[s] EXCEPT !.phone = phone, !.name = name]
  <2>1. SaveSale(s, to) /\ (to.khata => Creditable(to))
    BY <1>4 DEF CorrectCustomer
  <2>2. to = [sale[s] EXCEPT !.phone = phone, !.name = name]
    OBVIOUS
  <2> HIDE DEF to
  <2>3. to \in SaleRow
    BY <1>0, <2>2 DEF SaleRow
  <2> QED
    BY <2>1, <2>3, SaveKeeps
<1>5. ASSUME NEW phone \in AnyPhone, NEW name \in AnyName, NEW standing \in {"pending", "open"},
             File(s, standing, phone, name)
      PROVE  ContactsInv'
  <2> DEFINE to == [NoSale EXCEPT !.standing = standing, !.phone = phone, !.name = name]
  <2>1. SaveSale(s, to)
    BY <1>5 DEF File
  <2>2. to = [NoSale EXCEPT !.standing = standing, !.phone = phone, !.name = name]
    OBVIOUS
  <2> HIDE DEF to
  <2>3. to \in SaleRow /\ ~to.khata
    BY <2>2, EmptyRow DEF SaleRow
  <2> QED
    BY <2>1, <2>3, SaveKeeps
<1>6. ASSUME NEW phone \in AnyPhone, NEW name \in AnyName, NEW tender \in {"khata", "paid"},
             Settle(s, phone, name, tender)
      PROVE  ContactsInv'
  <2> DEFINE to == [sale[s] EXCEPT !.phone = phone, !.name = name]
             owed == [to EXCEPT !.khata = TRUE]
             paid == [to EXCEPT !.khata = FALSE, !.paid = "yes"]
  <2>1. \/ Creditable(to) /\ SaveSale(s, owed)
        \/ SaveSale(s, paid)
    BY <1>6 DEF Settle
  <2>2. /\ to = [sale[s] EXCEPT !.phone = phone, !.name = name]
        /\ owed = [to EXCEPT !.khata = TRUE]
        /\ paid = [to EXCEPT !.khata = FALSE, !.paid = "yes"]
    OBVIOUS
  <2> HIDE DEF to, owed, paid
  <2>3. to \in SaleRow
    BY <1>0, <2>2 DEF SaleRow
  <2>4. /\ owed \in SaleRow /\ owed.phone = to.phone /\ owed.name = to.name
        /\ paid \in SaleRow /\ ~paid.khata
    BY <2>2, <2>3 DEF SaleRow
  <2>5. CASE Creditable(to) /\ SaveSale(s, owed)
    BY <2>4, <2>5, SaveKeeps DEF Creditable
  <2>6. CASE SaveSale(s, paid)
    BY <2>4, <2>6, SaveKeeps
  <2> QED
    BY <2>1, <2>5, <2>6
<1> QED
  BY <1>1, <1>2, <1>3, <1>4, <1>5, <1>6

\* An order is right when it is in the account of the customer it names.
LEMMA RightSale ==
  ASSUME NEW book, BookOK(book), NEW row \in SaleAny, row.khata => Creditable(row),
         row.account \in DOMAIN book \cup {0},
         ~row.raced => FoundRight(book, row.account, Customer(row)) /\ row.purchase = Earned(row)
  PROVE  SaleOK(book, row)
<1>1. row.khata /\ ~row.raced => row.account # 0 /\ book[row.account].phone # NoPhone
  <2> SUFFICES ASSUME row.khata, ~row.raced
               PROVE  row.account # 0 /\ book[row.account].phone # NoPhone
    OBVIOUS
  <2>1. row.phone # NoPhone
    BY DEF Creditable
  <2>2. Customer(row).phone = row.phone
    BY DEF Customer, Identity
  <2>3. Customer(row) # Nobody0
    BY <2>1, <2>2 DEF Nobody0, Identity
  <2>4. row.account # 0 /\ row.account = Entry(book, Customer(row))
    BY <2>3 DEF FoundRight
  <2>5. Denotes(book, row.account, Customer(row))
    BY <2>4, EntryFinds
  <2> QED
    BY <2>1, <2>2, <2>4, <2>5 DEF Denotes
<1> QED
  BY <1>1 DEF SaleOK

LEMMA EarnedType ==
  ASSUME NEW row \in SaleRow
  PROVE  Earned(row) \in [phone: AnyPhone, earned: BOOLEAN]
BY ContactsAssumption DEF Earned, NoPurchase, AnyPhone, SaleRow

\* No request is under way.
LEMMA NoStrayOK ==
  ASSUME NEW book, NEW sales
  PROVE  /\ StrayOK(book, sales, NoStray)
         /\ NoStray \in [does: {"nothing", "cancel", "ride", "deliver"}, sale: Sales \cup {0}, copy: SaleRow,
                         found: 0..MaxContacts, raced: BOOLEAN]
<1>1. 0 \in 0..MaxContacts
  BY ContactsAssumption
<1> QED
  BY <1>1, EmptyRow DEF NoStray, StrayOK

LEMMA DeleteKeeps ==
  ASSUME ContactsInv, NEW s \in Sales, DeleteSale(s)
  PROVE  ContactsInv'
<1> DEFINE gone == [NoSale EXCEPT !.standing = "deleted"]
<1>1. /\ Free(s) /\ sale' = [sale EXCEPT ![s] = gone]
      /\ contact' = contact /\ stray' = stray
  BY DEF DeleteSale
<1>2. gone = [NoSale EXCEPT !.standing = "deleted"]
  OBVIOUS
<1> HIDE DEF gone
<1>3. gone \in SaleRow /\ gone.standing = "deleted" /\ ~gone.khata
  BY <1>2, EmptyRow DEF SaleRow
<1>4. gone.account = 0
  BY <1>2 DEF NoSale
<1>5. SaleOK(contact, gone)
  BY <1>3, <1>4 DEF SaleOK, MadeRow
<1>6. /\ sale' \in [Sales -> SaleRow]
      /\ \A r \in Sales : sale'[r] = IF r = s THEN gone ELSE sale[r]
  BY <1>1, <1>3, InvFacts
<1>7. \A r \in Sales : SaleOK(contact', sale'[r])
  BY <1>1, <1>5, <1>6, InvFacts
<1>8. StrayOK(contact', sale', stray')
  <2>1. CASE stray.sale = s /\ stray.does # "nothing"
    <3>1. stray.does = "ride"
      BY <1>1, <2>1 DEF Free
    <3>2. ~MadeRow(sale'[stray.sale])
      BY <1>3, <1>6, <2>1 DEF MadeRow
    <3> QED
      BY <1>1, <3>1, <3>2, InvFacts DEF StrayOK, RideOK
  <2>2. CASE ~(stray.sale = s /\ stray.does # "nothing")
    <3>1. stray.does # "nothing" => sale'[stray.sale] = sale[stray.sale]
      BY <1>6, <2>2, InvFacts DEF StrayOK
    <3>2. Grown(contact, contact)
      BY DEF Grown
    <3> QED
      BY <1>1, <3>1, <3>2, InvFacts, GrownStray
  <2> QED
    BY <2>1, <2>2
<1> QED
  BY <1>1, <1>6, <1>7, <1>8, InvFacts, InvFrom

-----------------------------------------------------------------------------
(* Requests without the outlet's lock.                                     *)

LEMMA CancelBeginKeeps ==
  ASSUME ContactsInv, NEW s \in Sales, CancelBegin(s)
  PROVE  ContactsInv'
<1> DEFINE to == [sale[s] EXCEPT !.standing = "cancelled"]
           found == Entry(contact, Customer(to))
           t == [does |-> "cancel", sale |-> s, copy |-> to, found |-> found, raced |-> FALSE]
<1>1. IF found = 0 THEN SaveSale(s, to)
      ELSE stray' = t /\ contact' = contact /\ sale' = sale
  BY DEF CancelBegin
<1>2. to = [sale[s] EXCEPT !.standing = "cancelled"]
  OBVIOUS
<1> HIDE DEF to
<1>3. /\ to \in SaleRow /\ to.phone = sale[s].phone /\ to.name = sale[s].name
      /\ to.khata <=> sale[s].khata
  BY <1>2, SaleFacts DEF SaleRow
<1>4. to.khata => Creditable(to)
  BY <1>3, SaleFacts DEF Creditable
<1>5. CASE found = 0
  BY <1>1, <1>3, <1>4, <1>5, SaveKeeps
<1>6. CASE found # 0
  <2>1. found \in DOMAIN contact \cup {0} /\ found \in 0..MaxContacts
    <3>1. /\ BookOK(contact) /\ Len(contact) <= MaxContacts
          /\ DOMAIN contact = 1..Len(contact) /\ Len(contact) \in Nat
      BY InvFacts, BookFacts
    <3>2. found \in DOMAIN contact \cup {0}
      BY <3>1, EntryFinds
    <3> QED
      BY <3>1, <3>2, ContactsAssumption
  <2>2. found = Entry(contact, Customer(to))
    OBVIOUS
  <2>3. stray' = t /\ contact' = contact /\ sale' = sale
    BY <1>1, <1>6
  <2> HIDE DEF found
  <2>4. /\ t.does = "cancel" /\ t.sale = s /\ t.copy = to /\ t.found = found /\ ~t.raced
        /\ t \in [does: {"nothing", "cancel", "ride", "deliver"}, sale: Sales \cup {0}, copy: SaleRow,
                  found: 0..MaxContacts, raced: BOOLEAN]
    BY <1>3, <2>1
  <2> HIDE DEF t
  <2>5. StrayOK(contact, sale, t)
    BY <1>4, <1>6, <2>1, <2>2, <2>4 DEF StrayOK, CancelOK
  <2> QED
    BY <2>3, <2>4, <2>5, InvFacts, InvFrom
<1> QED
  BY <1>5, <1>6

LEMMA CancelEndKeeps ==
  ASSUME ContactsInv, CancelEnd
  PROVE  ContactsInv'
<1> DEFINE s == stray.sale
           copy == stray.copy
           filed == [copy EXCEPT !.account = stray.found, !.purchase = Earned(copy),
                                 !.renamed = FALSE, !.raced = stray.raced]
<1>1. /\ stray.does = "cancel" /\ stray' = NoStray /\ contact' = contact
      /\ sale' = [sale EXCEPT ![s] = filed]
  BY DEF CancelEnd
<1>2. /\ s \in Sales /\ copy \in SaleRow /\ stray.found \in 0..MaxContacts /\ stray.raced \in BOOLEAN
      /\ stray.found \in DOMAIN contact \cup {0} /\ CancelOK(contact, stray)
  BY <1>1, InvFacts DEF StrayOK
<1>3. filed = [copy EXCEPT !.account = stray.found, !.purchase = Earned(copy),
                           !.renamed = FALSE, !.raced = stray.raced]
  OBVIOUS
<1> HIDE DEF filed
<1>4. Earned(copy) \in [phone: AnyPhone, earned: BOOLEAN]
  BY <1>2, EarnedType
<1>5. /\ filed \in SaleRow /\ filed.account = stray.found /\ filed.purchase = Earned(copy)
      /\ filed.standing = copy.standing /\ filed.phone = copy.phone /\ filed.name = copy.name
      /\ filed.paid = copy.paid /\ (filed.khata <=> copy.khata) /\ (filed.raced <=> stray.raced)
  BY <1>2, <1>3, <1>4 DEF SaleRow
<1>6. /\ Customer(filed) = Customer(copy) /\ Earned(filed) = Earned(copy)
      /\ Creditable(filed) <=> Creditable(copy)
  BY <1>5 DEF Customer, Earned, Creditable
<1>7. SaleOK(contact, filed)
  <2>1. filed \in SaleAny
    BY <1>5, RowTypes
  <2>2. filed.khata => Creditable(filed)
    BY <1>2, <1>5, <1>6 DEF CancelOK
  <2>3. ~filed.raced => FoundRight(contact, filed.account, Customer(filed)) /\ filed.purchase = Earned(filed)
    BY <1>2, <1>5, <1>6 DEF CancelOK, FoundRight
  <2> QED
    BY <1>2, <1>5, <2>1, <2>2, <2>3, InvFacts, RightSale
<1>8. /\ sale' \in [Sales -> SaleRow]
      /\ \A r \in Sales : sale'[r] = IF r = s THEN filed ELSE sale[r]
  BY <1>1, <1>2, <1>5, InvFacts
<1>9. \A r \in Sales : SaleOK(contact', sale'[r])
  BY <1>1, <1>7, <1>8, InvFacts
<1> QED
  BY <1>1, <1>8, <1>9, NoStrayOK, InvFacts, InvFrom

LEMMA RideBeginKeeps ==
  ASSUME ContactsInv, NEW s \in Sales, RideBegin(s)
  PROVE  ContactsInv'
<1> DEFINE to == [sale[s] EXCEPT !.standing = "open"]
           t == [NoStray EXCEPT !.does = "ride", !.sale = s, !.copy = to]
<1>1. Made(s) /\ stray' = t /\ contact' = contact /\ sale' = sale
  BY DEF RideBegin
<1>2. to = [sale[s] EXCEPT !.standing = "open"]
  OBVIOUS
<1> HIDE DEF to
<1>3. to \in SaleRow /\ to.standing = "open" /\ Alike(to, sale[s])
  BY <1>2, SaleFacts DEF SaleRow, Alike
<1>4. t = [NoStray EXCEPT !.does = "ride", !.sale = s, !.copy = to]
  OBVIOUS
<1> HIDE DEF t
<1>5. /\ t \in [does: {"nothing", "cancel", "ride", "deliver"}, sale: Sales \cup {0}, copy: SaleRow,
                found: 0..MaxContacts, raced: BOOLEAN]
      /\ t.does = "ride" /\ t.sale = s /\ t.copy = to
  BY <1>3, <1>4, NoStrayOK
<1>6. t.found = 0
  BY <1>4 DEF NoStray
<1>7. StrayOK(contact, sale, t)
  BY <1>3, <1>5, <1>6 DEF StrayOK, RideOK
<1> QED
  BY <1>1, <1>5, <1>7, InvFacts, InvFrom

LEMMA RideSaveKeeps ==
  ASSUME ContactsInv, RideSave
  PROVE  ContactsInv'
<1> DEFINE who == Customer(stray.copy)
           t == [stray EXCEPT !.does = "deliver", !.found = Entry(contact', who)]
<1>1. /\ stray.does = "ride" /\ Made(stray.sale) /\ sale' = sale
      /\ contact' = Remembered(contact, who) /\ Len(contact') <= MaxContacts
      /\ stray' = t
  BY DEF RideSave
<1>2. /\ stray \in [does: {"nothing", "cancel", "ride", "deliver"}, sale: Sales \cup {0}, copy: SaleRow,
                    found: 0..MaxContacts, raced: BOOLEAN]
      /\ stray.sale \in Sales /\ stray.copy \in SaleRow /\ RideOK(sale, stray)
  BY <1>1, InvFacts DEF StrayOK
<1>3. who \in IdentityRow
  BY <1>2, IdentityType DEF SaleRow, Customer
<1>4. /\ BookOK(contact') /\ Grown(contact, contact')
      /\ Entry(contact', who) = 0 => who = Nobody0
  BY <1>1, <1>3, InvFacts, RememberedBook
<1>5. Entry(contact', who) \in DOMAIN contact' \cup {0} /\ Entry(contact', who) \in 0..MaxContacts
  <2>1. DOMAIN contact' = 1..Len(contact') /\ Len(contact') \in Nat
    BY <1>4, BookFacts
  <2>2. Entry(contact', who) \in DOMAIN contact' \cup {0}
    BY <1>4, EntryFinds
  <2> QED
    BY <1>1, <2>1, <2>2, ContactsAssumption
<1>6. t = [stray EXCEPT !.does = "deliver", !.found = Entry(contact', who)] /\ who = Customer(stray.copy)
  OBVIOUS
<1> HIDE DEF t, who
<1>7. /\ t \in [does: {"nothing", "cancel", "ride", "deliver"}, sale: Sales \cup {0}, copy: SaleRow,
                found: 0..MaxContacts, raced: BOOLEAN]
      /\ t.does = "deliver" /\ t.sale = stray.sale /\ t.copy = stray.copy
      /\ t.found = Entry(contact', who) /\ (t.raced <=> stray.raced)
  BY <1>2, <1>5, <1>6
<1>8. RideOK(sale, t)
  BY <1>2, <1>7 DEF RideOK
<1>9. DeliverOK(contact', sale, t)
  BY <1>1, <1>4, <1>6, <1>7 DEF DeliverOK, FoundRight, Made, MadeRow
<1>10. StrayOK(contact', sale, t)
  BY <1>2, <1>5, <1>7, <1>8, <1>9 DEF StrayOK
<1>11. \A r \in Sales : SaleOK(contact', sale[r])
  BY <1>4, InvFacts, GrownSale
<1> QED
  BY <1>1, <1>4, <1>7, <1>10, <1>11, InvFacts, InvFrom

LEMMA RideEndKeeps ==
  ASSUME ContactsInv, RideEnd
  PROVE  ContactsInv'
<1> DEFINE s == stray.sale
           copy == stray.copy
           row == sale[s]
           at == IF stray.found = copy.account THEN row.account ELSE stray.found
           filed == [row EXCEPT !.standing = "open", !.purchase = Earned(copy), !.account = at,
                                !.renamed = row.renamed /\ stray.raced, !.raced = stray.raced]
<1>1. /\ stray.does = "deliver" /\ stray' = NoStray /\ contact' = contact
      /\ sale' = [sale EXCEPT ![s] = filed]
  BY DEF RideEnd
<1>2. /\ s \in Sales /\ copy \in SaleRow /\ stray.found \in 0..MaxContacts /\ stray.raced \in BOOLEAN
      /\ stray.found \in DOMAIN contact \cup {0}
      /\ RideOK(sale, stray) /\ DeliverOK(contact, sale, stray)
  BY <1>1, InvFacts DEF StrayOK
<1>3. row \in SaleRow /\ SaleOK(contact, row) /\ (row.khata => Creditable(row))
  BY <1>2, SaleFacts
<1>4. ~stray.raced => Alike(copy, row) /\ copy.standing = "open"
  BY <1>2 DEF RideOK, DeliverOK
<1>5. Earned(copy) \in [phone: AnyPhone, earned: BOOLEAN]
  BY <1>2, EarnedType
<1>6. /\ at \in 0..MaxContacts /\ at \in DOMAIN contact \cup {0}
      /\ ~stray.raced => at = stray.found
  BY <1>2, <1>3, <1>4 DEF SaleOK, Alike, SaleRow
<1>7. filed = [row EXCEPT !.standing = "open", !.purchase = Earned(copy), !.account = at,
                          !.renamed = row.renamed /\ stray.raced, !.raced = stray.raced]
  OBVIOUS
<1> HIDE DEF filed, at, row
<1>8. /\ filed \in SaleRow /\ filed.account = at /\ filed.purchase = Earned(copy)
      /\ filed.standing = "open" /\ filed.phone = row.phone /\ filed.name = row.name
      /\ filed.paid = row.paid /\ (filed.khata <=> row.khata) /\ (filed.raced <=> stray.raced)
  <2>1. (row.renamed /\ stray.raced) \in BOOLEAN
    OBVIOUS
  <2> QED
    BY <1>2, <1>3, <1>5, <1>6, <1>7, <2>1 DEF SaleRow
<1>9. /\ Customer(filed) = Customer(row) /\ (Creditable(filed) <=> Creditable(row))
      /\ ~stray.raced => Customer(copy) = Customer(filed) /\ Earned(copy) = Earned(filed)
  BY <1>4, <1>8 DEF Customer, Earned, Creditable, Alike
<1>10. SaleOK(contact, filed)
  <2>1. filed \in SaleAny
    BY <1>8, RowTypes
  <2>2. filed.khata => Creditable(filed)
    BY <1>3, <1>8, <1>9
  <2>3. ~filed.raced => FoundRight(contact, filed.account, Customer(filed)) /\ filed.purchase = Earned(filed)
    BY <1>2, <1>6, <1>8, <1>9 DEF DeliverOK
  <2> QED
    BY <1>6, <1>8, <2>1, <2>2, <2>3, InvFacts, RightSale
<1>11. /\ sale' \in [Sales -> SaleRow]
       /\ \A r \in Sales : sale'[r] = IF r = s THEN filed ELSE sale[r]
  BY <1>1, <1>2, <1>8, InvFacts
<1>12. \A r \in Sales : SaleOK(contact', sale'[r])
  BY <1>1, <1>10, <1>11, InvFacts
<1> QED
  BY <1>1, <1>11, <1>12, NoStrayOK, InvFacts, InvFrom

LEMMA RideFailKeeps ==
  ASSUME ContactsInv, RideFail
  PROVE  ContactsInv'
<1>1. contact' = contact /\ sale' = sale /\ stray' = NoStray
  BY DEF RideFail
<1> QED
  BY <1>1, NoStrayOK, InvFacts, InvFrom

-----------------------------------------------------------------------------
(* Managers.                                                               *)

\* Writing an entry of the directory.
Renamed(book, c, who) == [book EXCEPT ![c].phone = who.phone, ![c].key = who.key]

Discounted(book, c, discount) == [book EXCEPT ![c].discount = discount]

LEMMA SameLength ==
  ASSUME NEW L \in Nat, NEW S, NEW after \in [1..L -> S]
  PROVE  after \in Seq(S) /\ DOMAIN after = 1..L /\ Len(after) = L
OBVIOUS

LEMMA RenamedEntry ==
  ASSUME NEW book, BookOK(book), NEW c \in DOMAIN book, NEW who \in IdentityRow
  PROVE  LET after == Renamed(book, c, who) IN
         /\ after \in Seq(ContactRow) /\ DOMAIN after = DOMAIN book /\ Len(after) = Len(book)
         /\ \A n \in DOMAIN book : n # c => after[n] = book[n]
         /\ after[c].phone = who.phone /\ after[c].key = who.key
         /\ after[c].discount <=> book[c].discount
<1> DEFINE after == Renamed(book, c, who)
<1>1. /\ DOMAIN book = 1..Len(book) /\ Len(book) \in Nat
      /\ book \in [1..Len(book) -> ContactRow]
  BY BookFacts DEF BookOK
<1>2. who.phone \in AnyPhone /\ who.key \in AnyName
  BY DEF IdentityRow
<1>3. after = [book EXCEPT ![c].phone = who.phone, ![c].key = who.key]
  BY DEF Renamed
<1> HIDE DEF after
<1>4. after \in [1..Len(book) -> ContactRow] /\ \A n \in 1..Len(book) : n # c => after[n] = book[n]
  BY <1>1, <1>2, <1>3 DEF ContactRow
<1>5. after[c].phone = who.phone /\ after[c].key = who.key /\ (after[c].discount <=> book[c].discount)
  BY <1>1, <1>2, <1>3 DEF ContactRow
<1>6. after \in Seq(ContactRow) /\ DOMAIN after = DOMAIN book /\ Len(after) = Len(book)
  BY <1>1, <1>4, SameLength
<1> QED
  BY <1>1, <1>4, <1>5, <1>6 DEF after

LEMMA DiscountedEntry ==
  ASSUME NEW book, BookOK(book), NEW c \in DOMAIN book, NEW discount \in BOOLEAN
  PROVE  LET after == Discounted(book, c, discount) IN
         /\ after \in Seq(ContactRow) /\ DOMAIN after = DOMAIN book /\ Len(after) = Len(book)
         /\ \A n \in DOMAIN book : n # c => after[n] = book[n]
         /\ after[c].phone = book[c].phone /\ after[c].key = book[c].key
         /\ after[c].discount <=> discount
<1> DEFINE after == Discounted(book, c, discount)
<1>1. /\ DOMAIN book = 1..Len(book) /\ Len(book) \in Nat
      /\ book \in [1..Len(book) -> ContactRow]
  BY BookFacts DEF BookOK
<1>2. after = [book EXCEPT ![c].discount = discount]
  BY DEF Discounted
<1> HIDE DEF after
<1>3. after \in [1..Len(book) -> ContactRow] /\ \A n \in 1..Len(book) : n # c => after[n] = book[n]
  BY <1>1, <1>2 DEF ContactRow
<1>4. /\ after[c].phone = book[c].phone /\ after[c].key = book[c].key
      /\ after[c].discount <=> discount
  BY <1>1, <1>2 DEF ContactRow
<1>5. after \in Seq(ContactRow) /\ DOMAIN after = DOMAIN book /\ Len(after) = Len(book)
  BY <1>1, <1>3, SameLength
<1> QED
  BY <1>1, <1>3, <1>4, <1>5 DEF after

\* More customers are known.
LEMMA GrowKeeps ==
  ASSUME ContactsInv, BookOK(contact'), Grown(contact, contact'), Len(contact') <= MaxContacts,
         sale' = sale, stray' = stray
  PROVE  ContactsInv'
<1>1. \A s \in Sales : SaleOK(contact', sale'[s])
  BY InvFacts, GrownSale
<1>2. StrayOK(contact', sale', stray')
  BY InvFacts, GrownStray
<1> QED
  BY <1>1, <1>2, InvFacts, InvFrom

LEMMA LoginKeeps ==
  ASSUME ContactsInv, NEW phone \in Phones, Login(phone)
  PROVE  ContactsInv'
<1>1. Identity(phone, NoName) \in IdentityRow
  BY IdentityType DEF AnyPhone, AnyName
<1> QED
  BY <1>1, InvFacts, RememberedBook, GrowKeeps DEF Login

LEMMA CreateMemberKeeps ==
  ASSUME ContactsInv, NEW phone \in Phones, NEW discount \in BOOLEAN, CreateMember(phone, discount)
  PROVE  ContactsInv'
<1> DEFINE new == [phone |-> phone, key |-> NoName, discount |-> discount]
           who == Identity(phone, NoName)
<1>1. /\ Entry(contact, who) = 0 /\ Len(contact) < MaxContacts
      /\ contact' = Append(contact, new) /\ sale' = sale /\ stray' = stray
  BY DEF CreateMember
<1>2. /\ new \in ContactRow /\ new.phone = phone /\ new.key = NoName /\ phone # NoPhone
      /\ who.phone = phone /\ who.key = NoName
  BY ContactsAssumption DEF ContactRow, AnyPhone, AnyName, Identity
<1> HIDE DEF new, who
<1>3. /\ BookOK(contact) /\ 0 \notin DOMAIN contact /\ Len(contact) \in Nat
  BY InvFacts, BookFacts
<1>4. \A n \in DOMAIN contact : ~Denotes(contact, n, new)
  <2>1. \A n \in DOMAIN contact : ~Denotes(contact, n, who)
    BY <1>1, <1>3, EntryFinds
  <2> QED
    BY <1>2, <2>1 DEF Denotes
<1>5. /\ BookOK(Append(contact, new)) /\ Grown(contact, Append(contact, new))
      /\ Len(Append(contact, new)) = Len(contact) + 1
  BY <1>2, <1>3, <1>4, EnterKeeps
<1>6. Len(contact) + 1 <= MaxContacts
  BY <1>1, <1>3, ContactsAssumption
<1> QED
  BY <1>1, <1>5, <1>6, GrowKeeps

LEMMA SaveDiscountKeeps ==
  ASSUME ContactsInv, NEW c \in DOMAIN contact, NEW discount \in BOOLEAN, SaveDiscount(c, discount)
  PROVE  ContactsInv'
<1>1. /\ discount => contact[c].phone # NoPhone
      /\ contact' = Discounted(contact, c, discount)
      /\ sale' = sale /\ stray' = stray
  BY DEF SaveDiscount, Discounted
<1>2. BookOK(contact) /\ contact[c].phone \in AnyPhone /\ contact[c].key \in AnyName
  BY InvFacts, BookFacts DEF ContactRow
<1>3. /\ contact' \in Seq(ContactRow) /\ DOMAIN contact' = DOMAIN contact /\ Len(contact') = Len(contact)
      /\ \A n \in DOMAIN contact : n # c => contact'[n] = contact[n]
      /\ contact'[c].phone = contact[c].phone /\ contact'[c].key = contact[c].key
      /\ contact'[c].discount <=> discount
  BY <1>1, <1>2, DiscountedEntry
<1>4. \A n \in DOMAIN contact : contact'[n].phone = contact[n].phone /\ contact'[n].key = contact[n].key
  BY <1>3
<1>5. BookOK(contact')
  <2>1. \A n \in DOMAIN contact' : ~Denotes(contact', n, Nobody0)
    BY <1>2, <1>3, <1>4 DEF BookOK, Denotes
  <2>2. \A m, n \in DOMAIN contact' :
          m # n => contact'[m].phone # contact'[n].phone \/ contact'[m].key # contact'[n].key
    BY <1>2, <1>3, <1>4 DEF BookOK
  <2>3. \A n \in DOMAIN contact' : contact'[n].discount => contact'[n].phone # NoPhone
    BY <1>1, <1>2, <1>3 DEF BookOK
  <2> QED
    BY <1>3, <2>1, <2>2, <2>3 DEF BookOK
<1>6. ASSUME NEW who PROVE Entry(contact', who) = Entry(contact, who)
  <2>1. \A n \in DOMAIN contact : Denotes(contact', n, who) <=> Denotes(contact, n, who)
    BY <1>4 DEF Denotes
  <2> QED
    BY <1>2, <1>3, <1>5, <2>1, EntryFinds
<1>7. \A s \in Sales : SaleOK(contact', sale'[s])
  <2> TAKE s \in Sales
  <2>1. SaleOK(contact, sale[s]) /\ sale'[s] = sale[s]
    BY <1>1, InvFacts
  <2> QED
    BY <1>3, <1>4, <1>6, <2>1 DEF SaleOK, FoundRight
<1>8. StrayOK(contact', sale', stray')
  <2>1. StrayOK(contact, sale, stray) /\ stray' = stray /\ sale' = sale
    BY <1>1, InvFacts
  <2> QED
    BY <1>3, <1>6, <2>1 DEF StrayOK, CancelOK, DeliverOK, FoundRight
<1> QED
  BY <1>1, <1>3, <1>5, <1>7, <1>8, InvFacts, InvFrom

\* Renaming a customer: whoever is found elsewhere is still found, and the orders that
\* were in the customer's account, and the request that found it, are marked.
LEMMA EditKeeps ==
  ASSUME ContactsInv, NEW c \in DOMAIN contact, NEW phone \in AnyPhone, NEW name \in AnyName,
         EditIdentity(c, phone, name)
  PROVE  ContactsInv'
<1> DEFINE who == Identity(phone, name)
           changed == contact' # contact
<1>1. /\ who # Nobody0 /\ (phone = NoPhone => Droppable(c)) /\ Entry(contact, who) \in {0, c}
      /\ contact' = Renamed(contact, c, who)
      /\ sale' = [s \in Sales |-> [sale[s] EXCEPT !.renamed = sale[s].renamed \/ (sale[s].account = c /\ changed)]]
      /\ stray' = [stray EXCEPT !.raced = stray.raced \/ (stray.found = c /\ changed)]
  BY DEF EditIdentity, Renamed
<1>2. /\ who \in IdentityRow /\ who.phone = phone /\ who.phone \in AnyPhone /\ who.key \in AnyName
      /\ ~(who.phone = NoPhone /\ who.key = NoName)
  <2>1. who \in IdentityRow /\ who.phone = phone
    BY IdentityType DEF Identity
  <2> HIDE DEF who
  <2> QED
    BY <1>1, <2>1 DEF IdentityRow, Nobody0, Identity
<1> HIDE DEF who, changed
<1>3. /\ BookOK(contact) /\ contact[c].discount \in BOOLEAN /\ 0 \notin DOMAIN contact
  BY InvFacts, BookFacts DEF ContactRow
<1>4. /\ contact' \in Seq(ContactRow) /\ DOMAIN contact' = DOMAIN contact /\ Len(contact') = Len(contact)
      /\ \A n \in DOMAIN contact : n # c => contact'[n] = contact[n]
      /\ contact'[c].phone = who.phone /\ contact'[c].key = who.key
      /\ contact'[c].discount <=> contact[c].discount
  BY <1>1, <1>2, <1>3, RenamedEntry
<1>5. BookOK(contact')
  <2>1. ASSUME NEW n \in DOMAIN contact', Denotes(contact', n, Nobody0) PROVE FALSE
    <3>1. CASE n = c
      BY <1>2, <1>4, <2>1, <3>1 DEF Denotes, Nobody0, Identity
    <3>2. CASE n # c
      BY <1>3, <1>4, <2>1, <3>2 DEF Denotes, BookOK
    <3> QED
      BY <3>1, <3>2
  <2>2. \A n \in DOMAIN contact : n # c => ~Denotes(contact, n, who)
    BY <1>1, <1>3, EntryFinds
  <2>3. ASSUME NEW m \in DOMAIN contact', NEW n \in DOMAIN contact', m # n
        PROVE  contact'[m].phone # contact'[n].phone \/ contact'[m].key # contact'[n].key
    <3>1. CASE m = c
      BY <1>4, <2>2, <2>3, <3>1 DEF Denotes
    <3>2. CASE n = c
      BY <1>4, <2>2, <2>3, <3>2 DEF Denotes
    <3>3. CASE m # c /\ n # c
      BY <1>3, <1>4, <2>3, <3>3 DEF BookOK
    <3> QED
      BY <3>1, <3>2, <3>3
  <2>4. ASSUME NEW n \in DOMAIN contact', contact'[n].discount PROVE contact'[n].phone # NoPhone
    <3>1. CASE n = c
      BY <1>1, <1>2, <1>4, <2>4, <3>1 DEF Droppable
    <3>2. CASE n # c
      BY <1>3, <1>4, <2>4, <3>2 DEF BookOK
    <3> QED
      BY <3>1, <3>2
  <2> QED
    BY <1>4, <2>1, <2>3, <2>4 DEF BookOK
<1>6. ASSUME NEW found, NEW x, FoundRight(contact, found, x), ~(found = c /\ changed)
      PROVE  FoundRight(contact', found, x)
  <2>1. CASE found = 0
    BY <1>5, <1>6, <2>1, NobodyEntered DEF FoundRight
  <2>2. CASE found = c
    BY <1>6, <2>2 DEF FoundRight, changed
  <2>3. CASE found # 0 /\ found # c
    <3>1. found = Entry(contact, x) /\ found \in DOMAIN contact /\ Denotes(contact, found, x)
      BY <1>3, <1>6, <2>3, EntryFinds DEF FoundRight
    <3>2. Denotes(contact', found, x) /\ found \in DOMAIN contact'
      BY <1>4, <2>3, <3>1 DEF Denotes
    <3> QED
      BY <1>5, <2>3, <3>1, <3>2, EntryFinds DEF FoundRight
  <2> QED
    BY <2>1, <2>2, <2>3
<1>7. ASSUME NEW s \in Sales
      PROVE  /\ sale'[s] \in SaleRow
             /\ \A f \in {"standing", "phone", "name", "khata", "paid", "account", "purchase", "raced"} :
                  sale'[s][f] = sale[s][f]
             /\ sale'[s].renamed <=> (sale[s].renamed \/ (sale[s].account = c /\ changed))
  <2> DEFINE to == sale'[s]
             mark == sale[s].renamed \/ (sale[s].account = c /\ changed)
  <2>1. to = [sale[s] EXCEPT !.renamed = mark]
    BY <1>1
  <2>2. sale[s] \in SaleRow /\ mark \in BOOLEAN
    BY SaleFacts
  <2> HIDE DEF to, mark
  <2>3. /\ to \in SaleRow /\ (to.renamed <=> mark)
        /\ \A f \in {"standing", "phone", "name", "khata", "paid", "account", "purchase", "raced"} :
                  to[f] = sale[s][f]
    BY <2>1, <2>2 DEF SaleRow
  <2> QED
    BY <2>3 DEF to, mark
<1>8. ASSUME NEW s \in Sales PROVE SaleOK(contact', sale'[s])
  <2> DEFINE old == sale[s]
             to == sale'[s]
  <2>1. /\ to.standing = old.standing /\ to.phone = old.phone /\ to.name = old.name
        /\ to.khata = old.khata /\ to.paid = old.paid /\ to.account = old.account
        /\ to.purchase = old.purchase /\ to.raced = old.raced
        /\ to.renamed <=> (old.renamed \/ (old.account = c /\ changed))
    BY <1>7
  <2>2. SaleOK(contact, old)
    BY InvFacts
  <2> HIDE DEF old, to
  <2>3. /\ Creditable(to) <=> Creditable(old)
        /\ Customer(to) = Customer(old) /\ Earned(to) = Earned(old) /\ (MadeRow(to) <=> MadeRow(old))
    BY <2>1 DEF Creditable, Customer, Earned, MadeRow
  <2>4. to.khata /\ ~to.raced => to.account # 0 /\ contact'[to.account].phone # NoPhone
    <3> SUFFICES ASSUME to.khata, ~to.raced
                 PROVE  to.account # 0 /\ contact'[to.account].phone # NoPhone
      OBVIOUS
    <3>1. to.account \in DOMAIN contact /\ to.account # 0 /\ contact[to.account].phone # NoPhone
      BY <2>1, <2>2 DEF SaleOK
    <3>2. to.account = c => phone # NoPhone
      BY <1>1, <2>1 DEF Droppable, old
    <3> QED
      BY <1>2, <1>4, <3>1, <3>2
  <2>5. MadeRow(to) /\ ~to.raced =>
          /\ ~to.renamed => FoundRight(contact', to.account, Customer(to))
          /\ to.purchase = Earned(to)
    BY <1>6, <2>1, <2>2, <2>3 DEF SaleOK
  <2>6. SaleOK(contact', to)
    BY <1>4, <2>1, <2>2, <2>3, <2>4, <2>5 DEF SaleOK
  <2> QED
    BY <2>6 DEF to
<1>9. /\ stray' \in [does: {"nothing", "cancel", "ride", "deliver"}, sale: Sales \cup {0}, copy: SaleRow,
                     found: 0..MaxContacts, raced: BOOLEAN]
      /\ stray'.does = stray.does /\ stray'.sale = stray.sale /\ stray'.copy = stray.copy
      /\ stray'.found = stray.found
      /\ stray'.raced <=> (stray.raced \/ (stray.found = c /\ changed))
  <2>1. (stray.raced \/ (stray.found = c /\ changed)) \in BOOLEAN
    BY InvFacts
  <2> QED
    BY <1>1, <2>1, InvFacts
<1>10. StrayOK(contact', sale', stray')
  <2>1. StrayOK(contact, sale, stray)
    BY InvFacts
  <2>2. ASSUME stray.does = "cancel" PROVE CancelOK(contact', stray')
    <3>1. CancelOK(contact, stray)
      BY <2>1, <2>2 DEF StrayOK
    <3>2. ~stray.raced => FoundRight(contact, stray.found, Customer(stray.copy))
      BY <3>1 DEF CancelOK, FoundRight
    <3>3. ~stray'.raced => FoundRight(contact', stray.found, Customer(stray.copy))
      BY <1>6, <1>9, <3>2
    <3> QED
      BY <1>9, <3>1, <3>3 DEF CancelOK, FoundRight
  <2>3. ASSUME stray.does \in {"ride", "deliver"} PROVE RideOK(sale', stray')
    <3>1. stray.sale \in Sales /\ RideOK(sale, stray)
      BY <2>1, <2>3 DEF StrayOK
    <3>2. /\ MadeRow(sale'[stray.sale]) <=> MadeRow(sale[stray.sale])
          /\ Alike(stray.copy, sale[stray.sale]) <=> Alike(stray.copy, sale'[stray.sale])
      BY <1>7, <3>1 DEF MadeRow, Alike
    <3> QED
      BY <1>9, <3>1, <3>2 DEF RideOK
  <2>4. ASSUME stray.does = "deliver" PROVE DeliverOK(contact', sale', stray')
    <3>1. stray.sale \in Sales /\ DeliverOK(contact, sale, stray)
      BY <2>1, <2>4 DEF StrayOK
    <3>2. MadeRow(sale'[stray.sale])
      BY <1>7, <3>1 DEF MadeRow, DeliverOK
    <3> QED
      BY <1>6, <1>9, <3>1, <3>2 DEF DeliverOK
  <2> QED
    BY <1>4, <1>9, <2>1, <2>2, <2>3, <2>4 DEF StrayOK
<1>11. sale' \in [Sales -> SaleRow] /\ \A s \in Sales : SaleOK(contact', sale'[s])
  BY <1>1, <1>7, <1>8
<1> QED
  BY <1>4, <1>5, <1>9, <1>10, <1>11, InvFacts, InvFrom

-----------------------------------------------------------------------------
(* Payments on account.                                                    *)

LEMMA LeastExists ==
  ASSUME NEW S, S \subseteq Nat, S # {}
  PROVE  \E x \in S : \A y \in S : x =< y
<1>1. \E x \in S : \A y \in S : ~ (<<y, x>> \in OpToRel(<, Nat))
  BY NatLessThanWellFounded, WFMin
<1>2. \A x, y \in Nat : <<y, x>> \in OpToRel(<, Nat) <=> y < x
  BY DEF OpToRel
<1>3. PICK x \in S : \A y \in S : ~ (y < x)
  BY <1>1, <1>2, Zenon
<1> QED
  BY <1>3

\* A finite set of orders has a newest one.
LEMMA NewestExists ==
  ASSUME NEW S, IsFiniteSet(S), S \subseteq Nat, S # {}
  PROVE  Max(S) \in S
<1> DEFINE Top(T) == \E x \in T : \A y \in T : x >= y
           Bad == {n \in Nat : \E T \in SUBSET S : T # {} /\ Cardinality(T) = n /\ ~Top(T)}
<1>1. Bad = {}
  <2> SUFFICES ASSUME Bad # {} PROVE FALSE
    OBVIOUS
  <2>1. PICK n \in Bad : \A m \in Bad : n <= m
    BY LeastExists
  <2>2. PICK T \in SUBSET S : T # {} /\ Cardinality(T) = n /\ ~Top(T)
    OBVIOUS
  <2>3. PICK x \in T : TRUE
    BY <2>2
  <2>4. /\ IsFiniteSet(T) /\ x \in Nat
        /\ Cardinality(T \ {x}) = n - 1 /\ Cardinality(T \ {x}) \in Nat
    BY <2>2, FS_Subset, FS_RemoveElement, FS_CardinalityType
  <2>5. n \in Nat
    OBVIOUS
  <2>6. n - 1 \notin Bad
    <3> HIDE DEF Bad
    <3> QED
      BY <2>1, <2>4, <2>5
  <2>7. T \ {x} # {} => Top(T \ {x})
    <3>1. T \ {x} \in SUBSET S
      OBVIOUS
    <3> HIDE DEF Top
    <3> QED
      BY <2>4, <2>6, <3>1
  <2>8. CASE T \ {x} = {}
    BY <2>2, <2>4, <2>8
  <2>9. CASE T \ {x} # {}
    <3>1. PICK m \in T \ {x} : \A y \in T \ {x} : m >= y
      BY <2>7, <2>9
    <3>2. m \in Nat /\ m \in T
      OBVIOUS
    <3>3. CASE m >= x
      BY <2>2, <3>1, <3>2, <3>3
    <3>4. CASE ~(m >= x)
      <4>1. \A y \in T : x >= y
        BY <2>4, <3>1, <3>2, <3>4
      <4> QED
        BY <2>2, <4>1
    <3> QED
      BY <3>3, <3>4
  <2> QED
    BY <2>8, <2>9
<1>2. Cardinality(S) \in Nat
  BY FS_CardinalityType
<1>3. Top(S)
  <2> HIDE DEF Top
  <2> QED
    BY <1>1, <1>2
<1> QED
  BY <1>3 DEF Max

\* The newest of some orders, which is paid after the others.
LEMMA TakeNewest ==
  ASSUME NEW S, IsFiniteSet(S), S \subseteq Nat, NEW T \in SUBSET S, T # {}
  PROVE  /\ Max(T) \in T /\ T \ {Max(T)} \in SUBSET S
         /\ Cardinality(T) \in Nat /\ Cardinality(T \ {Max(T)}) \in Nat
         /\ Cardinality(T \ {Max(T)}) = Cardinality(T) - 1
<1>1. IsFiniteSet(T)
  BY FS_Subset
<1>2. Max(T) \in T
  BY <1>1, NewestExists
<1> QED
  BY <1>1, <1>2, FS_RemoveElement, FS_CardinalityType

\* What the recursive function behind the fold computes on the sets of orders in Ts.
Pays(covers, start, Ts, g) ==
  g = [T \in Ts |-> IF T = {} THEN start ELSE PaidUp(covers, Max(T), g[T \ {Max(T)}])]

LEMMA CollectIs ==
  ASSUME NEW c, NEW covers, Collect(c, covers)
  PROVE  LET S == DOMAIN covers
             g == CHOOSE x : Pays(covers, [book |-> contact, sale |-> sale], SUBSET S, x)
         IN /\ \A s \in S : Free(s)
            /\ contact' = g[S].book /\ Len(contact') <= MaxContacts
            /\ sale' = g[S].sale
            /\ stray' = Overlaps(S)
BY DEF Collect, MapThenFoldSet, Pays

\* There is such a function, by induction on the size of the sets.
LEMMA PaysExists ==
  ASSUME NEW covers, NEW start, NEW S, IsFiniteSet(S), S \subseteq Nat
  PROVE  \E g : Pays(covers, start, SUBSET S, g)
<1> DEFINE Upto(n) == {T \in SUBSET S : Cardinality(T) <= n}
           Bad == {n \in Nat : ~ \E g : Pays(covers, start, Upto(n), g)}
<1>1. Bad = {}
  <2> SUFFICES ASSUME Bad # {} PROVE FALSE
    OBVIOUS
  <2>1. PICK n \in Bad : \A m \in Bad : n <= m
    BY LeastExists
  <2>2. n # 0
    <3> DEFINE g == [T \in Upto(0) |-> start]
    <3>1. \A T \in Upto(0) : T = {}
      <4> TAKE T \in Upto(0)
      <4>1. IsFiniteSet(T) /\ Cardinality(T) <= 0
        BY FS_Subset
      <4> QED
        BY <4>1, FS_EmptySet, FS_CardinalityType
    <3>2. g = [T \in Upto(0) |-> IF T = {} THEN start ELSE PaidUp(covers, Max(T), g[T \ {Max(T)}])]
      <4> HIDE DEF Upto
      <4> QED
        BY <3>1, Zenon
    <3> HIDE DEF g
    <3>3. Pays(covers, start, Upto(0), g)
      BY <3>2 DEF Pays
    <3>4. 0 \notin Bad
      BY <3>3
    <3> QED
      BY <3>4
  <2>3. n - 1 \in Nat /\ n - 1 \notin Bad
    <3>1. n \in Nat
      OBVIOUS
    <3> HIDE DEF Bad
    <3> QED
      BY <2>1, <2>2, <3>1
  <2>4. PICK h : Pays(covers, start, Upto(n - 1), h)
    BY <2>3
  <2> DEFINE g == [T \in Upto(n) |-> IF T = {} THEN start ELSE PaidUp(covers, Max(T), h[T \ {Max(T)}])]
  <2>5. \A T \in Upto(n - 1) : T \in Upto(n) /\ g[T] = h[T]
    <3> TAKE T \in Upto(n - 1)
    <3>1. Cardinality(T) \in Nat
      BY FS_Subset, FS_CardinalityType
    <3>2. T \in Upto(n)
      BY <2>1, <3>1
    <3>3. h = [U \in Upto(n - 1) |-> IF U = {} THEN start ELSE PaidUp(covers, Max(U), h[U \ {Max(U)}])]
      BY <2>4 DEF Pays
    <3>4. h[T] = IF T = {} THEN start ELSE PaidUp(covers, Max(T), h[T \ {Max(T)}])
      <4> HIDE DEF Upto
      <4> QED
        BY <3>3, Zenon
    <3>5. g[T] = IF T = {} THEN start ELSE PaidUp(covers, Max(T), h[T \ {Max(T)}])
      <4> HIDE DEF Upto
      <4> QED
        BY <3>2, Zenon
    <3> QED
      BY <3>2, <3>4, <3>5
  <2>6. ASSUME NEW T \in Upto(n), T # {} PROVE T \ {Max(T)} \in Upto(n - 1)
    <3>1. n \in Nat /\ T \in SUBSET S /\ Cardinality(T) <= n
      BY <2>1
    <3>2. /\ T \ {Max(T)} \in SUBSET S
          /\ Cardinality(T) \in Nat /\ Cardinality(T \ {Max(T)}) = Cardinality(T) - 1
      BY <2>6, <3>1, TakeNewest
    <3>3. Cardinality(T \ {Max(T)}) <= n - 1
      BY <3>1, <3>2
    <3> QED
      BY <3>2, <3>3
  <2> DEFINE k == [T \in Upto(n) |-> IF T = {} THEN start ELSE PaidUp(covers, Max(T), g[T \ {Max(T)}])]
  <2>7. \A T \in Upto(n) : g[T] = k[T]
    <3> TAKE T \in Upto(n)
    <3>1. T # {} => g[T \ {Max(T)}] = h[T \ {Max(T)}]
      BY <2>5, <2>6
    <3>2. g[T] = IF T = {} THEN start ELSE PaidUp(covers, Max(T), h[T \ {Max(T)}])
      <4> HIDE DEF Upto
      <4> QED
        BY Zenon
    <3>3. k[T] = IF T = {} THEN start ELSE PaidUp(covers, Max(T), g[T \ {Max(T)}])
      <4> HIDE DEF Upto, g
      <4> QED
        BY Zenon
    <3> HIDE DEF g, k, Upto
    <3> QED
      BY <3>1, <3>2, <3>3
  <2>8. g = k
    <3>1. g = [T \in Upto(n) |-> g[T]] /\ k = [T \in Upto(n) |-> k[T]]
      <4> HIDE DEF Upto
      <4> QED
        OBVIOUS
    <3> HIDE DEF g, k, Upto
    <3> QED
      BY <2>7, <3>1
  <2>9. Pays(covers, start, Upto(n), g)
    <3> HIDE DEF g
    <3> QED
      BY <2>8 DEF Pays
  <2> QED
    BY <2>1, <2>9
<1>2. Cardinality(S) \in Nat /\ \A T \in SUBSET S : Cardinality(T) <= Cardinality(S)
  BY FS_Subset, FS_CardinalityType
<1>3. Upto(Cardinality(S)) = SUBSET S
  BY <1>2
<1>4. Cardinality(S) \notin Bad
  BY <1>1
<1> QED
  BY <1>2, <1>3, <1>4

\* What holds after the orders in T were paid.
PaidOK(T, done) ==
  /\ DirectoryOK(done.book, done.sale) /\ Grown(contact, done.book)
  /\ \A s \in Sales \ T : done.sale[s] = sale[s]

\* One more order is paid.
LEMMA PaidUpKeeps ==
  ASSUME NEW T \in SUBSET Sales, NEW done, PaidOK(T, done), NEW s \in Sales,
         NEW covers, covers[s] \in {"all", "khata", "part"}
  PROVE  PaidOK(T \cup {s}, PaidUp(covers, s, done))
<1> DEFINE old == done.sale[s]
           to == Covered(old, covers[s])
           book == Remembered(done.book, Customer(to))
           filed == Filed(book, to)
           sales == [done.sale EXCEPT ![s] = filed]
<1>1. /\ BookOK(done.book) /\ Grown(contact, done.book)
      /\ done.sale \in [Sales -> SaleAny] /\ \A r \in Sales : SaleOK(done.book, done.sale[r])
      /\ \A r \in Sales \ T : done.sale[r] = sale[r]
  BY DEF PaidOK, DirectoryOK
<1>2. PaidUp(covers, s, done) = [book |-> book, sale |-> sales]
  BY DEF PaidUp
<1>3. old \in SaleAny /\ (old.khata => Creditable(old))
  BY <1>1 DEF SaleOK
<1>4. \/ to = [old EXCEPT !.paid = "yes", !.khata = FALSE]
      \/ to = [old EXCEPT !.khata = FALSE]
      \/ to = old
  BY DEF Covered
<1> HIDE DEF old, to
<1>5. to \in SaleAny /\ (to.khata => Creditable(to))
  <2>1. CASE to = [old EXCEPT !.paid = "yes", !.khata = FALSE]
    BY <1>3, <2>1 DEF SaleAny
  <2>2. CASE to = [old EXCEPT !.khata = FALSE]
    BY <1>3, <2>2 DEF SaleAny
  <2> QED
    BY <1>3, <1>4, <2>1, <2>2
<1>6. /\ BookOK(book) /\ Grown(done.book, book)
      /\ filed \in SaleAny /\ SaleOK(book, filed)
  BY <1>1, <1>5, FiledSale
<1> HIDE DEF book, filed
<1>7. /\ sales \in [Sales -> SaleAny]
      /\ \A r \in Sales : sales[r] = IF r = s THEN filed ELSE done.sale[r]
  BY <1>1, <1>6
<1> HIDE DEF sales
<1>8. \A r \in Sales : SaleOK(book, sales[r])
  <2> TAKE r \in Sales
  <2>1. CASE r = s
    BY <1>6, <1>7, <2>1
  <2>2. CASE r # s
    BY <1>1, <1>6, <1>7, <2>2, GrownSale
  <2> QED
    BY <2>1, <2>2
<1>9. Grown(contact, book)
  BY <1>1, <1>6 DEF Grown
<1>10. \A r \in Sales \ (T \cup {s}) : sales[r] = sale[r]
  BY <1>1, <1>7
<1> QED
  BY <1>2, <1>6, <1>7, <1>8, <1>9, <1>10 DEF PaidOK, DirectoryOK

\* After each of the orders, by induction on how many were paid.
LEMMA PaidAll ==
  ASSUME ContactsInv, NEW S \in SUBSET Sales, NEW covers \in [S -> {"all", "khata", "part"}],
         NEW g, Pays(covers, [book |-> contact, sale |-> sale], SUBSET S, g)
  PROVE  PaidOK(S, g[S])
<1> DEFINE start == [book |-> contact, sale |-> sale]
           Bad == {n \in Nat : \E T \in SUBSET S : Cardinality(T) = n /\ ~PaidOK(T, g[T])}
<1>1. IsFiniteSet(S) /\ S \subseteq Nat
  BY ContactsAssumption, FS_Subset
<1>2. PaidOK({}, start)
  BY InvFacts DEF PaidOK, DirectoryOK, Grown
<1> HIDE DEF start
<1>3. \A T \in SUBSET S : g[T] = IF T = {} THEN start ELSE PaidUp(covers, Max(T), g[T \ {Max(T)}])
  <2>1. g = [T \in SUBSET S |-> IF T = {} THEN start ELSE PaidUp(covers, Max(T), g[T \ {Max(T)}])]
    BY DEF Pays, start
  <2> QED
    BY <2>1, Zenon
<1>4. Bad = {}
  <2> SUFFICES ASSUME Bad # {} PROVE FALSE
    OBVIOUS
  <2>1. PICK n \in Bad : \A m \in Bad : n <= m
    BY LeastExists
  <2>2. PICK T \in SUBSET S : Cardinality(T) = n /\ ~PaidOK(T, g[T])
    OBVIOUS
  <2>3. T # {}
    BY <1>2, <1>3, <2>2
  <2> DEFINE U == T \ {Max(T)}
  <2>4. Max(T) \in T /\ U \in SUBSET S /\ Cardinality(U) \in Nat /\ Cardinality(U) = n - 1
    BY <1>1, <2>2, <2>3, TakeNewest
  <2>5. n \in Nat
    OBVIOUS
  <2>6. n - 1 \notin Bad
    <3> HIDE DEF Bad
    <3> QED
      BY <2>1, <2>4, <2>5
  <2>7. PaidOK(U, g[U])
    BY <2>4, <2>6
  <2>8. g[T] = PaidUp(covers, Max(T), g[U])
    BY <1>3, <2>3
  <2>9. U \cup {Max(T)} = T
    BY <2>4
  <2>10. Max(T) \in Sales /\ covers[Max(T)] \in {"all", "khata", "part"} /\ U \in SUBSET Sales
    BY <2>4
  <2> HIDE DEF U
  <2>11. PaidOK(U \cup {Max(T)}, PaidUp(covers, Max(T), g[U]))
    BY <2>7, <2>10, PaidUpKeeps
  <2> QED
    BY <2>2, <2>8, <2>9, <2>11
<1>5. Cardinality(S) \in Nat
  BY <1>1, FS_CardinalityType
<1> QED
  BY <1>4, <1>5

LEMMA CollectKeeps ==
  ASSUME ContactsInv, NEW c, NEW S \in SUBSET Sales, NEW covers \in [S -> {"all", "khata", "part"}],
         Collect(c, covers)
  PROVE  ContactsInv'
<1> DEFINE start == [book |-> contact, sale |-> sale]
           g == CHOOSE x : Pays(covers, start, SUBSET S, x)
<1>1. /\ \A s \in S : Free(s)
      /\ contact' = g[S].book /\ Len(contact') <= MaxContacts
      /\ sale' = g[S].sale /\ stray' = Overlaps(S)
  <2>1. DOMAIN covers = S
    OBVIOUS
  <2> QED
    BY <2>1, CollectIs
<1>2. Pays(covers, start, SUBSET S, g)
  <2>1. IsFiniteSet(S) /\ S \subseteq Nat
    BY ContactsAssumption, FS_Subset
  <2> QED
    BY <2>1, PaysExists
<1> HIDE DEF g
<1>3. PaidOK(S, g[S])
  BY <1>2, PaidAll
<1>4. /\ BookOK(contact') /\ Grown(contact, contact')
      /\ sale' \in [Sales -> SaleAny] /\ \A s \in Sales : SaleOK(contact', sale'[s])
      /\ \A s \in Sales \ S : sale'[s] = sale[s]
  BY <1>1, <1>3 DEF PaidOK, DirectoryOK
<1>5. sale' \in [Sales -> SaleRow]
  <2>1. DOMAIN contact' = 1..Len(contact') /\ Len(contact') \in Nat
    BY <1>4, BookFacts
  <2>2. ASSUME NEW s \in Sales PROVE sale'[s] \in SaleRow
    <3>1. sale'[s] \in SaleAny /\ sale'[s].account \in DOMAIN contact' \cup {0}
      BY <1>4 DEF SaleOK
    <3>2. sale'[s].account \in 0..MaxContacts
      BY <1>1, <2>1, <3>1, ContactsAssumption
    <3> QED
      BY <3>1, <3>2, RowTypes
  <2> QED
    BY <1>4, <2>2
<1>6. /\ StrayOK(contact', sale', stray')
      /\ stray' \in [does: {"nothing", "cancel", "ride", "deliver"}, sale: Sales \cup {0}, copy: SaleRow,
                     found: 0..MaxContacts, raced: BOOLEAN]
  BY <1>1, <1>4, OverlapsStray
<1> QED
  BY <1>1, <1>4, <1>5, <1>6, InvFrom

-----------------------------------------------------------------------------
(* The directory is true.                                                  *)

LEMMA ContactsInitInv == ContactsInit => ContactsInv
<1> SUFFICES ASSUME ContactsInit PROVE ContactsInv
  OBVIOUS
<1>1. /\ contact = <<>> /\ stray = NoStray
      /\ sale = [s \in Sales |-> NoSale]
  BY DEF ContactsInit
<1>2. BookOK(contact) /\ Len(contact) <= MaxContacts /\ Range(contact) = {}
  BY <1>1, ContactsAssumption DEF BookOK, Range
<1>3. NoSale.account = 0 /\ NoSale.standing = "none"
  BY DEF NoSale
<1>4. SaleOK(contact, NoSale)
  BY <1>3, EmptyRow DEF SaleOK, MadeRow
<1>5. sale \in [Sales -> SaleRow] /\ \A s \in Sales : SaleOK(contact, sale[s])
  BY <1>1, <1>4, EmptyRow
<1>6. sale \in [Sales -> SaleAny]
  BY <1>5, RowTypes
<1> QED
  BY <1>1, <1>2, <1>5, <1>6, NoStrayOK DEF ContactsInv, ContactsTypeOK, DirectoryOK

LEMMA ContactsNextInv == ContactsInv /\ [ContactsNext]_directory => ContactsInv'
<1> SUFFICES ASSUME ContactsInv, [ContactsNext]_directory PROVE ContactsInv'
  OBVIOUS
<1>1. ASSUME NEW s \in Sales, SaleStep(s) PROVE ContactsInv'
  <2>1. CASE \/ Touch(s) \/ Refund(s) \/ CancelOrder(s)
             \/ \E phone \in AnyPhone, name \in AnyName :
                  \/ CorrectCustomer(s, phone, name)
                  \/ \E standing \in {"pending", "open"} : File(s, standing, phone, name)
                  \/ \E tender \in {"khata", "paid"} : Settle(s, phone, name, tender)
    BY <2>1, CommandsKeepDirectory
  <2>2. CASE DeleteSale(s)
    BY <2>2, DeleteKeeps
  <2>3. CASE CancelBegin(s)
    BY <2>3, CancelBeginKeeps
  <2>4. CASE RideBegin(s)
    BY <2>4, RideBeginKeeps
  <2> QED
    BY <1>1, <2>1, <2>2, <2>3, <2>4 DEF SaleStep
<1>2. CASE DirectoryStep
  <2>1. ASSUME NEW c \in DOMAIN contact, NEW S \in SUBSET Sales,
               NEW covers \in [S -> {"all", "khata", "part"}], Collect(c, covers)
        PROVE  ContactsInv'
    BY <2>1, CollectKeeps
  <2>2. ASSUME NEW c \in DOMAIN contact, NEW phone \in AnyPhone, NEW name \in AnyName,
               EditIdentity(c, phone, name)
        PROVE  ContactsInv'
    BY <2>2, EditKeeps
  <2>3. ASSUME NEW c \in DOMAIN contact, NEW discount \in BOOLEAN, SaveDiscount(c, discount)
        PROVE  ContactsInv'
    BY <2>3, SaveDiscountKeeps
  <2>4. ASSUME NEW phone \in Phones, Login(phone) PROVE ContactsInv'
    BY <2>4, LoginKeeps
  <2>5. ASSUME NEW phone \in Phones, NEW discount \in BOOLEAN, CreateMember(phone, discount)
        PROVE  ContactsInv'
    BY <2>5, CreateMemberKeeps
  <2> QED
    BY <1>2, <2>1, <2>2, <2>3, <2>4, <2>5 DEF DirectoryStep
<1>3. CASE CancelEnd
  BY <1>3, CancelEndKeeps
<1>4. CASE RideSave
  BY <1>4, RideSaveKeeps
<1>5. CASE RideEnd
  BY <1>5, RideEndKeeps
<1>6. CASE RideFail
  BY <1>6, RideFailKeeps
<1>7. CASE UNCHANGED directory
  BY <1>7 DEF directory, ContactsInv, ContactsTypeOK
<1> QED
  BY <1>1, <1>2, <1>3, <1>4, <1>5, <1>6, <1>7 DEF ContactsNext

\* What an outlet knows of its customers stays true: everybody is in the directory once,
\* an order is in its customer's account and has earned what it was settled for, and who
\* owes money or has a discount can be called. Orders are saved by commands, payments on
\* account, and requests without the outlet's lock; customers are renamed in between.
THEOREM DirectoryAlwaysTrue == ContactsSpec => []DirectoryTrue
<1>1. ContactsInv => DirectoryTrue
  <2> SUFFICES ASSUME ContactsInv PROVE DirectoryTrue
    OBVIOUS
  <2>1. BookOK(contact) /\ \A s \in Sales : SaleOK(contact, sale[s])
    BY InvFacts
  <2>2. OrdersFiled
    BY <2>1 DEF OrdersFiled, BookOK, SaleOK, MadeRow, Made, FoundRight
  <2>3. DebtorsReachable
    BY <2>1 DEF DebtorsReachable, BookOK, SaleOK
  <2> QED
    BY <2>2, <2>3 DEF DirectoryTrue
<1> QED
  BY <1>1, ContactsInitInv, ContactsNextInv, PTL DEF ContactsSpec
=============================================================================
