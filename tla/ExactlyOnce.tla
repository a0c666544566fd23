----------------------------- MODULE ExactlyOnce -----------------------------
(***************************************************************************)
(* What the order commands promise to the terminals that send them over a  *)
(* network that loses, delays and repeats requests: a request takes effect *)
(* at most once, on the version of the order its sender saw if it names    *)
(* one, and whoever is answered is told the truth.                         *)
(*                                                                         *)
(* history[o]  the requests that took effect on order o, oldest first      *)
(* answer      the answer given last, or NoAnswer                          *)
(***************************************************************************)
EXTENDS Naturals, SequencesExt

CONSTANTS Orders, NoOrder, NoKey, NoAnswer,
          Requests  \* records with the fields key, kind, order and version

VARIABLES history, answer

vars == <<history, answer>>

Init == history = [o \in Orders |-> <<>>] /\ answer = NoAnswer

Applied(r) == \E o \in Orders : r \in Range(history[o])
KeyUsedOn(o, k) == \E i \in DOMAIN history[o] : history[o][i].key = k
KeyUsed(k) == \E o \in Orders : KeyUsedOn(o, k)
Exists(o) == history[o] # <<>>
Deleted(o) == Exists(o) /\ Last(history[o]).kind = "delete"
RunsAtTable(o) ==
  /\ Exists(o)
  /\ Head(history[o]).kind # "takeaway"
  /\ Last(history[o]).kind \notin {"complete", "cancel", "delete"}

\* r takes effect on o, and its sender may be told.  An order is opened by a request
\* that names none; every later one names it with the version it saw, except that a
\* scan of the table's code joins the order running there.  Only a customer's
\* cancellation needs neither a key nor a version.
Apply(r, o) ==
  /\ r.key = NoKey \/ ~KeyUsed(r.key)
  /\ IF r.order = NoOrder
     THEN ~Exists(o) \/ (r.kind = "scan" /\ RunsAtTable(o))
     ELSE r.order = o /\ Exists(o) /\ ~Deleted(o)
  /\ r.order # NoOrder /\ r.key # NoKey => r.version = Len(history[o])
  /\ history' = [history EXCEPT ![o] = Append(@, r)]
  /\ answer' = [request |-> r, outcome |-> "done"]

True(a) ==
  LET r == a.request
  IN CASE a.outcome = "done" -> \E o \in Orders :
            r \in Range(history[o]) /\ (Deleted(o) => r.kind = "delete")
       [] a.outcome = "gone" -> \E x \in Orders :
            Deleted(x) /\ (r.order = x \/ KeyUsedOn(x, r.key))
       [] a.outcome = "reused" -> KeyUsed(r.key) /\ ~Applied(r)
       [] a.outcome = "stale" -> ~Applied(r) /\ r.order # NoOrder /\ r.version # Len(history[r.order])
       [] a.outcome = "refused" -> ~Applied(r)

Tell(a) == True(a) /\ answer' = a /\ UNCHANGED history

\* A request is lost, or its answer, or a server fails: nobody is told anything.
Silence == answer' = NoAnswer /\ UNCHANGED history

Answers == [request: Requests, outcome: {"done", "gone", "reused", "stale", "refused"}]

\* Whoever is answered has either just had an effect or is told how things stand.
Next ==
  \/ /\ answer' \in Answers
     /\ Tell(answer') \/ \E o \in Orders : Apply(answer'.request, o)
  \/ Silence

Spec == Init /\ [][Next]_vars
=============================================================================
