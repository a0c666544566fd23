------------------------------- MODULE MCChat -------------------------------
(* A conversation, and the outlets of a brand with their orders and         *)
(* dashboards.  The two share no state, so a behaviour is of the one or of  *)
(* the other; chats begin while no outlet exists.                           *)
EXTENDS Chat, Outlets

NoOutlets == OutletsInit /\ (\A b \in Branches : outlet[b] = NoRow) /\ UNCHANGED outletVars
NoChat == ChatInit /\ UNCHANGED chatVars

ChatInsert == NoOutlets /\ \E h \in Handlers, k \in Keys : Insert(h, k)
ChatCommit == NoOutlets /\ \E h \in Handlers : Commit(h)
ChatAbort == NoOutlets /\ \E h \in Handlers : Abort(h)
ChatOpen == NoOutlets /\ \E a \in Apps : Open(a)
ChatClose == NoOutlets /\ \E a \in Apps : Close(a)
ChatScrollBack == NoOutlets /\ \E a \in Apps : ScrollBack(a)
ChatFetch == NoOutlets /\ \E a \in Apps : Fetch(a)
ChatHeartbeat == NoOutlets /\ \E a \in Apps : Heartbeat(a)
ChatMarkRead == NoOutlets /\ \E a \in Apps, i \in Ids : MarkRead(a, i)
ChatPublish ==
  NoOutlets /\ \E k \in DOMAIN event, recorded \in BOOLEAN :
    \E reached \in SUBSET {a \in Apps : app[a].open} : Publish(k, reached, recorded)

OutletAsk ==
  NoChat /\ \E w \in Edits, b \in Branches, does \in {"create", "update", "toggle"},
               main \in BOOLEAN \cup {Kept}, accepting \in BOOLEAN \cup {Kept} :
              Ask(w, b, does, main, accepting)
OutletSave == NoChat /\ \E w \in Edits : Save(w)
OutletCommit == NoChat /\ \E w \in Edits : CommitEdit(w)
OutletDrop == NoChat /\ \E w \in Edits : Drop(w)
OutletBegin == NoChat /\ \E o \in OrderRequests, b \in Branches : Begin(o, b)
OutletLock == NoChat /\ \E o \in OrderRequests, b \in Branches : Lock(o, b)
OutletLockForWeb == NoChat /\ \E o \in OrderRequests : LockForWeb(o)
OutletPlace == NoChat /\ \E o \in OrderRequests : Place(o)
OutletMiss == NoChat /\ \E d \in Dashboards, b \in Watched : Miss(d, b)
OutletFill == NoChat /\ \E d \in Dashboards : Fill(d)
OutletExpire == NoChat /\ \E b \in Branches : Expire(b)

MCNext ==
  \/ ChatInsert \/ ChatCommit \/ ChatAbort \/ ChatOpen \/ ChatClose \/ ChatScrollBack
  \/ ChatFetch \/ ChatHeartbeat \/ ChatMarkRead \/ ChatPublish
  \/ OutletAsk \/ OutletSave \/ OutletCommit \/ OutletDrop \/ OutletBegin \/ OutletLock
  \/ OutletLockForWeb \/ OutletPlace \/ OutletMiss \/ OutletFill \/ OutletExpire

MCInit == ChatInit /\ OutletsInit

MCSpec ==
  /\ MCInit
  /\ [][MCNext]_<<chatVars, outletVars>>
  /\ ChatFairness /\ OutletsFairness
=============================================================================
