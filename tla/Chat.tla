-------------------------------- MODULE Chat --------------------------------
(***************************************************************************)
(* A conversation of a customer with an outlet.  Messages are written      *)
(* under the conversation's row lock and sent again until answered; apps   *)
(* load a page of the history and then ask for what came after the last    *)
(* message they show, when an event of the publisher task reaches them or  *)
(* a heartbeat tells a new revision.                                       *)
(*                                                                         *)
(* message[i]   the message with id i, by the key its sender gave it       *)
(*              (client_id), or NoKey; ids are drawn from a sequence       *)
(* thread       last_message_id and revision                               *)
(* read[a]      up to where a has read: customer_read_id, or the staff     *)
(*              member's ReadReceipt                                       *)
(* event[k]     the ChatEvent of message k; event[NoKey], of receipts      *)
(* handler[h]   a request that has the lock, and the id it has drawn       *)
(* app[a]       open; the ids it shows; whether it has to fetch; the       *)
(*              revision it knows                                          *)
(***************************************************************************)
EXTENDS Naturals, FiniteSetsExt

CONSTANTS
  Apps, Keys, Handlers,
  NoKey,
  MaxIds,            \* bound: ids drawn
  Page               \* messages in an answer (50 of a first page, 100 after that)

ASSUME ChatAssumption == NoKey \notin Keys /\ MaxIds \in Nat /\ Page \in Nat \ {0}

Ids == 1..MaxIds

VARIABLES message, thread, drawn, read, event, handler, app

rows == <<message, thread, read, event>>
chatVars == <<rows, drawn, handler, app>>

Thread == [last: 0..MaxIds, revision: Nat]
App == [open: BOOLEAN, shows: SUBSET Ids, stale: BOOLEAN, revision: Nat]
Closed == [open |-> FALSE, shows |-> {}, stale |-> FALSE, revision |-> 0]
NotSending == [key |-> NoKey, id |-> 0]

ChatTypeOK ==
  /\ message \in [Ids -> Keys \cup {NoKey}]
  /\ thread \in Thread /\ drawn \in 0..MaxIds
  /\ read \in [Apps -> 0..MaxIds]
  /\ event \in [Keys \cup {NoKey} -> {"NONE", "PENDING", "PUBLISHED"}]
  /\ handler \in [Handlers -> [key: Keys \cup {NoKey}, id: 0..MaxIds]]
  /\ app \in [Apps -> App]

ChatInit ==
  /\ message = [i \in Ids |-> NoKey]
  /\ thread = [last |-> 0, revision |-> 0] /\ drawn = 0
  /\ read = [a \in Apps |-> 0]
  /\ event = [k \in Keys \cup {NoKey} |-> "NONE"]
  /\ handler = [h \in Handlers |-> NotSending]
  /\ app = [a \in Apps |-> Closed]

-----------------------------------------------------------------------------
(* Messages are sent.                                                      *)

Fault_ThreadNotLocked(h) == handler[h] = NotSending

Lockable(h) == \A g \in Handlers : handler[g] = NotSending

\* A message sent again is found by its key.
Unsent(k) == \A i \in Ids : message[i] # k

\* send_message: lock the thread, look the key up, insert the message ...
Insert(h, k) ==
  /\ Lockable(h) /\ Unsent(k) /\ drawn < MaxIds
  /\ drawn' = drawn + 1
  /\ handler' = [handler EXCEPT ![h] = [key |-> k, id |-> drawn']]
  /\ UNCHANGED <<rows, app>>

\* ... move the thread on, write the event, commit.
Fault_RevisionKept(i) == [thread EXCEPT !.last = i]

Moved(i) == [last |-> i, revision |-> thread.revision + 1]

Commit(h) ==
  LET k == handler[h].key
      i == handler[h].id IN
  /\ k # NoKey /\ Unsent(k)
  /\ message' = [message EXCEPT ![i] = k]
  /\ thread' = Moved(i)
  /\ event' = [event EXCEPT ![k] = "PENDING"]
  /\ handler' = [handler EXCEPT ![h] = NotSending]
  /\ UNCHANGED <<drawn, read, app>>

\* The request fails: the drawn id is lost.
Abort(h) ==
  /\ handler[h] # NotSending
  /\ handler' = [handler EXCEPT ![h] = NotSending]
  /\ UNCHANGED <<rows, drawn, app>>

-----------------------------------------------------------------------------
(* Apps show and read them.                                                *)

Stored == {i \in Ids : message[i] # NoKey}
Cursor(a) == IF app[a].shows = {} THEN 0 ELSE Max(app[a].shows)

\* The first and the last Page of a set of ids.
Oldest(S) == {i \in S : Quantify(S, LAMBDA j : j < i) < Page}
Newest(S) == {i \in S : Quantify(S, LAMBDA j : j > i) < Page}

\* history without a cursor, and a socket.
Open(a) ==
  /\ ~app[a].open
  /\ app' = [app EXCEPT ![a] = [open |-> TRUE, shows |-> Newest(Stored), stale |-> FALSE,
                                revision |-> thread.revision]]
  /\ UNCHANGED <<rows, drawn, handler>>

Close(a) ==
  /\ app[a].open
  /\ app' = [app EXCEPT ![a] = Closed]
  /\ UNCHANGED <<rows, drawn, handler>>

\* history before the oldest message on the screen.
ScrollBack(a) ==
  LET older == {i \in Stored : \A j \in app[a].shows : i < j} IN
  /\ app[a].open /\ app[a].shows # {} /\ older # {}
  /\ app' = [app EXCEPT ![a].shows = @ \cup Newest(older)]
  /\ UNCHANGED <<rows, drawn, handler>>

\* history after the newest: has_newer asks for another page.
Fault_NewestFirst(S) == Newest(S)

NextPage(S) == Oldest(S)

Fetch(a) ==
  LET newer == {i \in Stored : i > Cursor(a)} IN
  /\ app[a].open /\ app[a].stale
  /\ app' = [app EXCEPT ![a].shows = @ \cup NextPage(newer),
                        ![a].stale = newer # NextPage(newer)]
  /\ UNCHANGED <<rows, drawn, handler>>

\* mark_read, of any message that was shown: the answers of a slow network may make it
\* an older one than was last read.
MarkRead(a, i) ==
  /\ app[a].open /\ i \in app[a].shows
  /\ \A h \in Handlers : handler[h] = NotSending
  /\ LET upto == IF i < thread.last THEN i ELSE thread.last IN
     /\ upto > read[a]
     /\ read' = [read EXCEPT ![a] = upto]
     /\ thread' = [thread EXCEPT !.revision = @ + 1]
     /\ event' = [event EXCEPT ![NoKey] = "PENDING"]
  /\ UNCHANGED <<message, drawn, handler, app>>

\* deliver_chat_events sends under the event's lock, to the sockets that are connected
\* and whose queue is not full; it may fail, or die before it records that it sent.
Publish(k, reached, recorded) ==
  /\ event[k] = "PENDING"
  /\ event' = IF recorded THEN [event EXCEPT ![k] = "PUBLISHED"] ELSE event
  /\ app' = [a \in Apps |-> IF a \in reached THEN [app[a] EXCEPT !.stale = TRUE] ELSE app[a]]
  /\ UNCHANGED <<message, thread, read, drawn, handler>>

\* ChatConsumer answers a ping with the revision; the app fetches when it is a new one.
Heartbeat(a) ==
  /\ app[a].open /\ app[a].revision # thread.revision
  /\ app' = [app EXCEPT ![a].revision = thread.revision, ![a].stale = TRUE]
  /\ UNCHANGED <<rows, drawn, handler>>

-----------------------------------------------------------------------------

SendStep ==
  \E h \in Handlers : Commit(h) \/ Abort(h) \/ \E k \in Keys : Insert(h, k)

AppStep(a) ==
  \/ Open(a) \/ Close(a) \/ ScrollBack(a) \/ Fetch(a) \/ Heartbeat(a)
  \/ \E i \in Ids : MarkRead(a, i)

ChatNext ==
  \/ SendStep
  \/ \E a \in Apps : AppStep(a)
  \/ \E k \in DOMAIN event, reached \in SUBSET {a \in Apps : app[a].open}, recorded \in BOOLEAN :
       Publish(k, reached, recorded)

\* An open app pings and fetches; nothing is asked of the publisher, whose event may
\* reach nobody.
ChatFairness == \A a \in Apps : WF_chatVars(Heartbeat(a)) /\ WF_chatVars(Fetch(a))

ChatSpec == ChatInit /\ [][ChatNext]_chatVars /\ ChatFairness

-----------------------------------------------------------------------------
(* Properties.                                                             *)

\* An app shows every message between the first and the last it shows, however sends,
\* pages and events interleave, and no message twice; what it has not been shown is
\* above its cursor.  It rests on ids being committed in their order (send_message,
\* history).
NoGap ==
  /\ \A a \in Apps : \A i \in Stored :
       (\E j, m \in app[a].shows : j < i /\ i < m) => i \in app[a].shows
  /\ \A i, j \in Stored : i # j => message[i] # message[j]

\* A message is new to everybody when it is committed: no reader's cursor is beyond it,
\* so that it counts as unread, and no app's, so that asking for what came after finds
\* it; and the conversation's time, by which the inbox sorts, passes that of every
\* message before it (send_message, mark_read).
NewIsUnread ==
  [][\A i \in Ids : message[i] = NoKey /\ message'[i] # NoKey =>
       /\ \A a \in Apps : i > read[a] /\ i > Cursor(a)
       /\ \A j \in Stored : thread'.last > j]_chatVars

\* Messages come in one order for everybody: no app has a gap, and a new message is
\* beyond what anybody has read or been shown.
OneOrder == []NoGap /\ NewIsUnread

\* A message comes on the screen of every app that stays open, even if the event about
\* it is lost (revision, history).
MessagesReach ==
  \A a \in Apps, i \in Ids :
    (app[a].open /\ message[i] # NoKey /\ i > Cursor(a)) ~> (i \in app[a].shows \/ ~app[a].open)
=============================================================================
