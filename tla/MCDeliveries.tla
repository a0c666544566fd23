---------------------------- MODULE MCDeliveries ----------------------------
(* What waits to be sent by the workers, and what an outlet learns of its   *)
(* website's visitors.  The two share no state here, so a behaviour is of   *)
(* the one or of the other.                                                 *)
EXTENDS Deliveries, Journeys

NoJourneys == JourneysInit /\ provider = "posthog" /\ UNCHANGED journeyVars
NoDeliveries == DeliveriesInit /\ (\A i \in Rows : row[i].kind = "sms") /\ UNCHANGED deliveryVars

RowEnqueue == NoJourneys /\ \E i \in Rows : Enqueue(i)
RowComesDue == NoJourneys /\ \E i \in Rows : ComesDue(i)
RowGrowsOld == NoJourneys /\ \E i \in Rows : GrowsOld(i)
RowPrune == NoJourneys /\ \E i \in Rows : Prune(i)
RowCodeUsed == NoJourneys /\ \E i \in Rows : CodeUsed(i)
RowOrderDeleted == NoJourneys /\ \E i \in Rows : OrderDeleted(i)
RowReopen == NoJourneys /\ \E i \in Rows : Reopen(i)
RowSetUsable == NoJourneys /\ \E i \in Rows, may \in BOOLEAN : SetUsable(i, may)
RunSweep == NoJourneys /\ \E k \in Runs, q \in Kinds : Sweep(k, q)
RunList == NoJourneys /\ \E k \in Runs : List(k)
RunSkip == NoJourneys /\ \E k \in Runs, i \in Rows : Skip(k, i)
RunGiveUp == NoJourneys /\ \E k \in Runs, i \in Rows : GiveUp(k, i)
RunTake == NoJourneys /\ \E k \in Runs, i \in Rows : Take(k, i)
RunHandOver == NoJourneys /\ \E k \in Runs : HandOver(k)
RunRecord ==
  NoJourneys /\ \E k \in Runs, answer \in {"accepted", "refused", "error"} : Record(k, answer)
RunEnd == NoJourneys /\ \E k \in Runs : End(k)
RunKilled == NoJourneys /\ \E k \in Runs : Killed(k)

SiteIngest ==
  NoDeliveries /\ \E v \in Visitors, s \in Sessions, E \in Batches : Ingest(v, s, E)
SiteCountVisit == NoDeliveries /\ \E i \in Moments : CountVisit(i)
SiteCheckout ==
  NoDeliveries /\ \E o \in Orders, v \in Visitors, s \in Sessions, m \in Moments :
                    CheckOut(o, v, s, m)
SiteCommand ==
  NoDeliveries /\ \E o \in Orders, status \in {"PENDING", "CONFIRMED", "CANCELLED"},
                     paid \in BOOLEAN : Command(o, [status |-> status, paid |-> paid])
SiteWithdraw == NoDeliveries /\ \E o \in Orders : Withdraw(o)
SiteDelete == NoDeliveries /\ \E o \in Orders : Delete(o)
SiteSwitch == NoDeliveries /\ Switch

MCNext ==
  \/ RowEnqueue \/ RowComesDue \/ RowGrowsOld \/ RowPrune \/ RowCodeUsed \/ RowOrderDeleted
  \/ RowReopen \/ RowSetUsable
  \/ RunSweep \/ RunList \/ RunSkip \/ RunGiveUp \/ RunTake \/ RunHandOver \/ RunRecord
  \/ RunEnd \/ RunKilled
  \/ SiteIngest \/ SiteCountVisit \/ SiteCheckout \/ SiteCommand \/ SiteWithdraw \/ SiteDelete
  \/ SiteSwitch

MCInit == DeliveriesInit /\ JourneysInit

MCSpec ==
  /\ MCInit
  /\ [][MCNext]_<<deliveryVars, journeyVars>>
  /\ Fairness
=============================================================================
