----------------------------- MODULE LiveMonitor ------------------------------
(***************************************************************************)
(* What an operator watching live requests is told about a search          *)
(* (services/dispatch_monitor_service.ts, dispatch_event_projection.ts,    *)
(* dispatch_evidence.ts, dispatch_monitor_query_service.ts, and the page   *)
(* of apps/keke_admin/live_requests.js).                                   *)
(*                                                                         *)
(* A dispatch event counts in the run's ledger at once, is pushed to the   *)
(* page as a frame, and is saved in the trail some time later, or never.   *)
(* The page replaces its rows by a sync, read from the ledger while the    *)
(* run lives and from the trail afterwards, and in between it applies the  *)
(* frames.  One driver per ride stands for the candidates: the counts of   *)
(* drivers add up what is seen here of one.  A frame that waits for its    *)
(* ride's freshness is one that is late: counters commute.  An accepted    *)
(* ride stays one until its passenger cancels it; of the trip no more is   *)
(* followed.                                                               *)
(***************************************************************************)
EXTENDS Naturals, Sequences

CONSTANTS
    Monitored,      \* rides on the page
    MaxOffers,      \* offers a ride makes to its driver (one per round)
    MaxSyncs,       \* bound: syncs the page asks for
    MaxFrames       \* bound: frames on their way

ASSUME MonitorAssumption ==
    MaxOffers \in Nat \ {0} /\ MaxSyncs \in Nat /\ MaxFrames \in Nat

VARIABLES
    sought,     \* sought[r]: the ride row, its run and its driver's offer
    happened,   \* happened[r][t]: events of type t so far; the ledger
    saved,      \* saved[r][t]: those with a dispatch_event row
    frames,     \* frames the admin socket has not delivered yet
    live        \* the page: its rows, its sync, whether it is on screen

monitorVars == <<sought, happened, saved, frames, live>>

-------------------------------------------------------------------------------
(* Types *)

\* DispatchEventType, for the types that an answer here depends on.
EventType == {"notification_queued", "socket_offer_emitted",
              "fcm_accepted_by_provider", "offer_delivery_failed",
              "device_offer_ack", "driver_rejected", "offer_expired",
              "driver_accepted",
              "ride_cancelled", "dispatch_failed"}

RideStatus == {"none", "searching", "accepted", "canceled", "failed"}

\* offer: of the current round.  settling: the accept has taken the row and not
\* yet told the run.  cancelling: a cancel has read the row and not yet written.
\* controlled: a dispatcher holds the ride.  taken: a driver took it (history).
Sought == [status : RideStatus, run : BOOLEAN, round : 0..MaxOffers,
           offer : {"none", "queued", "open", "acked", "over"},
           settling : BOOLEAN, cancelling : BOOLEAN, controlled : BOOLEAN,
           taken : BOOLEAN]

\* A row of lrIndex; a count may run ahead of what happened.
RideLine == [status : RideStatus, notified : 0..(3 * MaxOffers),
             acked : 0..(2 * MaxOffers), rejected : 0..(2 * MaxOffers),
             expired : 0..(2 * MaxOffers), undelivered : 0..(2 * MaxOffers)]
NoLine == [status |-> "none"]

\* A row of S may be wrong: that there is one is all that is followed of it.
AnyLine == [status |-> "none", notified |-> 0, acked |-> 0, rejected |-> 0,
            expired |-> 0, undelivered |-> 0]
Doubted(rows, S) ==
    [r \in Monitored |-> IF r \in S /\ rows[r] # NoLine THEN AnyLine ELSE rows[r]]

Rows == [Monitored -> RideLine \cup {NoLine}]

NoSync == [at |-> "none"]
Frame == [ride : Monitored, says : EventType \cup RideStatus]

MonitorTypeOK ==
    /\ sought \in [Monitored -> Sought]
    /\ happened \in [Monitored -> [EventType -> 0..MaxOffers]]
    /\ saved \in [Monitored -> [EventType -> 0..MaxOffers]]
    /\ \A r \in Monitored, t \in EventType : saved[r][t] <= happened[r][t]
    /\ \A i \in DOMAIN frames : frames[i] \in Frame
    /\ live.rows \in Rows
    /\ live.sync.at \in {"none", "asked", "found", "counted", "answered"}
    /\ live.sync.at = "answered" => live.sync.rows \in Rows
    /\ live.looking \in BOOLEAN
    /\ live.syncs \in 0..MaxSyncs
    /\ live.slipped \subseteq Monitored
    /\ live.leaving \subseteq Monitored

MonitorInit ==
    /\ sought = [r \in Monitored |->
          [status |-> "none", run |-> FALSE, round |-> 0, offer |-> "none",
           settling |-> FALSE, cancelling |-> FALSE, controlled |-> FALSE,
           taken |-> FALSE]]
    /\ happened = [r \in Monitored |-> [t \in EventType |-> 0]]
    /\ saved = happened
    /\ frames = << >>
    /\ live = [rows |-> [r \in Monitored |-> NoLine], sync |-> NoSync,
               looking |-> FALSE, syncs |-> 0, slipped |-> {}, leaving |-> {}]

-------------------------------------------------------------------------------
(* Recording *)

FrameSays(r, t) == [ride |-> r, says |-> t]

\* record: the ledger has counted, the frames are pushed first, the rows are
\* saved in their own time (SaveEvents).  A
\* frame no row takes anything from is left out.
Recorded(r, T, more) ==
    /\ happened' = [happened EXCEPT ![r] =
          [t \in EventType |-> IF \E i \in DOMAIN T : T[i] = t THEN @[t] + 1 ELSE @[t]]]
    /\ frames' = frames
          \o (IF T = <<"notification_queued">> THEN << >>
              ELSE [i \in DOMAIN T |-> FrameSays(r, T[i])]) \o more
    /\ Len(frames') <= MaxFrames

\* Mutant: an offer handed to the transport counts as one that was delivered.
QueuedCountsAsSent(delivery) == <<"socket_offer_emitted">>

\* projectDispatchEvent, offer_sent and offer_delivery_failed: the transports
\* that carried the offer, each a fact of its own; or the failure.
projectDelivery(delivery) ==
    IF delivery = {} THEN <<"offer_delivery_failed">>
    ELSE IF delivery = {"socket_offer_emitted", "fcm_accepted_by_provider"}
    THEN <<"socket_offer_emitted", "fcm_accepted_by_provider">>
    ELSE <<CHOOSE t \in delivery : TRUE>>

\* Mutant: a run that stopped because its ride was taken projects a failure.
TakenIsAFailure(stopReason) ==
    IF stopReason = "cancelled" THEN << >> ELSE <<"dispatch_failed">>

\* projectDispatchEvent, dispatch_finished: a run that stopped because the
\* ride was taken has no outcome code, and a cancelled one records none.
projectFinished(stopReason) ==
    IF stopReason \in {"accepted", "assigned_elsewhere", "cancelled"} THEN << >>
    ELSE <<"dispatch_failed">>

\* The rows awaited so far reach the database; in between the trail is that
\* of an earlier moment.
SaveEvents(r) ==
    /\ saved[r] # happened[r]
    /\ saved' = [saved EXCEPT ![r] = happened[r]]
    /\ UNCHANGED <<sought, happened, frames, live>>

-------------------------------------------------------------------------------
(* The search *)

\* ride:request: the row, the status frame, the run (ride_created makes the
\* page sync: NewRideSyncs).
RiderRequests(r) ==
    /\ sought[r].status = "none"
    /\ sought' = [sought EXCEPT ![r].status = "searching", ![r].run = TRUE]
    /\ frames' = Append(frames, FrameSays(r, "searching"))
    /\ Len(frames') <= MaxFrames
    /\ UNCHANGED <<happened, saved, live>>

\* A round finds the driver, reserves it and hands the offer to the transport.
OfferRound(r) ==
    /\ sought[r].run /\ ~sought[r].controlled /\ sought[r].status = "searching"
    /\ sought[r].offer \in {"none", "over"} /\ sought[r].round < MaxOffers
    /\ sought' = [sought EXCEPT ![r].offer = "queued", ![r].round = @ + 1]
    /\ Recorded(r, <<"notification_queued">>, << >>)
    /\ UNCHANGED <<saved, live>>

\* sendOffer returns.
DeliverOffer(r) ==
    /\ sought[r].run /\ sought[r].offer = "queued"
    /\ \E S \in SUBSET {"socket_offer_emitted", "fcm_accepted_by_provider"} :
          /\ sought' = [sought EXCEPT ![r].offer = IF S = {} THEN "over" ELSE "open"]
          /\ Recorded(r, projectDelivery(S), << >>)
    /\ UNCHANGED <<saved, live>>

Offered(r) == sought[r].offer \in {"open", "acked"}

\* ride:offer_ack, once per offer.
Acknowledge(r) ==
    /\ sought[r].run /\ sought[r].offer = "open" /\ happened[r]["device_offer_ack"] = 0
    /\ sought' = [sought EXCEPT ![r].offer = "acked"]
    /\ Recorded(r, <<"device_offer_ack">>, << >>)
    /\ UNCHANGED <<saved, live>>

\* ride:reject; the driver is not offered this ride again.
Decline(r) ==
    /\ sought[r].run /\ Offered(r)
    /\ sought' = [sought EXCEPT ![r].offer = "over", ![r].round = MaxOffers]
    /\ Recorded(r, <<"driver_rejected">>, << >>)
    /\ UNCHANGED <<saved, live>>

\* The offer window ends on an open offer.
OfferExpires(r) ==
    /\ sought[r].run /\ Offered(r) /\ happened[r]["offer_expired"] = 0
    /\ sought' = [sought EXCEPT ![r].offer = "over"]
    /\ Recorded(r, <<"offer_expired">>, << >>)
    /\ UNCHANGED <<saved, live>>

\* ride:accept: the UPDATE ...
TakeRow(r) ==
    /\ sought[r].status = "searching" /\ Offered(r)
    /\ sought' = [sought EXCEPT ![r].status = "accepted", ![r].settling = TRUE,
                                ![r].taken = TRUE]
    /\ UNCHANGED <<happened, saved, frames, live>>

\* The page may have r wrong, in its rows and in an answer under way.
Slipped(r) ==
    [live EXCEPT !.slipped = @ \cup {r},
                 !.sync = IF live.sync.at = "answered"
                          THEN [live.sync EXCEPT !.apart = @ \cup {r}] ELSE @]

\* ... and, some awaits later, the run, the trail and the page are told, even of
\* a ride that was cancelled meanwhile: its row comes back to the page.
SettleAccept(r) ==
    /\ sought[r].settling
    /\ sought' = [sought EXCEPT ![r].settling = FALSE, ![r].run = FALSE,
                                ![r].offer = "over"]
    /\ Recorded(r, <<"driver_accepted">>, <<FrameSays(r, "accepted")>>)
    /\ live' = IF sought[r].status = "accepted" THEN live ELSE Slipped(r)
    /\ UNCHANGED saved

\* ride:cancel finds the ride searching, or accepted ...
CancelReads(r) ==
    /\ sought[r].status \in {"searching", "accepted"} /\ ~sought[r].cancelling
    /\ sought' = [sought EXCEPT ![r].cancelling = TRUE]
    /\ UNCHANGED <<happened, saved, frames, live>>

\* ... and writes the row by its key, whatever became of it: row, abort, event
\* and status frame; the run, aborted, records nothing of its own.
CancelRide(r) ==
    /\ sought[r].cancelling
    /\ sought' = [sought EXCEPT ![r].status = "canceled", ![r].run = FALSE,
                                ![r].cancelling = FALSE]
    /\ Recorded(r, <<"ride_cancelled">>, <<FrameSays(r, "canceled")>>)
    /\ UNCHANGED <<saved, live>>

\* The run ends of itself: after its last round, or at a gate that finds the
\* ride taken or under a dispatcher's control.  The row it fails, unless it
\* was taken meanwhile or a dispatcher holds it.
RunStops(r) ==
    /\ sought[r].run
    /\ \/ sought[r].offer \in {"none", "over"}
       \/ sought[r].controlled /\ sought[r].offer # "queued"
    /\ \E reason \in {"rounds_exhausted", "assigned_elsewhere", "operations_control"} :
          /\ reason = "assigned_elsewhere" => sought[r].status = "accepted"
          /\ reason = "operations_control" => sought[r].controlled
          /\ LET fails == /\ reason = "rounds_exhausted"
                          /\ sought[r].status = "searching" /\ ~sought[r].controlled
             IN  /\ sought' = [sought EXCEPT ![r].run = FALSE,
                                  ![r].status = IF fails THEN "failed" ELSE @]
                 /\ Recorded(r, projectFinished(reason),
                             IF fails THEN <<FrameSays(r, "failed")>> ELSE << >>)
    /\ UNCHANGED <<saved, live>>

\* A dispatcher takes control of a searching ride.
Control(r) ==
    /\ sought[r].status = "searching" /\ ~sought[r].controlled
    /\ sought' = [sought EXCEPT ![r].controlled = TRUE]
    /\ UNCHANGED <<happened, saved, frames, live>>

\* The process restarts: runs, frames and rows being saved are gone; the page
\* reconnects, and syncs if it is on screen (Sync).
MonitorRestart ==
    /\ \E r \in Monitored : sought[r].run
    /\ sought' = [r \in Monitored |-> [sought[r] EXCEPT !.run = FALSE, !.settling = FALSE,
                                                        !.cancelling = FALSE]]
    /\ frames' = << >>
    /\ live' = [live EXCEPT !.slipped = Monitored, !.sync = NoSync]
    /\ UNCHANGED <<happened, saved>>

-------------------------------------------------------------------------------
(* The server's answers *)

\* resolveDeliveryState: the strongest evidence the trail holds.
resolveDeliveryState(trail) ==
    IF trail["device_offer_ack"] > 0 THEN "acknowledged"
    ELSE IF trail["fcm_accepted_by_provider"] > 0 THEN "provider_accepted"
    ELSE IF trail["socket_offer_emitted"] > 0 THEN "socket_emitted"
    ELSE IF trail["offer_delivery_failed"] > 0 THEN "failed" ELSE "unknown"

\* Mutant: what the driver said outranks that the driver accepted.
RejectedFirst(trail, cancelled) ==
    IF trail["offer_expired"] > 0 THEN "expired"
    ELSE IF trail["driver_accepted"] > 0 THEN "accepted"
    ELSE IF trail["driver_rejected"] > 0 THEN "rejected"
    ELSE "awaiting_response"

\* resolveCandidateOutcome.
resolveCandidateOutcome(trail, cancelled) ==
    IF trail["driver_accepted"] > 0 THEN "accepted"
    ELSE IF trail["driver_rejected"] > 0 THEN "rejected"
    ELSE IF trail["offer_expired"] > 0 THEN "expired"
    ELSE IF trail["offer_delivery_failed"] > 0 THEN "delivery_failed"
    ELSE IF trail["notification_queued"] > 0 /\ cancelled
    THEN "cancelled_before_response" ELSE "awaiting_response"

\* requestDetail: what became of the candidate, as the drawer shows it.
requestDetail(r) ==
    [outcome |-> resolveCandidateOutcome(saved[r], sought[r].status = "canceled"),
     delivery |-> resolveDeliveryState(saved[r])]

Least(a, b) == IF a < b THEN a ELSE b
Most(a, b) == IF a < b THEN b ELSE a

\* rollupsFor: drivers are counted once, answers each time; the run's ledger,
\* which counts a driver's acknowledgement and expiry once, wins while it lives.
rollupsFor(r, status, trail) ==
    LET e == IF sought[r].run THEN happened[r] ELSE trail
        offersSent == e["notification_queued"] - e["offer_delivery_failed"]
                         - (IF sought[r].offer = "queued" THEN 1 ELSE 0)
    IN  [status |-> status,
         notified |-> IF sought[r].run THEN offersSent
                      ELSE Least(1, Most(e["socket_offer_emitted"],
                                         e["fcm_accepted_by_provider"])),
         acked |-> Least(1, e["device_offer_ack"]),
         rejected |-> e["driver_rejected"], expired |-> e["offer_expired"],
         undelivered |-> e["offer_delivery_failed"]]

\* liveRequests: the rides that were found live, each with its rollup.
liveRequests(found, trail) ==
    [r \in Monitored |-> IF found[r] \in {"searching", "accepted"}
                         THEN rollupsFor(r, found[r], trail[r]) ELSE NoLine]

-------------------------------------------------------------------------------
(* The page *)

OnItsWay(r) == \E i \in DOMAIN frames : frames[i].ride = r

\* Entering the section, reconnecting, the reconcile timer: fetchLiveRequests.
Sync ==
    /\ live.sync = NoSync /\ live.syncs < MaxSyncs
    /\ live' = [live EXCEPT !.looking = TRUE, !.syncs = @ + 1,
                            !.sync = [at |-> "asked"]]
    /\ UNCHANGED <<sought, happened, saved, frames>>

\* The answer takes three reads: of the rides' rows, ...
SyncFinds ==
    /\ live.sync.at = "asked"
    /\ live' = [live EXCEPT !.sync =
          [at |-> "found", found |-> [r \in Monitored |-> sought[r].status]]]
    /\ UNCHANGED <<sought, happened, saved, frames>>

\* ... of the trail ...
SyncCounts ==
    /\ live.sync.at = "found"
    /\ live' = [live EXCEPT !.sync =
          [at |-> "counted", found |-> live.sync.found, trail |-> saved]]
    /\ UNCHANGED <<sought, happened, saved, frames>>

\* What was read still holds of r, the ledger tells what the trail does or is
\* what is read, and the page is owed nothing of it.
AllTold(r) ==
    /\ live.sync.found[r] = sought[r].status /\ ~sought[r].settling
    /\ sought[r].run \/ live.sync.trail[r] = happened[r]
    /\ ~OnItsWay(r)

\* ... and of the ledger; it counts what is still on its way as well.
SyncAnswers ==
    /\ live.sync.at = "counted"
    /\ LET apart == {r \in Monitored : ~AllTold(r)}
           rows == Doubted(liveRequests(live.sync.found, live.sync.trail), apart)
       IN  live' = [live EXCEPT !.sync =
                      [at |-> "answered", rows |-> rows, apart |-> apart]]
    /\ UNCHANGED <<sought, happened, saved, frames>>

\* fetchLiveRequests replaces the index.
SyncApplies ==
    /\ live.sync.at = "answered"
    /\ live' = [live EXCEPT !.rows = live.sync.rows, !.slipped = live.sync.apart,
                            !.sync = NoSync]
    /\ UNCHANGED <<sought, happened, saved, frames>>

\* It fails: the last known rows stay.
SyncFails ==
    /\ live.sync # NoSync
    /\ live' = [live EXCEPT !.sync = NoSync]
    /\ UNCHANGED <<sought, happened, saved, frames>>

\* Another section: frames are ignored from here on, and the rows grow old.
LeaveSection ==
    /\ live.looking
    /\ live' = [live EXCEPT !.looking = FALSE, !.rows = Doubted(@, Monitored),
                            !.slipped = Monitored]
    /\ UNCHANGED <<sought, happened, saved, frames>>

\* Mutant: the acknowledgement is taken for an answer.
AckIsAnAnswer(row, says) ==
    CASE says \in {"socket_offer_emitted", "fcm_accepted_by_provider"} ->
            [row EXCEPT !.notified = @ + 1]
      [] says = "driver_rejected" -> [row EXCEPT !.rejected = @ + 1]
      [] says \in {"offer_expired", "device_offer_ack"} -> [row EXCEPT !.expired = @ + 1]
      [] says = "offer_delivery_failed" -> [row EXCEPT !.undelivered = @ + 1]
      [] says = "dispatch_failed" -> [row EXCEPT !.status = "failed"]
      [] says = "ride_cancelled" -> [row EXCEPT !.status = "canceled"]
      [] says = "driver_accepted" -> [row EXCEPT !.status = "accepted"]
      [] OTHER -> row

\* applyDispatchEvent, on a row the page holds.
applyDispatchEvent(row, says) ==
    CASE says \in {"socket_offer_emitted", "fcm_accepted_by_provider"} ->
            [row EXCEPT !.notified = @ + 1]
      [] says = "device_offer_ack" -> [row EXCEPT !.acked = @ + 1]
      [] says = "driver_rejected" -> [row EXCEPT !.rejected = @ + 1]
      [] says = "offer_expired" -> [row EXCEPT !.expired = @ + 1]
      [] says = "offer_delivery_failed" -> [row EXCEPT !.undelivered = @ + 1]
      [] says = "dispatch_failed" -> [row EXCEPT !.status = "failed"]
      [] says = "ride_cancelled" -> [row EXCEPT !.status = "canceled"]
      [] says = "driver_accepted" -> [row EXCEPT !.status = "accepted"]
      [] OTHER -> row

\* applyRideStatusUpdate, on a row the page holds.
applyRideStatusUpdate(row, says) ==
    IF says \in RideStatus THEN [row EXCEPT !.status = says] ELSE row

\* A frame arrives: ignored off screen or without a row, else applied.  A row
\* that ends is taken down six seconds later.
ReceiveFrame ==
    /\ frames # << >>
    /\ frames' = Tail(frames)
    /\ LET f == Head(frames)  row == live.rows[f.ride]
           fresh == applyRideStatusUpdate(applyDispatchEvent(row, f.says), f.says)
       IN  live' = [live EXCEPT
              !.rows = IF live.looking /\ row # NoLine
                       THEN [@ EXCEPT ![f.ride] = fresh] ELSE @,
              !.leaving = IF /\ live.looking /\ row # NoLine
                             /\ f.says \in {"canceled", "failed"}
                          THEN @ \cup {f.ride} ELSE @,
              !.slipped = IF live.sync.at = "answered" \/ ~live.looking
                          THEN @ \cup {f.ride} ELSE @,
              !.sync = IF live.sync.at = "answered"
                       THEN [live.sync EXCEPT !.apart = @ \cup {f.ride}] ELSE @]
    /\ UNCHANGED <<sought, happened, saved>>

\* The six-second timer removes whatever row there is then.
TakeRowDown(r) ==
    /\ r \in live.leaving
    /\ live' = [live EXCEPT !.rows[r] = NoLine, !.leaving = @ \ {r}]
    /\ UNCHANGED <<sought, happened, saved, frames>>

-------------------------------------------------------------------------------

SearchGoesOn(r) ==
    \/ RiderRequests(r) \/ OfferRound(r) \/ DeliverOffer(r) \/ Acknowledge(r) \/ Decline(r)
    \/ OfferExpires(r) \/ TakeRow(r) \/ SettleAccept(r) \/ CancelReads(r)
    \/ CancelRide(r) \/ RunStops(r) \/ Control(r)

PageGoesOn ==
    \/ Sync \/ SyncFinds \/ SyncCounts \/ SyncAnswers \/ SyncApplies \/ SyncFails \/ LeaveSection
    \/ ReceiveFrame \/ \E r \in Monitored : TakeRowDown(r)

MonitorNext ==
    \/ \E r \in Monitored :
          SearchGoesOn(r) \/ SaveEvents(r)
    \/ MonitorRestart
    \/ PageGoesOn

MonitorSpec == MonitorInit /\ [][MonitorNext]_monitorVars

-------------------------------------------------------------------------------
(* Properties *)

\* A row the page shows when nothing is on its way to it is true of the ride:
\* its status, its answers, and whether an offer left the server at all.  The
\* rows it may have wrong are those whose event and sync overtook each other,
\* whose events are not all saved or were lost, those of a ride cancelled while
\* its acceptance was settled, which the acceptance brings back, and those of a
\* ride that a dispatcher controls, whose stopped run is recorded as a failed
\* dispatch (live_requests.js:247-304).
QuietRowIsTrue ==
    \A r \in Monitored :
        LET row == live.rows[r]  h == happened[r] IN
        /\ live.looking /\ live.sync = NoSync /\ ~OnItsWay(r)
        /\ row # NoLine /\ r \notin live.slipped
        /\ ~sought[r].controlled /\ ~sought[r].settling
        => /\ row.status = sought[r].status
           /\ row.acked = h["device_offer_ack"]
           /\ row.rejected = h["driver_rejected"]
           /\ row.expired = h["offer_expired"]
           /\ row.undelivered = h["offer_delivery_failed"]
           /\ (row.notified > 0) =
                 (h["socket_offer_emitted"] + h["fcm_accepted_by_provider"] > 0)

\* Once its events are saved, the detail says of the driver what happened: an
\* acceptance exactly when the driver took the ride and was told so, even if the
\* ride was cancelled afterwards, and a cancellation that came first only if it
\* did (dispatch_monitor_query_service.ts:152-200).
DetailIsTrue ==
    \A r \in Monitored :
        saved[r] = happened[r] /\ sought[r].round > 0 =>
            /\ sought[r].taken /\ happened[r]["driver_accepted"] > 0
                  => requestDetail(r).outcome = "accepted"
            /\ requestDetail(r).outcome = "accepted"
                  => sought[r].taken /\ sought[r].status \in {"accepted", "canceled"}
            /\ requestDetail(r).outcome = "cancelled_before_response"
                  => /\ sought[r].status = "canceled"
                     /\ happened[r]["driver_rejected"] = 0

\* What an operator is told of a quiet ride is what happened.
MonitorTellsTheTruth == QuietRowIsTrue /\ DetailIsTrue
===============================================================================
