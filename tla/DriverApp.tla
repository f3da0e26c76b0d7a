------------------------------- MODULE DriverApp --------------------------------
(***************************************************************************)
(* One driver's phone (apps/keke_driver: driver_controller.dart, active_   *)
(* ride_recovery.dart) and the rides the server has for them.              *)
(*                                                                         *)
(* As on the passenger's phone, socket events and the answers of           *)
(* /rides/active/driver reach the screen over two channels.  Here an offer *)
(* counts down, one recovery runs at a time and a second one is dropped,   *)
(* and a watchdog asks again every ten seconds while a ride is shown.  The *)
(* server's side is what the phone sees of it.  Chat, maps, prompts and    *)
(* wording are left out.                                                   *)
(***************************************************************************)
EXTENDS Naturals, Sequences, FiniteSets

CONSTANTS
    Jobs,        \* the rides this driver may get
    NoJob,       \* the phone shows no ride
    MaxSignals   \* bound: events under way to the phone

ASSUME DriverAppAssumption == NoJob \notin Jobs /\ MaxSignals \in Nat \ {0}

VARIABLES
    board,      \* board[j]: the ride on the server, as far as this driver goes
    signals,    \* events sent to the phone and not yet handled
    tap,        \* what the driver tapped and the server has not handled
    phone,      \* operationStatus, tripStep and activeRequest
    ticking,    \* _countdownTimer runs
    watchdog,   \* _watchdogTimer runs
    recovery,     \* the one recovery: _recoveryInFlight and what was read
    misled      \* history: the phone has reason to be wrong (see OnTheRide)

driverVars == <<board, signals, tap, phone, ticking, watchdog, recovery, misled>>

-------------------------------------------------------------------------------
(* Types *)

Held == {"accepted", "arrived", "in_progress"}
OnTrip == {"accepted", "arrived", "started"}
TripStep == OnTrip \cup {"none", "completed"}
Signals == {"request", "assigned", "confirmed", "cancelled", "debt", "expired",
            "finished", "held"}
Taps == {"accept", "reject", "arrive", "start", "complete"}
NoTap == <<"nothing", NoJob>>

\* behind: events sent before the row was read and not yet handled; overtaken:
\* one sent after it was handled before this answer, or the ride ended untold.
NotRecovering == [at |-> "off", job |-> NoJob, step |-> "none", behind |-> 0,
                  overtaken |-> FALSE]
Recovering == [NotRecovering EXCEPT !.at = "asked"]

DriverAppTypeOK ==
    /\ board \in [Jobs -> Held \cup {"none", "offered", "over", "untold"}]
    /\ signals \in Seq([event : Signals, job : Jobs]) /\ Len(signals) <= MaxSignals
    /\ tap \in (Taps \X Jobs) \cup {NoTap}
    /\ phone \in [op : {"offline", "available", "busy"}, step : TripStep,
                  job : Jobs \cup {NoJob}]
    /\ recovery \in [at : {"off", "asked", "answered"}, job : Jobs \cup {NoJob},
                   step : TripStep, behind : 0..MaxSignals, overtaken : BOOLEAN]
    /\ {ticking, watchdog, misled} \subseteq BOOLEAN

\* The constructor: recovery and the profile are asked for side by side.
Started ==
    [op |-> "offline", step |-> "none", job |-> NoJob]

DriverAppInit ==
    /\ board = [j \in Jobs |-> "none"]
    /\ signals = <<>> /\ tap = NoTap
    /\ phone = Started /\ ticking = FALSE /\ watchdog = FALSE
    /\ recovery = Recovering /\ misled = TRUE

-------------------------------------------------------------------------------
(* Helpers *)

HeldJobs == {j \in Jobs : board[j] \in Held}

tripStepFor(status) == IF status = "in_progress" THEN "started" ELSE status

Signal(event, j) ==
    /\ Len(signals) < MaxSignals
    /\ signals' = Append(signals, [event |-> event, job |-> j])

Behind(n) ==
    IF recovery.at # "answered" THEN recovery
    ELSE IF recovery.behind >= n THEN [recovery EXCEPT !.behind = @ - n]
    ELSE [recovery EXCEPT !.behind = 0, !.overtaken = TRUE]

\* recoverActiveRide: a call while one is in flight returns at once.
AskFrom(a) == IF a.at = "off" THEN Recovering ELSE a

Free == [op |-> "available", step |-> "none", job |-> NoJob]

ServerOnly == UNCHANGED <<phone, ticking, watchdog, recovery, misled>>
TapLeft == tap' = NoTap

-------------------------------------------------------------------------------
(* The server *)

\* ride:request to this driver, whom no other offer holds, and again to one who
\* joins with an offer open.
Offer(j) ==
    /\ board[j] \in {"none", "offered"} /\ HeldJobs = {}
    /\ \A k \in Jobs \ {j} : board[k] # "offered"
    /\ board' = [board EXCEPT ![j] = "offered"]
    /\ Signal("request", j)
    /\ UNCHANGED tap /\ ServerOnly

\* The ride goes to another driver, who tells nobody, or the passenger cancels
\* it and the drivers that were asked are dismissed.
OfferEnds(j) ==
    /\ board[j] = "offered"
    /\ board' = [board EXCEPT ![j] = "over"]
    /\ UNCHANGED signals \/ Signal("cancelled", j)
    /\ UNCHANGED tap /\ ServerOnly

\* A dispatcher gives the driver the ride: ride:confirmed and the assignment.
OperationsAssigns(j) ==
    /\ board[j] \in {"none", "offered"} /\ HeldJobs = {}
    /\ board' = [board EXCEPT ![j] = "accepted"]
    /\ Signal("assigned", j)
    /\ UNCHANGED tap /\ ServerOnly

\* Cancelled, swept or released to another driver; or, on the way, ended early
\* by the passenger's consent, paid or held for review.
JobEnds(j) ==
    /\ board[j] \in Held
    /\ \/ /\ board[j] # "in_progress" /\ Signal("cancelled", j)
          /\ \E to \in {"over", "none"} : board' = [board EXCEPT ![j] = to]
       \/ /\ board[j] = "in_progress" /\ \E e \in {"finished", "held"} : Signal(e, j)
          /\ board' = [board EXCEPT ![j] = "over"]
    /\ UNCHANGED tap /\ ServerOnly

\* finalizeUnsuccessfulDispatch fails a ride that was claimed after it looked and
\* tells with ride:failed, which this app does not handle; a cancellation that
\* read the row before the claim knows of no driver to tell.
JobEndsUntold(j) ==
    /\ board[j] \in Held
    /\ board' = [board EXCEPT ![j] = "untold"]
    /\ recovery' = [recovery EXCEPT !.overtaken = (recovery.at = "answered")]
    /\ misled' = TRUE
    /\ UNCHANGED <<signals, tap, phone, ticking, watchdog>>

HandleAccept(j) ==
    /\ tap = <<"accept", j>> /\ TapLeft
    /\ \/ /\ board[j] = "offered" /\ HeldJobs = {}
          /\ board' = [board EXCEPT ![j] = "accepted"] /\ Signal("confirmed", j)
       \/ /\ board[j] = "offered" /\ HeldJobs = {}
          /\ UNCHANGED board /\ Signal("debt", j)
       \/ board[j] \in {"over", "untold"} /\ UNCHANGED board /\ Signal("expired", j)
       \/ UNCHANGED <<board, signals>>      \* ride:error, which the app drops
    /\ ServerOnly

HandleReject(j) ==
    /\ tap = <<"reject", j>> /\ TapLeft
    /\ board' = [board EXCEPT ![j] = IF @ = "offered" THEN "none" ELSE @]
    /\ UNCHANGED signals /\ ServerOnly

\* ride:arrived, ride:start and ride:complete move the row, are refused, or
\* lose a race to the end of the ride.
Moves == {<<"arrive", "accepted", "arrived">>, <<"start", "accepted", "in_progress">>,
          <<"start", "arrived", "in_progress">>}

HandleMove(j) ==
    /\ tap \in {"arrive", "start"} \X {j} /\ TapLeft
    /\ \/ \E move \in Moves :
             /\ tap[1] = move[1] /\ board[j] = move[2]
             /\ board' = [board EXCEPT ![j] = move[3]] /\ UNCHANGED signals
       \/ board[j] \notin Held /\ UNCHANGED board /\ Signal("expired", j)
       \/ UNCHANGED <<board, signals>>
    /\ ServerOnly

\* Refused, or kept for the passenger's consent: the receipt shows already.
HandleComplete(j) ==
    /\ tap = <<"complete", j>> /\ TapLeft
    /\ \/ /\ board[j] = "in_progress" /\ board' = [board EXCEPT ![j] = "over"]
          /\ \E e \in {"finished", "held"} : Signal(e, j)
          /\ UNCHANGED misled
       \/ UNCHANGED <<board, signals>> /\ misled' = TRUE
    /\ UNCHANGED <<phone, ticking, watchdog, recovery>>

\* /rides/active/driver
ActiveDriver ==
    /\ recovery.at = "asked"
    /\ \E j \in HeldJobs \cup {NoJob} :
          /\ j = NoJob => HeldJobs = {}
          /\ recovery' = [at |-> "answered", job |-> j, behind |-> Len(signals),
                        overtaken |-> FALSE,
                        step |-> IF j = NoJob THEN "none" ELSE tripStepFor(board[j])]
    /\ UNCHANGED <<board, signals, tap, phone, ticking, watchdog, misled>>

-------------------------------------------------------------------------------
(* The driver *)

PhoneOnly == UNCHANGED <<board, signals, recovery>>

acceptRequest ==
    /\ phone.step = "none" /\ phone.job # NoJob /\ tap = NoTap
    /\ tap' = <<"accept", phone.job>>
    /\ ticking' = FALSE
    /\ UNCHANGED <<phone, watchdog, misled>> /\ PhoneOnly

rejectRequest ==
    /\ phone.step = "none" /\ phone.job # NoJob /\ tap = NoTap
    /\ tap' = <<"reject", phone.job>>
    /\ phone' = Free /\ ticking' = FALSE
    /\ UNCHANGED <<watchdog, misled>> /\ PhoneOnly

\* markArrived, startTrip and completeTrip show the next step at once.
Onwards == {<<"accepted", "arrive", "arrived">>, <<"arrived", "start", "started">>,
            <<"started", "complete", "completed">>}

Advances ==
    /\ tap = NoTap
    /\ \E move \in Onwards :
          /\ phone.step = move[1]
          /\ tap' = <<move[2], phone.job>>
          /\ phone' = [phone EXCEPT !.step = move[3]]
    /\ UNCHANGED <<ticking, watchdog, misled>> /\ PhoneOnly

\* The receipt is put away; whether the server completed the ride is not known.
finishAndGoAvailable ==
    /\ phone.step = "completed"
    /\ phone' = Free /\ watchdog' = FALSE /\ misled' = TRUE
    /\ UNCHANGED <<tap, ticking>> /\ PhoneOnly

\* The switch, hidden during a trip; or the saved wish to be online, which
\* looks before its awaits and not after: a ride may have come meanwhile.
toggleOnline ==
    /\ \/ phone.step = "none" /\ phone.op # "offline"
          /\ phone' = [phone EXCEPT !.op = "offline"]
       \/ phone.step # "completed" /\ phone' = [phone EXCEPT !.op = "available"]
    /\ UNCHANGED <<tap, ticking, watchdog, misled>> /\ PhoneOnly

\* The countdown of an offer runs out, whatever the phone shows by then: a ride
\* that came by a recovery did not stop it.
HandleTimeout ==
    /\ ticking /\ ticking' = FALSE
    /\ phone' = Free
    /\ misled' = (misled \/ phone.step # "none")
    /\ UNCHANGED <<tap, watchdog>> /\ PhoneOnly

\* The watchdog finds no ride on the screen.
WatchdogStops ==
    /\ watchdog /\ phone.job = NoJob
    /\ watchdog' = FALSE
    /\ UNCHANGED <<tap, phone, ticking, misled>> /\ PhoneOnly

-------------------------------------------------------------------------------
(* The socket *)

\* An offer is refused when off duty or on a trip (or for a debt), and replaces
\* an older one.
handleIncomingRequest(j) ==
    \/ /\ phone.op # "offline" /\ phone.step \notin OnTrip
       /\ phone' = [phone EXCEPT !.op = "busy", !.job = j] /\ ticking' = TRUE
       /\ UNCHANGED watchdog
    \/ UNCHANGED <<phone, ticking, watchdog>>

Confirms(j) ==
    IF phone.job = j THEN /\ phone' = [phone EXCEPT !.step = "accepted"]
                          /\ watchdog' = TRUE /\ UNCHANGED ticking
    ELSE UNCHANGED <<phone, ticking, watchdog>>

Clears(mine, stops) ==
    IF mine THEN /\ phone' = Free
                 /\ ticking' = FALSE
                 /\ watchdog' = (watchdog /\ ~stops)
    ELSE UNCHANGED <<phone, ticking, watchdog>>

Handle(e) ==
    \/ e.event = "request" /\ handleIncomingRequest(e.job)
    \/ e.event \in {"confirmed", "assigned"} /\ Confirms(e.job)
    \/ e.event = "cancelled" /\ Clears(phone.job = e.job \/ phone.step = "none", TRUE)
    \/ e.event = "debt" /\ Clears(TRUE, FALSE)
    \/ e.event = "expired" /\ Clears(phone.job = e.job, FALSE)
    \/ /\ e.event \in {"finished", "held"}          \* the countdown is left alone
       /\ IF e.event = "held" \/ phone.job = e.job
          THEN phone' = Free /\ watchdog' = FALSE
          ELSE UNCHANGED <<phone, watchdog>>
       /\ UNCHANGED ticking

\* A confirmation of an offer the phone has let go, an assignment over a receipt,
\* for which nobody asks, news of a ride that ended untold, or an event that
\* clears a ride it is not about.
Astray(e) ==
    \/ e.event = "confirmed" /\ phone.job # e.job
    \/ e.event = "assigned" /\ phone.job # e.job /\ phone.step = "completed"
    \/ e.event \in {"confirmed", "assigned"} /\ board[e.job] = "untold"
    \/ e.event \in {"debt", "held"} /\ phone.step \in OnTrip /\ phone.job # e.job

Receive ==
    /\ signals # <<>>
    /\ signals' = Tail(signals)
    /\ Handle(Head(signals))
    /\ recovery' = IF Head(signals).event = "assigned" /\ phone'.step # "completed"
                   THEN AskFrom(Behind(1)) ELSE Behind(1)
    /\ misled' = (misled \/ Astray(Head(signals)))
    /\ UNCHANGED <<board, tap>>

\* The connection drops and comes back: what was under way may be gone.
DriverReconnects ==
    /\ signals' = <<>> /\ tap' \in {tap, NoTap}
    /\ recovery' = IF phone.step = "completed" THEN Behind(Len(signals))
                   ELSE AskFrom(Behind(Len(signals)))
    /\ misled' = (misled \/ signals # <<>> \/ tap' # tap)
    /\ UNCHANGED <<board, phone, ticking, watchdog>>

-------------------------------------------------------------------------------
(* Recovery *)

\* The app resumed, a push tapped, the network back, the watchdog, the retry.
recoverDriverRide ==
    /\ recovery.at = "off"
    /\ recovery' = Recovering
    /\ UNCHANGED <<board, signals, tap, phone, ticking, watchdog, misled>>

\* found: whatever the phone shows; the countdown goes on.
applyRecoveredJob ==
    /\ recovery.at = "answered" /\ recovery.job # NoJob
    /\ phone' = [op |-> "busy", step |-> recovery.step, job |-> recovery.job]
    /\ watchdog' = TRUE
    /\ recovery' = NotRecovering
    /\ misled' = recovery.overtaken
    /\ UNCHANGED <<board, signals, tap, ticking>>

\* Mutant: a trip on the screen is left there.
NoJobFoundKeeps ==
    /\ recovery.at = "answered" /\ recovery.job = NoJob
    /\ recovery' = NotRecovering
    /\ misled' = recovery.overtaken
    /\ UNCHANGED <<board, signals, tap, phone, ticking, watchdog>>

\* none: a trip on the screen has ended, an offer older than 40 s is dropped,
\* a fresh one stays.
NoJobFound ==
    /\ recovery.at = "answered" /\ recovery.job = NoJob
    /\ \/ /\ phone.step # "none"
          /\ phone' = Free /\ watchdog' = FALSE /\ UNCHANGED ticking
       \/ /\ phone.step = "none" /\ phone.job # NoJob
          /\ phone' = Free /\ ticking' = FALSE /\ UNCHANGED watchdog
       \/ phone.step = "none" /\ UNCHANGED <<phone, ticking, watchdog>>
    /\ recovery' = NotRecovering
    /\ misled' = recovery.overtaken
    /\ UNCHANGED <<board, signals, tap>>

\* failed: concluded nothing, and asked again only while nothing is known.
DriverRecoveryFails ==
    /\ recovery.at # "off"
    /\ recovery' = NotRecovering
    /\ misled' = TRUE
    /\ UNCHANGED <<board, signals, tap, phone, ticking, watchdog>>

\* The app is killed and started again.
DriverAppRestarts ==
    /\ phone' = Started /\ ticking' = FALSE /\ watchdog' = FALSE
    /\ signals' = <<>> /\ recovery' = Recovering
    /\ misled' = TRUE
    /\ UNCHANGED <<board, tap>>

-------------------------------------------------------------------------------

DriverAppNext ==
    \/ \E j \in Jobs :
          \/ Offer(j) \/ OfferEnds(j) \/ OperationsAssigns(j) \/ JobEnds(j)
          \/ JobEndsUntold(j)
          \/ HandleAccept(j) \/ HandleReject(j) \/ HandleMove(j) \/ HandleComplete(j)
    \/ ActiveDriver \/ acceptRequest \/ rejectRequest \/ Advances
    \/ finishAndGoAvailable \/ toggleOnline \/ HandleTimeout \/ WatchdogStops
    \/ Receive \/ DriverReconnects \/ recoverDriverRide \/ applyRecoveredJob
    \/ NoJobFound \/ DriverRecoveryFails \/ DriverAppRestarts

DriverAppSpec == DriverAppInit /\ [][DriverAppNext]_driverVars

-------------------------------------------------------------------------------
(* Properties *)

\* When nothing is under way and nothing misled the phone (an event lost or
\* astray, an assignment over a receipt, a ride that ended untold, an answer
\* overtaken, a recovery that failed, an old countdown, a receipt put away), a
\* ride the server has for the driver is on the screen as a trip the watchdog
\* asks about (active_ride_recovery.dart:29), and where the server has none the
\* screen shows no trip.
OnTheRide ==
    /\ ~misled /\ signals = <<>> /\ tap = NoTap /\ recovery.at = "off"
    /\ phone.step # "completed"
    => /\ \A j \in HeldJobs : phone.job = j /\ phone.step \in OnTrip /\ watchdog
       /\ HeldJobs = {} => phone.step = "none"
===============================================================================
