------------------------------ MODULE PassengerApp ------------------------------
(***************************************************************************)
(* The screen of one passenger's phone and the rides the server keeps for  *)
(* them (apps/keke_passenger: booking_controller.dart, active_ride_        *)
(* recovery.dart; the server's answer in routes/ride_routes.ts).           *)
(*                                                                         *)
(* Two channels feed the screen.  Socket events arrive in order and are    *)
(* lost with the connection; the answers of /rides/active/passenger were   *)
(* true when the server read the row and may be overtaken by events.       *)
(* The server's side is what the phone sees of it: RideLifecycle has it    *)
(* in full.  Wording, maps, prompts and timers that only redraw are left   *)
(* out.                                                                    *)
(***************************************************************************)
EXTENDS Naturals, Sequences, FiniteSets

CONSTANTS
    Trips,      \* the rides the passenger may ask for
    NoTrip,     \* the screen names no ride
    Fetches,    \* recovery fetches in flight at once
    MaxFixes,   \* bound: location fixes awaited at once
    MaxWire     \* bound: events under way to the phone

ASSUME AppAssumption ==
    NoTrip \notin Trips /\ MaxWire \in Nat \ {0} /\ MaxFixes \in Nat \ {0}

VARIABLES
    tripRow,    \* tripRow[t]: the ride's status on the server
    wire,       \* events sent to the phone and not yet handled
    uplink,     \* what the phone sent and the server has not handled
    screen,     \* state.step and state.rideId
    fetch,      \* fetch[f]: one call of recoverActiveRide
    fixes,      \* calls of _initializeMap that await the phone's location
    unresolved, \* _activeRideUnresolved
    doubt       \* history: the phone has reason to be wrong (see QuietMeansTrue)

appVars == <<tripRow, wire, uplink, screen, fetch, fixes, unresolved, doubt>>

-------------------------------------------------------------------------------
(* Types *)

Live == {"searching", "accepted", "arrived", "in_progress"}
Tracking == {"confirmed", "arrived", "started"}
AppStep == {"loading", "booking", "searching", "offerSent", "completed"} \cup Tracking
Events == {"searching", "offer_sent", "round", "assigned", "arrived", "started",
           "cancelled", "finished", "failed", "error", "exists"}

\* ahead: events under way when the server read the row; overtaken: one sent
\* later was handled before this answer.
NotAsking == [at |-> "off", trip |-> NoTrip, step |-> "booking", ahead |-> 0,
              overtaken |-> FALSE]

AppTypeOK ==
    /\ tripRow \in [Trips -> Live \cup {"none", "completed", "over"}]
    /\ wire \in Seq([event : Events, trip : Trips]) /\ Len(wire) <= MaxWire
    /\ uplink \subseteq {"request", "cancel"} \X Trips
    /\ screen \in [step : AppStep, trip : Trips \cup {NoTrip}]
    /\ fetch \in [Fetches -> [at : {"off", "asked", "answered"},
                              trip : Trips \cup {NoTrip}, step : AppStep,
                              ahead : 0..MaxWire, overtaken : BOOLEAN]]
    /\ fixes \in 0..MaxFixes
    /\ {unresolved, doubt} \subseteq BOOLEAN

\* A cold start: the constructor has just asked.
AppInit ==
    /\ tripRow = [t \in Trips |-> "none"]
    /\ wire = <<>> /\ uplink = {}
    /\ screen = [step |-> "loading", trip |-> NoTrip]
    /\ fetch = [f \in Fetches |-> NotAsking]
    /\ fixes = 0
    /\ unresolved = TRUE
    /\ doubt = TRUE

-------------------------------------------------------------------------------
(* Helpers *)

LiveTrips == {t \in Trips : tripRow[t] \in Live}

stepFor(status) ==
    CASE status = "accepted"    -> "confirmed"
      [] status = "arrived"     -> "arrived"
      [] status = "in_progress" -> "started"
      [] OTHER                  -> "searching"

Show(step, trip) == screen' = [step |-> step, trip |-> trip]
Send(event, t) ==
    /\ Len(wire) < MaxWire
    /\ wire' = Append(wire, [event |-> event, trip |-> t])

\* n more events handled, or lost: an answer has so many fewer ahead of it, and
\* was overtaken if there were not so many.
Passed(n) ==
    [f \in Fetches |->
        IF fetch[f].at # "answered" THEN fetch[f]
        ELSE IF fetch[f].ahead >= n THEN [fetch[f] EXCEPT !.ahead = @ - n]
        ELSE [fetch[f] EXCEPT !.ahead = 0, !.overtaken = TRUE]]

\* recoverActiveRide while the lock is held returns at once; after twelve
\* seconds the watchdog drops the lock, so a second call may run beside it.
Ask(fs, f) == [fs EXCEPT ![f] = [NotAsking EXCEPT !.at = "asked"]]

-------------------------------------------------------------------------------
(* The passenger *)

\* _dispatchRequest: refused while it is not known whether there is a ride.
dispatchRequest(t) ==
    /\ screen.step = "booking" /\ ~unresolved
    /\ tripRow[t] = "none" /\ \A kind \in {"request", "cancel"} : <<kind, t>> \notin uplink
    /\ Show("searching", t)
    /\ uplink' = uplink \cup {<<"request", t>>}
    /\ UNCHANGED <<tripRow, wire, fetch, fixes, unresolved, doubt>>

cancelBooking ==
    /\ screen.step \in AppStep \ {"loading", "booking", "started", "completed"}
    /\ screen.trip # NoTrip
    /\ Show("loading", screen.trip)
    /\ uplink' = uplink \cup {<<"cancel", screen.trip>>}
    /\ UNCHANGED <<tripRow, wire, fetch, fixes, unresolved, doubt>>

dismissReceipt ==
    /\ screen.step = "completed"
    /\ Show("booking", NoTrip)
    /\ UNCHANGED <<tripRow, wire, uplink, fetch, fixes, unresolved, doubt>>

-------------------------------------------------------------------------------
(* The server *)

\* ride:request saves the row, or refuses it, for one live ride above all.
SaveTrip(t) ==
    /\ <<"request", t>> \in uplink
    /\ uplink' = uplink \ {<<"request", t>>}
    /\ IF LiveTrips # {} THEN UNCHANGED tripRow /\ Send("exists", t)
       ELSE \/ tripRow' = [tripRow EXCEPT ![t] = "searching"] /\ Send("searching", t)
            \/ UNCHANGED tripRow /\ Send("error", t)
    /\ UNCHANGED <<screen, fetch, fixes, unresolved, doubt>>

CancelTrip(t) ==
    /\ <<"cancel", t>> \in uplink
    /\ uplink' = uplink \ {<<"cancel", t>>}
    /\ IF tripRow[t] \in {"searching", "accepted", "arrived"}
       THEN tripRow' = [tripRow EXCEPT ![t] = "over"] /\ Send("cancelled", t)
       ELSE UNCHANGED tripRow /\ Send("error", t)
    /\ UNCHANGED <<screen, fetch, fixes, unresolved, doubt>>

\* The ride goes on: the row, then the event of the step.
Advance == {<<"searching", "accepted", "assigned">>, <<"accepted", "arrived", "arrived">>,
            <<"arrived", "in_progress", "started">>, <<"accepted", "in_progress", "started">>,
            <<"in_progress", "completed", "finished">>, <<"searching", "over", "failed">>,
            <<"accepted", "over", "cancelled">>, <<"arrived", "over", "cancelled">>,
            <<"searching", "searching", "offer_sent">>, <<"searching", "searching", "round">>}

TripAdvances(t) == \E move \in Advance :
    /\ tripRow[t] = move[1]
    /\ tripRow' = [tripRow EXCEPT ![t] = move[2]]
    /\ Send(move[3], t)
    /\ UNCHANGED <<uplink, screen, fetch, fixes, unresolved, doubt>>

\* /rides/active/passenger reads the passenger's live ride.
ActivePassenger(f) ==
    /\ fetch[f].at = "asked"
    /\ \E t \in LiveTrips \cup {NoTrip} :
          /\ t = NoTrip => LiveTrips = {}
          /\ fetch' = [fetch EXCEPT ![f] =
                [at |-> "answered", trip |-> t, ahead |-> Len(wire), overtaken |-> FALSE,
                 step |-> IF t = NoTrip THEN "booking" ELSE stepFor(tripRow[t])]]
    /\ UNCHANGED <<tripRow, wire, uplink, screen, fixes, unresolved, doubt>>

-------------------------------------------------------------------------------
(* The socket *)

\* What the handler of an event makes of the screen: most set the step
\* whatever is shown, and only a cancellation looks at the ride it names.
Handled(e) ==
    CASE e.event \in {"searching", "round"} -> [screen EXCEPT !.step = "searching"]
      [] e.event = "offer_sent" ->
             IF screen.step = "searching" THEN [screen EXCEPT !.step = "offerSent"] ELSE screen
      [] e.event = "assigned" -> [screen EXCEPT !.step = "confirmed"]
      [] e.event \in {"arrived", "started"} -> [screen EXCEPT !.step = e.event]
      [] e.event = "finished" -> [screen EXCEPT !.step = "completed"]
      [] e.event = "cancelled" ->
             IF screen.trip \in {NoTrip, e.trip} THEN [step |-> "booking", trip |-> NoTrip]
             ELSE screen
      [] e.event = "failed" -> [step |-> "booking", trip |-> NoTrip]
      [] e.event = "error" ->
             IF screen.step = "searching" THEN [step |-> "booking", trip |-> NoTrip] ELSE screen
      [] e.event = "exists" -> screen

\* An event of a ride the screen does not show, which it may take for its own.
Stray(e) == e.trip # screen.trip /\ (screen.trip # NoTrip \/ e.event \in {"error", "exists"})

\* ACTIVE_RIDE_EXISTS asks for the ride it was refused for; with the lock held
\* nobody asks, and the search is given up on the spot.
Deliver ==
    /\ wire # <<>>
    /\ wire' = Tail(wire)
    /\ \/ /\ screen' = Handled(Head(wire))
          /\ fetch' = Passed(1)
          /\ Head(wire).event # "exists"
       \/ /\ Head(wire).event = "exists"
          /\ \E f \in Fetches :
                /\ fetch[f].at = "off"
                /\ fetch' = Ask(Passed(1), f)
          /\ UNCHANGED screen
       \/ /\ Head(wire).event = "exists"
          /\ \E f \in Fetches : fetch[f].at # "off"
          /\ screen' = IF screen.step = "searching"
                       THEN [screen EXCEPT !.step = "booking"] ELSE screen
          /\ fetch' = Passed(1)
    /\ doubt' = (doubt \/ Stray(Head(wire)))
    /\ UNCHANGED <<tripRow, uplink, fixes, unresolved>>

\* The connection drops: what was under way either way may be gone.  On the
\* reconnect the phone asks, unless a receipt shows or the lock is held.
Reconnects ==
    /\ \E kept \in SUBSET uplink :
          /\ uplink' = kept
          /\ doubt' = (doubt \/ wire # <<>> \/ kept # uplink)
    /\ wire' = <<>>
    /\ \/ /\ screen.step # "completed"
          /\ \E f \in Fetches : fetch[f].at = "off" /\ fetch' = Ask(Passed(Len(wire)), f)
       \/ /\ \/ screen.step = "completed" \/ \E f \in Fetches : fetch[f].at # "off"
          /\ fetch' = Passed(Len(wire))
    /\ UNCHANGED <<tripRow, screen, fixes, unresolved>>

-------------------------------------------------------------------------------
(* Recovery *)

\* The cold start, the app resumed, a search's or a trip's periodic check, the
\* retry timer, the network back.
recoverActiveRide(f) ==
    /\ fetch[f].at = "off"
    /\ fetch' = Ask(fetch, f)
    /\ UNCHANGED <<tripRow, wire, uplink, screen, fixes, unresolved, doubt>>

\* found: the screen becomes what the answer says, whatever it shows by now.
applyRecoveredRide(f) ==
    /\ fetch[f].at = "answered" /\ fetch[f].trip # NoTrip
    /\ Show(fetch[f].step, fetch[f].trip)
    /\ fetch' = [fetch EXCEPT ![f] = NotAsking]
    /\ unresolved' = FALSE
    /\ doubt' = fetch[f].overtaken
    /\ UNCHANGED <<tripRow, wire, uplink, fixes>>

\* none: a ride being tracked has ended, a loading screen asks for the location
\* to lay the map out at, and anything else is left alone.
Tracked == screen.step \in Tracking /\ screen.trip # NoTrip

NoneFoundFor(f, shown) ==
    /\ fetch[f].at = "answered" /\ fetch[f].trip = NoTrip
    /\ screen' = shown
    /\ fixes' = IF screen.step = "loading" THEN fixes + 1 ELSE fixes
    /\ fixes' <= MaxFixes
    /\ fetch' = [fetch EXCEPT ![f] = NotAsking]
    /\ unresolved' = FALSE
    /\ doubt' = (fetch[f].overtaken
                    \/ (doubt /\ ~Tracked /\ screen.step \notin {"loading", "booking"}))
    /\ UNCHANGED <<tripRow, wire, uplink>>

\* Mutant: a ride being tracked is left on the screen.
NoneFoundKeeps(f) == NoneFoundFor(f, screen)

NoneFound(f) ==
    NoneFoundFor(f, IF Tracked THEN [step |-> "booking", trip |-> NoTrip] ELSE screen)

\* _initializeMap, the location at hand: the step is written without asking what
\* the screen came to show meanwhile.
LayOutMap ==
    /\ fixes > 0 /\ fixes' = fixes - 1
    /\ screen' = [screen EXCEPT !.step = "booking"]
    /\ doubt' = (doubt \/ \/ screen.step \notin {"loading", "booking"}
                          \/ screen.step = "loading" /\ screen.trip # NoTrip)
    /\ UNCHANGED <<tripRow, wire, uplink, fetch, unresolved>>

\* failed: nothing is concluded from it.
RecoveryFails(f) ==
    /\ fetch[f].at # "off"
    /\ fetch' = [fetch EXCEPT ![f] = NotAsking]
    /\ UNCHANGED <<tripRow, wire, uplink, screen, fixes, unresolved, doubt>>

\* The search watchdog (150 s of silence), or a cancellation nobody confirmed
\* in 6 s: the phone decides by itself.
GivesUp ==
    /\ \/ screen.step = "searching"
       \/ screen.step = "loading" /\ screen.trip # NoTrip
    /\ Show("booking", NoTrip)
    /\ doubt' = TRUE
    /\ UNCHANGED <<tripRow, wire, uplink, fetch, fixes, unresolved>>

\* The app is killed and started again.
AppRestarts ==
    /\ screen' = [step |-> "loading", trip |-> NoTrip]
    /\ fetch' = [f \in Fetches |-> NotAsking]
    /\ wire' = <<>> /\ fixes' = 0 /\ unresolved' = TRUE /\ doubt' = TRUE
    /\ UNCHANGED <<tripRow, uplink>>

-------------------------------------------------------------------------------

AppNext ==
    \/ \E t \in Trips :
          dispatchRequest(t) \/ SaveTrip(t) \/ CancelTrip(t) \/ TripAdvances(t)
    \/ cancelBooking \/ dismissReceipt \/ Deliver \/ Reconnects \/ LayOutMap
    \/ GivesUp \/ AppRestarts
    \/ \E f \in Fetches :
          \/ recoverActiveRide(f) \/ ActivePassenger(f) \/ applyRecoveredRide(f)
          \/ NoneFound(f) \/ RecoveryFails(f)

AppSpec == AppInit /\ [][AppNext]_appVars

-------------------------------------------------------------------------------
(* Properties *)

\* What the screen should show for the rows as they are.
Agrees ==
    IF LiveTrips = {} THEN screen.step \notin Tracking \cup {"searching", "offerSent"}
    ELSE \E t \in LiveTrips :
            \/ screen.step = stepFor(tripRow[t])
            \/ screen.step = "offerSent" /\ tripRow[t] = "searching"

\* When nothing is under way and nothing gave the phone reason to be wrong (an
\* event lost, an answer overtaken by an event, a search or a cancellation it
\* gave up by itself, a map laid out over the screen of a ride), the screen shows
\* the ride the server has: events and answers of two channels in any order
\* never leave it behind (active_ride_recovery.dart:21).
QuietMeansTrue ==
    /\ ~doubt /\ wire = <<>> /\ uplink = {}
    /\ \A f \in Fetches : fetch[f].at = "off"
    /\ screen.step # "loading"
    => Agrees
===============================================================================
