------------------------------- MODULE ParkFloor -------------------------------
(***************************************************************************)
(* What one park's screens say of its drivers, and what becomes of it when *)
(* somebody acts: the ranked list of a job (services/driver_               *)
(* recommendation_service.ts over park_roster_repository.loadRosterView),  *)
(* the checks of park_dispatch_service.assignDriver, the selection of      *)
(* parks (park_selection_service.ts) and the readiness and health that     *)
(* the dispatcher's board, the overview and the operations centre show     *)
(* (dispatcher_dashboard_service.ts, operations_overview_service.ts,       *)
(* park_operations_centre_service.ts).                                     *)
(*                                                                         *)
(* A screen and an assignment read one table after another while drivers   *)
(* come and go; nothing holds what was read.                               *)
(***************************************************************************)
EXTENDS Naturals, FiniteSets

CONSTANTS
    FloorDrivers,   \* drivers somebody of this park may pick
    NoPick,         \* nobody picked
    MaxTurns        \* bound: changes at the park

ASSUME FloorAssumption == NoPick \notin FloorDrivers /\ MaxTurns \in Nat

VARIABLES
    floor,  \* floor[d]: the rows about driver d
    gate,   \* the park's row, its open shift, and the switch
    report,  \* the list or the report a screen shows, or what was read for it
    pick,   \* the assignDriver in flight, or how the last one ended
    met,    \* history: what pick.driver met at some moment since the tap
    turns   \* changes so far

floorVars == <<floor, gate, report, pick, met, turns>>

-------------------------------------------------------------------------------

\* A driver's presence: ASSIGNED, EN_ROUTE, PASSENGER_BOARDING and TRIP_STARTED
\* are "riding"; "none" is a driver without a presence row.
Presence ==
    {"none", "offline", "online", "atPark", "waiting", "riding", "unavailable"}
Place == {"here", "elsewhere", "nowhere"}

RosterEntry ==
    [roster : {"off", "active", "suspended"},
     kyc : {"approved", "pending", "barred"},
     owes : BOOLEAN, badge : BOOLEAN,
     presence : Presence, place : Place]

PaperKinds == {"kyc", "owes", "badge"}
Nothing == [of |-> "none", at |-> "none"]
NoTap == [at |-> "idle", driver |-> NoPick, row |-> {}, unread |-> {}, still |-> TRUE]

Problem == {"roster_suspended", "driver_suspended", "driver_not_approved",
            "wallet_blocked", "no_badge", "not_waiting", "presence_unknown"}
Requirement == {"roster", "kyc", "owes", "badge", "presence", "shift"}

ASSIGNABLE_PRESENCE_STATES == {"atPark", "waiting"}

\* What loadRosterView's queries return to one entry.
assignabilityProblems(e) ==
    {p \in Problem :
        \/ p = "roster_suspended" /\ e.roster = "suspended"
        \/ p = "driver_suspended" /\ e.kyc = "barred"
        \/ p = "driver_not_approved" /\ e.kyc # "approved"
        \/ p = "wallet_blocked" /\ e.owes
        \/ p = "no_badge" /\ ~e.badge
        \/ /\ p = "not_waiting"
           /\ e.presence \notin ASSIGNABLE_PRESENCE_STATES \cup {"none"}
        \/ p = "presence_unknown" /\ e.presence = "none"}

Blocking(problems) == problems \ {"not_waiting", "presence_unknown"}

\* queue(): assignable there means without a problem.
FreeOfProblems(e) == e.roster = "active" /\ assignabilityProblems(e) = {}

-------------------------------------------------------------------------------
(* The world *)

\* The rows of a driver who may take a ride.
Ready == [roster |-> "active", kyc |-> "approved", owes |-> FALSE, badge |-> TRUE,
          presence |-> "waiting", place |-> "here"]

Turn ==
    /\ turns < MaxTurns
    /\ turns' = turns + 1
    /\ report' = IF report = Nothing THEN report ELSE [report EXCEPT !.still = FALSE]
    /\ pick' = [pick EXCEPT !.still = FALSE]

\* What pick.driver meets now, added to what it met since the tap.
Meets(fl, g, d) ==
    LET e == fl[d] IN
    {r \in Requirement :
        \/ r = "roster" /\ e.roster = "active"
        \/ r = "kyc" /\ e.kyc = "approved"
        \/ r = "owes" /\ ~e.owes
        \/ r = "badge" /\ e.badge
        \/ /\ r = "presence" /\ e.place = "here"
           /\ e.presence \in ASSIGNABLE_PRESENCE_STATES
        \/ r = "shift" /\ g.staffed}
Watches(fl, g) ==
    met' = IF pick.driver = NoPick THEN {} ELSE met \cup Meets(fl, g, pick.driver)

\* setState: a park-less state clears the park, one at a park needs it; staff may
\* force any transition.
PresenceChanges(d, to, at) ==
    /\ Turn
    /\ to # "none"
    /\ to \in {"online", "offline"} => at = "nowhere"
    /\ to \in ASSIGNABLE_PRESENCE_STATES => at # "nowhere"
    /\ floor' = [floor EXCEPT ![d].presence = to, ![d].place = at]
    /\ floor' # floor /\ Watches(floor', gate) /\ UNCHANGED gate

\* The roster is edited, the account reviewed, a debt booked or paid, a badge
\* issued or revoked.
FileChanges(d) ==
    /\ Turn
    /\ \/ \E r \in {"off", "active", "suspended"} :
             floor' = [floor EXCEPT ![d].roster = r]
       \/ \E k \in {"approved", "pending", "barred"} :
             floor' = [floor EXCEPT ![d].kyc = k]
       \/ floor' = [floor EXCEPT ![d].owes = ~@]
       \/ floor' = [floor EXCEPT ![d].badge = ~@]
    /\ floor' # floor /\ Watches(floor', gate) /\ UNCHANGED gate

GateTurns(field) ==
    /\ Turn /\ gate' = [gate EXCEPT ![field] = ~@]
    /\ Watches(floor, gate') /\ UNCHANGED floor

\* The park is suspended or activated ...
ParkTurns == GateTurns("active")
\* ... its hours begin or end, in its own timezone ...
HoursTurn == GateTurns("open")
\* ... its only dispatcher comes or goes ...
ShiftTurns == GateTurns("staffed")
\* ... and operations throw the switch, which no time throws back.
SwitchTurns == GateTurns("off")

\* selectForPickup, for a pickup within reach that this park was not offered yet:
\* the count takes everybody whose presence is here, rostered or not.
AssignableHere == {d \in FloorDrivers : floor[d].place = "here"
                     /\ floor[d].presence \in ASSIGNABLE_PRESENCE_STATES}
Selectable ==
    /\ gate.active /\ gate.open
    /\ gate.requireWaitingDriver => AssignableHere # {}

\* offerToPark asks the switch first.
OffersHere == ~gate.off /\ Selectable

-------------------------------------------------------------------------------
(* The list of a job *)

\* The section a driver is listed in.  Nothing reports `not_approved` or
\* `badge_revoked`, so that a review that is pending shows in none of its own.
groupFor(e, declined) ==
    LET problems == assignabilityProblems(e) IN
    IF /\ Blocking(problems) = {} /\ e.presence \in ASSIGNABLE_PRESENCE_STATES
       /\ ~declined
    THEN "available"
    ELSE IF "wallet_blocked" \in problems THEN "wallet_blocked"
    ELSE IF problems \cap {"no_badge", "roster_suspended"} # {}
    THEN "verification_issue"
    ELSE IF e.presence = "riding" THEN "returning_soon" ELSE "unavailable"

\* rankedDriversForJob reads the job, and with it who declined; then the roster.
LoadsList(declined) ==
    /\ report = Nothing
    /\ report' = [of |-> "list", at |-> "roster", still |-> TRUE,
                 declined |-> declined]
    /\ UNCHANGED <<floor, gate, pick, met, turns>>

\* A plausible bug: a job forgets who declined it.
RankedAnew(rows, declined, top) ==
    [d \in DOMAIN rows |->
        LET group == groupFor(rows[d], FALSE) IN
        [assignable |-> group = "available",
         group |-> IF d = top THEN "recommended" ELSE group,
         owed |-> {}, declined |-> d \in declined]]

\* rankForJob: one driver of the available ones is recommended, whoever the
\* scores of presence, place in the queue, answers and workload put first.
Ranked(rows, declined, top) ==
    [d \in DOMAIN rows |->
        LET group == groupFor(rows[d], d \in declined) IN
        [assignable |-> group = "available",
         group |-> IF d = top THEN "recommended" ELSE group,
         owed |-> Blocking(assignabilityProblems(rows[d])),
         declined |-> d \in declined]]

\* The roster view's queries are one moment here: of a list only what it says
\* when nothing changed is asked.
ListRanks(top) ==
    /\ report.of = "list" /\ report.at = "roster"
    /\ LET rows == [d \in {e \in FloorDrivers : floor[e].roster # "off"} |-> floor[d]]
           free == {d \in DOMAIN rows :
                       groupFor(rows[d], d \in report.declined) = "available"}
       IN  /\ IF free = {} THEN top = NoPick ELSE top \in free
           /\ report' = [of |-> "list", at |-> "ready", still |-> report.still,
                        rows |-> Ranked(rows, report.declined, top)]
    /\ UNCHANGED <<floor, gate, pick, met, turns>>

\* The sheet is closed, or the screen asks again.
Leaves ==
    /\ report # Nothing
    /\ report' = Nothing
    /\ UNCHANGED <<floor, gate, pick, met, turns>>

-------------------------------------------------------------------------------
(* assignDriver, on a job its dispatcher claimed *)

\* The dispatcher taps a driver of the list, report however long.
Taps(d) ==
    /\ pick.at \in {"idle", "refused", "handed"}
    /\ report.of = "list" /\ report.at = "ready" /\ d \in DOMAIN report.rows
    /\ pick' = [NoTap EXCEPT !.at = "shift", !.driver = d, !.still = report.still]
    /\ met' = Meets(floor, gate, d)
    /\ UNCHANGED <<floor, gate, report, turns>>

Refuses(why) == pick' = [pick EXCEPT !.at = "refused", !.row = why, !.unread = {}]

\* requireOpenShiftAtPark.
ChecksShift ==
    /\ pick.at = "shift"
    /\ IF gate.staffed THEN pick' = [pick EXCEPT !.at = "members"]
       ELSE Refuses("shift")
    /\ UNCHANGED <<floor, gate, report, met, turns>>

\* The roster is read anew ...
ChecksRoster ==
    /\ pick.at = "members"
    /\ IF floor[pick.driver].roster = "off" THEN Refuses("roster")
       ELSE pick' = [pick EXCEPT !.at = "papers", !.unread = PaperKinds,
                                 !.row = floor[pick.driver]]
    /\ UNCHANGED <<floor, gate, report, met, turns>>

\* ... its queries side by side ...
Reread(e, d, what) ==
    CASE what = "kyc" -> [e EXCEPT !.kyc = floor[d].kyc]
      [] what = "owes" -> [e EXCEPT !.owes = floor[d].owes]
      [] what = "badge" -> [e EXCEPT !.badge = floor[d].badge]

ReadsPapers(what) ==
    /\ pick.at = "papers" /\ what \in pick.unread
    /\ pick' = [pick EXCEPT !.unread = @ \ {what},
                            !.row = Reread(@, pick.driver, what)]
    /\ UNCHANGED <<floor, gate, report, met, turns>>

\* ... and what it says refuses, but not who declined the job before.
ChecksProblems ==
    /\ pick.at = "papers" /\ pick.unread = {}
    /\ IF Blocking(assignabilityProblems(pick.row)) # {} THEN Refuses("problems")
       ELSE pick' = [pick EXCEPT !.at = "presence", !.row = {}]
    /\ UNCHANGED <<floor, gate, report, met, turns>>

\* A plausible bug: presence is taken from the list the dispatcher looks at.
PresenceOfList ==
    /\ pick.at = "presence"
    /\ pick' = [pick EXCEPT !.at = "zone"]
    /\ UNCHANGED <<floor, gate, report, met, turns>>

\* isDriverPresenceAssignable: presence once more, and at this park.
ChecksPresence ==
    /\ pick.at = "presence"
    /\ IF pick.driver \in AssignableHere THEN pick' = [pick EXCEPT !.at = "zone"]
       ELSE Refuses("presence")
    /\ UNCHANGED <<floor, gate, report, met, turns>>

\* The zone guard, which may say either; then the ride is handed over.
ChecksZone(refuse) ==
    /\ pick.at = "zone"
    /\ IF refuse THEN Refuses("zone") ELSE pick' = [pick EXCEPT !.at = "handed"]
    /\ UNCHANGED <<floor, gate, report, met, turns>>

-------------------------------------------------------------------------------
(* The reports *)

\* The dispatcher's board reads its drivers and the switch before anything about
\* the park's readiness; the overview and the centre read no drivers.
BoardReads ==
    /\ report = Nothing
    /\ report' = [of |-> "board", at |-> "park", still |-> TRUE,
                 anyone |-> \E d \in FloorDrivers :
                     /\ floor[d].roster # "off"
                     /\ groupFor(floor[d], FALSE) = "available",
                 paused |-> gate.off]
    /\ UNCHANGED <<floor, gate, pick, met, turns>>

CentreReads ==
    /\ report = Nothing
    /\ report' = [of |-> "centre", at |-> "park", still |-> TRUE,
                 anyone |-> FALSE, paused |-> FALSE]
    /\ UNCHANGED <<floor, gate, pick, met, turns>>

\* The park's row and the switch; then the counts by park.
ReadsPark ==
    /\ report.of \in {"board", "centre"} /\ report.at = "park"
    /\ report' = [of |-> report.of, at |-> "counts", still |-> report.still,
                 anyone |-> report.anyone, paused |-> report.paused,
                 active |-> gate.active, open |-> gate.open, off |-> gate.off]
    /\ UNCHANGED <<floor, gate, pick, met, turns>>

ReadsCounts ==
    /\ report.of \in {"board", "centre"} /\ report.at = "counts"
    /\ report' = [of |-> report.of, at |-> "assignable", still |-> report.still,
                 anyone |-> report.anyone, paused |-> report.paused,
                 active |-> report.active, open |-> report.open, off |-> report.off,
                 present |-> AssignableHere # {}, staffed |-> gate.staffed]
    /\ UNCHANGED <<floor, gate, pick, met, turns>>

\* What keeps rides away, of one report's readings.
blockers(r, assignable) ==
    {b \in {"not_active", "outside_hours", "no_driver_present",
            "present_but_unassignable", "dispatch_suspended"} :
        \/ b = "not_active" /\ ~r.active
        \/ b = "outside_hours" /\ ~r.open
        \/ b = "no_driver_present" /\ gate.requireWaitingDriver /\ ~r.present
        \/ b = "present_but_unassignable" /\ r.present /\ ~assignable
        \/ b = "dispatch_suspended" /\ r.off}

\* assignableCount: the members without a problem, wherever they wait; describe.
Describes ==
    /\ report.of \in {"board", "centre"} /\ report.at = "assignable"
    /\ LET assignable == \E d \in FloorDrivers : FreeOfProblems(floor[d]) IN
       report' = [of |-> report.of, still |-> report.still,
                 at |-> IF report.of = "board" THEN "ready" ELSE "again",
                 anyone |-> report.anyone, paused |-> report.paused,
                 open |-> report.open, off |-> report.off, assignable |-> assignable,
                 staffed |-> report.staffed,
                 blockers |-> blockers(report, assignable)]
    /\ UNCHANGED <<floor, gate, pick, met, turns>>

\* The alerts, of which `other` are those about phones and workload.
alertsFor(active, open, staffed, assignable, other) ==
    {other} \cup (IF active /\ open /\ (~staffed \/ ~assignable) THEN {"red"} ELSE {})
            \cup (IF open /\ ~active THEN {"red"} ELSE {})

\* A plausible bug: a park that lacks something is amber while a dispatcher is
\* there.
healthIfStaffed(active, open, alerts) ==
    IF active /\ ~open THEN "green"
    ELSE IF "red" \in alerts /\ ~gate.staffed THEN "red"
    ELSE IF alerts # {"none"} \/ ~active THEN "amber" ELSE "green"

healthOf(active, open, alerts) ==
    IF active /\ ~open THEN "green"
    ELSE IF "red" \in alerts THEN "red"
    ELSE IF "amber" \in alerts \/ ~active THEN "amber" ELSE "green"

\* The centre reads the park and the shifts again, and judges.
Judges(other) ==
    /\ report.of = "centre" /\ report.at = "again"
    /\ report' = [of |-> "centre", at |-> "ready", still |-> report.still,
                 blockers |-> report.blockers,
                 health |-> healthOf(gate.active, report.open,
                     alertsFor(gate.active, report.open, gate.staffed,
                               report.assignable, other))]
    /\ UNCHANGED <<floor, gate, pick, met, turns>>

-------------------------------------------------------------------------------

FloorInit ==
    /\ floor = [d \in FloorDrivers |-> Ready]
    /\ gate \in [active : {TRUE}, open : {TRUE}, staffed : {TRUE}, off : {FALSE},
                 requireWaitingDriver : BOOLEAN]
    /\ report = Nothing /\ pick = NoTap /\ met = {} /\ turns = 0

WorldTurns ==
    \/ \E d \in FloorDrivers :
          \/ \E to \in Presence, at \in Place : PresenceChanges(d, to, at)
          \/ FileChanges(d)
    \/ ParkTurns \/ HoursTurn \/ ShiftTurns \/ SwitchTurns

ListGoesOn ==
    \/ \E declined \in SUBSET FloorDrivers : LoadsList(declined)
    \/ \E top \in FloorDrivers \cup {NoPick} : ListRanks(top)

AssignGoesOn ==
    \/ \E d \in FloorDrivers : Taps(d)
    \/ ChecksShift \/ ChecksRoster \/ (\E what \in PaperKinds : ReadsPapers(what))
    \/ ChecksProblems \/ ChecksPresence
    \/ \E refuse \in BOOLEAN : ChecksZone(refuse)

ReportGoesOn ==
    \/ BoardReads \/ CentreReads \/ ReadsPark \/ ReadsCounts \/ Describes
    \/ \E other \in {"none", "amber", "red"} : Judges(other)

FloorNext == WorldTurns \/ ListGoesOn \/ AssignGoesOn \/ ReportGoesOn \/ Leaves

FloorSpec == FloorInit /\ [][FloorNext]_floorVars

-------------------------------------------------------------------------------

FloorTypeOK ==
    /\ floor \in [FloorDrivers -> RosterEntry]
    /\ gate \in [active : BOOLEAN, open : BOOLEAN, staffed : BOOLEAN, off : BOOLEAN,
                 requireWaitingDriver : BOOLEAN]
    /\ report.of \in {"none", "list", "board", "centre"}
    /\ pick.driver \in FloorDrivers \cup {NoPick}
    /\ met \subseteq Requirement /\ turns \in 0..MaxTurns

\* The list keeps its word.  As long as nothing changed since its first query, a
\* driver it shows as assignable is refused only for waiting at another park (the
\* list does not look where) or by the zone guard, one it shows otherwise is
\* handed the ride only if the reason was an earlier decline, and whoever is
\* listed as coming back soon has nothing else against him but a review
\* (driver_recommendation_service.ts:128-265, park_dispatch_service.ts:563-625).
ListKeepsItsWord ==
    /\ report.of = "list" /\ report.at = "ready" =>
          \A d \in DOMAIN report.rows :
             /\ report.rows[d].group = "returning_soon" =>
                   report.rows[d].owed
                      \subseteq {"driver_not_approved", "driver_suspended"}
             /\ report.rows[d].declined => ~report.rows[d].assignable
    /\ pick.still /\ pick.at \in {"refused", "handed"}
          /\ report.of = "list" /\ report.at = "ready" /\ report.still
          /\ pick.driver \in DOMAIN report.rows =>
          LET row == report.rows[pick.driver] IN
          /\ row.assignable /\ pick.at = "refused" =>
                \/ pick.row \in {"zone", "shift"}
                \/ pick.row = "presence" /\ floor[pick.driver].place # "here"
          /\ ~row.assignable /\ pick.at = "handed" => row.declined

\* Whoever is handed a ride, met each requirement at some moment after the tap:
\* the list on the screen counts for nothing (park_dispatch_service.ts:574-608).
HandedOnFreshFacts == pick.at = "handed" => met = Requirement

\* Of a park nothing changed at while it was read: it can dispatch only if a ride
\* would be offered to it and somebody could be assigned or none need be there,
\* and if it would be offered but cannot, nobody present is without a problem.
\* The board says the same of its drivers as of its readiness; the centre is red
\* whenever rides would come that nobody could take or nobody would see, and green
\* while the park is closed (operations_overview_service.ts:182-300,
\* park_operations_centre_service.ts:294-404).
ReportsTrue ==
    report.of \in {"board", "centre"} /\ report.at = "ready" /\ report.still =>
       /\ report.blockers = {} => OffersHere
       /\ report.blockers # {} /\ OffersHere =>
             \A d \in AssignableHere : ~FreeOfProblems(floor[d])
       /\ report.of = "board" /\ report.blockers = {} /\ gate.requireWaitingDriver =>
             report.anyone /\ ~report.paused
       /\ report.of = "centre" =>
             /\ (/\ Selectable
                 /\ \/ ~gate.staffed
                    \/ \A d \in FloorDrivers : ~FreeOfProblems(floor[d]))
                   => report.health = "red"
             /\ gate.active /\ ~gate.open => report.health = "green"

\* What the park's screens tell its staff, and what comes of it.
FloorTellsTheTruth == ListKeepsItsWord /\ HandedOnFreshFacts /\ ReportsTrue
===============================================================================
