------------------------------- MODULE OpsPicker -------------------------------
(***************************************************************************)
(* How Operations see a ride and whom they may put on it: the row of the   *)
(* live queue (services/operations_queue_service.ts), the driver picker    *)
(* (operations_driver_discovery.ts), the checks of an assignment before    *)
(* the ride itself is written (operations_dispatch_service.assign, driver_ *)
(* eligibility_service.ts, manual_assignment_zone_guard.ts), and the       *)
(* service zones all three go by (service_zone_service.ts,                 *)
(* service_zone_policy.ts, scripts/zone_control.ts).                       *)
(*                                                                         *)
(* Zones are changed by a script in another process: the server goes on    *)
(* with its cached rows until they expire.  One ride is followed, and one  *)
(* dispatcher, "mine", who may hold its lease.                             *)
(***************************************************************************)
EXTENDS Naturals, FiniteSets

CONSTANTS
    PickDrivers,    \* drivers of the picker
    NoRows,         \* nothing cached
    MaxShifts       \* bound: changes of zones, drivers, ride and lease

ASSUME PickAssumption == MaxShifts \in Nat

VARIABLES
    zone,    \* zone[z]: the row of a service zone
    cached,  \* operationalCache: the rows as they were loaded, or NoRows
    crew,    \* crew[d]: driver d's rows and Redis entries
    ride,    \* the ride, its lease and its dispatch rollup
    panel,  \* the picker or the queue row being read or shown
    order,   \* the assign in flight, or how the last one ended
    passed,  \* history: checks order.driver would have passed since the tap
    shifts   \* changes so far

opsPickerVars == <<zone, cached, crew, ride, panel, order, passed, shifts>>

-------------------------------------------------------------------------------

\* The ride's own zone and another one.
Zone == {"own", "other"}
ZoneRow == [active : BOOLEAN, enforcement : {"off", "observe", "enforce"}]

\* A beat writes the position and the 45 s availability key together; only the key
\* expires, so that a position outlives the shift.
CrewEntry ==
    [profile : {"approved", "pending", "barred"}, owes : BOOLEAN, busy : BOOLEAN,
     beat : BOOLEAN, fix : Zone \cup {"outside", "none"}]

\* lies: in its own zone, found outside all of them, or never resolved.
RideRow ==
    [status : {"searching", "taken", "failed", "ended"}, cash : BOOLEAN,
     lies : {"own", "outside", "unresolved"}, control : {"auto", "mine", "theirs"},
     waited : {"no", "long", "urgent"}, rollup : {"none", "nobody", "offered"}]

Check == {"searching", "controller", "profile", "cash", "free", "zone"}
NoScreen == [of |-> "none", at |-> "none", still |-> TRUE]
NoOrder == [at |-> "idle", why |-> "none", still |-> TRUE, policy |-> "off"]

-------------------------------------------------------------------------------
(* Zones as the server reads them *)

operational(rows) == {z \in Zone : rows[z].active}

\* load(): what was cached, or the rows now.
ZoneRows == IF cached = NoRows THEN zone ELSE cached
Loads == cached' = ZoneRows

\* What there is to go by when the rows cannot be read.
NoZones == [z \in Zone |-> [active |-> FALSE, enforcement |-> "off"]]

strongest(modes) ==
    IF "enforce" \in modes THEN "enforce"
    ELSE IF "observe" \in modes THEN "observe" ELSE "off"

coverageOf(lies, rows) ==
    CASE lies = "own" /\ "own" \in operational(rows) -> "in_zone"
      [] lies = "unresolved" -> "unresolved"
      [] OTHER -> "out_of_coverage"

\* globalPosture, where no zone is in service: nobody is held to anything.
globalPosture(rows) == strongest({rows[z].enforcement : z \in operational(rows)})

\* A plausible bug: a ride outside every zone is held to nothing.
forRideInside(lies, rows) ==
    IF coverageOf(lies, rows) = "in_zone" THEN rows["own"].enforcement ELSE "off"

\* forRide: what the ride's zone asks, of rows that were read.
forRide(lies, rows) ==
    CASE coverageOf(lies, rows) = "in_zone" -> rows["own"].enforcement
      [] coverageOf(lies, rows) = "out_of_coverage" -> globalPosture(rows)
      [] OTHER -> "off"

\* resolveAgainst: the operational zone a point lies in, if any.
ZoneAt(fix, rows) == IF fix \in operational(rows) THEN fix ELSE "none"

\* zoneOfDriver, evaluate: livePositions reads the position without the key.
Violates(lies, fix, rows) ==
    \/ coverageOf(lies, rows) = "out_of_coverage"
    \/ coverageOf(lies, rows) = "in_zone" /\ ZoneAt(fix, rows) # "own"

-------------------------------------------------------------------------------
(* The world *)

ChecksNow(cr, rd, rows, d) ==
    {c \in Check :
        \/ c = "searching" /\ rd.status = "searching"
        \/ c = "controller" /\ rd.control = "mine"
        \/ c = "profile" /\ cr[d].profile # "barred"
        \/ c = "cash" /\ ~(rd.cash /\ cr[d].owes)
        \/ c = "free" /\ ~cr[d].busy
        \/ /\ c = "zone"
           /\ \/ forRide(rd.lies, rows) # "enforce"
              \/ ~Violates(rd.lies, cr[d].fix, rows)}

Watching == order.at \notin {"idle", "refused", "handed"}

\* A change of what the readings go by, from outside.
Shifted ==
    /\ shifts < MaxShifts /\ shifts' = shifts + 1
    /\ panel' = [panel EXCEPT !.still = FALSE]
    /\ order' = [order EXCEPT !.still = FALSE]
    /\ LET views == {zone', IF cached' = NoRows THEN zone' ELSE cached'} IN
       passed' = IF ~Watching THEN passed
                 ELSE passed \cup UNION {ChecksNow(crew', ride', rows, order.driver) :
                                            rows \in views}

\* setMode, by the script: a zone enforces only while it is in service.
setMode(z, row) ==
    /\ row # zone[z] /\ (row.enforcement = "enforce" => row.active)
    /\ zone' = [zone EXCEPT ![z] = row]
    /\ UNCHANGED <<cached, crew, ride>> /\ Shifted

\* The three commands: activate, rollback, setEnforcement.
ZoneControl(z) ==
    \/ setMode(z, [zone[z] EXCEPT !.active = TRUE])
    \/ setMode(z, [active |-> FALSE, enforcement |-> "off"])
    \/ \E mode \in {"off", "observe", "enforce"} :
          setMode(z, [zone[z] EXCEPT !.enforcement = mode])

\* The rows are a minute old.
CacheExpires ==
    /\ cached # NoRows /\ cached' = NoRows
    /\ UNCHANGED <<zone, crew, ride>> /\ Shifted

CrewTurns == crew' # crew /\ UNCHANGED <<zone, cached, ride>> /\ Shifted

\* updateDriverLocation: a heartbeat.
BeatArrives(d, at) ==
    crew' = [crew EXCEPT ![d].beat = TRUE, ![d].fix = at] /\ CrewTurns

\* No heartbeat for 45 s.
BeatLapses(d) == crew' = [crew EXCEPT ![d].beat = FALSE] /\ CrewTurns

\* removeDriverAvailability: the driver goes offline.
SignsOff(d) ==
    crew' = [crew EXCEPT ![d].beat = FALSE, ![d].fix = "none"] /\ CrewTurns

\* The account is reviewed, a debt booked or paid, another ride begun or ended.
CrewFileTurns(d) ==
    /\ \/ \E p \in {"approved", "pending", "barred"} :
             crew' = [crew EXCEPT ![d].profile = p]
       \/ crew' = [crew EXCEPT ![d].owes = ~@]
       \/ crew' = [crew EXCEPT ![d].busy = ~@]
    /\ CrewTurns

RideChanges ==
    /\ ride.status = "searching"
    /\ \/ \E s \in {"taken", "failed", "ended"} : ride' = [ride EXCEPT !.status = s]
       \/ \E c \in {"auto", "mine", "theirs"} : ride' = [ride EXCEPT !.control = c]
       \/ ride.waited = "no" /\ ride' = [ride EXCEPT !.waited = "long"]
       \/ ride.waited = "long" /\ ride' = [ride EXCEPT !.waited = "urgent"]
       \/ /\ ride.rollup = "none"
          /\ \E r \in {"nobody", "offered"} : ride' = [ride EXCEPT !.rollup = r]
       \/ ride.rollup = "nobody" /\ ride' = [ride EXCEPT !.rollup = "offered"]
    /\ ride' # ride /\ UNCHANGED <<zone, cached, crew>> /\ Shifted

-------------------------------------------------------------------------------
(* The queue *)

\* liveQueue reads the rides first ...
QueueReads ==
    /\ panel.of = "none"
    /\ panel' = [of |-> "queue", at |-> "evidence", still |-> TRUE, ride |-> ride]
    /\ UNCHANGED <<zone, cached, crew, ride, order, passed, shifts>>

\* assessAttention, of the ride's row and what dispatch recorded of it.
assessAttention(row, rollup) ==
    IF row.status = "failed" \/ (row.status = "searching" /\ row.waited = "urgent")
    THEN "urgent"
    ELSE IF row.status = "searching" /\ (row.waited = "long" \/ rollup = "nobody")
    THEN "warning" ELSE "none"

\* A plausible bug: a ride is healthy until it waited too long.
queueStateByWait(row, control, severity) ==
    IF control # "auto" THEN "OPERATIONS_CONTROL"
    ELSE CASE row.status = "taken" -> "ASSIGNED"
           [] row.status = "failed" -> "FAILED"
           [] row.status = "ended" -> "COMPLETED"
           [] OTHER -> IF severity = "urgent" THEN "NEEDS_ATTENTION"
                       ELSE "AUTO_HEALTHY"

queueState(row, control, severity) ==
    IF control # "auto" THEN "OPERATIONS_CONTROL"
    ELSE CASE row.status = "taken" -> "ASSIGNED"
           [] row.status = "failed" -> "FAILED"
           [] row.status = "ended" -> "COMPLETED"
           [] OTHER -> IF severity = "none" THEN "AUTO_HEALTHY" ELSE "NEEDS_ATTENTION"

\* ... then the rollups, the leases and the zones, or, when these fail, none.
liveQueue(failed) ==
    /\ panel.of = "queue" /\ panel.at = "evidence"
    /\ IF failed THEN cached = NoRows /\ UNCHANGED cached ELSE Loads
    /\ LET severity == assessAttention(panel.ride, ride.rollup)
           rows == IF failed THEN NoZones ELSE ZoneRows
       IN  panel' = [of |-> "queue", at |-> "shown",
                      still |-> panel.still /\ ~failed,
                      state |-> queueState(panel.ride, ride.control, severity),
                      severity |-> severity,
                      coverage |-> coverageOf(panel.ride.lies, rows)]
    /\ UNCHANGED <<zone, crew, ride, order, passed, shifts>>

-------------------------------------------------------------------------------
(* The picker *)

\* forRide reads the ride and its drivers, of whom only the approved are listed.
PickerReads ==
    /\ panel.of = "none"
    /\ panel' = [of |-> "picker", at |-> "presence", still |-> TRUE, ride |-> ride,
                  listed |-> {d \in PickDrivers : crew[d].profile = "approved"}]
    /\ UNCHANGED <<zone, cached, crew, ride, order, passed, shifts>>

\* A read that fails is replaced by an empty answer, and the list goes on: missed
\* says of what.  Of the drivers: nobody has a position, or nobody is eligible, or
\* nobody is in a zone.  Of the zones: the ride is held to none.
Missed(what, failed) == IF failed THEN {what} ELSE {}

\* Positions, each good only with its key.
PickerLocates(failed) ==
    /\ panel.of = "picker" /\ panel.at = "presence"
    /\ panel' = [of |-> "picker", at |-> "eligibility", still |-> panel.still,
                  ride |-> panel.ride, missed |-> Missed("drivers", failed),
                  fix |-> [d \in panel.listed |->
                              IF crew[d].beat /\ ~failed THEN crew[d].fix ELSE "none"]]
    /\ UNCHANGED <<zone, cached, crew, ride, order, passed, shifts>>

\* DriverEligibilityService.filter, without a zone policy: this panel and the
\* assignment leave zones to the guard.
filter(e, cash) == e.profile # "barred" /\ ~(cash /\ e.owes) /\ ~e.busy

PickerFilters(failed) ==
    /\ panel.of = "picker" /\ panel.at = "eligibility"
    /\ panel' = [of |-> "picker", at |-> "zones", still |-> panel.still,
                  ride |-> panel.ride, fix |-> panel.fix,
                  missed |-> panel.missed \cup Missed("drivers", failed),
                  eligible |-> {d \in DOMAIN panel.fix :
                                   ~failed /\ filter(crew[d], panel.ride.cash)}]
    /\ UNCHANGED <<zone, cached, crew, ride, order, passed, shifts>>

\* The page offers Assign unless the ride's zone is enforced and the driver is not
\* in it: a driver without a fresh position never is.
OffersThem(lies, fix, eligible, rows) ==
    {d \in eligible :
        ~(forRide(lies, rows) = "enforce" /\ coverageOf(lies, rows) # "unresolved"
            /\ Violates(lies, fix[d], rows))}

\* The zones of the drivers, then the policy of the ride, each of which may fail;
\* the policy finds the rows that the first read has cached.
PickerShows(unzoned, inert) ==
    /\ panel.of = "picker" /\ panel.at = "zones"
    /\ inert => unzoned
    /\ unzoned => cached = NoRows
    /\ IF inert THEN UNCHANGED cached ELSE Loads
    /\ LET fix == IF unzoned THEN [d \in DOMAIN panel.fix |-> "none"] ELSE panel.fix IN
       panel' = [of |-> "picker", at |-> "shown", still |-> panel.still,
                  missed |-> panel.missed \cup Missed("drivers", unzoned)
                                          \cup Missed("zones", inert),
                  coverage |-> IF inert THEN "unresolved"
                               ELSE coverageOf(panel.ride.lies, ZoneRows),
                  listed |-> DOMAIN panel.fix,
                  offered |-> IF inert THEN panel.eligible
                              ELSE OffersThem(panel.ride.lies, fix, panel.eligible,
                                              ZoneRows)]
    /\ UNCHANGED <<zone, crew, ride, order, passed, shifts>>

ScreenCloses ==
    /\ panel.of # "none"
    /\ panel' = NoScreen
    /\ UNCHANGED <<zone, cached, crew, ride, order, passed, shifts>>

-------------------------------------------------------------------------------
(* The assignment *)

\* The dispatcher taps Assign; one who never opened the picker may ask as well.
AsksFor(d) ==
    /\ ~Watching
    /\ panel.at \in {"none", "shown"}
    /\ order' = [at |-> "ride", driver |-> d, why |-> "none", policy |-> "off",
                 still |-> panel.still]
    /\ passed' = ChecksNow(crew, ride, zone, d)
                \cup ChecksNow(crew, ride, ZoneRows, d)
    /\ UNCHANGED <<zone, cached, crew, ride, panel, shifts>>

Goes(to) == order' = [order EXCEPT !.at = to]
Fails(why) == order' = [order EXCEPT !.at = "refused", !.why = why]
OnlyOrder == UNCHANGED <<zone, cached, crew, ride, panel, passed, shifts>>

ChecksRide ==
    /\ order.at = "ride"
    /\ IF ride.status = "searching" THEN Goes("control")
       ELSE Fails("RIDE_NOT_ASSIGNABLE")
    /\ OnlyOrder

ChecksControl ==
    /\ order.at = "control"
    /\ IF ride.control = "mine" THEN Goes("profile") ELSE Fails("NOT_CONTROLLER")
    /\ OnlyOrder

\* filter's three queries.
FiltersProfile ==
    /\ order.at = "profile"
    /\ IF crew[order.driver].profile # "barred" THEN Goes("cash")
       ELSE Fails("DRIVER_NOT_ELIGIBLE")
    /\ OnlyOrder

FiltersCash ==
    /\ order.at = "cash"
    /\ IF ride.cash /\ crew[order.driver].owes THEN Fails("DRIVER_NOT_ELIGIBLE")
       ELSE Goes("busy")
    /\ OnlyOrder

FiltersBusy ==
    /\ order.at = "busy"
    /\ IF crew[order.driver].busy THEN Fails("DRIVER_NOT_ELIGIBLE")
       ELSE Goes("policy")
    /\ OnlyOrder

\* ManualAssignmentZoneGuard.evaluate asks the policy, which is inert when the
\* zones cannot be loaded ...
AsksPolicy(failed) ==
    /\ order.at = "policy"
    /\ IF failed THEN cached = NoRows /\ UNCHANGED cached ELSE Loads
    /\ LET policy == IF failed THEN "off" ELSE forRide(ride.lies, ZoneRows) IN
       order' = [order EXCEPT !.at = IF policy = "off" THEN "handed" ELSE "fix",
                              !.policy = policy, !.still = @ /\ ~failed]
    /\ passed' = IF failed THEN passed \cup {"zone"} ELSE passed
    /\ UNCHANGED <<zone, crew, ride, panel, shifts>>

\* A plausible bug: a driver without a position is taken to be in the zone.
GuardsKnown(failed) ==
    /\ order.at = "fix"
    /\ IF failed THEN cached = NoRows /\ UNCHANGED cached ELSE Loads
    /\ LET violated == crew[order.driver].fix # "none"
                         /\ Violates(ride.lies, crew[order.driver].fix, ZoneRows) IN
       order' = [order EXCEPT
                    !.at = IF violated /\ order.policy = "enforce"
                           THEN "refused" ELSE "handed",
                    !.why = IF violated THEN "DRIVER_OUTSIDE_RIDE_ZONE" ELSE @,
                    !.still = @ /\ ~failed]
    /\ UNCHANGED <<zone, crew, ride, panel, passed, shifts>>

\* ... then where the driver is; a ride outside every zone is nobody's.
Guards(failed) ==
    /\ order.at = "fix"
    /\ IF failed THEN cached = NoRows /\ UNCHANGED cached ELSE Loads
    /\ LET violated == \/ failed
                       \/ Violates(ride.lies, crew[order.driver].fix, ZoneRows) IN
       order' = [order EXCEPT
                    !.at = IF violated /\ order.policy = "enforce"
                           THEN "refused" ELSE "handed",
                    !.why = IF violated /\ order.policy = "enforce"
                            THEN "DRIVER_OUTSIDE_RIDE_ZONE" ELSE @,
                    !.still = @ /\ ~failed]
    /\ UNCHANGED <<zone, crew, ride, panel, passed, shifts>>

-------------------------------------------------------------------------------

OpsPickerInit ==
    /\ zone \in [Zone -> ZoneRow]
    /\ \A z \in Zone : zone[z].enforcement = "enforce" => zone[z].active
    /\ cached = NoRows
    /\ crew = [d \in PickDrivers |->
                  [profile |-> "approved", owes |-> FALSE, busy |-> FALSE,
                   beat |-> TRUE, fix |-> "own"]]
    /\ ride \in [status : {"searching"}, cash : BOOLEAN,
                 lies : {"own", "outside", "unresolved"},
                 control : {"auto", "mine"}, waited : {"no"}, rollup : {"none"}]
    /\ panel = NoScreen /\ order = NoOrder /\ passed = {} /\ shifts = 0

WorldShifts ==
    \/ \E z \in Zone : ZoneControl(z)
    \/ CacheExpires \/ RideChanges
    \/ \E d \in PickDrivers :
          \/ \E at \in Zone \cup {"outside"} : BeatArrives(d, at)
          \/ BeatLapses(d) \/ SignsOff(d) \/ CrewFileTurns(d)

ScreenGoesOn ==
    \/ QueueReads \/ PickerReads \/ ScreenCloses
    \/ \E failed \in BOOLEAN :
          \/ liveQueue(failed) \/ PickerLocates(failed) \/ PickerFilters(failed)
          \/ \E inert \in BOOLEAN : PickerShows(failed, inert)

OrderGoesOn ==
    \/ \E d \in PickDrivers : AsksFor(d)
    \/ ChecksRide \/ ChecksControl \/ FiltersProfile \/ FiltersCash \/ FiltersBusy
    \/ \E failed \in BOOLEAN : AsksPolicy(failed) \/ Guards(failed)

OpsPickerNext == WorldShifts \/ ScreenGoesOn \/ OrderGoesOn

OpsPickerSpec == OpsPickerInit /\ [][OpsPickerNext]_opsPickerVars

-------------------------------------------------------------------------------

OpsPickerTypeOK ==
    /\ zone \in [Zone -> ZoneRow] /\ cached \in {NoRows} \cup [Zone -> ZoneRow]
    /\ crew \in [PickDrivers -> CrewEntry] /\ ride \in RideRow
    /\ panel.of \in {"none", "queue", "picker"}
    /\ order.at \in {"idle", "ride", "control", "profile", "cash", "busy", "policy",
                     "fix", "refused", "handed"}
    /\ passed \subseteq Check /\ shifts \in 0..MaxShifts

\* The picker keeps its word.  If nothing changed since it began to read, whomever
\* it offers is refused only for the lease, unless it could not read the zones; and
\* of those it lists but does not offer the guard lets through only one whose
\* position outlived his availability, unless it could not read the drivers
\* (operations_driver_discovery.ts:142-400, manual_assignment_zone_guard.ts:101-180).
PickerKeepsItsWord ==
    panel.of = "picker" /\ panel.at = "shown" /\ order.still /\ panel.still =>
       /\ order.at = "refused" /\ order.driver \in panel.offered =>
             \/ order.why \in {"NOT_CONTROLLER", "RIDE_NOT_ASSIGNABLE"}
             \/ "zones" \in panel.missed
       /\ order.at = "handed" /\ order.driver \in panel.listed \ panel.offered =>
             ~crew[order.driver].beat \/ "drivers" \in panel.missed

\* Whoever is handed the ride would have passed each check at some moment since
\* the tap, the guard's by zones the server could have had then: neither the list
\* nor a policy it was drawn with decides (operations_dispatch_service.ts:178-232).
HandedWithin == order.at = "handed" => passed = Check

\* A queue row nothing changed under: it needs attention just when a ride nobody
\* controls has waited too long or found nobody, is never called healthy when it
\* failed, and says of its zone what the picker and the guard go by
\* (operations_queue_service.ts:114-306, service_zone_policy.ts:85-188).
QueueTellsTheTruth ==
    panel.of = "queue" /\ panel.at = "shown" /\ panel.still =>
       /\ panel.state = "NEEDS_ATTENTION" <=>
             ride.status = "searching" /\ ride.control = "auto"
                /\ (ride.waited # "no" \/ ride.rollup = "nobody")
       /\ panel.state = "AUTO_HEALTHY" => ride.status = "searching"
       /\ panel.state = "OPERATIONS_CONTROL" => ride.control # "auto"
       /\ order.still /\ order.at = "handed" =>
             /\ panel.state = "OPERATIONS_CONTROL"
             /\ panel.coverage = "out_of_coverage" => order.policy # "enforce"

\* What the queue and the picker tell a dispatcher, and what comes of it.
PickerTellsTheTruth == PickerKeepsItsWord /\ HandedWithin /\ QueueTellsTheTruth
===============================================================================
