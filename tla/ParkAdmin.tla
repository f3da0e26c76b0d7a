------------------------------ MODULE ParkAdmin -------------------------------
(***************************************************************************)
(* A park's configuration as its managers change it                        *)
(* (services/park_service.ts, behind routes/park_admin_routes.ts).         *)
(*                                                                         *)
(* Every request reads the row, changes some columns of what it read and   *)
(* saves all of it: what others wrote in between is written back.  One     *)
(* park and one staging zone of it; save's own comparison with the stored  *)
(* row and its UPDATE are one step.                                        *)
(***************************************************************************)
EXTENDS Naturals

CONSTANTS
    Managers,   \* requests that may be in flight together
    MaxParkOps  \* bound: requests in all

ASSUME ParkAdminAssumption == MaxParkOps \in Nat

VARIABLES
    park,       \* the park row
    stage,      \* its staging zone
    manager,    \* manager[m]: the request in flight and the row it read
    parkOps     \* requests so far (bound)

parkAdminVars == <<park, stage, manager, parkOps>>

-------------------------------------------------------------------------------

ParkStatus == {"none", "DRAFT", "ACTIVE", "INACTIVE", "SUSPENDED"}
ZoneState == {"none", "active", "inactive"}

\* supervised: supervisorStaffId is set.  reason: suspensionReason is.
ParkRow == [status : ParkStatus, supervised : BOOLEAN, reason : BOOLEAN]
NoSuchPark == [status |-> "none", supervised |-> FALSE, reason |-> FALSE]

ParkEdit == {"update", "name", "clear", "activate", "deactivate", "suspend"}
ZoneEdit == {"zone", "open", "close"}
Managing == [op : ParkEdit \cup ZoneEdit \cup {"create", "createZone"},
             at : {"blockers", "save"}, row : ParkRow, zone : ZoneState]
NoManager == [op |-> "none"]

ParkAdminTypeOK ==
    /\ park \in ParkRow
    /\ stage \in ZoneState
    /\ \A m \in Managers : manager[m] \in Managing \cup {NoManager}
    /\ parkOps \in 0..MaxParkOps

ParkAdminInit ==
    /\ park = NoSuchPark
    /\ stage = "none"
    /\ manager = [m \in Managers |-> NoManager]
    /\ parkOps = 0

-------------------------------------------------------------------------------

Unmanned(m) == manager[m] = NoManager

\* A request reads the park (and the zone) it is about.
Manages(m, op, first) ==
    /\ Unmanned(m) /\ parkOps < MaxParkOps
    /\ manager' = [manager EXCEPT ![m] =
          [op |-> op, at |-> first, row |-> park, zone |-> stage]]
    /\ parkOps' = parkOps + 1
    /\ UNCHANGED <<park, stage>>

\* create: no park has the code yet.
AsksToCreate(m) == park = NoSuchPark /\ Manages(m, "create", "save")

\* requirePark, and the refusals that need no further read.
requirePark == park # NoSuchPark
AsksToUpdate(m) == requirePark /\ Manages(m, "update", "save")
AsksToName(m) == \E op \in {"name", "clear"} : requirePark /\ Manages(m, op, "save")
AsksToActivate(m) == requirePark /\ Manages(m, "activate", "blockers")
AsksToDeactivate(m) == requirePark /\ Manages(m, "deactivate", "save")
AsksToSuspend(m) == requirePark /\ Manages(m, "suspend", "save")

AsksForZone(m) == requirePark /\ stage = "none" /\ Manages(m, "createZone", "save")
AsksToEditZone(m) == \E op \in ZoneEdit : stage # "none" /\ Manages(m, op, "save")

\* Mutant: activate saves without asking what is missing.
Unblocked(row) == TRUE

\* activationBlockers: the supervisor as it was read, the zones as they are now.
activationBlockers(row) == row.supervised /\ stage = "active"

ChecksBlockers(m) ==
    /\ ~Unmanned(m) /\ manager[m].at = "blockers"
    /\ manager' = [manager EXCEPT ![m] =
          IF activationBlockers(manager[m].row) THEN [@ EXCEPT !.at = "save"]
          ELSE NoManager]
    /\ UNCHANGED <<park, stage, parkOps>>

\* What op makes of the row it read.
Configured(op, row) ==
    CASE op = "activate" -> [row EXCEPT !.status = "ACTIVE", !.reason = FALSE]
      [] op = "deactivate" -> [row EXCEPT !.status = "INACTIVE"]
      [] op = "suspend" -> [row EXCEPT !.status = "SUSPENDED", !.reason = TRUE]
      [] op = "name" -> [row EXCEPT !.supervised = TRUE]
      [] op = "clear" -> [row EXCEPT !.supervised = FALSE]
      [] OTHER -> row

SavesPark(m) ==
    LET call == manager[m] IN
    /\ ~Unmanned(m) /\ call.at = "save" /\ call.op \in ParkEdit
    /\ park' = Configured(call.op, call.row)
    /\ manager' = [manager EXCEPT ![m] = NoManager]
    /\ UNCHANGED <<stage, parkOps>>

\* UQ_park_code refuses the second of two.
InsertsPark(m) ==
    /\ ~Unmanned(m) /\ manager[m].op = "create"
    /\ park' = IF park = NoSuchPark THEN [park EXCEPT !.status = "DRAFT"] ELSE park
    /\ manager' = [manager EXCEPT ![m] = NoManager]
    /\ UNCHANGED <<stage, parkOps>>

\* A zone is born active, unless the request says otherwise; UQ_zone_park_code
\* refuses a second.
SavesZone(m) ==
    LET call == manager[m] IN
    /\ ~Unmanned(m) /\ call.op \in ZoneEdit \cup {"createZone"}
    /\ \/ /\ call.op = "createZone"
          /\ IF stage = "none" THEN stage' \in {"active", "inactive"}
             ELSE UNCHANGED stage
       \/ call.op = "open" /\ stage' = "active"
       \/ call.op = "close" /\ stage' = "inactive"
       \/ call.op = "zone" /\ stage' = call.zone
    /\ manager' = [manager EXCEPT ![m] = NoManager]
    /\ UNCHANGED <<park, parkOps>>

ParkAdminNext ==
    \E m \in Managers :
        \/ AsksToCreate(m) \/ AsksToUpdate(m) \/ AsksToName(m)
        \/ AsksToActivate(m) \/ AsksToDeactivate(m) \/ AsksToSuspend(m)
        \/ AsksForZone(m) \/ AsksToEditZone(m)
        \/ ChecksBlockers(m) \/ SavesPark(m) \/ InsertsPark(m) \/ SavesZone(m)

ParkAdminSpec == ParkAdminInit /\ [][ParkAdminNext]_parkAdminVars

-------------------------------------------------------------------------------
(* Properties *)

\* A park comes into service with a supervisor, whoever was removed while it
\* was being activated, unless the request that wrote it had found it in
\* service; it comes back from a suspension only by a request that reactivates
\* or deactivates it, or that had read it before; and a suspension always has
\* its reason (park_service.ts:242-455).
ParkStep ==
    /\ park.status # "ACTIVE" /\ park'.status = "ACTIVE" =>
          \E m \in Managers :
             /\ manager[m] # manager'[m]
             /\ park'.supervised \/ manager[m].row.status = "ACTIVE"
    /\ park.status = "SUSPENDED" /\ park'.status # "SUSPENDED" =>
          \E m \in Managers :
             /\ manager[m] # manager'[m]
             /\ \/ manager[m].op \in {"activate", "deactivate"}
                \/ manager[m].row.status # "SUSPENDED"
    /\ park'.status = "SUSPENDED" => park'.reason
    /\ park'.status = "ACTIVE" => ~park'.reason
===============================================================================
