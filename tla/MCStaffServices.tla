--------------------------- MODULE MCStaffServices ----------------------------
(*****************************************************************************)
(* What staff see and keep, on small instances: the session a page lives on  *)
(* and the account behind it, the dispatcher's, the operations and the admin *)
(* page, the live monitor, the records of parks, badges and drivers' files,  *)
(* the lists of a park's drivers and of the drivers for a ride.              *)
(* They share no state of these models: a property of one holds in every     *)
(* interleaving of them all if it holds while that one alone moves.  So a    *)
(* behaviour chooses one of them at the start and runs it, which makes the   *)
(* state space a sum and not a product.                                      *)
(*****************************************************************************)
EXTENDS StaffSession, DispatcherBoard, OpsBoard, AdminConsole, LiveMonitor,
        ParkAdmin, Badges, DriverFile, ParkFloor, OpsPicker, StaffAccounts, TLC

VARIABLE part   \* the service this behaviour runs

staffVars == <<part, sessionVars, boardVars, opsBoardVars, consoleVars,
               monitorVars, parkAdminVars, badgesVars, driverFileVars,
               floorVars, opsPickerVars, accountVars>>

StaffInit ==
    /\ SessionInit
    /\ BoardInit
    /\ OpsBoardInit
    /\ ConsoleInit
    /\ MonitorInit
    /\ ParkAdminInit
    /\ BadgesInit
    /\ DriverFileInit
    /\ FloorInit
    /\ OpsPickerInit
    /\ AccountsInit
    /\ part \in {"session", "board", "opsBoard", "console", "monitor",
                "parkAdmin", "badges", "driverFile", "floor", "picker",
                "accounts"}
    /\ part # "session" => kept = NoTokens
    /\ part # "accounts" => account = NoStaff
    /\ part # "console" => followed = "timers"
    /\ part # "floor" => gate.requireWaitingDriver
    /\ part # "picker" =>
          /\ ride.lies = "own"
          /\ \A z \in DOMAIN zone : zone[z].enforcement = "off" /\ zone[z].active
    /\ ride.cash /\ ride.control = "mine"
    /\ zone["other"] = [enforcement |-> "off", active |-> TRUE]

StaffNext ==
    /\ UNCHANGED part
    /\ \/ /\ part = "session" /\ SessionNext
          /\ UNCHANGED <<boardVars, opsBoardVars, consoleVars, monitorVars,
                         parkAdminVars, badgesVars, driverFileVars,
                         floorVars, opsPickerVars, accountVars>>
       \/ /\ part = "board" /\ BoardNext
          /\ UNCHANGED <<sessionVars, opsBoardVars, consoleVars,
                         monitorVars, parkAdminVars, badgesVars,
                         driverFileVars, floorVars, opsPickerVars,
                         accountVars>>
       \/ /\ part = "opsBoard" /\ OpsBoardNext
          /\ UNCHANGED <<sessionVars, boardVars, consoleVars, monitorVars,
                         parkAdminVars, badgesVars, driverFileVars,
                         floorVars, opsPickerVars, accountVars>>
       \/ /\ part = "console" /\ ConsoleNext
          /\ UNCHANGED <<sessionVars, boardVars, opsBoardVars, monitorVars,
                         parkAdminVars, badgesVars, driverFileVars,
                         floorVars, opsPickerVars, accountVars>>
       \/ /\ part = "monitor" /\ MonitorNext
          /\ UNCHANGED <<sessionVars, boardVars, opsBoardVars, consoleVars,
                         parkAdminVars, badgesVars, driverFileVars,
                         floorVars, opsPickerVars, accountVars>>
       \/ /\ part = "parkAdmin" /\ ParkAdminNext
          /\ UNCHANGED <<sessionVars, boardVars, opsBoardVars, consoleVars,
                         monitorVars, badgesVars, driverFileVars,
                         floorVars, opsPickerVars, accountVars>>
       \/ /\ part = "badges" /\ BadgesNext
          /\ UNCHANGED <<sessionVars, boardVars, opsBoardVars, consoleVars,
                         monitorVars, parkAdminVars, driverFileVars,
                         floorVars, opsPickerVars, accountVars>>
       \/ /\ part = "driverFile" /\ DriverFileNext
          /\ UNCHANGED <<sessionVars, boardVars, opsBoardVars, consoleVars,
                         monitorVars, parkAdminVars, badgesVars, floorVars,
                         opsPickerVars, accountVars>>
       \/ /\ part = "floor" /\ FloorNext
          /\ UNCHANGED <<sessionVars, boardVars, opsBoardVars, consoleVars,
                         monitorVars, parkAdminVars, badgesVars,
                         driverFileVars, opsPickerVars, accountVars>>
       \/ /\ part = "picker" /\ OpsPickerNext
          /\ UNCHANGED <<sessionVars, boardVars, opsBoardVars, consoleVars,
                         monitorVars, parkAdminVars, badgesVars,
                         driverFileVars, floorVars, accountVars>>
       \/ /\ part = "accounts" /\ AccountsNext
          /\ UNCHANGED <<sessionVars, boardVars, opsBoardVars, consoleVars,
                         monitorVars, parkAdminVars, badgesVars,
                         driverFileVars, floorVars, opsPickerVars>>

StaffSpec == StaffInit /\ [][StaffNext]_staffVars

\* The state of the service that runs has its type.
StaffTypeOK ==
    /\ part = "session" => SessionTypeOK
    /\ part = "board" => BoardTypeOK
    /\ part = "opsBoard" => OpsBoardTypeOK
    /\ part = "console" => ConsoleTypeOK
    /\ part = "monitor" => MonitorTypeOK
    /\ part = "parkAdmin" => ParkAdminTypeOK
    /\ part = "badges" => BadgesTypeOK
    /\ part = "driverFile" => DriverFileTypeOK
    /\ part = "floor" => FloorTypeOK
    /\ part = "picker" => OpsPickerTypeOK
    /\ part = "accounts" => AccountsTypeOK

\* The records staff keep, of a park, a badge, a driver's file and of themselves,
\* are saved whole by requests that overlap; what each row promises stands
\* nevertheless, except where a request had read the row as it writes it back
\* (park_service.ts:242-455, badge_service.ts:150-397, driver_routes.ts:27-266,
\* staff_service.ts:170-545).
RecordsStand == [][ /\ part = "parkAdmin" => ParkStep
                    /\ part = "badges" => BadgesStep
                    /\ part = "driverFile" => DriverFileStep
                    /\ part = "accounts" => AccountStep ]_staffVars

\* What staff see on their pages is what their hands act on, a phone rings for
\* something, and a page keeps its session until that session is ended, which it
\* then is: the dispatcher's sheet, the operations page and the admin page.
PagesStand ==
    /\ KeepsItsSession
    /\ SessionsEnd
    /\ SheetKeepsItsRequest
    /\ RingsForAWaitingRequest
    /\ ConsoleTellsTheTruth

\* What staff read of a park's drivers, and of the drivers for a ride, is what
\* happens when they act on it: the dispatcher's list, the operations picker.
ListsTellTheTruth == FloorTellsTheTruth /\ PickerTellsTheTruth

\* The sets whose members a service treats alike have the same two members
\* here, so that swapping these everywhere is a symmetry of every service.
Symmetry == Permutations(Watched)
===============================================================================
