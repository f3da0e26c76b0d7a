---------------------------- MODULE DispatcherBoard ----------------------------
(***************************************************************************)
(* The dispatcher's board (keke_dispatcher/app.js with the assign route of *)
(* routes/dispatcher_routes.ts and DispatcherDashboardService behind it).  *)
(*                                                                         *)
(* The page draws the requests of the park from the last dashboard it was  *)
(* answered, one request at a time (refreshInFlight), and keeps one of     *)
(* them selected.  Taking, skipping or assigning is one guarded action at  *)
(* a time (S.busy).  Choosing a driver opens a sheet that shows one        *)
(* request; confirming it assigns the request that is selected then.  What *)
(* the park's jobs do meanwhile is the module ParkDispatch's: here every   *)
(* dashboard may be anything, and every action may be carried out or not.  *)
(* One driver is always assignable.                                        *)
(***************************************************************************)
EXTENDS Naturals

CONSTANTS
    BoardJobs,   \* jobs this park is offered
    NoBoardJob,  \* S.selectedJobId = null, no sheet
    MaxRings     \* REALERT_LIMIT

ASSUME BoardAssumption == NoBoardJob \notin BoardJobs /\ MaxRings \in Nat \ {0}

VARIABLES
    shown,     \* S.queue: what each job is to this dispatcher, as last answered
    asking,    \* refreshInFlight
    selected,  \* S.selectedJobId
    sheet,     \* the job the assign sheet shows, and whether it was confirmed
    act,       \* S.busy: the guarded action under way
    realert,   \* realertTimer and realertCount
    moved      \* history: what moved the selection under the sheet

boardVars == <<shown, asking, selected, sheet, act, realert, moved>>

-------------------------------------------------------------------------------
(* Types *)

\* "absent": not on the board; "pending": mine, offered to a driver.
JobState == {"absent", "open", "mine", "pending", "theirs"}
Boards == [BoardJobs -> JobState]
Deed == {"none", "claim", "resolve", "assign"}
Empty == [j \in BoardJobs |-> "absent"]
NoReminder == [on |-> FALSE, rung |-> 0]
NoSheet == [shows |-> NoBoardJob, sent |-> FALSE]
NoAct == [does |-> "none", on |-> NoBoardJob, at |-> "idle"]

BoardTypeOK ==
    /\ shown \in Boards /\ asking \in BOOLEAN
    /\ selected \in BoardJobs \cup {NoBoardJob}
    /\ sheet \in [shows : BoardJobs \cup {NoBoardJob}, sent : BOOLEAN]
    /\ act \in [does : Deed, on : BoardJobs \cup {NoBoardJob},
                at : {"idle", "sent", "asking"}]
    /\ realert \in [on : BOOLEAN, rung : 0..MaxRings]
    /\ moved \subseteq {"gone", "notified", "late"}

BoardInit ==
    /\ shown = Empty /\ asking = FALSE /\ selected = NoBoardJob /\ sheet = NoSheet
    /\ act = NoAct /\ realert = NoReminder /\ moved = {}

-------------------------------------------------------------------------------
(* refreshDashboard() *)

Unanswered(b) == {j \in BoardJobs : b[j] = "open"}

\* renderPendingBanner: with something unanswered the reminders run.
Reminds(b) ==
    realert' = IF Unanswered(b) = {} THEN NoReminder ELSE [realert EXCEPT !.on = TRUE]

AsksAnew == asking' = TRUE

\* The poll, a socket event, the tablet waking.
Refreshes ==
    /\ ~asking /\ AsksAnew
    /\ UNCHANGED <<shown, selected, sheet, act, realert, moved>>

Excused(cond, why) == moved' = moved \cup (IF cond THEN {why} ELSE {})

\* The dispatcher's own requests, and all that are on the board.
Mine(b) == {j \in BoardJobs : b[j] \in {"mine", "pending"}}
OnBoard(b) == {j \in BoardJobs : b[j] # "absent"}

\* A plausible bug: every refresh jumps to the most urgent request.
ReselectionsRestless(b) ==
    IF Mine(b) # {} THEN Mine(b)
    ELSE IF OnBoard(b) # {} THEN OnBoard(b) ELSE {NoBoardJob}

\* A selection that is still on the board stays; otherwise the dispatcher's own
\* request, else the most urgent.
Reselections(b) ==
    IF selected \in OnBoard(b) THEN {selected}
    ELSE IF Mine(b) # {} THEN Mine(b)
    ELSE IF OnBoard(b) # {} THEN OnBoard(b) ELSE {NoBoardJob}

\* S.busy ends with the refresh its action waits for, and with an assignment
\* whatever sheet is open then (.finally(closeAssignSheet)).
SheetAfter(does) == sheet' = IF does = "assign" THEN NoSheet ELSE sheet
ActEnds ==
    IF act.at = "asking" THEN act' = NoAct /\ SheetAfter(act.does)
    ELSE UNCHANGED <<act, sheet>>

DashboardShown ==
    /\ asking /\ asking' = FALSE /\ ActEnds
    /\ shown' \in Boards
    /\ selected' \in Reselections(shown')
    /\ Excused(selected \notin OnBoard(shown'), "gone")
    /\ Reminds(shown')

RefreshFails ==
    /\ asking /\ asking' = FALSE /\ ActEnds
    /\ UNCHANGED <<shown, selected, realert, moved>>

\* park:job_cancelled of the selected job.
CancelledEvent(j) ==
    /\ AsksAnew
    /\ selected' = (IF selected = j THEN NoBoardJob ELSE selected)
    /\ Excused(selected = j, "gone")
    /\ UNCHANGED <<shown, sheet, act, realert>>

-------------------------------------------------------------------------------
(* The dispatcher *)

NotBusy == act = NoAct
Covered == sheet # NoSheet   \* the sheet owns taps and keys
Sends(does, j) == act' = [does |-> does, on |-> j, at |-> "sent"]

\* Any touch acknowledges the reminders.
Touched == realert' = NoReminder

Selects(j) ==
    /\ ~Covered /\ shown[j] # "absent" /\ selected' = j
    /\ Reminds(shown) /\ UNCHANGED <<shown, asking, sheet, act, moved>>

\* claimJob, and promptResolve once a reason is given.
Claims(j) ==
    /\ ~Covered /\ NotBusy /\ shown[j] \in {"open", "theirs"} /\ Sends("claim", j)
    /\ Touched /\ UNCHANGED <<shown, asking, selected, sheet, moved>>

Resolves(j) ==
    /\ ~Covered /\ NotBusy /\ shown[j] # "absent"
    /\ shown[j] = "mine" \/ j = selected
    /\ Sends("resolve", j)
    /\ Touched /\ UNCHANGED <<shown, asking, selected, sheet, moved>>

\* The drivers offered to be chosen are those of a request of one's own.
OpensSheet ==
    /\ ~Covered /\ selected # NoBoardJob /\ shown[selected] = "mine"
    /\ sheet' = [shows |-> selected, sent |-> FALSE] /\ moved' = {} /\ Touched
    /\ UNCHANGED <<shown, asking, selected, act>>

LeavesSheet ==
    /\ Covered /\ sheet' = NoSheet /\ Touched
    /\ UNCHANGED <<shown, asking, selected, act, moved>>

\* sheet-confirm and assignDriver; busy, or with nothing selected, the sheet
\* closes and nothing is sent.
ConfirmsSheet ==
    /\ Covered /\ ~sheet.sent /\ Touched
    /\ IF NotBusy /\ selected # NoBoardJob
       THEN Sends("assign", selected) /\ sheet' = [sheet EXCEPT !.sent = TRUE]
       ELSE sheet' = NoSheet /\ UNCHANGED act
    /\ UNCHANGED <<shown, asking, selected, moved>>

\* A notification tapped, or its link opened; the board decides if it exists.
OpensNotified(j) ==
    /\ shown[j] # "absent" /\ selected' = j
    /\ Excused(selected # j, "notified")
    /\ Reminds(shown) /\ UNCHANGED <<shown, asking, sheet, act>>

\* The answer.  A claim selects its job and a resolved job is deselected, only
\* now; all but a failed resolve then await a refresh, which is none if one is
\* under way.
SelectsLate(done) ==
    CASE done /\ act.does = "claim" -> act.on
      [] done /\ act.does = "resolve" /\ selected = act.on -> NoBoardJob
      [] OTHER -> selected

ActAnswered(done) ==
    /\ act.at = "sent"
    /\ selected' = SelectsLate(done) /\ Excused(selected' # selected, "late")
    /\ IF ~asking /\ (done \/ act.does # "resolve")
       THEN AsksAnew /\ act' = [act EXCEPT !.at = "asking"] /\ UNCHANGED sheet
       ELSE act' = NoAct /\ SheetAfter(act.does) /\ UNCHANGED asking
    /\ UNCHANGED <<shown, realert>>

\* A plausible bug: the reminder after the last still rings.
ReminderRingsOnce ==
    /\ realert.on
    /\ realert' = IF Unanswered(shown) = {} \/ realert.rung > MaxRings THEN NoReminder
                  ELSE [realert EXCEPT !.rung = @ + 1]
    /\ UNCHANGED <<shown, asking, selected, sheet, act, moved>>

\* The 25 s timer: an unanswered request rings again, up to the limit.
ReminderRings ==
    /\ realert.on
    /\ realert' = IF Unanswered(shown) = {} \/ realert.rung >= MaxRings THEN NoReminder
                  ELSE [realert EXCEPT !.rung = @ + 1]
    /\ UNCHANGED <<shown, asking, selected, sheet, act, moved>>

BoardNext ==
    \/ \E j \in BoardJobs :
          \/ CancelledEvent(j) \/ Selects(j) \/ Claims(j)
          \/ Resolves(j) \/ OpensNotified(j)
    \/ Refreshes \/ DashboardShown \/ RefreshFails
    \/ OpensSheet \/ LeavesSheet \/ ConfirmsSheet \/ ReminderRings
    \/ \E done \in BOOLEAN : ActAnswered(done)

BoardSpec == BoardInit /\ [][BoardNext]_boardVars

-------------------------------------------------------------------------------
(* Properties *)

\* With the sheet open the page would assign the request the sheet shows,
\* unless that request left the board, a notification was opened over it, or an
\* earlier action was answered late (app.js:1903-1992): a list that re-ranks
\* under the thumb assigns nobody to another trip.
SheetKeepsItsRequest == sheet # NoSheet /\ moved = {} => selected = sheet.shows
===============================================================================
