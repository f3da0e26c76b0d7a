------------------------------ MODULE AdminConsole -------------------------------
(***************************************************************************)
(* The admin page (keke_admin/app.js): what its timers ask for, and on     *)
(* whom the buttons of a pane act.                                         *)
(*                                                                         *)
(* A pane shows one subject.  Opening a subject asks the server for it,    *)
(* several answers may be under way, in any order, and each pane keeps     *)
(* the subject its buttons act on in its own way:                          *)
(*   review    the driver, chosen with the answer that draws the body;     *)
(*   void      the ride, which the dialog is built around at once;         *)
(*   campaign  the campaign, chosen when it is opened;                     *)
(*   drawer    the ride under investigation, chosen with the answer; the   *)
(*             same drawer shows drivers' ledgers, which have no buttons;  *)
(*   park      the park, drawn into its buttons.                           *)
(* The panes and the timers share nothing but the section on screen, which *)
(* no pane's buttons depend on, so a behaviour follows one of them.  The   *)
(* server may carry out or refuse anything.                                *)
(***************************************************************************)
CONSTANTS
    Subjects,     \* drivers, rides, campaigns or parks, by the pane
    NoSubject     \* none; asked for, a driver's ledger

ASSUME AdminConsoleAssumption == NoSubject \notin Subjects

Panes == {"review", "void", "campaign", "drawer", "park"}
Timed == {"overview", "operations", "live-riders", "park-ops", "communications"}
Sections == Timed \cup {"other"}

VARIABLES
    followed,   \* the pane this behaviour follows, or "timers"
    signed,     \* "out", "in", or "ending": the tokens are cleared, reload awaited
    onScreen,   \* currentSection
    tab,        \* ccTab, of the communications centre
    timers,     \* sections whose timer runs
    settling,   \* sections with loads under way that end by starting its timer
    ticked,     \* history: what a timer last asked for, and was it on screen
    open,       \* the pane is visible
    chosen,     \* selectedDriverId, ccCampaignId, roDetail, currentParkId
    painted,    \* whom the pane's body shows
    photo,      \* review: whose document stands in the gallery
    thumbs,     \* review: documents on their way into the gallery now drawn
    asked,      \* answers under way; several for one subject are one member
    acting,     \* deeds under way; likewise
    late,       \* history: the last body drawn, or picture begun, came too late
    sent        \* history: the last deed, and the subject its pane showed

sessionOfPage == <<followed, signed>>
timerVars == <<onScreen, tab, timers, settling, ticked>>
paneVars == <<open, chosen, painted, photo, thumbs, asked, acting, late, sent>>
consoleVars == <<sessionOfPage, timerVars, paneVars>>

Someone == Subjects \cup {NoSubject}

ConsoleTypeOK ==
    /\ followed \in Panes \cup {"timers"} /\ signed \in {"out", "in", "ending"}
    /\ onScreen \in Sections /\ tab \in {"dashboard", "campaigns"}
    /\ timers \subseteq Timed /\ settling \subseteq {"park-ops", "communications"}
    /\ ticked \in BOOLEAN
    /\ open \in BOOLEAN /\ {chosen, painted, photo} \subseteq Someone
    /\ thumbs \subseteq Subjects /\ asked \subseteq Someone
    /\ acting \subseteq Subjects /\ late \in BOOLEAN
    /\ sent \in [on : Someone, shown : Someone, late : BOOLEAN]

NoAction == [on |-> NoSubject, shown |-> NoSubject, late |-> FALSE]

\* The page before anybody is signed in.
ConsoleInit ==
    /\ followed \in Panes \cup {"timers"} /\ signed = "out"
    /\ onScreen = "overview" /\ tab = "dashboard"
    /\ timers = {} /\ settling = {} /\ ticked = TRUE
    /\ open = FALSE /\ chosen = NoSubject /\ painted = NoSubject
    /\ photo = NoSubject /\ thumbs = {} /\ asked = {} /\ acting = {}
    /\ late = FALSE /\ sent = NoAction

-------------------------------------------------------------------------------
(* The session *)

\* init(): the page works once it knows who is signed in.
ConsoleStarts ==
    /\ signed = "out" /\ signed' = "in" /\ timers' = {"overview"}
    /\ UNCHANGED <<followed, onScreen, tab, settling, ticked, paneVars>>

\* handleStaffSessionExpired(), from an answer whose token could not be renewed,
\* and handleLogout(): the tokens go at once, the page with the reload.
SessionOver ==
    /\ signed = "in" /\ signed' = "ending"
    /\ UNCHANGED <<followed, timerVars, paneVars>>

StartsOver ==
    /\ signed = "ending" /\ signed' = "out"
    /\ onScreen' = "overview" /\ tab' = "dashboard"
    /\ timers' = {} /\ settling' = {}
    /\ open' = FALSE /\ chosen' = NoSubject /\ painted' = NoSubject
    /\ photo' = NoSubject /\ thumbs' = {} /\ asked' = {} /\ acting' = {}
    /\ late' = FALSE /\ UNCHANGED <<followed, ticked, sent>>

\* adminFetch() throws: refused, unreachable, or the session is over.
Throws == signed' \in {signed, "ending"}

-------------------------------------------------------------------------------
(* Sections and their timers *)

Shows(s) == s = onScreen /\ (s = "communications" => tab = "dashboard")

\* The timers that survive switchSection(s).
Survive(s) ==
    timers \ ({"live-riders"} \cup (IF s = "operations" THEN {} ELSE {"operations"}))

\* switchSection(s): the auto-refresh of the section entered starts if ticked.
SwitchSection(s) ==
    /\ s # "park-ops" /\ onScreen' = s
    /\ \E box \in BOOLEAN :
          timers' = Survive(s) \cup
              (IF box /\ s \in {"live-riders", "operations"} THEN {s} ELSE {})
    /\ settling' = settling \cup
          (IF s = "communications" /\ tab = "dashboard" THEN {s} ELSE {})
    /\ UNCHANGED <<tab, ticked>>

\* openParkOps(): its timer starts when the park has been loaded.
OpenParkOps ==
    /\ onScreen' = "park-ops" /\ timers' = Survive("park-ops")
    /\ settling' = settling \cup {"park-ops"} /\ UNCHANGED <<tab, ticked>>

\* ccSwitch(), or ccOpen(), which leaves the dashboard's timer to its own check.
CcSwitch ==
    /\ onScreen = "communications" /\ timers' = timers \ {"communications"}
    /\ tab' \in {"dashboard", "campaigns"}
    /\ settling' = settling \cup (IF tab' = "dashboard" THEN {onScreen} ELSE {})
    /\ UNCHANGED <<onScreen, ticked>>

CcOpens ==
    /\ onScreen = "communications" /\ tab' = "campaigns"
    /\ UNCHANGED <<onScreen, timers, settling, ticked>>

\* The auto-refresh box of the section on screen.
ToggleAutoRefresh ==
    /\ onScreen \in {"live-riders", "operations"}
    /\ timers' \in {timers \ {onScreen}, timers \cup {onScreen}}
    /\ UNCHANGED <<onScreen, tab, settling, ticked>>

\* Loaded, wherever the reader is by now; a dashboard that fails starts nothing.
Settles(s) ==
    /\ s \in settling /\ settling' \in {settling \ {s}, settling}
    /\ timers' \in {timers \cup {s}} \cup (IF s = "park-ops" THEN {} ELSE {timers})
    /\ UNCHANGED <<onScreen, tab, ticked>>

\* What each timer looks at before it asks: Live Riders' looks at nothing.
Looks(s) == s = "live-riders" \/ Shows(s)

Ticks(s) ==
    /\ s \in timers
    /\ IF Looks(s)
       THEN /\ ticked' = Shows(s) /\ UNCHANGED timers
            /\ settling' = settling \cup (IF s = "communications" THEN {s} ELSE {})
       ELSE /\ timers' = timers \ ({s} \cap {"park-ops", "communications"})
            /\ UNCHANGED <<ticked, settling>>
    /\ UNCHANGED <<onScreen, tab>>

TimersNext ==
    /\ \/ \E s \in Sections : SwitchSection(s) \/ Settles(s) \/ Ticks(s)
       \/ OpenParkOps \/ CcSwitch \/ CcOpens \/ ToggleAutoRefresh
    /\ UNCHANGED <<sessionOfPage, paneVars>>

-------------------------------------------------------------------------------
(* Panes *)

\* The body of a pane, redrawn: answers for it drop out with what they fill.
Paint(x) == painted' = x /\ photo' = NoSubject

\* reviewDriver(), openRideInvestigation(), openParkDetail(), ccOpen(): the
\* subject is asked for; all but the review show "Loading" meanwhile.
OpensSubject(x) ==
    /\ followed # "void" /\ asked' = asked \cup {x}
    /\ IF followed = "review"
       THEN UNCHANGED <<open, painted, photo, thumbs, late>>
       ELSE open' = TRUE /\ Paint(NoSubject) /\ late' = FALSE /\ UNCHANGED thumbs
    /\ chosen' = IF followed \in {"campaign", "park"} THEN x ELSE chosen
    /\ UNCHANGED <<acting, sent>>

\* openDriverLedger(), in the drawer of the investigation.
OpensLedger ==
    /\ followed = "drawer" /\ asked' = asked \cup {NoSubject}
    /\ open' = TRUE /\ painted' = NoSubject
    /\ UNCHANGED <<chosen, photo, thumbs, acting, late, sent>>

\* voidRide(): a new dialog for the ride, in the place of any other.
OpensVoid(x) ==
    /\ followed = "void" /\ open' = TRUE /\ painted' = x /\ chosen' = x
    /\ UNCHANGED <<photo, thumbs, asked, acting, late, sent>>

\* A plausible bug: a review that has its driver keeps it.
ChoosesFirst(x) ==
    IF \/ followed = "review" /\ chosen = NoSubject
       \/ followed = "drawer" /\ x # NoSubject
    THEN x ELSE chosen

\* The answer is drawn, whoever was opened since.
Chooses(x) ==
    IF followed = "review" \/ (followed = "drawer" /\ x # NoSubject)
    THEN x ELSE chosen

Painted(x) ==
    /\ Paint(x) /\ chosen' = Chooses(x)
    /\ open' = (open \/ followed = "review")
    /\ late' = (followed = "campaign" /\ x # chosen)
    /\ thumbs' \in (IF followed = "review" THEN {{}, {x}} ELSE {{}})

NotPainted ==
    /\ Throws /\ UNCHANGED <<open, chosen, photo, thumbs, late>>
    /\ painted' = IF followed \in {"drawer", "park"} THEN NoSubject ELSE painted

Answered(x) ==
    /\ x \in asked /\ asked' \in {asked \ {x}, asked}
    /\ \/ Painted(x) /\ UNCHANGED signed
       \/ NotPainted
    /\ UNCHANGED <<acting, sent>>

\* A document of the gallery now drawn: its picture, or a cross.
ThumbArrives(x) ==
    /\ x \in thumbs /\ photo' \in {x, NoSubject}
    /\ thumbs' \in {thumbs, thumbs \ {x}}
    /\ UNCHANGED <<signed, open, chosen, painted, asked, acting, late, sent>>

\* uploadDriverDoc() is done, the picture begun again in whatever gallery is
\* there now; a reader can have opened another driver since.
UploadDone(x) ==
    /\ followed = "review" /\ painted # NoSubject
    /\ thumbs' = thumbs \cup {x} /\ late' = (late \/ x # painted)
    /\ UNCHANGED <<signed, open, chosen, painted, photo, asked, acting, sent>>

\* closeModal(), the dialog's close(), closeRideInvestigation().
Shut == open' = FALSE /\ chosen' = NoSubject
Closes ==
    /\ open /\ followed \in {"review", "void", "drawer"} /\ Shut
    /\ UNCHANGED <<signed, painted, photo, thumbs, asked, acting, late, sent>>

\* On whom a pane's buttons act: those of a park, of the void dialog and of a
\* campaign's approval were drawn with their subject in them.
Targets ==
    CASE followed \in {"void", "park"} -> {painted}
      [] followed = "campaign" -> {painted, chosen}
      [] OTHER -> {chosen}

\* Approve, reject, suspend, activate; void; save or switch a channel, or have
\* the campaign approved; reveal a contact; activate or suspend a park.
Acts(x) ==
    /\ open /\ painted # NoSubject /\ x \in Targets
    /\ acting' = acting \cup {x}
    /\ sent' = [on |-> x, shown |-> painted, late |-> late]
    /\ UNCHANGED <<signed, open, chosen, painted, photo, thumbs, asked, late>>

\* Done: a review closes, whichever it is; a dialog closes itself; the campaign or
\* park acted on, or the one chosen by now, is opened again.
ActDone(x) ==
    /\ x \in acting /\ acting' \in {acting \ {x}, acting} /\ UNCHANGED sent
    /\ \/ Throws /\ UNCHANGED <<open, chosen, painted, photo, thumbs, asked, late>>
       \/ /\ UNCHANGED signed
          /\ CASE followed = "review" ->
                    Shut /\ UNCHANGED <<painted, photo, thumbs, asked, late>>
               [] followed = "void" ->
                    /\ (painted = x /\ Shut) \/ UNCHANGED <<open, chosen>>
                    /\ UNCHANGED <<painted, photo, thumbs, asked, late>>
               [] followed = "drawer" ->
                    UNCHANGED <<open, chosen, painted, photo, thumbs, asked, late>>
               [] OTHER ->
                    \E again \in {x, chosen} :
                       /\ asked' = asked \cup {again} /\ chosen' = again
                       /\ Paint(NoSubject) /\ open' = TRUE /\ late' = FALSE
                       /\ UNCHANGED thumbs

PaneNext ==
    /\ \/ \E x \in Subjects :
              \/ (OpensSubject(x) \/ OpensVoid(x)) /\ UNCHANGED signed
              \/ ThumbArrives(x) \/ UploadDone(x) \/ Acts(x) \/ ActDone(x)
       \/ \E x \in Someone : Answered(x)
       \/ OpensLedger /\ UNCHANGED signed
       \/ Closes
    /\ UNCHANGED <<followed, timerVars>>

ConsoleNext ==
    \/ ConsoleStarts \/ SessionOver \/ StartsOver
    \/ signed # "out" /\ followed = "timers" /\ TimersNext
    \/ signed # "out" /\ followed # "timers" /\ PaneNext

ConsoleSpec == ConsoleInit /\ [][ConsoleNext]_consoleVars

-------------------------------------------------------------------------------
(* Properties *)

\* A button acts on the driver, ride, campaign or park its pane shows, in
\* whatever order the answers came (app.js:1358-1440, 1557-1592, 641-721,
\* 4818-4845), but for a campaign whose answer came after another was opened.
ActsOnWhatIsShown == sent.on # sent.shown => followed = "campaign" /\ sent.late

\* A review shows the documents of its own driver (app.js:1422-1429, 1519-1538),
\* unless a replacement was answered after another review had been drawn.
PhotoIsTheirs == photo # NoSubject /\ ~late => photo = painted

\* A timer asks only for the section on screen, as init() and the polls say
\* (app.js:138-152, 967-985, 2479-2495, 2531-2544, 3105-3117).
PollsOnScreen == ticked

ConsoleTellsTheTruth == ActsOnWhatIsShown /\ PhotoIsTheirs /\ PollsOnScreen
===============================================================================
