# KekeRide: a TLA+ model of the ride, its money and the people around it

KekeRide matches passengers with drivers of three-wheelers. Everything that
decides what happens to a ride is one Node.js program,
`apps/keke_backend/src`, with PostgreSQL for what lasts and Redis for what
expires; the passenger's and the driver's phones (`apps/keke_passenger`,
`apps/keke_driver`), the dispatcher's pages (`apps/keke_dispatcher`) and the
admin page (`apps/keke_admin`) are clients of it, and each of them keeps a
picture of its own that events and answers move. A handler runs without
interruption from one `await` to the next, and at every `await` any other
handler, timer, sweep or second process may run. This directory holds TLA+
modules of the parts where those interleavings decide who owns a ride, who is
charged, who is in control, who is told what; the configurations that
model-check them; and proofs, checked by TLAPS, of what matters most.

Paths without a prefix are relative to `apps/keke_backend/src`.

## 1. Inventory

| component | state it keeps | hard behaviour | what makes it correct | module |
|---|---|---|---|---|
| Ride lifecycle (`sockets/socket_handler.ts`, `services/ride_cleanup_service.ts`, `index.ts`) | the `ride` row, the Redis lock | conditional updates beside writes by primary key after several awaits; a restart loses every suspended handler | one winner per ride; an ended ride stays ended; a live ride has its driver | `RideLifecycle`, `RideAssignment` |
| Settlement and recovery (`settleAndComplete`, `services/wallet_service.ts`, `services/financial_recovery_worker.ts`, `routes/admin_routes.ts`) | the financial columns, the ledger | a posting commits and its answer is lost; check and posting are not one transaction | no completed ride loses its money unnoticed; nothing quarantined is charged | `RideSettlement` |
| Operations control (`services/ride_control_service.ts`, `operations_control_sweeper.ts`, `operations_dispatch_service.ts`) | the lease row | leases against a clock; late requests; a sweep over stale reads | one dispatcher at a time; a lapsed lease returns; no second way to gain a driver | `OpsControl` |
| Dispatch orchestrator and reservations (`services/dispatch_orchestrator.ts`, `services/dispatch_service.ts`) | runs in memory, `driver:reserved:{id}` with a TTL | a key lapses under an open offer; a run is aborted at any await | one search rings a driver at a time; a search that ended frees its drivers | `DispatchRounds` |
| Passenger slot (`services/dispatch_service.ts`, `ride:request`) | `passenger:active:{id}` | TTL, orphans, a check and a save apart | one live ride per passenger; nobody locked out | `PassengerSlot` |
| Stale-ride coordination (`services/stale_ride_service.ts`, `stale_ride_sweeper.ts`) | prompts, answers, requests on the row | answers race the sweep and each other | nobody is cancelled unasked | `Coordination` |
| Park dispatch (`services/park_dispatch_service.ts`, `park_job_sweeper.ts`, `park_selection_service.ts`) | park jobs | a release reads what was tried and saves later; late answers | somebody looks, each park once, only one's own answer | `ParkDispatch` |
| Driver intent and wake-up (`services/driver_intent_service.ts`, `driver_wake_service.ts`) | the intent row, the 45 s key | a beat under way when the driver leaves | nobody is dragged back on | `DriverIntent` |
| Passenger app, driver app, coordination card (Flutter controllers) | step, ride, timers, card | two channels in no order with each other | quiet means true | `PassengerApp`, `DriverApp`, `CoordinationCard` |
| Wallets, top-ups, payouts (`services/wallet_service.ts`, `paystack_service.ts`, `admin_service.ts`) | wallet row, ledger, payout rows | a payout, and the entries a void undoes, read without a lock; a credit committed apart from its record | the columns add up | `WalletBooks` |
| Idempotency keys (`services/idempotency_service.ts`) | a Redis key | expiry, unreachable Redis, retries | retries run the action once | `Replay` |
| Lifecycle automation (`services/lifecycle_automation_service.ts`) | one row per ride event | several workers, lost answers, crashes, a failing record of what was sent | one message | `Outreach` |
| E-mail campaigns (`services/multichannel_campaign_service.ts`, `campaign_calendar_service.ts`, `campaign_dispatch_worker.ts`) | the campaign, its recipients | every save writes a whole old row; several workers; a provider that delivers what it is handed | nobody twice without a named cause; what was approved is sent | `Campaigns` |
| Mail feedback and consent (`services/email_webhook_service.ts`, `marketing_consent_service.ts`) | recipients, suppression list, preferences | webhooks in any order, overlapping saves | stop means stop | `MailFeedback` |
| Park rosters, queue, presence (`services/park_roster_service.ts`, `driver_presence_service.ts`, `park_auto_presence_service.ts`) | memberships with a position, presence | read, save, compact as three calls; an evaluation under way | places 1..n; the dispatcher's word stands | `ParkRoster` |
| Shifts, staff phones, escalation (`services/dispatcher_shift_service.ts`, `staff_push_service.ts`, `staff_push_escalation.ts`) | shifts, device rows, alert keys | a push read its phones long ago; a sweep in every process | who is off duty is left alone; three alerts and one more for each that could not be marked | `Duty` |
| Staff session (`services/staff_auth_service.ts`, `keke_dispatcher/app.js`) | tokens on both sides | several refreshes at once, lost answers, a database that fails, a sign-in before an old refresh is answered | losing the signal signs nobody out | `StaffSession` |
| Staff accounts (`services/staff_service.ts`, `staff_auth_service.ts`, `middleware/staff_auth.ts`) | the account's row with its credential version, the sessions' rows | requests that save the row they read around a bump made in place | an account is whole; what was ended stays ended | `StaffAccounts` |
| Dispatcher page, operations page, admin page | boards, sheets, rings, timers, panes | an answer arrives after the page moved on | buttons act on what is shown; it rings for something | `DispatcherBoard`, `OpsBoard`, `AdminConsole` |
| Dispatch monitor (`services/dispatch_monitor_service.ts`, `dispatch_monitor_query_service.ts`, `live_requests.js`) | ledger, trail, frames | a sync and a frame overtake each other | a quiet row is true | `LiveMonitor` |
| Parks, badges, drivers' files (`services/park_service.ts`, `badge_service.ts`, `routes/driver_routes.ts`) | rows saved whole | overlapping requests | what each row promises | `ParkAdmin`, `Badges`, `DriverFile` |
| Park lists and centre (`services/driver_recommendation_service.ts`, `dispatcher_dashboard_service.ts`, `park_operations_centre_service.ts`) | none of its own: it reads | tables read one after another | a list keeps its word | `ParkFloor` |
| Service zones, operations queue and picker (`services/service_zone_*.ts`, `operations_driver_discovery.ts`, `operations_queue_service.ts`) | zones and a cache of them | a stale cache, checks one by one | as listed, as guarded | `OpsPicker` |
| Marketing push, alerts and push transport, ride integrity and zone geometry, overview counters, the admin page's other forms, what a permission allows, deployment | | | outside the models, see section 6 | |

How they interact. `ride:request` takes the passenger's slot, saves the row
and starts a dispatch run; the run reserves and rings drivers; an acceptance,
wherever it comes from, goes through `assignDriverToRide`, which claims the
row, gives a lease back and stops the run. A takeover aborts the run; a run
that found nobody falls back to `ParkDispatchService.offerToPark` and then
fails the ride. The sweeps cancel through `RideCleanupService.terminate`;
completion settles the money and the recovery worker repairs what failed.
Clients hear of all this by socket events, in order and lossy, and by answers
of HTTP requests, in no order with them.

PROJECT.json lists the hazards of this code at the lines where they bite, each
with the properties that watch it.

## 2. How state and actions correspond to the code

One module per component; an action is what a handler does between two awaits
that matter, named as in the source where it has a name. `map` in PROJECT.json
gives the lines of every definition.

*Awaits.* A request in flight is an element of a constant set (`Handlers`,
`Clerks`, `Desks`, `Admins`, `Filings`, ...), and a variable (`call`, `clerk`,
`errand`, ...) has the await it is suspended at and the values it has read. A
check the code makes in a read and repeats in the `WHERE` of its `UPDATE` is
modelled by the `UPDATE` alone, since the read can only refuse more. A check
that only the read makes is two actions with everything else in between.

*Whole-row saves.* TypeORM's `save` writes each column in which the object in
memory differs from the row: the row becomes what was read with the
operation's change. Campaigns, badges, parks, drivers' files, memberships,
device rows, payouts, staff accounts and their sessions are modelled so.

*Failures.* An await that rejects is an action leading to the catch block that
the code has there (`Throw`, `SettleFails`, `WorkerThrows`, ...). A
write that committed while its answer was lost is the write followed by the
failure. A restart loses every invocation and keeps rows, ledger and Redis.

*Clients.* A phone's screen is fed by a sequence (`wire`, `signals`, `post`,
frames) that may be dropped with the connection, and by answers that were true
when the server read the row. A history variable (`doubt`, `misled`, `misread`,
`slipped`) records that the code itself gave the phone reason to be wrong: an
event lost, an answer overtaken, a ride that ended without an event its driver's
app handles, a map laid out over a ride booked meanwhile. The properties are about screens with no such
excuse; they say that everything else, in any order, comes right.

*Servers as seen from a page.* In DispatcherBoard, OpsBoard and AdminConsole
any answer may come and any action may be carried out or refused: what a page
does is checked against every server.

*Excuses on the server's side.* Several components keep their promise except
where the code does two things at once that it does not protect: `raced` (two
admins write one payout), `met` (two voids of one ride), `disturbed` (two requests meet on a queue), `lapsed`
(a reservation's TTL ran out under its ride), `unprotected` (Redis out of
reach), `doubtful` (a message whose answer was lost, which nobody wrote down, or
which was in the hands of two workers), `answerLost` and `unrecorded` (a push
unconfirmed, or confirmed and put back in the queue), `unmarked` (an alert sent
and not marked as sent), `overtaken` and `unread` (a session: an answer of an
earlier refresh or sign-in, a database failure answered 401), `missed` (what a
read of the picker failed to tell), `crossed`, `dropped`. These are history variables, set by the very
step; a property names its excuse, and its comment says so. A
property with an excuse does not say that the race is harmless: it says that
nothing else has its effect.

*What is left out of the modelled parts.* Refusals by geofence, debt, zone,
permission and validation, unless a property is about them: an action may
simply not happen. Emitted events nothing in the model reads, audit rows,
wording. `completedAt`, which is written with a final status that is never
left. The lease row's version, which makes a release refused more often. Ride
ids are a phone's clock in milliseconds; the model takes them to be fresh.

## 3. What each run checks

Passing runs:

| run | instance | distinct states | what it shows |
|---|---|---|---|
| `lifecycle` | 1 ride, 2 drivers, 2 invocations | 67,035 | types; `OwnershipInv`: driver and start exactly as the status says, in spite of the writes by primary key; `EndedNeverRevived`; `ImplementsAssignment`: every behaviour is one of RideAssignment; `RunEnds`: every dispatch loop ends |
| `settlement` | 1 ride, 2 invocations, the worker, 2 attempts, 2 charges | 76,869 | types; `Accounted`: a completed ride has its posting or a flag that says why not; `HistoricalUntouched`; `FailureResolved` |
| `ops_control` | 1 ride, 1 driver, 1 invocation, 2 dispatchers, lease of 1, clock to 1 | 414,357 | types; `LiveLeaseNotStolen`; `ImplementsLifecycle`; `ExpiredReturns` |
| `ride_services` | the eight components around a ride | 2,034,298 | `RungByOne`, `OwnEndFreesDrivers` (DispatchRounds), `GuardedRideAlone`, `NoOrphanSlot` (PassengerSlot), `CancelledForCause` (Coordination), `SearchHeld` (ParkDispatch), `NoDragging` (DriverIntent), `QuietMeansTrue` (PassengerApp), `OnTheRide` (DriverApp), `NoGhostQuestion` (CoordinationCard), types |
| `back_services` | the seven services behind the rides | 1,671,508 | `BooksStand`, `VoidUndoes` (WalletBooks), `EmailOnce`, `SentAsApproved` (Campaigns), `PushedOnce` (Outreach), `RunsOnce` (Replay), `Silent` (MailFeedback), `QueueInOrder`, `DispatchersWordStands` (ParkRoster), `AlertsOnDuty` (Duty), types |
| `staff_services` | the eleven parts staff work with | 1,927,367 | `PagesStand` (StaffSession, DispatcherBoard, OpsBoard, AdminConsole, and of StaffAccounts `SessionsEnd`), `RecordsStand` (ParkAdmin, Badges, DriverFile, and of StaffAccounts `AccountStep`), `ListsTellTheTruth` (ParkFloor, OpsPicker), `MonitorTellsTheTruth` (LiveMonitor), types |

Runs that must find a violation: each states what a comment or message of the
repository says, and the counterexample is what the code does instead
(PROJECT.json, "findings", quotes both).

| run | property | the behaviour found |
|---|---|---|
| `double_assignment` | `OneLiveRidePerDriver` | two claims of one driver both pass the busy read |
| `retry_twice` | `RetryIsNoop` | two retries count no entries, then both post |
| `sweeps_live` | `SweepSparesLive` | a lease re-taken after the sweep's read is stripped |
| `void_twice` | `VoidedOnce` | two voids of one ride read its entries before either locks the wallet: the ride is undone twice |
| `unanswered_request` | `UnansweredRequestStands` | a request nobody answers is refused by `terminate` for want of a prompt that is never sent while it is pending |
| `commission_exact` | `CommissionExact` | a cash ride of a driver with a negative balance charges more than its commission |

### Bounds and why they are enough

- *The group runs.* The components in `ride_services`, `back_services` and
  `staff_services` share no variable. A behaviour of the MC module picks one at
  the start (`part`) and runs it: for invariants and action properties, which
  are all these runs check, that covers every interleaving of them, because
  a step of one leaves what the others' properties read; and the states add up
  where a product could not be searched.
- *Symmetry.* The sets with the members `m1`, `m2` are swapped together in all
  components; none of them tells its members apart. Runs with liveness use no
  symmetry.
- *Requests in flight.* Two per component, three where a third is a party of
  its own (idempotent calls, passenger requests): every race in the hazards is
  between two of these, and one that ends may begin again as another, so the
  length of a behaviour is bounded only where a counter is.
- *Counters.* `MaxAttempts`, `MaxCharges`, `MaxTries`, `MaxRounds`,
  `MaxTiers`, `MaxExtensions`, `MaxParks`, `UnreachableAfter`, `MaxRings` are
  the code's numbers made small: 2 has a first that is not the last. `MaxOps`,
  `MaxEdits`, `MaxTokens`, `MaxPolls`, `MaxWire`, `MaxSignals`, `MaxPost`,
  `MaxMoments`, `MaxWaits`, `MaxToggles`, `MaxShifts`, `MaxParkOps`,
  `MaxSerial`, `MaxIssues`, `MaxFiles`, `MaxFilings`, `MaxVersion`,
  `MaxPasses`, `MaxLetters`, `MaxOfficeOps`, `MaxOffers`, `MaxSyncs`,
  `MaxFrames`, `MaxFixes`, `MaxUnmarked`, `MaxTurns`, `MaxCredits`, `MaxPayout`, `MaxTime` bound what the
  program does without end; at the bound the action stops and everything else
  goes on. The proofs hold for every value of them.
- *Starts.* In `staff_services` the picker starts with a cash ride held by the
  dispatcher and a second zone that is active and enforces nothing; in `back_services` a campaign may start scheduled and a park may
  start with a queue; a staff account starts as nobody's or as that of a
  person who signed in; rides of `settlement` may start as the migration left the
  historical ones. These are states the program reaches.
- *Larger instances*, searched once with the same properties: DriverIntent with
  2 beats and 2 knocks (1.2 million states), PassengerSlot with 3 requests
  (145,320), DispatchRounds with 2 rides and 2 rounds (2.0 million) and with 2
  drivers and 2 tiers (129,983), ParkAdmin with 8 requests (96,311), ParkRoster
  with 3 drivers and 1 clerk (77,597), ParkFloor with 3 turns (11.0 million) and
  with 2 drivers and 2 turns (5.1 million), StaffAccounts with one more version
  (422,201).

### Fairness and why the code justifies it

- `RunEnds`: weak fairness of `Search(r)`. The lifetime timer aborts a run that
  is still in its rounds, an abort wakes every sleep, and an await of the
  database settles. That a call fails is never assumed.
- `FailureResolved`: weak fairness of the worker's tick and of time; strong
  fairness of the worker getting to a ride of its batch and of recording its
  attempt, because a tick may be cut off by an error or a restart any number of
  times, though not for ever.
- `ExpiredReturns`: weak fairness of the sweep's read, which a timer drives,
  and strong fairness of each release, for the same reason.
- `UnansweredRequestStands` (refuted): weak fairness of the sweep, which an
  interval drives, of a handler that is suspended getting on, and of the two
  clocks (the deadline passes, the answer window closes). The counterexample
  is of a system that keeps sweeping.

No client, driver, passenger or dispatcher is assumed ever to do anything.
Deadlock is not checked in the group runs: each service stops when its
counters are used up.

## 4. What is proved

For every value of the constants that the named assumptions allow (nulls are
not values, sets that are counted are finite, bounds are numbers; in
WalletBooks, that a Paystack reference belongs to one user). The `_proofs`
modules hold the theorems; where one states a run's property, the run shows it
on a small instance.

| theorem | states | from the inductive invariant |
|---|---|---|
| `RideLifecycle_proofs!TypeCorrect`, `Ownership`, `StillValid` | `TypeOK`, `OwnershipInv`, `CallInv` | `IInv`: these three together |
| `RideLifecycle_proofs!NeverRevived`, `Implementation` | `EndedNeverRevived`; `Spec => ImplementsAssignment` | `IInv` |
| `RideSettlement_proofs!TypeCorrect`, `NothingLost`, `StillBacked`, `NeverTouched` | `TypeOK`, `Accounted`, `BackedInv`, `HistoricalUntouched` | `Accounted` with `BackedInv` |
| `OpsControl_proofs!OpsTypeCorrect`, `OpsImplements`, `OpsOwnership`, `LeaseSafe` | `OpsTypeOK`; `OpsSpec => ImplementsLifecycle`; RideLifecycle's `OwnershipInv` under Operations; `LiveLeaseNotStolen` | types with `DeskInv` |
| `DispatchRounds_proofs!RoundsTypes`, `NoDoubleRing`, `EndsReleased` | types, `RungByOne`, `OwnEndFreesDrivers` | `RoundsInv` |
| `RideServices_proofs!CoordTypes`, `Cause`, `NoSilentCancellation` | types, `CancelledForCause`, `AskedBeforeUnanswered` | `CoordInv` |
| `RideServices_proofs!SlotTypes`, `OneGuardedRide`, `NobodyLockedOut` | types, `GuardedRideAlone`, `NoOrphanSlot` | `SlotInv` |
| `RideServices_proofs!ParkTypes`, `SomebodyLooks`, `EachParkOnce`, `OnlyTheirAnswer` | types, `SearchHeld`, `TriedOnce`, `OwnAnswerOnly` | `ParkInv` |
| `RideServices_proofs!IntentTypes`, `NobodyDragged` | types, `NoDragging` | `IntentInv` |
| `BackServices_proofs!RetryRunsOnce` | `RunsOnce` | `ReplayInv` |
| `BackServices_proofs!OnePush` | `PushedOnce` | `OutInv` |
| `BackServices_proofs!CampaignTypes`, `OneEmail`, `OnlyReviewed`, `ApprovedIsSent` | types, `EmailOnce`, nothing sent unreviewed, `SentAsApproved` | `CampaignInv` |
| `BackServices_proofs!MailTypes`, `StopMeansStop`, `EndsStand` | types, `Silent`, final recipients stay final | `MailInv` |
| `BackServices_proofs!DutyTypes`, `DutyAlerts` | types, `AlertsOnDuty` | `DutyInv` |
| `BackServices_proofs!QueueStands`, `WordStands` | `QueueInOrder`, `DispatchersWordStands` | `RosterInv` |
| `BackServices_proofs!BooksHold` | `BooksStand`, `VoidUndoes` | `BooksInv` |
| `RideServices_proofs!QuietTrue` | `QuietMeansTrue` | `AppInv` |
| `RideServices_proofs!DriverSeesTheRide` | `OnTheRide` | `DriverInv` |
| `RideServices_proofs!NoGhost` | `NoGhostQuestion` | `CardInv` |
| `StaffServices_proofs!PagesTrue` | `StaffSpec => []PagesStand` | `SessionInv`, `BoardInv`, `OpsBoardInv`, `ConsoleInv`, `AccountsInv` |
| `StaffServices_proofs!AccountsTypes`, `SessionsDoEnd`, `AccountsStepByStep` | types, `SessionsEnd` (in `PagesStand`), `AccountStep` (in `RecordsStand`) | `AccountsInv` |
| `StaffServices_proofs!RecordsTrue` | `StaffSpec => RecordsStand` | `ParkRowsInv`, `BadgesInv`, `FileInv`, `AccountsInv` |
| `StaffServices_proofs!ListsTrue` | `StaffSpec => []ListsTellTheTruth` | `FloorInv`, `PickerInv` |
| `StaffServices_proofs!MonitorTrue` | `StaffSpec => []MonitorTellsTheTruth` | `MonitorInv` (`LiveMonitor_proofs`) |
| `StaffServices_proofs!MonitorTypes` | `StaffSpec => []MonitorTypeOK` | `BoundsInv`, which includes `MonitorInv` (`LiveMonitor_proofs`) |
| `RideServices_proofs!RideTypes`, `BackServices_proofs!BackTypes`, `StaffServices_proofs!StaffTypes` | the types of the composed runs: `RideTypeOK`, `BackTypeOK`, `StaffTypeOK` | those of the parts |
| `RideServices_proofs!RideServicesStand`, `BackServices_proofs!BackServicesStand`, `StaffServices_proofs!StaffServicesStand` | every promise of the parts, of `RideSpec`, `BackSpec`, `StaffSpec` | by `EachRideServiceRuns`, `EachBackServiceRuns`, `EachStaffServiceRuns` |

The arguments. None of the properties is inductive as it stands: each needs
what the requests in flight are about to do.

- *RideLifecycle.* `settleAndComplete` and `ride:cancel` write without a
  condition, so one has to know what the invocation read before: `CallInv`
  records it. What was in progress can only end, so a completing invocation's
  ride still has its driver and did start. The refinement uses that a step
  leaves the rows alone, ends some rides, lets one claim commit or moves one
  ride along in one of four ways (`RowStep`).
- *RideSettlement.* Whoever is about to clear the failed flag or lift the hold
  has the posting behind it (`BackedInv`); no invocation that will charge can
  hold a quarantined ride.
- *OpsControl.* No request remembers a clock ahead of the present (`DeskInv`),
  so a lease that is live now was live for the `WHERE` of any takeover. Every
  step is one of RideLifecycle or a stutter, which carries its theorems over.
- *DispatchRounds.* What the run relies on at each await (`RunOK`), and that a
  driver whose key names a ride is on that ride's list of drivers to release
  until the key is gone (`OwnOK`). A step of one ride touches its own keys
  and free ones only.
- *Coordination.* The sweep's and the parties' suspended decisions are
  backed by the row's history, which only grows: asked stays asked.
- *PassengerSlot.* Who is past the slot's acquisition holds it or lost it to a
  named cause (`HolderInv`, `GuardInv`), and a row that is saved belongs to a
  request that got that far (`RowsInv`).
- *ParkDispatch.* One release at a time can be searching for the next park
  (`OneSearch`); what was tried is what the jobs say, or a park less while a
  release is about to save (`TriedInv`).
- *DriverIntent.* A beat sent before the driver left has read a row that still
  discards it, unless it has an excuse.
- *Replay.* While the key stands, it is present from the claim on, so who runs
  or has run the action is alone.
- *Outreach.* A row that is `sending` is in the hands of one worker at most,
  and each attempt pushes once at most (`AttemptsInv`); a row whose message was
  neither lost nor put back is delivered only while none is out (`UnsentInv`).
- *Campaigns.* What is approved is what was reviewed, in the row and in every
  copy that some operation may save; a begun campaign's text no longer moves;
  who is mailed and not doubtful is in one worker's hands and no longer queued
  (`OneHand`, `OutOfQueue`).
- *MailFeedback.* An address that was barred is in the suppression list unless
  staff lifted it since (`BarredInv`); who said stop is off unless a save of an
  older row clobbered it (`StopInv`).
- *Duty.* A phone that rings is of a dispatcher with an open shift, or the end
  of that shift has yet to reach it, or its row was saved by somebody who had
  read it before. What rang is at most what the key says was sent, and the
  alerts that could not be marked (`CountedInv`).
- *ParkRoster.* As long as no two requests met, the one in flight is at a known
  call and the rows it has read are still the rows (`Stage`): a joining driver
  is placed behind the last, a reorder numbers whom it read. A reading nobody
  overtook is what the driver's presence still says (`WordInv`).
- *WalletBooks.* What an admin has read is still what the payout's row says, as
  long as no two wrote one payout at once (`ReadsInv`), and what an admin has
  read of a ride's entries is still what they come to, as long as no two voids
  of it met (`VoidsInv`); then a settlement finds
  its own money pending, and every operation moves both sides of the balance
  alike. Balances are sums over finite sets (`SumFunctionOnSet`); the library
  defines these by recursion on the set, and induction is out of the prover's
  reach, so the lemmas about sums are proved of a smallest subset where they
  would fail, which `FS_` facts about cardinality and the least number exclude.
- *Pages.* A request that was granted a token of the last sign-in has the one
  the server expects and nobody else has it; the ring began after this visit's backlog was noted;
  a timer belongs to the section on screen or the page is late.
- *Records.* A row about to be saved keeps the promise of its kind.
- *StaffAccounts.* Every row, the one stored and those that requests have read,
  is whole: status, password and setup link go together (`WholeRow`). Unless a
  row of before a bump was saved after it, none of them is ahead of the stored
  version and no used link is in one that is level with it (`RowBehind`). What
  a request found before its await is why its save is allowed (`ReadRight`),
  and a request that carries a session of before an invalidation passes its
  two checks only if the version and the session's row were both written back
  (`CameRight`).
- *Lists.* What a request has read so far agrees with the rows, or something
  was written since and the promise is void.
- *PassengerApp.* The rows never move without an event that tells of it, so the
  last telling event under way agrees with them; an answer nothing overtook is
  true unless an event behind it tells; a screen with no telling event under
  way fits the rows.
- *DriverApp.* What an event says of a ride is so, or the ride's end is behind
  it; an event that clears a ride still held is followed by one that brings it
  back; a ride held is watched on the screen, or its completion is on the way
  to the server, or a recovery runs, or an assignment or confirmation is on
  the way. Looking for this invariant on three jobs found a behaviour the
  property had not excused (section 7, *Driver app*, first sentence).
- *CoordinationCard.* A question on the card, or on its way to it, is open at
  the server, or an event that closes it is behind it, or a re-read is under
  way; a re-read nothing overtook is right but for the events behind it; and
  no event makes the phone forget that the trip goes.
- *LiveMonitor.* What a row counts and what the frames on their way to it still
  bring add up to what happened, for the rows on the page and for those of a
  sync already answered, unless sync and frames overtook each other (the excuse
  of the property); the last telling frame tells the ride's status; and an
  offer that was queued is queued still, failed, or was sent, which is why the
  ledger's difference is never negative and is positive exactly when one was
  sent.
- *The types.* Most follow from the invariants above. Two did not. A place in
  a park's queue is bounded because every request that counts the queue moves
  its end by one and is itself bounded in number, so no place lies beyond the
  members and the requests that counted (`Furthest` in `RosterTyped`). A count
  of the live page is bounded because a search records an offer's event once
  per offer and a ride's event once (`Tallied`), and a row counts an event in
  the answer it came with and once more in its frame, never a third time
  (`CountUnder`): the type allows twice the events, and that is what crossing
  syncs and frames really reach.
- *The parts of a group.* A step of a composed specification is a step of one
  part and leaves the variables of the others, so a run of all is, for each
  part, a run of that part (`EachRideServiceRuns`, `EachBackServiceRuns`,
  `EachStaffServiceRuns`); every theorem about a part is one about the group.

## 5. What is only model-checked

- `RunEnds`, `FailureResolved`, `ExpiredReturns`: liveness under fairness is
  outside the proof system's reach, and so is ENABLED.
- The instances of the inductive invariants themselves were searched by TLC
  before they were proved; the runs keep only the properties.
- Of the runs that look for a violation there is nothing to prove: they are
  false.

## 6. Not modelled

- *Marketing push* (`services/marketing_push_service.ts`): a third queue of the
  shape Outreach has.
- *Push transport and operations alerts* (`services/notification_service.ts`):
  single calls of the provider whose result nothing reads.
- *Ride integrity, geofence and zone geometry*: functions over real
  coordinates; their verdict is nondeterministic, which zone a point lies in is
  an input.
- *Overview counters and charts*, and the admin page's forms that hold no state
  between two clicks.
- *What a permission allows and what an audit row says*: the models let every
  caller call, and an audit that fails ends its request.
- *Deployment*: shell scripts and a proxy configuration.

## 7. Divergences seen while modelling, without a run of their own

Where the code does something a comment denies, or that a reader would not
expect; the models follow the code.

- *A ride claimed while it is failed.* `finalizeUnsuccessfulDispatch`
  (`socket_handler.ts:2969`) fails a ride that was claimed during its awaits,
  though 2928-2929 says it does not (`fail_taken` in RideLifecycle).
- *A driver who is not told.* The same write emits `ride:failed` alone, which the
  driver's app does not handle, and a `ride:cancel` that read the row before the
  claim finds no driver to tell (1004): a driver goes on showing a ride that has
  ended, until the watchdog asks (`JobEndsUntold` in DriverApp).
- *Campaign e-mails.* `campaign_dispatch_worker.ts:24-27` calls resuming safe
  because "the unique `idempotencyKey` means resuming re-sends to nobody".
  `email_provider.ts:86-104` puts that key into the headers of the message, not
  into the options of the request, so the provider delivers what it is handed
  twice; `EmailOnce` names the three ways in which it is handed over twice.
- *Lifecycle pushes.* The catch of `sendDue`
  (`lifecycle_automation_service.ts:320-328`) puts a row whose push was confirmed
  back in the queue when writing that down fails, or when counting it does.
- *Passenger app.* `_initializeMap` awaits the phone's location and then writes
  `selectingDestination` without a second look (`booking_controller.dart:503-514`):
  a ride booked or recovered meanwhile leaves the screen.
- *Coordination card.* An answer "wait" refused at the extension limit claims
  the decision and tells the other party nothing, though `socket_handler.ts:1531`
  says both sides are told. `ride:error` leaves the card submitting. A reminder
  replaces an open question. An acknowledgement sent after a push may
  overwrite the card of the decline. The prompt offers to keep waiting when no
  extension is left. A re-read request counts as answered if this party had
  answered an earlier prompt.
- *Driver app.* An operations assignment that arrives while the receipt of
  another job shows is not asked about (`syncStatus` returns at once when the
  step is completed), though the comment at `driver_controller.dart:201-214`
  says the endpoint is re-read. A recovered or confirmed ride does not cancel a running
  countdown. An answer "none" read before an acceptance committed clears a
  confirmed trip. `ride:error` and `ride:park_assignment` are not handled. A
  completed receipt is shown while an early end awaits confirmation.
- *Shifts and phones.* A forced close of a shift revokes no phone; a push and a
  test save the device rows they read, which re-activates or hands back a phone
  revoked or handed over meanwhile; a late revocation after a shift was
  re-opened silences a dispatcher on duty. A sweep that fails between push and
  mark repeats the alert at its next pass (`staff_push_escalation.ts:188-203`),
  though line 15 of that file says three alerts, then silence; `ThreeAlerts`
  counts those passes (`unmarked`).
- *Dispatcher page.* The sheet shows the job it was opened for while
  `assignDriver` uses the one selected at confirmation (`app.js:1909-1912` says
  this is impossible); any assignment's end closes whichever sheet is open. The
  banner restarts the three reminders at every render. Signing out revokes the
  session before the device is unregistered. `refreshSession` treats a lost
  network as a refusal, the server answers 401 when its database fails
  (`middleware/staff_auth.ts:121-124`), and overlapping refreshes refuse each other, though
  906-918 says only a refusal signs out. A refresh asked while one is under way
  is dropped. An exchange of tokens has no timeout (178-194), so an old one may
  overwrite the tokens of a new sign-in.
- *Operations page.* A refresh answered after the page was left may start the
  ring; overlapping polls may put an older board back; a late list of drivers
  for one ride shows in another's sheet; a takeover that failed still loads the
  drivers; `sw.js` lacks the type by which a notification opens its ride.
- *Staff accounts.* `suspend` does not ask whether the account is deactivated,
  so a suspension and a reactivation bring a retired account back, though
  `StaffUser.ts:18-19` says "Never reactivated" and `staff_service.ts:406`
  "Never revives a DEACTIVATED account"; `AccountStep` names this exception. A
  save of a row read before a bump of the credential version writes the old
  version back, and a refresh saves the whole session row it read, so a
  revocation committed in between is undone: together they let an ended session
  in again (`SessionsEnd` says that nothing less does). A changed link or
  status may be written back the same way.
- *Live monitor.* A run stopped by a dispatcher's control is recorded as a failed
  dispatch; a run that runs out of rounds between an acceptance's UPDATE and
  its note records a failure for an accepted ride; each offer emits two events
  that the page counts as two; a sync and a frame that cross count double or
  not at all; the outcome of a candidate ranks by type, not by round. A ride
  cancelled between an acceptance's UPDATE and its frame comes back to the page
  as accepted, and stays until the next sync.
- *Admin page.* `switchSection` stops the poll it just started for live
  operations; the socket's reconnect runs `init` again; listeners are added at
  every entry; a late answer of one campaign, review or selection is painted
  into the next; two overlapping requests refresh with one token, and the
  second ends the session, though the comment of `adminFetch` says otherwise.
- *Records.* A save after a revocation re-activates a badge, after a suspension
  a park. A replacement issues a badge for one already revoked. Two serials
  that collide overwrite the first driver's row. A zone's update may
  deactivate the only staging zone of an active park. Two overlapping uploads
  lose one document.
- *Park floor.* The list recommends drivers waiting at another park; an
  acceptance rate and a workload outrank the place in the queue; the centre is
  green while dispatch is suspended; an assignment does not refuse a driver who
  declined.
- *Zones and picker.* The guard takes a position without asking whether the
  driver's availability stands; a pending driver passes as "approved only"; a
  zone's change reaches the other processes after a minute; when zones cannot
  be loaded, the queue says out of coverage while the guard lets all pass. When
  the picker cannot read Redis or the eligibility of the drivers
  (`operations_driver_discovery.ts:220-235`) it offers nobody, and an assignment
  of somebody it lists goes through all the same.

## 8. What is left

In this order: refinements of the other services to abstract specifications as
RideLifecycle has one (the idempotency key to "at most once", the park queue to
a sequence); a model of the marketing push queue beside Outreach.

## 9. Running

    tlc -workers 2 -config MCRideServices.cfg MCRideServices   # one run
    tlapm RideServices_proofs.tla                              # one module's proofs

Every run has a cfg of its own; those of the violated properties are
`DoubleAssignment`, `RetryTwice`, `SweepsLive`, `VoidTwice`, `UnansweredRequest`
and `CommissionExact`, and PROJECT.json names the module each belongs to. The
longest run takes about four minutes, the longest proof about a quarter of
an hour.
