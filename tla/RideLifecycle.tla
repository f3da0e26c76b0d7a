---------------------------- MODULE RideLifecycle -----------------------------
(***************************************************************************)
(* The ride row of the KekeRide backend and every handler that writes its  *)
(* status or its driver (sockets/socket_handler.ts,                        *)
(* services/ride_cleanup_service.ts, index.ts).                            *)
(*                                                                         *)
(* A handler is an async function of one Node process: it runs without     *)
(* interruption between two awaits, and any other handler may run at an    *)
(* await.  An invocation is an element of Handlers; call[h] is the await   *)
(* it is suspended at, with the values it has read so far.  A guard that   *)
(* the code checks once in a read and again in the WHERE of its UPDATE is  *)
(* modelled by the UPDATE alone, because the earlier read can only refuse  *)
(* more; a guard the code checks in a read and NOT in the UPDATE is two    *)
(* actions with every interleaving in between.                             *)
(*                                                                         *)
(* The row also holds completedAt, written in the same UPDATE as a final   *)
(* status; since no final status is ever left, "completedAt IS NULL" says  *)
(* nothing the status does not say, and the column is left out.            *)
(*                                                                         *)
(* The same handlers also write the lease, the reservations, the          *)
(* passenger's slot, the driver-to-ride map and the money: those stores    *)
(* are other components (see README.md).                                   *)
(***************************************************************************)

CONSTANTS
    Rides,      \* ride identifiers, created by ride:request
    Drivers,    \* driver identifiers
    Handlers,   \* concurrent handler invocations
    NoRide,     \* an idle invocation's ride
    NoDriver    \* the null of ride.driverId and of the Redis lock

ASSUME NullAssumption == NoRide \notin Rides /\ NoDriver \notin Drivers

VARIABLES
    status,     \* status[r]: ride.status
    driver,     \* driver[r]: ride.driverId
    started,    \* started[r]: ride.startedAt IS NOT NULL
    lock,       \* lock[r]: the Redis key ride:{r}:lock
    run,        \* run[r]: where r's startDispatchLoop is
    call        \* call[h]: the await invocation h is suspended at

vars == <<status, driver, started, lock, run, call>>

-------------------------------------------------------------------------------
(* Types *)

\* ride.status, with "none" for a row that does not exist yet;
\* RideStatus.STARTED is never persisted.
Status == {"none", "searching", "accepted", "arrived", "in_progress",
           "completed", "canceled", "failed"}

\* States in which a driver counts as busy.
Busy == {"accepted", "arrived", "in_progress"}

Ended == {"completed", "canceled", "failed"}

\* Where a dispatch loop is: not running, in its rounds, about to read the row
\* and then the lock, awaiting the park fallback, in its finally block.
RunState == {"off", "running", "finalising", "reading_lock", "offering_park",
             "stopping"}

\* What an invocation is about to do when its await returns.
Step == {"idle", "claim", "lock", "announce", "cancel", "terminate", "abort",
         "unlock", "complete"}

Call == [at : Step, ride : Rides \cup {NoRide},
         driver : Drivers \cup {NoDriver}, expected : SUBSET Status]

Idle == [at |-> "idle", ride |-> NoRide, driver |-> NoDriver, expected |-> {}]

TypeOK ==
    /\ status \in [Rides -> Status]
    /\ driver \in [Rides -> Drivers \cup {NoDriver}]
    /\ started \in [Rides -> BOOLEAN]
    /\ lock \in [Rides -> Drivers \cup {NoDriver}]
    /\ run \in [Rides -> RunState]
    /\ call \in [Handlers -> Call]

Init ==
    /\ status = [r \in Rides |-> "none"]
    /\ driver = [r \in Rides |-> NoDriver]
    /\ started = [r \in Rides |-> FALSE]
    /\ lock = [r \in Rides |-> NoDriver]
    /\ run = [r \in Rides |-> "off"]
    /\ call = [h \in Handlers |-> Idle]

-------------------------------------------------------------------------------
(* Helpers *)

row == <<status, driver, started>>

ActiveRidesOf(d) == {r \in Rides : driver[r] = d /\ status[r] \in Busy}

\* An idle invocation h starts and suspends before step `at`.
Begin(h, at, r, d, expected) ==
    /\ call[h].at = "idle"
    /\ call' = [call EXCEPT ![h] =
                  [at |-> at, ride |-> r, driver |-> d, expected |-> expected]]

\* Invocation h, suspended before step `from`, suspends before step `to`.
Resume(h, from, to) ==
    /\ call[h].at = from
    /\ call' = [call EXCEPT ![h] = IF to = "idle" THEN Idle
                                   ELSE [@ EXCEPT !.at = to]]

\* UPDATE ride SET status = new WHERE rideId = r AND status IN from.
Flip(r, from, new) ==
    /\ status[r] \in from
    /\ status' = [status EXCEPT ![r] = new]

-------------------------------------------------------------------------------
(* Asking: ride:request *)

\* The row is saved and its dispatch loop entered with no await in between;
\* the passenger app makes a fresh rideId for every request.
Request(r) ==
    /\ Flip(r, {"none"}, "searching")
    /\ run' = [run EXCEPT ![r] = "running"]
    /\ UNCHANGED <<driver, started, lock, call>>

-------------------------------------------------------------------------------
(* Gaining a driver: ride:accept, park and operations assignment *)

\* The busy-driver check of assignDriverToRide, a read.  findOne returns any
\* one active ride of d, so a driver who is on this ride too may pass.
AcceptCheck(h, r, d) ==
    /\ status[r] # "none"
    /\ ActiveRidesOf(d) = {} \/ r \in ActiveRidesOf(d)
    /\ Begin(h, "claim", r, d, {})
    /\ UNCHANGED <<row, lock, run>>

\* Mutant: the UPDATE has lost its WHERE status = 'searching'.
ClaimAnyway(h) ==
    LET r == call[h].ride IN
    /\ Resume(h, "claim", "lock")
    /\ Flip(r, {"searching", "accepted"}, "accepted")
    /\ driver' = [driver EXCEPT ![r] = call[h].driver]
    /\ UNCHANGED <<started, lock, run>>

\* The conditional UPDATE that decides who owns the ride.
ClaimWon(h) ==
    LET r == call[h].ride IN
    /\ Resume(h, "claim", "lock")
    /\ Flip(r, {"searching"}, "accepted")
    /\ driver' = [driver EXCEPT ![r] = call[h].driver]
    /\ UNCHANGED <<started, lock, run>>

ClaimLost(h) ==
    /\ Resume(h, "claim", "idle")
    /\ status[call[h].ride] # "searching"
    /\ UNCHANGED <<row, lock, run>>

\* After the claim has committed: signal the dispatch loop through Redis.
SetLock(h) ==
    /\ Resume(h, "lock", "announce")
    /\ lock' = [lock EXCEPT ![call[h].ride] = call[h].driver]
    /\ UNCHANGED <<row, run>>

\* noteAcceptance: a run still in its rounds stops with reason accepted.
Announce(h) ==
    LET r == call[h].ride IN
    /\ Resume(h, "announce", "idle")
    /\ run' = [run EXCEPT ![r] = IF @ = "running" THEN "stopping" ELSE @]
    /\ UNCHANGED <<row, lock>>

-------------------------------------------------------------------------------
(* Losing a driver without ending: Operations' releaseAssignedDriver *)

\* One conditional UPDATE, which names the driver it expects to find.
ReleaseDriver(h, r) ==
    /\ Flip(r, {"accepted", "arrived"}, "searching")
    /\ Begin(h, "unlock", r, driver[r], {})
    /\ driver' = [driver EXCEPT ![r] = NoDriver]
    /\ UNCHANGED <<started, lock, run>>

Unlock(h) ==
    /\ Resume(h, "unlock", "idle")
    /\ lock' = [lock EXCEPT ![call[h].ride] = NoDriver]
    /\ UNCHANGED <<row, run>>

-------------------------------------------------------------------------------
(* The trip: ride:arrived, ride:start, ride:complete, ride:end_early *)

Arrive(r) ==
    /\ Flip(r, {"accepted"}, "arrived")
    /\ UNCHANGED <<driver, started, lock, run, call>>

\* Mutant: the enum's STARTED is persisted.
StartAsStarted(r) ==
    /\ Flip(r, {"arrived", "accepted"}, "started")
    /\ started' = [started EXCEPT ![r] = TRUE]
    /\ UNCHANGED <<driver, lock, run, call>>

\* Mutant: a write by primary key.
StartAnyway(r) ==
    /\ Flip(r, Status \ {"none", "searching"}, "in_progress")
    /\ started' = [started EXCEPT ![r] = TRUE]
    /\ UNCHANGED <<driver, lock, run, call>>

Start(r) ==
    /\ Flip(r, {"arrived", "accepted"}, "in_progress")
    /\ started' = [started EXCEPT ![r] = TRUE]
    /\ UNCHANGED <<driver, lock, run, call>>

\* Mutant: every live ride may be finished.
CompleteLive(h, r) ==
    /\ status[r] \in Busy
    /\ Begin(h, "complete", r, driver[r], {})
    /\ UNCHANGED <<row, lock, run>>

\* Every way to finish (driver, consented early end, disputed or unanswered
\* early end) validates the status in a read, then settles.
CompleteCheck(h, r) ==
    /\ status[r] = "in_progress"
    /\ Begin(h, "complete", r, driver[r], {})
    /\ UNCHANGED <<row, lock, run>>

\* settleAndComplete writes the final status without a condition.
CompleteWrite(h) ==
    /\ Resume(h, "complete", "idle")
    /\ Flip(call[h].ride, Status, "completed")
    /\ UNCHANGED <<driver, started, lock, run>>

-------------------------------------------------------------------------------
(* Cancelling: ride:cancel and RideCleanupService.terminate *)

\* ride:cancel reads the row once ...
CancelCheck(h, r) ==
    /\ status[r] \in {"searching", "accepted", "arrived"}
    /\ Begin(h, "cancel", r, driver[r], {})
    /\ UNCHANGED <<row, lock, run>>

\* ... and then writes by primary key.
CancelWrite(h) ==
    /\ Resume(h, "cancel", "abort")
    /\ Flip(call[h].ride, Status, "canceled")
    /\ UNCHANGED <<driver, started, lock, run>>

\* The sweeper expects the status it evaluated, a mutual decision or an
\* accepted request either of the two.
TerminateCheck(h, r, expected) ==
    /\ status[r] \in expected
    /\ Begin(h, "terminate", r, driver[r], expected)
    /\ UNCHANGED <<row, lock, run>>

TerminateWon(h) ==
    LET r == call[h].ride IN
    /\ Resume(h, "terminate", "abort")
    /\ Flip(r, call[h].expected, "canceled")
    /\ ~started[r]
    /\ UNCHANGED <<driver, started, lock, run>>

TerminateLost(h) ==
    LET r == call[h].ride IN
    /\ Resume(h, "terminate", "idle")
    /\ status[r] \notin call[h].expected \/ started[r]
    /\ UNCHANGED <<row, lock, run>>

\* run.abort('cancelled'): the loop leaves its rounds and looks at the row.
AbortDispatch(h) ==
    LET r == call[h].ride IN
    /\ Resume(h, "abort", "idle")
    /\ run' = [run EXCEPT ![r] = IF @ = "running" THEN "finalising" ELSE @]
    /\ UNCHANGED <<row, lock>>

-------------------------------------------------------------------------------
(* The end of a search: startDispatchLoop, finalizeUnsuccessfulDispatch *)

LoopMoves(r, from, to) ==
    /\ run[r] = from
    /\ run' = [run EXCEPT ![r] = to]

\* accepted, assigned_elsewhere, operations_control, or the loop threw.
LoopStops(r) ==
    /\ LoopMoves(r, "running", "stopping")
    /\ UNCHANGED <<row, lock, call>>

\* Rounds exhausted or search lifetime exceeded.
LoopExhausted(r) ==
    /\ LoopMoves(r, "running", "finalising")
    /\ UNCHANGED <<row, lock, call>>

\* Mutant: the early return skips the finally block.
FinaliseReturns(r) ==
    /\ status[r] = "searching"
    /\ LoopMoves(r, "finalising", "reading_lock")
    /\ UNCHANGED <<row, lock, call>>

\* finalizeUnsuccessfulDispatch reads the row ...
FinaliseReadRow(r) ==
    /\ LoopMoves(r, "finalising",
                 IF status[r] = "searching" THEN "reading_lock" ELSE "stopping")
    /\ UNCHANGED <<row, lock, call>>

\* ... and then the lock.
FinaliseReadLock(r) ==
    /\ LoopMoves(r, "reading_lock",
                 IF lock[r] = NoDriver THEN "offering_park" ELSE "stopping")
    /\ UNCHANGED <<row, lock, call>>

\* offerToPark found a park: the ride stays searching.
ParkTakes(r) ==
    /\ LoopMoves(r, "offering_park", "stopping")
    /\ UNCHANGED <<row, lock, call>>

\* No park: mark the ride failed, by primary key.
FinaliseFail(r) ==
    /\ LoopMoves(r, "offering_park", "stopping")
    /\ Flip(r, Status, "failed")
    /\ UNCHANGED <<driver, started, lock, call>>

LoopCleanup(r) ==
    /\ LoopMoves(r, "stopping", "off")
    /\ UNCHANGED <<row, lock, call>>

\* The last park handed the ride back: a conditional failure.  Whether a park
\* job is live is ParkDispatch's state; any time after the run is allowed.
ParkGivesUp(r) ==
    /\ run[r] = "off"
    /\ Flip(r, {"searching"}, "failed")
    /\ UNCHANGED <<driver, started, lock, run, call>>

-------------------------------------------------------------------------------
(* Failures *)

\* A database or Redis call rejects: the handler's catch answers the socket and
\* nothing after the await runs.  A write that committed before its answer was
\* lost is the step that writes followed by this one.
Throw(h) ==
    /\ call[h].at # "idle"
    /\ call' = [call EXCEPT ![h] = Idle]
    /\ UNCHANGED <<row, lock, run>>

\* A read or write of finalizeUnsuccessfulDispatch fails.
LoopThrows(r) ==
    /\ \E from \in {"finalising", "reading_lock", "offering_park"} :
           LoopMoves(r, from, "stopping")
    /\ UNCHANGED <<row, lock, call>>

\* Suspended invocations and runs are lost, the row and Redis survive.  The
\* startup sweep then fails the searching rides that are older than ten
\* minutes, which any subset of them may be.
Restart ==
    \E old \in SUBSET {r \in Rides : status[r] = "searching"} :
        /\ status' = [r \in Rides |-> IF r \in old THEN "failed" ELSE status[r]]
        /\ run' = [r \in Rides |-> "off"]
        /\ call' = [h \in Handlers |-> Idle]
        /\ UNCHANGED <<driver, started, lock>>

-------------------------------------------------------------------------------

Decision(h) ==
    \/ \E r \in Rides, d \in Drivers : AcceptCheck(h, r, d)
    \/ ClaimWon(h) \/ ClaimLost(h) \/ SetLock(h) \/ Announce(h)
    \/ \E r \in Rides : ReleaseDriver(h, r)
    \/ Unlock(h)

Ending(h) ==
    \/ \E r \in Rides : CompleteCheck(h, r) \/ CancelCheck(h, r)
    \/ \E r \in Rides, expected \in {{"accepted"}, {"arrived"}, {"accepted", "arrived"}} :
           TerminateCheck(h, r, expected)
    \/ CompleteWrite(h) \/ CancelWrite(h) \/ TerminateWon(h) \/ TerminateLost(h)
    \/ AbortDispatch(h)

Trip(r) == Request(r) \/ Arrive(r) \/ Start(r)

Search(r) ==
    \/ LoopStops(r) \/ LoopExhausted(r) \/ FinaliseReadRow(r)
    \/ FinaliseReadLock(r) \/ ParkTakes(r) \/ FinaliseFail(r) \/ LoopCleanup(r)

Next ==
    \/ \E h \in Handlers : Decision(h) \/ Ending(h) \/ Throw(h)
    \/ \E r \in Rides : Trip(r) \/ Search(r) \/ LoopThrows(r) \/ ParkGivesUp(r)
    \/ Restart

Spec == Init /\ [][Next]_vars

\* A dispatch loop goes on whenever it can: the lifetime timer cuts off its
\* rounds, and an await of its ending returns.  That a call fails is possible
\* but never promised, so LoopThrows is not part of the fair step.
FairSpec == Spec /\ \A r \in Rides : WF_vars(Search(r))

-------------------------------------------------------------------------------
(* Properties *)

\* A ride has a driver exactly while somebody owns it or has driven it, and
\* the fare of a completed ride always has a driver to go to: no interleaving
\* of releases, cancellations and late completions leaves a live ride without
\* its driver or completes a trip that never started.  The steps at risk are
\* the unconditional writes of ride:cancel and settleAndComplete.
OwnershipInv ==
    \A r \in Rides :
        /\ status[r] \in {"none", "searching"} => driver[r] = NoDriver
        /\ status[r] \in Busy \cup {"completed"} => driver[r] \in Drivers
        /\ status[r] \in {"none", "searching", "accepted", "arrived"} => ~started[r]
        /\ status[r] \in {"in_progress", "completed"} => started[r]

\* What a suspended invocation or dispatch loop may still rely on when it
\* resumes, however long it slept and whatever ran in between: its ride exists,
\* an acceptance still names a driver, the sweep still expects a ride that has
\* not begun, and a settlement (which writes without a condition) is of a trip
\* that did begin and still has the driver who is to be paid.
CallInv ==
    /\ \A r \in Rides : run[r] # "off" => status[r] # "none"
    /\ \A h \in Handlers :
        LET c == call[h] IN
        /\ c.at # "idle" => c.ride \in Rides /\ status[c.ride] # "none"
        /\ c.at \in {"claim", "lock"} => c.driver \in Drivers
        /\ c.at = "terminate" => c.expected \subseteq {"accepted", "arrived"}
        /\ c.at = "complete" => /\ status[c.ride] \in Ended \cup {"in_progress"}
                                /\ started[c.ride]
                                /\ driver[c.ride] \in Drivers

\* "A start must never revive a ride the sweep already cancelled": once a ride
\* has ended, no late accept, arrival, start or release brings it back.
EndedNeverRevived ==
    [][\A r \in Rides : status[r] \in Ended => status'[r] \in Ended]_vars

\* The phase of RideAssignment a status belongs to.
PhaseOf(s) ==
    CASE s = "none"                    -> "absent"
      [] s = "searching"               -> "open"
      [] s \in {"accepted", "arrived"} -> "owned"
      [] s = "in_progress"             -> "riding"
      [] OTHER                         -> "closed"

Assignment == INSTANCE RideAssignment WITH
    phase <- [r \in Rides |-> PhaseOf(status[r])],
    owner <- driver

\* A driver never has two live rides at once ("Prevent double-assignment: a
\* driver already on an active ride cannot accept another until they
\* finish/cancel the current one", assignDriverToRide).
OneLiveRidePerDriver ==
    \A d \in Drivers, r1, r2 \in Rides :
        r1 \in ActiveRidesOf(d) /\ r2 \in ActiveRidesOf(d) => r1 = r2

\* Every dispatch loop leaves its finally block, whatever happened to its ride
\* meanwhile: no acceptance, cancellation, takeover or failure strands it with
\* its timers, reservations and run entry.
RunEnds == \A r \in Rides : run[r] # "off" ~> run[r] = "off"

\* Every interleaving of the handlers is a behaviour of RideAssignment: one
\* winner per opening, no driver swapped, no trip reopened.
ImplementsAssignment == Assignment!Spec
===============================================================================
