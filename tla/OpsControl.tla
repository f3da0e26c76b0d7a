------------------------------ MODULE OpsControl -------------------------------
(***************************************************************************)
(* Operations' control of a ride's dispatch, composed with the ride row:   *)
(* RideControlService's lease, its sweeper, and the interventions of       *)
(* OperationsDispatchService (services/ride_control_service.ts,            *)
(* operations_control_sweeper.ts, operations_dispatch_service.ts).         *)
(*                                                                         *)
(* The module extends RideLifecycle: its handlers and dispatch loops are   *)
(* the ones of that module, except that a driver is released only by a     *)
(* dispatcher (ReleaseEnters) and that an assignment gives the lease back  *)
(* before it is announced (ReleaseOnAssignment).  desk[s] is the await the *)
(* request of dispatcher s is suspended at.                                *)
(*                                                                         *)
(* Times are the server's clock.  `since` is the clock a takeover or a     *)
(* renewal read when it was called: the statement it sends later still     *)
(* compares with it.                                                       *)
(* The row's version is left out: a release that names one is refused more *)
(* often, nothing else looks at it.                                        *)
(***************************************************************************)
EXTENDS RideLifecycle, Naturals

CONSTANTS
    Staff,          \* dispatchers
    NoStaff,        \* the null of ownerStaffId: mode AUTO, or no row yet
    LeaseDuration,  \* config.leaseDurationMs, in clock units
    MaxTime         \* bound: where the clock stops

ASSUME OpsAssumption ==
    /\ NoStaff \notin Staff
    /\ LeaseDuration \in Nat \ {0}
    /\ MaxTime \in Nat

VARIABLES
    now,        \* the server's clock
    lease,      \* lease[r]: the ride_dispatch_control row
    desk,       \* desk[s]: the await dispatcher s's request is suspended at
    freed,      \* handlers past releaseOnAssignment and before noteAcceptance
    lapsed      \* leases the running sweep has read and not yet released

opsVars == <<vars, now, lease, desk, freed, lapsed>>

-------------------------------------------------------------------------------
(* Types *)

\* until is leaseExpiresAt, 0 when NULL; it and the owner are set and cleared
\* together with the mode.
Lease == [owner : Staff \cup {NoStaff}, until : 0..(MaxTime + LeaseDuration)]

Automatic == [owner |-> NoStaff, until |-> 0]

DeskStep == {"idle", "upsert", "pause", "renew", "assign", "release"}

Desk == [at : DeskStep, ride : Rides \cup {NoRide},
         driver : Drivers \cup {NoDriver}, since : 0..MaxTime]

Waiting == [at |-> "idle", ride |-> NoRide, driver |-> NoDriver, since |-> 0]

OpsTypeOK ==
    /\ TypeOK
    /\ now \in 0..MaxTime
    /\ lease \in [Rides -> Lease]
    /\ desk \in [Staff -> Desk]
    /\ freed \subseteq Handlers
    /\ lapsed \subseteq Rides

OpsInit ==
    /\ Init
    /\ now = 0
    /\ lease = [r \in Rides |-> Automatic]
    /\ desk = [s \in Staff |-> Waiting]
    /\ freed = {}
    /\ lapsed = {}

-------------------------------------------------------------------------------
(* Helpers *)

\* isOperationsControlled, at time t.
Live(r, t) == lease[r].owner # NoStaff /\ lease[r].until > t

\* The lease is on the books but its time is over.
Expired(r, t) == lease[r].owner # NoStaff /\ lease[r].until <= t

\* Dispatcher s's request begins and suspends before step `at`.
Calls(s, at, r, d, since) ==
    /\ desk[s].at = "idle"
    /\ desk' = [desk EXCEPT ![s] =
                  [at |-> at, ride |-> r, driver |-> d, since |-> since]]

\* Dispatcher s's request, suspended before step `at`, answers.
Answers(s, at) ==
    /\ desk[s].at = at
    /\ desk' = [desk EXCEPT ![s] = Waiting]

\* Mutant: the duration is added to what is left of the lease.
GrantExtends(s) ==
    lease' = [lease EXCEPT ![desk[s].ride] =
                [owner |-> s, until |-> @.until + LeaseDuration]]

Grant(s) ==
    lease' = [lease EXCEPT ![desk[s].ride] =
                [owner |-> s, until |-> desk[s].since + LeaseDuration]]

\* RideControlService.release with force: whoever owns it, if anybody does.
Withdraw(r) == lease' = [lease EXCEPT ![r] = Automatic]

-------------------------------------------------------------------------------
(* The lease: RideControlService.takeover, renew, release *)

TakeoverRead(s, r) ==
    /\ status[r] \in {"searching", "accepted", "arrived"}
    /\ Calls(s, "upsert", r, NoDriver, now)
    /\ UNCHANGED <<vars, now, lease, freed, lapsed>>

\* Mutant: the upsert does not look at who holds the lease.
ClaimableByAll(s) == TRUE

\* The upsert's WHERE: AUTO, lapsed, or already mine.
Claimable(s) ==
    LET l == lease[desk[s].ride] IN
    l.owner \in {NoStaff, s} \/ l.until <= desk[s].since

TakeoverWon(s) ==
    /\ desk[s].at = "upsert" /\ Claimable(s)
    /\ Grant(s)
    /\ desk' = [desk EXCEPT ![s] = [at |-> "pause", ride |-> desk[s].ride,
                                    driver |-> NoDriver, since |-> 0]]
    /\ UNCHANGED <<vars, now, freed, lapsed>>

TakeoverLost(s) ==
    /\ Answers(s, "upsert")
    /\ ~Claimable(s)
    /\ UNCHANGED <<vars, now, lease, freed, lapsed>>

\* pauseAutomaticDispatch: a run still in its rounds stops.
Pause(s) ==
    /\ Answers(s, "pause")
    /\ run' = [run EXCEPT ![desk[s].ride] = IF @ = "running" THEN "stopping" ELSE @]
    /\ UNCHANGED <<row, lock, call, now, lease, freed, lapsed>>

RenewCall(s, r) ==
    /\ Calls(s, "renew", r, NoDriver, now)
    /\ UNCHANGED <<vars, now, lease, freed, lapsed>>

\* Only the holder, and only a lease that had not lapsed at the call.
Renewable(s) ==
    LET l == lease[desk[s].ride] IN l.owner = s /\ l.until > desk[s].since

RenewWrite(s) ==
    /\ Answers(s, "renew")
    /\ IF Renewable(s) THEN Grant(s) ELSE UNCHANGED lease
    /\ UNCHANGED <<vars, now, freed, lapsed>>

\* POST .../release: one conditional UPDATE, whatever else s is waiting for.
HandBack(s, r) ==
    /\ lease[r].owner = s
    /\ Withdraw(r)
    /\ UNCHANGED <<vars, now, desk, freed, lapsed>>

-------------------------------------------------------------------------------
(* Interventions: OperationsDispatchService.assign and releaseDriver *)

Controls(s, r) == lease[r].owner = s /\ Live(r, now)

\* Ride and lease are read, then the driver is looked up and judged ...
AssignRead(s, r, d) ==
    /\ status[r] = "searching"
    /\ Controls(s, r)
    /\ Calls(s, "assign", r, d, 0)
    /\ UNCHANGED <<vars, now, lease, freed, lapsed>>

\* ... and assignDriverToRide is entered, or something on the way refuses.
AssignEnters(s) ==
    /\ Answers(s, "assign")
    /\ \/ \E h \in Handlers : AcceptCheck(h, desk[s].ride, desk[s].driver)
       \/ UNCHANGED vars
    /\ UNCHANGED <<now, lease, freed, lapsed>>

ReleaseRead(s, r) ==
    /\ driver[r] # NoDriver
    /\ Controls(s, r)
    /\ Calls(s, "release", r, driver[r], 0)
    /\ UNCHANGED <<vars, now, lease, freed, lapsed>>

\* Mutant: the UPDATE has lost its WHERE status IN ('accepted', 'arrived').
ReleaseStarted(s, h) ==
    LET r == desk[s].ride IN
    /\ Answers(s, "release")
    /\ driver[r] = desk[s].driver
    /\ Flip(r, Busy, "searching")
    /\ Begin(h, "unlock", r, driver[r], {})
    /\ driver' = [driver EXCEPT ![r] = NoDriver]
    /\ UNCHANGED <<started, lock, run, now, lease, freed, lapsed>>

\* releaseAssignedDriver's UPDATE names the driver that was read.
ReleaseEnters(s, h) ==
    LET r == desk[s].ride IN
    /\ Answers(s, "release")
    /\ driver[r] = desk[s].driver
    /\ ReleaseDriver(h, r)
    /\ UNCHANGED <<now, lease, freed, lapsed>>

\* The UPDATE matched nothing: the ride moved on.
ReleaseRefused(s) ==
    LET r == desk[s].ride IN
    /\ Answers(s, "release")
    /\ status[r] \notin {"accepted", "arrived"} \/ driver[r] # desk[s].driver
    /\ UNCHANGED <<vars, now, lease, freed, lapsed>>

-------------------------------------------------------------------------------
(* The lease ends without its holder: assignment and expiry *)

\* assignDriverToRide, between the lock and noteAcceptance.  A failed release
\* is swallowed.
ReleaseOnAssignment(h) ==
    /\ call[h].at = "announce" /\ h \notin freed
    /\ freed' = freed \cup {h}
    /\ Withdraw(call[h].ride) \/ UNCHANGED lease
    /\ UNCHANGED <<vars, now, desk, lapsed>>

AnnounceFreed(h) ==
    /\ h \in freed
    /\ Announce(h)
    /\ freed' = freed \ {h}
    /\ UNCHANGED <<now, lease, desk, lapsed>>

TimePasses ==
    /\ now < MaxTime
    /\ now' = now + 1
    /\ UNCHANGED <<vars, lease, desk, freed, lapsed>>

\* Mutant: strictly before now, so that a lease is neither live nor swept at
\* the very moment it ends.
SweepReadsLate ==
    /\ lapsed = {}
    /\ lapsed' = {r \in Rides : lease[r].owner # NoStaff /\ lease[r].until < now}
    /\ lapsed' # {}
    /\ UNCHANGED <<vars, now, lease, desk, freed>>

\* sweepExpired reads the lapsed leases; its limit of 200 is above the number
\* of rides here, and a tick does not overlap the next.
SweepReads ==
    /\ lapsed = {}
    /\ lapsed' = {r \in Rides : Expired(r, now)}
    /\ lapsed' # {}
    /\ UNCHANGED <<vars, now, lease, desk, freed>>

\* ... and releases them one by one, whatever became of them.
SweepReleases(r) ==
    /\ r \in lapsed
    /\ lapsed' = lapsed \ {r}
    /\ Withdraw(r)
    /\ UNCHANGED <<vars, now, desk, freed>>

-------------------------------------------------------------------------------
(* Failures *)

\* A call of s's request rejects.
DeskThrows(s) ==
    /\ desk[s].at # "idle"
    /\ Answers(s, desk[s].at)
    /\ UNCHANGED <<vars, now, lease, freed, lapsed>>

HandlerThrows(h) ==
    /\ Throw(h)
    /\ freed' = freed \ {h}
    /\ UNCHANGED <<now, lease, desk, lapsed>>

\* A release of the sweep rejects: the tick is over.
SweepAborts ==
    /\ lapsed # {}
    /\ lapsed' = {}
    /\ UNCHANGED <<vars, now, lease, desk, freed>>

\* The process restarts; the lease survives in its row.
OpsRestart ==
    /\ Restart
    /\ desk' = [s \in Staff |-> Waiting]
    /\ freed' = {}
    /\ lapsed' = {}
    /\ UNCHANGED <<now, lease>>

-------------------------------------------------------------------------------

\* The steps of RideLifecycle that Operations has no part in.
Underlying ==
    \/ \E h \in Handlers :
        \/ \E r \in Rides, d \in Drivers : AcceptCheck(h, r, d)
        \/ ClaimWon(h) \/ ClaimLost(h) \/ SetLock(h) \/ Unlock(h) \/ Ending(h)
    \/ \E r \in Rides : Trip(r) \/ Search(r) \/ LoopThrows(r) \/ ParkGivesUp(r)

Dispatching(s) ==
    \/ \E r \in Rides :
        \/ TakeoverRead(s, r) \/ RenewCall(s, r) \/ HandBack(s, r)
        \/ ReleaseRead(s, r)
        \/ \E d \in Drivers : AssignRead(s, r, d)
    \/ TakeoverWon(s) \/ TakeoverLost(s) \/ Pause(s) \/ RenewWrite(s)
    \/ AssignEnters(s) \/ ReleaseRefused(s) \/ DeskThrows(s)
    \/ \E h \in Handlers : ReleaseEnters(s, h)

OpsNext ==
    \/ Underlying /\ UNCHANGED <<now, lease, desk, freed, lapsed>>
    \/ \E s \in Staff : Dispatching(s)
    \/ \E h \in Handlers : ReleaseOnAssignment(h) \/ AnnounceFreed(h) \/ HandlerThrows(h)
    \/ \E r \in Rides : SweepReleases(r)
    \/ SweepReads \/ SweepAborts \/ TimePasses \/ OpsRestart

OpsSpec == OpsInit /\ [][OpsNext]_opsVars

\* The sweeper's timer runs whether or not anybody is connected; its ticks may
\* fail any number of times, but not for ever.
FairOpsSpec ==
    /\ OpsSpec
    /\ WF_opsVars(SweepReads)
    /\ \A r \in Rides : SF_opsVars(SweepReleases(r))

-------------------------------------------------------------------------------
(* Properties *)

\* Two dispatchers pressing TAKE OVER never both end up with control: while a
\* lease is live, no takeover, renewal or late write of a request that was
\* called long ago hands it to somebody else.
LiveLeaseNotStolen ==
    [][\A r \in Rides :
           Live(r, now) => lease'[r].owner \in {lease[r].owner, NoStaff}]_opsVars

\* A dispatcher whose phone died does not hold a ride for ever: a lease whose
\* time is over is given back or taken anew, although sweeps may fail and the
\* process may restart.
ExpiredReturns == \A r \in Rides : Expired(r, now) ~> ~Expired(r, now)

\* Operations' interventions add nothing to what may happen to a ride: there
\* is no second way in which it gains, loses or changes its driver.
ImplementsLifecycle == Spec

\* The sweep returns lapsed leases only ("Return every lapsed lease to AUTO";
\* "There is no read-then-write anywhere in this file").
SweepSparesLive ==
    [][\A r \in Rides :
           r \in lapsed /\ Live(r, now) /\ lapsed' = lapsed \ {r}
               => lease'[r].owner = lease[r].owner]_opsVars
===============================================================================
