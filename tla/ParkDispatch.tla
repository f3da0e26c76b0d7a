----------------------------- MODULE ParkDispatch ------------------------------
(***************************************************************************)
(* The park fallback for one searching ride (services/park_dispatch_       *)
(* service.ts, park_selection_service.ts, park_job_sweeper.ts and the      *)
(* conditional updates of repositories/park_dispatch_job_repository.ts).   *)
(* Direct dispatch found nobody; the ride is offered to one park after     *)
(* another, as a job that a dispatcher claims and hands to a driver.       *)
(* The ride row is the arbiter; a job row only follows it.                 *)
(***************************************************************************)
EXTENDS Naturals, Sequences, FiniteSets

CONSTANTS
    Parks,      \* active parks within reach of the pickup
    Staff,      \* dispatchers on an open shift at every one of them
    ParkDrivers,\* drivers on their rosters
    Nobody,     \* no dispatcher, no driver
    MaxParks    \* config.maxParksPerRide

ASSUME ParksAssumption ==
    /\ MaxParks \in Nat \ {0}
    /\ Nobody \notin Staff \cup ParkDrivers

VARIABLES
    parkRide,   \* the ride: searching, taken or over
    jobs,       \* the ride's jobs, in the order they were saved
    release,    \* release[n]: releaseRide for job n (0: for direct dispatch)
    due,        \* jobs the sweep read as past their window
    returning,  \* <<n, d, why>>: returnPendingToQueue for d's offer is in flight
    accepting,  \* the ride:accept in flight, one at a time
    verbal,     \* the verbal assignment in flight, one at a time
    voiding,    \* a cancelForRide is in flight
    dropped     \* a release was lost: its audit threw, or a crash (history)

parkVars == <<parkRide, jobs, release, due, returning, accepting, verbal,
              voiding, dropped>>

-------------------------------------------------------------------------------

LIVE_JOB_STATUSES == {"OFFERED", "CLAIMED", "PENDING"}

Job == [park : Parks, status : LIVE_JOB_STATUSES \cup {"ASSIGNED", "RESOLVED"},
        by : Staff \cup {Nobody}, driver : ParkDrivers \cup {Nobody}]

\* One job per offer: MaxParks of them and, until the count is read again,
\* one more.
JobIds == 1..MaxParks + 1

NoRelease == [at |-> "idle", tried |-> {}, job |-> 0]
NoAccept == [at |-> "idle", driver |-> Nobody]
NoVerbal == [at |-> "idle", job |-> 0]

ParkTypeOK ==
    /\ parkRide \in {"searching", "taken", "over"}
    /\ jobs \in Seq(Job)
    /\ release \in [{0} \cup JobIds ->
           [at : {"idle", "audit", "ride", "live", "tried", "save", "undo", "fail"},
            tried : SUBSET Parks, job : {0} \cup JobIds]]
    /\ due \subseteq JobIds
    /\ returning \subseteq JobIds \X ParkDrivers \X {"answer", "window"}
    /\ accepting \in [at : {"idle", "direct", "park", "books"},
                     driver : ParkDrivers \cup {Nobody}]
    /\ verbal \in [at : {"idle", "assign", "mark"}, job : {0} \cup JobIds]
    /\ voiding \in BOOLEAN
    /\ dropped \in BOOLEAN

\* finalizeUnsuccessfulDispatch has just asked for the first park.
ParkInit ==
    /\ parkRide = "searching"
    /\ jobs = <<>>
    /\ release = [n \in {0} \cup JobIds |->
                     IF n = 0 THEN [NoRelease EXCEPT !.at = "ride"] ELSE NoRelease]
    /\ due = {}
    /\ returning = {}
    /\ accepting = NoAccept
    /\ verbal = NoVerbal
    /\ voiding = FALSE
    /\ dropped = FALSE

-------------------------------------------------------------------------------

LiveJobs == {n \in DOMAIN jobs : jobs[n].status \in LIVE_JOB_STATUSES}

parksAlreadyTried == {jobs[n].park : n \in DOMAIN jobs}

\* A conditional UPDATE of job n: nothing happens unless `cond` holds.
Patch(n, cond, row) == jobs' = IF cond THEN [jobs EXCEPT ![n] = row] ELSE jobs

\* ASSIGNED, or RESOLVED: skipped, rejected, escalated, expired or cancelled.
\* Nobody asks any more who held it.
Closed(row, status) == [row EXCEPT !.status = status, !.by = Nobody, !.driver = Nobody]
Resolved(row) == Closed(row, "RESOLVED")

resolveIfLive(n) == Patch(n, n \in LiveJobs, Resolved(jobs[n]))

ReleaseAt(n, from, to) ==
    /\ release[n].at = from
    /\ release' = [release EXCEPT ![n].at = to]

\* d's pending offer (findPendingForDriver).
PendingFor(d) == {n \in DOMAIN jobs : jobs[n].status = "PENDING" /\ jobs[n].driver = d}

\* A declined or expired offer's return is under way.
Returning(why) == \E n \in DOMAIN jobs, d \in ParkDrivers : <<n, d, why>> \in returning

-------------------------------------------------------------------------------
(* offerToPark, and releaseRide around it *)

\* The switch, the ride: anything but a searching ride is not offered.
OfferReadsRide(n, open) ==
    /\ ReleaseAt(n, "ride", IF open /\ parkRide = "searching" THEN "live" ELSE "fail")
    /\ UNCHANGED <<parkRide, jobs, due, returning, accepting, verbal, voiding, dropped>>

\* A live job is an offer already made.
OfferFindsLive(n) ==
    /\ ReleaseAt(n, "live", IF LiveJobs # {} THEN "idle" ELSE "tried")
    /\ UNCHANGED <<parkRide, jobs, due, returning, accepting, verbal, voiding, dropped>>

\* Mutant: the parks that said no are not left out.
OfferCountsNone(n) ==
    /\ release[n].at = "tried"
    /\ release' = [release EXCEPT ![n].at = "save", ![n].tried = {}]
    /\ UNCHANGED <<parkRide, jobs, due, returning, accepting, verbal, voiding, dropped>>

OfferCounts(n) ==
    /\ release[n].at = "tried"
    /\ release' = [release EXCEPT
          ![n].at = IF MaxParks <= Cardinality(parksAlreadyTried) THEN "fail" ELSE "save",
          ![n].tried = parksAlreadyTried]
    /\ UNCHANGED <<parkRide, jobs, due, returning, accepting, verbal, voiding, dropped>>

\* No park is eligible, or saving throws.
OfferFindsNoPark(n) ==
    /\ ReleaseAt(n, "save", "fail")
    /\ UNCHANGED <<parkRide, jobs, due, returning, accepting, verbal, voiding, dropped>>

\* The best eligible park gets the job, unless UQ_pdj_one_live_per_ride throws.
\* What follows the insert may throw as well, and the job is to be undone.
OfferSaves(n, p, breaks) ==
    /\ release[n].at = "save" /\ p \notin release[n].tried
    /\ Len(jobs) <= MaxParks
    /\ LiveJobs = {}
    /\ jobs' = Append(jobs, [park |-> p, status |-> "OFFERED",
                             by |-> Nobody, driver |-> Nobody])
    /\ release' = [release EXCEPT ![n] =
          IF breaks THEN [at |-> "undo", tried |-> {}, job |-> Len(jobs) + 1]
                    ELSE NoRelease]
    /\ UNCHANGED <<parkRide, due, returning, accepting, verbal, voiding, dropped>>

OfferUndone(n) ==
    /\ ReleaseAt(n, "undo", "fail")
    /\ resolveIfLive(release[n].job)
    /\ UNCHANGED <<parkRide, due, returning, accepting, verbal, voiding, dropped>>

\* Nobody took it: a ride still searching fails.
FailRide(n) ==
    /\ ReleaseAt(n, "fail", "idle")
    /\ parkRide' = IF parkRide = "searching" THEN "over" ELSE parkRide
    /\ UNCHANGED <<jobs, due, returning, accepting, verbal, voiding, dropped>>

-------------------------------------------------------------------------------
(* Dispatchers *)

claim(s, n) ==
    /\ jobs[n].status = "OFFERED"
    /\ jobs' = [jobs EXCEPT ![n].status = "CLAIMED", ![n].by = s]
    /\ UNCHANGED <<parkRide, release, due, returning, accepting, verbal, voiding, dropped>>

\* ELECTRONIC: offer and wait.  The claimer may pick any driver, one who said
\* no before included.  An offer that does not reach the phone is taken back.
offerToDriver(s, n, d, delivered) ==
    /\ jobs[n].status = "CLAIMED" /\ jobs[n].by = s
    /\ delivered \/ ~Returning("answer")
    /\ jobs' = [jobs EXCEPT ![n].status = "PENDING", ![n].driver = d]
    /\ returning' = IF delivered THEN returning ELSE returning \cup {<<n, d, "answer">>}
    /\ UNCHANGED <<parkRide, release, due, accepting, verbal, voiding, dropped>>

\* VERBAL: the driver agreed already; finaliseAssignment assigns the ride ...
assignVerbally(s, n) ==
    /\ jobs[n].status = "CLAIMED" /\ jobs[n].by = s
    /\ verbal = NoVerbal
    /\ verbal' = [at |-> "assign", job |-> n]
    /\ UNCHANGED <<parkRide, jobs, release, due, returning, accepting, voiding, dropped>>

VerbalAssigns ==
    /\ verbal.at = "assign"
    /\ parkRide' = IF parkRide = "searching" THEN "taken" ELSE parkRide
    /\ verbal' = IF parkRide = "searching" THEN [verbal EXCEPT !.at = "mark"] ELSE NoVerbal
    /\ UNCHANGED <<jobs, release, due, returning, accepting, voiding, dropped>>

\* ... and only then closes the job, if it is still there to close.
VerbalMarks ==
    /\ verbal.at = "mark"
    /\ verbal' = NoVerbal
    /\ Patch(verbal.job, jobs[verbal.job].status \in {"CLAIMED", "PENDING"},
             Closed(jobs[verbal.job], "ASSIGNED"))
    /\ UNCHANGED <<parkRide, release, due, returning, accepting, voiding, dropped>>

\* Mutant: the ride is not released with its job.
ResolveOnly(n) ==
    /\ n \in LiveJobs /\ release[n].at = "idle"
    /\ resolveIfLive(n)
    /\ UNCHANGED <<parkRide, release, due, returning, accepting, verbal, voiding, dropped>>

\* skip, reject and escalate: any dispatcher of the park, whoever claimed it.
resolve(n) ==
    /\ n \in LiveJobs /\ release[n].at = "idle"
    /\ resolveIfLive(n)
    /\ release' = [release EXCEPT ![n].at = "audit"]
    /\ UNCHANGED <<parkRide, due, returning, accepting, verbal, voiding, dropped>>

\* The critical audit comes between the job's end and the ride's release: when
\* it throws, nothing releases the ride.
AuditRecorded(n, ok) ==
    /\ ReleaseAt(n, "audit", IF ok THEN "ride" ELSE "idle")
    /\ dropped' = (dropped \/ ~ok)
    /\ UNCHANGED <<parkRide, jobs, due, returning, accepting, verbal, voiding>>

-------------------------------------------------------------------------------
(* Drivers *)

\* ride:accept reads whether a park offer is pending for the driver ...
AcceptReads(d) ==
    /\ accepting = NoAccept /\ parkRide = "searching"
    /\ accepting' = IF PendingFor(d) # {} THEN [at |-> "park", driver |-> d]
                    ELSE [at |-> "direct", driver |-> Nobody]
    /\ UNCHANGED <<parkRide, jobs, release, due, returning, verbal, voiding, dropped>>

\* ... takes the ride if nobody has, and then closes the job it came from, or
\* cancels whatever job the ride has.
AcceptTakes ==
    /\ accepting.at \in {"park", "direct"}
    /\ parkRide' = IF parkRide = "searching" THEN "taken" ELSE parkRide
    /\ accepting' = IF parkRide = "searching" /\ accepting.at = "park"
                       THEN [accepting EXCEPT !.at = "books"] ELSE NoAccept
    /\ voiding' = (voiding \/ (parkRide = "searching" /\ accepting.at = "direct"))
    /\ UNCHANGED <<jobs, release, due, returning, verbal, dropped>>

completePendingAssignment ==
    /\ accepting.at = "books"
    /\ accepting' = NoAccept
    /\ jobs' = [n \in DOMAIN jobs |-> IF n \in PendingFor(accepting.driver)
                   THEN Closed(jobs[n], "ASSIGNED") ELSE jobs[n]]
    /\ UNCHANGED <<parkRide, release, due, returning, verbal, voiding, dropped>>

\* The driver says no, or the sweep finds the offer's window closed, or both:
\* one answer and one pass of the sweep at a time.
Declines(d, n, why) ==
    /\ n \in PendingFor(d) /\ ~Returning(why)
    /\ why = "window" => due = {}
    /\ returning' = returning \cup {<<n, d, why>>}
    /\ UNCHANGED <<parkRide, jobs, release, due, accepting, verbal, voiding, dropped>>

\* Mutant: the UPDATE does not name the driver.
ReturnWhoeverPends(n, d, why) ==
    /\ <<n, d, why>> \in returning
    /\ returning' = returning \ {<<n, d, why>>}
    /\ Patch(n, jobs[n].status = "PENDING",
             [jobs[n] EXCEPT !.status = "CLAIMED", !.driver = Nobody])
    /\ UNCHANGED <<parkRide, release, due, accepting, verbal, voiding, dropped>>

returnToClaimedIfPending(n, d, why) ==
    /\ <<n, d, why>> \in returning
    /\ returning' = returning \ {<<n, d, why>>}
    /\ Patch(n, jobs[n].status = "PENDING" /\ jobs[n].driver = d,
             [jobs[n] EXCEPT !.status = "CLAIMED", !.driver = Nobody])
    /\ UNCHANGED <<parkRide, release, due, accepting, verbal, voiding, dropped>>

-------------------------------------------------------------------------------
(* The sweep, and the ways the ride leaves *)

\* sweepExpired reads the jobs past their window, and acts on each later.  One
\* pass runs at a time (advisory lock), and a ride has one live job.
findExpired(n) ==
    /\ jobs[n].status \in {"OFFERED", "CLAIMED"}
    /\ due = {} /\ ~Returning("window")
    /\ due' = due \cup {n}
    /\ UNCHANGED <<parkRide, jobs, release, returning, accepting, verbal, voiding, dropped>>

sweepExpired(n) ==
    /\ n \in due /\ release[n].at = "idle"
    /\ due' = due \ {n}
    /\ resolveIfLive(n)
    /\ release' = IF n \in LiveJobs THEN [release EXCEPT ![n].at = "ride"] ELSE release
    /\ UNCHANGED <<parkRide, returning, accepting, verbal, voiding, dropped>>

\* The passenger cancels, an operator assigns, or another sweep ends the ride;
\* only the first tells the parks.
RideLeaves(to, tells) ==
    /\ parkRide = "searching"
    /\ parkRide' = to
    /\ voiding' = (voiding \/ tells)
    /\ UNCHANGED <<jobs, release, due, returning, accepting, verbal, dropped>>

cancelForRide ==
    /\ voiding
    /\ voiding' = FALSE
    /\ jobs' = [n \in DOMAIN jobs |-> IF n \in LiveJobs
                   THEN Resolved(jobs[n]) ELSE jobs[n]]
    /\ UNCHANGED <<parkRide, release, due, returning, accepting, verbal, dropped>>

ParkServerDies ==
    /\ \E n \in DOMAIN release : release[n].at # "idle"
    /\ release' = [n \in DOMAIN release |-> NoRelease]
    /\ due' = {} /\ returning' = {} /\ voiding' = FALSE
    /\ accepting' = NoAccept /\ verbal' = NoVerbal
    /\ dropped' = TRUE
    /\ UNCHANGED <<parkRide, jobs>>

ParkNext ==
    \/ \E n \in {0} \cup JobIds :
          \/ \E ok \in BOOLEAN : OfferReadsRide(n, ok) \/ AuditRecorded(n, ok)
          \/ OfferFindsLive(n) \/ OfferCounts(n) \/ OfferFindsNoPark(n)
          \/ \E p \in Parks, breaks \in BOOLEAN : OfferSaves(n, p, breaks)
          \/ OfferUndone(n) \/ FailRide(n)
    \/ \E n \in DOMAIN jobs :
          \/ \E s \in Staff :
                \/ claim(s, n) \/ assignVerbally(s, n)
                \/ \E d \in ParkDrivers, ok \in BOOLEAN : offerToDriver(s, n, d, ok)
          \/ resolve(n) \/ findExpired(n) \/ sweepExpired(n)
          \/ \E d \in ParkDrivers, why \in {"answer", "window"} :
                Declines(d, n, why) \/ returnToClaimedIfPending(n, d, why)
    \/ VerbalAssigns \/ VerbalMarks
    \/ \E d \in ParkDrivers : AcceptReads(d)
    \/ AcceptTakes \/ completePendingAssignment
    \/ RideLeaves("over", TRUE) \/ RideLeaves("over", FALSE) \/ RideLeaves("taken", FALSE)
    \/ cancelForRide \/ ParkServerDies

ParkSpec == ParkInit /\ [][ParkNext]_parkVars

-------------------------------------------------------------------------------
(* Properties *)

\* No passenger is left searching with nobody looking: unless an audit threw or
\* the process died, a searching ride has a live job or a release in flight.
SearchHeld ==
    parkRide = "searching" /\ ~dropped =>
        LiveJobs # {} \/ \E n \in DOMAIN release : release[n].at # "idle"

\* Each park is asked once, and no more than MaxParks of them, although every
\* offer reads what was tried long before it saves its own job.
TriedOnce ==
    /\ \A m, n \in DOMAIN jobs : jobs[m].park = jobs[n].park => m = n
    /\ Len(jobs) <= MaxParks

\* An offer goes back to the dispatcher on its own driver's answer or timeout,
\* never on the late answer of a driver who was offered the job before.
OwnAnswerOnly ==
    [][\A n \in DOMAIN jobs :
          jobs[n].status = "PENDING" /\ jobs'[n].status = "CLAIMED" =>
              \E why \in {"answer", "window"} : <<n, jobs[n].driver, why>> \in returning]_parkVars
===============================================================================
