---------------------------- MODULE RideSettlement ----------------------------
(***************************************************************************)
(* The money of a finished ride: settleAndComplete, the operator's Retry,  *)
(* Release and Void, and the recovery worker (sockets/socket_handler.ts,   *)
(* routes/admin_routes.ts, services/wallet_service.ts,                     *)
(* services/financial_recovery_worker.ts).                                 *)
(*                                                                         *)
(* A posting is one database transaction, so a ride's ledger is abstracted *)
(* to how many postings were made and how many a void gave back; amounts   *)
(* and wallets do not matter to the properties here.  As in RideLifecycle, *)
(* call[p] is the await an invocation is suspended at.  An await that      *)
(* rejects is one step with the catch block it leads to.                   *)
(*                                                                         *)
(* A ride of this module is in progress or completed: what else may become *)
(* of it is RideLifecycle's.  Fares are positive and every ride here has a *)
(* driver (RideLifecycle's OwnershipInv), so the NO_DRIVER and NO_FARE     *)
(* refusals of retryFailedPosting do not arise.                            *)
(***************************************************************************)
EXTENDS Naturals

CONSTANTS
    Rides,         \* rides whose trip has begun
    Handlers,      \* concurrent invocations on behalf of drivers and staff
    Worker,        \* the recovery worker's one running tick
    NoRide,        \* an idle invocation's ride
    MaxAttempts,   \* MAX_ATTEMPTS of the worker
    MaxCharges     \* bound: postings made for one ride

ASSUME SettlementAssumption ==
    /\ NoRide \notin Rides
    /\ Worker \notin Handlers
    /\ MaxAttempts \in Nat \ {0}
    /\ MaxCharges \in Nat \ {0}

VARIABLES
    ride,      \* ride[r]: the financial columns of the ride row
    ledger,    \* ledger[r]: postings made and postings given back
    call,      \* call[p]: the await invocation p is suspended at
    batch      \* rides the worker's tick has selected and not yet tried

vars == <<ride, ledger, call, batch>>

-------------------------------------------------------------------------------
(* Types *)

Payers == Handlers \cup {Worker}

\* nextRetry is financialNextRetryAt: NULL, in the future, or due.
RideRow == [completed : BOOLEAN, failed : BOOLEAN, held : BOOLEAN,
            voided : BOOLEAN, quarantined : BOOLEAN,
            retries : 0..MaxAttempts, nextRetry : {"never", "waiting", "due"}]

Ledger == [charged : 0..MaxCharges, refunded : Nat]

Step == {"idle", "settle", "finish", "count", "post", "clear", "recovered",
         "refused", "release", "unhold", "reverse", "refund", "void"}

\* amount: the postings a void has read and is about to give back.
Call == [at : Step, ride : Rides \cup {NoRide}, amount : 0..MaxCharges]

Idle == [at |-> "idle", ride |-> NoRide, amount |-> 0]

TypeOK ==
    /\ ride \in [Rides -> RideRow]
    /\ ledger \in [Rides -> Ledger]
    /\ call \in [Payers -> Call]
    /\ batch \subseteq Rides

InProgress == [completed |-> FALSE, failed |-> FALSE, held |-> FALSE,
               voided |-> FALSE, quarantined |-> FALSE,
               retries |-> 0, nextRetry |-> "never"]

\* A ride the migration quarantined: completed, its posting failed long ago.
Historical == [completed |-> TRUE, failed |-> TRUE, held |-> FALSE,
               voided |-> FALSE, quarantined |-> TRUE,
               retries |-> 0, nextRetry |-> "never"]

Init ==
    /\ ride \in [Rides -> {InProgress, Historical}]
    /\ ledger = [r \in Rides |-> [charged |-> 0, refunded |-> 0]]
    /\ call = [p \in Payers |-> Idle]
    /\ batch = {}

-------------------------------------------------------------------------------
(* Helpers *)

Begin(p, at, r) ==
    /\ call[p].at = "idle"
    /\ call' = [call EXCEPT ![p] = [at |-> at, ride |-> r, amount |-> 0]]

Resume(p, from, to) ==
    /\ call[p].at = from
    /\ call' = [call EXCEPT ![p] = IF to = "idle" THEN Idle
                                   ELSE [@ EXCEPT !.at = to]]

\* UPDATE ride SET ... WHERE rideId = r, by primary key.
Write(r, new) == ride' = [ride EXCEPT ![r] = new]

\* postRideFinancials commits.  It looks at neither the ride nor the ledger.
Charge(r) ==
    /\ ledger[r].charged < MaxCharges
    /\ ledger' = [ledger EXCEPT ![r].charged = @ + 1]

-------------------------------------------------------------------------------
(* Completion: settleAndComplete *)

\* Mutant: the status is written first, the money follows.
SettleCompletes(p, r) ==
    /\ ~ride[r].completed
    /\ Begin(p, "settle", r)
    /\ Write(r, [ride[r] EXCEPT !.completed = TRUE])
    /\ UNCHANGED <<ledger, batch>>

\* A completing handler has read status in_progress.
SettleCheck(p, r) ==
    /\ ~ride[r].completed
    /\ Begin(p, "settle", r)
    /\ UNCHANGED <<ride, ledger, batch>>

SettleHold(p) ==
    LET r == call[p].ride IN
    /\ Resume(p, "settle", "finish")
    /\ Write(r, [ride[r] EXCEPT !.held = TRUE])
    /\ UNCHANGED <<ledger, batch>>

SettlePost(p) ==
    /\ Resume(p, "settle", "finish")
    /\ Charge(call[p].ride)
    /\ UNCHANGED <<ride, batch>>

\* The posting is refused, or commits and its answer is lost: flag it, and
\* schedule the first automatic attempt.
SettleFails(p) ==
    LET r == call[p].ride IN
    /\ Resume(p, "settle", "finish")
    /\ Write(r, [ride[r] EXCEPT !.failed = TRUE, !.nextRetry = "waiting"])
    /\ Charge(r) \/ UNCHANGED ledger
    /\ UNCHANGED batch

SettleFinish(p) ==
    LET r == call[p].ride IN
    /\ Resume(p, "finish", "idle")
    /\ Write(r, [ride[r] EXCEPT !.completed = TRUE])
    /\ UNCHANGED <<ledger, batch>>

-------------------------------------------------------------------------------
(* WalletService.retryFailedPosting, for an operator or the worker *)

Retriable(r) == ride[r].completed /\ ~ride[r].voided /\ ~ride[r].quarantined

\* Mutant: an operator's Retry may charge a quarantined ride.
RetryAnything(p, r) ==
    /\ ride[r].completed /\ ~ride[r].voided
    /\ Begin(p, "count", r)
    /\ UNCHANGED <<ride, ledger, batch>>

\* The operator's retry route; a refusal changes nothing.
RetryRead(p, r) ==
    /\ Retriable(r)
    /\ Begin(p, "count", r)
    /\ UNCHANGED <<ride, ledger, batch>>

\* The idempotency guard: does the ride have ledger entries?
CountEntries(p) ==
    /\ Resume(p, "count",
              IF ledger[call[p].ride].charged = 0 THEN "post" ELSE "clear")
    /\ UNCHANGED <<ride, ledger, batch>>

RetryPost(p) ==
    /\ Resume(p, "post", "clear")
    /\ Charge(call[p].ride)
    /\ UNCHANGED <<ride, batch>>

\* The flag goes, whether just posted or found posted.
ClearFailed(p) ==
    LET r == call[p].ride IN
    /\ Resume(p, "clear", IF p = Worker THEN "recovered" ELSE "idle")
    /\ Write(r, [ride[r] EXCEPT !.failed = FALSE])
    /\ UNCHANGED <<ledger, batch>>

-------------------------------------------------------------------------------
(* FinancialRecoveryWorker *)

\* Mutant: the number of attempts is not looked at.
DueUncapped == {r \in Rides : /\ Retriable(r)
                              /\ ride[r].failed /\ ~ride[r].held
                              /\ ride[r].nextRetry = "due"}

\* findDue's WHERE clause; its LIMIT is above the number of rides here.
Due == {r \in Rides : /\ Retriable(r)
                      /\ ride[r].failed /\ ~ride[r].held
                      /\ ride[r].retries < MaxAttempts
                      /\ ride[r].nextRetry = "due"}

TimePasses(r) ==
    /\ ride[r].nextRetry = "waiting"
    /\ Write(r, [ride[r] EXCEPT !.nextRetry = "due"])
    /\ UNCHANGED <<ledger, call, batch>>

\* findDue: the tick works on the rides that were due when it began.
TickStarts ==
    /\ call[Worker].at = "idle" /\ batch = {}
    /\ Due # {}
    /\ batch' = Due
    /\ UNCHANGED <<ride, ledger, call>>

\* retryFailedPosting reads the row again.
WorkerReads(r) ==
    /\ r \in batch
    /\ Begin(Worker, IF Retriable(r) THEN "count" ELSE "refused", r)
    /\ batch' = batch \ {r}
    /\ UNCHANGED <<ride, ledger>>

\* The worker closes its attempt on r: only the worker writes retries, so
\* counting from the row is counting from the batch's copy of it.
Records(r, from, attempts, when) ==
    /\ call[Worker].ride = r
    /\ \E at \in from : Resume(Worker, at, "idle")
    /\ Write(r, [ride[r] EXCEPT !.retries = attempts, !.nextRetry = when])
    /\ UNCHANGED <<ledger, batch>>

Attempt(r) == ride[r].retries + 1

WorkerRecovered(r) == Records(r, {"recovered"}, Attempt(r), "never")

\* A refusal that will never succeed: no more attempts.
WorkerRefused(r) == Records(r, {"refused"}, MaxAttempts, "never")

\* Mutant: an exception schedules no further attempt.
WorkerThrowsLast(r) ==
    Records(r, {"count", "post", "clear", "recovered", "refused"},
            Attempt(r), "never")

\* A call of the attempt rejects: back off, or stop at the cap.
WorkerThrows(r) ==
    Records(r, {"count", "post", "clear", "recovered", "refused"}, Attempt(r),
            IF Attempt(r) >= MaxAttempts THEN "never" ELSE "waiting")

\* The write in the catch block rejects too: the tick is over.
WorkerAborts ==
    /\ call[Worker].at # "idle"
    /\ call' = [call EXCEPT ![Worker] = Idle]
    /\ batch' = {}
    /\ UNCHANGED <<ride, ledger>>

-------------------------------------------------------------------------------
(* POST /rides/:rideId/release and /void *)

ReleaseRead(p, r) ==
    /\ ride[r].held
    /\ Begin(p, "release", r)
    /\ UNCHANGED <<ride, ledger, batch>>

\* Mutant: the hold is lifted before the money is posted.
ReleaseUnholds(p) ==
    LET r == call[p].ride IN
    /\ Resume(p, "release", "unhold")
    /\ Write(r, [ride[r] EXCEPT !.held = FALSE])
    /\ UNCHANGED <<ledger, batch>>

ReleasePost(p) ==
    /\ Resume(p, "release", "unhold")
    /\ Charge(call[p].ride)
    /\ UNCHANGED <<ride, batch>>

Unhold(p) ==
    LET r == call[p].ride IN
    /\ Resume(p, "unhold", "idle")
    /\ Write(r, [ride[r] EXCEPT !.held = FALSE])
    /\ UNCHANGED <<ledger, batch>>

\* Any ride that is not voided yet, whatever its status.
VoidRead(p, r) ==
    /\ ~ride[r].voided
    /\ Begin(p, "reverse", r)
    /\ UNCHANGED <<ride, ledger, batch>>

\* reverseRideFinancials reads the entries, without a lock ...
ReverseRead(p) ==
    LET entries == ledger[call[p].ride]
        due     == IF entries.refunded > 0 THEN 0 ELSE entries.charged
    IN  /\ call[p].at = "reverse"
        /\ call' = [call EXCEPT ![p] =
                      [@ EXCEPT !.at = IF due = 0 THEN "void" ELSE "refund",
                                !.amount = due]]
        /\ UNCHANGED <<ride, ledger, batch>>

\* ... and commits the opposite entries.
Refund(p) ==
    /\ Resume(p, "refund", "void")
    /\ ledger' = [ledger EXCEPT ![call[p].ride].refunded = @ + call[p].amount]
    /\ UNCHANGED <<ride, batch>>

MarkVoided(p) ==
    LET r == call[p].ride IN
    /\ Resume(p, "void", "idle")
    /\ Write(r, [ride[r] EXCEPT !.held = FALSE, !.voided = TRUE])
    /\ UNCHANGED <<ledger, batch>>

-------------------------------------------------------------------------------
(* Failures *)

\* An await of a driver's or operator's handler rejects outside
\* settleAndComplete's try: the catch writes nothing.
Throw(p) ==
    /\ call[p].at # "idle"
    /\ call' = [call EXCEPT ![p] = Idle]
    /\ UNCHANGED <<ride, ledger, batch>>

\* The process dies; rows and ledger survive.
Restart ==
    /\ call' = [p \in Payers |-> Idle]
    /\ batch' = {}
    /\ UNCHANGED <<ride, ledger>>

-------------------------------------------------------------------------------

Settlement(p) ==
    \/ \E r \in Rides : SettleCheck(p, r)
    \/ SettleHold(p) \/ SettlePost(p) \/ SettleFails(p) \/ SettleFinish(p)

Retry(p) == CountEntries(p) \/ RetryPost(p) \/ ClearFailed(p)

Review(p) ==
    \/ \E r \in Rides : RetryRead(p, r) \/ ReleaseRead(p, r) \/ VoidRead(p, r)
    \/ ReleasePost(p) \/ Unhold(p)
    \/ ReverseRead(p) \/ Refund(p) \/ MarkVoided(p)

Recording(r) == WorkerRecovered(r) \/ WorkerRefused(r) \/ WorkerThrows(r)

Tick ==
    \/ TickStarts
    \/ \E r \in Rides : WorkerReads(r) \/ Recording(r)
    \/ Retry(Worker)

Next ==
    \/ \E p \in Handlers : Settlement(p) \/ Retry(p) \/ Review(p) \/ Throw(p)
    \/ \E r \in Rides : TimePasses(r)
    \/ Tick \/ WorkerAborts \/ Restart

Spec == Init /\ [][Next]_vars

\* The timer keeps ticking and time passes.  A tick may be aborted and the
\* process may restart, any number of times; but not for ever before a tick
\* gets to its rides, nor before it records an attempt.
FairSpec ==
    /\ Spec
    /\ WF_vars(Tick)
    /\ \A r \in Rides : /\ WF_vars(TimePasses(r))
                       /\ SF_vars(WorkerReads(r)) /\ SF_vars(Recording(r))

-------------------------------------------------------------------------------
(* Properties *)

\* The ride has a posting, or a flag that says why not.
Settled(r) == \/ ledger[r].charged > 0
              \/ ride[r].failed \/ ride[r].held \/ ride[r].voided

\* No completed ride loses its money unnoticed: whatever failed, raced or
\* crashed, it has a posting, or a flag that puts it before the worker or a
\* reviewer, or somebody decided that nothing is due (the 99 completed rides
\* with unposted commission that the recovery worker was written for).
Accounted == \A r \in Rides : ride[r].completed => Settled(r)

\* What a suspended settlement, retry, release, void or tick may still rely on
\* after any other handlers ran: an invocation that is about to drop a flag has
\* the posting behind it, a refund is of money that was taken, and the ride the
\* worker has in hand is out of its batch and has an attempt left.
BackedInv ==
    /\ \A r \in Rides : ledger[r].refunded > 0 => ledger[r].charged > 0
    /\ \A p \in Payers :
        LET c == call[p] IN
        /\ IF c.at = "idle" THEN c.ride = NoRide ELSE c.ride \in Rides
        /\ c.at \in {"clear", "unhold"} => ledger[c.ride].charged > 0
        /\ c.at = "finish" => Settled(c.ride)
        /\ c.at = "refund" => c.amount > 0 /\ ledger[c.ride].charged > 0
    /\ call[Worker].ride \notin batch
    /\ \A r \in Rides : r \in batch \/ call[Worker].ride = r
                          => ride[r].retries < MaxAttempts

\* "The historical dataset is deliberately untouchable here": no path, worker,
\* Retry or Release, charges a quarantined ride.
HistoricalUntouched ==
    [][\A r \in Rides :
           ride[r].quarantined => ledger'[r].charged = ledger[r].charged]_vars

\* A failed posting is not a dead end: it is posted, or taken out of the
\* worker's hands by a decision, or its attempts are used up and it is left to
\* a person.
FailureResolved ==
    \A r \in Rides :
        ride[r].completed /\ ride[r].failed /\ ~ride[r].quarantined
            ~> \/ ledger[r].charged > 0
               \/ ride[r].voided \/ ride[r].held
               \/ ride[r].retries = MaxAttempts

Charges(p, r) == call[p].ride = r /\ ledger'[r].charged > ledger[r].charged

\* A retry never charges a ride that another retry has just posted or found
\* posted ("Two operators pressing Retry at the same moment both find entries
\* after the first commits, so the second is a no-op rather than a double
\* charge", retryFailedPosting).
RetryIsNoop ==
    [][\A p, q \in Payers, r \in Rides :
           /\ Charges(p, r) /\ call[p].at = "post"
           /\ call[q].ride = r
           => call[q].at # "clear"]_vars
===============================================================================
