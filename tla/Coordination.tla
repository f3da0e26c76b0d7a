---------------------------- MODULE Coordination -------------------------------
(***************************************************************************)
(* The conversation about one accepted ride that is not moving: the        *)
(* sweeper that asks both parties, their answers, and a party's request    *)
(* to cancel (services/stale_ride_service.ts, services/stale_ride_sweeper  *)
(* .ts, services/ride_activity_service.ts, terminate of                    *)
(* services/ride_cleanup_service.ts, and the handlers of                   *)
(* sockets/socket_handler.ts).                                             *)
(*                                                                         *)
(* Minutes are abstracted to what evaluate compares: whether the deadline  *)
(* with its extension has passed, whether the answer window of a request   *)
(* has closed, and how long the ride has been quiet.  Reminders, delay     *)
(* states and wording change none of it and are left out.                  *)
(***************************************************************************)
EXTENDS Naturals, FiniteSets

CONSTANT MaxExtensions  \* config.maxExtensions

ASSUME MaxExtensionsAssumption == MaxExtensions \in Nat

VARIABLES
    talk,       \* the ride row's coordination columns
    late,       \* now is past the deadline and its override
    closed,     \* the pending request is older than decisionWindowMinutes
    quiet,      \* the last activity is older than mutualAbandonmentMinutes
    sweep,      \* the sweeper's pass over this ride
    answer,     \* answer[p]: the handler serving party p
    sawDark     \* a sweep has read both parties offline and the ride quiet
                \* (history)

coordVars == <<talk, late, closed, quiet, sweep, answer, sawDark>>

-------------------------------------------------------------------------------
(* Types *)

Parties == {"passenger", "driver"}
OtherParty(p) == IF p = "passenger" THEN "driver" ELSE "passenger"

Waiting == {"accepted", "arrived"}

\* cause: which path wrote the cancellation.  asked: some prompt was ever sent.
Talk == [phase : Waiting \cup {"in_progress", "canceled"},
         prompted : BOOLEAN, asked : BOOLEAN, choice : {"none", "wait", "cancel"},
         extensions : 0..MaxExtensions,
         request : {"none", "pending", "accepted", "declined"},
         requester : Parties \cup {"nobody"},
         cause : {"none", "agreement", "unanswered", "abandoned"}]

\* A pass over the ride: loaded with what it read, or inside terminate.
SweepPoint == {"idle", "loaded", "flip"}

\* The await a party's handler is suspended before.
AnswerPoint == {"idle", "wait", "cancel", "extend", "accept",
                "decline", "terminate_prompted", "terminate", "flip"}

CoordTypeOK ==
    /\ talk \in Talk
    /\ {late, closed, quiet, sawDark} \subseteq BOOLEAN
    /\ sweep \in [at : SweepPoint, phase : Waiting \cup {"in_progress"},
                  verdict : {"none", "prompt", "unanswered", "abandoned"}]
    /\ answer \in [Parties -> AnswerPoint]

NoSweep == [at |-> "idle", phase |-> "accepted", verdict |-> "none"]

CoordInit ==
    /\ talk = [phase |-> "accepted", prompted |-> FALSE, asked |-> FALSE,
               choice |-> "none", extensions |-> 0, request |-> "none",
               requester |-> "nobody", cause |-> "none"]
    /\ late = FALSE /\ closed = FALSE /\ sawDark = FALSE
    /\ quiet = FALSE
    /\ sweep = NoSweep
    /\ answer = [p \in Parties |-> "idle"]

-------------------------------------------------------------------------------
(* The policy: StaleRideService.evaluate on the row and the evidence *)

\* The party whose action the ride needs.
Awaited == IF talk.phase = "accepted" THEN "driver" ELSE "passenger"

\* live: parties with a heartbeat, a socket or recent activity.
Dark(live) == quiet /\ live = {}

\* Mutant: both parties offline is taken for abandonment, however recent.
VerdictHasty(live, gone) ==
    IF ~late \/ talk.phase \notin Waiting THEN "none"
    ELSE IF talk.request = "pending" THEN IF closed THEN "unanswered" ELSE "none"
    ELSE IF live = {} THEN "abandoned"
    ELSE IF ~talk.prompted THEN "prompt" ELSE "none"

\* Past the deadline, first match wins: a pending request, abandonment,
\* an unreachable party, the first prompt; an answered prompt only reminds.
\* gone: the awaited party is offline for escalateAfterOfflineMinutes, which is
\* told to staff once and changes nothing else.
Verdict(live, gone) ==
    IF ~late \/ talk.phase \notin Waiting THEN "none"
    ELSE IF talk.request = "pending" THEN IF closed THEN "unanswered" ELSE "none"
    ELSE IF Dark(live) THEN "abandoned"
    ELSE IF gone /\ live = {OtherParty(Awaited)}
         THEN "none"
    ELSE IF ~talk.prompted THEN "prompt" ELSE "none"

-------------------------------------------------------------------------------
(* The sweeper *)

\* loadCandidates, withLiveEvidence and evaluate: what the pass acts on is
\* what it read here.
SweepLoads ==
    /\ sweep.at = "idle"
    /\ talk.phase # "canceled"
    /\ \E live \in SUBSET Parties, gone \in BOOLEAN :
          /\ sweep' = [at |-> "loaded", phase |-> talk.phase,
                        verdict |-> Verdict(live, gone)]
          /\ sawDark' = (sawDark \/ Dark(live))
    /\ UNCHANGED <<talk, late, closed, quiet, answer>>

SweepSkips ==
    /\ sweep.at = "loaded" /\ sweep.verdict = "none"
    /\ sweep' = NoSweep
    /\ UNCHANGED <<talk, late, closed, quiet, answer, sawDark>>

\* promptDecision: its UPDATE asks again unless the row is prompted or moved on.
SweepPrompts ==
    /\ sweep.at = "loaded" /\ sweep.verdict = "prompt"
    /\ sweep' = NoSweep
    /\ talk' = IF ~talk.prompted /\ talk.phase = sweep.phase
               THEN [talk EXCEPT !.prompted = TRUE, !.asked = TRUE, !.choice = "none"]
               ELSE talk
    /\ UNCHANGED <<late, closed, quiet, answer, sawDark>>

\* Mutant: terminate does not ask for a prompt on record.
SweepTerminatesUnasked ==
    /\ sweep.at = "loaded" /\ sweep.verdict \in {"unanswered", "abandoned"}
    /\ sweep' = IF talk.phase = sweep.phase THEN [sweep EXCEPT !.at = "flip"] ELSE NoSweep
    /\ UNCHANGED <<talk, late, closed, quiet, answer, sawDark>>

\* cancel enters terminate: the row is read again; it must still be in the
\* phase the pass read, and prompted unless both parties are gone.
SweepTerminates ==
    /\ sweep.at = "loaded" /\ sweep.verdict \in {"unanswered", "abandoned"}
    /\ sweep' = IF talk.phase = sweep.phase
                   /\ (talk.prompted \/ sweep.verdict = "abandoned")
                THEN [sweep EXCEPT !.at = "flip"] ELSE NoSweep
    /\ UNCHANGED <<talk, late, closed, quiet, answer, sawDark>>

\* terminate's UPDATE: the expected status and startedAt IS NULL, no more.
SweepCancels ==
    /\ sweep.at = "flip"
    /\ talk' = IF talk.phase = sweep.phase
               THEN [talk EXCEPT !.phase = "canceled", !.cause = sweep.verdict] ELSE talk
    /\ sweep' = NoSweep
    /\ UNCHANGED <<late, closed, quiet, answer, sawDark>>

-------------------------------------------------------------------------------
(* The parties *)

Serve(p, from, to) ==
    /\ answer[p] = from
    /\ answer' = [answer EXCEPT ![p] = to]

\* ride:stale_decision reads the row: something was asked, the ride is open.
Decide(p, choice) ==
    /\ talk.prompted /\ talk.phase # "canceled"
    /\ Serve(p, "idle", choice)
    /\ UNCHANGED <<talk, late, closed, quiet, sweep, sawDark>>

\* The first answer of a round claims it; a later one is told so.
Unclaimed == talk.choice = "none" /\ talk.phase \in Waiting

ClaimWait(p) ==
    /\ Serve(p, "wait", IF Unclaimed THEN "extend" ELSE "idle")
    /\ talk' = IF Unclaimed THEN [talk EXCEPT !.choice = "wait"] ELSE talk
    /\ UNCHANGED <<late, closed, quiet, sweep, sawDark>>

ClaimCancel(p) ==
    /\ Serve(p, "cancel", IF Unclaimed THEN "terminate_prompted" ELSE "idle")
    /\ talk' = IF Unclaimed THEN [talk EXCEPT !.choice = "cancel"] ELSE talk
    /\ UNCHANGED <<late, closed, quiet, sweep, sawDark>>

\* The extension, where one is left: a later deadline, the prompt withdrawn.
Extend(p) ==
    /\ Serve(p, "extend", "idle")
    /\ IF talk.phase # "canceled" /\ talk.extensions < MaxExtensions
       THEN /\ talk' = [talk EXCEPT !.extensions = @ + 1, !.prompted = FALSE]
            /\ late' = FALSE
       ELSE UNCHANGED <<talk, late>>
    /\ UNCHANGED <<closed, quiet, sweep, sawDark>>

\* ride:still_coming: the driver's extension, which leaves a prompt standing.
StillComing ==
    /\ talk.phase \in Waiting /\ talk.extensions < MaxExtensions
    /\ talk' = [talk EXCEPT !.extensions = @ + 1]
    /\ late' = FALSE
    /\ UNCHANGED <<closed, quiet, sweep, answer, sawDark>>

\* ride:cancel_request: the phase is read before the UPDATE, which refuses
\* only a finished ride or beside a pending request; a trip may start between.
AskToCancel(p) ==
    /\ answer[p] = "idle"
    /\ talk.phase # "canceled" /\ talk.request # "pending"
    /\ talk' = [talk EXCEPT !.request = "pending", !.requester = p]
    /\ closed' = FALSE
    /\ UNCHANGED <<late, quiet, sweep, answer, sawDark>>

\* ride:cancel_response of the other party to a pending request.
Respond(p, decision) ==
    /\ talk.request = "pending" /\ talk.requester = OtherParty(p)
    /\ Serve(p, "idle", decision)
    /\ UNCHANGED <<talk, late, closed, quiet, sweep, sawDark>>

AcceptRequest(p) ==
    /\ Serve(p, "accept", "terminate")
    /\ talk' = [talk EXCEPT !.request = "accepted"]
    /\ UNCHANGED <<late, closed, quiet, sweep, sawDark>>

\* "Continue": the request is declined, and the answer counts as a wait.
DeclineRequest(p) ==
    /\ Serve(p, "decline", "idle")
    /\ talk' = IF talk.phase = "canceled" THEN talk
               ELSE [talk EXCEPT !.request = "declined", !.choice = "wait"]
    /\ quiet' = (quiet /\ talk.phase = "canceled")
    /\ UNCHANGED <<late, closed, sweep, sawDark>>

\* A party's own cancellation goes through terminate as well: read, UPDATE.
PartyTerminates(p) ==
    /\ \/ Serve(p, "terminate_prompted",
                IF talk.prompted /\ talk.phase \in Waiting THEN "flip" ELSE "idle")
       \/ Serve(p, "terminate", IF talk.phase \in Waiting THEN "flip" ELSE "idle")
    /\ UNCHANGED <<talk, late, closed, quiet, sweep, sawDark>>

PartyCancels(p) ==
    /\ Serve(p, "flip", "idle")
    /\ talk' = IF talk.phase \in Waiting
               THEN [talk EXCEPT !.phase = "canceled", !.cause = "agreement"] ELSE talk
    /\ UNCHANGED <<late, closed, quiet, sweep, sawDark>>

-------------------------------------------------------------------------------
(* The ride and the clock *)

\* The driver arrives, which starts the arrived deadline, or starts the trip.
Progress ==
    /\ talk.phase \in Waiting
    /\ \/ /\ talk.phase = "accepted"
          /\ talk' = [talk EXCEPT !.phase = "arrived"]
          /\ late' = FALSE
       \/ /\ talk' = [talk EXCEPT !.phase = "in_progress"]
          /\ UNCHANGED late
    /\ UNCHANGED <<closed, quiet, sweep, answer, sawDark>>

DeadlinePasses ==
    /\ ~late /\ late' = TRUE
    /\ UNCHANGED <<talk, closed, quiet, sweep, answer, sawDark>>

RequestWindowCloses ==
    /\ talk.request = "pending" /\ ~closed /\ closed' = TRUE
    /\ UNCHANGED <<talk, late, quiet, sweep, answer, sawDark>>

FallQuiet ==
    /\ ~quiet /\ quiet' = TRUE
    /\ UNCHANGED <<talk, late, closed, sweep, answer, sawDark>>

\* ride:activity, or a driver measurably closer.
Activity ==
    /\ quiet /\ quiet' = FALSE
    /\ UNCHANGED <<talk, late, closed, sweep, answer, sawDark>>

-------------------------------------------------------------------------------

SweepStep ==
    SweepSkips \/ SweepPrompts \/ SweepTerminates \/ SweepCancels

PartyStep(p) ==
    \/ ClaimWait(p) \/ ClaimCancel(p) \/ Extend(p)
    \/ AcceptRequest(p) \/ DeclineRequest(p) \/ PartyTerminates(p) \/ PartyCancels(p)

CoordNext ==
    \/ SweepLoads \/ SweepStep \/ StillComing \/ Progress \/ DeadlinePasses
    \/ RequestWindowCloses \/ FallQuiet \/ Activity
    \/ \E p \in Parties :
          \/ PartyStep(p) \/ AskToCancel(p)
          \/ \E choice \in {"wait", "cancel"} : Decide(p, choice)
          \/ \E decision \in {"accept", "decline"} : Respond(p, decision)

CoordSpec == CoordInit /\ [][CoordNext]_coordVars

\* Sweeps come round, handlers' awaits return, the clock moves.
CoordFairness ==
    /\ WF_coordVars(SweepLoads) /\ WF_coordVars(SweepStep)
    /\ \A p \in Parties : WF_coordVars(PartyStep(p))
    /\ WF_coordVars(DeadlinePasses) /\ WF_coordVars(RequestWindowCloses)

FairCoordSpec == CoordSpec /\ CoordFairness

-------------------------------------------------------------------------------
(* Properties *)

\* Silence alone never cancels: a ride is cancelled because a party asked, or
\* because a sweep read both parties offline and the ride long quiet.
CancelledForCause ==
    talk.phase = "canceled" =>
        \/ talk.cause = "agreement" /\ (talk.asked \/ talk.request # "none")
        \/ talk.cause = "unanswered" /\ talk.request # "none"
        \/ talk.cause = "abandoned" /\ sawDark

\* No silent cancellation (ride_cleanup_service.ts:152): a request that went
\* unanswered ends the ride only once both parties have been asked.
AskedBeforeUnanswered == talk.cause = "unanswered" => talk.asked

\* A cancellation request nobody answers stands in the end
\* (stale_ride_service.ts:462): it does not stay pending for ever.
UnansweredRequestStands ==
    [](talk.request = "pending" /\ talk.phase # "canceled" =>
         <>(talk.request # "pending" \/ talk.phase \in {"canceled", "in_progress"}))
===============================================================================
